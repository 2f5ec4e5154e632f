----------------------------- MODULE MCPushToEs -----------------------------
(* Small instances of PushToEs.                                            *)
EXTENDS PushToEs, TLC

CONSTANTS m1, m2, m3, m4, m5, x1, x2, a, b, c, d, e, f

(* a has no timestamp, b and c belong to x1, d to x2, e is too old, f is   *)
(* not JSON; ES will never take c, and in the fair instance d does not     *)
(* encode.                                                                 *)
MCDate == [r \in Rows |-> CASE r = a -> "none" [] r = d -> x2 [] r = e -> "old"
                             [] r = f -> "garbled" [] OTHER -> x1]
MCVerdict == [r \in Rows |-> IF r = c THEN "hopeless" ELSE "ok"]
FairVerdict == [r \in Rows |-> IF r = d THEN "broken" ELSE MCVerdict[r]]

(* A message with every kind of row ES may see, one with files copy() has  *)
(* no queue for, one with too many rows without a timestamp, and two odd   *)
(* ones.                                                                   *)
Mixed == (m1 :> <<<<a>>, <<c, d>>>>) @@ (m2 :> <<<<f, b>>, <<e>>>>)
         @@ (m3 :> <<<<a, a>>, <<e>>, <<b>>>>) @@ (m4 :> << >>) @@ (m5 :> <<<<b>>>>)

(* A message with a hopeless row, and one for another index, whose row     *)
(* does not encode.                                                        *)
Fair == (m1 :> <<<<a, b, c>>>>) @@ (m2 :> <<<<d>>>>)

(* One message, two files, two indexes.                                    *)
Two == m1 :> <<<<b>>, <<d>>>>
==============================================================================
