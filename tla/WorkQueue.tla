------------------------------ MODULE WorkQueue ------------------------------
(***************************************************************************)
(* What the ETL loops promise of the blocks that are announced to them     *)
(* (activedata_etl/etl.py): each waits until its work ends, its output is  *)
(* announced before it is done, and it is given up only after all its      *)
(* attempts.  Nothing is said of messages, receipts, threads and machines: *)
(* EtlLoop has them, and implements this.  Work is done at least once, so  *)
(* a block may be worked on, announce, fail and end again.                 *)
(***************************************************************************)
EXTENDS Naturals

CONSTANTS
  Blocks,       (* what can be announced                                   *)
  Roots,        (* those that come from outside                            *)
  Makes,        (* Makes[b]: the blocks that b is made into                *)
  Works,        (* the blocks that are work at all                         *)
  Patience      (* how many failures are forgiven                          *)

VARIABLES
  announced,    (* the blocks that were ever announced                     *)
  waiting,      (* the blocks somebody will be told of                     *)
  ends,         (* how the work on a block ended, each time                *)
  failed,       (* how often it failed                                     *)
  interrupted   (* the blocks a stop request interrupted                   *)

workVars == <<announced, waiting, ends, failed, interrupted>>

Init ==
  /\ announced = {} /\ waiting = {} /\ interrupted = {}
  /\ ends = [b \in Blocks |-> {}] /\ failed = [b \in Roots |-> 0]

Tell(b) == announced' = announced \cup {b} /\ waiting' = waiting \cup {b}

(* An end says what it means: all output was announced, or no more         *)
(* attempts are due, or there was nothing to do.                           *)
EndsAs(b, f) ==
  /\ ends' = [ends EXCEPT ![b] = @ \cup {f}]
  /\ f = "done" => Makes[b] \subseteq announced'
  /\ f = "rejected" /\ b \in Roots => failed[b] > Patience
  /\ f = "unknown" => Makes[b] = {}
  /\ f = "malformed" <=> b \notin Works

Post(b) == b \in Roots /\ Tell(b) /\ UNCHANGED <<ends, failed, interrupted>>

(* Work on a block announces one of the blocks it makes; with the last of  *)
(* them it may end.                                                        *)
Announce(b, a) ==
  /\ b \in announced /\ a \in Makes[b]
  /\ Tell(a)
  /\ UNCHANGED ends \/ EndsAs(b, "done") \/ EndsAs(b, "swallowed")
  /\ UNCHANGED <<failed, interrupted>>

Finish(b, f) ==
  /\ b \in announced /\ EndsAs(b, f)
  /\ UNCHANGED <<announced, waiting, failed, interrupted>>

Return(b) ==
  /\ b \in announced /\ waiting' = waiting \cup {b}
  /\ UNCHANGED <<announced, ends, failed, interrupted>>

(* Nobody will be told of a block any more only when it has an end, or was *)
(* interrupted.                                                            *)
Forget(b) ==
  /\ ends[b] # {} \/ b \in interrupted
  /\ waiting' = waiting \ {b}
  /\ UNCHANGED <<announced, ends, failed, interrupted>>

Fail(b) ==
  /\ b \in announced \cap Works
  /\ failed' = [r \in Roots |-> IF r = b THEN failed[r] + 1 ELSE failed[r]]
  /\ UNCHANGED <<announced, waiting, ends, interrupted>>

Interrupt(b) ==
  /\ b \in announced \cap Works /\ interrupted' = interrupted \cup {b}
  /\ UNCHANGED <<announced, waiting, ends, failed>>

Next == \E b \in Blocks :
  \/ Post(b) \/ Return(b) \/ Forget(b) \/ Fail(b) \/ Interrupt(b)
  \/ \E a \in Blocks : Announce(b, a)
  \/ \E f \in {"done", "swallowed", "rejected", "unknown", "malformed"} : Finish(b, f)

Spec == Init /\ [][Next]_workVars
==============================================================================
