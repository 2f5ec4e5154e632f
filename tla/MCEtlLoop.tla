------------------------------ MODULE MCEtlLoop ------------------------------
(* Small instances of EtlLoop.                                             *)
EXTENDS EtlLoop, TLC

CONSTANTS t1, t2, m1, m2, raw, job, text, empty, garbage

(* raw is made into job and into something nobody is told about; job has   *)
(* no worker here: another program takes it.                               *)
ToJobAndSink == [b \in Blocks |-> IF b = raw THEN <<job, Sink>> ELSE << >>]
ToSink == [b \in Blocks |-> IF b = raw THEN <<Sink>> ELSE << >>]
ToNothing == [b \in Blocks |-> << >>]

MCKind == [b \in Blocks |-> CASE b = text -> "text" [] b = empty -> "empty"
                              [] b = garbage -> "garbage" [] OTHER -> "work"]

Apart == [t \in Threads |-> IF t = t1 THEN m1 ELSE m2]
Together == [t \in Threads |-> m1]

(* Exchanging the two threads, each with its machine.                      *)
Swap == {p \in Permutations({t1, t2, m1, m2}) :
           p[t1] \in {t1, t2} /\ (p[t1] = t2 <=> p[m1] = m2)}
SwapThreads == Permutations({t1, t2})

(* The instance has names enough: no add ever waits for one.               *)
RoomLeft == FreeIds # {}
==============================================================================
