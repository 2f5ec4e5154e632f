---------------------------- MODULE EtlLoopProofs ----------------------------
(* Theorems about EtlLoop, for any number of machines, threads, blocks and *)
(* faults: types, no block is lost, what is rejected, what is announced,   *)
(* and (from Attempts left on) why failing work cannot circulate for ever. *)
EXTENDS EtlLoop, FiniteSetTheorems, TLAPS

(* Limit bounds the attempts of a message that is put back.                *)
LEMMA LimitFacts ==
  /\ Limit \in Nat
  /\ \A n \in 0 .. Limit : TryAgain(n) <=> n < Limit
BY LimitsAssumption DEF Limit, TryAgain

LEMMA NothingFacts == Nothing \in Body /\ Nothing.attempts = 0
BY BlocksAssumption, LimitFacts DEF Nothing, Body

(* A message is written under a name that no message and no thread has.    *)
LEMMA WriteFacts ==
  ASSUME NEW b, Write(b)
  PROVE  \E j \in Ids :
           /\ sqs[j] = "absent"
           /\ \A t \in Threads : j \notin pending[t] \cup batch[t]
           /\ sqs' = [sqs EXCEPT ![j] = "visible"]
           /\ body' = [body EXCEPT ![j] = b]
           /\ holder' = [holder EXCEPT ![j] = NoOne]
           /\ posted' = posted \cup {b.block}
<1>1. PICK x \in FreeIds : TRUE
  BY DEF Write
<1>2. (CHOOSE i \in FreeIds : TRUE) \in FreeIds
  BY <1>1
<1> QED BY <1>2 DEF Write, FreeIds, Held

LEMMA WriteTypes ==
  ASSUME TypeOK, NEW b \in Body, Write(b)
  PROVE  /\ sqs' \in [Ids -> {"absent", "visible", "inflight"}]
         /\ body' \in [Ids -> Body]
         /\ holder' \in [Ids -> Threads \cup {NoOne}]
         /\ posted' \subseteq Blocks
<1>1. PICK j \in Ids :
           /\ sqs' = [sqs EXCEPT ![j] = "visible"]
           /\ body' = [body EXCEPT ![j] = b]
           /\ holder' = [holder EXCEPT ![j] = NoOne]
           /\ posted' = posted \cup {b.block}
  BY WriteFacts
<1>2. b.block \in Blocks
  BY DEF Body
<1> QED BY <1>1, <1>2 DEF TypeOK

LEMMA DeleteTypes ==
  ASSUME TypeOK, NEW t, NEW i \in Ids, DeleteMessage(t, i)
  PROVE  /\ sqs' \in [Ids -> {"absent", "visible", "inflight"}]
         /\ body' \in [Ids -> Body]
         /\ holder' \in [Ids -> Threads \cup {NoOne}]
<1>1. CASE /\ sqs' = [sqs EXCEPT ![i] = "absent"]
           /\ holder' = [holder EXCEPT ![i] = NoOne]
           /\ body' \in {body, [body EXCEPT ![i] = Nothing]}
  BY <1>1, NothingFacts DEF TypeOK
<1>2. CASE UNCHANGED queueVars
  BY <1>2 DEF TypeOK, queueVars
<1> QED BY <1>1, <1>2 DEF DeleteMessage

LEMMA BodyFacts ==
  ASSUME NEW b \in Body
  PROVE  /\ b.block \in Blocks
         /\ b.attempts \in 0 .. Limit
         /\ \A n \in 0 .. Limit : [b EXCEPT !.attempts = n] \in Body
BY DEF Body

Wrapped ==
  /\ pending' \in [Threads -> SUBSET Ids]
  /\ batch' \in [Threads -> SUBSET Ids]
  /\ uncopied' \in [Threads -> SUBSET Ids]
  /\ onfail' \in [Threads -> {"top", "retry", "close", "end"}]
  /\ pc' \in [Threads -> Places]

LEMMA CommitTypes ==
  ASSUME TypeOK, NEW t \in Threads, NEW f \in {"top", "retry", "close", "end"},
         Commit(t, f) \/ Rollback(t, f)
  PROVE  Wrapped
BY DEF TypeOK, Commit, Rollback, Places, Wrapped

LEMMA EndTypes ==
  ASSUME TypeOK, NEW t \in Threads, NEW f \in Fates, End(t, f)
  PROVE  fate' \in [Blocks -> SUBSET Fates]
BY BodyFacts DEF TypeOK, End

LEMMA NextWorkerTypes ==
  ASSUME TypeOK, NEW t \in Threads, NEW s \in BOOLEAN, NextWorker(t, s)
  PROVE  /\ Wrapped
         /\ soft' \in [Threads -> BOOLEAN]
         /\ act' \in [Threads -> Nat]
         /\ fate' \in [Blocks -> SUBSET Fates]
<1>1. soft' \in [Threads -> BOOLEAN]
  BY DEF NextWorker, TypeOK
<1>3. CASE act[t] < Len(Workers[todo[t].block])
  <2>1. /\ act' = [act EXCEPT ![t] = @ + 1]
        /\ pc' = [pc EXCEPT ![t] = "work"]
        /\ UNCHANGED <<pending, batch, uncopied, onfail, fate>>
    BY <1>3 DEF NextWorker, Goto, wrapperVars
  <2> QED BY <1>1, <2>1 DEF TypeOK, Places, Wrapped
<1>4. CASE ~(act[t] < Len(Workers[todo[t].block]))
  <2>1. /\ Commit(t, "retry")
        /\ End(t, IF soft'[t] THEN "swallowed" ELSE "done")
        /\ UNCHANGED act
    BY <1>4 DEF NextWorker
  <2>2. (IF soft'[t] THEN "swallowed" ELSE "done") \in Fates
    BY DEF Fates
  <2> QED BY <1>1, <2>1, <2>2, CommitTypes, EndTypes DEF TypeOK
<1> QED BY <1>3, <1>4

(* Only workers of known blocks are run, so what they make is a block.     *)
LEMMA TargetFacts ==
  ASSUME TypeOK, ActOK, NEW t \in Threads, pc[t] \in {"work", "announce"}
  PROVE  Target(t) \in Blocks \cup {Sink}
<1>1. Workers[todo[t].block] \in Seq(Blocks \cup {Sink})
  BY BlocksAssumption DEF TypeOK, Body
<1>2. act[t] \in 1 .. Len(Workers[todo[t].block])
  BY DEF ActOK
<1> QED BY <1>1, <1>2 DEF Target

LEMMA TypeInit == Init => TypeOK
BY NothingFacts, LimitsAssumption DEF Init, TypeOK, Places

LEMMA TypeStep == TypeOK /\ ActOK /\ [Next]_vars => TypeOK'
<1> SUFFICES ASSUME TypeOK, ActOK, [Next]_vars PROVE TypeOK'
  OBVIOUS
<1> USE DEF TypeOK
<1>1. ASSUME NEW t \in Threads, Top(t) PROVE TypeOK'
  BY <1>1, NothingFacts DEF Top, Goto, Places, queueVars, wrapperVars, ledger
<1>2. ASSUME NEW t \in Threads, Read(t) PROVE TypeOK'
  <2>1. PICK i \in Ids :
          /\ sqs' = [sqs EXCEPT ![i] = "inflight"]
          /\ holder' = [holder EXCEPT ![i] = t]
          /\ pending' = [pending EXCEPT ![t] = @ \cup {i}]
          /\ todo' = [todo EXCEPT ![t] = body[i]]
          /\ pc' \in {[pc EXCEPT ![t] = p] : p \in Places}
          /\ please_stop' \in {please_stop, [please_stop EXCEPT ![On[t]] = TRUE]}
          /\ fate' \in {fate, [fate EXCEPT ![body[i].block] = @ \cup {"malformed"}]}
    <3>1. PICK i \in Ids : 
            /\ sqs' = [sqs EXCEPT ![i] = "inflight"]
            /\ holder' = [holder EXCEPT ![i] = t]
            /\ pending' = [pending EXCEPT ![t] = @ \cup {i}]
            /\ todo' = [todo EXCEPT ![t] = body[i]]
            /\ Goto(t, CASE Kind[body[i].block] \in {"work", "text"} -> "dispatch"
                         [] Kind[body[i].block] = "empty" ->
                              IF Kind[body[i].block] = "empty" /\ ~WaitForever THEN "close" ELSE "top"
                         [] Kind[body[i].block] = "garbage" -> "close")
            /\ please_stop' = IF Kind[body[i].block] = "empty" /\ ~WaitForever
                              THEN [please_stop EXCEPT ![On[t]] = TRUE] ELSE please_stop
            /\ fate' = IF Kind[body[i].block] = "work" THEN fate
                       ELSE [fate EXCEPT ![body[i].block] = @ \cup {"malformed"}]
      BY <1>2 DEF Read
    <3>2. Kind[body[i].block] \in Kinds
      BY BodyFacts, BlocksAssumption
    <3>3. pc' \in {[pc EXCEPT ![t] = p] : p \in Places}
      BY <3>1, <3>2 DEF Goto, Places, Kinds
    <3> QED BY <3>1, <3>3
  <2>2. body[i].block \in Blocks
    BY BodyFacts
  <2>3. fate' \in [Blocks -> SUBSET Fates]
    BY <2>1, <2>2 DEF Fates
  <2>4. please_stop' \in [Machines -> BOOLEAN]
    BY <2>1, OnAssumption
  <2>5. pc' \in [Threads -> Places]
    BY <2>1
  <2> QED BY <1>2, <2>1, <2>3, <2>4, <2>5 DEF Read
<1>3. ASSUME NEW t \in Threads, ReadNothing(t) PROVE TypeOK'
  BY <1>3, OnAssumption DEF ReadNothing, Goto, Places, queueVars, wrapperVars, ledger
<1>4. ASSUME NEW t \in Threads, Close(t) PROVE TypeOK'
  BY <1>4 DEF Close, Commit, Places, queueVars, wrapperVars, ledger
<1>5. ASSUME NEW t \in Threads, Dispatch(t) PROVE TypeOK'
  <2>1. CASE Commit(t, "close") /\ UNCHANGED <<act, soft, fate>>
    BY <1>5, <2>1, CommitTypes DEF Dispatch, Wrapped, queueVars
  <2>2. CASE Rollback(t, "retry") /\ UNCHANGED <<act, soft, fate>>
    BY <1>5, <2>2, CommitTypes DEF Dispatch, Wrapped, queueVars
  <2>3. CASE Commit(t, "retry") /\ End(t, "unknown") /\ UNCHANGED <<act, soft>>
    <3>1. "unknown" \in Fates
      BY DEF Fates
    <3> QED BY <1>5, <2>3, <3>1, CommitTypes, EndTypes DEF Dispatch, Wrapped, queueVars
  <2>4. CASE /\ act' = [act EXCEPT ![t] = 1]
             /\ soft' = [soft EXCEPT ![t] = FALSE]
             /\ Goto(t, "work")
             /\ UNCHANGED <<wrapperVars, fate>>
    BY <1>5, <2>4 DEF Dispatch, Goto, Places, queueVars, wrapperVars
  <2> QED BY <1>5, <2>1, <2>2, <2>3, <2>4 DEF Dispatch
<1>6. ASSUME NEW t \in Threads, Transform(t) PROVE TypeOK'
  <2>1. CASE Target(t) = Sink
    BY <1>6, <2>1, NextWorkerTypes DEF Transform, Wrapped, queueVars
  <2>2. CASE Target(t) # Sink
    BY <1>6, <2>2, TargetFacts DEF Transform, Goto, Places, queueVars, wrapperVars
  <2> QED BY <2>1, <2>2
<1>7. ASSUME NEW t \in Threads, TransformWarns(t) PROVE TypeOK'
  BY <1>7, TargetFacts, NextWorkerTypes DEF TransformWarns, MayStore, Wrapped, queueVars
<1>8. ASSUME NEW t \in Threads, TransformFails(t) PROVE TypeOK'
  BY <1>8, TargetFacts DEF TransformFails, MayStore, ToRetry, CountFailure, Goto, Places, queueVars, wrapperVars
<1>9. ASSUME NEW t \in Threads, TransformStops(t) PROVE TypeOK'
  BY <1>9, TargetFacts DEF TransformStops, MayStore, Goto, Places, Body, queueVars, wrapperVars
<1>10. ASSUME NEW t \in Threads, Announce(t) PROVE TypeOK'
  <2>1. [block |-> Target(t), attempts |-> 0] \in Body
    BY <1>10, TargetFacts, LimitFacts DEF Announce, ActOK, Body
  <2> QED BY <1>10, <2>1, WriteTypes, NextWorkerTypes DEF Announce, Wrapped
<1>11. ASSUME NEW t \in Threads, Retry(t) PROVE TypeOK'
  <2>1. TryAgain(todo[t].attempts) => [todo[t] EXCEPT !.attempts = @ + 1] \in Body
    BY LimitFacts, BodyFacts, todo[t] \in Body, todo[t].attempts + 1 \in 0 .. Limit \/ ~TryAgain(todo[t].attempts)
  <2>2. "rejected" \in Fates
    BY DEF Fates
  <2>3. CASE TryAgain(todo[t].attempts)
    BY <1>11, <2>1, <2>3, WriteTypes, CommitTypes DEF Retry, Wrapped
  <2>4. CASE ~TryAgain(todo[t].attempts)
    BY <1>11, <2>2, <2>4, CommitTypes, EndTypes DEF Retry, Wrapped, queueVars
  <2> QED BY <2>3, <2>4
<1>12. ASSUME NEW t \in Threads, Copy(t) PROVE TypeOK'
  BY <1>12, WriteTypes DEF Copy, Goto, Places, queueVars, ledger
<1>13. ASSUME NEW t \in Threads, Delete(t) PROVE TypeOK'
  <2>1. CASE /\ batch[t] = {}
             /\ Goto(t, IF onfail[t] = "end" THEN "end" ELSE "top")
             /\ UNCHANGED <<queueVars, batch>>
    <3>1. pc' \in [Threads -> Places]
      BY <2>1 DEF Goto, Places
    <3> QED BY <1>13, <2>1, <3>1 DEF Delete, queueVars, ledger
  <2>2. ASSUME NEW i \in batch[t], DeleteMessage(t, i), UNCHANGED pc,
               batch' = [batch EXCEPT ![t] = @ \ {i}]
        PROVE  TypeOK'
    <3>1. batch' \in [Threads -> SUBSET Ids]
      BY <2>2
    <3>2. i \in Ids
      OBVIOUS
    <3>3. /\ sqs' \in [Ids -> {"absent", "visible", "inflight"}]
          /\ body' \in [Ids -> Body]
          /\ holder' \in [Ids -> Threads \cup {NoOne}]
      BY <2>2, <3>2, DeleteTypes
    <3> QED BY <1>13, <2>2, <3>1, <3>3 DEF Delete, ledger
  <2> QED BY <1>13, <2>1, <2>2 DEF Delete
<1>14. ASSUME NEW t \in Threads, CallFails(t) PROVE TypeOK'
  BY <1>14, LimitsAssumption DEF CallFails, Fault, CountFailure, Goto, Places, queueVars
<1>15. ASSUME NEW t \in Threads, ReadFails(t) PROVE TypeOK'
  BY <1>15, LimitsAssumption DEF ReadFails, Fault, Goto, Places, queueVars, wrapperVars, ledger
<1>16. ASSUME NEW t \in Threads, AnnounceFails(t) PROVE TypeOK'
  BY <1>16, LimitsAssumption DEF AnnounceFails, Fault, ToRetry, CountFailure, Goto, Places, queueVars, wrapperVars
<1>17. ASSUME NEW t \in Threads, RetryFails(t) PROVE TypeOK'
  BY <1>17, LimitsAssumption DEF RetryFails, Fault, Rollback, Places, queueVars, ledger
<1>18. ASSUME NEW m \in Machines, Stop(m) PROVE TypeOK'
  BY <1>18, LimitsAssumption DEF Stop, Fault, queueVars, wrapperVars, loopVars, ledger
<1>19. ASSUME NEW m \in Machines, Crash(m) PROVE TypeOK'
  BY <1>19, LimitsAssumption DEF Crash, Forget, Fault, Places, queueVars, ledger
<1>20. ASSUME NEW m \in Machines, Restart(m) PROVE TypeOK'
  BY <1>20 DEF Restart, Forget, Places, queueVars, ledger
<1>21. ASSUME NEW b \in Roots, Post(b) PROVE TypeOK'
  <2>1. [block |-> b, attempts |-> 0] \in Body
    BY BlocksAssumption, LimitFacts DEF Body
  <2> QED BY <1>21, <2>1, WriteTypes DEF Post, wrapperVars, loopVars, ledger
<1>22. ASSUME NEW i \in Ids, Expire(i) PROVE TypeOK'
  BY <1>22, LimitsAssumption DEF Expire, Fault, wrapperVars, loopVars, ledger
<1>23. CASE UNCHANGED vars
  BY <1>23 DEF vars, queueVars, wrapperVars, loopVars, ledger
<1> QED
  BY <1>1, <1>2, <1>3, <1>4, <1>5, <1>6, <1>7, <1>8, <1>9, <1>10, <1>11, <1>12, <1>13, <1>14,
     <1>15, <1>16, <1>17, <1>18, <1>19, <1>20, <1>21, <1>22, <1>23
  DEF Next, Step, Fails

(* NextWorker is at the next of the block's workers, or at none.           *)
LEMMA NextWorkerAct ==
  ASSUME TypeOK, ActOK, NEW t \in Threads, NEW s \in BOOLEAN, NextWorker(t, s),
         UNCHANGED todo, pc[t] \in {"work", "announce"}
  PROVE  ActOK'
<1>1. CASE act[t] < Len(Workers[todo[t].block])
  <2>1. act' = [act EXCEPT ![t] = @ + 1] /\ pc' = [pc EXCEPT ![t] = "work"]
    BY <1>1 DEF NextWorker, Goto
  <2>2. Len(Workers[todo[t].block]) \in Nat
    BY BlocksAssumption, BodyFacts DEF TypeOK
  <2> QED BY <1>1, <2>1, <2>2 DEF ActOK, TypeOK, Target
<1>2. CASE ~(act[t] < Len(Workers[todo[t].block]))
  <2>1. UNCHANGED act /\ pc' = [pc EXCEPT ![t] = "delete"]
    BY <1>2 DEF NextWorker, Commit
  <2> QED BY <2>1 DEF ActOK, TypeOK, Target
<1> QED BY <1>1, <1>2

LEMMA ActStep == TypeOK /\ ActOK /\ [Next]_vars => ActOK'
<1> SUFFICES ASSUME TypeOK, ActOK, [Next]_vars PROVE ActOK'
  OBVIOUS
<1> USE DEF TypeOK, ActOK, Target, Goto
<1>1. ASSUME NEW t \in Threads, Top(t) PROVE ActOK'
  BY <1>1 DEF Top
<1>2. ASSUME NEW t \in Threads, Read(t) PROVE ActOK'
  <2>1. Kind[todo'[t].block] \in Kinds
    BY <1>2, BlocksAssumption, BodyFacts DEF Read
  <2>2. pc' \in {[pc EXCEPT ![t] = p] : p \in {"dispatch", "top", "close"}} /\ UNCHANGED act
    BY <1>2, <2>1 DEF Read, Kinds
  <2>3. \A u \in Threads \ {t} : todo'[u] = todo[u]
    BY <1>2 DEF Read
  <2> QED BY <2>2, <2>3
<1>3. ASSUME NEW t \in Threads, ReadNothing(t) PROVE ActOK'
  BY <1>3 DEF ReadNothing
<1>4. ASSUME NEW t \in Threads, Close(t) PROVE ActOK'
  BY <1>4 DEF Close, Commit
<1>5. ASSUME NEW t \in Threads, Dispatch(t) PROVE ActOK'
  <2>1. CASE pc' \in {[pc EXCEPT ![t] = p] : p \in {"copy", "delete"}} /\ UNCHANGED act
    BY <1>5, <2>1 DEF Dispatch
  <2>2. CASE /\ Workers[todo[t].block] # << >>
             /\ act' = [act EXCEPT ![t] = 1]
             /\ pc' = [pc EXCEPT ![t] = "work"]
    <3>1. Workers[todo[t].block] \in Seq(Blocks \cup {Sink})
      BY BlocksAssumption, BodyFacts
    <3>2. 1 \in 1 .. Len(Workers[todo[t].block])
      BY <2>2, <3>1
    <3> QED BY <1>5, <2>2, <3>2 DEF Dispatch
  <2> QED BY <1>5, <2>1, <2>2 DEF Dispatch, Commit, Rollback
<1>6. ASSUME NEW t \in Threads, Transform(t) PROVE ActOK'
  <2>1. CASE Target(t) = Sink
    BY <1>6, <2>1, NextWorkerAct DEF Transform
  <2>2. CASE Target(t) # Sink
    BY <1>6, <2>2 DEF Transform
  <2> QED BY <2>1, <2>2
<1>7. ASSUME NEW t \in Threads, TransformWarns(t) PROVE ActOK'
  BY <1>7, NextWorkerAct DEF TransformWarns
<1>8. ASSUME NEW t \in Threads, TransformFails(t) PROVE ActOK'
  BY <1>8 DEF TransformFails, ToRetry
<1>9. ASSUME NEW t \in Threads, TransformStops(t) PROVE ActOK'
  BY <1>9 DEF TransformStops
<1>10. ASSUME NEW t \in Threads, Announce(t) PROVE ActOK'
  BY <1>10, NextWorkerAct DEF Announce
<1>11. ASSUME NEW t \in Threads, Retry(t) PROVE ActOK'
  BY <1>11 DEF Retry, Commit
<1>12. ASSUME NEW t \in Threads, Copy(t) PROVE ActOK'
  BY <1>12 DEF Copy
<1>13. ASSUME NEW t \in Threads, Delete(t) PROVE ActOK'
  BY <1>13 DEF Delete
<1>14. ASSUME NEW t \in Threads, CallFails(t) PROVE ActOK'
  BY <1>14 DEF CallFails
<1>15. ASSUME NEW t \in Threads, ReadFails(t) PROVE ActOK'
  BY <1>15 DEF ReadFails
<1>16. ASSUME NEW t \in Threads, AnnounceFails(t) PROVE ActOK'
  BY <1>16 DEF AnnounceFails, ToRetry
<1>17. ASSUME NEW t \in Threads, RetryFails(t) PROVE ActOK'
  BY <1>17 DEF RetryFails, Rollback
<1>18. ASSUME NEW m \in Machines, Stop(m) PROVE ActOK'
  BY <1>18 DEF Stop, loopVars
<1>19. ASSUME NEW m \in Machines, Crash(m) PROVE ActOK'
  BY <1>19 DEF Crash, Forget
<1>20. ASSUME NEW m \in Machines, Restart(m) PROVE ActOK'
  BY <1>20 DEF Restart, Forget
<1>21. ASSUME NEW b \in Roots, Post(b) PROVE ActOK'
  BY <1>21 DEF Post, loopVars
<1>22. ASSUME NEW i \in Ids, Expire(i) PROVE ActOK'
  BY <1>22 DEF Expire, loopVars
<1>23. CASE UNCHANGED vars
  BY <1>23 DEF vars, loopVars
<1> QED
  BY <1>1, <1>2, <1>3, <1>4, <1>5, <1>6, <1>7, <1>8, <1>9, <1>10, <1>11, <1>12, <1>13, <1>14,
     <1>15, <1>16, <1>17, <1>18, <1>19, <1>20, <1>21, <1>22, <1>23
  DEF Next, Step, Fails

(* No call that fails, no crash and no redelivery takes a variable out of  *)
(* its type: every block a worker makes is known, every count is bounded.  *)
THEOREM TypeSafety == Spec => []TypeOK
<1>1. Init => TypeOK /\ ActOK
  BY TypeInit DEF Init, ActOK
<1>2. TypeOK /\ ActOK /\ [Next]_vars => (TypeOK /\ ActOK)'
  BY TypeStep, ActStep
<1> QED BY <1>1, <1>2, PTL DEF Spec

-----------------------------------------------------------------------------
(* Nothing that is not settled is lost.                                    *)

Lives(i) == sqs[i] # "absent" /\ i \notin Doomed

(* What a step owes to Safe: it settles no less, it leaves a message for   *)
(* every new block, and for every message it removes or dooms.             *)
LEMMA SafeFrom ==
  ASSUME TypeOK, Safe,
         \A b \in posted : Settled(b) => Settled(b)',
         \A b \in posted' \ posted : \E j \in Ids : Lives(j)' /\ body'[j].block = b,
         \A c \in Blocks : \A i \in Ids : Lives(i) /\ body[i].block = c =>
            \/ Settled(c)'
            \/ \E j \in Ids : Lives(j)' /\ body'[j].block = c
  PROVE  Safe'
<1> SUFFICES ASSUME NEW b \in posted', ~Settled(b)'
             PROVE  \E j \in Ids : Lives(j)' /\ body'[j].block = b
  BY DEF Safe, Lives
<1>1. CASE b \notin posted
  BY <1>1
<1>2. CASE b \in posted
  <2>1. PICK i \in Ids : Lives(i) /\ body[i].block = b
    BY <1>2 DEF Safe, Lives
  <2>2. b \in Blocks
    BY <1>2 DEF TypeOK
  <2> QED BY <2>1, <2>2
<1> QED BY <1>1, <1>2

(* A step that touches no message and dooms none.                          *)
LEMMA SafeQuiet ==
  ASSUME TypeOK, Safe, UNCHANGED <<body, posted>>,
         \A i \in Ids : sqs[i] # "absent" => sqs'[i] # "absent",
         \A b \in posted : Settled(b) => Settled(b)',
         Doomed' \subseteq Doomed
  PROVE  Safe'
<1>1. \A i \in Ids : Lives(i) => Lives(i)' /\ body'[i].block = body[i].block
  BY DEF Lives
<1> QED BY <1>1, SafeFrom

(* commit() by a thread whose pending messages are settled: what it dooms  *)
(* is not missed.                                                          *)
LEMMA SafeCommit ==
  ASSUME TypeOK, Safe, NEW t \in Threads, NEW f, Commit(t, f),
         UNCHANGED <<queueVars, posted>>,
         \A b \in posted : Settled(b) => Settled(b)',
         \A c \in Blocks : \A i \in pending[t] : body[i].block = c => Settled(c)'
  PROVE  Safe'
<1>1. Doomed' \subseteq Doomed \cup pending[t]
  BY DEF Commit, Doomed, Dying, TypeOK
<1>2. \A c \in Blocks : \A i \in Ids : Lives(i) /\ body[i].block = c =>
         Settled(c)' \/ (Lives(i)' /\ body'[i].block = c)
  BY <1>1 DEF Lives, queueVars
<1> QED BY <1>2, SafeFrom DEF queueVars

(* One more message and no more doomed ones: a fresh message lives.        *)
LEMMA SafeWrite ==
  ASSUME TypeOK, Safe, NEW b, Write(b),
         \A c \in posted : Settled(c) => Settled(c)',
         NEW D \in SUBSET UNION {pending[t] \cup batch[t] : t \in Threads},
         Doomed' \subseteq Doomed \cup D,
         \A c \in Blocks : \A i \in D : body[i].block = c => Settled(c)' \/ c = b.block
  PROVE  Safe'
<1>1. PICK j \in Ids :
           /\ sqs[j] = "absent"
           /\ \A t \in Threads : j \notin pending[t] \cup batch[t]
           /\ sqs' = [sqs EXCEPT ![j] = "visible"]
           /\ body' = [body EXCEPT ![j] = b]
           /\ posted' = posted \cup {b.block}
  BY WriteFacts
<1>2. j \notin Doomed
  BY <1>1 DEF Doomed, Dying
<1>3. Lives(j)' /\ body'[j].block = b.block
  BY <1>1, <1>2 DEF Lives, TypeOK
<1>4. \A i \in Ids \ D : Lives(i) => Lives(i)' /\ body'[i].block = body[i].block
  BY <1>1 DEF Lives, TypeOK
<1>5. \A c \in posted' \ posted : c = b.block
  BY <1>1
<1>6. \A c \in Blocks : \A i \in Ids : Lives(i) /\ body[i].block = c =>
        \/ Settled(c)'
        \/ \E k \in Ids : Lives(k)' /\ body'[k].block = c
  BY <1>3, <1>4
<1> QED BY <1>3, <1>5, <1>6, SafeFrom

(* A step of thread t keeps PendingOK if its own part is kept and it does  *)
(* not touch what the others have read.                                    *)
Mine(t) ==
  /\ pc[t] \in {"copy", "delete"} => pending[t] = {}
  /\ \A i \in pending[t] :
       \/ Settled(body[i].block)
       \/ /\ pc[t] \in Busy
          /\ body[i].block = todo[t].block
          /\ Kind[todo[t].block] = "work"

LEMMA PendingFrom ==
  ASSUME TypeOK, PendingOK, NEW t \in Threads,
         \A b \in Blocks : Settled(b) => Settled(b)',
         \A u \in Threads \ {t} :
           /\ pending'[u] = pending[u] /\ pc'[u] = pc[u] /\ todo'[u] = todo[u]
           /\ \A i \in pending[u] : body'[i] = body[i],
         Mine(t)'
  PROVE  PendingOK'
<1>1. \A u \in Threads \ {t} : Mine(u)
  BY DEF PendingOK, Mine
<1>2. \A i \in Ids : body[i].block \in Blocks
  BY BodyFacts DEF TypeOK
<1>3. ASSUME NEW u \in Threads \ {t} PROVE Mine(u)'
  <2>1. pending'[u] = pending[u] /\ pc'[u] = pc[u] /\ todo'[u] = todo[u]
    OBVIOUS
  <2>2. ASSUME NEW i \in pending[u] PROVE body'[i] = body[i] /\ body[i].block \in Blocks
    BY <1>2 DEF TypeOK
  <2>3. ASSUME NEW i \in pending[u], NEW c \in Blocks, body[i].block = c, Settled(c)
        PROVE  Settled(body[i].block)'
    <3>1. body'[i].block = c
      BY <2>2, <2>3
    <3> QED BY <2>3, <3>1 DEF Settled, Ended
  <2> QED BY <1>1, <2>1, <2>2, <2>3 DEF Mine
<1> QED BY <1>3 DEF PendingOK, Mine

LEMMA NextWorkerPending ==
  ASSUME TypeOK, NEW t \in Threads, NEW s \in BOOLEAN, NextWorker(t, s), Mine(t),
         pc[t] \in Busy, UNCHANGED <<todo, cut>>,
         \A i \in pending[t] : body'[i] = body[i]
  PROVE  /\ Mine(t)'
         /\ \A u \in Threads \ {t} : pending'[u] = pending[u] /\ pc'[u] = pc[u] /\ todo'[u] = todo[u]
         /\ \A b \in Blocks : Settled(b) => Settled(b)'
<1> USE DEF Goto, Commit, End, Settled, Ended, wrapperVars
<1>1. CASE act[t] < Len(Workers[todo[t].block])
  <2>1. pc' = [pc EXCEPT ![t] = "work"] /\ UNCHANGED <<pending, fate>>
    BY <1>1 DEF NextWorker
  <2> QED BY <2>1 DEF Mine, Busy, TypeOK
<1>2. CASE ~(act[t] < Len(Workers[todo[t].block]))
  <2>1. /\ pc' = [pc EXCEPT ![t] = "delete"]
        /\ pending' = [pending EXCEPT ![t] = {}]
        /\ \E f : fate' = [fate EXCEPT ![todo[t].block] = @ \cup {f}]
    BY <1>2 DEF NextWorker
  <2> QED BY <2>1 DEF Mine, Busy, TypeOK
<1> QED BY <1>1, <1>2

(* Every step is either a step of one thread that leaves the messages the  *)
(* others have read alone, or touches no thread's messages.                *)
LEMMA PendingStep == TypeOK /\ PendingOK /\ [Next]_vars => PendingOK'
<1> SUFFICES ASSUME TypeOK, PendingOK, [Next]_vars PROVE PendingOK'
  OBVIOUS
<1> USE DEF Goto, queueVars, wrapperVars, loopVars, ledger, Settled, Ended, TypeOK
<1>0. \A u \in Threads : Mine(u)
  BY DEF PendingOK, Mine
<1>1. ASSUME NEW t \in Threads, Top(t) PROVE PendingOK'
  <2>1. Mine(t)'
    BY <1>0, <1>1 DEF Mine, Busy, Top
  <2> QED BY <1>1, <2>1, PendingFrom DEF Top
<1>2. ASSUME NEW t \in Threads, Read(t) PROVE PendingOK'
  <2>1. PICK i \in Ids :
          /\ pending' = [pending EXCEPT ![t] = @ \cup {i}]
          /\ todo' = [todo EXCEPT ![t] = body[i]]
          /\ \/ pc' = [pc EXCEPT ![t] = "dispatch"] /\ Kind[body[i].block] = "work" /\ UNCHANGED fate
             \/ /\ pc' \in {[pc EXCEPT ![t] = p] : p \in {"dispatch", "top", "close"}}
                /\ fate' = [fate EXCEPT ![body[i].block] = @ \cup {"malformed"}]
          /\ UNCHANGED <<body, cut>>
    <3>1. PICK i \in Ids :
            /\ pending' = [pending EXCEPT ![t] = @ \cup {i}]
            /\ todo' = [todo EXCEPT ![t] = body[i]]
            /\ Goto(t, CASE Kind[body[i].block] \in {"work", "text"} -> "dispatch"
                         [] Kind[body[i].block] = "empty" ->
                              IF Kind[body[i].block] = "empty" /\ ~WaitForever THEN "close" ELSE "top"
                         [] Kind[body[i].block] = "garbage" -> "close")
            /\ fate' = IF Kind[body[i].block] = "work" THEN fate
                       ELSE [fate EXCEPT ![body[i].block] = @ \cup {"malformed"}]
            /\ UNCHANGED <<body, cut>>
      BY <1>2 DEF Read
    <3>2. Kind[body[i].block] \in Kinds
      BY BodyFacts, BlocksAssumption
    <3>3. CASE Kind[body[i].block] = "work"
      BY <3>1, <3>3
    <3>4. CASE Kind[body[i].block] # "work"
      BY <3>1, <3>2, <3>4 DEF Kinds
    <3> QED BY <3>3, <3>4
  <2>2. body[i].block \in Blocks
    BY BodyFacts
  <2>3. \A j \in pending[t] : Settled(body[j].block)
    BY <1>0, <1>2 DEF Read, Mine, Busy
  <2>4. Mine(t)'
    <3>1. \A j \in pending[t] : (Settled(body[j].block))'
      <4>1. \A j \in pending[t] : body[j].block \in Blocks
        BY BodyFacts
      <4> QED BY <2>1, <2>2, <2>3, <4>1
    <3>2. \/ (Settled(body[i].block))'
          \/ pc'[t] \in Busy /\ body'[i].block = todo'[t].block /\ Kind[todo'[t].block] = "work"
      BY <2>1, <2>2 DEF Busy
    <3>3. pending'[t] = pending[t] \cup {i} /\ pc'[t] \notin {"copy", "delete"}
      BY <2>1
    <3> QED BY <3>1, <3>2, <3>3 DEF Mine
  <2> QED BY <2>1, <2>2, <2>4, PendingFrom
<1>3. ASSUME NEW t \in Threads, ReadNothing(t) PROVE PendingOK'
  <2>1. Mine(t)'
    BY <1>0, <1>3 DEF Mine, Busy, ReadNothing
  <2> QED BY <1>3, <2>1, PendingFrom DEF ReadNothing
<1>4. ASSUME NEW t \in Threads, Close(t) PROVE PendingOK'
  <2>1. Mine(t)'
    BY <1>0, <1>4 DEF Mine, Busy, Close, Commit
  <2> QED BY <1>4, <2>1, PendingFrom DEF Close, Commit
<1>5. ASSUME NEW t \in Threads, Dispatch(t) PROVE PendingOK'
  <2>1. Mine(t)'
    <3>1. CASE pending'[t] = {}
      BY <3>1 DEF Mine
    <3>2. CASE Goto(t, "work") /\ UNCHANGED <<wrapperVars, fate>>
      BY <1>0, <1>5, <3>2 DEF Mine, Busy, Dispatch
    <3> QED BY <1>5, <3>1, <3>2 DEF Dispatch, Commit, Rollback
  <2>2. \A b \in Blocks : Settled(b) => Settled(b)'
    BY <1>5 DEF Dispatch, End
  <2> QED BY <1>5, <2>1, <2>2, PendingFrom DEF Dispatch, Commit, Rollback
<1>6. ASSUME NEW t \in Threads, Transform(t) PROVE PendingOK'
  <2>1. CASE Target(t) = Sink
    BY <1>0, <1>6, <2>1, NextWorkerPending, PendingFrom DEF Transform, Busy
  <2>2. CASE Target(t) # Sink
    <3>1. Mine(t)'
      BY <1>0, <1>6, <2>2 DEF Mine, Busy, Transform
    <3> QED BY <1>6, <2>2, <3>1, PendingFrom DEF Transform
  <2> QED BY <2>1, <2>2
<1>7. ASSUME NEW t \in Threads, TransformWarns(t) PROVE PendingOK'
  BY <1>0, <1>7, NextWorkerPending, PendingFrom DEF TransformWarns, Busy
<1>8. ASSUME NEW t \in Threads, TransformFails(t) PROVE PendingOK'
  <2>1. Mine(t)'
    BY <1>0, <1>8 DEF Mine, Busy, TransformFails, ToRetry
  <2> QED BY <1>8, <2>1, PendingFrom DEF TransformFails, ToRetry
<1>9. ASSUME NEW t \in Threads, TransformStops(t) PROVE PendingOK'
  <2>1. Mine(t)'
    BY <1>0, <1>9 DEF Mine, Busy, TransformStops
  <2> QED BY <1>9, <2>1, PendingFrom DEF TransformStops
<1>10. ASSUME NEW t \in Threads, Announce(t) PROVE PendingOK'
  <2>1. \A u \in Threads : \A i \in pending[u] : body'[i] = body[i]
    BY <1>10, WriteFacts DEF Announce
  <2>2. Mine(t)' /\ \A b \in Blocks : Settled(b) => Settled(b)'
    BY <1>0, <1>10, <2>1, NextWorkerPending DEF Announce, Busy
  <2>3. \A u \in Threads \ {t} : pending'[u] = pending[u] /\ pc'[u] = pc[u] /\ todo'[u] = todo[u]
    BY <1>0, <1>10, <2>1, NextWorkerPending DEF Announce, Busy
  <2> QED BY <2>1, <2>2, <2>3, PendingFrom
<1>11. ASSUME NEW t \in Threads, Retry(t) PROVE PendingOK'
  <2>1. \A u \in Threads : \A i \in pending[u] : body'[i] = body[i]
    BY <1>11, WriteFacts DEF Retry
  <2>2. Mine(t)'
    BY <1>11 DEF Mine, Retry, Commit
  <2>3. \A b \in Blocks : Settled(b) => Settled(b)'
    BY <1>11 DEF Retry, End
  <2> QED BY <1>11, <2>1, <2>2, <2>3, PendingFrom DEF Retry, Commit
<1>12. ASSUME NEW t \in Threads, Copy(t) PROVE PendingOK'
  <2>1. \A u \in Threads : \A i \in pending[u] : body'[i] = body[i]
    BY <1>12, WriteFacts DEF Copy
  <2>2. Mine(t)'
    BY <1>0, <1>12 DEF Mine, Copy
  <2> QED BY <1>12, <2>1, <2>2, PendingFrom DEF Copy
<1>13. ASSUME NEW t \in Threads, Delete(t) PROVE PendingOK'
  <2>1. \A u \in Threads \ {t} : \A i \in pending[u] : body'[i] = body[i]
    BY <1>13 DEF Delete, DeleteMessage, Held
  <2>2. Mine(t)'
    BY <1>0, <1>13 DEF Mine, Delete
  <2> QED BY <1>13, <2>1, <2>2, PendingFrom DEF Delete
<1>14. ASSUME NEW t \in Threads, CallFails(t) PROVE PendingOK'
  <2>1. Mine(t)'
    BY <1>0, <1>14 DEF Mine, CallFails
  <2> QED BY <1>14, <2>1, PendingFrom DEF CallFails
<1>15. ASSUME NEW t \in Threads, ReadFails(t) PROVE PendingOK'
  <2>1. Mine(t)'
    BY <1>0, <1>15 DEF Mine, Busy, ReadFails
  <2> QED BY <1>15, <2>1, PendingFrom DEF ReadFails
<1>16. ASSUME NEW t \in Threads, AnnounceFails(t) PROVE PendingOK'
  <2>1. Mine(t)'
    BY <1>0, <1>16 DEF Mine, Busy, AnnounceFails, ToRetry
  <2> QED BY <1>16, <2>1, PendingFrom DEF AnnounceFails, ToRetry
<1>17. ASSUME NEW t \in Threads, RetryFails(t) PROVE PendingOK'
  <2>1. Mine(t)'
    BY <1>0, <1>17 DEF Mine, Busy, RetryFails, Rollback
  <2> QED BY <1>17, <2>1, PendingFrom DEF RetryFails, Rollback
<1>18. ASSUME NEW m \in Machines, Stop(m) PROVE PendingOK'
  BY <1>18 DEF Stop, PendingOK
<1>19. ASSUME NEW m \in Machines, Crash(m) PROVE PendingOK'
  BY <1>19 DEF Crash, Forget, PendingOK
<1>20. ASSUME NEW m \in Machines, Restart(m) PROVE PendingOK'
  BY <1>20 DEF Restart, Forget, PendingOK, Busy
<1>21. ASSUME NEW b \in Roots, Post(b) PROVE PendingOK'
  <2>1. \A u \in Threads : \A i \in pending[u] : body'[i] = body[i]
    BY <1>21, WriteFacts DEF Post
  <2>2. ASSUME NEW u \in Threads PROVE Mine(u)'
    <3>1. UNCHANGED <<pending, pc, todo, fate, cut>>
      BY <1>21 DEF Post
    <3>2. ASSUME NEW i \in pending[u]
          PROVE  (\/ Settled(body[i].block)
                  \/ /\ pc[u] \in Busy
                     /\ body[i].block = todo[u].block
                     /\ Kind[todo[u].block] = "work")'
      <4>1. body'[i] = body[i]
        BY <2>1
      <4> QED BY <1>0, <3>1, <4>1 DEF Mine, Busy
    <3> QED BY <1>0, <3>1, <3>2 DEF Mine, Busy
  <2> QED BY <2>2 DEF PendingOK, Mine
<1>22. ASSUME NEW i \in Ids, Expire(i) PROVE PendingOK'
  BY <1>22 DEF Expire, PendingOK
<1>23. CASE UNCHANGED vars
  BY <1>23 DEF vars, PendingOK
<1> QED
  BY <1>1, <1>2, <1>3, <1>4, <1>5, <1>6, <1>7, <1>8, <1>9, <1>10, <1>11, <1>12, <1>13, <1>14,
     <1>15, <1>16, <1>17, <1>18, <1>19, <1>20, <1>21, <1>22, <1>23
  DEF Next, Step, Fails

(* NextWorker settles the block or goes on; either way nothing is missed.  *)
LEMMA NextWorkerSafe ==
  ASSUME TypeOK, NEW t \in Threads, NEW s \in BOOLEAN, NextWorker(t, s), Mine(t),
         pc[t] \in Busy, UNCHANGED <<todo, cut>>
  PROVE  /\ \A b \in Blocks : Settled(b) => Settled(b)'
         /\ \/ Doomed' \subseteq Doomed
            \/ /\ Commit(t, "retry")
               /\ Doomed' \subseteq Doomed \cup pending[t]
               /\ \A c \in Blocks : \A i \in pending[t] : body[i].block = c => Settled(c)'
<1> USE DEF Settled, Ended
<1>1. CASE act[t] < Len(Workers[todo[t].block])
  <2>1. pc' = [pc EXCEPT ![t] = "work"] /\ UNCHANGED <<batch, uncopied, fate>>
    BY <1>1 DEF NextWorker, Goto, wrapperVars
  <2> QED BY <2>1 DEF Doomed, Dying, TypeOK, Busy
<1>2. CASE ~(act[t] < Len(Workers[todo[t].block]))
  <2>1. /\ Commit(t, "retry")
        /\ \E f : fate' = [fate EXCEPT ![todo[t].block] = @ \cup {f}]
    BY <1>2 DEF NextWorker, End
  <2>2. todo[t].block \in Blocks
    BY BodyFacts DEF TypeOK
  <2>3. \A b \in Blocks : Settled(b) => Settled(b)'
    BY <2>1, <2>2 DEF TypeOK
  <2>4. fate'[todo[t].block] # {}
    BY <2>1, <2>2 DEF TypeOK
  <2>5. \A c \in Blocks : \A i \in pending[t] : body[i].block = c => Settled(c)'
    BY <2>3, <2>4 DEF Mine
  <2>6. Doomed' \subseteq Doomed \cup pending[t]
    BY <2>1 DEF Commit, Doomed, Dying, TypeOK
  <2> QED BY <2>1, <2>3, <2>5, <2>6
<1> QED BY <1>1, <1>2

LEMMA SafeStep == TypeOK /\ ActOK /\ PendingOK /\ Safe /\ [Next]_vars => Safe'
<1> SUFFICES ASSUME TypeOK, ActOK, PendingOK, Safe, [Next]_vars PROVE Safe'
  OBVIOUS
<1> USE DEF Goto, queueVars, wrapperVars, loopVars, ledger, Settled, Ended, TypeOK
<1>0. \A u \in Threads : Mine(u)
  BY DEF PendingOK, Mine
<1>1. ASSUME NEW t \in Threads, Top(t) PROVE Safe'
  BY <1>1, SafeQuiet DEF Top, Doomed, Dying
<1>2. ASSUME NEW t \in Threads, Read(t) PROVE Safe'
  <2>1. \A b \in posted : Settled(b) => Settled(b)'
    BY <1>2 DEF Read
  <2>2. pc[t] = "read" /\ pc' \in {[pc EXCEPT ![t] = p] : p \in {"dispatch", "top", "close"}}
    <3>1. \A i \in Ids : Kind[body[i].block] \in Kinds
      BY BodyFacts, BlocksAssumption
    <3> QED BY <1>2, <3>1 DEF Read, Kinds
  <2>3. Doomed' \subseteq Doomed
    <3>1. UNCHANGED <<batch, uncopied>>
      BY <1>2 DEF Read
    <3>2. \A u \in Threads : Dying(u)' \subseteq Dying(u)
      BY <2>2, <3>1 DEF Dying
    <3> QED BY <3>2 DEF Doomed
  <2>4. \A i \in Ids : sqs[i] # "absent" => sqs'[i] # "absent"
    BY <1>2 DEF Read
  <2>5. UNCHANGED <<body, posted>>
    BY <1>2 DEF Read
  <2> QED BY <2>1, <2>3, <2>4, <2>5, SafeQuiet
<1>3. ASSUME NEW t \in Threads, ReadNothing(t) PROVE Safe'
  BY <1>3, SafeQuiet DEF ReadNothing, Doomed, Dying
<1>4. ASSUME NEW t \in Threads, Close(t) PROVE Safe'
  <2>1. \A c \in Blocks : \A i \in pending[t] : body[i].block = c => Settled(c)'
    BY <1>0, <1>4 DEF Close, Mine, Busy
  <2> QED BY <1>4, <2>1, SafeCommit DEF Close
<1>5. ASSUME NEW t \in Threads, Dispatch(t) PROVE Safe'
  <2>1. todo[t].block \in Blocks
    BY BodyFacts
  <2>2. \A b \in posted : Settled(b) => Settled(b)'
    BY <1>5 DEF Dispatch, End
  <2>3. CASE Kind[todo[t].block] = "text" /\ Commit(t, "close")
    <3>1. \A c \in Blocks : \A i \in pending[t] : body[i].block = c => Settled(c)'
      BY <1>0, <1>5, <2>3 DEF Dispatch, Mine
    <3> QED BY <1>5, <2>2, <2>3, <3>1, SafeCommit DEF Dispatch
  <2>4. CASE Commit(t, "retry") /\ End(t, "unknown")
    <3>1. fate'[todo[t].block] # {}
      BY <2>1, <2>4 DEF End
    <3>2. \A c \in Blocks : \A i \in pending[t] : body[i].block = c => Settled(c)'
      <4>1. \A b \in Blocks : Settled(b) => Settled(b)'
        BY <1>5, <2>4 DEF Dispatch, End
      <4> QED BY <1>0, <3>1, <4>1 DEF Mine
    <3> QED BY <1>5, <2>2, <2>4, <3>2, SafeCommit DEF Dispatch
  <2>5. CASE Rollback(t, "retry")
    <3>1. Doomed' \subseteq Doomed
      BY <1>5, <2>5 DEF Dispatch, Rollback, Doomed, Dying
    <3> QED BY <1>5, <2>2, <3>1, SafeQuiet DEF Dispatch
  <2>6. CASE Goto(t, "work") /\ UNCHANGED wrapperVars
    <3>1. Doomed' \subseteq Doomed
      BY <1>5, <2>6 DEF Dispatch, Doomed, Dying
    <3> QED BY <1>5, <2>2, <3>1, SafeQuiet DEF Dispatch
  <2> QED BY <1>5, <2>3, <2>4, <2>5, <2>6 DEF Dispatch
<1>6. ASSUME NEW t \in Threads, Transform(t) PROVE Safe'
  <2>1. CASE Target(t) = Sink
    BY <1>0, <1>6, <2>1, NextWorkerSafe, SafeCommit, SafeQuiet DEF Transform, Busy
  <2>2. CASE Target(t) # Sink
    BY <1>6, <2>2, SafeQuiet DEF Transform, Doomed, Dying
  <2> QED BY <2>1, <2>2
<1>7. ASSUME NEW t \in Threads, TransformWarns(t) PROVE Safe'
  BY <1>0, <1>7, NextWorkerSafe, SafeCommit, SafeQuiet DEF TransformWarns, Busy
<1>8. ASSUME NEW t \in Threads, TransformFails(t) PROVE Safe'
  BY <1>8, SafeQuiet DEF TransformFails, ToRetry, Doomed, Dying
<1>9. ASSUME NEW t \in Threads, TransformStops(t) PROVE Safe'
  BY <1>9, SafeQuiet DEF TransformStops, Doomed, Dying
<1>10. ASSUME NEW t \in Threads, Announce(t) PROVE Safe'
  <2>1. Write([block |-> Target(t), attempts |-> 0])
    BY <1>10 DEF Announce
  <2>2. \A b \in posted : Settled(b) => Settled(b)'
    BY <1>0, <1>10, NextWorkerSafe DEF Announce, Busy
  <2>3. \/ Doomed' \subseteq Doomed \cup {}
        \/ /\ Doomed' \subseteq Doomed \cup pending[t]
           /\ \A c \in Blocks : \A i \in pending[t] : body[i].block = c => Settled(c)'
    BY <1>0, <1>10, NextWorkerSafe DEF Announce, Busy
  <2>4. pending[t] \in SUBSET UNION {pending[u] \cup batch[u] : u \in Threads}
    OBVIOUS
  <2>5. CASE Doomed' \subseteq Doomed \cup {}
    BY <2>1, <2>2, <2>5, SafeWrite
  <2>6. CASE /\ Doomed' \subseteq Doomed \cup pending[t]
             /\ \A c \in Blocks : \A i \in pending[t] : body[i].block = c => Settled(c)'
    BY <2>1, <2>2, <2>4, <2>6, SafeWrite
  <2> QED BY <2>3, <2>5, <2>6
<1>11. ASSUME NEW t \in Threads, Retry(t) PROVE Safe'
  <2>1. todo[t].block \in Blocks
    BY BodyFacts
  <2>2. \A b \in posted : Settled(b) => Settled(b)'
    BY <1>11 DEF Retry, End
  <2>3. CASE TryAgain(todo[t].attempts)
    <3>1. Write([todo[t] EXCEPT !.attempts = @ + 1]) /\ Commit(t, "top") /\ UNCHANGED <<fate, cut>>
      BY <1>11, <2>3 DEF Retry
    <3>2. [todo[t] EXCEPT !.attempts = @ + 1].block = todo[t].block
      BY DEF Body
    <3>3. Doomed' \subseteq Doomed \cup pending[t]
      BY <3>1 DEF Commit, Doomed, Dying
    <3>4. \A c \in Blocks : \A i \in pending[t] : body[i].block = c =>
            Settled(c)' \/ c = [todo[t] EXCEPT !.attempts = @ + 1].block
      BY <1>0, <3>1, <3>2 DEF Mine
    <3>5. pending[t] \in SUBSET UNION {pending[u] \cup batch[u] : u \in Threads}
      OBVIOUS
    <3> DEFINE more == [todo[t] EXCEPT !.attempts = @ + 1]
    <3> HIDE DEF more
    <3>6. Write(more) /\ \A c \in Blocks : \A i \in pending[t] : body[i].block = c =>
            Settled(c)' \/ c = more.block
      BY <3>1, <3>4 DEF more
    <3> QED BY <2>2, <3>3, <3>5, <3>6, SafeWrite
  <2>4. CASE ~TryAgain(todo[t].attempts)
    <3>1. Commit(t, "close") /\ End(t, "rejected") /\ UNCHANGED <<queueVars, posted, cut>>
      BY <1>11, <2>4 DEF Retry
    <3>2. fate'[todo[t].block] # {}
      BY <2>1, <3>1 DEF End
    <3>3. \A c \in Blocks : \A i \in pending[t] : body[i].block = c => Settled(c)'
      <4>1. \A b \in Blocks : Settled(b) => Settled(b)'
        BY <3>1 DEF End
      <4> QED BY <1>0, <3>2, <4>1 DEF Mine
    <3> QED BY <2>2, <3>1, <3>3, SafeCommit
  <2> QED BY <2>3, <2>4
<1>12. ASSUME NEW t \in Threads, Copy(t) PROVE Safe'
  <2>1. ASSUME NEW i \in uncopied[t], Write(body[i]),
               uncopied' = [uncopied EXCEPT ![t] = @ \ {i}], UNCHANGED <<pc, batch, fate, cut>>
        PROVE  Safe'
    <3>1. CASE i \in batch[t]
      <4> PICK D : D = {i}
        OBVIOUS
      <4>1. Doomed' \subseteq Doomed \cup D
        BY <2>1 DEF Doomed, Dying
      <4>2. D \in SUBSET UNION {pending[u] \cup batch[u] : u \in Threads}
        BY <3>1
      <4>0. PICK r : r = body[i]
        OBVIOUS
      <4>3. \A c \in Blocks : \A j \in D : body[j].block = c => Settled(c)' \/ c = r.block
        BY <4>0
      <4>4. \A b \in posted : Settled(b) => Settled(b)'
        BY <2>1
      <4>5. Write(r)
        BY <2>1, <4>0
      <4> QED BY <4>1, <4>2, <4>3, <4>4, <4>5, SafeWrite
    <3>2. CASE i \notin batch[t]
      <4>1. Doomed' \subseteq Doomed \cup {}
        BY <2>1, <3>2 DEF Doomed, Dying
      <4> QED BY <2>1, <4>1, SafeWrite
    <3> QED BY <3>1, <3>2
  <2>2. CASE /\ uncopied[t] = {}
             /\ Goto(t, "delete")
             /\ UNCHANGED <<queueVars, posted, uncopied>>
    <3>1. Doomed' \subseteq Doomed
      BY <1>12, <2>2 DEF Copy, Doomed, Dying
    <3> QED BY <1>12, <2>2, <3>1, SafeQuiet DEF Copy
  <2> QED BY <1>12, <2>1, <2>2 DEF Copy
<1>13. ASSUME NEW t \in Threads, Delete(t) PROVE Safe'
  <2>1. Doomed' \subseteq Doomed /\ UNCHANGED <<posted, fate, cut>>
    BY <1>13 DEF Delete, Doomed, Dying
  <2>2. ASSUME NEW i \in batch[t], DeleteMessage(t, i) PROVE Safe'
    <3>2. i \in Doomed
      BY <1>13 DEF Delete, Doomed, Dying
    <3>3. \A j \in Ids \ {i} : sqs'[j] = sqs[j] /\ body'[j] = body[j]
      BY <2>2 DEF DeleteMessage
    <3>4. \A j \in Ids : Lives(j) => Lives(j)' /\ body'[j].block = body[j].block
      BY <2>1, <3>2, <3>3 DEF Lives
    <3> QED BY <2>1, <3>4, SafeFrom
  <2>3. CASE UNCHANGED queueVars
    BY <2>1, <2>3, SafeQuiet
  <2> QED BY <1>13, <2>2, <2>3 DEF Delete
<1>14. ASSUME NEW t \in Threads, CallFails(t) PROVE Safe'
  BY <1>14, SafeQuiet DEF CallFails, Doomed, Dying
<1>15. ASSUME NEW t \in Threads, ReadFails(t) PROVE Safe'
  BY <1>15, SafeQuiet DEF ReadFails, Doomed, Dying
<1>16. ASSUME NEW t \in Threads, AnnounceFails(t) PROVE Safe'
  BY <1>16, SafeQuiet DEF AnnounceFails, ToRetry, Doomed, Dying
<1>17. ASSUME NEW t \in Threads, RetryFails(t) PROVE Safe'
  BY <1>17, SafeQuiet DEF RetryFails, Rollback, Doomed, Dying
<1>18. ASSUME NEW m \in Machines, Stop(m) PROVE Safe'
  BY <1>18, SafeQuiet DEF Stop, Doomed, Dying
<1>19. ASSUME NEW m \in Machines, Crash(m) PROVE Safe'
  BY <1>19, SafeQuiet DEF Crash, Forget, Doomed, Dying
<1>20. ASSUME NEW m \in Machines, Restart(m) PROVE Safe'
  BY <1>20, SafeQuiet DEF Restart, Forget, Doomed, Dying
<1>21. ASSUME NEW b \in Roots, Post(b) PROVE Safe'
  <2>1. Doomed' \subseteq Doomed \cup {}
    BY <1>21 DEF Post, Doomed, Dying
  <2> QED BY <1>21, <2>1, SafeWrite DEF Post
<1>22. ASSUME NEW i \in Ids, Expire(i) PROVE Safe'
  BY <1>22, SafeQuiet DEF Expire, Doomed, Dying
<1>23. CASE UNCHANGED vars
  BY <1>23, SafeQuiet DEF vars, Doomed, Dying
<1> QED
  BY <1>1, <1>2, <1>3, <1>4, <1>5, <1>6, <1>7, <1>8, <1>9, <1>10, <1>11, <1>12, <1>13, <1>14,
     <1>15, <1>16, <1>17, <1>18, <1>19, <1>20, <1>21, <1>22, <1>23
  DEF Next, Step, Fails

(* Whatever fails, crashes, times out or is delivered twice, on any number *)
(* of machines: commit and rollback never delete the last message that     *)
(* names unfinished work, except work that a stop request interrupted.     *)
THEOREM NoBlockIsEverLost == Spec => []NoBlockLost
<1> DEFINE I == TypeOK /\ ActOK /\ PendingOK /\ Safe
<1>1. Init => I
  BY TypeInit DEF Init, ActOK, PendingOK, Safe
<1>2. I /\ [Next]_vars => I'
  BY TypeStep, ActStep, PendingStep, SafeStep
<1>3. I => NoBlockLost
  BY DEF Safe, NoBlockLost, Settled, Carried
<1> QED BY <1>1, <1>2, <1>3, PTL DEF Spec
-----------------------------------------------------------------------------
(* The attempts that a message counts were made.                           *)

(* What a step owes to CountOK: failures are not forgotten, a message or a *)
(* todo is new, or known, or was counted by the handler; who comes to the  *)
(* handler has failed once more, and who rejects has tried often enough.   *)
CountKept ==
  /\ fails' \in [Roots -> Nat]
  /\ \A b \in Roots : fails[b] <= fails'[b]
  /\ \A i \in Ids :
       \/ body'[i].attempts = 0
       \/ \E j \in Ids : body'[i] = body[j]
       \/ \E t \in Threads : /\ pc[t] = "retry"
                             /\ body'[i].block = todo[t].block
                             /\ body'[i].attempts = todo[t].attempts + 1
  /\ \A t \in Threads :
       todo'[t] = todo[t] \/ todo'[t].attempts = 0 \/ \E j \in Ids : todo'[t] = body[j]
  /\ \A t \in Threads : pc'[t] = "retry" =>
       /\ todo'[t] = todo[t]
       /\ \/ pc[t] = "retry"
          \/ \A b \in Roots : todo[t].block = b => fails'[b] = fails[b] + 1
  /\ \A b \in Roots : "rejected" \in fate'[b] =>
       \/ "rejected" \in fate[b]
       \/ \E t \in Threads : /\ pc[t] = "retry" /\ todo[t].block = b
                             /\ todo[t].attempts >= Limit

LEMMA CountFrom ==
  ASSUME TypeOK, CountOK, CountKept, TypeOK'
  PROVE  CountOK'
<1> USE LimitFacts
<1>1. \A i \in Ids : /\ body[i] \in Body /\ body[i].attempts \in Nat
                     /\ body'[i] \in Body /\ body'[i].attempts \in Nat
  BY BodyFacts DEF TypeOK
<1>2. \A t \in Threads : /\ todo[t] \in Body /\ todo[t].attempts \in Nat
                         /\ todo'[t] \in Body /\ todo'[t].attempts \in Nat
  BY BodyFacts DEF TypeOK
<1>3. \A b \in Roots : fails[b] \in Nat /\ fails'[b] \in Nat /\ fails[b] <= fails'[b]
  BY DEF TypeOK, CountKept
<1>4. ASSUME NEW i \in Ids, body'[i].block \in Roots
      PROVE  body'[i].attempts <= fails'[body'[i].block]
  <2>1. CASE body'[i].attempts = 0
    BY <1>3, <1>4, <2>1
  <2>2. CASE \E j \in Ids : body'[i] = body[j]
    BY <1>1, <1>3, <1>4, <2>2 DEF CountOK
  <2>3. CASE \E t \in Threads : /\ pc[t] = "retry"
                                /\ body'[i].block = todo[t].block
                                /\ body'[i].attempts = todo[t].attempts + 1
    BY <1>2, <1>3, <1>4, <2>3 DEF CountOK
  <2> QED BY <2>1, <2>2, <2>3 DEF CountKept
<1>5. ASSUME NEW t \in Threads, todo'[t].block \in Roots
      PROVE  /\ todo'[t].attempts <= fails'[todo'[t].block]
             /\ pc'[t] = "retry" => todo'[t].attempts < fails'[todo'[t].block]
  <2>1. todo'[t].attempts <= fails'[todo'[t].block]
    <3>1. CASE todo'[t] = todo[t]
      BY <1>2, <1>3, <1>5, <3>1 DEF CountOK
    <3>2. CASE todo'[t].attempts = 0
      BY <1>3, <1>5, <3>2
    <3>3. CASE \E j \in Ids : todo'[t] = body[j]
      BY <1>1, <1>3, <1>5, <3>3 DEF CountOK
    <3> QED BY <3>1, <3>2, <3>3 DEF CountKept
  <2>2. ASSUME pc'[t] = "retry" PROVE todo'[t].attempts < fails'[todo'[t].block]
    <3>1. todo'[t] = todo[t]
      BY <2>2 DEF CountKept
    <3>2. todo[t].attempts <= fails[todo[t].block]
      BY <1>5, <3>1 DEF CountOK
    <3>3. CASE pc[t] = "retry"
      BY <1>2, <1>3, <1>5, <3>1, <3>3 DEF CountOK
    <3>4. CASE fails'[todo[t].block] = fails[todo[t].block] + 1
      BY <1>2, <1>3, <1>5, <3>1, <3>2, <3>4
    <3> QED BY <1>5, <2>2, <3>1, <3>3, <3>4 DEF CountKept
  <2> QED BY <2>1, <2>2
<1>6. ASSUME NEW b \in Roots, "rejected" \in fate'[b]
      PROVE  fails'[b] > Limit
  <2>1. CASE "rejected" \in fate[b]
    BY <1>3, <1>6, <2>1 DEF CountOK, RejectedAfterAllAttempts
  <2>2. CASE \E t \in Threads : /\ pc[t] = "retry" /\ todo[t].block = b
                                /\ todo[t].attempts >= Limit
    BY <1>2, <1>3, <1>6, <2>2 DEF CountOK
  <2> QED BY <1>6, <2>1, <2>2 DEF CountKept
<1> QED BY <1>4, <1>5, <1>6 DEF CountOK, RejectedAfterAllAttempts
(* Messages and counts stay, and nobody comes to the handler.              *)
LEMMA CountQuiet ==
  ASSUME TypeOK, UNCHANGED <<body, todo, fate, fails>>,
         \A t \in Threads : pc'[t] = "retry" => pc[t] = "retry"
  PROVE  CountKept
BY DEF CountKept, TypeOK

LEMMA CountEnds ==
  ASSUME TypeOK, UNCHANGED <<body, todo, fails>>,
         \A t \in Threads : pc'[t] = "retry" => pc[t] = "retry",
         \A b \in Blocks : "rejected" \in fate'[b] => "rejected" \in fate[b]
  PROVE  CountKept
<1>1. Roots \subseteq Blocks
  BY BlocksAssumption
<1> QED BY <1>1 DEF CountKept, TypeOK

(* A message that is written is new, or a copy, or was counted.            *)
LEMMA CountQuietWrite ==
  ASSUME TypeOK, NEW b \in Body, Write(b),
         b.attempts = 0 \/ (\E i \in Ids : b = body[i])
           \/ \E t \in Threads : pc[t] = "retry" /\ b.block = todo[t].block
                                  /\ b.attempts = todo[t].attempts + 1
  PROVE  \A i \in Ids :
           \/ body'[i].attempts = 0
           \/ \E j \in Ids : body'[i] = body[j]
           \/ \E u \in Threads : /\ pc[u] = "retry"
                                 /\ body'[i].block = todo[u].block
                                 /\ body'[i].attempts = todo[u].attempts + 1
<1>1. PICK j \in Ids : body' = [body EXCEPT ![j] = b]
  BY WriteFacts
<1> QED BY <1>1 DEF TypeOK

LEMMA NextWorkerCount ==
  ASSUME TypeOK, NEW t \in Threads, NEW s \in BOOLEAN, NextWorker(t, s)
  PROVE  /\ \A u \in Threads : pc'[u] = "retry" => pc[u] = "retry"
         /\ \A b \in Blocks : "rejected" \in fate'[b] => "rejected" \in fate[b]
<1>1. CASE act[t] < Len(Workers[todo[t].block])
  BY <1>1 DEF NextWorker, Goto, TypeOK
<1>2. CASE ~(act[t] < Len(Workers[todo[t].block]))
  <2>1. /\ pc' = [pc EXCEPT ![t] = "delete"]
        /\ End(t, IF soft'[t] THEN "swallowed" ELSE "done")
    BY <1>2 DEF NextWorker, Commit
  <2> QED BY <2>1 DEF End, TypeOK
<1> QED BY <1>1, <1>2

LEMMA CountStep == TypeOK /\ ActOK /\ CountOK /\ [Next]_vars => CountOK'
<1> SUFFICES ASSUME TypeOK, ActOK, CountOK, [Next]_vars PROVE CountOK'
  OBVIOUS
<1> USE DEF TypeOK
<1>0. Roots \subseteq Blocks
  BY BlocksAssumption
<1>1. ASSUME NEW t \in Threads, Top(t) PROVE CountKept
  BY <1>1, NothingFacts DEF CountKept, Top, Goto, queueVars, ledger
<1>2. ASSUME NEW t \in Threads, Read(t) PROVE CountKept
  <2>1. Kind[todo'[t].block] \in Kinds
    BY <1>2, BlocksAssumption, BodyFacts DEF Read
  <2>2. /\ \A u \in Threads : pc'[u] = "retry" => pc[u] = "retry" /\ todo'[u] = todo[u]
        /\ \A u \in Threads : todo'[u] = todo[u] \/ \E j \in Ids : todo'[u] = body[j]
    BY <1>2, <2>1 DEF Read, Goto, Kinds
  <2>3. \A b \in Blocks : "rejected" \in fate'[b] => "rejected" \in fate[b]
    BY <1>2 DEF Read
  <2> QED BY <1>0, <1>2, <2>2, <2>3 DEF Read, CountKept
<1>3. ASSUME NEW t \in Threads, ReadNothing(t) PROVE CountKept
  BY <1>3, CountQuiet DEF ReadNothing, Goto, queueVars, ledger
<1>4. ASSUME NEW t \in Threads, Close(t) PROVE CountKept
  BY <1>4, CountQuiet DEF Close, Commit, queueVars, ledger
<1>5. ASSUME NEW t \in Threads, Dispatch(t) PROVE CountKept
  <2>1. \A u \in Threads : pc'[u] = "retry" => pc[u] = "retry"
    BY <1>5 DEF Dispatch, Commit, Rollback, Goto
  <2>2. UNCHANGED fate \/ End(t, "unknown")
    BY <1>5 DEF Dispatch
  <2>3. \A b \in Blocks : "rejected" \in fate'[b] => "rejected" \in fate[b]
    BY <2>2 DEF End
  <2>4. UNCHANGED <<body, todo, fails>>
    BY <1>5 DEF Dispatch, queueVars
  <2> QED BY <2>1, <2>3, <2>4, CountEnds
<1>6. ASSUME NEW t \in Threads, Transform(t) PROVE CountKept
  <2>1. CASE Target(t) = Sink
    BY <1>6, <2>1, NextWorkerCount, CountEnds DEF Transform, queueVars
  <2>2. CASE Target(t) # Sink
    BY <1>6, <2>2, CountQuiet DEF Transform, Goto, queueVars
  <2> QED BY <2>1, <2>2
<1>7. ASSUME NEW t \in Threads, TransformWarns(t) PROVE CountKept
  BY <1>7, NextWorkerCount, CountEnds DEF TransformWarns, queueVars
<1>8. ASSUME NEW t \in Threads, TransformFails(t) PROVE CountKept
  BY <1>8 DEF TransformFails, ToRetry, CountFailure, Goto, CountKept, queueVars
<1>9. ASSUME NEW t \in Threads, TransformStops(t) PROVE CountKept
  BY <1>9, CountQuiet DEF TransformStops, Goto, queueVars
<1>10. ASSUME NEW t \in Threads, Announce(t) PROVE CountKept
  <2>1. [block |-> Target(t), attempts |-> 0] \in Body
    BY <1>10, TargetFacts, LimitFacts DEF Announce, ActOK, Body
  <2>2. \A i \in Ids : body'[i].attempts = 0 \/ \E j \in Ids : body'[i] = body[j]
    <3>1. PICK j \in Ids : body' = [body EXCEPT ![j] = [block |-> Target(t), attempts |-> 0]]
      BY <1>10, WriteFacts DEF Announce
    <3> QED BY <3>1
  <2>3. UNCHANGED <<todo, fails>>
    BY <1>10 DEF Announce
  <2>4. /\ \A u \in Threads : pc'[u] = "retry" => pc[u] = "retry"
        /\ \A b \in Blocks : "rejected" \in fate'[b] => "rejected" \in fate[b]
    BY <1>10, NextWorkerCount DEF Announce
  <2> HIDE DEF TypeOK
  <2>5. fails \in [Roots -> Nat]
    BY DEF TypeOK
  <2> QED BY <1>0, <2>2, <2>3, <2>4, <2>5 DEF CountKept
<1>11. ASSUME NEW t \in Threads, Retry(t) PROVE CountKept
  <2>1. CASE TryAgain(todo[t].attempts)
    <3>1. [todo[t] EXCEPT !.attempts = @ + 1] \in Body
      BY <2>1, LimitFacts, BodyFacts, todo[t] \in Body, todo[t].attempts + 1 \in 0 .. Limit
    <3>2. /\ Write([todo[t] EXCEPT !.attempts = @ + 1])
          /\ Commit(t, "top")
          /\ UNCHANGED <<todo, fate, fails>>
      BY <1>11, <2>1 DEF Retry
    <3>3. /\ [todo[t] EXCEPT !.attempts = @ + 1].block = todo[t].block
          /\ [todo[t] EXCEPT !.attempts = @ + 1].attempts = todo[t].attempts + 1
      BY DEF Body
    <3>4. pc[t] = "retry"
      BY <1>11 DEF Retry
    <3> DEFINE more == [todo[t] EXCEPT !.attempts = @ + 1]
    <3>5. \A i \in Ids :
            \/ body'[i].attempts = 0
            \/ \E j \in Ids : body'[i] = body[j]
            \/ \E u \in Threads : /\ pc[u] = "retry"
                                  /\ body'[i].block = todo[u].block
                                  /\ body'[i].attempts = todo[u].attempts + 1
      <4> HIDE DEF more
      <4> QED BY <3>1, <3>2, <3>3, <3>4, CountQuietWrite
    <3>6. \A u \in Threads : pc'[u] = "retry" => pc[u] = "retry"
      BY <3>2 DEF Commit
    <3> QED BY <3>2, <3>5, <3>6 DEF CountKept
  <2>2. CASE ~TryAgain(todo[t].attempts)
    <3>1. todo[t].attempts >= Limit
      BY <2>2, LimitFacts, BodyFacts
    <3>2. /\ pc[t] = "retry" /\ Commit(t, "close") /\ End(t, "rejected")
          /\ UNCHANGED <<body, todo, fails>>
      BY <1>11, <2>2 DEF Retry, queueVars
    <3>3. \A b \in Blocks : "rejected" \in fate'[b] => "rejected" \in fate[b] \/ todo[t].block = b
      BY <3>2 DEF End
    <3> QED BY <1>0, <3>1, <3>2, <3>3 DEF Commit, CountKept
  <2> QED BY <2>1, <2>2
<1>12. ASSUME NEW t \in Threads, Copy(t) PROVE CountKept
  <2>1. UNCHANGED <<todo, fate, fails>>
    BY <1>12 DEF Copy, ledger
  <2>2. \A u \in Threads : pc'[u] = "retry" => pc[u] = "retry"
    BY <1>12 DEF Copy, Goto
  <2>3. CASE \E i \in uncopied[t] : Write(body[i])
    BY <2>1, <2>2, <2>3, CountQuietWrite DEF CountKept
  <2>4. CASE UNCHANGED queueVars
    BY <2>1, <2>2, <2>4, CountQuiet DEF queueVars
  <2> QED BY <1>12, <2>3, <2>4 DEF Copy
<1>13. ASSUME NEW t \in Threads, Delete(t) PROVE CountKept
  BY <1>13, NothingFacts DEF Delete, DeleteMessage, Goto, CountKept, queueVars, ledger
<1>14. ASSUME NEW t \in Threads, CallFails(t) PROVE CountKept
  BY <1>14 DEF CallFails, CountFailure, Goto, CountKept, queueVars
<1>15. ASSUME NEW t \in Threads, ReadFails(t) PROVE CountKept
  BY <1>15, CountQuiet DEF ReadFails, Goto, queueVars, ledger
<1>16. ASSUME NEW t \in Threads, AnnounceFails(t) PROVE CountKept
  BY <1>16 DEF AnnounceFails, ToRetry, CountFailure, Goto, CountKept, queueVars
<1>17. ASSUME NEW t \in Threads, RetryFails(t) PROVE CountKept
  BY <1>17, CountQuiet DEF RetryFails, Rollback, queueVars, ledger
<1>18. ASSUME NEW m \in Machines, Stop(m) PROVE CountKept
  BY <1>18, CountQuiet DEF Stop, queueVars, loopVars, ledger
<1>19. ASSUME NEW m \in Machines, Crash(m) PROVE CountKept
  BY <1>19, CountQuiet DEF Crash, Forget, queueVars, ledger
<1>20. ASSUME NEW m \in Machines, Restart(m) PROVE CountKept
  BY <1>20, CountQuiet DEF Restart, Forget, queueVars, ledger
<1>21. ASSUME NEW b \in Roots, Post(b) PROVE CountKept
  <2>1. [block |-> b, attempts |-> 0] \in Body
    BY BlocksAssumption, LimitFacts DEF Body
  <2>2. UNCHANGED <<pc, todo, fate, fails>>
    BY <1>21 DEF Post, loopVars, ledger
  <2>3. \A i \in Ids : body'[i].attempts = 0 \/ \E j \in Ids : body'[i] = body[j]
    <3>1. PICK j \in Ids : body' = [body EXCEPT ![j] = [block |-> b, attempts |-> 0]]
      BY <1>21, WriteFacts DEF Post
    <3> QED BY <3>1
  <2> QED BY <2>2, <2>3 DEF CountKept
<1>22. ASSUME NEW i \in Ids, Expire(i) PROVE CountKept
  BY <1>22, CountQuiet DEF Expire, loopVars, ledger
<1>23. ASSUME UNCHANGED vars PROVE CountKept
  <2>1. UNCHANGED <<body, todo, fate, fails>> /\ pc' = pc
    BY <1>23 DEF vars, queueVars, loopVars, ledger
  <2> QED BY <2>1, CountQuiet
<1> HIDE DEF TypeOK
<1>24. CountKept
  BY <1>1, <1>2, <1>3, <1>4, <1>5, <1>6, <1>7, <1>8, <1>9, <1>10, <1>11, <1>12, <1>13, <1>14,
     <1>15, <1>16, <1>17, <1>18, <1>19, <1>20, <1>21, <1>22, <1>23
  DEF Next, Step, Fails
<1> QED BY <1>24, TypeStep, CountFrom

(* On any number of machines, whatever is delivered twice, copied by       *)
(* rollback() or lost by commit(): a block is only rejected after more     *)
(* failed attempts than the settings allow (etl.py 317-345).               *)
THEOREM RejectedOnlyAfterAllAttempts == Spec => []RejectedAfterAllAttempts
<1> DEFINE I == TypeOK /\ ActOK /\ CountOK
<1>1. Init => I
  BY TypeInit, NothingFacts, BlocksAssumption DEF Init, ActOK, CountOK, RejectedAfterAllAttempts
<1>2. I /\ [Next]_vars => I'
  BY TypeStep, ActStep, CountStep
<1>3. I => RejectedAfterAllAttempts
  BY DEF CountOK
<1> QED BY <1>1, <1>2, <1>3, PTL DEF Spec
-----------------------------------------------------------------------------
(* What a dispatch has passed is announced.                                *)

AtWorker(t) == pc[t] \in {"work", "announce"} /\ ~soft[t]

(* What a step owes to DoneOK: nothing that was announced is taken back,   *)
(* an end that is new was earned, and a thread that comes to a worker has  *)
(* announced what the workers before it made.                              *)
DoneKept ==
  /\ posted \subseteq posted'
  /\ \A b \in Blocks :
       /\ "done" \in fate'[b] => "done" \in fate[b] \/ Announced(b, Len(Workers[b]))'
       /\ "unknown" \in fate'[b] => "unknown" \in fate[b] \/ Workers[b] = << >>
       /\ "malformed" \in fate'[b] => "malformed" \in fate[b] \/ Kind[b] # "work"
  /\ \A t \in Threads : AtWorker(t)' =>
       \/ AtWorker(t) /\ todo'[t] = todo[t] /\ act'[t] = act[t]
       \/ Announced(todo[t].block, act[t] - 1)'

LEMMA DoneFrom == ASSUME DoneOK, DoneKept PROVE DoneOK'
<1>1. \A b, n : Announced(b, n) => Announced(b, n)'
  BY DEF DoneKept, Announced
<1>2. ASSUME NEW b \in Blocks
      PROVE  /\ "done" \in fate'[b] => Announced(b, Len(Workers[b]))'
             /\ "unknown" \in fate'[b] => Workers[b] = << >>
             /\ "malformed" \in fate'[b] => Kind[b] # "work"
  BY <1>1 DEF DoneKept, DoneOK
<1>3. ASSUME NEW t \in Threads, AtWorker(t)'
      PROVE  Announced(todo[t].block, act[t] - 1)'
  <2>1. CASE AtWorker(t) /\ todo'[t] = todo[t] /\ act'[t] = act[t]
    <3>1. Announced(todo[t].block, act[t] - 1)
      BY <2>1 DEF DoneOK, AtWorker
    <3> QED BY <1>1, <2>1, <3>1 DEF Announced
  <2> QED BY <1>3, <2>1 DEF DoneKept
<1> QED BY <1>2, <1>3 DEF DoneOK, AtWorker

(* No end is new, and nobody comes to a worker.                            *)
LEMMA DoneQuiet ==
  ASSUME TypeOK, UNCHANGED fate, posted \subseteq posted',
         \A t \in Threads : pc'[t] \in {"work", "announce"} =>
           /\ pc[t] \in {"work", "announce"}
           /\ UNCHANGED <<soft[t], todo[t], act[t]>>
  PROVE  DoneKept
BY DEF DoneKept, AtWorker

(* The next worker is come to, or the end is earned, because the target of *)
(* this one is announced: unless there was a warning.                      *)
LEMMA NextWorkerDone ==
  ASSUME TypeOK, ActOK, DoneOK, NEW t \in Threads, NEW s \in BOOLEAN, NextWorker(t, s),
         UNCHANGED todo, posted \subseteq posted', pc[t] \in {"work", "announce"},
         s \/ Target(t) \in posted' \cup {Sink}
  PROVE  DoneKept
<1> DEFINE b == todo[t].block
           n == act[t]
<1>1. /\ b \in Blocks /\ Workers[b] \in Seq(Blocks \cup {Sink}) /\ Len(Workers[b]) \in Nat
      /\ n \in 1 .. Len(Workers[b])
  BY BlocksAssumption, BodyFacts DEF TypeOK, ActOK
<1>2. soft' = [soft EXCEPT ![t] = @ \/ s] /\ soft'[t] \in BOOLEAN /\ (soft'[t] <=> soft[t] \/ s)
  BY DEF NextWorker, TypeOK
<1>3. ASSUME ~soft'[t] PROVE \A k \in 1 .. n : Workers[b][k] \in posted' \cup {Sink}
  <2>1. ~soft[t] /\ ~s
    BY <1>2, <1>3
  <2>2. \A k \in 1 .. n - 1 : Workers[b][k] \in posted \cup {Sink}
    BY <2>1 DEF DoneOK, Announced
  <2>3. Workers[b][n] \in posted' \cup {Sink}
    BY <2>1 DEF Target
  <2>4. \A k \in 1 .. n : k = n \/ k \in 1 .. n - 1
    BY <1>1
  <2> QED BY <2>2, <2>3, <2>4
<1>4. CASE n < Len(Workers[b])
  <2>1. /\ act' = [act EXCEPT ![t] = @ + 1]
        /\ pc' = [pc EXCEPT ![t] = "work"]
        /\ UNCHANGED fate
    BY <1>4 DEF NextWorker, Goto
  <2>2. ASSUME NEW u \in Threads, AtWorker(u)'
        PROVE  \/ AtWorker(u) /\ todo'[u] = todo[u] /\ act'[u] = act[u]
               \/ Announced(todo[u].block, act[u] - 1)'
    <3>1. CASE u = t
      <4>1. act'[t] - 1 = n /\ todo'[t].block = b
        BY <1>1, <2>1 DEF TypeOK
      <4>2. \A k \in 1 .. n : Workers[b][k] \in posted' \cup {Sink}
        BY <1>3, <2>2, <3>1 DEF AtWorker
      <4> QED BY <3>1, <4>1, <4>2 DEF Announced
    <3>2. CASE u # t
      BY <1>2, <2>1, <2>2, <3>2 DEF AtWorker, TypeOK
    <3> QED BY <3>1, <3>2
  <2> QED BY <2>1, <2>2 DEF DoneKept
<1>5. CASE ~(n < Len(Workers[b]))
  <2>1. /\ pc' = [pc EXCEPT ![t] = "delete"]
        /\ End(t, IF soft'[t] THEN "swallowed" ELSE "done")
        /\ UNCHANGED act
    BY <1>5 DEF NextWorker, Commit
  <2>2. n = Len(Workers[b])
    BY <1>1, <1>5
  <2>3. ~soft'[t] => Announced(b, Len(Workers[b]))'
    <3>1. ~soft'[t] => \A k \in 1 .. Len(Workers[b]) : Workers[b][k] \in posted' \cup {Sink}
      BY <1>3, <2>2
    <3>2. UNCHANGED b
      OBVIOUS
    <3> QED BY <3>1, <3>2 DEF Announced
  <2>4. \A c \in Blocks :
          /\ "done" \in fate'[c] => "done" \in fate[c] \/ (c = b /\ ~soft'[t])
          /\ "unknown" \in fate'[c] => "unknown" \in fate[c]
          /\ "malformed" \in fate'[c] => "malformed" \in fate[c]
    BY <1>1, <2>1 DEF End, TypeOK
  <2>5. \A c \in Blocks :
          "done" \in fate'[c] => "done" \in fate[c] \/ Announced(c, Len(Workers[c]))'
    BY <2>3, <2>4
  <2>6. \A u \in Threads : AtWorker(u)' => AtWorker(u) /\ todo'[u] = todo[u] /\ act'[u] = act[u]
    BY <1>2, <2>1 DEF AtWorker, TypeOK
  <2> QED BY <2>4, <2>5, <2>6 DEF DoneKept
<1> QED BY <1>4, <1>5
LEMMA DoneStep == TypeOK /\ ActOK /\ DoneOK /\ [Next]_vars => DoneOK'
<1> SUFFICES ASSUME TypeOK, ActOK, DoneOK, [Next]_vars PROVE DoneOK'
  OBVIOUS
<1>1. ASSUME NEW t \in Threads, Top(t) PROVE DoneKept
  BY <1>1, DoneQuiet DEF TypeOK, Top, Goto, ledger
<1>2. ASSUME NEW t \in Threads, Read(t) PROVE DoneKept
  <2>1. Kind[todo'[t].block] \in Kinds
    BY <1>2, BlocksAssumption, BodyFacts DEF Read, TypeOK
  <2>2. \A u \in Threads : AtWorker(u)' => AtWorker(u) /\ todo'[u] = todo[u] /\ act'[u] = act[u]
    BY <1>2, <2>1 DEF Read, Goto, Kinds, AtWorker, TypeOK
  <2>3. \A b \in Blocks :
          /\ "done" \in fate'[b] => "done" \in fate[b]
          /\ "unknown" \in fate'[b] => "unknown" \in fate[b]
          /\ "malformed" \in fate'[b] => "malformed" \in fate[b] \/ Kind[b] # "work"
    BY <1>2 DEF Read, TypeOK
  <2> QED BY <1>2, <2>2, <2>3 DEF Read, DoneKept
<1>3. ASSUME NEW t \in Threads, ReadNothing(t) PROVE DoneKept
  BY <1>3, DoneQuiet DEF TypeOK, ReadNothing, Goto, ledger
<1>4. ASSUME NEW t \in Threads, Close(t) PROVE DoneKept
  BY <1>4, DoneQuiet DEF TypeOK, Close, Commit, ledger
<1>5. ASSUME NEW t \in Threads, Dispatch(t) PROVE DoneKept
  <2>1. UNCHANGED <<posted, todo>>
    BY <1>5 DEF Dispatch
  <2>2. CASE /\ pc' \in {[pc EXCEPT ![t] = p] : p \in {"copy", "delete"}}
             /\ UNCHANGED <<act, soft, fate>>
    BY <2>1, <2>2, DoneQuiet DEF TypeOK
  <2>3. CASE /\ Workers[todo[t].block] = << >>
             /\ Commit(t, "retry") /\ End(t, "unknown")
             /\ UNCHANGED <<act, soft>>
    <3>1. \A b \in Blocks :
            /\ "done" \in fate'[b] => "done" \in fate[b]
            /\ "unknown" \in fate'[b] => "unknown" \in fate[b] \/ Workers[b] = << >>
            /\ "malformed" \in fate'[b] => "malformed" \in fate[b]
      BY <2>3, BodyFacts DEF End, TypeOK
    <3>2. \A u \in Threads : AtWorker(u)' => AtWorker(u) /\ todo'[u] = todo[u] /\ act'[u] = act[u]
      BY <2>1, <2>3 DEF AtWorker, Commit, TypeOK
    <3> QED BY <2>1, <3>1, <3>2 DEF DoneKept
  <2>4. CASE /\ act' = [act EXCEPT ![t] = 1]
             /\ soft' = [soft EXCEPT ![t] = FALSE]
             /\ Goto(t, "work")
             /\ UNCHANGED fate
    <3>1. Announced(todo[t].block, act[t] - 1)'
      BY <2>4 DEF Announced, TypeOK
    <3>2. \A u \in Threads \ {t} :
            AtWorker(u)' => AtWorker(u) /\ todo'[u] = todo[u] /\ act'[u] = act[u]
      BY <2>1, <2>4 DEF AtWorker, Goto, TypeOK
    <3> QED BY <2>1, <2>4, <3>1, <3>2 DEF DoneKept
  <2> QED BY <1>5, <2>2, <2>3, <2>4 DEF Dispatch, Commit, Rollback
<1>6. ASSUME NEW t \in Threads, Transform(t) PROVE DoneKept
  <2>1. CASE Target(t) = Sink
    BY <1>6, <2>1, NextWorkerDone DEF Transform
  <2>2. CASE Target(t) # Sink
    BY <1>6, <2>2, DoneQuiet DEF TypeOK, Transform, Goto
  <2> QED BY <2>1, <2>2
<1>7. ASSUME NEW t \in Threads, TransformWarns(t) PROVE DoneKept
  BY <1>7, NextWorkerDone DEF TransformWarns
<1>8. ASSUME NEW t \in Threads, TransformFails(t) PROVE DoneKept
  BY <1>8, DoneQuiet DEF TypeOK, TransformFails, ToRetry, Goto
<1>9. ASSUME NEW t \in Threads, TransformStops(t) PROVE DoneKept
  BY <1>9, DoneQuiet DEF TypeOK, TransformStops, Goto
<1>10. ASSUME NEW t \in Threads, Announce(t) PROVE DoneKept
  <2>1. posted' = posted \cup {Target(t)}
    BY <1>10 DEF Announce, Write
  <2> QED BY <1>10, <2>1, NextWorkerDone DEF Announce
<1>11. ASSUME NEW t \in Threads, Retry(t) PROVE DoneKept
  <2>1. /\ posted \subseteq posted'
        /\ pc' = [pc EXCEPT ![t] = "delete"]
        /\ UNCHANGED <<todo, act, soft>>
        /\ UNCHANGED fate \/ End(t, "rejected")
    BY <1>11 DEF Retry, Write, Commit
  <2>2. \A b \in Blocks :
          /\ "done" \in fate'[b] => "done" \in fate[b]
          /\ "unknown" \in fate'[b] => "unknown" \in fate[b]
          /\ "malformed" \in fate'[b] => "malformed" \in fate[b]
    BY <2>1 DEF End, TypeOK
  <2> QED BY <2>1, <2>2 DEF DoneKept, AtWorker, TypeOK
<1>12. ASSUME NEW t \in Threads, Copy(t) PROVE DoneKept
  BY <1>12, DoneQuiet DEF TypeOK, Copy, Write, Goto, ledger
<1>13. ASSUME NEW t \in Threads, Delete(t) PROVE DoneKept
  BY <1>13, DoneQuiet DEF TypeOK, Delete, Goto, ledger
<1>14. ASSUME NEW t \in Threads, CallFails(t) PROVE DoneKept
  BY <1>14, DoneQuiet DEF TypeOK, CallFails, Goto
<1>15. ASSUME NEW t \in Threads, ReadFails(t) PROVE DoneKept
  BY <1>15, DoneQuiet DEF TypeOK, ReadFails, Goto, ledger
<1>16. ASSUME NEW t \in Threads, AnnounceFails(t) PROVE DoneKept
  BY <1>16, DoneQuiet DEF TypeOK, AnnounceFails, ToRetry, Goto
<1>17. ASSUME NEW t \in Threads, RetryFails(t) PROVE DoneKept
  BY <1>17, DoneQuiet DEF TypeOK, RetryFails, Rollback, ledger
<1>18. ASSUME NEW m \in Machines, Stop(m) PROVE DoneKept
  BY <1>18, DoneQuiet DEF TypeOK, Stop, loopVars, ledger
<1>19. ASSUME NEW m \in Machines, Crash(m) PROVE DoneKept
  BY <1>19, DoneQuiet DEF TypeOK, Crash, Forget, ledger
<1>20. ASSUME NEW m \in Machines, Restart(m) PROVE DoneKept
  BY <1>20, DoneQuiet DEF TypeOK, Restart, Forget, ledger
<1>21. ASSUME NEW b \in Roots, Post(b) PROVE DoneKept
  BY <1>21, DoneQuiet DEF TypeOK, Post, Write, loopVars, ledger
<1>22. ASSUME NEW i \in Ids, Expire(i) PROVE DoneKept
  BY <1>22, DoneQuiet DEF TypeOK, Expire, loopVars, ledger
<1>23. ASSUME UNCHANGED vars PROVE DoneKept
  BY <1>23, DoneQuiet DEF vars, loopVars, ledger
<1>24. DoneKept
  BY <1>1, <1>2, <1>3, <1>4, <1>5, <1>6, <1>7, <1>8, <1>9, <1>10, <1>11, <1>12, <1>13, <1>14,
     <1>15, <1>16, <1>17, <1>18, <1>19, <1>20, <1>21, <1>22, <1>23
  DEF Next, Step, Fails
<1> QED BY <1>24, DoneFrom

(* All the parts of the inductive invariant hold together.                 *)
THEOREM InvariantHolds == Spec => []IInv
<1>1. Init => IInv
  BY TypeInit, NothingFacts, BlocksAssumption
  DEF Init, IInv, ActOK, PendingOK, Safe, DoneOK, CountOK, RejectedAfterAllAttempts
<1>2. IInv /\ [Next]_vars => IInv'
  BY TypeStep, ActStep, PendingStep, SafeStep, CountStep, DoneStep DEF IInv
<1> QED BY <1>1, <1>2, PTL DEF Spec

(* Whatever fails, crashes or is delivered twice: what a destination holds *)
(* was announced, or the block it was made from is still on the queue, was *)
(* given up with a warning or an error, or was interrupted by a stop       *)
(* request.  That an end without a warning means that everything was       *)
(* announced is DoneOK; that work without an end is still carried, Safe.   *)
THEOREM OutputIsAnnounced == Spec => []OutputAnnounced
<1>1. IInv => OutputAnnounced
  <2> USE DEF IInv
  <2> SUFFICES ASSUME IInv, NEW b \in posted, Kind[b] = "work",
                      NEW k \in 1 .. Len(Workers[b]), Workers[b][k] \in stored,
                      ~Carried(b), b \notin cut, fate[b] \cap {"swallowed", "rejected"} = {}
               PROVE  Workers[b][k] \in posted
    BY DEF OutputAnnounced
  <2>1. b \in Blocks /\ fate[b] \subseteq Fates
    BY DEF TypeOK
  <2>2. fate[b] # {}
    BY DEF Safe, Settled, Ended, Carried
  <2>3. "done" \in fate[b]
    <3>1. "malformed" \notin fate[b]
      BY <2>1 DEF DoneOK
    <3>2. "unknown" \notin fate[b]
      BY <2>1, BlocksAssumption DEF DoneOK
    <3> QED BY <2>1, <2>2, <3>1, <3>2 DEF Fates
  <2>4. Workers[b][k] \in posted \cup {Sink}
    BY <2>1, <2>3 DEF DoneOK, Announced
  <2>5. Workers[b][k] # Sink
    BY BlocksAssumption DEF TypeOK
  <2> QED BY <2>4, <2>5
<1> QED BY <1>1, InvariantHolds, PTL

-----------------------------------------------------------------------------
(* Attempts left: the rounds of attempts that the messages and the threads *)
(* of a block still hold, and who pays for another one.                    *)
(*                                                                         *)
(* A message that is not tried again has used Limit + 1                    *)
(* attempts; one that has used f[x] of them has the others before it.      *)

Used == 0 .. Limit + 1
Area(A, f) == {x \in A \X (0 .. Limit) : f[x[1]] <= x[2]}
Left(A, f) == Cardinality(Area(A, f))

LEMMA LeftFinite ==
  ASSUME NEW A, IsFiniteSet(A), NEW f
  PROVE  IsFiniteSet(Area(A, f)) /\ Left(A, f) \in Nat
<1>1. IsFiniteSet(0 .. Limit)
  BY LimitFacts, FS_Interval
<1>2. IsFiniteSet(A \X (0 .. Limit))
  BY <1>1, FS_Product
<1>3. IsFiniteSet(Area(A, f))
  BY <1>2, FS_Subset DEF Area
<1> QED BY <1>3, FS_CardinalityType DEF Left

(* Who has used as much or more has no more left.                          *)
LEMMA LeftShrinks ==
  ASSUME NEW A, IsFiniteSet(A), NEW f \in [A -> Used], NEW g \in [A -> Used],
         \A x \in A : f[x] <= g[x]
  PROVE  Left(A, g) <= Left(A, f)
<1>1. Area(A, g) \subseteq Area(A, f)
  <2> SUFFICES ASSUME NEW z \in Area(A, g) PROVE z \in Area(A, f)
    OBVIOUS
  <2>1. z[1] \in A /\ z[2] \in 0 .. Limit /\ g[z[1]] <= z[2] /\ z \in A \X (0 .. Limit)
    BY DEF Area
  <2>2. f[z[1]] <= g[z[1]] /\ f[z[1]] \in Nat /\ g[z[1]] \in Nat
    BY <2>1, LimitFacts DEF Used
  <2>3. f[z[1]] <= z[2]
    BY <2>1, <2>2
  <2> QED BY <2>1, <2>3 DEF Area
<1> QED BY <1>1, LeftFinite, FS_Subset DEF Left

Row(x, n) == {x} \X (n .. Limit)

LEMMA RowSize ==
  ASSUME NEW x, NEW n \in Used
  PROVE  IsFiniteSet(Row(x, n)) /\ Cardinality(Row(x, n)) = Limit + 1 - n
<1>1. n \in Int /\ Limit \in Int /\ n <= Limit + 1
  BY LimitFacts DEF Used
<1>2. IsFiniteSet(n .. Limit) /\ Cardinality(n .. Limit) = Limit + 1 - n
  BY <1>1, FS_Interval
<1>3. IsFiniteSet({x}) /\ Cardinality({x}) = 1
  BY FS_Singleton
<1>4. /\ IsFiniteSet({x} \X (n .. Limit))
      /\ Cardinality({x} \X (n .. Limit)) = Cardinality({x}) * Cardinality(n .. Limit)
  BY <1>2, <1>3, FS_Product
<1> QED BY <1>1, <1>2, <1>3, <1>4 DEF Row

Others(A, f, x) == {z \in Area(A, f) : z[1] # x}

LEMMA LeftSplit ==
  ASSUME NEW A, IsFiniteSet(A), NEW f \in [A -> Used], NEW x \in A
  PROVE  /\ IsFiniteSet(Others(A, f, x))
         /\ Cardinality(Others(A, f, x)) \in Nat
         /\ Left(A, f) + f[x] = Cardinality(Others(A, f, x)) + Limit + 1
<1>1. Area(A, f) = Others(A, f, x) \cup Row(x, f[x])
  <2>1. ASSUME NEW z \in Area(A, f) PROVE z \in Others(A, f, x) \cup Row(x, f[x])
    <3>1. z \in A \X (0 .. Limit) /\ f[z[1]] <= z[2]
      BY DEF Area
    <3>2. CASE z[1] = x
      <4>1. z = <<z[1], z[2]>> /\ z[2] \in f[x] .. Limit
        BY <3>1, <3>2, LimitFacts DEF Used
      <4> QED BY <3>2, <4>1 DEF Row
    <3> QED BY <3>2 DEF Others
  <2>2. Row(x, f[x]) \subseteq Area(A, f)
    <3> SUFFICES ASSUME NEW z \in Row(x, f[x]) PROVE z \in Area(A, f)
      OBVIOUS
    <3>1. z = <<z[1], z[2]>> /\ z[1] = x /\ z[2] \in f[x] .. Limit
      BY DEF Row
    <3>2. f[x] \in Nat
      BY DEF Used
    <3>3. z[2] \in 0 .. Limit /\ f[x] <= z[2]
      BY <3>1, <3>2, LimitFacts
    <3>4. z \in A \X (0 .. Limit)
      BY <3>1, <3>3
    <3> QED BY <3>1, <3>3, <3>4 DEF Area
  <2> QED BY <2>1, <2>2 DEF Others
<1>2. Others(A, f, x) \cap Row(x, f[x]) = {}
  BY DEF Others, Row
<1>3. IsFiniteSet(Others(A, f, x)) /\ Cardinality(Others(A, f, x)) \in Nat
  BY LeftFinite, FS_Subset, FS_CardinalityType DEF Others
<1>4. IsFiniteSet(Row(x, f[x])) /\ Cardinality(Row(x, f[x])) = Limit + 1 - f[x]
  BY RowSize
<1>5. Left(A, f) = Cardinality(Others(A, f, x)) + Cardinality(Row(x, f[x])) - Cardinality({})
  BY <1>1, <1>2, <1>3, <1>4, FS_Union DEF Left
<1>6. f[x] \in Nat
  BY DEF Used
<1> QED BY <1>3, <1>4, <1>5, <1>6, LimitFacts, FS_EmptySet

(* Only x may have more left: as many as it has used less.                 *)
LEMMA LeftBut ==
  ASSUME NEW A, IsFiniteSet(A), NEW f \in [A -> Used], NEW g \in [A -> Used], NEW x \in A,
         \A y \in A \ {x} : f[y] <= g[y]
  PROVE  Left(A, g) + g[x] <= Left(A, f) + f[x]
<1>1. Others(A, g, x) \subseteq Others(A, f, x)
  <2> SUFFICES ASSUME NEW z \in Others(A, g, x) PROVE z \in Others(A, f, x)
    OBVIOUS
  <2>1. z[1] \in A \ {x} /\ z[2] \in 0 .. Limit /\ g[z[1]] <= z[2] /\ z \in A \X (0 .. Limit)
    BY DEF Others, Area
  <2>2. f[z[1]] <= g[z[1]] /\ f[z[1]] \in Nat /\ g[z[1]] \in Nat
    BY <2>1, LimitFacts DEF Used
  <2>3. f[z[1]] <= z[2]
    BY <2>1, <2>2
  <2> QED BY <2>1, <2>3 DEF Others, Area
<1>2. Cardinality(Others(A, g, x)) <= Cardinality(Others(A, f, x))
  BY <1>1, LeftSplit, FS_Subset
<1>3. /\ Left(A, f) + f[x] = Cardinality(Others(A, f, x)) + Limit + 1
      /\ Cardinality(Others(A, f, x)) \in Nat
  BY LeftSplit
<1>4. /\ Left(A, g) + g[x] = Cardinality(Others(A, g, x)) + Limit + 1
      /\ Cardinality(Others(A, g, x)) \in Nat
  BY LeftSplit
<1> QED BY <1>2, <1>3, <1>4, LimitFacts

(* n of them have at most n rounds of attempts more.                       *)
LEMMA LeftReleased ==
  ASSUME NEW A, IsFiniteSet(A), NEW f \in [A -> Used], NEW g \in [A -> Used],
         NEW B \in SUBSET A, NEW n \in Nat, Cardinality(B) <= n,
         \A y \in A \ B : f[y] <= g[y]
  PROVE  Left(A, g) <= Left(A, f) + n * (Limit + 1)
<1>1. IsFiniteSet(B) /\ Cardinality(B) \in Nat
  BY FS_Subset, FS_CardinalityType
<1>2. IsFiniteSet(0 .. Limit) /\ Cardinality(0 .. Limit) = Limit + 1
  BY LimitFacts, FS_Interval
<1>3. /\ IsFiniteSet(B \X (0 .. Limit))
      /\ Cardinality(B \X (0 .. Limit)) = Cardinality(B) * (Limit + 1)
  BY <1>1, <1>2, FS_Product
<1>4. Area(A, g) \subseteq Area(A, f) \cup (B \X (0 .. Limit))
  <2> SUFFICES ASSUME NEW z \in Area(A, g), z[1] \notin B PROVE z \in Area(A, f)
    BY DEF Area
  <2>1. z[1] \in A \ B /\ z[2] \in 0 .. Limit /\ g[z[1]] <= z[2] /\ z \in A \X (0 .. Limit)
    BY DEF Area
  <2>2. f[z[1]] <= g[z[1]] /\ f[z[1]] \in Nat /\ g[z[1]] \in Nat
    BY <2>1, LimitFacts DEF Used
  <2>3. f[z[1]] <= z[2]
    BY <2>1, <2>2
  <2> QED BY <2>1, <2>3 DEF Area
<1>5. /\ IsFiniteSet(Area(A, f)) /\ Left(A, f) \in Nat
      /\ IsFiniteSet(Area(A, g)) /\ Left(A, g) \in Nat
  BY LeftFinite
<1>6. /\ IsFiniteSet(Area(A, f) \cup (B \X (0 .. Limit)))
      /\ Cardinality(Area(A, f) \cup (B \X (0 .. Limit))) =
           Left(A, f) + Cardinality(B) * (Limit + 1)
             - Cardinality(Area(A, f) \cap (B \X (0 .. Limit)))
  BY <1>3, <1>5, FS_Union DEF Left
<1>7. Cardinality(Area(A, f) \cap (B \X (0 .. Limit))) \in Nat
  BY <1>5, FS_Intersection, FS_CardinalityType
<1>8. Left(A, g) <= Cardinality(Area(A, f) \cup (B \X (0 .. Limit)))
  BY <1>4, <1>6, FS_Subset DEF Left
<1>9. Cardinality(B) * (Limit + 1) <= n * (Limit + 1)
  <2> DEFINE c == Cardinality(B)
  <2>1. c \in Nat /\ c <= n /\ Limit \in Nat
    BY <1>1, LimitFacts
  <2> HIDE DEF c
  <2>2. \A k, l \in Nat : \A p \in Nat : k <= l => k * (p + 1) <= l * (p + 1)
    OBVIOUS
  <2>3. c * (Limit + 1) <= n * (Limit + 1)
    BY <2>1, <2>2
  <2> QED BY <2>3 DEF c
<1> DEFINE p == Cardinality(B) * (Limit + 1)
           q == n * (Limit + 1)
<1>10. p \in Nat /\ q \in Nat /\ p <= q
  <2>1. \A k, l \in Nat : k * (l + 1) \in Nat
    OBVIOUS
  <2> QED BY <1>1, <1>9, <2>1, LimitFacts
<1>11. Left(A, g) <= Left(A, f) + p - Cardinality(Area(A, f) \cap (B \X (0 .. Limit)))
  BY <1>6, <1>8
<1> HIDE DEF p, q
<1>12. Left(A, g) <= Left(A, f) + q
  BY <1>5, <1>7, <1>10, <1>11
<1> QED BY <1>12 DEF q

-----------------------------------------------------------------------------
(* What a thread holds.                                                    *)

IsWork(i) == Kind[body[i].block] = "work"

(* A thread has at most one message with work, the one it is busy with,    *)
(* until it starts to delete it; it asks for another one only after that.  *)
Grip(t) ==
  /\ pc[t] \in {"copy", "delete"} => pending[t] = {}
  /\ pc[t] \notin {"copy", "delete"} => batch[t] = {}
  /\ uncopied[t] \subseteq batch[t]
  /\ pc[t] # "copy" => uncopied[t] = {}
  /\ pc[t] \in {"end", "down"} => pending[t] = {}
  /\ \A i, j \in Held(t) : IsWork(i) /\ IsWork(j) => i = j
  /\ pc[t] = "read" \/ (pc[t] = "top" /\ ~please_stop[On[t]]) => \A i \in pending[t] : ~IsWork(i)
  /\ pc[t] \in Busy => \A i \in pending[t] : IsWork(i) => body[i].block = todo[t].block
  /\ pc[t] \in {"work", "announce", "retry"} => Kind[todo[t].block] = "work"
  /\ pc[t] \in {"copy", "delete"} /\ onfail[t] = "retry" => Kind[todo[t].block] = "work"
  /\ pc[t] = "copy" /\ onfail[t] = "retry" => Workers[todo[t].block] = << >>

GripOK == \A t \in Threads : Grip(t)

(* A step of thread t leaves the other threads and what they hold alone.   *)
Alone(t) ==
  \A u \in Threads \ {t} :
    /\ pc'[u] = pc[u] /\ pending'[u] = pending[u] /\ batch'[u] = batch[u]
    /\ uncopied'[u] = uncopied[u] /\ onfail'[u] = onfail[u] /\ todo'[u] = todo[u]
    /\ please_stop[On[u]] => please_stop'[On[u]]
    /\ \A i \in Held(u) : body'[i] = body[i]

LEMMA GripFrom ==
  ASSUME TypeOK, GripOK, NEW t \in Threads, Alone(t), Grip(t)'
  PROVE  GripOK'
<1>1. ASSUME NEW u \in Threads \ {t} PROVE Grip(u)'
  <2>1. Grip(u) /\ Held(u)' = Held(u)
    BY DEF GripOK, Alone, Held
  <2>2. \A i \in Held(u) : IsWork(i)' <=> IsWork(i)
    BY DEF Alone, IsWork
  <2>3. \A i \in pending[u] : i \in Held(u)
    BY DEF Held
  <2> QED BY <2>1, <2>2, <2>3 DEF Alone, Grip
<1> QED BY <1>1 DEF GripOK

(* A message is written under a name nobody holds.                         *)
LEMMA WriteKeepsHeld ==
  ASSUME TypeOK, NEW b, Write(b)
  PROVE  \A u \in Threads : \A i \in Held(u) : body'[i] = body[i]
BY WriteFacts DEF Held, TypeOK

LEMMA CommitGrip ==
  ASSUME TypeOK, NEW t \in Threads, NEW f, Commit(t, f), Grip(t), pc[t] \notin {"copy", "delete"},
         \A i \in Held(t) : body'[i] = body[i], UNCHANGED todo,
         f = "retry" => Kind[todo[t].block] = "work"
  PROVE  Grip(t)'
<1>1. /\ pending'[t] = {} /\ batch'[t] = pending[t] /\ pc'[t] = "delete" /\ onfail'[t] = f
      /\ uncopied'[t] = {} /\ batch[t] = {}
  BY DEF Commit, TypeOK, Grip
<1>2. Held(t)' = Held(t)
  BY <1>1 DEF Held
<1>3. \A i \in Held(t) : IsWork(i)' <=> IsWork(i)
  BY DEF IsWork
<1> QED BY <1>1, <1>2, <1>3 DEF Grip, Busy

LEMMA RollbackGrip ==
  ASSUME TypeOK, NEW t \in Threads, NEW f, Rollback(t, f), Grip(t), pc[t] \notin {"copy", "delete"},
         UNCHANGED <<body, todo>>,
         f = "retry" => Kind[todo[t].block] = "work" /\ Workers[todo[t].block] = << >>
  PROVE  Grip(t)'
<1>1. /\ pending'[t] = {} /\ batch'[t] = pending[t] /\ pc'[t] = "copy" /\ onfail'[t] = f
      /\ uncopied'[t] = pending[t] /\ batch[t] = {}
  BY DEF Rollback, TypeOK, Grip
<1>2. Held(t)' = Held(t)
  BY <1>1 DEF Held
<1>3. \A i \in Held(t) : IsWork(i)' <=> IsWork(i)
  BY DEF IsWork
<1> QED BY <1>1, <1>2, <1>3 DEF Grip, Busy

(* A step of the loop that moves no message.                               *)
LEMMA GotoGrip ==
  ASSUME TypeOK, NEW t \in Threads, NEW p, pc' = [pc EXCEPT ![t] = p], Grip(t),
         UNCHANGED <<pending, batch, uncopied>>, todo'[t] = todo[t] \/ p \notin Busy,
         please_stop[On[t]] => please_stop'[On[t]],
         \A i \in Held(t) : body'[i] = body[i],
         pc[t] \notin {"copy", "delete", "end", "down"}, p \notin {"copy", "delete", "end", "down"},
         p \in Busy => pc[t] \in Busy /\ Kind[todo[t].block] = "work",
         p \in {"top", "read"} => (please_stop'[On[t]] /\ p = "top") \/ \A i \in pending[t] : ~IsWork(i)
  PROVE  Grip(t)'
<1>1. pc'[t] = p /\ Held(t)' = Held(t)
  BY DEF TypeOK, Held
<1>2. \A i \in Held(t) : IsWork(i)' <=> IsWork(i)
  BY DEF IsWork
<1>3. \A i \in pending[t] : i \in Held(t)
  BY DEF Held
<1> QED BY <1>1, <1>2, <1>3 DEF Grip, Busy

LEMMA NextWorkerGrip ==
  ASSUME TypeOK, NEW t \in Threads, NEW s \in BOOLEAN, NextWorker(t, s), Grip(t),
         pc[t] \in {"work", "announce"}, UNCHANGED <<todo, please_stop>>,
         \A u \in Threads : \A i \in Held(u) : body'[i] = body[i]
  PROVE  Grip(t)' /\ Alone(t)
<1>0. Kind[todo[t].block] = "work"
  BY DEF Grip
<1>1. CASE act[t] < Len(Workers[todo[t].block])
  <2>1. pc' = [pc EXCEPT ![t] = "work"] /\ UNCHANGED <<pending, batch, uncopied, onfail>>
    BY <1>1 DEF NextWorker, Goto, wrapperVars
  <2>2. Grip(t)'
    BY <1>0, <2>1, GotoGrip DEF Busy
  <2> QED BY <2>1, <2>2 DEF Alone, TypeOK
<1>2. CASE ~(act[t] < Len(Workers[todo[t].block]))
  <2>1. Commit(t, "retry")
    BY <1>2 DEF NextWorker
  <2>2. Grip(t)'
    BY <1>0, <2>1, CommitGrip
  <2> QED BY <2>1, <2>2 DEF Alone, Commit, TypeOK
<1> QED BY <1>1, <1>2

(* A step of a thread: it keeps its grip, and leaves the others alone.     *)
LEMMA ThreadGrip ==
  ASSUME TypeOK, ActOK, GripOK, NEW t \in Threads, Step(t) \/ Fails(t)
  PROVE  Grip(t)' /\ Alone(t)
<1> USE DEF Goto, queueVars, wrapperVars, loopVars, ledger
<1>0. \A u \in Threads : Grip(u)
  BY DEF GripOK
<1>1. CASE Top(t)
  <2>1. PICK p \in {"close", "read"} :
          pc' = [pc EXCEPT ![t] = p] /\ (p = "read" => ~please_stop[On[t]])
    BY <1>1 DEF Top
  <2>2. p = "read" => \A i \in pending[t] : ~IsWork(i)
    BY <1>0, <1>1, <2>1 DEF Top, Grip
  <2>3. Grip(t)'
    BY <1>0, <1>1, <2>1, <2>2, GotoGrip DEF Top, Busy
  <2>4. Alone(t)
    BY <1>1 DEF Top, Alone, TypeOK
  <2> QED BY <2>3, <2>4
<1>2. CASE Read(t)
  <2>1. PICK i \in Ids :
          /\ pending' = [pending EXCEPT ![t] = @ \cup {i}]
          /\ todo' = [todo EXCEPT ![t] = body[i]]
          /\ \/ pc' = [pc EXCEPT ![t] = "dispatch"]
             \/ Kind[body[i].block] # "work" /\ pc' \in {[pc EXCEPT ![t] = p] : p \in {"top", "close"}}
          /\ please_stop' \in {please_stop, [please_stop EXCEPT ![On[t]] = TRUE]}
    <3>1. PICK i \in Ids :
            /\ pending' = [pending EXCEPT ![t] = @ \cup {i}]
            /\ todo' = [todo EXCEPT ![t] = body[i]]
            /\ Goto(t, CASE Kind[body[i].block] \in {"work", "text"} -> "dispatch"
                         [] Kind[body[i].block] = "empty" ->
                              IF Kind[body[i].block] = "empty" /\ ~WaitForever THEN "close" ELSE "top"
                         [] Kind[body[i].block] = "garbage" -> "close")
            /\ please_stop' = IF Kind[body[i].block] = "empty" /\ ~WaitForever
                              THEN [please_stop EXCEPT ![On[t]] = TRUE] ELSE please_stop
      BY <1>2 DEF Read
    <3>2. Kind[body[i].block] \in Kinds
      BY BodyFacts, BlocksAssumption DEF TypeOK
    <3>3. CASE Kind[body[i].block] \in {"work", "text"}
      BY <3>1, <3>3
    <3>4. CASE Kind[body[i].block] \in {"empty", "garbage"}
      BY <3>1, <3>4
    <3> QED BY <3>2, <3>3, <3>4 DEF Kinds
  <2>2. pc[t] = "read" /\ UNCHANGED <<body, batch, uncopied, onfail>>
    BY <1>2 DEF Read
  <2>3. Alone(t)
    <3>1. \A u \in Threads \ {t} : please_stop[On[u]] => please_stop'[On[u]]
      BY <2>1, OnAssumption DEF TypeOK
    <3> QED BY <2>1, <2>2, <3>1 DEF Alone, TypeOK
  <2>4. Grip(t)'
    <3>1. \A j \in pending[t] : ~IsWork(j)
      BY <1>0, <2>2 DEF Grip
    <3>2. batch[t] = {} /\ uncopied[t] = {}
      BY <1>0, <2>2 DEF Grip
    <3>3. pending'[t] = pending[t] \cup {i} /\ todo'[t] = body[i] /\ batch'[t] = {} /\ uncopied'[t] = {}
      BY <2>1, <2>2, <3>2 DEF TypeOK
    <3>4. \A j : IsWork(j)' <=> IsWork(j)
      BY <2>2 DEF IsWork
    <3>5. \A j \in Held(t)' : IsWork(j)' => j = i
      BY <3>1, <3>3, <3>4 DEF Held
    <3>6. /\ \A j \in pending'[t] : IsWork(j)' => j = i
          /\ body'[i].block = todo'[t].block
      BY <2>2, <3>3, <3>5 DEF Held
    <3>7. CASE pc' = [pc EXCEPT ![t] = "dispatch"]
      <4>1. pc'[t] = "dispatch"
        BY <3>7 DEF TypeOK
      <4> QED BY <3>3, <3>5, <3>6, <4>1 DEF Grip, Busy
    <3>8. CASE ~IsWork(i) /\ pc' \in {[pc EXCEPT ![t] = p] : p \in {"top", "close"}}
      <4>1. pc'[t] \in {"top", "close"}
        BY <3>8 DEF TypeOK
      <4> QED BY <3>3, <3>4, <3>5, <3>6, <3>8, <4>1 DEF Grip, Busy
    <3> QED BY <2>1, <3>7, <3>8 DEF IsWork
  <2> QED BY <2>3, <2>4
<1>3. CASE ReadNothing(t)
  <2>1. PICK p \in {"top", "close"} : pc' = [pc EXCEPT ![t] = p]
    BY <1>3 DEF ReadNothing
  <2>2. \A i \in pending[t] : ~IsWork(i)
    BY <1>0, <1>3 DEF ReadNothing, Grip
  <2>3. \A u \in Threads : please_stop[On[u]] => please_stop'[On[u]]
    BY <1>3, OnAssumption DEF ReadNothing, TypeOK
  <2>4. Grip(t)'
    BY <1>0, <1>3, <2>1, <2>2, <2>3, GotoGrip DEF ReadNothing, Busy
  <2>5. Alone(t)
    BY <1>3, <2>1, <2>3 DEF ReadNothing, Alone, TypeOK
  <2> QED BY <2>4, <2>5
<1>4. CASE Close(t)
  <2>1. Grip(t)'
    BY <1>0, <1>4, CommitGrip DEF Close
  <2>2. Alone(t)
    BY <1>4 DEF Close, Commit, Alone, TypeOK
  <2> QED BY <2>1, <2>2
<1>5. CASE Dispatch(t)
  <2>1. pc[t] = "dispatch" /\ UNCHANGED <<queueVars, todo, please_stop>>
    BY <1>5 DEF Dispatch
  <2>2. CASE Commit(t, "close")
    <3>1. Grip(t)'
      BY <1>0, <2>1, <2>2, CommitGrip
    <3>2. Alone(t)
      BY <2>1, <2>2 DEF Commit, Alone, TypeOK
    <3> QED BY <3>1, <3>2
  <2>3. CASE Commit(t, "retry") /\ Kind[todo[t].block] = "work"
    <3>1. Grip(t)'
      BY <1>0, <2>1, <2>3, CommitGrip
    <3>2. Alone(t)
      BY <2>1, <2>3 DEF Commit, Alone, TypeOK
    <3> QED BY <3>1, <3>2
  <2>4. CASE Rollback(t, "retry") /\ Kind[todo[t].block] = "work" /\ Workers[todo[t].block] = << >>
    <3>1. Grip(t)'
      BY <1>0, <2>1, <2>4, RollbackGrip
    <3>2. Alone(t)
      BY <2>1, <2>4 DEF Rollback, Alone, TypeOK
    <3> QED BY <3>1, <3>2
  <2>5. CASE Goto(t, "work") /\ Kind[todo[t].block] = "work" /\ UNCHANGED wrapperVars
    <3>1. Grip(t)'
      BY <1>0, <2>1, <2>5, GotoGrip DEF Busy
    <3>2. Alone(t)
      BY <2>1, <2>5 DEF Alone, TypeOK
    <3> QED BY <3>1, <3>2
  <2> QED BY <1>5, <2>2, <2>3, <2>4, <2>5 DEF Dispatch
<1>6. CASE Transform(t)
  <2>1. CASE Target(t) = Sink
    BY <1>0, <1>6, <2>1, NextWorkerGrip DEF Transform
  <2>2. CASE Target(t) # Sink
    <3>1. Kind[todo[t].block] = "work"
      BY <1>0, <1>6 DEF Transform, Grip
    <3>2. Grip(t)'
      BY <1>0, <1>6, <2>2, <3>1, GotoGrip DEF Transform, Busy
    <3>3. Alone(t)
      BY <1>6, <2>2 DEF Transform, Alone, TypeOK
    <3> QED BY <3>2, <3>3
  <2> QED BY <2>1, <2>2
<1>7. CASE TransformWarns(t)
  BY <1>0, <1>7, NextWorkerGrip DEF TransformWarns
<1>8. CASE TransformFails(t)
  <2>1. Kind[todo[t].block] = "work"
    BY <1>0, <1>8 DEF TransformFails, Grip
  <2>2. Grip(t)'
    BY <1>0, <1>8, <2>1, GotoGrip DEF TransformFails, ToRetry, Busy
  <2>3. Alone(t)
    BY <1>8 DEF TransformFails, ToRetry, Alone, TypeOK
  <2> QED BY <2>2, <2>3
<1>9. CASE TransformStops(t)
  <2>1. Grip(t)'
    BY <1>0, <1>9, GotoGrip DEF TransformStops, Busy
  <2>2. Alone(t)
    BY <1>9 DEF TransformStops, Alone, TypeOK
  <2> QED BY <2>1, <2>2
<1>10. CASE Announce(t)
  BY <1>0, <1>10, WriteKeepsHeld, NextWorkerGrip DEF Announce
<1>11. CASE Retry(t)
  <2>1. PICK f \in {"top", "close"} : Commit(t, f)
    BY <1>11 DEF Retry
  <2>2. \A u \in Threads : \A i \in Held(u) : body'[i] = body[i]
    BY <1>11, WriteKeepsHeld DEF Retry
  <2>3. pc[t] = "retry" /\ UNCHANGED <<todo, please_stop>>
    BY <1>11 DEF Retry
  <2>4. Grip(t)'
    BY <1>0, <2>1, <2>2, <2>3, CommitGrip
  <2>5. Alone(t)
    BY <2>1, <2>2, <2>3 DEF Commit, Alone, TypeOK
  <2> QED BY <2>4, <2>5
<1>12. CASE Copy(t)
  <2>1. \A u \in Threads : \A i \in Held(u) : body'[i] = body[i]
    BY <1>12, WriteKeepsHeld DEF Copy
  <2>2. /\ pc[t] = "copy" /\ UNCHANGED <<pending, batch, onfail, todo, please_stop>>
        /\ \/ pc' = pc /\ \E i : uncopied' = [uncopied EXCEPT ![t] = @ \ {i}]
           \/ pc' = [pc EXCEPT ![t] = "delete"] /\ uncopied[t] = {} /\ UNCHANGED uncopied
    BY <1>12 DEF Copy
  <2>3. Alone(t)
    BY <2>1, <2>2 DEF Alone, TypeOK
  <2>4. Held(t)' = Held(t) /\ \A i \in Held(t) : IsWork(i)' <=> IsWork(i)
    BY <2>1, <2>2 DEF Held, IsWork
  <2>5. pc'[t] \in {"copy", "delete"} /\ uncopied'[t] \subseteq uncopied[t] /\ (pc'[t] # "copy" => uncopied'[t] = {})
    BY <2>2 DEF TypeOK
  <2>6. Grip(t)'
    BY <1>0, <2>2, <2>4, <2>5 DEF Grip, Busy
  <2> QED BY <2>3, <2>6
<1>13. CASE Delete(t)
  <2>1. pc[t] = "delete" /\ UNCHANGED <<pending, uncopied, onfail, todo, please_stop>>
    BY <1>13 DEF Delete
  <2>2. CASE \E i \in batch[t] : DeleteMessage(t, i) /\ batch' = [batch EXCEPT ![t] = @ \ {i}] /\ UNCHANGED pc
    <3>1. PICK i \in batch[t] : DeleteMessage(t, i) /\ batch' = [batch EXCEPT ![t] = @ \ {i}] /\ UNCHANGED pc
      BY <2>2
    <3>2. \A j \in Ids : body'[j] = body[j] \/ (j = i /\ \A u \in Threads \ {t} : i \notin Held(u))
      BY <3>1 DEF DeleteMessage, TypeOK
    <3>3. Alone(t)
      BY <2>1, <3>1, <3>2 DEF Alone, TypeOK, Held
    <3>4. pending[t] = {} /\ uncopied[t] = {}
      BY <1>0, <2>1 DEF Grip
    <3>5. Held(t)' \subseteq Held(t) \ {i} /\ Held(t) \subseteq Ids
      BY <2>1, <3>1, <3>4 DEF Held, TypeOK
    <3>6. \A j \in Held(t)' : j \in Held(t) /\ (IsWork(j)' <=> IsWork(j))
      BY <3>2, <3>5 DEF IsWork
    <3>7. Grip(t)'
      BY <1>0, <2>1, <3>1, <3>4, <3>6 DEF Grip, Busy
    <3> QED BY <3>3, <3>7
  <2>3. CASE batch[t] = {} /\ Goto(t, IF onfail[t] = "end" THEN "end" ELSE "top") /\ UNCHANGED <<queueVars, batch>>
    <3>1. pending[t] = {} /\ uncopied[t] = {}
      BY <1>0, <2>1 DEF Grip
    <3>2. pc'[t] \in {"end", "top"} /\ Held(t)' = {}
      BY <2>1, <2>3, <3>1 DEF TypeOK, Held
    <3>3. Grip(t)'
      BY <2>1, <2>3, <3>1, <3>2 DEF Grip, Busy
    <3>4. Alone(t)
      BY <2>1, <2>3 DEF Alone, TypeOK
    <3> QED BY <3>3, <3>4
  <2> QED BY <1>13, <2>2, <2>3 DEF Delete
<1>14. CASE CallFails(t)
  <2>1. /\ pc[t] \in {"copy", "delete"} /\ UNCHANGED <<body, pending, onfail, todo, please_stop>>
        /\ batch' = [batch EXCEPT ![t] = {}] /\ uncopied' = [uncopied EXCEPT ![t] = {}]
        /\ pc' = [pc EXCEPT ![t] = onfail[t]]
    BY <1>14 DEF CallFails
  <2>2. pending[t] = {} /\ (onfail[t] = "retry" => Kind[todo[t].block] = "work")
    BY <1>0, <2>1 DEF Grip
  <2>3. onfail[t] \in {"top", "retry", "close", "end"}
    BY DEF TypeOK
  <2>4. pc'[t] = onfail[t] /\ batch'[t] = {} /\ uncopied'[t] = {} /\ Held(t)' = {}
    BY <2>1, <2>2 DEF TypeOK, Held
  <2>5. Grip(t)'
    BY <2>1, <2>2, <2>3, <2>4 DEF Grip, Busy
  <2>6. Alone(t)
    BY <2>1 DEF Alone, TypeOK
  <2> QED BY <2>5, <2>6
<1>15. CASE ReadFails(t)
  <2>1. Grip(t)'
    BY <1>0, <1>15, GotoGrip DEF ReadFails, Busy
  <2>2. Alone(t)
    BY <1>15 DEF ReadFails, Alone, TypeOK
  <2> QED BY <2>1, <2>2
<1>16. CASE AnnounceFails(t)
  <2>1. Kind[todo[t].block] = "work"
    BY <1>0, <1>16 DEF AnnounceFails, Grip
  <2>2. Grip(t)'
    BY <1>0, <1>16, <2>1, GotoGrip DEF AnnounceFails, ToRetry, Busy
  <2>3. Alone(t)
    BY <1>16 DEF AnnounceFails, ToRetry, Alone, TypeOK
  <2> QED BY <2>2, <2>3
<1>17. CASE RetryFails(t)
  <2>1. Grip(t)'
    BY <1>0, <1>17, RollbackGrip DEF RetryFails
  <2>2. Alone(t)
    BY <1>17 DEF RetryFails, Rollback, Alone, TypeOK
  <2> QED BY <2>1, <2>2
<1> QED
  BY <1>1, <1>2, <1>3, <1>4, <1>5, <1>6, <1>7, <1>8, <1>9, <1>10, <1>11, <1>12, <1>13, <1>14,
     <1>15, <1>16, <1>17
  DEF Step, Fails

LEMMA GripStep == TypeOK /\ ActOK /\ GripOK /\ [Next]_vars => GripOK'
<1> SUFFICES ASSUME TypeOK, ActOK, GripOK, [Next]_vars PROVE GripOK'
  OBVIOUS
<1> USE DEF Goto, queueVars, wrapperVars, loopVars, ledger
<1>0. \A u \in Threads : Grip(u)
  BY DEF GripOK
<1>1. ASSUME NEW t \in Threads, Step(t) \/ Fails(t) PROVE GripOK'
  BY <1>1, ThreadGrip, GripFrom
<1>2. ASSUME NEW m \in Machines, Stop(m) PROVE GripOK'
  <2>1. \A u \in Threads : please_stop[On[u]] => please_stop'[On[u]]
    BY <1>2, OnAssumption DEF Stop, TypeOK
  <2>2. UNCHANGED <<body, pending, batch, uncopied, onfail, pc, todo>>
    BY <1>2 DEF Stop
  <2> QED BY <1>0, <2>1, <2>2 DEF GripOK, Grip, Held, IsWork
<1>3. ASSUME NEW m \in Machines, Crash(m) PROVE GripOK'
  <2>1. ASSUME NEW u \in Threads PROVE Grip(u)'
    <3>1. CASE On[u] = m
      BY <1>3, <3>1 DEF Crash, Forget, Grip, Held, Busy
    <3>2. CASE On[u] # m
      <4>1. /\ pc'[u] = pc[u] /\ pending'[u] = pending[u] /\ batch'[u] = batch[u] /\ uncopied'[u] = uncopied[u]
            /\ UNCHANGED <<body, onfail, todo, please_stop>>
        BY <1>3, <3>2 DEF Crash, Forget
      <4> QED BY <1>0, <4>1 DEF Grip, Held, IsWork
    <3> QED BY <3>1, <3>2
  <2> QED BY <2>1 DEF GripOK
<1>4. ASSUME NEW m \in Machines, Restart(m) PROVE GripOK'
  <2>1. ASSUME NEW u \in Threads PROVE Grip(u)'
    <3>1. CASE On[u] = m
      BY <1>4, <3>1 DEF Restart, Forget, Grip, Held, Busy
    <3>2. CASE On[u] # m
      <4>1. /\ pc'[u] = pc[u] /\ pending'[u] = pending[u] /\ batch'[u] = batch[u] /\ uncopied'[u] = uncopied[u]
            /\ UNCHANGED <<body, onfail, todo>> /\ please_stop'[On[u]] = please_stop[On[u]]
        BY <1>4, <3>2, OnAssumption DEF Restart, Forget, TypeOK
      <4> QED BY <1>0, <4>1 DEF Grip, Held, IsWork
    <3> QED BY <3>1, <3>2
  <2> QED BY <2>1 DEF GripOK
<1>5. ASSUME NEW b \in Roots, Post(b) PROVE GripOK'
  <2>1. \A u \in Threads : \A i \in Held(u) : body'[i] = body[i]
    BY <1>5, WriteKeepsHeld DEF Post
  <2>2. UNCHANGED <<pending, batch, uncopied, onfail, pc, todo, please_stop>>
    BY <1>5 DEF Post
  <2>3. ASSUME NEW u \in Threads PROVE Grip(u)'
    <3>1. Held(u)' = Held(u) /\ \A i \in Held(u) : IsWork(i)' <=> IsWork(i)
      BY <2>1, <2>2 DEF Held, IsWork
    <3>2. \A i \in pending[u] : i \in Held(u) /\ body'[i] = body[i]
      BY <2>1 DEF Held
    <3> QED BY <1>0, <2>2, <3>1, <3>2 DEF Grip
  <2> QED BY <2>3 DEF GripOK
<1>6. ASSUME NEW i \in Ids, Expire(i) PROVE GripOK'
  <2>1. UNCHANGED <<body, pending, batch, uncopied, onfail, pc, todo, please_stop>>
    BY <1>6 DEF Expire
  <2> QED BY <1>0, <2>1 DEF GripOK, Grip, Held, IsWork
<1>7. CASE UNCHANGED vars
  BY <1>0, <1>7 DEF vars, GripOK, Grip, Held, IsWork
<1> QED
  BY <1>1, <1>2, <1>3, <1>4, <1>5, <1>6, <1>7 DEF Next

-----------------------------------------------------------------------------
(* The attempts a block has left.                                          *)

(* A message that may be read: no thread that holds it has its receipt.    *)
Covered(i) == sqs[i] = "inflight" /\ holder[i] \in Threads /\ i \in Held(holder[i])
Loose(i) == sqs[i] # "absent" /\ ~Covered(i)
From(b) == [i \in Ids |-> IF Loose(i) /\ body[i].block = b THEN body[i].attempts ELSE Limit + 1]

(* What the thread that is busy with the block may still come to.          *)
Share(b, t) ==
  IF pc[t] = "copy"
  THEN IF \E i \in uncopied[t] : body[i].block = b THEN 0 ELSE Limit + 1
  ELSE IF todo[t].block # b THEN Limit + 1
  ELSE IF pc[t] \in {"dispatch", "work", "announce"} \/ (pc[t] = "delete" /\ onfail[t] = "retry")
  THEN todo[t].attempts
  ELSE IF pc[t] = "retry" THEN todo[t].attempts + 1 ELSE Limit + 1
Due(b) == [t \in Threads |-> Share(b, t)]

Spent(b) == fails[b] + Left(Ids, From(b)) + Left(Threads, Due(b))
Budget(b, n) == (Limit + 1) * ((IF b \in posted THEN 1 ELSE 0) + n * faults)

(* A block that no worker is run for never fails by itself.                *)
Simple(b) == Kind[b] # "work" \/ Workers[b] = << >>
Teams(n) == \A m \in Machines : Cardinality(Team(m)) <= n
RoundsOK ==
  \A b \in Roots :
    /\ Simple(b) => fails[b] <= faults
    /\ ~Simple(b) => \A n \in 1 .. Cardinality(Threads) : Teams(n) => Spent(b) <= Budget(b, n)

Finite == IsFiniteSet(Ids) /\ IsFiniteSet(Threads)
NobodyMakesRoots == \A b \in Blocks : \A k \in 1 .. Len(Workers[b]) : Workers[b][k] \notin Roots

LEMMA UsedTypes ==
  ASSUME NEW b
  PROVE  /\ TypeOK => From(b) \in [Ids -> Used] /\ Due(b) \in [Threads -> Used]
         /\ TypeOK' => From(b)' \in [Ids -> Used] /\ Due(b)' \in [Threads -> Used]
<1>1. ASSUME TypeOK PROVE From(b) \in [Ids -> Used] /\ Due(b) \in [Threads -> Used]
  <2>1. \A i \in Ids : body[i].attempts \in 0 .. Limit
    BY <1>1, BodyFacts DEF TypeOK
  <2>2. \A t \in Threads : todo[t].attempts \in 0 .. Limit
    BY <1>1, BodyFacts DEF TypeOK
  <2> QED BY <2>1, <2>2, LimitFacts DEF From, Due, Share, Used
<1>2. ASSUME TypeOK' PROVE From(b)' \in [Ids -> Used] /\ Due(b)' \in [Threads -> Used]
  <2>1. \A i \in Ids : body'[i].attempts \in 0 .. Limit
    BY <1>2, BodyFacts DEF TypeOK
  <2>2. \A t \in Threads : todo'[t].attempts \in 0 .. Limit
    BY <1>2, BodyFacts DEF TypeOK
  <2> QED BY <2>1, <2>2, LimitFacts DEF From, Due, Share, Used
<1> QED BY <1>1, <1>2

(* The counts of a step of which nothing is known are numbers.             *)
LEMMA SpentNumbers ==
  ASSUME Finite, TypeOK, TypeOK', NEW b \in Roots
  PROVE  /\ fails[b] \in Nat /\ fails'[b] \in Nat
         /\ Left(Ids, From(b)) \in Nat /\ Left(Ids, From(b)') \in Nat
         /\ Left(Threads, Due(b)) \in Nat /\ Left(Threads, Due(b)') \in Nat
         /\ Spent(b) = fails[b] + Left(Ids, From(b)) + Left(Threads, Due(b))
         /\ Spent(b)' = fails'[b] + Left(Ids, From(b)') + Left(Threads, Due(b)')
         /\ \A i \in Ids : From(b)[i] \in Nat /\ From(b)'[i] \in Nat
         /\ \A t \in Threads : Due(b)[t] \in Nat /\ Due(b)'[t] \in Nat
<1>1. fails[b] \in Nat /\ fails'[b] \in Nat
  BY DEF TypeOK
<1>2. \A i \in Ids : From(b)[i] \in Nat /\ From(b)'[i] \in Nat
  BY UsedTypes DEF Used
<1>3. \A t \in Threads : Due(b)[t] \in Nat /\ Due(b)'[t] \in Nat
  BY UsedTypes DEF Used
<1>4. Left(Ids, From(b)) \in Nat /\ Left(Ids, From(b)') \in Nat
  BY LeftFinite DEF Finite
<1>5. Left(Threads, Due(b)) \in Nat /\ Left(Threads, Due(b)') \in Nat
  BY LeftFinite DEF Finite
<1> QED BY <1>1, <1>2, <1>3, <1>4, <1>5 DEF Spent

NoneLooser(b, S) == \A i \in Ids \ S : From(b)[i] <= From(b)'[i]
NobodyDue(b, S) == \A t \in Threads \ S : Due(b)[t] <= Due(b)'[t]

LEMMA SpentQuiet ==
  ASSUME Finite, TypeOK, TypeOK', NEW b \in Roots,
         NoneLooser(b, {}), NobodyDue(b, {}), fails'[b] = fails[b]
  PROVE  Spent(b)' <= Spent(b)
<1>1. Left(Ids, From(b)') <= Left(Ids, From(b))
  BY UsedTypes, LeftShrinks DEF NoneLooser, Finite
<1>2. Left(Threads, Due(b)') <= Left(Threads, Due(b))
  BY UsedTypes, LeftShrinks DEF NobodyDue, Finite
<1> QED BY <1>1, <1>2, SpentNumbers

LEMMA SpentAt ==
  ASSUME Finite, TypeOK, TypeOK', NEW b \in Roots, NEW t \in Threads, NEW e \in Nat,
         NoneLooser(b, {}), NobodyDue(b, {t}),
         fails'[b] + Due(b)[t] <= fails[b] + Due(b)'[t] + e
  PROVE  Spent(b)' <= Spent(b) + e
<1>1. Left(Ids, From(b)') <= Left(Ids, From(b))
  BY UsedTypes, LeftShrinks DEF NoneLooser, Finite
<1>2. Left(Threads, Due(b)') + Due(b)'[t] <= Left(Threads, Due(b)) + Due(b)[t]
  BY UsedTypes, LeftBut DEF NobodyDue, Finite
<1> QED BY <1>1, <1>2, SpentNumbers

LEMMA SpentMoves ==
  ASSUME Finite, TypeOK, TypeOK', NEW b \in Roots, NEW i \in Ids, NEW t \in Threads, NEW e \in Nat,
         NoneLooser(b, {i}), NobodyDue(b, {t}),
         fails'[b] + From(b)[i] + Due(b)[t] <= fails[b] + From(b)'[i] + Due(b)'[t] + e
  PROVE  Spent(b)' <= Spent(b) + e
<1>1. Left(Ids, From(b)') + From(b)'[i] <= Left(Ids, From(b)) + From(b)[i]
  BY UsedTypes, LeftBut DEF NoneLooser, Finite
<1>2. Left(Threads, Due(b)') + Due(b)'[t] <= Left(Threads, Due(b)) + Due(b)[t]
  BY UsedTypes, LeftBut DEF NobodyDue, Finite
<1> QED BY <1>1, <1>2, SpentNumbers

LEMMA SpentReleased ==
  ASSUME Finite, TypeOK, TypeOK', NEW b \in Roots, NEW B \in SUBSET Ids, NEW n \in Nat,
         Cardinality(B) <= n, NoneLooser(b, B), NobodyDue(b, {}), fails'[b] = fails[b]
  PROVE  Spent(b)' <= Spent(b) + n * (Limit + 1)
<1>1. Left(Ids, From(b)') <= Left(Ids, From(b)) + n * (Limit + 1)
  BY UsedTypes, LeftReleased DEF NoneLooser, Finite
<1>2. Left(Threads, Due(b)') <= Left(Threads, Due(b))
  BY UsedTypes, LeftShrinks DEF NobodyDue, Finite
<1>3. n * (Limit + 1) \in Nat
  BY LimitFacts
<1> QED BY <1>1, <1>2, <1>3, SpentNumbers

(* Who pays.                                                               *)
LEMMA BudgetFacts ==
  ASSUME TypeOK, TypeOK', posted \subseteq posted', NEW b \in Roots, NEW n \in Nat, 1 <= n
  PROVE  /\ Budget(b, n) \in Nat /\ Budget(b, n)' \in Nat
         /\ faults' = faults => Budget(b, n) <= Budget(b, n)'
         /\ faults' = faults + 1 => /\ Budget(b, n) + n * (Limit + 1) <= Budget(b, n)'
                                    /\ Budget(b, n) + (Limit + 1) <= Budget(b, n)'
         /\ faults' = faults /\ b \notin posted /\ b \in posted' => Budget(b, n) + (Limit + 1) <= Budget(b, n)'
<1> DEFINE p == IF b \in posted THEN 1 ELSE 0
           q == (IF b \in posted THEN 1 ELSE 0)'
           f == faults
           g == faults'
           l == Limit + 1
<1>1. f \in Nat /\ g \in Nat /\ l \in Nat
  BY LimitFacts, LimitsAssumption DEF TypeOK
<1>2. p \in Nat /\ q \in Nat /\ p <= q /\ (b \notin posted /\ b \in posted' => q = p + 1)
  OBVIOUS
<1>3. Budget(b, n) = l * (p + n * f) /\ Budget(b, n)' = l * (q + n * g)
  BY DEF Budget
<1> HIDE DEF p, q, f, g, l
<1>4. \A x, y, u, v \in Nat : x * (y + v) = x * y + x * v
  OBVIOUS
<1>5. \A x, y \in Nat : x * y \in Nat
  OBVIOUS
<1>6. n * f \in Nat /\ n * g \in Nat
  BY <1>1, <1>5
<1>7. l * (p + n * f) = l * p + l * (n * f) /\ l * (q + n * g) = l * q + l * (n * g)
  BY <1>1, <1>2, <1>4, <1>6
<1>8. l * p \in Nat /\ l * q \in Nat /\ l * (n * f) \in Nat /\ l * (n * g) \in Nat /\ n * l \in Nat
  BY <1>1, <1>2, <1>5, <1>6
<1>9. l * p <= l * q /\ (q = p + 1 => l * q = l * p + l)
  <2>1. \A x, y, z \in Nat : y <= z => x * y <= x * z
    OBVIOUS
  <2>2. \A x, y \in Nat : x * (y + 1) = x * y + x
    OBVIOUS
  <2> QED BY <1>1, <1>2, <2>1, <2>2
<1>10. g = f + 1 => l * (n * g) = l * (n * f) + n * l
  <2>1. \A x, y, z \in Nat : x * (y * (z + 1)) = x * (y * z) + y * x
    OBVIOUS
  <2> QED BY <1>1, <2>1
<1>11. l <= n * l
  <2>1. \A x, y \in Nat : 1 <= y => x <= y * x
    OBVIOUS
  <2> QED BY <1>1, <2>1
<1>12. /\ Budget(b, n) \in Nat /\ Budget(b, n)' \in Nat
       /\ g = f => Budget(b, n) <= Budget(b, n)'
       /\ g = f + 1 => /\ Budget(b, n) + n * l <= Budget(b, n)'
                       /\ Budget(b, n) + l <= Budget(b, n)'
       /\ g = f /\ q = p + 1 => Budget(b, n) + l <= Budget(b, n)'
  BY <1>1, <1>3, <1>7, <1>8, <1>9, <1>10, <1>11
<1> QED BY <1>2, <1>12 DEF f, g, l

LEMMA NoneLooserFrom ==
  ASSUME TypeOK, TypeOK', NEW b, NEW S,
         \A i \in Ids \ S : Loose(i)' /\ body'[i].block = b => Loose(i) /\ body'[i] = body[i]
  PROVE  NoneLooser(b, S)
<1>1. ASSUME NEW i \in Ids \ S PROVE From(b)[i] <= From(b)'[i]
  <2>1. CASE Loose(i)' /\ body'[i].block = b
    <3>1. From(b)[i] = body[i].attempts /\ From(b)'[i] = body[i].attempts
      BY <2>1 DEF From
    <3> QED BY <3>1, UsedTypes DEF Used
  <2>2. CASE ~(Loose(i)' /\ body'[i].block = b)
    <3>1. From(b)'[i] = Limit + 1
      BY <2>2 DEF From
    <3> QED BY <3>1, UsedTypes, LimitFacts DEF Used
  <2> QED BY <2>1, <2>2
<1> QED BY <1>1 DEF NoneLooser

HoldOn == \A u \in Threads : Held(u) \subseteq Held(u)'

LEMMA AloneHolds ==
  ASSUME NEW t \in Threads, Alone(t), Held(t) \subseteq Held(t)'
  PROVE  HoldOn
BY DEF Alone, Held, HoldOn

LEMMA QueueSame ==
  ASSUME TypeOK, TypeOK', HoldOn, UNCHANGED queueVars, NEW b
  PROVE  NoneLooser(b, {})
<1>1. UNCHANGED <<sqs, body, holder>>
  BY DEF queueVars
<1>2. \A i \in Ids : Covered(i) => Covered(i)'
  BY <1>1 DEF Covered, HoldOn
<1> QED BY <1>1, <1>2, NoneLooserFrom DEF Loose

(* A message d is written, under the name i.                               *)
Arrives(i, b, d) ==
  /\ NoneLooser(b, {i})
  /\ From(b)[i] = Limit + 1
  /\ From(b)'[i] = IF d.block = b THEN d.attempts ELSE Limit + 1

(* The message that is written is the only one that becomes loose.         *)
LEMMA WriteLoose ==
  ASSUME TypeOK, TypeOK', HoldOn, NEW d \in Body, Write(d), NEW b
  PROVE  \E i \in Ids : Arrives(i, b, d)
<1>1. PICK j \in Ids :
        /\ sqs[j] = "absent"
        /\ sqs' = [sqs EXCEPT ![j] = "visible"]
        /\ body' = [body EXCEPT ![j] = d]
        /\ holder' = [holder EXCEPT ![j] = NoOne]
  BY WriteFacts
<1>2. From(b)[j] = Limit + 1
  BY <1>1 DEF From, Loose
<1>3. sqs'[j] = "visible" /\ body'[j] = d
  BY <1>1 DEF TypeOK
<1>4. From(b)'[j] = IF d.block = b THEN d.attempts ELSE Limit + 1
  BY <1>3 DEF From, Loose, Covered
<1>5. ASSUME NEW i \in Ids \ {j} PROVE Loose(i)' => Loose(i) /\ body'[i] = body[i]
  <2>1. sqs'[i] = sqs[i] /\ body'[i] = body[i] /\ holder'[i] = holder[i]
    BY <1>1 DEF TypeOK
  <2> QED BY <2>1 DEF Loose, Covered, HoldOn
<1>6. NoneLooser(b, {j})
  BY <1>5, NoneLooserFrom
<1> QED BY <1>2, <1>4, <1>6 DEF Arrives

LEMMA OthersDue ==
  ASSUME TypeOK, TypeOK', GripOK, NEW t \in Threads, Alone(t), NEW b
  PROVE  /\ NobodyDue(b, {t})
         /\ Due(b)[t] <= Due(b)'[t] => NobodyDue(b, {})
         /\ Due(b)[t] = Share(b, t) /\ Due(b)'[t] = Share(b, t)'
         /\ Due(b)[t] \in Nat /\ Due(b)[t] <= Limit + 1
         /\ Due(b)'[t] \in Nat /\ Due(b)'[t] <= Limit + 1
<1>1. ASSUME NEW u \in Threads \ {t} PROVE Due(b)[u] <= Due(b)'[u]
  <2>1. uncopied[u] \subseteq Held(u)
    BY DEF GripOK, Grip, Held
  <2>2. uncopied'[u] = uncopied[u] /\ \A i \in uncopied[u] : body'[i] = body[i]
    BY <2>1 DEF Alone
  <2>3. pc'[u] = pc[u] /\ onfail'[u] = onfail[u] /\ todo'[u] = todo[u]
    BY DEF Alone
  <2>4. Share(b, u)' = Share(b, u)
    BY <2>2, <2>3 DEF Share
  <2>5. Due(b)'[u] = Due(b)[u]
    BY <2>4 DEF Due
  <2> QED BY <2>5, UsedTypes DEF Used
<1>2. Due(b)[t] = Share(b, t) /\ Due(b)'[t] = Share(b, t)'
  BY DEF Due
<1> QED BY <1>1, <1>2, UsedTypes, LimitFacts DEF NobodyDue, Used

LEMMA NextWorkerDue ==
  ASSUME TypeOK, NEW t \in Threads, NEW s \in BOOLEAN, NextWorker(t, s), Grip(t),
         pc[t] \in {"work", "announce"}, UNCHANGED todo, NEW b
  PROVE  Share(b, t)' = Share(b, t) /\ Held(t)' = Held(t)
<1>1. CASE act[t] < Len(Workers[todo[t].block])
  <2>1. pc' = [pc EXCEPT ![t] = "work"] /\ UNCHANGED <<pending, batch, uncopied, onfail>>
    BY <1>1 DEF NextWorker, Goto, wrapperVars
  <2>2. pc'[t] = "work"
    BY <2>1 DEF TypeOK
  <2> QED BY <2>1, <2>2 DEF Share, Held
<1>2. CASE ~(act[t] < Len(Workers[todo[t].block]))
  <2>1. Commit(t, "retry")
    BY <1>2 DEF NextWorker
  <2>2. pc'[t] = "delete" /\ onfail'[t] = "retry" /\ pending'[t] = {} /\ batch'[t] = pending[t]
    BY <2>1 DEF Commit, TypeOK
  <2>3. batch[t] = {}
    BY DEF Grip
  <2> QED BY <2>2, <2>3 DEF Share, Held
<1> QED BY <1>1, <1>2

LEMMA CommitFacts ==
  ASSUME TypeOK, NEW t \in Threads, NEW f, Commit(t, f), Grip(t), pc[t] \notin {"copy", "delete"}
  PROVE  Held(t)' = Held(t) /\ pc'[t] = "delete" /\ onfail'[t] = f
<1>1. pc'[t] = "delete" /\ onfail'[t] = f /\ pending'[t] = {} /\ batch'[t] = pending[t]
  BY DEF Commit, TypeOK
<1>2. batch[t] = {}
  BY DEF Grip
<1> QED BY <1>1, <1>2 DEF Held

LEMMA RollbackFacts ==
  ASSUME TypeOK, NEW t \in Threads, NEW f, Rollback(t, f), Grip(t), pc[t] \notin {"copy", "delete"}
  PROVE  Held(t)' = Held(t) /\ pc'[t] = "copy" /\ onfail'[t] = f /\ uncopied'[t] = pending[t]
<1>1. /\ pc'[t] = "copy" /\ onfail'[t] = f /\ pending'[t] = {} /\ batch'[t] = pending[t]
      /\ uncopied'[t] = pending[t]
  BY DEF Rollback, TypeOK
<1>2. batch[t] = {}
  BY DEF Grip
<1> QED BY <1>1, <1>2 DEF Held

(* A thread spends what it holds; a fault gives it one more round.         *)
LEMMA ThreadSpends ==
  ASSUME Finite, NobodyMakesRoots, TypeOK, TypeOK', ActOK, GripOK,
         NEW t \in Threads, Step(t), NEW b \in Roots, ~Simple(b)
  PROVE  faults' = faults /\ Spent(b)' <= Spent(b)
<1> USE DEF Goto, queueVars, wrapperVars, loopVars, ledger
<1>0. Grip(t)
  BY DEF GripOK
<1>a. Alone(t)
  BY ThreadGrip
<1>d. /\ NobodyDue(b, {t})
      /\ Due(b)[t] <= Due(b)'[t] => NobodyDue(b, {})
      /\ Due(b)[t] = Share(b, t) /\ Due(b)'[t] = Share(b, t)'
      /\ Due(b)[t] \in Nat /\ Due(b)[t] <= Limit + 1
      /\ Due(b)'[t] \in Nat /\ Due(b)'[t] <= Limit + 1
  BY <1>a, OthersDue
<1>s. Kind[b] = "work" /\ Workers[b] # << >>
  BY DEF Simple
<1>l. Limit \in Nat /\ fails[b] \in Nat /\ fails'[b] \in Nat
  BY LimitFacts DEF TypeOK
<1>f. ASSUME NEW i \in Ids
      PROVE  /\ From(b)[i] \in Nat /\ From(b)[i] <= Limit + 1
             /\ From(b)'[i] \in Nat /\ From(b)'[i] <= Limit + 1
  BY UsedTypes, LimitFacts DEF Used
<1>h. ASSUME Held(t)' = Held(t) PROVE HoldOn
  BY <1>a, <1>h, AloneHolds
<1>q. ASSUME NoneLooser(b, {}), Share(b, t)' = Limit + 1 \/ Share(b, t)' = Share(b, t), fails'[b] = fails[b]
      PROVE  Spent(b)' <= Spent(b)
  <2>1. Due(b)[t] <= Due(b)'[t]
    BY <1>d, <1>q
  <2> QED BY <1>d, <1>q, <2>1, SpentQuiet
<1>m. ASSUME NEW i \in Ids, NoneLooser(b, {i}), fails'[b] = fails[b],
             From(b)[i] + Share(b, t) <= From(b)'[i] + Share(b, t)'
      PROVE  Spent(b)' <= Spent(b)
  <2>1. fails'[b] + From(b)[i] + Due(b)[t] <= fails[b] + From(b)'[i] + Due(b)'[t] + 0
    BY <1>d, <1>f, <1>l, <1>m
  <2>2. Spent(b)' <= Spent(b) + 0
    BY <1>d, <1>m, <2>1, SpentMoves
  <2> QED BY <2>2, SpentNumbers
<1>1. CASE Top(t)
  <2>1. pc'[t] \in {"close", "read"} /\ Held(t)' = Held(t) /\ UNCHANGED <<queueVars, fails, faults>>
    BY <1>1 DEF Top, TypeOK, Held
  <2>2. Share(b, t)' = Limit + 1
    BY <2>1 DEF Share
  <2> QED BY <1>h, <1>q, <2>1, <2>2, QueueSame
<1>2. CASE Read(t)
  <2>1. PICK i \in Ids :
          /\ sqs[i] = "visible"
          /\ sqs' = [sqs EXCEPT ![i] = "inflight"]
          /\ holder' = [holder EXCEPT ![i] = t]
          /\ pending' = [pending EXCEPT ![t] = @ \cup {i}]
          /\ todo' = [todo EXCEPT ![t] = body[i]]
          /\ Kind[body[i].block] = "work" => pc' = [pc EXCEPT ![t] = "dispatch"]
          /\ pc' \in {[pc EXCEPT ![t] = p] : p \in {"dispatch", "top", "close"}}
    <3>1. PICK i \in Ids :
            /\ sqs[i] = "visible"
            /\ sqs' = [sqs EXCEPT ![i] = "inflight"]
            /\ holder' = [holder EXCEPT ![i] = t]
            /\ pending' = [pending EXCEPT ![t] = @ \cup {i}]
            /\ todo' = [todo EXCEPT ![t] = body[i]]
            /\ Goto(t, CASE Kind[body[i].block] \in {"work", "text"} -> "dispatch"
                         [] Kind[body[i].block] = "empty" ->
                              IF Kind[body[i].block] = "empty" /\ ~WaitForever THEN "close" ELSE "top"
                         [] Kind[body[i].block] = "garbage" -> "close")
      BY <1>2 DEF Read
    <3>2. Kind[body[i].block] \in Kinds
      BY BodyFacts, BlocksAssumption DEF TypeOK
    <3>3. CASE Kind[body[i].block] \in {"work", "text"}
      BY <3>1, <3>3
    <3>4. CASE Kind[body[i].block] \in {"empty", "garbage"}
      BY <3>1, <3>4
    <3> QED BY <3>2, <3>3, <3>4 DEF Kinds
  <2>2. pc[t] = "read" /\ UNCHANGED <<body, batch, fails, faults>>
    BY <1>2 DEF Read
  <2>3. /\ sqs'[i] = "inflight" /\ holder'[i] = t /\ pending'[t] = pending[t] \cup {i}
        /\ todo'[t] = body[i] /\ pc'[t] \in {"dispatch", "top", "close"}
        /\ Kind[body[i].block] = "work" => pc'[t] = "dispatch"
    BY <2>1 DEF TypeOK
  <2>4. HoldOn
    BY <1>a, <2>2, <2>3, AloneHolds DEF Held
  <2>5. From(b)'[i] = Limit + 1
    <3>1. Covered(i)'
      BY <2>3 DEF Covered, Held
    <3> QED BY <3>1 DEF From, Loose
  <2>6. From(b)[i] = IF body[i].block = b THEN body[i].attempts ELSE Limit + 1
    BY <2>1 DEF From, Loose, Covered
  <2>7. NoneLooser(b, {i})
    <3>1. ASSUME NEW j \in Ids \ {i} PROVE Loose(j)' => Loose(j) /\ body'[j] = body[j]
      <4>1. sqs'[j] = sqs[j] /\ holder'[j] = holder[j] /\ body'[j] = body[j]
        BY <2>1, <2>2 DEF TypeOK
      <4> QED BY <2>4, <4>1 DEF Loose, Covered, HoldOn
    <3> QED BY <3>1, NoneLooserFrom
  <2>8. Share(b, t) = Limit + 1
    BY <2>2 DEF Share
  <2>9. Share(b, t)' = IF body[i].block = b THEN body[i].attempts ELSE Limit + 1
    BY <1>s, <2>3 DEF Share
  <2>10. body[i].attempts \in Nat
    BY BodyFacts DEF TypeOK
  <2>11. From(b)[i] + Share(b, t) <= From(b)'[i] + Share(b, t)'
    BY <1>l, <2>5, <2>6, <2>8, <2>9, <2>10
  <2> QED BY <1>m, <2>2, <2>7, <2>11
<1>3. CASE ReadNothing(t)
  <2>1. pc'[t] \in {"top", "close"} /\ Held(t)' = Held(t) /\ UNCHANGED <<queueVars, fails, faults>>
    BY <1>3 DEF ReadNothing, TypeOK, Held
  <2>2. Share(b, t)' = Limit + 1
    BY <2>1 DEF Share
  <2> QED BY <1>h, <1>q, <2>1, <2>2, QueueSame
<1>4. CASE Close(t)
  <2>1. pc'[t] = "delete" /\ onfail'[t] = "end" /\ Held(t)' = Held(t) /\ UNCHANGED <<queueVars, fails, faults>>
    BY <1>0, <1>4, CommitFacts DEF Close
  <2>2. Share(b, t)' = Limit + 1
    BY <2>1 DEF Share
  <2> QED BY <1>h, <1>q, <2>1, <2>2, QueueSame
<1>5. CASE Dispatch(t)
  <2>1. pc[t] = "dispatch" /\ UNCHANGED <<queueVars, todo, fails, faults>>
    BY <1>5 DEF Dispatch
  <2>2. CASE Commit(t, "close")
    <3>1. Held(t)' = Held(t) /\ pc'[t] = "delete" /\ onfail'[t] = "close"
      BY <1>0, <2>1, <2>2, CommitFacts
    <3>2. Share(b, t)' = Limit + 1
      BY <3>1 DEF Share
    <3> QED BY <1>h, <1>q, <2>1, <3>1, <3>2, QueueSame
  <2>3. CASE Commit(t, "retry")
    <3>1. Held(t)' = Held(t) /\ pc'[t] = "delete" /\ onfail'[t] = "retry"
      BY <1>0, <2>1, <2>3, CommitFacts
    <3>2. Share(b, t)' = Share(b, t)
      BY <2>1, <3>1 DEF Share
    <3> QED BY <1>h, <1>q, <2>1, <3>1, <3>2, QueueSame
  <2>4. CASE Rollback(t, "retry") /\ Workers[todo[t].block] = << >>
    <3>1. Held(t)' = Held(t) /\ pc'[t] = "copy" /\ uncopied'[t] = pending[t]
      BY <1>0, <2>1, <2>4, RollbackFacts
    <3>2. \A i \in pending[t] : body'[i].block # b
      <4>1. todo[t].block # b
        BY <1>s, <2>4
      <4>2. \A i \in pending[t] : IsWork(i) => body[i].block = todo[t].block
        BY <1>0, <2>1 DEF Grip, Busy
      <4> QED BY <1>s, <2>1, <4>1, <4>2 DEF IsWork
    <3>3. Share(b, t)' = Limit + 1
      BY <3>1, <3>2 DEF Share
    <3> QED BY <1>h, <1>q, <2>1, <3>1, <3>3, QueueSame
  <2>5. CASE Goto(t, "work") /\ UNCHANGED wrapperVars
    <3>1. Held(t)' = Held(t) /\ pc'[t] = "work"
      BY <2>5 DEF Held, TypeOK
    <3>2. Share(b, t)' = Share(b, t)
      BY <2>1, <3>1 DEF Share
    <3> QED BY <1>h, <1>q, <2>1, <3>1, <3>2, QueueSame
  <2> QED BY <1>5, <2>1, <2>2, <2>3, <2>4, <2>5 DEF Dispatch
<1>6. CASE Transform(t)
  <2>1. pc[t] = "work" /\ UNCHANGED <<queueVars, todo, fails, faults>>
    BY <1>6 DEF Transform
  <2>2. CASE Target(t) = Sink
    <3>1. NextWorker(t, FALSE)
      BY <1>6, <2>2 DEF Transform
    <3>2. Share(b, t)' = Share(b, t) /\ Held(t)' = Held(t)
      BY <1>0, <2>1, <3>1, NextWorkerDue
    <3> QED BY <1>h, <1>q, <2>1, <3>2, QueueSame
  <2>3. CASE Target(t) # Sink
    <3>1. pc'[t] = "announce" /\ Held(t)' = Held(t)
      BY <1>6, <2>3 DEF Transform, TypeOK, Held
    <3>2. Share(b, t)' = Share(b, t)
      BY <2>1, <3>1 DEF Share
    <3> QED BY <1>h, <1>q, <2>1, <3>1, <3>2, QueueSame
  <2> QED BY <2>2, <2>3
<1>7. CASE TransformWarns(t)
  <2>1. pc[t] = "work" /\ NextWorker(t, TRUE) /\ UNCHANGED <<queueVars, todo, fails, faults>>
    BY <1>7 DEF TransformWarns
  <2>2. Share(b, t)' = Share(b, t) /\ Held(t)' = Held(t)
    BY <1>0, <2>1, NextWorkerDue
  <2> QED BY <1>h, <1>q, <2>1, <2>2, QueueSame
<1>8. CASE TransformFails(t)
  <2>1. /\ pc[t] = "work" /\ pc'[t] = "retry" /\ Held(t)' = Held(t)
        /\ fails'[b] = IF b = todo[t].block THEN fails[b] + 1 ELSE fails[b]
        /\ UNCHANGED <<queueVars, todo, faults>>
    BY <1>8 DEF TransformFails, ToRetry, CountFailure, TypeOK, Held
  <2>2. NoneLooser(b, {})
    BY <1>h, <2>1, QueueSame
  <2>3. todo[t].attempts \in Nat
    BY BodyFacts DEF TypeOK
  <2>4. fails'[b] + Share(b, t) <= fails[b] + Share(b, t)'
    BY <1>l, <2>1, <2>3 DEF Share
  <2>5. fails'[b] + Due(b)[t] <= fails[b] + Due(b)'[t] + 0
    BY <1>d, <1>l, <2>4
  <2>6. Spent(b)' <= Spent(b) + 0
    BY <1>d, <2>2, <2>5, SpentAt
  <2> QED BY <2>1, <2>6, SpentNumbers
<1>9. CASE TransformStops(t)
  <2>1. pc'[t] = "top" /\ Held(t)' = Held(t) /\ UNCHANGED <<queueVars, fails, faults>>
    BY <1>9 DEF TransformStops, TypeOK, Held
  <2>2. Share(b, t)' = Limit + 1
    BY <2>1 DEF Share
  <2> QED BY <1>h, <1>q, <2>1, <2>2, QueueSame
<1>10. CASE Announce(t)
  <2> DEFINE d == [block |-> Target(t), attempts |-> 0]
  <2>1. pc[t] = "announce" /\ Write(d) /\ NextWorker(t, FALSE) /\ UNCHANGED <<todo, fails, faults>>
    BY <1>10 DEF Announce
  <2>2. Share(b, t)' = Share(b, t) /\ Held(t)' = Held(t)
    BY <1>0, <2>1, NextWorkerDue
  <2>3. d \in Body
    <3>1. Target(t) \in Blocks
      BY <2>1, TargetFacts DEF ActOK
    <3> QED BY <3>1, LimitFacts DEF Body
  <2>4. d.block # b
    <3>1. act[t] \in 1 .. Len(Workers[todo[t].block]) /\ todo[t].block \in Blocks
      BY <2>1, BodyFacts DEF ActOK, TypeOK
    <3> QED BY <3>1 DEF NobodyMakesRoots, Target
  <2> HIDE DEF d
  <2>5. PICK i \in Ids : Arrives(i, b, d)
    BY <1>h, <2>1, <2>2, <2>3, WriteLoose
  <2>6. From(b)[i] + Share(b, t) <= From(b)'[i] + Share(b, t)'
    BY <1>d, <1>l, <2>2, <2>4, <2>5 DEF Arrives
  <2> QED BY <1>m, <2>1, <2>5, <2>6 DEF Arrives
<1>11. CASE Retry(t)
  <2> DEFINE d == [todo[t] EXCEPT !.attempts = @ + 1]
  <2>1. pc[t] = "retry" /\ UNCHANGED <<todo, fails, faults>>
    BY <1>11 DEF Retry
  <2>2. CASE TryAgain(todo[t].attempts)
    <3>1. Write(d) /\ Commit(t, "top")
      BY <1>11, <2>2 DEF Retry
    <3>2. Held(t)' = Held(t) /\ pc'[t] = "delete" /\ onfail'[t] = "top"
      BY <1>0, <2>1, <3>1, CommitFacts
    <3>3. todo[t] \in Body /\ todo[t].attempts \in 0 .. Limit /\ todo[t].attempts + 1 \in 0 .. Limit
      BY <2>2, BodyFacts, LimitFacts DEF TypeOK
    <3>4. d \in Body /\ d.block = todo[t].block /\ d.attempts = todo[t].attempts + 1
      BY <3>3, BodyFacts DEF Body
    <3>5. Share(b, t)' = Limit + 1
      BY <3>2 DEF Share
    <3>6. Share(b, t) = IF d.block = b THEN d.attempts ELSE Limit + 1
      BY <2>1, <3>4 DEF Share
    <3> HIDE DEF d
    <3>7. PICK i \in Ids : Arrives(i, b, d)
      BY <1>h, <3>1, <3>2, <3>4, WriteLoose
    <3>8. From(b)[i] + Share(b, t) <= From(b)'[i] + Share(b, t)'
      BY <1>l, <3>3, <3>4, <3>5, <3>6, <3>7 DEF Arrives
    <3> QED BY <1>m, <2>1, <3>7, <3>8 DEF Arrives
  <2>3. CASE ~TryAgain(todo[t].attempts)
    <3>1. Commit(t, "close") /\ UNCHANGED queueVars
      BY <1>11, <2>3 DEF Retry
    <3>2. Held(t)' = Held(t) /\ pc'[t] = "delete" /\ onfail'[t] = "close"
      BY <1>0, <2>1, <3>1, CommitFacts
    <3>3. Share(b, t)' = Limit + 1
      BY <3>2 DEF Share
    <3> QED BY <1>h, <1>q, <2>1, <3>1, <3>2, <3>3, QueueSame
  <2> QED BY <2>2, <2>3
<1>12. CASE Copy(t)
  <2>1. pc[t] = "copy" /\ UNCHANGED <<pending, batch, onfail, todo, fails, faults>>
    BY <1>12 DEF Copy
  <2>2. Held(t)' = Held(t)
    BY <2>1 DEF Held
  <2>3. CASE \E i \in uncopied[t] :
               Write(body[i]) /\ uncopied' = [uncopied EXCEPT ![t] = @ \ {i}] /\ UNCHANGED pc
    <3>1. PICK k \in uncopied[t] :
               Write(body[k]) /\ uncopied' = [uncopied EXCEPT ![t] = @ \ {k}] /\ UNCHANGED pc
      BY <2>3
    <3>2. k \in Ids /\ body[k] \in Body /\ body[k].attempts \in 0 .. Limit
      BY BodyFacts DEF TypeOK
    <3>3. PICK i \in Ids : Arrives(i, b, body[k])
      BY <1>h, <2>2, <3>1, <3>2, WriteLoose
    <3>4. pc'[t] = "copy" /\ uncopied'[t] = uncopied[t] \ {k}
      BY <2>1, <3>1 DEF TypeOK
    <3>5. \A j \in uncopied[t] : j \in Held(t) /\ body'[j] = body[j]
      <4>1. \A j \in uncopied[t] : j \in Held(t)
        BY <1>0 DEF Grip, Held
      <4> QED BY <3>1, <4>1, WriteKeepsHeld
    <3>6. CASE body[k].block = b
      <4>1. Share(b, t) = 0
        BY <2>1, <3>6 DEF Share
      <4>2. \A j \in uncopied'[t] : body'[j].block # b
        <5>1. ASSUME NEW j \in uncopied'[t], body'[j].block = b PROVE FALSE
          <6>1. j \in Held(t) /\ k \in Held(t) /\ j # k /\ body[j].block = b
            BY <3>4, <3>5, <5>1
          <6>2. IsWork(j) /\ IsWork(k)
            BY <1>s, <3>6, <6>1 DEF IsWork
          <6> QED BY <1>0, <6>1, <6>2 DEF Grip
        <5> QED BY <5>1
      <4>3. Share(b, t)' = Limit + 1
        BY <3>4, <4>2 DEF Share
      <4>4. From(b)[i] + Share(b, t) <= From(b)'[i] + Share(b, t)'
        BY <1>l, <3>2, <3>3, <3>6, <4>1, <4>3 DEF Arrives
      <4> QED BY <1>m, <2>1, <3>3, <4>4 DEF Arrives
    <3>7. CASE body[k].block # b
      <4>1. Share(b, t)' = Limit + 1 \/ (Share(b, t)' = 0 /\ Share(b, t) = 0)
        <5>1. CASE \E j \in uncopied'[t] : body'[j].block = b
          BY <2>1, <3>4, <3>5, <5>1 DEF Share
        <5>2. CASE ~\E j \in uncopied'[t] : body'[j].block = b
          BY <3>4, <5>2 DEF Share
        <5> QED BY <5>1, <5>2
      <4>2. From(b)[i] + Share(b, t) <= From(b)'[i] + Share(b, t)'
        BY <1>d, <1>l, <3>3, <3>7, <4>1 DEF Arrives
      <4> QED BY <1>m, <2>1, <3>3, <4>2 DEF Arrives
    <3> QED BY <3>6, <3>7
  <2>4. CASE uncopied[t] = {} /\ pc' = [pc EXCEPT ![t] = "delete"] /\ UNCHANGED <<queueVars, uncopied>>
    <3>1. pc'[t] = "delete" /\ onfail'[t] = onfail[t] /\ todo'[t] = todo[t]
      BY <2>1, <2>4 DEF TypeOK
    <3>2. onfail[t] = "retry" => todo[t].block # b
      BY <1>0, <1>s, <2>1 DEF Grip
    <3>3. Share(b, t)' = Limit + 1
      BY <3>1, <3>2 DEF Share
    <3> QED BY <1>h, <1>q, <2>1, <2>2, <2>4, <3>3, QueueSame
  <2> QED BY <1>12, <2>3, <2>4 DEF Copy
<1>13. CASE Delete(t)
  <2>1. pc[t] = "delete" /\ UNCHANGED <<pending, uncopied, onfail, todo, fails, faults>>
    BY <1>13 DEF Delete
  <2>2. pending[t] = {} /\ uncopied[t] = {}
    BY <1>0, <2>1 DEF Grip
  <2>3. CASE \E i \in batch[t] : DeleteMessage(t, i) /\ batch' = [batch EXCEPT ![t] = @ \ {i}] /\ UNCHANGED pc
    <3>1. PICK i \in batch[t] : DeleteMessage(t, i) /\ batch' = [batch EXCEPT ![t] = @ \ {i}] /\ UNCHANGED pc
      BY <2>3
    <3>2. Share(b, t)' = Share(b, t)
      BY <2>1, <3>1 DEF Share
    <3>3. ASSUME NEW u \in Threads, NEW j \in Held(u), u # t \/ j # i PROVE j \in Held(u)'
      <4>1. CASE u = t
        BY <2>1, <3>1, <3>3, <4>1 DEF Held, TypeOK
      <4>2. CASE u # t
        BY <1>a, <3>3, <4>2 DEF Alone, Held
      <4> QED BY <4>1, <4>2
    <3>4. ASSUME NEW j \in Ids, Loose(j)' PROVE Loose(j) /\ body'[j] = body[j]
      <4>1. CASE /\ sqs' = [sqs EXCEPT ![i] = "absent"]
                 /\ holder' = [holder EXCEPT ![i] = NoOne]
                 /\ body' \in {body, [body EXCEPT ![i] = Nothing]}
        <5>1. i \in Ids /\ j # i
          BY <3>1, <3>4, <4>1 DEF Loose, TypeOK
        <5>2. sqs'[j] = sqs[j] /\ holder'[j] = holder[j] /\ body'[j] = body[j]
          BY <4>1, <5>1 DEF TypeOK
        <5> QED BY <3>3, <3>4, <5>1, <5>2 DEF Loose, Covered
      <4>2. CASE holder[i] # t /\ UNCHANGED queueVars
        BY <3>3, <3>4, <4>2 DEF Loose, Covered
      <4> QED BY <3>1, <4>1, <4>2 DEF DeleteMessage
    <3>5. NoneLooser(b, {})
      BY <3>4, NoneLooserFrom
    <3> QED BY <1>q, <2>1, <3>2, <3>5
  <2>4. CASE batch[t] = {} /\ Goto(t, IF onfail[t] = "end" THEN "end" ELSE "top") /\ UNCHANGED <<queueVars, batch>>
    <3>1. pc'[t] \in {"end", "top"} /\ Held(t)' = Held(t)
      BY <2>1, <2>4 DEF TypeOK, Held
    <3>2. Share(b, t)' = Limit + 1
      BY <3>1 DEF Share
    <3> QED BY <1>h, <1>q, <2>1, <2>4, <3>1, <3>2, QueueSame
  <2> QED BY <1>13, <2>3, <2>4 DEF Delete
<1> QED
  BY <1>1, <1>2, <1>3, <1>4, <1>5, <1>6, <1>7, <1>8, <1>9, <1>10, <1>11, <1>12, <1>13 DEF Step

LEMMA ThreadFails ==
  ASSUME Finite, TypeOK, TypeOK', ActOK, GripOK,
         NEW t \in Threads, Fails(t), NEW b \in Roots, ~Simple(b)
  PROVE  faults' = faults + 1 /\ Spent(b)' <= Spent(b) + (Limit + 1)
<1> USE DEF Goto, queueVars, wrapperVars, loopVars, ledger, Fault
<1>0. Grip(t)
  BY DEF GripOK
<1>a. Alone(t)
  BY ThreadGrip
<1>d. /\ NobodyDue(b, {t})
      /\ Due(b)[t] = Share(b, t) /\ Due(b)'[t] = Share(b, t)'
      /\ Due(b)[t] \in Nat /\ Due(b)[t] <= Limit + 1
      /\ Due(b)'[t] \in Nat /\ Due(b)'[t] <= Limit + 1
  BY <1>a, OthersDue
<1>s. Workers[b] # << >>
  BY DEF Simple
<1>l. Limit \in Nat /\ fails[b] \in Nat /\ fails'[b] \in Nat /\ todo[t].attempts \in Nat /\ Limit + 1 \in Nat
  BY LimitFacts, BodyFacts DEF TypeOK
<1>h. ASSUME Held(t)' = Held(t) PROVE HoldOn
  BY <1>a, <1>h, AloneHolds
<1>q. ASSUME NoneLooser(b, {}), fails'[b] + Share(b, t) <= fails[b] + Share(b, t)' + (Limit + 1)
      PROVE  Spent(b)' <= Spent(b) + (Limit + 1)
  <2>1. fails'[b] + Due(b)[t] <= fails[b] + Due(b)'[t] + (Limit + 1)
    BY <1>d, <1>q
  <2> QED BY <1>d, <1>l, <1>q, <2>1, SpentAt
<1>1. CASE CallFails(t)
  <2>1. /\ pc[t] \in {"copy", "delete"} /\ UNCHANGED <<queueVars, pending, onfail, todo>>
        /\ batch' = [batch EXCEPT ![t] = {}] /\ uncopied' = [uncopied EXCEPT ![t] = {}]
        /\ pc' = [pc EXCEPT ![t] = onfail[t]] /\ faults' = faults + 1
        /\ fails'[b] = IF onfail[t] = "retry" /\ b = todo[t].block THEN fails[b] + 1 ELSE fails[b]
    BY <1>1 DEF CallFails, CountFailure
  <2>2. onfail[t] \in {"top", "retry", "close", "end"} /\ pc'[t] = onfail[t]
    BY <2>1 DEF TypeOK
  <2>3. onfail[t] = "retry" /\ todo[t].block = b => pc[t] = "delete"
    BY <1>0, <1>s, <2>1 DEF Grip
  <2>4. fails'[b] + Share(b, t) <= fails[b] + Share(b, t)'
    <3>1. CASE onfail[t] = "retry" /\ todo[t].block = b
      <4>1. Share(b, t) = todo[t].attempts /\ Share(b, t)' = todo[t].attempts + 1
        BY <2>1, <2>2, <2>3, <3>1 DEF Share
      <4> QED BY <1>l, <2>1, <3>1, <4>1
    <3>2. CASE ~(onfail[t] = "retry" /\ todo[t].block = b)
      <4>1. Share(b, t)' = Limit + 1
        BY <2>1, <2>2, <3>2 DEF Share
      <4> QED BY <1>d, <1>l, <2>1, <3>2, <4>1
    <3> QED BY <3>1, <3>2
  <2>5. ASSUME NEW i \in Ids, Loose(i)', i \notin Held(t) PROVE Loose(i) /\ body'[i] = body[i]
    <3>1. ASSUME NEW u \in Threads, i \in Held(u) PROVE i \in Held(u)'
      BY <1>a, <2>5, <3>1 DEF Alone, Held
    <3> QED BY <2>1, <2>5, <3>1 DEF Loose, Covered
  <2>6. CASE \E k \in Held(t) : body[k].block = b
    <3>1. PICK k \in Held(t) : body[k].block = b
      BY <2>6
    <3>2. k \in Ids
      BY <3>1 DEF Held, TypeOK
    <3>3. ASSUME NEW i \in Ids \ {k}, Loose(i)', body'[i].block = b PROVE Loose(i) /\ body'[i] = body[i]
      <4>1. body[i].block = b
        BY <2>1, <3>3
      <4>2. i \notin Held(t)
        <5>1. IsWork(i) /\ IsWork(k)
          BY <3>1, <4>1 DEF IsWork, Simple
        <5> QED BY <1>0, <3>1, <3>3, <5>1 DEF Grip
      <4> QED BY <2>5, <3>3, <4>2
    <3>4. NoneLooser(b, {k})
      BY <3>3, NoneLooserFrom
    <3>5. From(b)[k] \in Nat /\ From(b)[k] <= Limit + 1 /\ From(b)'[k] \in Nat
      BY <3>2, UsedTypes, LimitFacts DEF Used
    <3>6. fails'[b] + From(b)[k] + Due(b)[t] <= fails[b] + From(b)'[k] + Due(b)'[t] + (Limit + 1)
      BY <1>d, <1>l, <2>4, <3>5
    <3> QED BY <1>d, <1>l, <2>1, <3>2, <3>4, <3>6, SpentMoves
  <2>7. CASE \A k \in Held(t) : body[k].block # b
    <3>1. ASSUME NEW i \in Ids, Loose(i)', body'[i].block = b PROVE Loose(i) /\ body'[i] = body[i]
      BY <2>1, <2>5, <2>7, <3>1
    <3>2. NoneLooser(b, {})
      BY <3>1, NoneLooserFrom
    <3>3. fails'[b] + Share(b, t) <= fails[b] + Share(b, t)' + (Limit + 1)
      BY <1>d, <1>l, <2>4
    <3> QED BY <1>q, <2>1, <3>2, <3>3
  <2> QED BY <2>6, <2>7
<1>2. CASE ReadFails(t)
  <2>1. pc'[t] = "close" /\ Held(t)' = Held(t) /\ UNCHANGED <<queueVars, fails>> /\ faults' = faults + 1
    BY <1>2 DEF ReadFails, TypeOK, Held
  <2>2. NoneLooser(b, {})
    BY <1>h, <2>1, QueueSame
  <2>3. fails'[b] + Share(b, t) <= fails[b] + Share(b, t)' + (Limit + 1)
    BY <1>d, <1>l, <2>1
  <2> QED BY <1>q, <2>1, <2>2, <2>3
<1>3. CASE AnnounceFails(t)
  <2>1. /\ pc[t] = "announce" /\ pc'[t] = "retry" /\ Held(t)' = Held(t)
        /\ fails'[b] = IF b = todo[t].block THEN fails[b] + 1 ELSE fails[b]
        /\ UNCHANGED <<queueVars, todo>> /\ faults' = faults + 1
    BY <1>3 DEF AnnounceFails, ToRetry, CountFailure, TypeOK, Held
  <2>2. NoneLooser(b, {})
    BY <1>h, <2>1, QueueSame
  <2>3. fails'[b] + Share(b, t) <= fails[b] + Share(b, t)' + (Limit + 1)
    BY <1>l, <2>1 DEF Share
  <2> QED BY <1>q, <2>1, <2>2, <2>3
<1>4. CASE RetryFails(t)
  <2>1. pc[t] = "retry" /\ Rollback(t, "close") /\ UNCHANGED <<queueVars, fails>> /\ faults' = faults + 1
    BY <1>4 DEF RetryFails
  <2>2. Held(t)' = Held(t)
    BY <1>0, <2>1, RollbackFacts
  <2>3. NoneLooser(b, {})
    BY <1>h, <2>1, <2>2, QueueSame
  <2>4. fails'[b] + Share(b, t) <= fails[b] + Share(b, t)' + (Limit + 1)
    BY <1>d, <1>l, <2>1
  <2> QED BY <1>q, <2>1, <2>3, <2>4
<1> QED BY <1>1, <1>2, <1>3, <1>4 DEF Fails

(* A crash gives back at most one message for each thread of the machine.  *)
LEMMA CrashReleases ==
  ASSUME Finite, TypeOK, TypeOK', GripOK, NEW m \in Machines, Crash(m), NEW b \in Roots, ~Simple(b),
         NEW n \in Nat, Cardinality(Team(m)) <= n
  PROVE  Spent(b)' <= Spent(b) + n * (Limit + 1)
<1> DEFINE B == {i \in Ids : Covered(i) /\ body[i].block = b /\ On[holder[i]] = m}
           f == [i \in B |-> holder[i]]
<1>1. f \in [B -> Team(m)]
  BY DEF Covered, Team
<1>2. ASSUME NEW i \in B, NEW j \in B, f[i] = f[j] PROVE i = j
  <2>1. /\ holder[i] \in Threads /\ holder[j] = holder[i]
        /\ i \in Held(holder[i]) /\ j \in Held(holder[i]) /\ IsWork(i) /\ IsWork(j)
    BY <1>2 DEF Covered, IsWork, Simple
  <2>2. Grip(holder[i])
    BY <2>1 DEF GripOK
  <2> QED BY <2>1, <2>2 DEF Grip
<1>3. f \in Injection(B, Team(m))
  BY <1>1, <1>2 DEF Injection, IsInjective
<1>4. IsFiniteSet(Team(m)) /\ Cardinality(Team(m)) \in Nat
  BY FS_Subset, FS_CardinalityType DEF Finite, Team
<1>5. IsFiniteSet(B) /\ Cardinality(B) <= Cardinality(Team(m))
  BY <1>3, <1>4, FS_Injection
<1>6. Cardinality(B) <= n /\ B \in SUBSET Ids
  BY <1>4, <1>5, FS_CardinalityType
<1>7. ASSUME NEW i \in Ids \ B, Loose(i)', body'[i].block = b PROVE Loose(i) /\ body'[i] = body[i]
  <2>1. UNCHANGED <<sqs, body, holder>>
    BY DEF Crash, Forget, queueVars
  <2>2. ASSUME Covered(i) PROVE Covered(i)'
    <3>1. On[holder[i]] # m /\ holder[i] \in Threads
      BY <1>7, <2>1, <2>2 DEF Covered
    <3>2. Held(holder[i])' = Held(holder[i])
      BY <2>1, <3>1 DEF Crash, Forget, Held
    <3> QED BY <2>1, <2>2, <3>2 DEF Covered
  <2> QED BY <1>7, <2>1, <2>2 DEF Loose
<1> HIDE DEF B, f
<1>8. NoneLooser(b, B)
  BY <1>7, NoneLooserFrom
<1>9. NobodyDue(b, {})
  <2>1. ASSUME NEW u \in Threads PROVE Due(b)[u] <= Due(b)'[u]
    <3>1. Due(b)'[u] = Limit + 1 \/ Due(b)'[u] = Due(b)[u]
      <4>1. CASE On[u] = m
        <5>1. pc'[u] = "down"
          BY <4>1 DEF Crash
        <5> QED BY <5>1 DEF Due, Share
      <4>2. CASE On[u] # m
        <5>1. pc'[u] = pc[u] /\ uncopied'[u] = uncopied[u] /\ UNCHANGED <<body, todo, onfail>>
          BY <4>2 DEF Crash, Forget, queueVars
        <5> QED BY <5>1 DEF Due, Share
      <4> QED BY <4>1, <4>2
    <3> QED BY <3>1, UsedTypes, LimitFacts DEF Used
  <2> QED BY <2>1 DEF NobodyDue
<1>10. fails'[b] = fails[b]
  BY DEF Crash, Forget, ledger
<1> QED BY <1>6, <1>8, <1>9, <1>10, SpentReleased

Calm ==
  /\ UNCHANGED <<sqs, body, holder, todo, onfail, fails>>
  /\ \A u \in Threads :
       /\ Held(u) \subseteq Held(u)'
       /\ (pc'[u] = pc[u] /\ uncopied'[u] = uncopied[u]) \/ pc'[u] = "top"

(* Nothing is read or given back: a stop request, a process that is        *)
(* started again after all its threads have ended, a step of nobody.       *)
LEMMA QuietSpends ==
  ASSUME Finite, TypeOK, TypeOK', GripOK, NEW b \in Roots,
         \/ \E m \in Machines : Stop(m) \/ Restart(m)
         \/ UNCHANGED vars
  PROVE  Spent(b)' <= Spent(b)
<1>1. Calm
  <2>1. ASSUME NEW m \in Machines, Stop(m) PROVE Calm
    BY <2>1 DEF Stop, queueVars, wrapperVars, loopVars, ledger, Held, Calm
  <2>2. ASSUME NEW m \in Machines, Restart(m) PROVE Calm
    <3>1. ASSUME NEW u \in Threads
          PROVE  /\ Held(u) \subseteq Held(u)'
                 /\ (pc'[u] = pc[u] /\ uncopied'[u] = uncopied[u]) \/ pc'[u] = "top"
      <4>1. CASE On[u] = m
        <5>1. pc[u] \in {"down", "end"} /\ pc'[u] = "top"
          BY <2>2, <4>1 DEF Restart, Team
        <5>2. Held(u) = {}
          BY <5>1 DEF GripOK, Grip, Held
        <5> QED BY <5>1, <5>2
      <4>2. CASE On[u] # m
        BY <2>2, <4>2 DEF Restart, Forget, Held
      <4> QED BY <4>1, <4>2
    <3> QED BY <2>2, <3>1 DEF Restart, Forget, queueVars, ledger, Calm
  <2>3. CASE UNCHANGED vars
    BY <2>3 DEF vars, queueVars, wrapperVars, loopVars, ledger, Held, Calm
  <2> QED BY <2>1, <2>2, <2>3
<1>2. NoneLooser(b, {})
  BY <1>1, QueueSame DEF HoldOn, queueVars, Calm
<1>3. NobodyDue(b, {})
  <2>1. ASSUME NEW u \in Threads PROVE Due(b)[u] <= Due(b)'[u]
    <3>1. Due(b)'[u] = Limit + 1 \/ Due(b)'[u] = Due(b)[u]
      BY <1>1 DEF Due, Share, Calm
    <3> QED BY <3>1, UsedTypes, LimitFacts DEF Used
  <2> QED BY <2>1 DEF NobodyDue
<1> QED BY <1>1, <1>2, <1>3, SpentQuiet DEF Calm

LEMMA PostSpends ==
  ASSUME Finite, TypeOK, TypeOK', GripOK, NEW b \in Roots, NEW c \in Roots, Post(c)
  PROVE  Spent(b)' <= Spent(b) + (IF b = c THEN Limit + 1 ELSE 0)
<1> DEFINE d == [block |-> c, attempts |-> 0]
<1>1. /\ Write(d) /\ UNCHANGED <<pending, batch, uncopied, onfail, pc, todo, fails>>
  BY DEF Post, wrapperVars, loopVars, ledger
<1>2. d \in Body
  BY BlocksAssumption, LimitFacts DEF Body
<1>3. d.block = c /\ d.attempts = 0
  OBVIOUS
<1> HIDE DEF d
<1>4. HoldOn
  BY <1>1 DEF HoldOn, Held
<1>5. PICK i \in Ids : Arrives(i, b, d)
  BY <1>1, <1>2, <1>4, WriteLoose
<1>6. NobodyDue(b, {})
  <2>1. ASSUME NEW u \in Threads PROVE Due(b)[u] <= Due(b)'[u]
    <3>1. \A k \in uncopied[u] : body'[k] = body[k]
      <4>1. \A k \in uncopied[u] : k \in Held(u)
        BY DEF GripOK, Grip, Held
      <4> QED BY <1>1, <4>1, WriteKeepsHeld
    <3>2. Due(b)'[u] = Due(b)[u]
      BY <1>1, <3>1 DEF Due, Share
    <3> QED BY <3>2, UsedTypes DEF Used
  <2> QED BY <2>1 DEF NobodyDue
<1>7. Left(Ids, From(b)') + From(b)'[i] <= Left(Ids, From(b)) + From(b)[i]
  BY <1>5, UsedTypes, LeftBut DEF Arrives, NoneLooser, Finite
<1>8. Left(Threads, Due(b)') <= Left(Threads, Due(b))
  BY <1>6, UsedTypes, LeftShrinks DEF NobodyDue, Finite
<1>9. From(b)[i] = Limit + 1 /\ From(b)'[i] = IF b = c THEN 0 ELSE Limit + 1
  BY <1>3, <1>5 DEF Arrives
<1> QED BY <1>1, <1>7, <1>8, <1>9, SpentNumbers, LimitFacts

(* A message comes back: only while a thread holds it, this costs a fault. *)
LEMMA ExpireSpends ==
  ASSUME Finite, TypeOK, TypeOK', NEW b \in Roots, NEW x \in Ids, Expire(x)
  PROVE  \/ faults' = faults /\ Spent(b)' <= Spent(b)
         \/ faults' = faults + 1 /\ Spent(b)' <= Spent(b) + (Limit + 1)
<1>1. /\ sqs[x] = "inflight" /\ sqs' = [sqs EXCEPT ![x] = "visible"]
      /\ UNCHANGED <<body, holder, pending, batch, uncopied, onfail, pc, todo, fails>>
  BY DEF Expire, wrapperVars, loopVars, ledger
<1>2. NobodyDue(b, {})
  <2>1. ASSUME NEW u \in Threads PROVE Due(b)[u] <= Due(b)'[u]
    <3>1. Due(b)'[u] = Due(b)[u]
      BY <1>1 DEF Due, Share
    <3> QED BY <3>1, UsedTypes DEF Used
  <2> QED BY <2>1 DEF NobodyDue
<1>3. ASSUME NEW i \in Ids, i # x, Loose(i)' PROVE Loose(i) /\ body'[i] = body[i]
  <2>1. sqs'[i] = sqs[i]
    BY <1>1, <1>3 DEF TypeOK
  <2> QED BY <1>1, <1>3, <2>1 DEF Loose, Covered, Held
<1>4. CASE \E t \in Threads : x \in Held(t)
  <2>1. faults' = faults + 1
    BY <1>4 DEF Expire, Fault
  <2>2. NoneLooser(b, {x})
    BY <1>3, NoneLooserFrom
  <2>3. Left(Ids, From(b)') + From(b)'[x] <= Left(Ids, From(b)) + From(b)[x]
    BY <2>2, UsedTypes, LeftBut DEF NoneLooser, Finite
  <2>4. Left(Threads, Due(b)') <= Left(Threads, Due(b))
    BY <1>2, UsedTypes, LeftShrinks DEF NobodyDue, Finite
  <2>5. From(b)[x] <= Limit + 1
    BY UsedTypes, LimitFacts DEF Used
  <2> QED BY <1>1, <2>1, <2>3, <2>4, <2>5, SpentNumbers, LimitFacts
<1>5. CASE ~\E t \in Threads : x \in Held(t)
  <2>1. faults' = faults
    BY <1>5 DEF Expire
  <2>2. Loose(x) /\ body'[x] = body[x]
    BY <1>1, <1>5 DEF Loose, Covered
  <2>3. NoneLooser(b, {})
    BY <1>3, <2>2, NoneLooserFrom
  <2>4. Spent(b)' <= Spent(b)
    BY <1>1, <1>2, <2>3, SpentQuiet
  <2> QED BY <2>1, <2>4
<1> QED BY <1>4, <1>5

LEMMA PostedGrows ==
  ASSUME TypeOK, [Next]_vars
  PROVE  posted \subseteq posted' /\ faults' \in {faults, faults + 1}
<1> USE DEF queueVars, wrapperVars, loopVars, ledger, Fault
<1>1. ASSUME NEW t \in Threads, Step(t) PROVE posted \subseteq posted' /\ faults' = faults
  BY <1>1 DEF Step, Top, Read, ReadNothing, Close, Dispatch, Transform, TransformWarns, TransformFails,
     TransformStops, Announce, Retry, Copy, Delete, Write
<1>2. ASSUME NEW t \in Threads, Fails(t) PROVE posted \subseteq posted' /\ faults' = faults + 1
  BY <1>2 DEF Fails, CallFails, ReadFails, AnnounceFails, RetryFails
<1>3. ASSUME NEW m \in Machines, Stop(m) \/ Crash(m) \/ Restart(m)
      PROVE  posted \subseteq posted' /\ faults' \in {faults, faults + 1}
  BY <1>3 DEF Stop, Crash, Restart, Forget
<1>4. ASSUME NEW b \in Roots, Post(b) PROVE posted \subseteq posted' /\ faults' = faults
  BY <1>4 DEF Post, Write
<1>5. ASSUME NEW i \in Ids, Expire(i) PROVE posted \subseteq posted' /\ faults' \in {faults, faults + 1}
  BY <1>5 DEF Expire
<1>6. CASE UNCHANGED vars
  BY <1>6 DEF vars
<1> QED BY <1>1, <1>2, <1>3, <1>4, <1>5, <1>6 DEF Next

(* Where no worker runs, only a failing call comes to the retry handler.   *)
LEMMA SimpleStep ==
  ASSUME TypeOK, TypeOK', ActOK, GripOK, [Next]_vars, NEW b \in Roots, Simple(b), fails[b] <= faults
  PROVE  fails'[b] <= faults'
<1> USE DEF queueVars, wrapperVars, loopVars, ledger, Fault
<1>0. fails[b] \in Nat /\ fails'[b] \in Nat /\ faults \in Nat /\ faults' \in Nat
  BY LimitsAssumption DEF TypeOK
<1>1. fails'[b] = fails[b] \/ (fails'[b] = fails[b] + 1 /\ faults' = faults + 1)
  <2>1. ASSUME NEW t \in Threads, TransformFails(t) PROVE fails'[b] = fails[b]
    <3>1. pc[t] = "work" /\ fails'[b] = IF b = todo[t].block THEN fails[b] + 1 ELSE fails[b]
      BY <2>1 DEF TransformFails, ToRetry, CountFailure
    <3>2. Kind[todo[t].block] = "work"
      BY <3>1 DEF GripOK, Grip
    <3>3. Workers[todo[t].block] # << >>
      BY <3>1 DEF ActOK
    <3> QED BY <3>1, <3>2, <3>3 DEF Simple
  <2>2. ASSUME NEW t \in Threads, Step(t), ~TransformFails(t) PROVE fails'[b] = fails[b]
    BY <2>2 DEF Step, Top, Read, ReadNothing, Close, Dispatch, Transform, TransformWarns,
       TransformStops, Announce, Retry, Copy, Delete
  <2>3. ASSUME NEW t \in Threads, CallFails(t) \/ AnnounceFails(t)
        PROVE  fails'[b] = fails[b] \/ (fails'[b] = fails[b] + 1 /\ faults' = faults + 1)
    BY <2>3 DEF CallFails, AnnounceFails, ToRetry, CountFailure
  <2>4. ASSUME NEW t \in Threads, ReadFails(t) \/ RetryFails(t) PROVE fails'[b] = fails[b]
    BY <2>4 DEF ReadFails, RetryFails
  <2>5. ASSUME NEW m \in Machines, Stop(m) \/ Crash(m) \/ Restart(m) PROVE fails'[b] = fails[b]
    BY <2>5 DEF Stop, Crash, Restart, Forget
  <2>6. ASSUME NEW c \in Roots, Post(c) PROVE fails'[b] = fails[b]
    BY <2>6 DEF Post
  <2>7. ASSUME NEW i \in Ids, Expire(i) PROVE fails'[b] = fails[b]
    BY <2>7 DEF Expire
  <2>8. CASE UNCHANGED vars
    BY <2>8 DEF vars
  <2> QED BY <2>1, <2>2, <2>3, <2>4, <2>5, <2>6, <2>7, <2>8 DEF Next, Fails
<1> QED BY <1>0, <1>1, PostedGrows

LEMMA RoundsStep ==
  ASSUME Finite, NobodyMakesRoots, TypeOK, ActOK, GripOK, RoundsOK, [Next]_vars
  PROVE  RoundsOK'
<1>1. TypeOK' /\ posted \subseteq posted' /\ faults' \in {faults, faults + 1}
  BY TypeStep, PostedGrows
<1>2. ASSUME NEW b \in Roots, Simple(b) PROVE fails'[b] <= faults'
  BY <1>1, <1>2, SimpleStep DEF RoundsOK
<1>3. ASSUME NEW b \in Roots, ~Simple(b), NEW n \in 1 .. Cardinality(Threads), Teams(n)
      PROVE  Spent(b)' <= Budget(b, n)'
  <2>1. n \in Nat /\ 1 <= n
    OBVIOUS
  <2>2. Spent(b) <= Budget(b, n)
    BY <1>3 DEF RoundsOK
  <2>3. Spent(b) \in Nat /\ Spent(b)' \in Nat /\ Limit + 1 \in Nat /\ n * (Limit + 1) \in Nat
        /\ faults \in Nat
    BY <1>1, <2>1, SpentNumbers, LimitFacts, LimitsAssumption DEF TypeOK
  <2>4. /\ Budget(b, n) \in Nat /\ Budget(b, n)' \in Nat
        /\ faults' = faults => Budget(b, n) <= Budget(b, n)'
        /\ faults' = faults + 1 => /\ Budget(b, n) + n * (Limit + 1) <= Budget(b, n)'
                                   /\ Budget(b, n) + (Limit + 1) <= Budget(b, n)'
        /\ faults' = faults /\ b \notin posted /\ b \in posted' => Budget(b, n) + (Limit + 1) <= Budget(b, n)'
    BY <1>1, <2>1, BudgetFacts
  <2>5. CASE Spent(b)' <= Spent(b)
    BY <1>1, <2>2, <2>3, <2>4, <2>5
  <2>6. CASE faults' = faults + 1 /\ Spent(b)' <= Spent(b) + (Limit + 1)
    BY <2>2, <2>3, <2>4, <2>6
  <2>7. ASSUME NEW t \in Threads, Step(t) \/ Fails(t) PROVE Spent(b)' <= Budget(b, n)'
    BY <1>1, <1>3, <2>5, <2>6, <2>7, ThreadSpends, ThreadFails
  <2>8. CASE (\E m \in Machines : Stop(m) \/ Restart(m)) \/ UNCHANGED vars
    BY <1>1, <2>5, <2>8, QuietSpends
  <2>9. ASSUME NEW m \in Machines, Crash(m) PROVE Spent(b)' <= Budget(b, n)'
    <3>1. faults' = faults + 1
      BY <2>9 DEF Crash, Fault
    <3>2. Spent(b)' <= Spent(b) + n * (Limit + 1)
      BY <1>1, <1>3, <2>1, <2>9, CrashReleases DEF Teams
    <3> QED BY <2>2, <2>3, <2>4, <3>1, <3>2
  <2>10. ASSUME NEW c \in Roots, Post(c) PROVE Spent(b)' <= Budget(b, n)'
    <3>1. Spent(b)' <= Spent(b) + (IF b = c THEN Limit + 1 ELSE 0)
      BY <1>1, <2>10, PostSpends
    <3>2. b = c => b \notin posted /\ b \in posted'
      BY <2>10 DEF Post, Write
    <3>3. faults' = faults
      BY <2>10 DEF Post
    <3> QED BY <2>2, <2>3, <2>4, <3>1, <3>2, <3>3
  <2>11. ASSUME NEW i \in Ids, Expire(i) PROVE Spent(b)' <= Budget(b, n)'
    BY <1>1, <2>5, <2>6, <2>11, ExpireSpends
  <2> QED BY <2>7, <2>8, <2>9, <2>10, <2>11 DEF Next
<1> QED BY <1>2, <1>3 DEF RoundsOK

LEMMA RoundsInit ==
  ASSUME Finite, Init
  PROVE  RoundsOK
<1>1. ASSUME NEW b \in Roots PROVE Spent(b) = 0 /\ fails[b] = 0 /\ faults = 0 /\ posted = {}
  <2>1. \A i \in Ids : From(b)[i] = Limit + 1
    BY DEF Init, From, Loose
  <2>2. \A t \in Threads : Due(b)[t] = Limit + 1
    BY DEF Init, Due, Share
  <2>3. Area(Ids, From(b)) = {} /\ Area(Threads, Due(b)) = {}
    BY <2>1, <2>2, LimitFacts DEF Area
  <2>4. fails[b] = 0 /\ faults = 0 /\ posted = {}
    BY DEF Init
  <2> QED BY <2>3, <2>4, FS_EmptySet DEF Spent, Left
<1>2. ASSUME NEW b \in Roots, NEW n \in Nat PROVE Budget(b, n) = 0
  <2>1. (IF b \in posted THEN 1 ELSE 0) = 0 /\ n * faults = 0
    BY <1>1, <1>2
  <2> QED BY <2>1, LimitFacts DEF Budget
<1> QED BY <1>1, <1>2 DEF RoundsOK

(* Whatever fails, crashes or is delivered twice: a root block comes to    *)
(* the retry handler at most Limit + 1 times, and for each fault as often  *)
(* again for each thread of a machine; work that keeps failing is not      *)
(* tried for ever.  (No worker writes what other programs announce.)       *)
THEOREM OnlyFaultsGiveMoreAttempts ==
  ASSUME IsFiniteSet(Ids), IsFiniteSet(Threads),
         \A b \in Blocks : \A k \in 1 .. Len(Workers[b]) : Workers[b][k] \notin Roots
  PROVE  Spec => []AttemptsAreBounded
<1>0. Finite /\ NobodyMakesRoots
  BY DEF Finite, NobodyMakesRoots
<1> DEFINE RInv == TypeOK /\ ActOK /\ GripOK /\ RoundsOK
<1>1. Init => RInv
  <2>1. Init => ActOK /\ GripOK
    BY DEF Init, ActOK, GripOK, Grip, Held, Busy
  <2> QED BY <1>0, <2>1, TypeInit, RoundsInit
<1>2. RInv /\ [Next]_vars => RInv'
  BY <1>0, TypeStep, ActStep, GripStep, RoundsStep
<1>3. RInv => AttemptsAreBounded
  <2> SUFFICES ASSUME RInv, NEW b \in Roots, NEW n \in 1 .. Cardinality(Threads), Teams(n)
               PROVE  fails[b] <= (Limit + 1) * (1 + n * faults)
    BY DEF AttemptsAreBounded, Teams
  <2> DEFINE g == n * faults
             l == Limit + 1
  <2>1. fails[b] \in Nat /\ faults \in Nat /\ n \in Nat /\ 1 <= n /\ l \in Nat /\ 1 <= l
    BY LimitFacts, LimitsAssumption DEF TypeOK
  <2>2. \A x, y \in Nat : x * y \in Nat /\ (1 <= x => y <= x * y)
    OBVIOUS
  <2>3. g \in Nat /\ faults <= g
    BY <2>1, <2>2
  <2> HIDE DEF g, l
  <2>4. CASE Simple(b)
    <3>1. fails[b] <= faults
      BY <2>4 DEF RoundsOK
    <3>2. 1 + g <= l * (1 + g)
      BY <2>1, <2>2, <2>3
    <3>3. l * (1 + g) \in Nat
      BY <2>1, <2>2, <2>3
    <3>4. fails[b] <= l * (1 + g)
      BY <2>1, <2>3, <3>1, <3>2, <3>3
    <3> QED BY <3>4 DEF g, l
  <2>5. CASE ~Simple(b)
    <3> DEFINE p == IF b \in posted THEN 1 ELSE 0
    <3>1. Spent(b) <= l * (p + g)
      BY <2>5 DEF RoundsOK, Budget, g, l
    <3>2. p \in Nat /\ p <= 1
      OBVIOUS
    <3> HIDE DEF p
    <3>3. l * (p + g) <= l * (1 + g)
      <4>1. \A x, y, z \in Nat : y <= z => x * y <= x * z
        OBVIOUS
      <4> QED BY <2>1, <2>3, <3>2, <4>1
    <3>4. l * (p + g) \in Nat /\ l * (1 + g) \in Nat
      BY <2>1, <2>2, <2>3, <3>2
    <3>5. fails[b] <= Spent(b) /\ Spent(b) \in Nat
      <4>1. Left(Ids, From(b)) \in Nat /\ Left(Threads, Due(b)) \in Nat
        BY <1>0, LeftFinite DEF Finite
      <4> QED BY <2>1, <4>1 DEF Spent
    <3>6. fails[b] <= l * (1 + g)
      BY <2>1, <3>1, <3>3, <3>4, <3>5
    <3> QED BY <3>6 DEF g, l
  <2> QED BY <2>4, <2>5
<1> QED BY <1>1, <1>2, <1>3, PTL DEF Spec

-----------------------------------------------------------------------------
(* The loops are a queue of work.  Every message names a block that was    *)
(* announced, and so does what a thread holds or is at work on, even when  *)
(* the message it had read is gone.                                        *)

Known(i) == sqs[i] # "absent" \/ \E t \in Threads : i \in Held(t)

AtWork(t) == pc[t] \in Busy \/ (pc[t] \in {"copy", "delete"} /\ onfail[t] = "retry")

PostedOK ==
  /\ \A i \in Ids : Known(i) => body[i].block \in posted
  /\ \A t \in Threads : AtWork(t) => todo[t].block \in posted

(* What a step owes to PostedOK.                                           *)
PostedKept ==
  /\ posted \subseteq posted'
  /\ \A i \in Ids : Known(i)' => \/ Known(i) /\ body'[i] = body[i]
                                 \/ body'[i].block \in posted'
  /\ \A t \in Threads : AtWork(t)' => \/ AtWork(t) /\ todo'[t] = todo[t]
                                      \/ todo'[t].block \in posted'

LEMMA PostedFrom == ASSUME PostedOK, PostedKept PROVE PostedOK'
BY DEF PostedOK, PostedKept

(* No message is new, and nobody holds more than before.                   *)
LEMMA KnownSame ==
  ASSUME \A i \in Ids : sqs'[i] # "absent" => sqs[i] # "absent",
         \A t \in Threads : Held(t)' \subseteq Held(t), UNCHANGED body
  PROVE  \A i \in Ids : Known(i)' => Known(i) /\ body'[i] = body[i]
BY DEF Known

LEMMA KnownWrite ==
  ASSUME TypeOK, NEW b, Write(b), \A t \in Threads : Held(t)' \subseteq Held(t)
  PROVE  /\ posted' = posted \cup {b.block}
         /\ \A i \in Ids : Known(i)' => \/ Known(i) /\ body'[i] = body[i]
                                        \/ body'[i].block \in posted'
<1>1. PICK j \in Ids :
           /\ sqs' = [sqs EXCEPT ![j] = "visible"]
           /\ body' = [body EXCEPT ![j] = b]
           /\ posted' = posted \cup {b.block}
  BY WriteFacts
<1>2. body'[j].block \in posted'
  BY <1>1 DEF TypeOK
<1>3. \A i \in Ids \ {j} : sqs'[i] = sqs[i] /\ body'[i] = body[i]
  BY <1>1 DEF TypeOK
<1> QED BY <1>1, <1>2, <1>3 DEF Known

(* Where commit and rollback take what was pending, it is held as before.  *)
LEMMA WrapperHolds ==
  ASSUME TypeOK, NEW t \in Threads, NEW f, Commit(t, f) \/ Rollback(t, f)
  PROVE  /\ \A u \in Threads : Held(u)' \subseteq Held(u)
         /\ \A u \in Threads \ {t} : pc'[u] = pc[u] /\ onfail'[u] = onfail[u]
         /\ pc'[t] \in {"copy", "delete"} /\ onfail'[t] = f
BY DEF Commit, Rollback, Held, TypeOK

LEMMA NextWorkerPosted ==
  ASSUME TypeOK, NEW t \in Threads, NEW s, NextWorker(t, s), pc[t] \in Busy, UNCHANGED todo
  PROVE  /\ \A u \in Threads : Held(u)' \subseteq Held(u)
         /\ \A u \in Threads : AtWork(u)' => AtWork(u) /\ todo'[u] = todo[u]
<1>1. CASE act[t] < Len(Workers[todo[t].block])
  <2>1. pc' = [pc EXCEPT ![t] = "work"] /\ UNCHANGED <<pending, batch, uncopied, onfail>>
    BY <1>1 DEF NextWorker, Goto, wrapperVars
  <2> QED BY <2>1 DEF Held, AtWork, Busy, TypeOK
<1>2. CASE ~(act[t] < Len(Workers[todo[t].block]))
  <2>1. Commit(t, "retry")
    BY <1>2 DEF NextWorker
  <2> QED BY <2>1, WrapperHolds DEF AtWork
<1> QED BY <1>1, <1>2

LEMMA PostedStep ==
  ASSUME TypeOK, ActOK, GripOK, PostedOK, [Next]_vars
  PROVE  PostedOK'
<1> USE DEF Goto, queueVars, wrapperVars, loopVars, ledger
<1>0. \A u \in Threads : Held(u) = pending[u] \cup batch[u]
  BY DEF Held
<1>1. ASSUME NEW t \in Threads,
             \/ Top(t) \/ ReadNothing(t) \/ ReadFails(t)
             \/ Transform(t) /\ Target(t) # Sink
             \/ TransformFails(t) \/ TransformStops(t) \/ AnnounceFails(t) \/ CallFails(t)
      PROVE  PostedKept
  <2>1. /\ UNCHANGED <<queueVars, posted, onfail>>
        /\ \A u \in Threads : Held(u)' \subseteq Held(u)
    BY <1>1 DEF Top, ReadNothing, ReadFails, Transform, TransformFails, TransformStops, AnnounceFails,
       CallFails, Held, TypeOK
  <2>2. \A u \in Threads : AtWork(u)' => AtWork(u) /\ todo'[u] = todo[u]
    <3>1. PICK p \in Places :
            /\ pc' = [pc EXCEPT ![t] = p]
            /\ p \in Busy => AtWork(t) /\ UNCHANGED todo
            /\ p \notin {"copy", "delete"}
      <4>1. CASE Top(t) \/ ReadNothing(t) \/ ReadFails(t)
        BY <4>1 DEF Top, ReadNothing, ReadFails, Busy, Places
      <4>2. CASE \/ Transform(t) /\ Target(t) # Sink
                 \/ TransformFails(t) \/ TransformStops(t) \/ AnnounceFails(t)
        BY <4>2 DEF Transform, TransformFails, TransformStops, AnnounceFails, ToRetry, AtWork, Busy,
           Places
      <4>3. CASE CallFails(t)
        <5>1. onfail[t] \in {"top", "retry", "close", "end"}
          BY DEF TypeOK
        <5> QED BY <4>3, <5>1 DEF CallFails, AtWork, Busy, Places
      <4> QED BY <1>1, <4>1, <4>2, <4>3
    <3>2. \A u \in Threads \ {t} : todo'[u] = todo[u]
      BY <1>1 DEF Top, ReadNothing, ReadFails, Transform, TransformFails, TransformStops,
         AnnounceFails, CallFails, TypeOK
    <3> QED BY <2>1, <3>1, <3>2 DEF AtWork, TypeOK
  <2> QED BY <2>1, <2>2, KnownSame DEF PostedKept
<1>2. ASSUME NEW t \in Threads, Read(t) PROVE PostedKept
  <2>1. PICK i \in Ids :
          /\ sqs[i] = "visible" /\ sqs' = [sqs EXCEPT ![i] = "inflight"]
          /\ pending' = [pending EXCEPT ![t] = @ \cup {i}]
          /\ todo' = [todo EXCEPT ![t] = body[i]]
          /\ UNCHANGED <<body, batch, onfail, posted>>
    BY <1>2 DEF Read
  <2>2. Known(i) /\ body[i].block \in posted
    BY <2>1 DEF Known, PostedOK
  <2>3. \A j \in Ids : Known(j)' => Known(j)
    BY <2>1, <2>2 DEF Known, Held, TypeOK
  <2>4. \A u \in Threads \ {t} : pc'[u] = pc[u] /\ todo'[u] = todo[u]
    BY <1>2, <2>1 DEF Read, TypeOK
  <2>5. todo'[t] = body[i]
    BY <2>1 DEF TypeOK
  <2> QED BY <2>1, <2>2, <2>3, <2>4, <2>5 DEF PostedKept, AtWork
<1>3. ASSUME NEW t \in Threads, Close(t) PROVE PostedKept
  <2>1. Commit(t, "end") /\ UNCHANGED <<queueVars, posted, todo>>
    BY <1>3 DEF Close
  <2>2. \A u \in Threads : AtWork(u)' => AtWork(u)
    BY <2>1, WrapperHolds DEF AtWork, Busy
  <2> QED BY <2>1, <2>2, WrapperHolds, KnownSame DEF PostedKept
<1>4. ASSUME NEW t \in Threads, Dispatch(t) PROVE PostedKept
  <2>1. pc[t] \in Busy /\ UNCHANGED <<queueVars, posted, todo>>
    BY <1>4 DEF Dispatch, Busy
  <2>2. \/ \E f \in {"close", "retry"} : Commit(t, f) \/ Rollback(t, f)
        \/ pc' = [pc EXCEPT ![t] = "work"] /\ UNCHANGED wrapperVars
    BY <1>4 DEF Dispatch
  <2>3. \A u \in Threads : AtWork(u)' => AtWork(u)
    BY <2>1, <2>2, WrapperHolds DEF AtWork, TypeOK
  <2>4. \A u \in Threads : Held(u)' \subseteq Held(u)
    BY <2>2, WrapperHolds DEF Held
  <2> QED BY <2>1, <2>3, <2>4, KnownSame DEF PostedKept
<1>5. ASSUME NEW t \in Threads, (Transform(t) /\ Target(t) = Sink) \/ TransformWarns(t) PROVE PostedKept
  <2>1. /\ pc[t] \in Busy /\ UNCHANGED <<queueVars, posted, todo>>
        /\ NextWorker(t, FALSE) \/ NextWorker(t, TRUE)
    BY <1>5 DEF Transform, TransformWarns, Busy
  <2> QED BY <2>1, NextWorkerPosted, KnownSame DEF PostedKept
<1>6. ASSUME NEW t \in Threads, Announce(t) PROVE PostedKept
  <2>1. /\ pc[t] \in Busy /\ UNCHANGED todo /\ NextWorker(t, FALSE)
        /\ Write([block |-> Target(t), attempts |-> 0])
    BY <1>6 DEF Announce, Busy
  <2> QED BY <2>1, NextWorkerPosted, KnownWrite DEF PostedKept
<1>7. ASSUME NEW t \in Threads, Retry(t) PROVE PostedKept
  <2>1. /\ pc[t] \in Busy /\ UNCHANGED todo /\ \E f \in {"top", "close"} : Commit(t, f)
        /\ \/ \E b \in Body : Write(b)
           \/ UNCHANGED <<queueVars, posted>>
    BY <1>7, LimitFacts, BodyFacts DEF Retry, Busy, TypeOK, Body
  <2>2. \A u \in Threads : AtWork(u)' => AtWork(u)
    BY <2>1, WrapperHolds DEF AtWork
  <2> QED BY <2>1, <2>2, WrapperHolds, KnownWrite, KnownSame DEF PostedKept
<1>8. ASSUME NEW t \in Threads, RetryFails(t) PROVE PostedKept
  <2>1. pc[t] \in Busy /\ UNCHANGED <<queueVars, posted, todo>> /\ Rollback(t, "close")
    BY <1>8 DEF RetryFails, Busy
  <2>2. \A u \in Threads : AtWork(u)' => AtWork(u)
    BY <2>1, WrapperHolds DEF AtWork
  <2> QED BY <2>1, <2>2, WrapperHolds, KnownSame DEF PostedKept
<1>9. ASSUME NEW t \in Threads, Copy(t) PROVE PostedKept
  <2>1. /\ UNCHANGED <<pending, batch, onfail, todo>>
        /\ \/ \E b : Write(b) /\ UNCHANGED pc
           \/ pc[t] = "copy" /\ pc' = [pc EXCEPT ![t] = "delete"] /\ UNCHANGED <<queueVars, posted>>
    BY <1>9 DEF Copy
  <2>2. \A u \in Threads : AtWork(u)' => AtWork(u)
    BY <2>1 DEF AtWork, Busy, TypeOK
  <2>3. \A u \in Threads : Held(u)' \subseteq Held(u)
    BY <2>1 DEF Held
  <2> QED BY <2>1, <2>2, <2>3, KnownWrite, KnownSame DEF PostedKept
<1>10. ASSUME NEW t \in Threads, Delete(t) PROVE PostedKept
  <2>1. UNCHANGED <<pending, onfail, todo, posted>> /\ pending[t] = {} /\ pc[t] = "delete"
    BY <1>10 DEF Delete, GripOK, Grip
  <2>2. CASE UNCHANGED <<queueVars, batch>> /\ pc' \in {[pc EXCEPT ![t] = p] : p \in {"end", "top"}}
    <3>1. \A u \in Threads : AtWork(u)' => AtWork(u)
      BY <2>1, <2>2 DEF AtWork, Busy, TypeOK
    <3>2. \A u \in Threads : Held(u)' \subseteq Held(u)
      BY <2>1, <2>2 DEF Held
    <3> QED BY <2>1, <2>2, <3>1, <3>2, KnownSame DEF PostedKept
  <2>3. ASSUME NEW i \in batch[t], DeleteMessage(t, i), batch' = [batch EXCEPT ![t] = @ \ {i}],
               UNCHANGED pc
        PROVE  PostedKept
    <3>1. \A u \in Threads : Held(u)' \subseteq Held(u)
      BY <2>1, <2>3 DEF Held, TypeOK
    <3>2. i \in Ids /\ i \notin Held(t)'
      BY <2>1, <2>3 DEF Held, TypeOK
    <3>3. CASE UNCHANGED queueVars
      BY <2>1, <2>3, <3>1, <3>3, KnownSame DEF PostedKept, AtWork
    <3>4. CASE /\ sqs' = [sqs EXCEPT ![i] = "absent"]
               /\ body' = IF \E u \in Threads \ {t} : i \in Held(u)
                          THEN body ELSE [body EXCEPT ![i] = Nothing]
      <4>1. \A j \in Ids \ {i} : body'[j] = body[j] /\ sqs'[j] = sqs[j]
        BY <3>2, <3>4 DEF TypeOK
      <4>2. Known(i)' => Known(i) /\ body'[i] = body[i]
        <5>1. sqs'[i] = "absent"
          BY <3>2, <3>4 DEF TypeOK
        <5>2. Known(i)' => \E u \in Threads \ {t} : i \in Held(u)
          BY <3>1, <3>2, <5>1 DEF Known
        <5> QED BY <3>4, <5>2 DEF Known
      <4>3. \A j \in Ids : Known(j)' => Known(j) /\ body'[j] = body[j]
        BY <3>1, <4>1, <4>2 DEF Known
      <4> QED BY <2>1, <2>3, <4>3 DEF PostedKept, AtWork
    <3> QED BY <2>3, <3>3, <3>4 DEF DeleteMessage
  <2> QED BY <1>10, <2>2, <2>3 DEF Delete
<1>11. ASSUME NEW m \in Machines, Stop(m) \/ Crash(m) \/ Restart(m) PROVE PostedKept
  <2>1. UNCHANGED <<queueVars, posted, onfail, todo>>
    BY <1>11 DEF Stop, Crash, Restart, Forget
  <2>2. \A u \in Threads : Held(u)' \subseteq Held(u)
    BY <1>11 DEF Stop, Crash, Restart, Forget, Held
  <2>3. \A u \in Threads : AtWork(u)' => AtWork(u)
    BY <1>11, <2>1 DEF Stop, Crash, Restart, AtWork, Busy
  <2> QED BY <2>1, <2>2, <2>3, KnownSame DEF PostedKept
<1>12. ASSUME NEW b \in Roots, Post(b) PROVE PostedKept
  <2>1. Write([block |-> b, attempts |-> 0]) /\ UNCHANGED <<wrapperVars, loopVars>>
    BY <1>12 DEF Post
  <2>2. \A u \in Threads : Held(u)' \subseteq Held(u)
    BY <2>1 DEF Held
  <2> QED BY <2>1, <2>2, KnownWrite DEF PostedKept, AtWork
<1>13. ASSUME NEW i \in Ids, Expire(i) PROVE PostedKept
  <2>1. /\ sqs[i] # "absent" /\ sqs' = [sqs EXCEPT ![i] = "visible"]
        /\ UNCHANGED <<body, posted, wrapperVars, loopVars>>
    BY <1>13 DEF Expire
  <2>2. \A j \in Ids : sqs'[j] # "absent" => sqs[j] # "absent"
    BY <2>1 DEF TypeOK
  <2>3. \A u \in Threads : Held(u)' \subseteq Held(u)
    BY <2>1 DEF Held
  <2> QED BY <2>1, <2>2, <2>3, KnownSame DEF PostedKept, AtWork
<1>14. ASSUME UNCHANGED vars PROVE PostedKept
  <2>1. UNCHANGED <<sqs, body, pending, batch, posted, pc, onfail, todo>>
    BY <1>14 DEF vars
  <2>2. \A u \in Threads : Held(u)' \subseteq Held(u)
    BY <2>1 DEF Held
  <2>3. \A u \in Threads : AtWork(u)' => AtWork(u) /\ todo'[u] = todo[u]
    BY <2>1 DEF AtWork
  <2>4. \A i \in Ids : Known(i)' => Known(i) /\ body'[i] = body[i]
    BY <2>1, <2>2, KnownSame
  <2> QED BY <2>1, <2>3, <2>4 DEF PostedKept
<1>15. ASSUME NEW t \in Threads, Step(t) \/ Fails(t) PROVE PostedKept
  BY <1>1, <1>2, <1>3, <1>4, <1>5, <1>6, <1>7, <1>8, <1>9, <1>10, <1>15 DEF Step, Fails
<1>16. PostedKept
  BY <1>11, <1>12, <1>13, <1>14, <1>15 DEF Next
<1> QED BY <1>16, PostedFrom

(* Which blocks somebody will be told of.                                  *)
LEMMA WaitingSame ==
  ASSUME \A i \in Ids : /\ sqs'[i] = "absent" <=> sqs[i] = "absent"
                        /\ sqs[i] # "absent" => body'[i] = body[i]
  PROVE  Waiting' = Waiting
<1>1. \A b \in Blocks : Carried(b)' <=> Carried(b)
  BY DEF Carried
<1> QED BY <1>1 DEF Waiting

LEMMA WaitingWrite ==
  ASSUME TypeOK, NEW b, b.block \in Blocks, Write(b)
  PROVE  posted' = posted \cup {b.block} /\ Waiting' = Waiting \cup {b.block}
<1>1. PICK j \in Ids :
           /\ sqs[j] = "absent"
           /\ sqs' = [sqs EXCEPT ![j] = "visible"]
           /\ body' = [body EXCEPT ![j] = b]
           /\ posted' = posted \cup {b.block}
  BY WriteFacts
<1>2. sqs'[j] # "absent" /\ body'[j] = b /\ \A i \in Ids \ {j} : sqs'[i] = sqs[i] /\ body'[i] = body[i]
  BY <1>1 DEF TypeOK
<1>3. \A c \in Blocks : Carried(c)' <=> Carried(c) \/ c = b.block
  BY <1>1, <1>2 DEF Carried
<1> QED BY <1>1, <1>3 DEF Waiting

LEMMA WaitingDelete ==
  ASSUME TypeOK, NEW t, NEW i \in Ids, DeleteMessage(t, i)
  PROVE  Waiting' = Waiting \/ \E b \in Waiting : b \notin Waiting' /\ Waiting' = Waiting \ {b}
<1>1. CASE UNCHANGED queueVars
  BY <1>1, WaitingSame DEF queueVars
<1>2. CASE sqs' = [sqs EXCEPT ![i] = "absent"] /\ body' \in {body, [body EXCEPT ![i] = Nothing]}
  <2>1. sqs'[i] = "absent" /\ \A j \in Ids \ {i} : sqs'[j] = sqs[j] /\ body'[j] = body[j]
    BY <1>2 DEF TypeOK
  <2>2. CASE sqs[i] = "absent"
    BY <2>1, <2>2, WaitingSame
  <2>3. CASE sqs[i] # "absent"
    <3> DEFINE b == body[i].block
    <3>1. b \in Waiting
      <4>1. Carried(b)
        BY <2>3 DEF Carried
      <4>2. b \in Blocks
        BY BodyFacts DEF TypeOK
      <4> QED BY <4>1, <4>2 DEF Waiting
    <3>2. \A c \in Blocks \ {b} : Carried(c)' <=> Carried(c)
      BY <2>1 DEF Carried
    <3>3. Waiting' \subseteq Waiting
      BY <2>1 DEF Waiting, Carried
    <3>4. Waiting \ {b} \subseteq Waiting'
      BY <3>2 DEF Waiting
    <3> HIDE DEF b
    <3> QED BY <3>1, <3>3, <3>4
  <2> QED BY <2>2, <2>3
<1> QED BY <1>1, <1>2 DEF DeleteMessage

(* An end that a step gives to a block is one that the queue of work knows. *)
LEMMA EndIs ==
  ASSUME IInv, IInv', NEW b \in Blocks, NEW f \in Fates,
         fate' = [fate EXCEPT ![b] = @ \cup {f}], UNCHANGED fails,
         f = "malformed" <=> Kind[b] # "work"
  PROVE  Promise!EndsAs(b, f)
<1>1. f \in fate'[b]
  BY DEF IInv, TypeOK
<1>2. /\ Workers[b] \in Seq(Blocks \cup {Sink}) /\ DOMAIN Workers[b] = 1 .. Len(Workers[b])
      /\ Outputs[b] = {Workers[b][k] : k \in DOMAIN Workers[b]} \ {Sink}
  BY BlocksAssumption DEF Outputs
<1>3. f = "done" => Outputs[b] \subseteq posted'
  <2>1. f = "done" => \A k \in 1 .. Len(Workers[b]) : Workers[b][k] \in posted' \cup {Sink}
    BY <1>1 DEF IInv, DoneOK, Announced
  <2> QED BY <1>2, <2>1
<1>4. f = "rejected" /\ b \in Roots => fails[b] > Limit
  BY <1>1 DEF IInv, CountOK, RejectedAfterAllAttempts
<1>5. f = "unknown" => Outputs[b] = {}
  <2>1. f = "unknown" => Workers[b] = << >>
    BY <1>1 DEF IInv, DoneOK
  <2> QED BY <1>2, <2>1
<1>6. f = "malformed" <=> b \notin WorkBlocks
  BY DEF WorkBlocks
<1> QED BY <1>3, <1>4, <1>5, <1>6 DEF Promise!EndsAs

LEMMA QueueWaits == UNCHANGED queueVars => Waiting' = Waiting
<1> SUFFICES ASSUME UNCHANGED queueVars PROVE Waiting' = Waiting
  OBVIOUS
<1>1. UNCHANGED <<sqs, body>>
  BY DEF queueVars
<1> QED BY <1>1, WaitingSame

LEMMA NextWorkerEnds ==
  ASSUME NEW t \in Threads, NEW s, NextWorker(t, s)
  PROVE  UNCHANGED fate \/ \E f \in {"done", "swallowed"} : End(t, f)
BY DEF NextWorker

(* The block that a thread is at work on.                                  *)
LEMMA AtWorkOn ==
  ASSUME IInv, PostedOK, GripOK, NEW t \in Threads
  PROVE  /\ todo[t].block \in Blocks
         /\ AtWork(t) => todo[t].block \in posted
         /\ pc[t] \in {"work", "announce", "retry"} => todo[t].block \in WorkBlocks
         /\ pc[t] \in {"copy", "delete"} /\ onfail[t] = "retry" => todo[t].block \in WorkBlocks
<1>1. todo[t].block \in Blocks
  BY BodyFacts DEF IInv, TypeOK
<1> QED BY <1>1 DEF PostedOK, GripOK, Grip, WorkBlocks

(* A step that ends the work on a block, or not, and tells nobody.         *)
LEMMA EndStep ==
  ASSUME IInv, IInv', PostedOK, GripOK, NEW t \in Threads, AtWork(t), todo[t].block \in WorkBlocks,
         UNCHANGED <<posted, fails, cut>>, Waiting' = Waiting,
         UNCHANGED fate \/ \E f \in Fates \ {"malformed"} : End(t, f)
  PROVE  [Promise!Next]_(Promise!workVars)
<1> DEFINE b == todo[t].block
<1>1. b \in Blocks /\ b \in posted /\ Kind[b] = "work"
  BY AtWorkOn DEF WorkBlocks
<1>2. CASE UNCHANGED fate
  BY <1>2 DEF Promise!workVars
<1>3. ASSUME NEW f \in Fates \ {"malformed"}, End(t, f) PROVE Promise!Next
  <2>1. Promise!EndsAs(b, f)
    BY <1>1, <1>3, EndIs DEF End
  <2>2. Promise!Finish(b, f)
    BY <1>1, <2>1 DEF Promise!Finish
  <2> QED BY <1>1, <2>2 DEF Promise!Next, Fates
<1> QED BY <1>2, <1>3

LEMMA FailStep ==
  ASSUME IInv, PostedOK, GripOK, NEW t \in Threads, AtWork(t), todo[t].block \in WorkBlocks,
         UNCHANGED <<posted, fate, cut>>, Waiting' = Waiting, CountFailure(t)
  PROVE  Promise!Next
<1> DEFINE b == todo[t].block
<1>1. b \in Blocks /\ b \in posted
  BY AtWorkOn
<1>2. Promise!Fail(b)
  BY <1>1 DEF Promise!Fail, CountFailure
<1> QED BY <1>1, <1>2 DEF Promise!Next

(* A message of a block that was announced is written again.               *)
LEMMA ReturnStep ==
  ASSUME IInv, NEW b, b.block \in posted, Write(b), UNCHANGED <<fate, fails, cut>>
  PROVE  Promise!Next
<1>1. b.block \in Blocks
  BY DEF IInv, TypeOK
<1>2. posted' = posted /\ Waiting' = Waiting \cup {b.block}
  BY <1>1, WaitingWrite DEF IInv
<1>3. Promise!Return(b.block)
  BY <1>2 DEF Promise!Return
<1> QED BY <1>1, <1>3 DEF Promise!Next

(* Every step of the loops is one of the queue of work, or a stutter.      *)
LEMMA PromiseStep ==
  ASSUME IInv, IInv', GripOK, PostedOK, [Next]_vars
  PROVE  [Promise!Next]_(Promise!workVars)
<1> USE DEF ledger
<1>0. TypeOK /\ ActOK
  BY DEF IInv
<1>1. ASSUME UNCHANGED queueVars, UNCHANGED <<posted, ledger>> PROVE UNCHANGED Promise!workVars
  BY <1>1, QueueWaits DEF Promise!workVars
<1>2. ASSUME NEW t \in Threads,
             \/ Top(t) \/ ReadNothing(t) \/ ReadFails(t) \/ Close(t) \/ RetryFails(t)
      PROVE  UNCHANGED Promise!workVars
  BY <1>1, <1>2 DEF Top, ReadNothing, ReadFails, Close, RetryFails
<1>3. ASSUME NEW t \in Threads, Read(t) PROVE [Promise!Next]_(Promise!workVars)
  <2>1. PICK i \in Ids :
          /\ sqs[i] = "visible" /\ sqs' = [sqs EXCEPT ![i] = "inflight"] /\ UNCHANGED body
          /\ fate' = IF Kind[body[i].block] = "work" THEN fate
                     ELSE [fate EXCEPT ![body[i].block] = @ \cup {"malformed"}]
    BY <1>3 DEF Read
  <2> DEFINE b == body[i].block
  <2>2. b \in Blocks /\ b \in posted
    BY <1>0, <2>1, BodyFacts DEF PostedOK, Known, TypeOK
  <2>3. Waiting' = Waiting /\ UNCHANGED <<posted, fails, cut>>
    BY <1>0, <1>3, <2>1, WaitingSame DEF Read, TypeOK
  <2>4. CASE Kind[b] = "work"
    BY <2>1, <2>3, <2>4 DEF Promise!workVars
  <2>5. CASE Kind[b] # "work"
    <3>1. "malformed" \in Fates
      BY DEF Fates
    <3>2. Promise!EndsAs(b, "malformed")
      BY <2>1, <2>2, <2>3, <2>5, <3>1, EndIs
    <3>3. Promise!Finish(b, "malformed")
      BY <2>2, <2>3, <3>2 DEF Promise!Finish
    <3> QED BY <2>2, <3>3 DEF Promise!Next
  <2> QED BY <2>4, <2>5
<1>4. ASSUME NEW t \in Threads, Dispatch(t) PROVE [Promise!Next]_(Promise!workVars)
  <2>1. /\ AtWork(t) /\ UNCHANGED <<queueVars, posted, fails, cut>>
        /\ UNCHANGED fate \/ (Kind[todo[t].block] = "work" /\ End(t, "unknown"))
    BY <1>4 DEF Dispatch, AtWork, Busy
  <2>2. CASE UNCHANGED fate
    BY <2>1, <2>2, QueueWaits DEF Promise!workVars
  <2>3. CASE Kind[todo[t].block] = "work" /\ End(t, "unknown")
    <3>1. "unknown" \in Fates \ {"malformed"} /\ todo[t].block \in WorkBlocks
      BY <2>3, AtWorkOn DEF Fates, WorkBlocks
    <3> QED BY <2>1, <2>3, <3>1, QueueWaits, EndStep
  <2> QED BY <2>1, <2>2, <2>3
<1>5. ASSUME NEW t \in Threads, Transform(t) \/ TransformWarns(t)
      PROVE  [Promise!Next]_(Promise!workVars)
  <2>1. /\ AtWork(t) /\ pc[t] = "work" /\ UNCHANGED <<queueVars, posted, fails, cut>>
        /\ UNCHANGED fate \/ \E s : NextWorker(t, s)
    BY <1>5 DEF Transform, TransformWarns, AtWork, Busy
  <2>2. UNCHANGED fate \/ \E f \in Fates \ {"malformed"} : End(t, f)
    BY <2>1, NextWorkerEnds DEF Fates
  <2> QED BY <2>1, <2>2, AtWorkOn, QueueWaits, EndStep
<1>6. ASSUME NEW t \in Threads, TransformFails(t) \/ AnnounceFails(t) PROVE Promise!Next
  <2>1. /\ AtWork(t) /\ pc[t] \in {"work", "announce"} /\ UNCHANGED <<queueVars, posted, fate, cut>>
        /\ CountFailure(t)
    BY <1>6 DEF TransformFails, AnnounceFails, ToRetry, AtWork, Busy
  <2> QED BY <2>1, AtWorkOn, QueueWaits, FailStep
<1>7. ASSUME NEW t \in Threads, TransformStops(t) PROVE Promise!Next
  <2>1. /\ AtWork(t) /\ pc[t] = "work" /\ UNCHANGED <<queueVars, posted, fate, fails>>
        /\ cut' = cut \cup {todo[t].block}
    BY <1>7 DEF TransformStops, AtWork, Busy
  <2>2. Promise!Interrupt(todo[t].block)
    BY <2>1, AtWorkOn, QueueWaits DEF Promise!Interrupt
  <2> QED BY <2>2, AtWorkOn DEF Promise!Next
<1>8. ASSUME NEW t \in Threads, Announce(t) PROVE Promise!Next
  <2> DEFINE b == todo[t].block
             a == Target(t)
  <2>1. /\ AtWork(t) /\ pc[t] = "announce" /\ UNCHANGED <<fails, cut>>
        /\ Write([block |-> a, attempts |-> 0]) /\ NextWorker(t, FALSE)
    BY <1>8 DEF Announce, AtWork, Busy
  <2>2. b \in Blocks /\ b \in posted /\ Kind[b] = "work"
    BY <2>1, AtWorkOn DEF WorkBlocks
  <2>3. a \in Blocks /\ a \in Outputs[b]
    <3>1. a # Sink /\ a \in Blocks \cup {Sink}
      BY <1>0, <2>1, TargetFacts DEF ActOK
    <3>2. act[t] \in DOMAIN Workers[b]
      BY <1>0, <2>1, <2>2, BlocksAssumption DEF ActOK
    <3> QED BY <2>2, <3>1, <3>2 DEF Target, Outputs
  <2>4. posted' = posted \cup {a} /\ Waiting' = Waiting \cup {a}
    <3> DEFINE m == [block |-> a, attempts |-> 0]
    <3>1. m.block = a
      OBVIOUS
    <3> HIDE DEF m
    <3>2. Write(m)
      BY <2>1 DEF m
    <3> HIDE DEF a
    <3> QED BY <1>0, <2>3, <3>1, <3>2, WaitingWrite
  <2>5. UNCHANGED fate \/ Promise!EndsAs(b, "done") \/ Promise!EndsAs(b, "swallowed")
    <3>1. UNCHANGED fate \/ \E f \in {"done", "swallowed"} : End(t, f)
      BY <2>1, NextWorkerEnds
    <3>2. ASSUME NEW f \in {"done", "swallowed"}, End(t, f) PROVE Promise!EndsAs(b, f)
      <4>1. f \in Fates /\ f # "malformed"
        BY DEF Fates
      <4> QED BY <2>1, <2>2, <3>2, <4>1, EndIs DEF End
    <3> QED BY <3>1, <3>2
  <2>6. Promise!Announce(b, a)
    BY <2>1, <2>2, <2>3, <2>4, <2>5 DEF Promise!Announce, Promise!Tell
  <2> QED BY <2>2, <2>3, <2>6 DEF Promise!Next
<1>9. ASSUME NEW t \in Threads, Retry(t) PROVE [Promise!Next]_(Promise!workVars)
  <2>1. AtWork(t) /\ pc[t] = "retry" /\ UNCHANGED <<fails, cut>>
    BY <1>9 DEF Retry, AtWork, Busy
  <2>2. CASE UNCHANGED fate /\ Write([todo[t] EXCEPT !.attempts = @ + 1])
    <3> DEFINE m == [todo[t] EXCEPT !.attempts = @ + 1]
    <3>1. m.block = todo[t].block
      BY <1>0 DEF TypeOK, Body
    <3>2. m.block \in posted
      BY <2>1, <3>1, AtWorkOn
    <3> HIDE DEF m
    <3>3. Write(m)
      BY <2>2 DEF m
    <3> QED BY <2>1, <2>2, <3>2, <3>3, ReturnStep
  <2>3. CASE End(t, "rejected") /\ UNCHANGED <<queueVars, posted>>
    <3>1. "rejected" \in Fates \ {"malformed"}
      BY DEF Fates
    <3> QED BY <2>1, <2>3, <3>1, AtWorkOn, QueueWaits, EndStep
  <2> QED BY <1>9, <2>2, <2>3 DEF Retry
<1>10. ASSUME NEW t \in Threads, Copy(t) PROVE [Promise!Next]_(Promise!workVars)
  <2>1. CASE UNCHANGED <<queueVars, posted, ledger>>
    BY <1>1, <2>1
  <2>2. ASSUME NEW i \in uncopied[t], Write(body[i]), UNCHANGED ledger PROVE Promise!Next
    <3>1. i \in Ids /\ i \in Held(t)
      BY <1>0, <2>2 DEF GripOK, Grip, Held, TypeOK
    <3>2. body[i].block \in posted
      BY <3>1 DEF PostedOK, Known
    <3> QED BY <2>2, <3>2, ReturnStep
  <2> QED BY <1>10, <2>1, <2>2 DEF Copy
<1>11. ASSUME NEW t \in Threads, Delete(t) PROVE [Promise!Next]_(Promise!workVars)
  <2>1. CASE UNCHANGED <<queueVars, posted, ledger>>
    BY <1>1, <2>1
  <2>2. ASSUME NEW i \in batch[t], DeleteMessage(t, i), UNCHANGED <<posted, ledger>>
        PROVE  [Promise!Next]_(Promise!workVars)
    <3>1. i \in Ids
      BY <1>0, <2>2 DEF TypeOK
    <3>2. CASE Waiting' = Waiting
      BY <2>2, <3>2 DEF Promise!workVars
    <3>3. ASSUME NEW b \in Waiting, b \notin Waiting', Waiting' = Waiting \ {b} PROVE Promise!Next
      <4>1. b \in Blocks /\ b \in posted
        BY DEF Waiting, Carried, PostedOK, Known
      <4>2. ~Carried(b)'
        BY <3>3, <4>1 DEF Waiting
      <4>3. Settled(b)'
        BY <2>2, <4>1, <4>2 DEF IInv, Safe, Carried
      <4>4. fate[b] # {} \/ b \in cut
        BY <2>2, <4>3 DEF Settled, Ended
      <4>5. Promise!Forget(b)
        BY <2>2, <3>3, <4>4 DEF Promise!Forget
      <4> QED BY <4>1, <4>5 DEF Promise!Next
    <3> QED BY <1>0, <2>2, <3>1, <3>2, <3>3, WaitingDelete
  <2> QED BY <1>11, <2>1, <2>2 DEF Delete
<1>12. ASSUME NEW t \in Threads, CallFails(t) PROVE [Promise!Next]_(Promise!workVars)
  <2>1. UNCHANGED <<queueVars, posted, stored, fate, cut>> /\ pc[t] \in {"copy", "delete"}
    BY <1>12 DEF CallFails
  <2>2. CASE onfail[t] = "retry"
    <3>1. AtWork(t) /\ CountFailure(t)
      BY <1>12, <2>1, <2>2 DEF CallFails, AtWork
    <3> QED BY <2>1, <2>2, <3>1, AtWorkOn, QueueWaits, FailStep
  <2>3. CASE onfail[t] # "retry"
    BY <1>1, <1>12, <2>1, <2>3 DEF CallFails
  <2> QED BY <2>2, <2>3
<1>13. ASSUME NEW m \in Machines, Stop(m) \/ Crash(m) \/ Restart(m) PROVE UNCHANGED Promise!workVars
  BY <1>1, <1>13 DEF Stop, Crash, Restart, Forget
<1>14. ASSUME NEW b \in Roots, Post(b) PROVE Promise!Next
  <2> DEFINE m == [block |-> b, attempts |-> 0]
  <2>1. b \in Blocks /\ m.block = b
    BY BlocksAssumption
  <2> HIDE DEF m
  <2>2. Write(m) /\ UNCHANGED ledger
    BY <1>14 DEF Post, m
  <2>3. Promise!Post(b)
    BY <1>0, <2>1, <2>2, WaitingWrite DEF Promise!Post, Promise!Tell
  <2> QED BY <2>1, <2>3 DEF Promise!Next
<1>15. ASSUME NEW i \in Ids, Expire(i) PROVE UNCHANGED Promise!workVars
  <2>1. /\ sqs[i] # "absent" /\ sqs' = [sqs EXCEPT ![i] = "visible"]
        /\ UNCHANGED <<body, posted, ledger>>
    BY <1>15 DEF Expire
  <2>2. Waiting' = Waiting
    BY <1>0, <2>1, WaitingSame DEF TypeOK
  <2> QED BY <2>1, <2>2 DEF Promise!workVars
<1>16. ASSUME UNCHANGED vars PROVE UNCHANGED Promise!workVars
  BY <1>1, <1>16 DEF vars
<1>17. ASSUME NEW t \in Threads, Step(t) \/ Fails(t) PROVE [Promise!Next]_(Promise!workVars)
  BY <1>2, <1>3, <1>4, <1>5, <1>6, <1>7, <1>8, <1>9, <1>10, <1>11, <1>12, <1>17 DEF Step, Fails
<1> QED BY <1>13, <1>14, <1>15, <1>16, <1>17 DEF Next

(* On any number of machines, whatever fails, crashes or is delivered      *)
(* twice: the ETL loops are one queue of work.  A block waits until its    *)
(* work has ended or a stop request interrupted it; it is announced only   *)
(* by other programs or by the work it comes from; it is done only when    *)
(* all its output is announced, and rejected only after all its attempts.  *)
THEOREM LoopsAreAWorkQueue == Spec => LoopIsWorkQueue
<1> DEFINE I == IInv /\ GripOK /\ PostedOK
<1>1. Init => I /\ Promise!Init
  <2> SUFFICES ASSUME Init PROVE I /\ Promise!Init
    OBVIOUS
  <2>1. IInv
    BY TypeInit, NothingFacts, BlocksAssumption
    DEF Init, IInv, ActOK, PendingOK, Safe, DoneOK, CountOK, RejectedAfterAllAttempts
  <2>2. GripOK
    BY DEF Init, GripOK, Grip, Held, Busy
  <2>3. PostedOK
    BY DEF Init, PostedOK, Known, Held, AtWork, Busy
  <2>4. Waiting = {}
    BY DEF Init, Waiting, Carried
  <2>5. Promise!Init
    BY <2>4 DEF Init, Promise!Init
  <2> QED BY <2>1, <2>2, <2>3, <2>5
<1>2. I /\ [Next]_vars => I' /\ [Promise!Next]_(Promise!workVars)
  <2> SUFFICES ASSUME I, [Next]_vars PROVE I' /\ [Promise!Next]_(Promise!workVars)
    OBVIOUS
  <2>1. IInv'
    BY TypeStep, ActStep, PendingStep, SafeStep, CountStep, DoneStep DEF IInv
  <2>2. GripOK' /\ PostedOK'
    BY GripStep, PostedStep DEF IInv
  <2> QED BY <2>1, <2>2, PromiseStep
<1> QED BY <1>1, <1>2, PTL DEF Spec, LoopIsWorkQueue, Promise!Spec
==============================================================================
