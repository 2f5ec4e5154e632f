------------------------------- MODULE EtlLoop -------------------------------
(***************************************************************************)
(* The ETL loop (activedata_etl/etl.py) and the SQS queue it is driven by  *)
(* (vendor/pyLibrary/aws/__init__.py, Queue).                              *)
(*                                                                         *)
(* Every machine runs one ETL process; a process has a few ETL threads,    *)
(* each with its own aws.Queue wrapper around the one SQS queue, and one   *)
(* stop signal that all its threads share.  A message names a block of     *)
(* data; the thread that reads it runs every worker declared for the       *)
(* block, announces the blocks they made on the queue, and only then       *)
(* deletes the message.                                                    *)
(*                                                                         *)
(* SQS itself is not in the repository.  It promises: a message that is    *)
(* read is hidden, and comes back unless it is deleted in time; deleting   *)
(* with a receipt that is not the latest may do nothing.                   *)
(***************************************************************************)
EXTENDS Naturals, Sequences, FiniteSets

CONSTANTS
  Machines,     (* the hosts, one ETL process each                         *)
  Threads,      (* all the ETL threads                                     *)
  On,           (* On[t] is the machine thread t runs on                   *)
  Ids,          (* names for the messages SQS holds; a name is used again  *)
                (* once its message is gone and nobody remembers it        *)
  Blocks,       (* what a message can name                                 *)
  Roots,        (* the blocks other programs announce                      *)
  Kind,         (* what the body of a block's message is                   *)
  Workers,      (* Workers[b]: where each worker declared for b writes     *)
  Sink,         (* what a worker makes that nobody is told about: it is not *)
                (* for an S3 bucket, or the transform returns no keys      *)
  NoOne,        (* no thread                                               *)
  MinAttempts,  (* settings.min_attempts                                   *)
  GiveUpAfter,  (* the literal 10 of the loop                              *)
  KeepUnknown,  (* settings.keep_unknown_on_queue                          *)
  WaitForever,  (* settings.wait_forever                                   *)
  MaxFaults     (* bound on failed calls, crashes, stops, early timeouts   *)

Kinds == {"work", "text", "empty", "garbage"}

ASSUME OnAssumption == On \in [Threads -> Machines]
ASSUME BlocksAssumption ==
  /\ Blocks # {}
  /\ Roots \subseteq Blocks
  /\ Kind \in [Blocks -> Kinds]
  /\ Workers \in [Blocks -> Seq(Blocks \cup {Sink})]
  /\ Sink \notin Blocks
  /\ NoOne \notin Threads
ASSUME LimitsAssumption ==
  /\ MinAttempts \in Nat
  /\ GiveUpAfter \in Nat
  /\ MaxFaults \in Nat
  /\ KeepUnknown \in BOOLEAN
  /\ WaitForever \in BOOLEAN

VARIABLES
  sqs,          (* the state of every message                              *)
  body,         (* the block it names and its previous_attempts            *)
  holder,       (* the thread with the latest receipt                      *)
  pending,      (* Queue.pending: read, neither committed nor rolled back  *)
  batch,        (* the local `pending` of commit() and rollback()          *)
  uncopied,     (* what rollback() has still to write                      *)
  onfail,       (* where the caller continues if commit/rollback raises    *)
  pc,           (* where each thread is                                    *)
  todo,         (* the message being processed                             *)
  act,          (* which of the block's workers is running                 *)
  soft,         (* some worker's problem was only warned about             *)
  please_stop,  (* the stop signal of each machine                         *)
  faults,       (* how much went wrong outside the loop                    *)
  posted,       (* history: blocks that were ever announced                *)
  stored,       (* blocks whose data a destination holds                   *)
  fate,         (* history: how the processing of a block ended            *)
  cut,          (* history: blocks whose transform saw the stop signal     *)
  fails         (* history: how often a root came to the retry handler     *)

queueVars == <<sqs, body, holder>>
wrapperVars == <<pending, batch, uncopied, onfail>>
loopVars == <<pc, todo, act, soft>>
ledger == <<stored, fate, cut, fails>>
vars == <<queueVars, wrapperVars, loopVars, please_stop, faults, posted, ledger>>

Fates == {"done", "swallowed", "rejected", "unknown", "malformed"}
Places == {"top", "read", "dispatch", "work", "announce", "retry", "copy",
           "delete", "close", "end", "down"}

(* The previous_attempts of a message that is not tried again.             *)
Limit == IF MinAttempts > GiveUpAfter THEN MinAttempts ELSE GiveUpAfter + 1
Body == [block : Blocks, attempts : 0 .. Limit]
Nothing == [block |-> CHOOSE b \in Blocks : TRUE, attempts |-> 0]

TypeOK ==
  /\ sqs \in [Ids -> {"absent", "visible", "inflight"}]
  /\ body \in [Ids -> Body]
  /\ holder \in [Ids -> Threads \cup {NoOne}]
  /\ pending \in [Threads -> SUBSET Ids]
  /\ batch \in [Threads -> SUBSET Ids]
  /\ uncopied \in [Threads -> SUBSET Ids]
  /\ onfail \in [Threads -> {"top", "retry", "close", "end"}]
  /\ pc \in [Threads -> Places]
  /\ todo \in [Threads -> Body]
  /\ act \in [Threads -> Nat]
  /\ soft \in [Threads -> BOOLEAN]
  /\ please_stop \in [Machines -> BOOLEAN]
  /\ faults \in 0 .. MaxFaults
  /\ posted \subseteq Blocks
  /\ stored \subseteq Blocks
  /\ fate \in [Blocks -> SUBSET Fates]
  /\ cut \subseteq Blocks
  /\ fails \in [Roots -> Nat]

-----------------------------------------------------------------------------
(* SQS.                                                                    *)

Held(t) == pending[t] \cup batch[t]
FreeIds == {i \in Ids : sqs[i] = "absent" /\ \A t \in Threads : i \notin Held(t)}

(* Queue.add: one more message.                                            *)
Write(b) ==
  /\ FreeIds # {}
  /\ LET i == CHOOSE i \in FreeIds : TRUE
     IN  /\ sqs' = [sqs EXCEPT ![i] = "visible"]
         /\ body' = [body EXCEPT ![i] = b]
         /\ holder' = [holder EXCEPT ![i] = NoOne]
  /\ posted' = posted \cup {b.block}

(* delete_message with the receipt thread t got.  A message that nobody    *)
(* else remembers leaves its name free, and blank.                         *)
DeleteMessage(t, i) ==
  \/ /\ sqs' = [sqs EXCEPT ![i] = "absent"]
     /\ holder' = [holder EXCEPT ![i] = NoOne]
     /\ body' = IF \E u \in Threads \ {t} : i \in Held(u)
                THEN body ELSE [body EXCEPT ![i] = Nothing]
  \/ holder[i] # t /\ UNCHANGED queueVars

Fault ==
  /\ faults < MaxFaults
  /\ faults' = faults + 1

(* Somebody else puts a root block on the queue.                           *)
Post(b) ==
  /\ b \notin posted
  /\ Write([block |-> b, attempts |-> 0])
  /\ UNCHANGED <<wrapperVars, loopVars, please_stop, faults, ledger>>

(* The visibility timeout: only a fault if a thread is still at work.      *)
Expire(i) ==
  /\ sqs[i] = "inflight"
  /\ IF \E t \in Threads : i \in Held(t) THEN Fault ELSE UNCHANGED faults
  /\ sqs' = [sqs EXCEPT ![i] = "visible"]
  /\ UNCHANGED <<body, holder, wrapperVars, loopVars, please_stop, posted, ledger>>

-----------------------------------------------------------------------------
(* aws.Queue.                                                              *)

(* commit(): forget the messages first, then delete them one at a time.    *)
Commit(t, f) ==
  /\ batch' = [batch EXCEPT ![t] = pending[t]]
  /\ pending' = [pending EXCEPT ![t] = {}]
  /\ onfail' = [onfail EXCEPT ![t] = f]
  /\ pc' = [pc EXCEPT ![t] = "delete"]
  /\ UNCHANGED uncopied

(* Mutant: rollback() that does not write the copies.                      *)
RollbackOnlyDeletes(t, f) == Commit(t, f)

(* rollback(): write a copy of each first, then delete them.               *)
Rollback(t, f) ==
  /\ batch' = [batch EXCEPT ![t] = pending[t]]
  /\ uncopied' = [uncopied EXCEPT ![t] = pending[t]]
  /\ pending' = [pending EXCEPT ![t] = {}]
  /\ onfail' = [onfail EXCEPT ![t] = f]
  /\ pc' = [pc EXCEPT ![t] = "copy"]

Goto(t, p) == pc' = [pc EXCEPT ![t] = p]

Copy(t) ==
  /\ pc[t] = "copy"
  /\ \/ \E i \in uncopied[t] :
          /\ Write(body[i])
          /\ uncopied' = [uncopied EXCEPT ![t] = @ \ {i}]
          /\ UNCHANGED pc
     \/ /\ uncopied[t] = {}
        /\ Goto(t, "delete")
        /\ UNCHANGED <<queueVars, posted, uncopied>>
  /\ UNCHANGED <<pending, batch, onfail, todo, act, soft, please_stop, faults, ledger>>

(* The last deletion returns to the caller; all callers but close() go on  *)
(* with the next message.                                                  *)
Delete(t) ==
  /\ pc[t] = "delete"
  /\ \/ \E i \in batch[t] :
          /\ DeleteMessage(t, i)
          /\ batch' = [batch EXCEPT ![t] = @ \ {i}]
          /\ UNCHANGED pc
     \/ /\ batch[t] = {}
        /\ Goto(t, IF onfail[t] = "end" THEN "end" ELSE "top")
        /\ UNCHANGED <<queueVars, batch>>
  /\ UNCHANGED <<pending, uncopied, onfail, todo, act, soft,
                 please_stop, faults, posted, ledger>>

CountFailure(t) == fails' = [b \in Roots |-> IF b = todo[t].block THEN fails[b] + 1 ELSE fails[b]]

(* A call to SQS raises: what is left of the batch is forgotten.           *)
CallFails(t) ==
  /\ \/ pc[t] = "copy" /\ uncopied[t] # {}
     \/ pc[t] = "delete" /\ batch[t] # {}
  /\ Fault
  /\ batch' = [batch EXCEPT ![t] = {}]
  /\ uncopied' = [uncopied EXCEPT ![t] = {}]
  /\ Goto(t, onfail[t])
  /\ IF onfail[t] = "retry" THEN CountFailure(t) ELSE UNCHANGED fails
  /\ UNCHANGED <<queueVars, pending, onfail, todo, act, soft, please_stop, posted,
                 stored, fate, cut>>

-----------------------------------------------------------------------------
(* ETL.loop.                                                               *)

(* Mutant: the loop does not look at please_stop.                          *)
TopIgnoresStop(t) ==
  /\ pc[t] = "top"
  /\ Goto(t, "read")
  /\ UNCHANGED <<queueVars, wrapperVars, todo, act, soft, please_stop, faults, posted, ledger>>

(* while not please_stop: todo = None, and no local of a dispatch is left. *)
Top(t) ==
  /\ pc[t] = "top"
  /\ Goto(t, IF please_stop[On[t]] THEN "close" ELSE "read")
  /\ todo' = [todo EXCEPT ![t] = Nothing]
  /\ act' = [act EXCEPT ![t] = 1]
  /\ soft' = [soft EXCEPT ![t] = FALSE]
  /\ UNCHANGED <<queueVars, wrapperVars, please_stop, faults, posted, ledger>>

(* pop() returns a message, or raises after it has remembered it.          *)
Read(t) ==
  /\ pc[t] = "read"
  /\ \E i \in Ids :
       /\ sqs[i] = "visible"
       /\ sqs' = [sqs EXCEPT ![i] = "inflight"]
       /\ holder' = [holder EXCEPT ![i] = t]
       /\ pending' = [pending EXCEPT ![t] = @ \cup {i}]
       /\ todo' = [todo EXCEPT ![t] = body[i]]
       /\ LET b == body[i].block  k == Kind[b]
              quit == k = "empty" /\ ~WaitForever
          IN  /\ Goto(t, CASE k \in {"work", "text"} -> "dispatch"
                           [] k = "empty"   -> IF quit THEN "close" ELSE "top"
                           [] k = "garbage" -> "close")
              /\ please_stop' = IF quit THEN [please_stop EXCEPT ![On[t]] = TRUE]
                                        ELSE please_stop
              /\ fate' = IF k = "work" THEN fate ELSE [fate EXCEPT ![b] = @ \cup {"malformed"}]
  /\ UNCHANGED <<body, batch, uncopied, onfail, act, soft, faults, posted, stored, cut, fails>>

(* pop() waits in vain.                                                    *)
ReadNothing(t) ==
  /\ pc[t] = "read"
  /\ \A i \in Ids : sqs[i] # "visible"
  /\ IF WaitForever
     THEN Goto(t, "top") /\ UNCHANGED please_stop
     ELSE Goto(t, "close") /\ please_stop' = [please_stop EXCEPT ![On[t]] = TRUE]
  /\ UNCHANGED <<queueVars, wrapperVars, todo, act, soft, faults, posted, ledger>>

ReadFails(t) ==
  /\ pc[t] = "read"
  /\ Fault
  /\ Goto(t, "close")
  /\ UNCHANGED <<queueVars, wrapperVars, todo, act, soft, please_stop, posted, ledger>>

(* The `with` block ends, normally or by an exception: close() commits.    *)
Close(t) ==
  /\ pc[t] = "close"
  /\ Commit(t, "end")
  /\ UNCHANGED <<queueVars, todo, act, soft, please_stop, faults, posted, ledger>>

-----------------------------------------------------------------------------
(* ETL._dispatch_work.                                                     *)

End(t, f) == fate' = [fate EXCEPT ![todo[t].block] = @ \cup {f}]

(* Text is deleted; so is a block without workers, if it is not kept.      *)
Dispatch(t) ==
  /\ pc[t] = "dispatch"
  /\ LET b == todo[t].block
     IN  \/ Kind[b] = "text" /\ Commit(t, "close") /\ UNCHANGED <<act, soft, fate>>
         \/ /\ Kind[b] = "work"
            /\ Workers[b] = << >>
            /\ IF KeepUnknown
               THEN Rollback(t, "retry") /\ UNCHANGED fate
               ELSE Commit(t, "retry") /\ End(t, "unknown")
            /\ UNCHANGED <<act, soft>>
         \/ /\ Kind[b] = "work"
            /\ Workers[b] # << >>
            /\ act' = [act EXCEPT ![t] = 1]
            /\ soft' = [soft EXCEPT ![t] = FALSE]
            /\ Goto(t, "work")
            /\ UNCHANGED <<wrapperVars, fate>>
  /\ UNCHANGED <<queueVars, todo, please_stop, faults, posted, stored, cut, fails>>

Target(t) == Workers[todo[t].block][act[t]]

(* The next worker; after the last one, commit.  s: warned in this step.   *)
NextWorker(t, s) ==
  /\ soft' = [soft EXCEPT ![t] = @ \/ s]
  /\ IF act[t] < Len(Workers[todo[t].block])
     THEN /\ act' = [act EXCEPT ![t] = @ + 1]
          /\ Goto(t, "work")
          /\ UNCHANGED <<wrapperVars, fate>>
     ELSE /\ Commit(t, "retry")
          /\ End(t, IF soft'[t] THEN "swallowed" ELSE "done")
          /\ UNCHANGED act

(* The transform may have written to its destination before it ends badly. *)
MayStore(t) ==
  \/ UNCHANGED stored
  \/ Target(t) # Sink /\ stored' = stored \cup {Target(t)}

(* Mutant: the keys are not announced.                                     *)
TransformForgetsKeys(t) ==
  /\ pc[t] = "work"
  /\ MayStore(t)
  /\ NextWorker(t, FALSE)
  /\ UNCHANGED <<queueVars, todo, please_stop, faults, posted, cut, fails>>

(* The transform returns the keys it has written, to be announced next; a  *)
(* worker with nothing to announce is done.                                *)
Transform(t) ==
  /\ pc[t] = "work"
  /\ IF Target(t) = Sink
     THEN NextWorker(t, FALSE) /\ UNCHANGED stored
     ELSE /\ stored' = stored \cup {Target(t)}
          /\ Goto(t, "announce")
          /\ UNCHANGED <<act, soft, wrapperVars, fate>>
  /\ UNCHANGED <<queueVars, todo, please_stop, faults, posted, cut, fails>>

(* The transform returns no key at all, or raises one of the problems that *)
(* are only warned about: nothing is announced, nothing is tried again.    *)
TransformWarns(t) ==
  /\ pc[t] = "work"
  /\ MayStore(t)
  /\ NextWorker(t, TRUE)
  /\ UNCHANGED <<queueVars, todo, please_stop, faults, posted, cut, fails>>

ToRetry(t) ==
  /\ Goto(t, "retry")
  /\ CountFailure(t)

(* Mutant: the exception leaves the loop.                                  *)
TransformFailureEscapes(t) ==
  /\ pc[t] = "work"
  /\ MayStore(t)
  /\ Goto(t, "close")
  /\ UNCHANGED <<queueVars, wrapperVars, todo, act, soft, please_stop, faults, posted, fate, cut, fails>>

(* The transform raises anything else.                                     *)
TransformFails(t) ==
  /\ pc[t] = "work"
  /\ MayStore(t)
  /\ ToRetry(t)
  /\ UNCHANGED <<queueVars, wrapperVars, todo, act, soft, please_stop, faults, posted, fate, cut>>

(* The transform sees the stop signal and raises "Shutdown detected.": the *)
(* loop continues with its message still pending.                          *)
TransformStops(t) ==
  /\ pc[t] = "work"
  /\ please_stop[On[t]]
  /\ MayStore(t)
  /\ cut' = cut \cup {todo[t].block}
  /\ Goto(t, "top")
  /\ UNCHANGED <<queueVars, wrapperVars, todo, act, soft, please_stop, faults, posted, fate, fails>>

(* work_queue.add, or the add of a notify queue.                           *)
Announce(t) ==
  /\ pc[t] = "announce"
  /\ Write([block |-> Target(t), attempts |-> 0])
  /\ NextWorker(t, FALSE)
  /\ UNCHANGED <<todo, please_stop, faults, stored, cut, fails>>

AnnounceFails(t) ==
  /\ pc[t] = "announce"
  /\ Fault
  /\ ToRetry(t)
  /\ UNCHANGED <<queueVars, wrapperVars, todo, act, soft, please_stop, posted, stored, fate, cut>>

(* Mutants: one attempt too many, or too few; the attempt is not counted;  *)
(* the message is committed although it could not be put back.             *)
TryOnceMore(n) == n < MinAttempts \/ n <= GiveUpAfter + 1
TryOnceLess(n) == n < MinAttempts \/ n < GiveUpAfter

RetryDoesNotCount(t) ==
  /\ pc[t] = "retry"
  /\ Write(todo[t])
  /\ Commit(t, "top")
  /\ UNCHANGED <<todo, act, soft, please_stop, faults, stored, fate, cut, fails>>

RetryFailsCommits(t) ==
  /\ pc[t] = "retry"
  /\ Fault
  /\ Commit(t, "close")
  /\ UNCHANGED <<queueVars, todo, act, soft, please_stop, posted, ledger>>

(* The handler of the loop: count the attempt and put the work back, or    *)
(* reject it.                                                              *)
TryAgain(n) == n < MinAttempts \/ n <= GiveUpAfter

Retry(t) ==
  /\ pc[t] = "retry"
  /\ LET more == [todo[t] EXCEPT !.attempts = @ + 1]
     IN  IF TryAgain(todo[t].attempts)
         THEN Write(more) /\ Commit(t, "top") /\ UNCHANGED fate
         ELSE Commit(t, "close") /\ End(t, "rejected") /\ UNCHANGED <<queueVars, posted>>
  /\ UNCHANGED <<todo, act, soft, please_stop, faults, stored, cut, fails>>

RetryFails(t) ==
  /\ pc[t] = "retry"
  /\ TryAgain(todo[t].attempts)
  /\ Fault
  /\ Rollback(t, "close")
  /\ UNCHANGED <<queueVars, todo, act, soft, please_stop, posted, ledger>>

-----------------------------------------------------------------------------
(* The machines: a stop request, a crash, a new process.                   *)

Team(m) == {t \in Threads : On[t] = m}

(* Spot termination, SIGTERM or "exit" on the console.                     *)
Stop(m) ==
  /\ ~please_stop[m]
  /\ Fault
  /\ please_stop' = [please_stop EXCEPT ![m] = TRUE]
  /\ UNCHANGED <<queueVars, wrapperVars, loopVars, posted, ledger>>

Forget(m) ==
  /\ pending' = [t \in Threads |-> IF On[t] = m THEN {} ELSE pending[t]]
  /\ batch' = [t \in Threads |-> IF On[t] = m THEN {} ELSE batch[t]]
  /\ uncopied' = [t \in Threads |-> IF On[t] = m THEN {} ELSE uncopied[t]]
  /\ UNCHANGED <<queueVars, onfail, todo, act, soft, posted, ledger>>

Crash(m) ==
  /\ \E t \in Team(m) : pc[t] \notin {"end", "down"}
  /\ Fault
  /\ pc' = [t \in Threads |-> IF On[t] = m THEN "down" ELSE pc[t]]
  /\ Forget(m)
  /\ UNCHANGED please_stop

(* After a crash, or when a stopped process has ended.                     *)
Restart(m) ==
  /\ \/ \A t \in Team(m) : pc[t] = "down"
     \/ please_stop[m] /\ \A t \in Team(m) : pc[t] = "end"
  /\ pc' = [t \in Threads |-> IF On[t] = m THEN "top" ELSE pc[t]]
  /\ please_stop' = [please_stop EXCEPT ![m] = FALSE]
  /\ Forget(m)
  /\ UNCHANGED faults

-----------------------------------------------------------------------------
Init ==
  /\ sqs = [i \in Ids |-> "absent"]
  /\ body = [i \in Ids |-> Nothing]
  /\ holder = [i \in Ids |-> NoOne]
  /\ pending = [t \in Threads |-> {}]
  /\ batch = [t \in Threads |-> {}]
  /\ uncopied = [t \in Threads |-> {}]
  /\ onfail = [t \in Threads |-> "top"]
  /\ pc = [t \in Threads |-> "top"]
  /\ todo = [t \in Threads |-> Nothing]
  /\ act = [t \in Threads |-> 1]
  /\ soft = [t \in Threads |-> FALSE]
  /\ please_stop = [m \in Machines |-> FALSE]
  /\ faults = 0
  /\ posted = {}
  /\ stored = {}
  /\ fate = [b \in Blocks |-> {}]
  /\ cut = {}
  /\ fails = [b \in Roots |-> 0]

(* One step of a thread in which no call to SQS fails.                     *)
Step(t) ==
  \/ Top(t) \/ Read(t) \/ ReadNothing(t) \/ Close(t)
  \/ Dispatch(t) \/ Transform(t) \/ TransformWarns(t) \/ TransformFails(t)
  \/ TransformStops(t) \/ Announce(t) \/ Retry(t)
  \/ Copy(t) \/ Delete(t)

Fails(t) == CallFails(t) \/ ReadFails(t) \/ AnnounceFails(t) \/ RetryFails(t)

Next ==
  \/ \E t \in Threads : Step(t) \/ Fails(t)
  \/ \E m \in Machines : Stop(m) \/ Crash(m) \/ Restart(m)
  \/ \E b \in Roots : Post(b)
  \/ \E i \in Ids : Expire(i)

Spec == Init /\ [][Next]_vars

(* A running thread goes on; SQS gives back what nobody works on; the      *)
(* supervisor starts a process that is gone.                               *)
Unheld(i) == \A t \in Threads : i \notin Held(t)
Fairness ==
  /\ \A t \in Threads : WF_vars(Step(t))
  /\ \A i \in Ids : WF_vars(Unheld(i) /\ Expire(i))
  /\ \A m \in Machines : WF_vars(Restart(m))

FairSpec == Spec /\ Fairness

-----------------------------------------------------------------------------
(* Properties.                                                             *)

(* The messages that some thread is committed to delete.                   *)
Dying(t) == IF pc[t] = "delete" THEN batch[t]
            ELSE IF pc[t] = "copy" THEN batch[t] \ uncopied[t] ELSE {}
Doomed == UNION {Dying(t) : t \in Threads}

Carried(b) == \E i \in Ids : sqs[i] # "absent" /\ body[i].block = b
Ended(b) == fate[b] # {}

(* Whatever fails, crashes or is delivered twice: a block that was ever    *)
(* announced has been processed to an end, is still named by a message on  *)
(* the queue, or was interrupted by a stop request (commit and rollback    *)
(* never delete the last message of unfinished work).                      *)
NoBlockLost == \A b \in posted : Ended(b) \/ b \in cut \/ Carried(b)

(* What docs/CodeCoverage Testing.md:37 says of the loop, without the      *)
(* exception for stop requests: work that raised is back on the queue.     *)
WorkIsReturned == \A b \in posted : Ended(b) \/ Carried(b)

(* A block that a destination holds has been announced, or the block it is *)
(* made from is still carried, or that work was given up with a warning.   *)
(* (A crash between the transform and the announcement is repaired.)       *)
OutputAnnounced ==
  \A b \in {x \in posted : Kind[x] = "work"} :
    \A k \in 1 .. Len(Workers[b]) :
      Workers[b][k] \in stored =>
        \/ Workers[b][k] \in posted
        \/ Carried(b)
        \/ fate[b] \cap {"swallowed", "rejected"} # {}
        \/ b \in cut

(* ***REJECTED*** is only reached after as many failed attempts as the     *)
(* settings promise: no redelivery, copy or failed commit counts twice.    *)
RejectedAfterAllAttempts ==
  \A b \in Roots : "rejected" \in fate[b] => fails[b] > Limit

(* Failing work cannot circulate for ever: only a fault can give a block   *)
(* another round of attempts, at most one for each thread of a machine (a  *)
(* crash gives back what all of them have read).                           *)
AttemptsAreBounded ==
  \A b \in Roots, n \in 1 .. Cardinality(Threads) :
    (\A m \in Machines : Cardinality(Team(m)) <= n)
      => fails[b] <= (Limit + 1) * (1 + n * faults)

(* What the loops are to the programs that announce blocks: a block waits  *)
(* while a message names it, however many copies there are.                *)
Waiting == {b \in Blocks : Carried(b)}
Outputs == [b \in Blocks |-> {Workers[b][k] : k \in DOMAIN Workers[b]} \ {Sink}]
WorkBlocks == {b \in Blocks : Kind[b] = "work"}

Promise == INSTANCE WorkQueue WITH
  Makes <- Outputs, Works <- WorkBlocks, Patience <- Limit,
  announced <- posted, waiting <- Waiting, ends <- fate, failed <- fails, interrupted <- cut

(* The loops of all machines together are one queue of work: whatever is   *)
(* copied, delivered twice, crashes or fails half way, a block is lost     *)
(* from the queue only behind an end of its work or a stop request, ends   *)
(* as done only behind its output, and as rejected behind all attempts.    *)
LoopIsWorkQueue == Promise!Spec

AllDead == \A t \in Threads : pc[t] = "end" /\ ~please_stop[On[t]]

(* Every announced block gets its end, unless every thread has died.       *)
EveryBlockEnds ==
  \A b \in Blocks : b \in posted ~> Ended(b) \/ b \in cut \/ AllDead

(* A stop request ends every thread of the machine.                        *)
StopEndsThreads ==
  \A t \in Threads : please_stop[On[t]] ~> pc[t] \in {"end", "down"}

-----------------------------------------------------------------------------
(* The inductive invariant behind the safety properties.                   *)

Settled(b) == Ended(b) \/ b \in cut
Busy == {"dispatch", "work", "announce", "retry"}

(* Unfinished work is named by a message nobody is committed to delete.    *)
Safe == \A b \in posted :
  Settled(b) \/ \E i \in Ids : sqs[i] # "absent" /\ body[i].block = b /\ i \notin Doomed

(* What a thread may commit: blocks that are settled, and its own todo.    *)
PendingOK == \A t \in Threads :
  /\ pc[t] \in {"copy", "delete"} => pending[t] = {}
  /\ \A i \in pending[t] :
       \/ Settled(body[i].block)
       \/ /\ pc[t] \in Busy
          /\ body[i].block = todo[t].block
          /\ Kind[todo[t].block] = "work"

(* A dispatch is at one of the block's workers.                            *)
ActOK == \A t \in Threads :
  /\ pc[t] \in {"work", "announce"} => act[t] \in 1 .. Len(Workers[todo[t].block])
  /\ pc[t] = "announce" => Target(t) # Sink

(* previous_attempts never runs ahead of the failures there really were.   *)
CountOK ==
  /\ \A i \in Ids : body[i].block \in Roots => body[i].attempts <= fails[body[i].block]
  /\ \A t \in Threads : todo[t].block \in Roots =>
       /\ todo[t].attempts <= fails[todo[t].block]
       /\ pc[t] = "retry" => todo[t].attempts < fails[todo[t].block]
  /\ RejectedAfterAllAttempts

(* A dispatch without a warning has announced what it has passed.          *)
Announced(b, n) == \A k \in 1 .. n : Workers[b][k] \in posted \cup {Sink}
DoneOK ==
  /\ \A b \in Blocks :
       /\ "done" \in fate[b] => Announced(b, Len(Workers[b]))
       /\ "unknown" \in fate[b] => Workers[b] = << >>
       /\ "malformed" \in fate[b] => Kind[b] # "work"
  /\ \A t \in Threads :
       pc[t] \in {"work", "announce"} /\ ~soft[t] => Announced(todo[t].block, act[t] - 1)

IInv == TypeOK /\ Safe /\ PendingOK /\ ActOK /\ CountOK /\ DoneOK
=============================================================================
