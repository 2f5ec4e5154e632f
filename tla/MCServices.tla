----------------------------- MODULE MCServices -----------------------------
(***************************************************************************)
(* The loader of buildbot days, the queue between threads, the S3 sink,    *)
(* the copying of a queue and the logger of Firefox tests.  They share     *)
(* nothing, so a behaviour is that of one of them: `which` names it, and   *)
(* the variables of the others keep their first values.                    *)
(***************************************************************************)
EXTENDS BuildbotDay, Sequences

CONSTANTS
  Services,                                        (* those that are checked *)
  Producers, Consumers, Load, Limit, Silent, HasTill, Stop,
  Writers, DocIds, MaxExtends,
  Mail, MaxCopiers, MaxCopies,
  LogFiles, MaxVersion, MaxKills, Nobody

VARIABLES
  which,
  queue, closed, waiting, signalled, st, sent, answer, popped,
  object, extending, extends, promised, overlapped, unread,
  mail, hidden, held, copied, copier, copiers,
  version, rows, logger, scanned, dirty, data, file, next_key, copies, told, killed

Queue == INSTANCE MoQueue
Sink == INSTANCE S3Sink
Copier == INSTANCE CopyQueue
Logger == INSTANCE FxTestLogger

queueVars == <<queue, closed, waiting, signalled, st, sent, answer, popped>>
sinkVars == <<object, extending, extends, promised, overlapped, unread>>
copyVars == <<mail, hidden, held, copied, copier, copiers>>
loggerVars ==
  <<version, rows, logger, scanned, dirty, data, file, next_key, copies, told, killed>>
allVars == <<which, vars, queueVars, sinkVars, copyVars, loggerVars>>

ASSUME ServicesAssumption ==
  /\ Queue!QueueAssumption
  /\ MaxExtends \in Nat
  /\ IsFiniteSet(LogFiles)

ServicesInit ==
  /\ which \in Services
  /\ Init /\ Queue!Init /\ Sink!Init /\ Copier!CopyInit /\ Logger!Init

ServicesNext ==
  \/ which = "day" /\ Next /\ UNCHANGED <<which, queueVars, sinkVars, copyVars, loggerVars>>
  \/ which = "queue" /\ Queue!Next /\ UNCHANGED <<which, vars, sinkVars, copyVars, loggerVars>>
  \/ which = "sink" /\ Sink!Next /\ UNCHANGED <<which, vars, queueVars, copyVars, loggerVars>>
  \/ which = "copier" /\ Copier!Next /\ UNCHANGED <<which, vars, queueVars, sinkVars, loggerVars>>
  \/ which = "logger" /\ Logger!Next /\ UNCHANGED <<which, vars, queueVars, sinkVars, copyVars>>

(* The fairness of BuildbotDay and of MoQueue, each for its own steps.     *)
ServicesFairness ==
  /\ WF_vars(which = "day" /\ Main)
  /\ \A b \in Uploads : WF_vars(which = "day" /\ Upload(b))
  /\ WF_vars(which = "day" /\ pc = "end" /\ NextProcess)
  /\ \A p \in Producers :
       WF_queueVars(which = "queue" /\ Queue!AddAgain(p))
  /\ \A c \in Consumers :
       /\ WF_queueVars(which = "queue" /\ Queue!Pop(c))
       /\ WF_queueVars(which = "queue" /\ Queue!PopAgain(c))
       /\ WF_queueVars(which = "queue" /\ Queue!PopClosed(c))

ServicesSpec == ServicesInit /\ [][ServicesNext]_allVars /\ ServicesFairness
-----------------------------------------------------------------------------
(* Properties.                                                             *)

(* The types of every service's variables.                                 *)
ServicesTypeOK ==
  TypeOK /\ Queue!TypeOK /\ Sink!SinkTypeOK /\ Logger!LoggerTypeOK

(* mo_threads.Queue: nobody sleeps in pop() beside an item that no         *)
(* consumer was woken for, and the last consumer to be told to stop leaves *)
(* no item behind (queues.py 78-83, 180-201, lock.py 73-114).              *)
NobodySleeps == Queue!NobodySleeps

(* mo_threads.Queue is a bounded FIFO channel that can be shut: the        *)
(* refinement of Channel (queues.py 49-201).                               *)
QueueIsChannel == Queue!QueueIsChannel

(* mo_threads.Queue: pop() returns None beside an item only if that was    *)
(* promised to another consumer (queues.py 184).                           *)
NoneMeansEmpty == Queue!NoneMeansEmpty

(* mo_threads.Queue: without any timeout, what is in the queue is popped.  *)
EveryItemPopped == Queue!EveryItemPopped

(* parse_day: a day gets its block 0, but for threads that were added      *)
(* after their end (buildbot_json_logs.py 142-157).                        *)
DayGetsMarked == which = "day" => DayIsMarked

(* S3Bucket: documents that one call put in an object stay there, unless   *)
(* two calls overlap or a read fails (s3_bucket.py 92-118).                *)
ExtendKeeps == Sink!ExtendKeeps

(* copy_queue: a message leaves the source after it was copied, whatever   *)
(* failed on the way (copy_queue.py 26-31).                                *)
CopiedBeforeDeleted == Copier!CopiedBeforeDeleted

(* fx_test_logger: a key that the database has holds the file it has it    *)
(* for, and without failures in its newest version (fx_test_logger.py      *)
(* 48-105).                                                                *)
CopiesAreRight == Logger!KeyHoldsItsFile /\ Logger!CopyIsFresh
==============================================================================
