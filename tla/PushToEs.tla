------------------------------ MODULE PushToEs ------------------------------
(***************************************************************************)
(* push_to_es: one splitter thread (activedata_etl/push_to_es.py) reads    *)
(* messages from SQS, copies the rows of the S3 files a message names into *)
(* the ThreadedQueue of an index (RolloverIndex.copy), and puts the        *)
(* deletion of the message behind them.  One worker thread per index       *)
(* (ThreadedQueue.worker_bee) sends the rows to Elasticsearch in batches,  *)
(* and runs the deletions after a batch went well.                         *)
(*                                                                         *)
(* SQS and Elasticsearch are not in the repository.  A document has either *)
(* the row's own _id, or a random one.                                     *)
(***************************************************************************)
EXTENDS Naturals, Sequences, FiniteSets

CONSTANTS
  Messages,     (* the messages on the queue                               *)
  Rows,         (* the lines of all the files                              *)
  Indexes,      (* the indexes, one ThreadedQueue each                     *)
  Files,        (* Files[m]: the files with the prefix m names, as rows    *)
  Unknown,      (* messages that are deleted unread: no worker has their   *)
                (* bucket, `skip` hits them, or there is no file           *)
  Garbage,      (* messages that are not a Mapping                         *)
  Date,         (* the index of a row's timestamp, or a word of NoIndex    *)
  Verdict,      (* what Elasticsearch can make of a row                    *)
  MaxPending,   (* the literal 1000 of RolloverIndex.copy                  *)
  MaxQueue,     (* queue_size                                              *)
  BatchSize,    (* batch_size                                              *)
  Reported,     (* the literal 3 of Index.extend                           *)
  MaxFaults     (* bound on failed calls, crashes, stops, early timeouts   *)

(* No timestamp; a timestamp before rollover_max; not even a JSON line.    *)
NoIndex == {"none", "old", "garbled"}

(* ES takes it; ES refuses it for one of the HOPELESS reasons; it does not *)
(* encode.                                                                 *)
Verdicts == {"ok", "hopeless", "broken"}

ASSUME DataAssumption ==
  /\ Files \in [Messages -> Seq(Seq(Rows))]
  /\ Date \in [Rows -> Indexes \cup NoIndex]
  /\ Verdict \in [Rows -> Verdicts]
  /\ Indexes \cap NoIndex = {}
  /\ Rows \cap Messages = {} /\ Messages # {}
  /\ Unknown \subseteq Messages
  /\ Garbage \subseteq Messages
ASSUME LimitAssumption ==
  /\ MaxPending \in Nat
  /\ MaxQueue \in Nat \ {0}
  /\ BatchSize \in Nat \ {0}
  /\ Reported \in Nat \ {0}
  /\ MaxFaults \in Nat

VARIABLES
  sqs,          (* the state of every message                              *)
  again,        (* messages that were delivered more than once             *)
  pc,           (* where the splitter is                                   *)
  cur,          (* the message, and the place in its files                 *)
  queue,        (* the local `queue` of copy(): "none" is None             *)
  pend,         (* the local `pending`: rows that wait for a queue         *)
  done_copy,    (* whether the local done_copy is (still) set              *)
  chan,         (* what is in each ThreadedQueue: rows and deletions       *)
  buffer,       (* _buffer of each worker                                  *)
  stripped,     (* how many rows of it, from the left, lost their _id      *)
  acks,         (* _post_push_functions of each worker: whose deletions    *)
  at,           (* where each worker is                                    *)
  please_stop,  (* the process was told to stop                            *)
  faults,       (* how much went wrong outside the program                 *)
  own,          (* documents with the row's own _id, and their index       *)
  copies,       (* how many documents with a random _id a row has          *)
  ignored,      (* history: rows that copy() leaves out on purpose         *)
  dropped       (* history: rows a worker gave up                          *)

queueVars == <<sqs, again>>
copyVars == <<pc, cur, queue, pend, done_copy>>
workerVars == <<buffer, stripped, acks, at>>
esVars == <<own, copies, dropped>>
vars == <<queueVars, copyVars, chan, workerVars, please_stop, faults, esVars, ignored>>

Elements(s) == {s[i] : i \in DOMAIN s}
RowsOf(m) == UNION {Elements(Files[m][k]) : k \in DOMAIN Files[m]}

TypeOK ==
  /\ sqs \in [Messages -> {"visible", "inflight", "deleted"}]
  /\ again \subseteq Messages
  /\ pc \in {"pop", "discard", "copy", "end"}
  /\ cur \in [msg : Messages, key : Nat \ {0}, row : Nat \ {0}]
  /\ queue \in Indexes \cup {"none", "old"}
  /\ pend \in Seq(Rows)
  /\ done_copy \in BOOLEAN
  /\ chan \in [Indexes -> Seq(Rows \cup Messages)]
  /\ buffer \in [Indexes -> Seq(Rows)]
  /\ stripped \in [Indexes -> Nat]
  /\ acks \in [Indexes -> SUBSET Messages]
  /\ at \in [Indexes -> {"pop", "push", "last", "again", "final", "ack", "lastack", "end"}]
  /\ please_stop \in BOOLEAN
  /\ faults \in 0 .. MaxFaults
  /\ own \subseteq Rows \X Indexes
  /\ copies \in [Rows -> Nat]
  /\ ignored \subseteq Rows
  /\ dropped \subseteq Rows

Fault ==
  /\ faults < MaxFaults
  /\ faults' = faults + 1

-----------------------------------------------------------------------------
(* SQS.                                                                    *)

(* message.delete(): an older receipt may do nothing.                      *)
DeleteMessage(m) ==
  \/ sqs' = [sqs EXCEPT ![m] = "deleted"]
  \/ m \in again /\ UNCHANGED sqs

(* A message that something still works on.                                *)
InWork(m) ==
  \/ pc \in {"discard", "copy"} /\ cur.msg = m
  \/ \E x \in Indexes :
       \/ m \in Elements(chan[x])
       \/ m \in acks[x] /\ (at[x] # "pop" \/ buffer[x] # << >> \/ chan[x] # << >>)

(* The visibility timeout: only a fault if it comes too early.             *)
Expire(m) ==
  /\ sqs[m] = "inflight"
  /\ IF InWork(m) THEN Fault ELSE UNCHANGED faults
  /\ sqs' = [sqs EXCEPT ![m] = "visible"]
  /\ again' = again \cup {m}
  /\ UNCHANGED <<copyVars, chan, workerVars, please_stop, esVars, ignored>>

-----------------------------------------------------------------------------
(* The splitter.                                                           *)

Start(m) ==
  /\ cur' = [msg |-> m, key |-> 1, row |-> 1]
  /\ queue' = "none"
  /\ pend' = << >>
  /\ done_copy' = TRUE

(* pop_message(), and only then the look at please_stop.                   *)
Pop(m) ==
  /\ pc = "pop"
  /\ sqs[m] = "visible"
  /\ sqs' = [sqs EXCEPT ![m] = "inflight"]
  /\ Start(m)
  /\ pc' = IF please_stop THEN "end"
           ELSE IF m \in Garbage THEN "pop"
           ELSE IF m \in Unknown THEN "discard" ELSE "copy"
  /\ UNCHANGED <<again, chan, workerVars, please_stop, faults, esVars, ignored>>

PopNothing ==
  /\ pc = "pop"
  /\ please_stop
  /\ \A m \in Messages : sqs[m] # "visible"
  /\ pc' = "end"
  /\ UNCHANGED <<queueVars, cur, queue, pend, done_copy, chan, workerVars,
                 please_stop, faults, esVars, ignored>>

(* message.delete(); if it raises, safe_splitter goes on.                  *)
Discard ==
  /\ pc = "discard"
  /\ pc' = "pop"
  /\ \/ DeleteMessage(cur.msg) /\ UNCHANGED faults
     \/ Fault /\ UNCHANGED sqs
  /\ ignored' = ignored \cup RowsOf(cur.msg)
  /\ UNCHANGED <<again, cur, queue, pend, done_copy, chan, workerVars, please_stop, esVars>>

-----------------------------------------------------------------------------
(* RolloverIndex.copy().                                                   *)

Keys == Files[cur.msg]
File == Keys[cur.key]
Rest == {File[i] : i \in cur.row .. Len(File)}
AtRow == pc = "copy" /\ cur.key <= Len(Keys) /\ cur.row <= Len(File)
AtEnd == pc = "copy" /\ cur.key > Len(Keys)

NextRow == cur' = [cur EXCEPT !.row = @ + 1]
(* Mutant: rows counted from 0.                                            *)
NextKeyFromZero == cur' = [cur EXCEPT !.key = @ + 1, !.row = 0]

NextKey == cur' = [cur EXCEPT !.key = @ + 1, !.row = 1]
GiveUpKey == NextKey /\ done_copy' = FALSE

HasRoom(x) == Len(chan[x]) < MaxQueue
Enqueue(x, items) == chan' = [chan EXCEPT ![x] = @ \o items]

(* A line that is not JSON ends its file, and the copy is still complete.  *)
CopyGarbled ==
  /\ AtRow
  /\ Date[File[cur.row]] = "garbled"
  /\ ignored' = ignored \cup Rest
  /\ NextKey
  /\ UNCHANGED <<queueVars, pc, queue, pend, done_copy, chan, workerVars,
                 please_stop, faults, esVars>>

(* A row without a timestamp waits for the first row that has one.  After  *)
(* MaxPending of them the message is deleted, and an error ends the file.  *)
CopyUndated ==
  /\ AtRow
  /\ queue = "none"
  /\ Date[File[cur.row]] = "none"
  /\ pend' = Append(pend, File[cur.row])
  /\ IF Len(pend) < MaxPending
     THEN NextRow /\ UNCHANGED <<sqs, done_copy, faults, ignored>>
     ELSE /\ GiveUpKey
          /\ IF done_copy
             THEN /\ ignored' = ignored \cup RowsOf(cur.msg)
                  /\ \/ DeleteMessage(cur.msg) /\ UNCHANGED faults
                     \/ Fault /\ UNCHANGED sqs
             ELSE UNCHANGED <<sqs, faults, ignored>>
  /\ UNCHANGED <<again, pc, queue, chan, workerVars, please_stop, esVars>>

(* DATA_TOO_OLD ends the file.                                             *)
CopyTooOld ==
  /\ AtRow
  /\ queue = "none"
  /\ Date[File[cur.row]] = "old"
  /\ queue' = "old"
  /\ ignored' = ignored \cup Rest
  /\ NextKey
  /\ UNCHANGED <<queueVars, pc, pend, done_copy, chan, workerVars, please_stop, faults, esVars>>

(* DATA_TOO_OLD is a string, and is asked to add() the rows of later files.*)
CopyAfterTooOld ==
  /\ AtRow
  /\ queue = "old"
  /\ Date[File[cur.row]] # "garbled"
  /\ GiveUpKey
  /\ UNCHANGED <<queueVars, pc, queue, pend, chan, workerVars, please_stop, faults,
                 esVars, ignored>>

(* The first row with a timestamp decides the index for all.               *)
FindQueue ==
  /\ AtRow
  /\ queue = "none"
  /\ LET x == Date[File[cur.row]]
     IN  /\ x \in Indexes
         /\ pend # << >> => HasRoom(x)
         /\ queue' = x
         /\ Enqueue(x, pend)
  /\ pend' = << >>
  /\ UNCHANGED <<queueVars, pc, cur, done_copy, workerVars, please_stop, faults,
                 esVars, ignored>>

CopyRow ==
  /\ AtRow
  /\ queue \in Indexes
  /\ Date[File[cur.row]] # "garbled"
  /\ HasRoom(queue)
  /\ Enqueue(queue, <<File[cur.row]>>)
  /\ NextRow
  /\ UNCHANGED <<queueVars, pc, queue, pend, done_copy, workerVars, please_stop, faults,
                 esVars, ignored>>

(* S3, the making of the index, or the wait for room raises: the message   *)
(* will not be deleted.  If it was the pending rows that found no room,    *)
(* the queue is known and they stay behind.                                *)
CopyFails ==
  /\ AtRow
  /\ Fault
  /\ GiveUpKey
  /\ queue' \in {queue} \cup
       (IF queue = "none" /\ pend # << >> THEN {Date[File[cur.row]]} \cap Indexes ELSE {})
  /\ UNCHANGED <<queueVars, pc, pend, chan, workerVars, please_stop, esVars, ignored>>

EndOfFile ==
  /\ pc = "copy"
  /\ cur.key <= Len(Keys)
  /\ cur.row > Len(File)
  /\ NextKey
  /\ UNCHANGED <<queueVars, pc, queue, pend, done_copy, chan, workerVars, please_stop,
                 faults, esVars, ignored>>

(* Mutant: done_copy is called when the rows are in the queue.             *)
FinishDeletesAtOnce ==
  /\ AtEnd
  /\ pc' = "pop"
  /\ IF done_copy THEN DeleteMessage(cur.msg) ELSE UNCHANGED sqs
  /\ UNCHANGED <<again, cur, queue, pend, done_copy, chan, workerVars, please_stop, faults,
                 esVars, ignored>>

(* done_copy goes behind the rows, or is called if there are none.         *)
Finish ==
  /\ AtEnd
  /\ pc' = "pop"
  /\ \/ /\ done_copy
        /\ queue \in Indexes
        /\ HasRoom(queue)
        /\ Enqueue(queue, <<cur.msg>>)
        /\ UNCHANGED <<sqs, ignored>>
     \/ /\ done_copy
        /\ queue \notin Indexes
        /\ DeleteMessage(cur.msg)
        /\ ignored' = ignored \cup Elements(pend)
        /\ UNCHANGED chan
     \/ ~done_copy /\ UNCHANGED <<sqs, chan, ignored>>
  /\ UNCHANGED <<again, cur, queue, pend, done_copy, workerVars, please_stop, faults, esVars>>

FinishFails ==
  /\ AtEnd
  /\ done_copy
  /\ Fault
  /\ pc' = "pop"
  /\ UNCHANGED <<queueVars, cur, queue, pend, done_copy, chan, workerVars, please_stop,
                 esVars, ignored>>

-----------------------------------------------------------------------------
(* ThreadedQueue.worker_bee.                                               *)

Goto(x, p) == at' = [at EXCEPT ![x] = p]

(* One item, then the decision to push: a full batch, or the time is up.   *)
Take(x) ==
  /\ at[x] = "pop"
  /\ chan[x] # << >>
  /\ LET item == Head(chan[x])
     IN  IF item \in Messages
         THEN acks' = [acks EXCEPT ![x] = @ \cup {item}] /\ UNCHANGED buffer
         ELSE buffer' = [buffer EXCEPT ![x] = Append(@, item)] /\ UNCHANGED acks
  /\ chan' = [chan EXCEPT ![x] = Tail(@)]
  /\ \/ buffer'[x] # << >> /\ Goto(x, "push")
     \/ Len(buffer'[x]) < BatchSize /\ UNCHANGED at
  /\ UNCHANGED <<queueVars, copyVars, stripped, please_stop, faults, esVars, ignored>>

TimeIsUp(x) ==
  /\ at[x] = "pop"
  /\ chan[x] = << >>
  /\ buffer[x] # << >>
  /\ Goto(x, "push")
  /\ UNCHANGED <<queueVars, copyVars, chan, buffer, stripped, acks, please_stop, faults,
                 esVars, ignored>>

(* The splitter has ended, and its thread stops its children.  A worker    *)
(* that waits finds a THREAD_STOP, and pushes; one that is busy leaves its *)
(* loop, and pushes what is in its buffer.                                 *)
Leave(x) ==
  /\ at[x] = "pop"
  /\ pc = "end"
  /\ \/ chan[x] = << >> /\ Goto(x, "last")
     \/ Goto(x, IF buffer[x] = << >> THEN "end" ELSE "final")
  /\ UNCHANGED <<queueVars, copyVars, chan, buffer, stripped, acks, please_stop, faults,
                 esVars, ignored>>

Sending(x) == at[x] \in {"push", "last", "again", "final"} /\ (buffer[x] # << >> \/ at[x] = "last")
Taken(x, v) == {i \in DOMAIN buffer[x] : Verdict[buffer[x][i]] = v}

(* ES indexes the rows at places S of the buffer.                          *)
Index(x, S) ==
  /\ own' = own \cup {<<buffer[x][i], x>> : i \in {j \in S : j > stripped[x]}}
  /\ copies' = [r \in Rows |->
       copies[r] + Cardinality({i \in S : i <= stripped[x] /\ buffer[x][i] = r})]

(* Mutant: the last push is tried until it goes well.                      *)
ResumeForever(x) == Goto(x, IF at[x] = "push" THEN "pop" ELSE "final")

(* After a failed push.  The push a THREAD_STOP asks for may be followed by *)
(* one more of the loop, if its time is up, and by the one after the loop. *)
Resume(x) ==
  \/ at[x] = "push" /\ Goto(x, "pop")
  \/ at[x] = "last" /\ buffer'[x] # << >> /\ Goto(x, "again")
  \/ at[x] \in {"last", "again"} /\ Goto(x, IF buffer'[x] = << >> THEN "end" ELSE "final")
  \/ at[x] = "final" /\ Goto(x, "end")

(* errors() keeps the buffer.  Its first n rows have lost their _id.       *)
Keep(x, n) ==
  /\ stripped' = [stripped EXCEPT ![x] = IF n > @ THEN n ELSE @]
  /\ UNCHANGED <<buffer, dropped>>

(* errors() empties the buffer.  F: the places ES refused.                 *)
Drop(x, F) ==
  /\ dropped' = dropped \cup {buffer[x][i] : i \in F}
  /\ buffer' = [buffer EXCEPT ![x] = << >>]
  /\ stripped' = [stripped EXCEPT ![x] = 0]

Push(x) ==
  /\ Sending(x)
  /\ Taken(x, "ok") = DOMAIN buffer[x]
  /\ Index(x, DOMAIN buffer[x])
  /\ buffer' = [buffer EXCEPT ![x] = << >>]
  /\ stripped' = [stripped EXCEPT ![x] = 0]
  /\ Goto(x, IF at[x] = "push" THEN "ack" ELSE "lastack")
  /\ UNCHANGED <<queueVars, copyVars, chan, acks, please_stop, faults, dropped, ignored>>

(* Mutant: errors() does not look at the causes.                           *)
NoneReported(F) == {}

FirstReported(F) == {i \in F : Cardinality({j \in F : j < i}) < Reported}

(* ES refuses the hopeless rows, and those at places T for now.  Only the  *)
(* first few are reported: if one of them may do better, all is kept.      *)
PushRefused(x) ==
  /\ Sending(x)
  /\ Taken(x, "broken") = {}
  /\ \E T \in SUBSET Taken(x, "ok") :
       LET F == T \cup Taken(x, "hopeless")
       IN  /\ F # {}
           /\ IF T = {} THEN UNCHANGED faults ELSE Fault
           /\ Index(x, DOMAIN buffer[x] \ F)
           /\ IF at[x] = "final" \/ FirstReported(F) \cap T # {}
              THEN Keep(x, Len(buffer[x]))
              ELSE Drop(x, F)
  /\ Resume(x)
  /\ UNCHANGED <<queueVars, copyVars, chan, acks, please_stop, ignored>>

(* The request fails; ES may have executed it.                             *)
PushFails(x) ==
  /\ Sending(x)
  /\ buffer[x] # << >>
  /\ Taken(x, "broken") = {}
  /\ Fault
  /\ Index(x, {}) \/ Index(x, Taken(x, "ok"))
  /\ Keep(x, Len(buffer[x]))
  /\ Resume(x)
  /\ UNCHANGED <<queueVars, copyVars, chan, acks, please_stop, ignored>>

(* A row does not encode: the request is never complete.  The rows up to   *)
(* there have been encoded.                                                *)
PushBroken(x) ==
  /\ Sending(x)
  /\ \E i \in Taken(x, "broken") :
       /\ \A j \in Taken(x, "broken") : i <= j
       /\ Keep(x, i)
  /\ Resume(x)
  /\ UNCHANGED <<queueVars, copyVars, chan, acks, please_stop, faults, own, copies, ignored>>

(* The deletions, in any order: they commute.  If one fails they are all   *)
(* kept for the next push; to do one again changes nothing.                *)
Ack(x) ==
  /\ at[x] \in {"ack", "lastack"}
  /\ \/ /\ acks[x] = {}
        /\ Goto(x, IF at[x] = "ack" THEN "pop" ELSE "end")
        /\ UNCHANGED <<sqs, acks>>
     \/ \E m \in acks[x] :
          /\ DeleteMessage(m)
          /\ acks' = [acks EXCEPT ![x] = @ \ {m}]
          /\ UNCHANGED at
  /\ UNCHANGED <<again, copyVars, chan, buffer, stripped, please_stop, faults, esVars, ignored>>

AckFails(x) ==
  /\ at[x] \in {"ack", "lastack"}
  /\ acks[x] # {}
  /\ Fault
  /\ Goto(x, IF at[x] = "ack" THEN "pop" ELSE "end")
  /\ UNCHANGED <<queueVars, copyVars, chan, buffer, stripped, acks, please_stop, esVars, ignored>>

-----------------------------------------------------------------------------
(* The process.                                                            *)

Stop ==
  /\ ~please_stop
  /\ Fault
  /\ please_stop' = TRUE
  /\ UNCHANGED <<queueVars, copyVars, chan, workerVars, esVars, ignored>>

(* A new process has nothing of the old one.                               *)
NewProcess ==
  /\ pc' = "pop"
  /\ cur' = [msg |-> CHOOSE m \in Messages : TRUE, key |-> 1, row |-> 1]
  /\ queue' = "none"
  /\ pend' = << >>
  /\ done_copy' = TRUE
  /\ chan' = [x \in Indexes |-> << >>]
  /\ buffer' = [x \in Indexes |-> << >>]
  /\ stripped' = [x \in Indexes |-> 0]
  /\ acks' = [x \in Indexes |-> {}]
  /\ at' = [x \in Indexes |-> "pop"]
  /\ please_stop' = FALSE
  /\ UNCHANGED <<queueVars, esVars, ignored>>

Crash == Fault /\ NewProcess

Ended == pc = "end" /\ \A x \in Indexes : at[x] = "end"
Restart == Ended /\ NewProcess /\ UNCHANGED faults

-----------------------------------------------------------------------------
Init ==
  /\ sqs = [m \in Messages |-> "visible"]
  /\ again = {}
  /\ pc = "pop"
  /\ cur = [msg |-> CHOOSE m \in Messages : TRUE, key |-> 1, row |-> 1]
  /\ queue = "none"
  /\ pend = << >>
  /\ done_copy = TRUE
  /\ chan = [x \in Indexes |-> << >>]
  /\ buffer = [x \in Indexes |-> << >>]
  /\ stripped = [x \in Indexes |-> 0]
  /\ acks = [x \in Indexes |-> {}]
  /\ at = [x \in Indexes |-> "pop"]
  /\ please_stop = FALSE
  /\ faults = 0
  /\ own = {}
  /\ copies = [r \in Rows |-> 0]
  /\ ignored = {}
  /\ dropped = {}

Split ==
  \/ \E m \in Messages : Pop(m)
  \/ PopNothing \/ Discard
  \/ CopyGarbled \/ CopyUndated \/ CopyTooOld \/ CopyAfterTooOld
  \/ FindQueue \/ CopyRow \/ EndOfFile \/ Finish

Work(x) ==
  \/ Take(x) \/ TimeIsUp(x) \/ Leave(x)
  \/ Push(x) \/ PushRefused(x) \/ PushBroken(x) \/ Ack(x)

Fails == CopyFails \/ FinishFails \/ \E x \in Indexes : PushFails(x) \/ AckFails(x)

Next ==
  \/ Split
  \/ \E x \in Indexes : Work(x)
  \/ Fails
  \/ Stop \/ Crash \/ Restart
  \/ \E m \in Messages : Expire(m)

Spec == Init /\ [][Next]_vars

(* Threads go on, and a worker looks for the stop in every round; SQS gives *)
(* back a message that nobody works on, and does not pass over a message   *)
(* for ever; the supervisor starts a new process.                          *)
Fairness ==
  /\ WF_vars(Split)
  /\ \A m \in Messages : SF_vars(Pop(m))
  /\ \A x \in Indexes : WF_vars(Work(x)) /\ SF_vars(Leave(x))
  /\ \A m \in Messages : WF_vars(~InWork(m) /\ Expire(m))
  /\ WF_vars(Restart)
FairSpec == Spec /\ Fairness

-----------------------------------------------------------------------------
(* Properties.                                                             *)

Indexed(r) == copies[r] > 0 \/ \E x \in Indexes : <<r, x>> \in own

(* A message is only deleted from SQS once each of its rows is in          *)
(* Elasticsearch, was left out by copy() on purpose, or was given up by a  *)
(* worker with a warning: done_copy never overtakes a row.                 *)
DeletedIsIndexed ==
  \A m \in Messages : sqs[m] = "deleted" =>
    \A r \in RowsOf(m) : Indexed(r) \/ r \in ignored \cup dropped

(* A row Elasticsearch would take is only given up behind a hopeless one   *)
(* that hides it from the report (elasticsearch.py, errors()).             *)
DropsAreExplained ==
  (\E r \in dropped : Verdict[r] = "ok") => \E h \in dropped : Verdict[h] = "hopeless"

(* rollover_index.py:218 warns of duplicates only for rows without an _id. *)
NoDuplicates ==
  \A r \in Rows : copies[r] + Cardinality({x \in Indexes : <<r, x>> \in own}) <= 1

(* Every row that can be indexed is, whatever failed before.               *)
EveryRowIndexed ==
  \A r \in Rows : Verdict[r] = "ok" => <>(Indexed(r) \/ r \in ignored)

(* A stop request ends the process.                                        *)
StopEndsProcess == please_stop ~> Ended
=============================================================================
