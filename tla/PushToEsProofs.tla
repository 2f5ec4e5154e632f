---------------------------- MODULE PushToEsProofs ----------------------------
(***************************************************************************)
(* Theorems of PushToEs, for every number of messages, rows, files,        *)
(* indexes and faults, and every limit.                                    *)
(***************************************************************************)
EXTENDS PushToEs, FiniteSetTheorems, WellFoundedInduction, TLAPS

Assumptions == DataAssumption /\ LimitAssumption

-----------------------------------------------------------------------------
(* Types.                                                                  *)

CountTypes == copies \in [Rows -> Nat] /\ own \subseteq Rows \X Indexes

LEMMA PlacesAreFinite ==
  ASSUME NEW n \in Nat, NEW S, S \subseteq 1 .. n
  PROVE  IsFiniteSet(S) /\ Cardinality(S) \in Nat
<1>1. IsFiniteSet(1 .. n)
  BY FS_Interval
<1> QED
  BY <1>1, FS_Subset, FS_CardinalityType

(* What Elasticsearch indexes stays, and is there under an id of its own   *)
(* or another (elasticsearch.py 1436-1450).                                *)
LEMMA IndexAdds ==
  ASSUME TypeOK, NEW x \in Indexes, NEW S \in SUBSET DOMAIN buffer[x], Index(x, S)
  PROVE  /\ CountTypes'
         /\ own \subseteq own'
         /\ \A r \in Rows : copies[r] > 0 => copies'[r] > 0
         /\ \A i \in S : copies'[buffer[x][i]] > 0 \/ <<buffer[x][i], x>> \in own'
<1> DEFINE Old(r) == {i \in S : i <= stripped[x] /\ buffer[x][i] = r}
<1>1. buffer[x] \in Seq(Rows) /\ stripped[x] \in Nat /\ copies \in [Rows -> Nat]
      /\ own \subseteq Rows \X Indexes
  BY DEF TypeOK
<1>2. \A i \in S : i \in Nat /\ buffer[x][i] \in Rows
  BY <1>1
<1>3. \A r \in Rows : IsFiniteSet(Old(r)) /\ Cardinality(Old(r)) \in Nat
  <2>1. SUFFICES ASSUME NEW r \in Rows
                 PROVE  IsFiniteSet(Old(r)) /\ Cardinality(Old(r)) \in Nat
    OBVIOUS
  <2>2. Len(buffer[x]) \in Nat /\ Old(r) \subseteq 1 .. Len(buffer[x])
    BY <1>1
  <2> HIDE DEF Old
  <2> QED
    BY <2>2, PlacesAreFinite
<1>4. \A r \in Rows : copies'[r] = copies[r] + Cardinality(Old(r))
  BY DEF Index
<1>5. copies' \in [Rows -> Nat]
  <2>1. copies' = [r \in Rows |-> copies[r] + Cardinality(Old(r))]
    BY DEF Index
  <2> HIDE DEF Old
  <2> QED
    BY <2>1, <1>1, <1>3
<1>6. own \subseteq own' /\ own' \subseteq Rows \X Indexes
  BY <1>1, <1>2 DEF Index
<1>7. ASSUME NEW i \in S
      PROVE  copies'[buffer[x][i]] > 0 \/ <<buffer[x][i], x>> \in own'
  <2>1. CASE i > stripped[x]
    BY <2>1 DEF Index
  <2>2. CASE i <= stripped[x]
    <3>1. i \in Old(buffer[x][i])
      BY <2>2
    <3> HIDE DEF Old
    <3>2. Cardinality(Old(buffer[x][i])) # 0
      BY <3>1, <1>2, <1>3, FS_EmptySet
    <3> QED
      BY <3>2, <1>1, <1>2, <1>3, <1>4
  <2> QED
    BY <2>1, <2>2, <1>1, <1>2
<1>8. \A r \in Rows : copies[r] > 0 => copies'[r] > 0
  <2> HIDE DEF Old
  <2> QED
    BY <1>1, <1>3, <1>4
<1> QED
  BY <1>5, <1>6, <1>7, <1>8 DEF CountTypes

LEMMA InitTypes == ASSUME Assumptions, Init PROVE TypeOK
<1>1. Messages # {} /\ MaxFaults \in Nat
  BY DEF Assumptions, DataAssumption, LimitAssumption
<1>2. cur \in [msg : Messages, key : Nat \ {0}, row : Nat \ {0}]
  BY <1>1 DEF Init
<1>3. /\ chan \in [Indexes -> Seq(Rows \cup Messages)]
      /\ buffer \in [Indexes -> Seq(Rows)]
      /\ pend \in Seq(Rows)
  BY DEF Init
<1>4. /\ acks \in [Indexes -> SUBSET Messages]
      /\ stripped \in [Indexes -> Nat]
      /\ at \in [Indexes -> {"pop", "push", "last", "again", "final", "ack", "lastack", "end"}]
      /\ copies \in [Rows -> Nat]
      /\ sqs \in [Messages -> {"visible", "inflight", "deleted"}]
  BY DEF Init
<1>5. /\ again \subseteq Messages /\ pc \in {"pop", "discard", "copy", "end"}
      /\ queue \in Indexes \cup {"none", "old"}
      /\ done_copy \in BOOLEAN /\ please_stop \in BOOLEAN
  BY DEF Init
<1>6. /\ faults \in 0 .. MaxFaults
      /\ own \subseteq Rows \X Indexes /\ ignored \subseteq Rows /\ dropped \subseteq Rows
  BY <1>1 DEF Init
<1> QED
  BY <1>2, <1>3, <1>4, <1>5, <1>6 DEF TypeOK

(* Parts of many steps.                                                    *)
Sqs == sqs \in [Messages -> {"visible", "inflight", "deleted"}]
Cur == cur \in [msg : Messages, key : Nat \ {0}, row : Nat \ {0}]
At == at \in [Indexes -> {"pop", "push", "last", "again", "final", "ack", "lastack", "end"}]

LEMMA DeleteTypes == ASSUME TypeOK, NEW m \in Messages, DeleteMessage(m) PROVE Sqs'
BY DEF TypeOK, DeleteMessage, Sqs

LEMMA CurTypes == ASSUME TypeOK, NextRow \/ NextKey \/ GiveUpKey PROVE Cur'
<1>1. cur = [msg |-> cur.msg, key |-> cur.key, row |-> cur.row]
      /\ cur.msg \in Messages /\ cur.key \in Nat \ {0} /\ cur.row \in Nat \ {0}
  BY DEF TypeOK
<1>2. CASE NextRow
  <2>1. cur' = [msg |-> cur.msg, key |-> cur.key, row |-> cur.row + 1]
    BY <1>1, <1>2 DEF NextRow
  <2> QED
    BY <1>1, <2>1 DEF Cur
<1>3. CASE NextKey
  <2>1. cur' = [msg |-> cur.msg, key |-> cur.key + 1, row |-> 1]
    BY <1>1, <1>3 DEF NextKey
  <2> QED
    BY <1>1, <2>1 DEF Cur
<1> QED
  BY <1>2, <1>3 DEF GiveUpKey

LEMMA AtTypes ==
  ASSUME TypeOK, NEW x \in Indexes,
         NEW p \in {"pop", "push", "last", "again", "final", "ack", "lastack", "end"}, Goto(x, p)
  PROVE  At'
BY DEF TypeOK, Goto, At

(* The file that is read and its rows.                                     *)
LEMMA FileTypes ==
  ASSUME Assumptions, TypeOK
  PROVE  /\ Keys \in Seq(Seq(Rows)) /\ Len(Keys) \in Nat
         /\ cur.msg \in Messages /\ cur.key \in Nat \ {0} /\ cur.row \in Nat \ {0}
         /\ \A k \in DOMAIN Keys : Keys[k] \in Seq(Rows) /\ Len(Keys[k]) \in Nat
         /\ cur.key <= Len(Keys) =>
              /\ cur.key \in DOMAIN Keys
              /\ File \in Seq(Rows) /\ Len(File) \in Nat
              /\ Rest \subseteq Rows
         /\ AtRow => File[cur.row] \in Rows /\ cur.row \in DOMAIN File
         /\ \A m \in Messages : RowsOf(m) \subseteq Rows
<1>1. cur.msg \in Messages /\ cur.key \in Nat \ {0} /\ cur.row \in Nat \ {0}
  BY DEF TypeOK
<1>2. \A m \in Messages : Files[m] \in Seq(Seq(Rows))
  BY DEF Assumptions, DataAssumption
<1>3. Keys \in Seq(Seq(Rows)) /\ Len(Keys) \in Nat
  BY <1>1, <1>2 DEF Keys
<1>4. \A k \in DOMAIN Keys : Keys[k] \in Seq(Rows) /\ Len(Keys[k]) \in Nat
  BY <1>3
<1>5. cur.key <= Len(Keys) => cur.key \in DOMAIN Keys /\ File \in Seq(Rows) /\ Len(File) \in Nat
  BY <1>1, <1>3, <1>4 DEF File
<1>6. cur.key <= Len(Keys) => Rest \subseteq Rows
  BY <1>1, <1>5 DEF Rest
<1>7. AtRow => File[cur.row] \in Rows /\ cur.row \in DOMAIN File
  BY <1>1, <1>5 DEF AtRow
<1>8. \A m \in Messages : RowsOf(m) \subseteq Rows
  BY <1>2 DEF RowsOf, Elements
<1> QED
  BY <1>1, <1>3, <1>4, <1>5, <1>6, <1>7, <1>8

(* The splitter keeps the types (push_to_es.py, rollover_index.py).        *)
LEMMA SplitTypes ==
  ASSUME Assumptions, TypeOK, Split \/ CopyFails \/ FinishFails
  PROVE  TypeOK'
<1> USE DEF TypeOK, queueVars, copyVars, workerVars, esVars
<1>1. /\ cur.msg \in Messages /\ RowsOf(cur.msg) \subseteq Rows
      /\ cur.key <= Len(Keys) => Rest \subseteq Rows
      /\ AtRow => File[cur.row] \in Rows
  BY FileTypes
<1>2. \A S : MaxFaults \in Nat /\ Indexes \cap NoIndex = {}
  BY DEF Assumptions, DataAssumption, LimitAssumption
<1>3. ASSUME NEW m \in Messages, Pop(m) PROVE TypeOK'
  BY <1>3 DEF Pop, Start
<1>4. CASE PopNothing
  BY <1>4 DEF PopNothing
<1>5. CASE Discard
  <2>1. Sqs' /\ faults' \in 0 .. MaxFaults
    BY <1>5, <1>1, <1>2, DeleteTypes DEF Discard, Fault, Sqs
  <2> QED
    BY <1>5, <2>1, <1>1 DEF Discard, Sqs
<1>6. CASE CopyGarbled
  BY <1>6, <1>1, CurTypes DEF CopyGarbled, AtRow, Cur
<1>7. CASE CopyUndated
  <2>1. Cur'
    BY <1>7, CurTypes DEF CopyUndated
  <2>2. Sqs' /\ faults' \in 0 .. MaxFaults
    BY <1>7, <1>1, <1>2, DeleteTypes DEF CopyUndated, Fault, Sqs
  <2>3. pend' \in Seq(Rows)
    <3>1. pend' = Append(pend, File[cur.row]) /\ File[cur.row] \in Rows
      BY <1>7, <1>1 DEF CopyUndated
    <3> QED
      BY <3>1
  <2>4. ignored' \subseteq Rows /\ done_copy' \in BOOLEAN
    <3>1. CASE Len(pend) < MaxPending
      BY <1>7, <3>1 DEF CopyUndated
    <3>2. CASE ~(Len(pend) < MaxPending)
      BY <1>7, <3>2, <1>1 DEF CopyUndated, GiveUpKey
    <3> QED
      BY <3>1, <3>2
  <2> QED
    BY <1>7, <2>1, <2>2, <2>3, <2>4 DEF CopyUndated, Sqs, Cur
<1>8. CASE CopyTooOld
  BY <1>8, <1>1, CurTypes DEF CopyTooOld, AtRow, Cur
<1>9. CASE CopyAfterTooOld
  <2>1. Cur'
    BY <1>9, CurTypes DEF CopyAfterTooOld
  <2> QED
    BY <1>9, <2>1 DEF CopyAfterTooOld, GiveUpKey, Cur
<1>10. CASE FindQueue
  <2>1. PICK x \in Indexes : queue' = x /\ chan' = [chan EXCEPT ![x] = @ \o pend]
    BY <1>10 DEF FindQueue, Enqueue
  <2>2. chan[x] \o pend \in Seq(Rows \cup Messages)
    BY <2>1
  <2>3. chan' \in [Indexes -> Seq(Rows \cup Messages)]
    BY <2>1, <2>2
  <2> QED
    BY <1>10, <2>1, <2>3 DEF FindQueue
<1>11. CASE CopyRow
  <2>1. queue \in Indexes /\ AtRow /\ chan' = [chan EXCEPT ![queue] = @ \o <<File[cur.row]>>]
    BY <1>11 DEF CopyRow, Enqueue
  <2>2. chan[queue] \o <<File[cur.row]>> \in Seq(Rows \cup Messages)
    BY <2>1, <1>1
  <2>3. chan' \in [Indexes -> Seq(Rows \cup Messages)]
    BY <2>1, <2>2
  <2> QED
    BY <1>11, <2>3, CurTypes DEF CopyRow, Cur
<1>12. CASE EndOfFile
  BY <1>12, CurTypes DEF EndOfFile, Cur
<1>13. CASE Finish
  <2>1. CASE queue \in Indexes /\ Enqueue(queue, <<cur.msg>>) /\ UNCHANGED <<sqs, ignored>>
    <3>1. chan[queue] \o <<cur.msg>> \in Seq(Rows \cup Messages)
      BY <2>1, <1>1
    <3>2. chan' \in [Indexes -> Seq(Rows \cup Messages)]
      BY <2>1, <3>1 DEF Enqueue
    <3> QED
      BY <1>13, <2>1, <3>2 DEF Finish
  <2>2. CASE DeleteMessage(cur.msg) /\ ignored' = ignored \cup Elements(pend) /\ UNCHANGED chan
    <3>1. Elements(pend) \subseteq Rows
      BY DEF Elements
    <3> QED
      BY <1>13, <2>2, <3>1 DEF Finish, DeleteMessage
  <2>3. CASE UNCHANGED <<sqs, chan, ignored>>
    BY <1>13, <2>3 DEF Finish
  <2> QED
    BY <1>13, <2>1, <2>2, <2>3 DEF Finish
<1>14. CASE CopyFails
  <2>1. Cur'
    BY <1>14, CurTypes DEF CopyFails
  <2>2. queue' \in Indexes \cup {"none", "old"}
    BY <1>14 DEF CopyFails
  <2>3. faults' \in 0 .. MaxFaults
    BY <1>14, <1>2 DEF CopyFails, Fault
  <2> QED
    BY <1>14, <2>1, <2>2, <2>3 DEF CopyFails, GiveUpKey, Cur
<1>15. CASE FinishFails
  BY <1>15, <1>2 DEF FinishFails, Fault
<1> QED
  BY <1>3, <1>4, <1>5, <1>6, <1>7, <1>8, <1>9, <1>10, <1>11, <1>12, <1>13, <1>14, <1>15
     DEF Split

(* So do the workers (queues.py, elasticsearch.py).                        *)
LEMMA ResumeTypes == ASSUME TypeOK, NEW x \in Indexes, Resume(x) PROVE At'
BY AtTypes DEF Resume

LEMMA WorkTypes ==
  ASSUME Assumptions, TypeOK, NEW x \in Indexes, Work(x) \/ PushFails(x) \/ AckFails(x)
  PROVE  TypeOK'
<1> USE DEF TypeOK, queueVars, copyVars, workerVars, esVars
<1>1. MaxFaults \in Nat /\ Rows \cap Messages = {}
  BY DEF Assumptions, DataAssumption, LimitAssumption
<1>2. buffer[x] \in Seq(Rows) /\ Len(buffer[x]) \in Nat /\ stripped[x] \in Nat
  BY DEF TypeOK
<1>3. \A F \in SUBSET DOMAIN buffer[x] : {buffer[x][i] : i \in F} \subseteq Rows
  BY <1>2
<1>4. \A v : Taken(x, v) \subseteq DOMAIN buffer[x]
  BY DEF Taken
<1>5. \A n \in Nat : Keep(x, n) =>
        stripped' \in [Indexes -> Nat] /\ buffer' = buffer /\ dropped' = dropped
  BY <1>2 DEF Keep
<1>6. \A F \in SUBSET DOMAIN buffer[x] : Drop(x, F) =>
        /\ stripped' \in [Indexes -> Nat] /\ buffer' \in [Indexes -> Seq(Rows)]
        /\ dropped' \subseteq Rows
  BY <1>2, <1>3 DEF Drop
<1>7. CASE Take(x)
  <2>1. chan[x] \in Seq(Rows \cup Messages) /\ chan[x] # << >>
    BY <1>7 DEF Take
  <2>2. Tail(chan[x]) \in Seq(Rows \cup Messages) /\ Head(chan[x]) \in Rows \cup Messages
    BY <2>1
  <2>3. chan' \in [Indexes -> Seq(Rows \cup Messages)]
    BY <1>7, <2>2 DEF Take
  <2>4. acks' \in [Indexes -> SUBSET Messages] /\ buffer' \in [Indexes -> Seq(Rows)]
    <3>1. CASE Head(chan[x]) \in Messages
      <4>1. acks' = [acks EXCEPT ![x] = @ \cup {Head(chan[x])}] /\ buffer' = buffer
        BY <1>7, <3>1 DEF Take
      <4>2. acks[x] \cup {Head(chan[x])} \subseteq Messages
        BY <3>1
      <4> QED
        BY <4>1, <4>2
    <3>2. CASE Head(chan[x]) \notin Messages
      <4>1. Append(buffer[x], Head(chan[x])) \in Seq(Rows)
        BY <3>2, <2>2, <1>2
      <4> QED
        <5>1. buffer' = [buffer EXCEPT ![x] = Append(buffer[x], Head(chan[x]))] /\ acks' = acks
          BY <1>7, <3>2 DEF Take
        <5> QED
          BY <5>1, <4>1
    <3> QED
      BY <3>1, <3>2
  <2>5. At'
    BY <1>7, AtTypes DEF Take, At
  <2>6. UNCHANGED <<queueVars, copyVars, stripped, please_stop, faults, esVars, ignored>>
    BY <1>7 DEF Take
  <2> QED
    BY <2>3, <2>4, <2>5, <2>6 DEF At
<1>8. CASE TimeIsUp(x)
  BY <1>8 DEF TimeIsUp, Goto
<1>9. CASE Leave(x)
  BY <1>9 DEF Leave, Goto
<1>10. CASE Push(x)
  <2>1. CountTypes'
    BY <1>10, IndexAdds DEF Push
  <2> QED
    BY <1>10, <2>1 DEF Push, Goto, CountTypes
<1>11. CASE PushRefused(x)
  <2>1. PICK T \in SUBSET Taken(x, "ok") :
          LET F == T \cup Taken(x, "hopeless")
          IN  /\ IF T = {} THEN UNCHANGED faults ELSE Fault
              /\ Index(x, DOMAIN buffer[x] \ F)
              /\ Keep(x, Len(buffer[x])) \/ Drop(x, F)
    BY <1>11 DEF PushRefused
  <2> DEFINE F == T \cup Taken(x, "hopeless")
  <2>2. F \in SUBSET DOMAIN buffer[x]
    BY <1>4
  <2>3. CountTypes'
    <3>1. DOMAIN buffer[x] \ F \in SUBSET DOMAIN buffer[x]
      OBVIOUS
    <3> QED
      BY <2>1, <3>1, IndexAdds
  <2>4. /\ stripped' \in [Indexes -> Nat] /\ buffer' \in [Indexes -> Seq(Rows)]
        /\ dropped' \subseteq Rows
    BY <2>1, <2>2, <1>2, <1>5, <1>6
  <2>5. faults' \in 0 .. MaxFaults
    BY <2>1, <1>1 DEF Fault
  <2>6. At'
    BY <1>11, ResumeTypes DEF PushRefused
  <2> QED
    BY <1>11, <2>3, <2>4, <2>5, <2>6 DEF PushRefused, CountTypes, At
<1>12. CASE PushBroken(x)
  <2>1. stripped' \in [Indexes -> Nat] /\ buffer' = buffer /\ dropped' = dropped
    <3>1. PICK i \in Taken(x, "broken") : Keep(x, i)
      BY <1>12 DEF PushBroken
    <3>2. i \in Nat
      BY <1>2, <1>4
    <3> QED
      BY <3>1, <3>2, <1>5
  <2>2. At'
    BY <1>12, ResumeTypes DEF PushBroken
  <2> QED
    BY <1>12, <2>1, <2>2 DEF PushBroken, At
<1>13. CASE PushFails(x)
  <2>1. CountTypes'
    <3>1. {} \in SUBSET DOMAIN buffer[x] /\ Taken(x, "ok") \in SUBSET DOMAIN buffer[x]
      BY <1>4
    <3> QED
      BY <1>13, <3>1, IndexAdds DEF PushFails
  <2>2. stripped' \in [Indexes -> Nat] /\ buffer' = buffer /\ dropped' = dropped
    BY <1>13, <1>2, <1>5 DEF PushFails
  <2>3. At'
    BY <1>13, ResumeTypes DEF PushFails
  <2>4. faults' \in 0 .. MaxFaults
    BY <1>13, <1>1 DEF PushFails, Fault
  <2> QED
    BY <1>13, <2>1, <2>2, <2>3, <2>4 DEF PushFails, CountTypes, At
<1>14. CASE Ack(x)
  <2>1. CASE Goto(x, IF at[x] = "ack" THEN "pop" ELSE "end") /\ UNCHANGED <<sqs, acks>>
    BY <1>14, <2>1, AtTypes DEF Ack, At
  <2>2. ASSUME NEW m \in acks[x], DeleteMessage(m), acks' = [acks EXCEPT ![x] = @ \ {m}],
               UNCHANGED at
        PROVE  TypeOK'
    <3>1. m \in Messages
      OBVIOUS
    <3>2. Sqs' /\ acks' \in [Indexes -> SUBSET Messages]
      BY <2>2, <3>1, DeleteTypes
    <3> QED
      BY <1>14, <2>2, <3>2 DEF Ack, Sqs
  <2> QED
    BY <1>14, <2>1, <2>2 DEF Ack
<1>15. CASE AckFails(x)
  BY <1>15, <1>1 DEF AckFails, Goto, Fault
<1> QED
  BY <1>7, <1>8, <1>9, <1>10, <1>11, <1>12, <1>13, <1>14, <1>15 DEF Work

LEMMA WorldTypes ==
  ASSUME Assumptions, TypeOK, Stop \/ Crash \/ Restart \/ \E m \in Messages : Expire(m)
  PROVE  TypeOK'
<1> USE DEF TypeOK, queueVars, copyVars, workerVars, esVars
<1>1. Messages # {} /\ MaxFaults \in Nat
  BY DEF Assumptions, DataAssumption, LimitAssumption
<1>2. CASE Stop
  BY <1>1, <1>2 DEF Stop, Fault
<1>3. CASE Crash \/ Restart
  <2>1. NewProcess /\ faults' \in 0 .. MaxFaults
    BY <1>1, <1>3 DEF Crash, Restart, Fault
  <2>2. Cur'
    BY <1>1, <2>1 DEF NewProcess, Cur
  <2> QED
    <3>1. /\ chan' \in [Indexes -> Seq(Rows \cup Messages)]
          /\ buffer' \in [Indexes -> Seq(Rows)]
          /\ pend' \in Seq(Rows)
      BY <2>1 DEF NewProcess
    <3>2. /\ acks' \in [Indexes -> SUBSET Messages]
          /\ stripped' \in [Indexes -> Nat]
          /\ At'
      BY <2>1 DEF NewProcess, At
    <3> QED
      BY <2>1, <2>2, <3>1, <3>2 DEF NewProcess, Cur, At
<1>4. ASSUME NEW m \in Messages, Expire(m) PROVE TypeOK'
  <2>1. faults' \in 0 .. MaxFaults
    BY <1>1, <1>4 DEF Expire, Fault
  <2>2. Sqs' /\ again' \subseteq Messages
    BY <1>4 DEF Expire, Sqs
  <2> QED
    BY <1>4, <2>1, <2>2 DEF Expire, Sqs
<1> QED
  BY <1>2, <1>3, <1>4

LEMMA NextTypes == ASSUME Assumptions, TypeOK, [Next]_vars PROVE TypeOK'
<1>1. CASE UNCHANGED vars
  BY <1>1 DEF TypeOK, vars, queueVars, copyVars, workerVars, esVars
<1> QED
  BY <1>1, SplitTypes, WorkTypes, WorldTypes DEF Next, Fails

(* Every variable keeps to its type: documents and histories are of the    *)
(* rows there are, and workers are at one of their steps.                  *)
THEOREM PushTypes == Spec => []TypeOK
<1>1. Assumptions
  BY DataAssumption, LimitAssumption DEF Assumptions
<1> QED
  BY <1>1, InitTypes, NextTypes, PTL DEF Spec

-----------------------------------------------------------------------------
(* What makes DeletedIsIndexed hold.  A row on its way is where the        *)
(* deletion of its message can not overtake it: in front of it in the      *)
(* queue of the index, in the buffer of its worker, or in the hands of     *)
(* copy() as long as done_copy is set.                                     *)

Settled(r) == Indexed(r) \/ r \in ignored \cup dropped

Sent(r, x) == Settled(r) \/ r \in Elements(buffer[x])

ChanOK ==
  \A x \in Indexes : \A i \in DOMAIN chan[x] : chan[x][i] \in Messages =>
    \A r \in RowsOf(chan[x][i]) :
      Sent(r, x) \/ \E j \in DOMAIN chan[x] : j < i /\ chan[x][j] = r

AcksOK == \A x \in Indexes : \A m \in acks[x] : \A r \in RowsOf(m) : Sent(r, x)

(* After a push that went well there is nothing left to overtake.          *)
PushedOK == \A x \in Indexes : at[x] \in {"ack", "lastack"} => buffer[x] = << >>

(* What copy() has done with the rows it has read.                         *)
Queued(r) == queue \in Indexes /\ (Sent(r, queue) \/ r \in Elements(chan[queue]))

Copied(r) == Settled(r) \/ r \in Elements(pend) \/ Queued(r)

Before(k, i) == k < cur.key \/ (k = cur.key /\ i < cur.row)

AllCopied ==
  \A k \in DOMAIN Keys : \A i \in DOMAIN Keys[k] : Before(k, i) => Copied(Keys[k][i])

CopyOK ==
  pc = "copy" /\ done_copy => /\ queue \in Indexes => pend = << >>
                             /\ AllCopied

IInv == TypeOK /\ DeletedIsIndexed /\ ChanOK /\ AcksOK /\ PushedOK /\ CopyOK

LEMMA InitPush == ASSUME Assumptions, Init PROVE IInv
<1>1. TypeOK
  BY InitTypes
<1>2. DeletedIsIndexed
  BY DEF Init, DeletedIsIndexed
<1>3. ChanOK /\ AcksOK /\ PushedOK /\ CopyOK
  BY DEF Init, ChanOK, AcksOK, PushedOK, CopyOK
<1> QED
  BY <1>1, <1>2, <1>3 DEF IInv

(* What a step leaves settled or sent.                                     *)
SettledStay == \A r \in Rows : Settled(r) => Settled(r)'

SentStay == \A r \in Rows : \A x \in Indexes : Sent(r, x) => Sent(r, x)'

LEMMA Stay ==
  ASSUME own \subseteq own', ignored \subseteq ignored', dropped \subseteq dropped',
         \A r \in Rows : copies[r] > 0 => copies'[r] > 0
  PROVE  SettledStay
BY DEF SettledStay, Settled, Indexed

LEMMA QuietDocuments ==
  ASSUME UNCHANGED <<own, copies, dropped>>, ignored \subseteq ignored'
  PROVE  /\ SettledStay
         /\ UNCHANGED buffer => SentStay
BY Stay DEF SentStay, Sent, Settled, Indexed, SettledStay

(* A message whose rows are settled may be deleted.                        *)
LEMMA DeletedStays ==
  ASSUME Assumptions, TypeOK, DeletedIsIndexed, SettledStay,
         NEW m \in Messages, UNCHANGED sqs \/ DeleteMessage(m),
         UNCHANGED sqs \/ \A r \in RowsOf(m) : Settled(r)'
  PROVE  DeletedIsIndexed'
<1>1. ASSUME NEW n \in Messages, sqs'[n] = "deleted", NEW r \in RowsOf(n)
      PROVE  Settled(r)'
  <2>1. r \in Rows
    BY FileTypes
  <2>2. CASE sqs[n] = "deleted"
    BY <2>1, <2>2 DEF DeletedIsIndexed, SettledStay, Settled
  <2>3. CASE sqs[n] # "deleted"
    BY <1>1, <2>3 DEF DeleteMessage, TypeOK
  <2> QED
    BY <2>2, <2>3
<1> QED
  BY <1>1 DEF DeletedIsIndexed, Settled, Indexed, RowsOf, Elements

(* A deletion that goes in behind the rows of its message (queues.py 395,  *)
(* rollover_index.py 245).                                                 *)
LEMMA EnqueueStep ==
  ASSUME Assumptions, TypeOK, ChanOK, SentStay,
         NEW x \in Indexes, NEW items \in Seq(Rows \cup Messages), Enqueue(x, items),
         \A i \in DOMAIN items : items[i] \in Messages =>
           \A r \in RowsOf(items[i]) : Sent(r, x) \/ r \in Elements(chan[x])
  PROVE  /\ ChanOK'
         /\ \A y \in Indexes : Elements(chan[y]) \subseteq Elements(chan'[y])
         /\ Elements(items) \subseteq Elements(chan'[x])
<1> DEFINE s == chan[x]
           t == chan'[x]
<1>1. s \in Seq(Rows \cup Messages) /\ t = s \o items
  BY DEF TypeOK, Enqueue
<1>2. Len(s) \in Nat /\ Len(items) \in Nat /\ DOMAIN t = 1 .. (Len(s) + Len(items))
      /\ DOMAIN s = 1 .. Len(s) /\ DOMAIN items = 1 .. Len(items)
  BY <1>1
<1>3. /\ \A i \in DOMAIN s : i \in DOMAIN t /\ t[i] = s[i]
      /\ \A i \in DOMAIN items : i + Len(s) \in DOMAIN t /\ t[i + Len(s)] = items[i]
      /\ \A i \in DOMAIN t \ DOMAIN s : i - Len(s) \in DOMAIN items /\ t[i] = items[i - Len(s)]
  BY <1>1, <1>2
<1>4. \A y \in Indexes \ {x} : chan'[y] = chan[y]
  BY DEF Enqueue, TypeOK
<1>5. Elements(s) \subseteq Elements(t) /\ Elements(items) \subseteq Elements(t)
  BY <1>3 DEF Elements
<1>6. ASSUME NEW y \in Indexes, NEW i \in DOMAIN chan'[y], chan'[y][i] \in Messages,
             NEW r \in RowsOf(chan'[y][i])
      PROVE  Sent(r, y)' \/ \E j \in DOMAIN chan'[y] : j < i /\ chan'[y][j] = r
  <2>1. r \in Rows
    BY <1>6, FileTypes
  <2>2. CASE y # x
    BY <1>4, <1>6, <2>1, <2>2 DEF ChanOK, SentStay
  <2>3. CASE y = x /\ i \in DOMAIN s
    <3>1. Sent(r, x) \/ \E j \in DOMAIN s : j < i /\ s[j] = r
      BY <1>3, <1>6, <2>3 DEF ChanOK
    <3> QED
      BY <3>1, <2>1, <2>3, <1>3 DEF SentStay
  <2>4. CASE y = x /\ i \notin DOMAIN s
    <3>1. Sent(r, x) \/ r \in Elements(s)
      BY <1>3, <1>6, <2>4
    <3>2. CASE r \in Elements(s)
      <4>1. PICK j \in DOMAIN s : s[j] = r
        BY <3>2 DEF Elements
      <4>2. j < i
        BY <1>2, <1>6, <2>4
      <4> QED
        BY <4>1, <4>2, <1>3, <2>4
    <3> QED
      BY <3>1, <3>2, <2>1, <2>4 DEF SentStay
  <2> QED
    BY <2>2, <2>3, <2>4
<1>7. ChanOK'
  BY <1>6 DEF ChanOK, RowsOf, Elements
<1> HIDE DEF s, t
<1>8. \A y \in Indexes : Elements(chan[y]) \subseteq Elements(chan'[y])
  BY <1>4, <1>5 DEF s, t
<1> QED
  BY <1>5, <1>7, <1>8 DEF t

(* What copy() has done stays done.                                        *)
CopiedStay == \A r \in Rows : Copied(r) => Copied(r)'

LEMMA StillCopied ==
  ASSUME TypeOK, SettledStay, SentStay, UNCHANGED queue,
         Elements(pend) \subseteq Elements(pend'),
         \A x \in Indexes : Elements(chan[x]) \subseteq Elements(chan'[x])
  PROVE  CopiedStay
BY DEF SettledStay, SentStay, CopiedStay, Copied, Queued, Sent, Settled, Indexed

LEMMA NextKeyStep ==
  ASSUME Assumptions, TypeOK, AllCopied, CopiedStay, cur.key <= Len(Keys), NextKey,
         \A r \in Rest : Copied(r)'
  PROVE  AllCopied'
<1>1. /\ cur.msg' = cur.msg /\ cur.key' = cur.key + 1 /\ cur.row' = 1
      /\ cur.key \in Nat /\ cur.row \in Nat
  BY DEF NextKey, TypeOK
<1>2. Keys' = Keys /\ Keys \in Seq(Seq(Rows))
  BY <1>1, FileTypes DEF Keys
<1>3. ASSUME NEW k \in DOMAIN Keys, NEW i \in DOMAIN Keys[k], Before(k, i)',
             NEW r \in Rows, r = Keys[k][i]
      PROVE  Copied(r)'
  <2>1. k \in Nat /\ i \in Nat \ {0} /\ i <= Len(Keys[k]) /\ Len(Keys[k]) \in Nat
    BY <1>2
  <2>2. k <= cur.key
    BY <1>1, <1>3, <2>1 DEF Before
  <2>3. CASE Before(k, i)
    BY <1>3, <2>3 DEF AllCopied, CopiedStay
  <2>4. CASE ~Before(k, i)
    <3>1. k = cur.key /\ cur.row <= i
      BY <1>1, <2>1, <2>2, <2>4 DEF Before
    <3>2. r \in Rest
      BY <1>1, <1>3, <2>1, <3>1 DEF Rest, File
    <3> QED
      BY <3>2
  <2> QED
    BY <2>3, <2>4
<1>4. \A k \in DOMAIN Keys : \A i \in DOMAIN Keys[k] : Keys[k][i] \in Rows
  BY <1>2
<1>5. \A k \in DOMAIN Keys' : \A i \in DOMAIN Keys'[k] : Before(k, i)' =>
        \A r \in Rows : r = Keys'[k][i] => Copied(r)'
  BY <1>2, <1>3
<1>6. \A k \in DOMAIN Keys' : \A i \in DOMAIN Keys'[k] : Before(k, i)' =>
        \E r \in Rows : r = Keys'[k][i] /\ Copied(r)'
  BY <1>2, <1>4, <1>5
<1> QED
  BY <1>6 DEF AllCopied

LEMMA NextRowStep ==
  ASSUME Assumptions, TypeOK, AllCopied, CopiedStay, AtRow, NextRow,
         NEW row \in Rows, row = File[cur.row], Copied(row)'
  PROVE  AllCopied'
<1>1. /\ cur.msg' = cur.msg /\ cur.key' = cur.key /\ cur.row' = cur.row + 1
      /\ cur.key \in Nat /\ cur.row \in Nat
  BY DEF NextRow, TypeOK
<1>2. Keys' = Keys /\ Keys \in Seq(Seq(Rows))
  BY <1>1, FileTypes DEF Keys
<1>3. ASSUME NEW k \in DOMAIN Keys, NEW i \in DOMAIN Keys[k], Before(k, i)',
             NEW r \in Rows, r = Keys[k][i]
      PROVE  Copied(r)'
  <2>1. k \in Nat /\ i \in Nat
    BY <1>2
  <2>2. CASE Before(k, i)
    BY <1>3, <2>2 DEF AllCopied, CopiedStay
  <2>3. CASE ~Before(k, i)
    <3>1. k = cur.key /\ i = cur.row
      BY <1>1, <1>3, <2>1, <2>3 DEF Before
    <3> QED
      BY <1>3, <3>1 DEF File
  <2> QED
    BY <2>2, <2>3
<1>4. \A k \in DOMAIN Keys : \A i \in DOMAIN Keys[k] : Keys[k][i] \in Rows
  BY <1>2
<1>5. \A k \in DOMAIN Keys' : \A i \in DOMAIN Keys'[k] : Before(k, i)' =>
        \A r \in Rows : r = Keys'[k][i] => Copied(r)'
  BY <1>2, <1>3
<1>6. \A k \in DOMAIN Keys' : \A i \in DOMAIN Keys'[k] : Before(k, i)' =>
        \E r \in Rows : r = Keys'[k][i] /\ Copied(r)'
  BY <1>2, <1>4, <1>5
<1> QED
  BY <1>6 DEF AllCopied

(* When the last file is copied, all rows of the message are.              *)
LEMMA EndCopied ==
  ASSUME Assumptions, TypeOK, CopyOK, AtEnd, done_copy
  PROVE  \A r \in RowsOf(cur.msg) : Copied(r)
<1>1. SUFFICES ASSUME NEW r \in RowsOf(cur.msg)
               PROVE  Copied(r)
  OBVIOUS
<1>2. PICK k \in DOMAIN Keys : r \in Elements(Keys[k])
  BY DEF RowsOf, Keys
<1>3. PICK i \in DOMAIN Keys[k] : r = Keys[k][i]
  BY <1>2 DEF Elements
<1>4. k < cur.key
  BY FileTypes DEF AtEnd
<1>5. Before(k, i)
  BY <1>4 DEF Before
<1> QED
  BY <1>3, <1>5 DEF CopyOK, AllCopied, AtEnd

(* What the workers hold, when a step is not theirs.                       *)
LEMMA QuietWorkers ==
  ASSUME Assumptions, TypeOK, AcksOK, PushedOK, SentStay, UNCHANGED <<acks, at, buffer>>
  PROVE  AcksOK' /\ PushedOK'
<1>1. \A m \in Messages : RowsOf(m) \subseteq Rows
  BY FileTypes
<1>2. ASSUME NEW x \in Indexes, NEW m \in acks[x], NEW r \in RowsOf(m)
      PROVE  Sent(r, x)'
  <2>1. m \in Messages
    BY DEF TypeOK
  <2> QED
    BY <1>1, <2>1 DEF AcksOK, SentStay
<1>3. AcksOK'
  BY <1>2 DEF AcksOK, RowsOf, Elements
<1> QED
  BY <1>3 DEF PushedOK

LEMMA QuietQueues ==
  ASSUME Assumptions, TypeOK, ChanOK, SentStay, UNCHANGED chan
  PROVE  ChanOK'
<1>1. \A m \in Messages : RowsOf(m) \subseteq Rows
  BY FileTypes
<1>2. ASSUME NEW x \in Indexes, NEW i \in DOMAIN chan[x], chan[x][i] \in Messages,
             NEW r \in RowsOf(chan[x][i])
      PROVE  Sent(r, x)' \/ \E j \in DOMAIN chan[x] : j < i /\ chan[x][j] = r
  BY <1>1, <1>2 DEF ChanOK, SentStay
<1> QED
  BY <1>2 DEF ChanOK, RowsOf, Elements

(* The splitter and copy() keep the rows in front of the deletion          *)
(* (push_to_es.py, rollover_index.py 196-260).                             *)
LEMMA CopySteps ==
  ASSUME Assumptions, IInv, Split \/ CopyFails \/ FinishFails
  PROVE  DeletedIsIndexed' /\ ChanOK' /\ AcksOK' /\ PushedOK' /\ CopyOK'
<1> USE DEF IInv, queueVars, copyVars, workerVars, esVars
<1>1. /\ cur.msg \in Messages /\ RowsOf(cur.msg) \subseteq Rows
      /\ cur.key <= Len(Keys) => Rest \subseteq Rows
      /\ AtRow => File[cur.row] \in Rows
      /\ "none" \notin Indexes /\ "old" \notin Indexes
  BY FileTypes DEF Assumptions, DataAssumption, NoIndex
<1>2. UNCHANGED <<acks, at, buffer, own, copies, dropped>> /\ ignored \subseteq ignored'
  BY DEF Split, Pop, PopNothing, Discard, CopyGarbled, CopyUndated, CopyTooOld,
         CopyAfterTooOld, FindQueue, CopyRow, EndOfFile, Finish, CopyFails, FinishFails
<1>3. SettledStay /\ SentStay
  BY <1>2, QuietDocuments
<1>4. AcksOK' /\ PushedOK'
  BY <1>2, <1>3, QuietWorkers
<1>5. UNCHANGED chan => ChanOK'
  BY <1>3, QuietQueues
<1>6. sqs' = sqs => DeletedIsIndexed'
  BY <1>1, <1>3, DeletedStays
<1>7. UNCHANGED <<chan, pend, queue>> => CopiedStay
  BY <1>3, StillCopied
<1>8. \A r \in Rows : r \in ignored' => Copied(r)'
  BY DEF Copied, Settled
<1>9. ASSUME NEW m \in Messages, Pop(m)
      PROVE  DeletedIsIndexed' /\ ChanOK' /\ CopyOK'
  <2>1. DeletedIsIndexed'
    <3>1. \A n \in Messages : sqs'[n] = "deleted" => sqs[n] = "deleted"
      BY <1>9 DEF Pop, TypeOK
    <3>2. \A n \in Messages : RowsOf(n) \subseteq Rows
      BY FileTypes
    <3>3. \A n \in Messages : sqs'[n] = "deleted" => \A r \in RowsOf(n) : Settled(r)'
      BY <3>1, <3>2, <1>3 DEF DeletedIsIndexed, SettledStay, Settled
    <3> QED
      BY <3>3 DEF DeletedIsIndexed, Settled, Indexed, RowsOf, Elements
  <2>2. ChanOK'
    BY <1>9, <1>5 DEF Pop
  <2>3. CopyOK'
    <3>1. pend' = << >> /\ cur'.key = 1 /\ cur'.row = 1 /\ cur'.msg \in Messages
      BY <1>9 DEF Pop, Start
    <3>2. Keys' \in Seq(Seq(Rows))
      BY <3>1 DEF Keys, Assumptions, DataAssumption
    <3>3. \A k \in DOMAIN Keys' : \A i \in DOMAIN Keys'[k] : ~Before(k, i)'
      BY <3>1, <3>2 DEF Before
    <3> QED
      BY <3>1, <3>3 DEF CopyOK, AllCopied
  <2> QED
    BY <2>1, <2>2, <2>3
<1>10. CASE PopNothing
  BY <1>10, <1>5, <1>6, <1>4 DEF PopNothing, CopyOK
<1>11. CASE Discard
  <2>1. DeletedIsIndexed'
    <3>1. \A r \in RowsOf(cur.msg) : Settled(r)'
      BY <1>11 DEF Discard, Settled
    <3> QED
      BY <1>1, <1>3, <1>11, <3>1, DeletedStays DEF Discard
  <2> QED
    BY <1>11, <1>5, <2>1, <1>4 DEF Discard, CopyOK
<1>12. CASE CopyGarbled
  <2>1. UNCHANGED <<sqs, chan, pend, queue, pc, done_copy>> /\ cur.key <= Len(Keys) /\ NextKey
        /\ Rest \subseteq ignored' /\ pc = "copy"
    BY <1>12 DEF CopyGarbled, AtRow
  <2>2. CopyOK'
    BY <2>1, <1>1, <1>7, <1>8, NextKeyStep DEF CopyOK
  <2> QED
    BY <2>1, <2>2, <1>5, <1>6, <1>4
<1>13. CASE CopyUndated
  <2> DEFINE row == File[cur.row]
  <2>1. AtRow /\ queue = "none" /\ pend' = Append(pend, row) /\ row \in Rows
        /\ UNCHANGED <<chan, pc, queue>>
    BY <1>1, <1>13 DEF CopyUndated
  <2>2. CASE Len(pend) < MaxPending
    <3>1. NextRow /\ UNCHANGED <<sqs, done_copy>>
      BY <1>13, <2>2 DEF CopyUndated
    <3>2. pend \in Seq(Rows) /\ queue' \notin Indexes
      BY <2>1, <1>1 DEF TypeOK
    <3>3. Elements(pend) \subseteq Elements(pend') /\ row \in Elements(pend')
      <4>1. /\ Len(pend) \in Nat /\ Len(pend') = Len(pend) + 1
            /\ DOMAIN pend' = 1 .. Len(pend) + 1 /\ DOMAIN pend = 1 .. Len(pend)
            /\ \A i \in DOMAIN pend : pend'[i] = pend[i]
            /\ pend'[Len(pend) + 1] = row
        BY <2>1, <3>2
      <4> QED
        BY <4>1 DEF Elements
    <3>4. CopiedStay
      BY <2>1, <3>3, <1>3, StillCopied
    <3> HIDE DEF row
    <3>5. \A r \in Rows : r = row => Copied(r)'
      BY <3>3 DEF Copied
    <3>6. CopyOK'
      <4>1. CASE pc = "copy" /\ done_copy
        <5>1. PICK r \in Rows : r = row /\ Copied(r)'
          BY <2>1, <3>5
        <5>2. AllCopied'
          BY <2>1, <3>1, <3>4, <4>1, <5>1, NextRowStep DEF CopyOK, row
        <5> QED
          BY <3>2, <5>2 DEF CopyOK
      <4>2. CASE ~(pc = "copy" /\ done_copy)
        BY <2>1, <3>1, <4>2 DEF CopyOK
      <4> QED
        BY <4>1, <4>2
    <3> QED
      BY <2>1, <3>1, <3>6, <1>5, <1>6, <1>4
  <2>3. CASE ~(Len(pend) < MaxPending)
    <3>1. ~done_copy'
      BY <1>13, <2>3 DEF CopyUndated, GiveUpKey
    <3>2. DeletedIsIndexed'
      <4>1. CASE done_copy
        <5>1. /\ \A r \in RowsOf(cur.msg) : Settled(r)'
              /\ UNCHANGED sqs \/ DeleteMessage(cur.msg)
          BY <1>13, <2>3, <4>1 DEF CopyUndated, Settled
        <5> QED
          BY <1>1, <1>3, <5>1, DeletedStays
      <4>2. CASE ~done_copy
        BY <1>13, <2>3, <4>2, <1>6 DEF CopyUndated
      <4> QED
        BY <4>1, <4>2
    <3> QED
      BY <2>1, <3>1, <3>2, <1>5, <1>4 DEF CopyOK
  <2> QED
    BY <2>2, <2>3
<1>14. CASE CopyTooOld
  <2>1. /\ UNCHANGED <<sqs, chan, pend, pc, done_copy>> /\ cur.key <= Len(Keys) /\ NextKey
        /\ Rest \subseteq ignored' /\ queue = "none" /\ queue' = "old" /\ pc = "copy"
    BY <1>14 DEF CopyTooOld, AtRow
  <2>2. CopiedStay
    BY <2>1, <1>1, <1>3 DEF CopiedStay, Copied, Queued, SettledStay
  <2>3. CopyOK'
    BY <2>1, <2>2, <1>1, <1>8, NextKeyStep DEF CopyOK
  <2> QED
    BY <2>1, <2>3, <1>5, <1>6, <1>4
<1>15. CASE CopyAfterTooOld
  BY <1>15, <1>5, <1>6, <1>4 DEF CopyAfterTooOld, GiveUpKey, CopyOK
<1>16. CASE FindQueue
  <2>1. PICK x \in Indexes : queue' = x /\ Enqueue(x, pend)
    BY <1>16 DEF FindQueue
  <2>2. pend \in Seq(Rows) /\ pend \in Seq(Rows \cup Messages)
        /\ \A i \in DOMAIN pend : pend[i] \notin Messages
    BY DEF TypeOK, Assumptions, DataAssumption
  <2>3. /\ ChanOK' /\ Elements(pend) \subseteq Elements(chan'[x])
        /\ \A y \in Indexes : Elements(chan[y]) \subseteq Elements(chan'[y])
    BY <2>1, <2>2, <1>3, EnqueueStep
  <2>4. /\ UNCHANGED <<sqs, pc, cur, done_copy>> /\ pend' = << >> /\ queue = "none"
    BY <1>16 DEF FindQueue
  <2>5. CopiedStay
    BY <2>1, <2>3, <2>4, <1>1, <1>3 DEF CopiedStay, Copied, Queued, SettledStay
  <2>6. CopyOK'
    <3>1. \A k \in DOMAIN Keys : \A i \in DOMAIN Keys[k] : Keys[k][i] \in Rows
      BY FileTypes
    <3>2. AllCopied => AllCopied'
      BY <2>4, <2>5, <3>1 DEF AllCopied, CopiedStay, Before, Keys, Copied, Queued, Settled, Sent,
                            Indexed
    <3> QED
      BY <2>4, <3>2 DEF CopyOK
  <2> QED
    BY <2>3, <2>4, <2>6, <1>6, <1>4
<1>17. CASE CopyRow
  <2> DEFINE row == File[cur.row]
  <2>1. /\ AtRow /\ queue \in Indexes /\ Enqueue(queue, <<row>>) /\ NextRow /\ row \in Rows
        /\ UNCHANGED <<sqs, pc, queue, pend, done_copy>>
    BY <1>1, <1>17 DEF CopyRow
  <2> HIDE DEF row
  <2>2. <<row>> \in Seq(Rows \cup Messages) /\ \A i \in DOMAIN <<row>> : <<row>>[i] \notin Messages
    BY <2>1 DEF Assumptions, DataAssumption
  <2>3. /\ ChanOK' /\ Elements(<<row>>) \subseteq Elements(chan'[queue])
        /\ \A y \in Indexes : Elements(chan[y]) \subseteq Elements(chan'[y])
    BY <2>1, <2>2, <1>3, EnqueueStep
  <2>4. CopiedStay
    BY <2>1, <2>3, <1>3, StillCopied
  <2>5. \A r \in Rows : r = row => Copied(r)'
    <3>1. row \in Elements(<<row>>)
      BY DEF Elements
    <3> QED
      BY <2>1, <2>3, <3>1 DEF Copied, Queued
  <2>6. CopyOK'
    <3>1. PICK r \in Rows : r = row /\ Copied(r)'
      BY <2>1, <2>5
    <3> QED
      BY <2>1, <2>4, <3>1, NextRowStep DEF CopyOK, row, AtRow
  <2> QED
    BY <2>1, <2>3, <2>6, <1>6, <1>4
<1>18. CASE EndOfFile
  <2>1. /\ UNCHANGED <<sqs, chan, pend, queue, pc, done_copy>> /\ cur.key <= Len(Keys) /\ NextKey
        /\ pc = "copy" /\ cur.row > Len(File)
    BY <1>18 DEF EndOfFile
  <2>2. Rest = {}
    BY <2>1, FileTypes DEF Rest
  <2>3. CopyOK'
    BY <2>1, <2>2, <1>7, NextKeyStep DEF CopyOK
  <2> QED
    BY <2>1, <2>3, <1>5, <1>6, <1>4
<1>19. CASE Finish
  <2>1. CopyOK' /\ AtEnd
    BY <1>19 DEF Finish, CopyOK
  <2>2. CASE done_copy /\ queue \in Indexes /\ Enqueue(queue, <<cur.msg>>) /\ UNCHANGED sqs
    <3> DEFINE m == cur.msg
    <3>1. <<m>> \in Seq(Rows \cup Messages) /\ DOMAIN <<m>> = {1} /\ <<m>>[1] = m
      BY <1>1
    <3>2. pend = << >>
      BY <2>1, <2>2 DEF CopyOK, AtEnd
    <3>3. \A r \in RowsOf(m) : Sent(r, queue) \/ r \in Elements(chan[queue])
      BY <2>1, <2>2, <3>2, EndCopied DEF Copied, Queued, Sent, Elements
    <3> HIDE DEF m
    <3>4. ChanOK'
      BY <2>2, <3>1, <3>3, <1>3, EnqueueStep DEF m
    <3> QED
      BY <2>1, <2>2, <3>4, <1>6, <1>4
  <2>3. CASE /\ done_copy /\ queue \notin Indexes /\ DeleteMessage(cur.msg) /\ UNCHANGED chan
             /\ ignored' = ignored \cup Elements(pend)
    <3>1. \A r \in RowsOf(cur.msg) : Settled(r) \/ r \in Elements(pend)
      BY <2>1, <2>3, EndCopied DEF Copied, Queued
    <3>2. \A r \in RowsOf(cur.msg) : Settled(r)'
      BY <2>3, <3>1, <1>1, <1>3 DEF SettledStay, Settled
    <3>3. DeletedIsIndexed'
      BY <2>3, <3>2, <1>1, <1>3, DeletedStays
    <3> QED
      BY <2>1, <2>3, <3>3, <1>5, <1>4
  <2>4. CASE UNCHANGED <<sqs, chan, ignored>>
    BY <2>1, <2>4, <1>5, <1>6, <1>4
  <2> QED
    BY <1>19, <2>2, <2>3, <2>4 DEF Finish
<1>20. CASE CopyFails
  BY <1>20, <1>5, <1>6, <1>4 DEF CopyFails, GiveUpKey, CopyOK
<1>21. CASE FinishFails
  BY <1>21, <1>5, <1>6, <1>4 DEF FinishFails, CopyOK
<1> QED
  BY <1>4, <1>9, <1>10, <1>11, <1>12, <1>13, <1>14, <1>15, <1>16, <1>17, <1>18, <1>19, <1>20,
     <1>21 DEF Split

(* A failed or refused push keeps the rows, or has settled them (queues.py *)
(* 343-390, elasticsearch.py 540-600).                                     *)
Pushed(x) ==
  /\ SettledStay /\ SentStay
  /\ UNCHANGED <<sqs, chan, acks>>
  /\ PushedOK'

LEMMA ResumePushed ==
  ASSUME TypeOK, PushedOK, NEW x \in Indexes, Sending(x), Resume(x),
         \A y \in Indexes \ {x} : buffer'[y] = buffer[y]
  PROVE  PushedOK'
BY DEF TypeOK, PushedOK, Sending, Resume, Goto

LEMMA BufferStay ==
  ASSUME TypeOK, SettledStay, NEW x \in Indexes,
         \A y \in Indexes \ {x} : buffer'[y] = buffer[y],
         buffer'[x] = buffer[x] \/ \A r \in Elements(buffer[x]) : Settled(r)'
  PROVE  SentStay
BY DEF SettledStay, SentStay, Sent, Settled, Indexed

LEMMA KeptPush ==
  ASSUME TypeOK, NEW x \in Indexes, NEW n, Keep(x, n),
         \/ UNCHANGED <<own, copies>>
         \/ \E S \in SUBSET DOMAIN buffer[x] : Index(x, S),
         UNCHANGED ignored
  PROVE  SettledStay /\ SentStay
<1>1. own \subseteq own' /\ \A r \in Rows : copies[r] > 0 => copies'[r] > 0
  BY IndexAdds
<1>2. SettledStay
  BY <1>1, Stay DEF Keep
<1> QED
  BY <1>2, BufferStay DEF Keep

LEMMA PushSteps ==
  ASSUME TypeOK, PushedOK, NEW x \in Indexes,
         Push(x) \/ PushRefused(x) \/ PushBroken(x) \/ PushFails(x)
  PROVE  Pushed(x)
<1> USE DEF queueVars, copyVars
<1>1. buffer[x] \in Seq(Rows) /\ DOMAIN buffer[x] = 1 .. Len(buffer[x])
      /\ \A v : Taken(x, v) \subseteq DOMAIN buffer[x]
  BY DEF TypeOK, Taken
<1>2. CASE Push(x)
  <2>1. /\ Index(x, DOMAIN buffer[x]) /\ UNCHANGED <<sqs, chan, acks, dropped, ignored>>
        /\ buffer' = [buffer EXCEPT ![x] = << >>]
    BY <1>2 DEF Push
  <2>2. /\ own \subseteq own' /\ \A r \in Rows : copies[r] > 0 => copies'[r] > 0
        /\ \A i \in DOMAIN buffer[x] : copies'[buffer[x][i]] > 0 \/ <<buffer[x][i], x>> \in own'
    BY <2>1, IndexAdds
  <2>3. SettledStay
    BY <2>1, <2>2, Stay
  <2>4. \A r \in Elements(buffer[x]) : Settled(r)'
    BY <2>2 DEF Elements, Settled, Indexed
  <2>5. SentStay
    BY <2>1, <2>3, <2>4, BufferStay DEF TypeOK
  <2>6. PushedOK'
    BY <1>2, <2>1 DEF Push, Goto, PushedOK, TypeOK
  <2> QED
    BY <2>1, <2>3, <2>5, <2>6 DEF Pushed
<1>3. CASE PushRefused(x)
  <2>1. PICK T \in SUBSET Taken(x, "ok") :
          LET F == T \cup Taken(x, "hopeless")
          IN  /\ Index(x, DOMAIN buffer[x] \ F)
              /\ Keep(x, Len(buffer[x])) \/ Drop(x, F)
    BY <1>3 DEF PushRefused
  <2> DEFINE F == T \cup Taken(x, "hopeless")
             S == DOMAIN buffer[x] \ F
  <2>2. F \in SUBSET DOMAIN buffer[x] /\ S \in SUBSET DOMAIN buffer[x]
    BY <1>1
  <2>3. UNCHANGED <<sqs, chan, acks, ignored>> /\ Sending(x) /\ Resume(x)
    BY <1>3 DEF PushRefused
  <2>4. SettledStay /\ SentStay /\ \A y \in Indexes \ {x} : buffer'[y] = buffer[y]
    <3>1. CASE Keep(x, Len(buffer[x]))
      BY <2>1, <2>2, <2>3, <3>1, KeptPush DEF Keep
    <3>2. CASE Drop(x, F)
      <4>1. /\ dropped' = dropped \cup {buffer[x][i] : i \in F}
            /\ buffer' = [buffer EXCEPT ![x] = << >>]
        BY <3>2 DEF Drop
      <4>2. /\ own \subseteq own' /\ \A r \in Rows : copies[r] > 0 => copies'[r] > 0
            /\ \A i \in S : copies'[buffer[x][i]] > 0 \/ <<buffer[x][i], x>> \in own'
        <5>1. Index(x, S)
          BY <2>1
        <5> HIDE DEF S
        <5> QED
          BY <5>1, <2>2, IndexAdds
      <4>3. SettledStay
        BY <2>3, <4>1, <4>2, Stay
      <4>4. ASSUME NEW i \in DOMAIN buffer[x], NEW r \in Rows, r = buffer[x][i]
            PROVE  Settled(r)'
        <5>1. CASE i \in F
          BY <4>1, <4>4, <5>1 DEF Settled
        <5>2. CASE i \in S
          BY <4>2, <4>4, <5>2 DEF Settled, Indexed
        <5> QED
          BY <5>1, <5>2
      <4>5. \A r \in Elements(buffer[x]) : Settled(r)'
        BY <1>1, <4>4 DEF Elements
      <4>6. \A y \in Indexes \ {x} : buffer'[y] = buffer[y]
        BY <4>1 DEF TypeOK
      <4> QED
        BY <4>3, <4>5, <4>6, BufferStay
    <3> QED
      BY <2>1, <3>1, <3>2
  <2>5. PushedOK'
    BY <2>3, <2>4, ResumePushed
  <2> QED
    BY <2>3, <2>4, <2>5 DEF Pushed
<1>4. CASE PushBroken(x)
  <2>1. PICK n \in Taken(x, "broken") : Keep(x, n)
    BY <1>4 DEF PushBroken
  <2>2. UNCHANGED <<sqs, chan, acks, ignored, own, copies>> /\ Sending(x) /\ Resume(x)
    BY <1>4 DEF PushBroken
  <2>3. SettledStay /\ SentStay
    BY <2>1, <2>2, KeptPush
  <2>4. PushedOK'
    BY <2>1, <2>2, ResumePushed DEF Keep
  <2> QED
    BY <2>2, <2>3, <2>4 DEF Pushed
<1>5. CASE PushFails(x)
  <2>1. /\ UNCHANGED <<sqs, chan, acks, ignored>> /\ Sending(x) /\ Resume(x)
        /\ Keep(x, Len(buffer[x]))
        /\ \E S \in SUBSET DOMAIN buffer[x] : Index(x, S)
    BY <1>1, <1>5 DEF PushFails
  <2>2. SettledStay /\ SentStay
    BY <2>1, KeptPush
  <2>3. PushedOK'
    BY <2>1, ResumePushed DEF Keep
  <2> QED
    BY <2>1, <2>2, <2>3 DEF Pushed
<1> QED
  BY <1>2, <1>3, <1>4, <1>5

(* copy() keeps its account while a worker goes on.                        *)
LEMMA WorkerCopyOK ==
  ASSUME Assumptions, TypeOK, CopyOK, SettledStay, SentStay, UNCHANGED copyVars,
         \A r \in Rows : \A y \in Indexes :
           r \in Elements(chan[y]) => r \in Elements(chan'[y]) \/ Sent(r, y)'
  PROVE  CopyOK'
<1> USE DEF copyVars
<1>1. CopiedStay
  BY DEF CopiedStay, Copied, Queued, SettledStay, SentStay
<1>2. \A k \in DOMAIN Keys : \A i \in DOMAIN Keys[k] : Keys[k][i] \in Rows
  BY FileTypes
<1>3. AllCopied => AllCopied'
  BY <1>1, <1>2 DEF AllCopied, CopiedStay, Before, Keys, Copied, Queued, Settled, Sent, Indexed
<1> QED
  BY <1>3 DEF CopyOK

LEMMA WorkerQuiet ==
  ASSUME Assumptions, IInv, SettledStay, SentStay, UNCHANGED <<copyVars, sqs, chan, acks>>, PushedOK'
  PROVE  DeletedIsIndexed' /\ ChanOK' /\ AcksOK' /\ PushedOK' /\ CopyOK'
<1> USE DEF IInv
<1>1. DeletedIsIndexed'
  <2>1. cur.msg \in Messages
    BY FileTypes
  <2> QED
    BY <2>1, DeletedStays
<1>2. ChanOK'
  BY QuietQueues
<1>3. CopyOK'
  BY WorkerCopyOK
<1>4. ASSUME NEW x \in Indexes, NEW m \in acks[x], NEW r \in RowsOf(m)
      PROVE  Sent(r, x)'
  <2>1. m \in Messages
    BY DEF TypeOK
  <2>2. r \in Rows
    BY <2>1, FileTypes
  <2> QED
    BY <2>2 DEF AcksOK, SentStay
<1>5. AcksOK'
  BY <1>4 DEF AcksOK, RowsOf, Elements
<1> QED
  BY <1>1, <1>2, <1>3, <1>5

(* What a worker takes goes to its buffer, a deletion to those it has to   *)
(* do: the rows of the message were in front of it (queues.py 300-340).    *)
LEMMA TakeStep ==
  ASSUME Assumptions, IInv, NEW x \in Indexes, Take(x)
  PROVE  DeletedIsIndexed' /\ ChanOK' /\ AcksOK' /\ PushedOK' /\ CopyOK'
<1> USE DEF IInv
<1> DEFINE s == chan[x]
           item == Head(s)
<1>1. s \in Seq(Rows \cup Messages) /\ s # << >> /\ at[x] = "pop"
  BY DEF Take, TypeOK
<1>2. /\ Len(s) \in Nat \ {0} /\ item = s[1] /\ 1 \in DOMAIN s
      /\ DOMAIN s = 1 .. Len(s) /\ DOMAIN Tail(s) = 1 .. Len(s) - 1
      /\ \A i \in DOMAIN Tail(s) : i + 1 \in DOMAIN s /\ Tail(s)[i] = s[i + 1]
      /\ \A i \in DOMAIN s \ {1} : i - 1 \in DOMAIN Tail(s) /\ Tail(s)[i - 1] = s[i]
  BY <1>1
<1>3. chan'[x] = Tail(s) /\ \A y \in Indexes \ {x} : chan'[y] = chan[y]
  BY DEF Take, TypeOK
<1>4. /\ UNCHANGED <<sqs, copyVars, own, copies, dropped, ignored>>
      /\ IF item \in Messages
         THEN acks' = [acks EXCEPT ![x] = @ \cup {item}] /\ UNCHANGED buffer
         ELSE buffer' = [buffer EXCEPT ![x] = Append(@, item)] /\ UNCHANGED acks
      /\ UNCHANGED at \/ Goto(x, "push")
  BY DEF Take, queueVars, esVars
<1>5. \A y \in Indexes : Elements(buffer[y]) \subseteq Elements(buffer'[y])
  <2>1. CASE item \in Messages
    BY <1>4, <2>1
  <2>2. CASE item \notin Messages
    <3>1. buffer[x] \in Seq(Rows) /\ buffer'[x] = Append(buffer[x], item)
          /\ \A y \in Indexes \ {x} : buffer'[y] = buffer[y]
      BY <1>4, <2>2 DEF TypeOK
    <3>2. \A i \in DOMAIN buffer[x] : i \in DOMAIN buffer'[x] /\ buffer'[x][i] = buffer[x][i]
      BY <3>1
    <3> QED
      BY <3>1, <3>2 DEF Elements
  <2> QED
    BY <2>1, <2>2
<1>6. item \notin Messages => item \in Elements(buffer'[x])
  <2>1. SUFFICES ASSUME item \notin Messages PROVE item \in Elements(buffer'[x])
    OBVIOUS
  <2>2. buffer[x] \in Seq(Rows) /\ buffer'[x] = Append(buffer[x], item)
    BY <1>4, <2>1 DEF TypeOK
  <2>3. Len(buffer[x]) + 1 \in DOMAIN buffer'[x] /\ buffer'[x][Len(buffer[x]) + 1] = item
    BY <2>2
  <2> QED
    BY <2>3 DEF Elements
<1>7. SettledStay
  BY <1>4, QuietDocuments
<1>8. SentStay
  BY <1>5, <1>7 DEF SentStay, Sent, SettledStay
<1>9. DeletedIsIndexed'
  <2>1. cur.msg \in Messages
    BY FileTypes
  <2> QED
    BY <2>1, <1>4, <1>7, DeletedStays
<1>10. ASSUME NEW y \in Indexes, NEW i \in DOMAIN chan'[y], chan'[y][i] \in Messages,
              NEW r \in RowsOf(chan'[y][i])
       PROVE  Sent(r, y)' \/ \E j \in DOMAIN chan'[y] : j < i /\ chan'[y][j] = r
  <2>1. r \in Rows
    BY <1>10, FileTypes
  <2>2. CASE y # x
    BY <1>3, <1>8, <1>10, <2>1, <2>2 DEF ChanOK, SentStay
  <2>3. CASE y = x
    <3>1. i + 1 \in DOMAIN s /\ s[i + 1] = chan'[x][i] /\ i \in Nat
      <4>1. i \in DOMAIN Tail(s) /\ chan'[x] = Tail(s)
        BY <1>3, <1>10, <2>3
      <4>2. i \in 1 .. Len(s) - 1
        BY <4>1, <1>2
      <4>3. i \in Nat
        BY <4>2, <1>2
      <4> QED
        BY <4>1, <4>3, <1>2
    <3>2. Sent(r, x) \/ \E j \in DOMAIN s : j < i + 1 /\ s[j] = r
      BY <1>10, <2>3, <3>1 DEF ChanOK
    <3>3. ASSUME NEW j \in DOMAIN s, j < i + 1, s[j] = r
          PROVE  Sent(r, x)' \/ \E k \in DOMAIN chan'[x] : k < i /\ chan'[x][k] = r
      <4>1. CASE j = 1
        <5>1. r = item /\ item \notin Messages
          BY <1>2, <2>1, <3>3, <4>1 DEF Assumptions, DataAssumption
        <5> QED
          BY <5>1, <1>6 DEF Sent
      <4>2. CASE j # 1
        <5>1. j - 1 \in DOMAIN chan'[x] /\ chan'[x][j - 1] = r /\ j - 1 < i
          BY <1>2, <1>3, <3>1, <3>3, <4>2
        <5> QED
          BY <5>1
      <4> QED
        BY <4>1, <4>2
    <3> QED
      BY <2>1, <2>3, <3>2, <3>3, <1>8 DEF SentStay
  <2> QED
    BY <2>2, <2>3
<1>11. ChanOK'
  BY <1>10 DEF ChanOK, RowsOf, Elements
<1>12. ASSUME NEW y \in Indexes, NEW m \in acks'[y], NEW r \in RowsOf(m)
       PROVE  Sent(r, y)'
  <2>1. m \in acks[y] \/ (y = x /\ m = item /\ item \in Messages)
    BY <1>4, <1>12 DEF TypeOK
  <2>2. m \in Messages
    BY <2>1 DEF TypeOK
  <2>3. r \in Rows
    BY <2>2, <1>12, FileTypes
  <2>4. CASE m \in acks[y]
    BY <1>8, <1>12, <2>3, <2>4 DEF AcksOK, SentStay
  <2>5. CASE y = x /\ m = item /\ item \in Messages
    <3>1. Sent(r, x) \/ \E j \in DOMAIN s : j < 1 /\ s[j] = r
      BY <1>2, <1>12, <2>5 DEF ChanOK
    <3>2. Sent(r, x)
      BY <1>2, <3>1
    <3> QED
      BY <1>8, <2>3, <2>5, <3>2 DEF SentStay
  <2> QED
    BY <2>1, <2>4, <2>5
<1>13. AcksOK'
  BY <1>12 DEF AcksOK, RowsOf, Elements
<1>14. PushedOK'
  <2>1. \A y \in Indexes \ {x} : at'[y] = at[y] /\ buffer'[y] = buffer[y]
    BY <1>4 DEF Goto, TypeOK
  <2>2. at'[x] \in {"pop", "push"}
    BY <1>1, <1>4 DEF Goto, TypeOK
  <2> QED
    BY <2>1, <2>2 DEF PushedOK
<1>15. CopyOK'
  <2>1. ASSUME NEW r \in Rows, NEW y \in Indexes, r \in Elements(chan[y])
        PROVE  r \in Elements(chan'[y]) \/ Sent(r, y)'
    <3>1. CASE y # x
      BY <1>3, <2>1, <3>1
    <3>2. CASE y = x
      <4>1. PICK j \in DOMAIN s : s[j] = r
        BY <2>1, <3>2 DEF Elements
      <4>2. CASE j = 1
        <5>1. r = item /\ item \notin Messages
          BY <1>2, <4>1, <4>2 DEF Assumptions, DataAssumption
        <5> QED
          BY <3>2, <5>1, <1>6 DEF Sent
      <4>3. CASE j # 1
        <5>1. j - 1 \in DOMAIN chan'[x] /\ chan'[x][j - 1] = r
          BY <1>2, <1>3, <4>1, <4>3
        <5> QED
          BY <3>2, <5>1 DEF Elements
      <4> QED
        BY <4>2, <4>3
    <3> QED
      BY <3>1, <3>2
  <2> QED
    BY <2>1, <1>4, <1>7, <1>8, WorkerCopyOK
<1> QED
  BY <1>9, <1>11, <1>13, <1>14, <1>15

(* A message is deleted after the push of all that came before it          *)
(* (queues.py 355-365, the _post_push_functions).                          *)
LEMMA AckSteps ==
  ASSUME Assumptions, IInv, NEW x \in Indexes, Ack(x)
  PROVE  DeletedIsIndexed' /\ ChanOK' /\ AcksOK' /\ PushedOK' /\ CopyOK'
<1> USE DEF IInv
<1>1. UNCHANGED <<copyVars, chan, buffer, own, copies, dropped, ignored>>
      /\ at[x] \in {"ack", "lastack"}
  BY DEF Ack, esVars
<1>2. SettledStay /\ SentStay
  BY <1>1, QuietDocuments
<1>3. CASE UNCHANGED <<sqs, acks>> /\ Goto(x, IF at[x] = "ack" THEN "pop" ELSE "end")
  <2>1. PushedOK'
    BY <1>1, <1>3 DEF Goto, PushedOK, TypeOK
  <2> QED
    BY <1>1, <1>2, <1>3, <2>1, WorkerQuiet
<1>4. ASSUME NEW m \in acks[x], DeleteMessage(m), acks' = [acks EXCEPT ![x] = @ \ {m}],
             UNCHANGED at
      PROVE  DeletedIsIndexed' /\ ChanOK' /\ AcksOK' /\ PushedOK' /\ CopyOK'
  <2>1. m \in Messages /\ RowsOf(m) \subseteq Rows
    <3>1. m \in Messages
      BY DEF TypeOK
    <3> QED
      BY <3>1, FileTypes
  <2>2. buffer[x] = << >>
    BY <1>1 DEF PushedOK
  <2>3. \A r \in RowsOf(m) : Settled(r)
    BY <2>2 DEF AcksOK, Sent, Elements
  <2>4. \A r \in RowsOf(m) : Settled(r)'
    BY <2>1, <2>3, <1>2 DEF SettledStay
  <2>5. DeletedIsIndexed'
    BY <2>1, <2>4, <1>2, <1>4, DeletedStays
  <2>6. ChanOK'
    BY <1>1, <1>2, QuietQueues
  <2>7. AcksOK'
    <3>1. \A y \in Indexes : acks'[y] \subseteq acks[y] /\ acks[y] \subseteq Messages
      BY <1>4 DEF TypeOK
    <3>2. \A n \in Messages : RowsOf(n) \subseteq Rows
      BY FileTypes
    <3>3. \A y \in Indexes : \A n \in acks'[y] : \A r \in RowsOf(n) : Sent(r, y)'
      BY <3>1, <3>2, <1>2 DEF AcksOK, SentStay
    <3> QED
      BY <3>3 DEF AcksOK, RowsOf, Elements
  <2>8. PushedOK'
    BY <1>1, <1>4 DEF PushedOK
  <2>9. CopyOK'
    BY <1>1, <1>2, WorkerCopyOK
  <2> QED
    BY <2>5, <2>6, <2>7, <2>8, <2>9
<1> QED
  BY <1>3, <1>4 DEF Ack

LEMMA WorkSteps ==
  ASSUME Assumptions, IInv, NEW x \in Indexes, Work(x) \/ PushFails(x) \/ AckFails(x)
  PROVE  DeletedIsIndexed' /\ ChanOK' /\ AcksOK' /\ PushedOK' /\ CopyOK'
<1> USE DEF queueVars, esVars
<1>1. CASE Push(x) \/ PushRefused(x) \/ PushBroken(x) \/ PushFails(x)
  <2>1. Pushed(x)
    BY <1>1, PushSteps DEF IInv
  <2>2. UNCHANGED copyVars
    BY <1>1 DEF Push, PushRefused, PushBroken, PushFails
  <2> QED
    BY <2>1, <2>2, WorkerQuiet DEF Pushed
<1>2. CASE TimeIsUp(x) \/ Leave(x) \/ AckFails(x)
  <2>1. UNCHANGED <<copyVars, sqs, chan, acks, buffer, own, copies, dropped, ignored>>
    BY <1>2 DEF TimeIsUp, Leave, AckFails
  <2>2. SettledStay /\ SentStay
    BY <2>1, QuietDocuments
  <2>3. \E p \in {"push", "last", "end", "final", "pop"} : Goto(x, p)
    BY <1>2 DEF TimeIsUp, Leave, AckFails
  <2>4. PushedOK'
    BY <2>1, <2>3 DEF Goto, PushedOK, IInv, TypeOK
  <2> QED
    BY <2>1, <2>2, <2>4, WorkerQuiet
<1> QED
  BY <1>1, <1>2, TakeStep, AckSteps DEF Work

(* SQS gives a message out again; a new process starts with nothing that   *)
(* could be overtaken.                                                     *)
LEMMA WorldSteps ==
  ASSUME Assumptions, IInv, Stop \/ Crash \/ Restart \/ \E m \in Messages : Expire(m)
  PROVE  DeletedIsIndexed' /\ ChanOK' /\ AcksOK' /\ PushedOK' /\ CopyOK'
<1> USE DEF IInv, queueVars, esVars, workerVars
<1>1. UNCHANGED <<own, copies, dropped, ignored>>
  BY DEF Stop, Crash, Restart, NewProcess, Expire
<1>2. SettledStay
  BY <1>1, QuietDocuments
<1>3. CASE Stop
  <2>1. UNCHANGED <<copyVars, sqs, chan, acks, buffer, at>>
    BY <1>3 DEF Stop
  <2>2. SentStay /\ PushedOK'
    BY <1>1, <2>1, QuietDocuments DEF PushedOK
  <2> QED
    BY <1>2, <2>1, <2>2, WorkerQuiet
<1>4. CASE Crash \/ Restart
  <2>1. NewProcess
    BY <1>4 DEF Crash, Restart
  <2>2. UNCHANGED sqs /\ cur.msg \in Messages
    BY <2>1, FileTypes DEF NewProcess
  <2>3. DeletedIsIndexed'
    BY <1>2, <2>2, DeletedStays
  <2>4. ChanOK' /\ AcksOK' /\ PushedOK'
    BY <2>1 DEF NewProcess, ChanOK, AcksOK, PushedOK
  <2>5. CopyOK'
    <3>1. pend' = << >> /\ cur'.key = 1 /\ cur'.row = 1 /\ cur'.msg \in Messages
      BY <2>1 DEF NewProcess, Assumptions, DataAssumption
    <3>2. Keys' \in Seq(Seq(Rows))
      BY <3>1 DEF Keys, Assumptions, DataAssumption
    <3>3. \A k \in DOMAIN Keys' : \A i \in DOMAIN Keys'[k] : ~Before(k, i)'
      BY <3>1, <3>2 DEF Before
    <3> QED
      BY <3>1, <3>3 DEF CopyOK, AllCopied
  <2> QED
    BY <2>3, <2>4, <2>5
<1>5. ASSUME NEW m \in Messages, Expire(m)
      PROVE  DeletedIsIndexed' /\ ChanOK' /\ AcksOK' /\ PushedOK' /\ CopyOK'
  <2>1. UNCHANGED <<copyVars, chan, acks, buffer, at>>
    BY <1>5 DEF Expire
  <2>2. SentStay
    BY <1>1, <2>1, QuietDocuments
  <2>3. DeletedIsIndexed'
    <3>1. \A n \in Messages : sqs'[n] = "deleted" => sqs[n] = "deleted"
      BY <1>5 DEF Expire, TypeOK
    <3>2. \A n \in Messages : RowsOf(n) \subseteq Rows
      BY FileTypes
    <3>3. \A n \in Messages : sqs'[n] = "deleted" => \A r \in RowsOf(n) : Settled(r)'
      BY <3>1, <3>2, <1>2 DEF DeletedIsIndexed, SettledStay, Settled
    <3> QED
      BY <3>3 DEF DeletedIsIndexed, Settled, Indexed, RowsOf, Elements
  <2>4. AcksOK' /\ PushedOK'
    BY <2>1, <2>2, QuietWorkers
  <2>5. ChanOK'
    BY <2>1, <2>2, QuietQueues
  <2>6. CopyOK'
    BY <1>2, <2>1, <2>2, WorkerCopyOK
  <2> QED
    BY <2>3, <2>4, <2>5, <2>6
<1> QED
  BY <1>3, <1>4, <1>5

LEMMA NextPush == ASSUME Assumptions, IInv, [Next]_vars PROVE IInv'
<1>1. TypeOK'
  BY NextTypes DEF IInv
<1>2. CASE UNCHANGED vars
  BY <1>1, <1>2 DEF IInv, vars, queueVars, copyVars, workerVars, esVars, DeletedIsIndexed,
       ChanOK, AcksOK, PushedOK, CopyOK, AllCopied, Copied, Queued, Settled, Sent, Indexed,
       Before, Keys
<1>3. CASE Next
  BY <1>1, <1>3, CopySteps, WorkSteps, WorldSteps DEF IInv, Next, Fails
<1> QED
  BY <1>2, <1>3

(* The inductive invariant: rows on their way are never overtaken by the   *)
(* deletion of their message, from copy() to the last deletion.            *)
THEOREM PushInvariant == Spec => []IInv
<1>1. Assumptions
  BY DataAssumption, LimitAssumption DEF Assumptions
<1> QED
  BY <1>1, InitPush, NextPush, PTL DEF Spec

(* A message is only deleted from SQS when each of its rows is in          *)
(* Elasticsearch, was left out by copy() on purpose, or was given up with  *)
(* a warning: after any failed push, crash, early timeout or stop, and     *)
(* for any sizes of queue and batch (rollover_index.py 245, queues.py 355).*)
THEOREM DeletedMeansIndexed == Spec => []DeletedIsIndexed
<1>1. IInv => DeletedIsIndexed
  BY DEF IInv
<1> QED
  BY <1>1, PushInvariant, PTL

-----------------------------------------------------------------------------
(* What errors() gives up.                                                 *)

LEMMA SomePlaceIsFirst ==
  ASSUME NEW F, F \subseteq Nat, F # {}
  PROVE  \E i \in F : \A j \in F : ~(j < i)
<1>1. PICK i \in F : \A j \in F : <<j, i>> \notin OpToRel(<, Nat)
  BY NatLessThanWellFounded, WFMin
<1>2. ASSUME NEW j \in F, j < i PROVE FALSE
  <2>1. <<j, i>> \in OpToRel(<, Nat)
    BY <1>2 DEF OpToRel
  <2> QED
    BY <1>1, <2>1
<1> QED
  BY <1>2

(* Behind a good row that is given up there is a hopeless one: the first   *)
(* of the refused rows is always reported.                                 *)
LEMMA DropIsExplained ==
  ASSUME Assumptions, TypeOK, DropsAreExplained, NEW x \in Indexes, PushRefused(x)
  PROVE  DropsAreExplained'
<1>1. PICK T \in SUBSET Taken(x, "ok") :
        LET F == T \cup Taken(x, "hopeless")
        IN  /\ F # {}
            /\ IF at[x] = "final" \/ FirstReported(F) \cap T # {}
               THEN Keep(x, Len(buffer[x]))
               ELSE Drop(x, F)
  BY DEF PushRefused
<1> DEFINE F == T \cup Taken(x, "hopeless")
           Given == {buffer[x][i] : i \in F}
<1>2. CASE Keep(x, Len(buffer[x]))
  BY <1>2 DEF Keep, DropsAreExplained
<1>3. CASE Drop(x, F) /\ FirstReported(F) \cap T = {}
  <2>1. F # {} /\ F \subseteq Nat
    BY <1>1 DEF Taken, TypeOK
  <2>2. dropped' = dropped \cup Given
    BY <1>3 DEF Drop
  <2>3. T # {} => \E h \in Given : Verdict[h] = "hopeless"
    <3>1. PICK i \in F : \A j \in F : ~(j < i)
      <4> HIDE DEF F
      <4> QED
        BY <2>1, SomePlaceIsFirst
    <3>2. {j \in F : j < i} = {}
      BY <3>1
    <3>3. i \in FirstReported(F)
      <4>1. Cardinality({j \in F : j < i}) = 0
        BY <3>2, FS_EmptySet
      <4> HIDE DEF F
      <4> QED
        BY <3>1, <4>1 DEF FirstReported, Assumptions, LimitAssumption
    <3>4. i \in Taken(x, "hopeless")
      <4> HIDE DEF F
      <4>1. i \notin T
        BY <1>3, <3>3
      <4> QED
        BY <4>1, <3>1 DEF F
    <3> QED
      BY <3>4 DEF Taken
  <2>4. T = {} => \A r \in Given : Verdict[r] = "hopeless"
    BY DEF Taken
  <2>5. (\E r \in Given : Verdict[r] = "ok") => \E h \in Given : Verdict[h] = "hopeless"
    <3> HIDE DEF Given
    <3> QED
      BY <2>3, <2>4
  <2> HIDE DEF Given
  <2> QED
    BY <2>2, <2>5 DEF DropsAreExplained
<1> QED
  BY <1>1, <1>2, <1>3

(* A row Elasticsearch would take is only given up behind a hopeless one,  *)
(* however few of the refused rows are reported, and whatever else fails   *)
(* (elasticsearch.py, errors()).                                           *)
THEOREM DropsExplained == Spec => []DropsAreExplained
<1>1. Init => DropsAreExplained
  BY DEF Init, DropsAreExplained
<1>2. ASSUME Assumptions, TypeOK, DropsAreExplained, [Next]_vars
      PROVE  DropsAreExplained'
  <2>1. CASE \E x \in Indexes : PushRefused(x)
    BY <1>2, <2>1, DropIsExplained
  <2>2. CASE ~\E x \in Indexes : PushRefused(x)
    <3>1. dropped' = dropped
      <4> USE DEF esVars
      <4>1. CASE Split
        BY <4>1 DEF Split, Pop, PopNothing, Discard, CopyGarbled, CopyUndated, CopyTooOld,
                    CopyAfterTooOld, FindQueue, CopyRow, EndOfFile, Finish
      <4>2. CASE \E x \in Indexes : Work(x)
        BY <4>2, <2>2 DEF Work, Take, TimeIsUp, Leave, Push, PushBroken, Keep, Ack
      <4>3. CASE Fails
        BY <4>3 DEF Fails, CopyFails, FinishFails, PushFails, AckFails, Keep
      <4>4. CASE Stop \/ Crash \/ Restart \/ \E m \in Messages : Expire(m)
        BY <4>4 DEF Stop, Crash, Restart, NewProcess, Expire
      <4>5. CASE UNCHANGED vars
        BY <4>5 DEF vars
      <4> QED
        BY <1>2, <4>1, <4>2, <4>3, <4>4, <4>5 DEF Next
    <3> QED
      BY <1>2, <3>1 DEF DropsAreExplained
  <2> QED
    BY <2>1, <2>2
<1>3. Assumptions
  BY DataAssumption, LimitAssumption DEF Assumptions
<1> QED
  BY <1>1, <1>2, <1>3, PushTypes, PTL DEF Spec
===============================================================================
