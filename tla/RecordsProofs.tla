---------------------------- MODULE RecordsProofs ----------------------------
(***************************************************************************)
(* Theorems of the programs that make records: the transforms of           *)
(* Taskcluster messages, and of blocks.                                    *)
(***************************************************************************)
EXTENDS MCRecords, FiniteSetTheorems, FunctionTheorems, TLAPS

-----------------------------------------------------------------------------
(* TaskCluster.  What a record shows of a task is what the process saw of  *)
(* it first, a line is answered before the next one is read, and a thread  *)
(* has one source for all records of its block.                            *)

View ==
  [kind : TcKinds \cup {"unseen", "unknown"}, artifacts : ListsOfArtifacts \cup {<<>>}]

First == [task : TcTasks, reader : Readers, view : View]

TaskRecord == [read : Nat, line : Nat, task : TcTasks, view : View, source : Nat]

Resolving == {"status", "artifacts", "log", "compare", "remember"}

ReaderState ==
  [at : {"rest", "task", "write"} \cup Resolving, read : Nat, line : Nat,
   task : TcTasks \cup {Cluster!Idle.task}, view : View, source : Nat,
   output : SUBSET TaskRecord]

ClusterTypes ==
  /\ changes \in [TcTasks -> 0 .. MaxChanges] /\ seen \in [TcTasks -> View]
  /\ listed \in [TcTasks -> ListsOfArtifacts]
  /\ reader \in [Readers -> ReaderState]
  /\ tc_records \subseteq TaskRecord
  /\ firsts \subseteq First /\ reads \in Nat
  /\ \A r \in Readers :
       /\ reader[r].at \in Resolving => reader[r].task \in TcTasks \ missing
       /\ reader[r].at \in Resolving => reader[r].view.kind \in TcKinds

(* What a record says of its task, was said first.                         *)
Shows(x) ==
  x.view # Cluster!NotFound => \E f \in firsts : f.task = x.task /\ Cluster!Extends(x.view, f.view)

(* The view that is kept is the first of a thread.                         *)
RecordsShowTheFirst ==
  /\ \A x \in tc_records : Shows(x)
  /\ \A r \in Readers : \A x \in reader[r].output : Shows(x)
  /\ \A t \in TcTasks :
       seen[t] # Cluster!Unseen => \E f \in firsts : f.task = t /\ f.view = seen[t]

OnceForEachThread ==
  /\ \A f \in firsts : seen[f.task] # Cluster!Unseen
  /\ \A f, g \in firsts : f.task = g.task /\ f.reader = g.reader => f = g
  /\ \A r \in Readers, f \in firsts :
       reader[r].at = "remember" => ~(f.task = reader[r].task /\ f.reader = r)

(* Two threads read two blocks, and records are of the block.              *)
BlocksApart ==
  /\ \A r \in Readers : reader[r].at # "rest" =>
       /\ reader[r].read \in 1 .. reads /\ reader[r].read \notin ended
       /\ \A s \in Readers : reader[s].at # "rest" /\ reader[s].read = reader[r].read => s = r
  /\ \A r \in Readers : \A x \in reader[r].output :
       /\ reader[r].at # "rest"
       /\ x.read = reader[r].read /\ x.source = reader[r].source /\ reader[r].source # 0
  /\ ended \subseteq 1 .. reads
  /\ \A x \in tc_records : x.read \in ended
  /\ Cluster!OneSourceForABlock

(* The lines before the one a thread is at have an answer.                 *)
AnsweredIn(X, n, l) == \E x \in X : x.read = n /\ x.line = l

LinesBehind ==
  /\ \A r \in Readers : reader[r].at # "rest" =>
       /\ \A l \in 0 .. reader[r].line - 1 : AnsweredIn(reader[r].output \cup given_up, reader[r].read, l)
       /\ reader[r].at = "write" => reader[r].line = TcLines
  /\ \A n \in ended, l \in 0 .. TcLines - 1 : AnsweredIn(tc_records \cup given_up, n, l)

(* While a task does not change, everybody sees the same artifacts of it.  *)
SameArtifacts(t) ==
  /\ \A f \in firsts : f.task = t => f.view.artifacts = listed[t]
  /\ \A r \in Readers :
       reader[r].at \in {"log", "compare", "remember"} /\ reader[r].task = t =>
         reader[r].view.artifacts = listed[t]

Excused(g, k) ==
  \/ changes[g.task] # 0
  \/ \E f \in firsts :
       f.task = g.task /\ ~(LeftOfMessages[f.view.kind] \subseteq LeftOfMessages[k])

SameWhileUnchanged ==
  /\ \A t \in TcTasks : changes[t] = 0 => SameArtifacts(t)
  /\ \A g \in given_up, k \in TcKinds : k \in g.differs => g.task \in TcTasks /\ Excused(g, k)

ClusterInv ==
  ClusterTypes /\ RecordsShowTheFirst /\ OnceForEachThread /\ BlocksApart /\ LinesBehind /\ SameWhileUnchanged

-----------------------------------------------------------------------------
(* What the steps of a thread do to it.                                    *)

LEMMA ClusterConstants ==
  /\ TcLines \in Nat \ {0} /\ MaxChanges \in Nat
  /\ "unseen" \notin TcKinds /\ "unknown" \notin TcKinds
  /\ \A l \in ListsOfArtifacts \cup {<<>>} : Len(l) \in Nat /\ Cluster!IsPrefix(l, l)
<1>1. Cluster!TcAssumption
  BY RecordsAssumption, Zenon
<1>2. \A l \in ListsOfArtifacts \cup {<<>>} : Len(l) \in Nat
  BY DEF ListsOfArtifacts
<1> QED
  BY <1>1, <1>2 DEF Cluster!TcAssumption, Cluster!IsPrefix

LEMMA ViewTypes ==
  /\ Cluster!Unseen \in View /\ Cluster!NotFound \in View
  /\ \A v \in View : v.kind \in TcKinds => v # Cluster!Unseen
  BY ClusterConstants DEF View, Cluster!Unseen, Cluster!NotFound

LEMMA IdleIs ==
  /\ Cluster!Idle \in ReaderState /\ Cluster!Idle.at = "rest" /\ Cluster!Idle.read = 0
  /\ Cluster!Idle.line = 0 /\ Cluster!Idle.source = 0 /\ Cluster!Idle.output = {}
  BY ViewTypes DEF Cluster!Idle, ReaderState

LEMMA NextLineIs ==
  ASSUME NEW e \in ReaderState
  PROVE  LET f == Cluster!NextLine(e)
         IN  /\ f \in ReaderState /\ f.line = e.line + 1
             /\ f.at = IF f.line = TcLines THEN "write" ELSE "task"
             /\ f.read = e.read /\ f.source = e.source /\ f.output = e.output
<1> DEFINE t == Cluster!Idle.task
           u == Cluster!Unseen
           a == IF e.line + 1 = TcLines THEN "write" ELSE "task"
<1>1. t \in TcTasks \cup {Cluster!Idle.task} /\ u \in View /\ a \in {"write", "task"}
  BY ViewTypes
<1>2. Cluster!NextLine(e) = [e EXCEPT !.line = @ + 1, !.at = a, !.task = t, !.view = u]
  BY DEF Cluster!NextLine
<1>3. e.line + 1 \in Nat
  BY DEF ReaderState
<1> HIDE DEF t, u
<1>4. LET f == [e EXCEPT !.line = @ + 1, !.at = a, !.task = t, !.view = u]
      IN  /\ f \in ReaderState /\ f.line = e.line + 1 /\ f.at = a
          /\ f.read = e.read /\ f.source = e.source /\ f.output = e.output
  BY <1>1, <1>3 DEF ReaderState
<1> QED
  BY <1>2, <1>4

LEMMA SourceIs ==
  ASSUME NEW e \in ReaderState
  PROVE  /\ Cluster!Source(e) \in Nat /\ Cluster!Source(e) # 0
         /\ e.source # 0 => Cluster!Source(e) = e.source
  BY DEF Cluster!Source, ReaderState

(* The record of a line that shows v.                                      *)
Made(e, v) ==
  [read |-> e.read, line |-> e.line, task |-> e.task, view |-> v, source |-> Cluster!Source(e)]

LEMMA OutputIs ==
  ASSUME NEW e \in ReaderState, e.task \in TcTasks, NEW v \in View
  PROVE  LET f == Cluster!Output(e, v)
             x == Made(e, v)
         IN  /\ f \in ReaderState /\ f.line = e.line + 1
             /\ f.at = IF f.line = TcLines THEN "write" ELSE "task"
             /\ f.read = e.read /\ f.source = Cluster!Source(e)
             /\ f.output = e.output \cup {x} /\ x \in TaskRecord
<1> DEFINE x == Made(e, v)
           n == Cluster!NextLine(e)
           s == Cluster!Source(e)
<1>1. /\ n \in ReaderState /\ n.line = e.line + 1
      /\ n.at = IF n.line = TcLines THEN "write" ELSE "task"
      /\ n.read = e.read /\ n.source = e.source /\ n.output = e.output
  BY NextLineIs
<1>2. x \in TaskRecord
  BY SourceIs DEF TaskRecord, ReaderState, Made
<1>3. s \in Nat
  BY SourceIs
<1>4. Cluster!Output(e, v) = [n EXCEPT !.source = s, !.output = @ \cup {x}]
  BY DEF Cluster!Output, Made
<1> HIDE DEF n, x, s
<1>5. LET f == [n EXCEPT !.source = s, !.output = @ \cup {x}]
      IN  /\ f \in ReaderState /\ f.line = e.line + 1
          /\ f.at = IF f.line = TcLines THEN "write" ELSE "task"
          /\ f.read = e.read /\ f.source = s /\ f.output = e.output \cup {x}
  BY <1>1, <1>2, <1>3 DEF ReaderState
<1> QED
  BY <1>2, <1>4, <1>5 DEF x, s

(* One thread changes.                                                     *)
LEMMA ReaderChanges ==
  ASSUME ClusterTypes, NEW r \in Readers, NEW f \in ReaderState,
         f.at \in Resolving => f.task \in TcTasks \ missing,
         f.at \in Resolving => f.view.kind \in TcKinds,
         reader' = [reader EXCEPT ![r] = f],
         seen' \in [TcTasks -> View], tc_records' \subseteq TaskRecord,
         firsts' \subseteq First, reads' \in Nat, UNCHANGED <<missing, changes, listed>>
  PROVE  ClusterTypes' /\ reader'[r] = f /\ \A q \in Readers \ {r} : reader'[q] = reader[q]
<1>1. /\ reader \in [Readers -> ReaderState]
      /\ \A q \in Readers :
           /\ reader[q].at \in Resolving => reader[q].task \in TcTasks \ missing
           /\ reader[q].at \in Resolving => reader[q].view.kind \in TcKinds
  BY DEF ClusterTypes
<1>2. /\ reader' \in [Readers -> ReaderState] /\ reader'[r] = f
      /\ \A q \in Readers \ {r} : reader'[q] = reader[q]
  BY <1>1
<1>3. \A q \in Readers :
           /\ reader'[q].at \in Resolving => reader'[q].task \in TcTasks \ missing'
           /\ reader'[q].at \in Resolving => reader'[q].view.kind \in TcKinds
  <2> TAKE q \in Readers
  <2>1. CASE q = r
    BY <1>2, <2>1
  <2>2. CASE q # r
    BY <1>1, <1>2, <2>2
  <2> QED
    BY <2>1, <2>2
<1> QED
  BY <1>2, <1>3 DEF ClusterTypes

(* The steps as seen from the block: it is begun, the thread goes on with   *)
(* a line, answers it, or leaves the block, with its records or without.   *)
Others(r) == \A q \in Readers \ {r} : reader'[q] = reader[q]

Begins(r) ==
  /\ reader[r].at = "rest" /\ reader'[r].at = "task" /\ reads' = reads + 1
  /\ reader'[r].read = reads' /\ reader'[r].line = 0 /\ reader'[r].output = {}
  /\ UNCHANGED <<seen, tc_records, given_up, ended, firsts>>

Moves(r) ==
  /\ reader[r].at \notin {"rest", "write"} /\ reader'[r].at \notin {"rest", "write"}
  /\ reader'[r].read = reader[r].read /\ reader'[r].line = reader[r].line
  /\ reader'[r].output = reader[r].output
  /\ reader[r].source # 0 => reader'[r].source = reader[r].source
  /\ UNCHANGED <<seen, tc_records, given_up, ended, reads, firsts>>

(* Whatever the answer is, the thread goes to the next line.               *)
Answers(r) ==
  /\ reader[r].at \notin {"rest", "write"}
  /\ reader'[r].read = reader[r].read /\ reader'[r].line = reader[r].line + 1
  /\ reader'[r].at = IF reader'[r].line = TcLines THEN "write" ELSE "task"
  /\ UNCHANGED <<tc_records, ended, reads>>

Records(r, x) ==
  /\ x.read = reader[r].read /\ x.line = reader[r].line /\ x.source = reader'[r].source
  /\ reader'[r].source # 0
  /\ reader[r].source # 0 => reader'[r].source = reader[r].source
  /\ reader'[r].output = reader[r].output \cup {x}
  /\ UNCHANGED given_up

GivesUp(r, g) ==
  /\ g.read = reader[r].read /\ g.line = reader[r].line
  /\ reader'[r].source = reader[r].source /\ reader'[r].output = reader[r].output
  /\ given_up' = given_up \cup {g}
  /\ UNCHANGED <<seen, firsts>>

Leaves(r) ==
  /\ reader[r].at # "rest" /\ reader'[r].at = "rest" /\ reader'[r].output = {}
  /\ \/ UNCHANGED <<tc_records, ended>>
     \/ /\ reader[r].at = "write"
        /\ tc_records' = tc_records \cup reader[r].output
        /\ ended' = ended \cup {reader[r].read}
  /\ UNCHANGED <<seen, given_up, reads, firsts>>

ReaderStep(r) ==
  /\ Others(r)
  /\ \/ Begins(r) \/ Moves(r) \/ Leaves(r)
     \/ Answers(r) /\ ((\E x : Records(r, x)) \/ (\E g : GivesUp(r, g)))

LEMMA BeginSteps ==
  ASSUME ClusterTypes, NEW r \in Readers, Cluster!Begin(r)
  PROVE  /\ ClusterTypes' /\ ReaderStep(r) /\ Begins(r) /\ Others(r)
         /\ UNCHANGED <<missing, changes, listed>>
<1> DEFINE i == Cluster!Idle
           n == reads + 1
           f == [i EXCEPT !.at = "task", !.read = n]
<1>1. /\ reader[r].at = "rest" /\ reads' = n /\ reader' = [reader EXCEPT ![r] = f]
      /\ UNCHANGED <<missing, changes, listed, seen, tc_records, given_up, ended, firsts>>
  BY DEF Cluster!Begin, Cluster!world
<1>2. i \in ReaderState /\ i.line = 0 /\ i.output = {} /\ n \in Nat
  BY IdleIs DEF ClusterTypes
<1> HIDE DEF i, n
<1>3. /\ f \in ReaderState /\ f.at = "task" /\ f.read = n /\ f.line = 0 /\ f.output = {}
  BY <1>2 DEF ReaderState
<1> HIDE DEF f
<1>4. f.at \notin Resolving
  BY <1>3 DEF Resolving
<1>5. seen \in [TcTasks -> View] /\ tc_records \subseteq TaskRecord /\ firsts \subseteq First
  BY DEF ClusterTypes
<1>6. ClusterTypes' /\ reader'[r] = f /\ \A q \in Readers \ {r} : reader'[q] = reader[q]
  BY <1>1, <1>2, <1>3, <1>4, <1>5, ReaderChanges
<1> QED
  BY <1>1, <1>3, <1>6 DEF ReaderStep, Begins, Others, n

(* A step within a line.                                                   *)
LEMMA MoveSteps ==
  ASSUME ClusterTypes, NEW r \in Readers, NEW f \in ReaderState,
         reader' = [reader EXCEPT ![r] = f],
         f.at \in Resolving /\ f.task \in TcTasks \ missing,
         f.view.kind \in TcKinds,
         reader[r].at \notin {"rest", "write"}, f.read = reader[r].read,
         f.line = reader[r].line, f.output = reader[r].output,
         reader[r].source # 0 => f.source = reader[r].source,
         UNCHANGED <<missing, changes, listed, seen, tc_records, given_up, ended, reads, firsts>>
  PROVE  ClusterTypes' /\ ReaderStep(r) /\ reader'[r] = f
<1>1. seen \in [TcTasks -> View] /\ tc_records \subseteq TaskRecord /\ firsts \subseteq First /\ reads \in Nat
  BY DEF ClusterTypes
<1>2. ClusterTypes' /\ reader'[r] = f /\ \A q \in Readers \ {r} : reader'[q] = reader[q]
  BY <1>1, ReaderChanges, Zenon
<1> QED
  BY <1>2 DEF ReaderStep, Moves, Others, Resolving

(* The record of a line, which shows v.                                    *)
LEMMA RecordStep ==
  ASSUME ClusterTypes, NEW r \in Readers, NEW e \in ReaderState, NEW v \in View,
         NEW f \in ReaderState, f = Cluster!Output(e, v), reader' = [reader EXCEPT ![r] = f],
         e.task \in TcTasks, e.read = reader[r].read, e.line = reader[r].line,
         e.source = reader[r].source, e.output = reader[r].output,
         reader[r].at \notin {"rest", "write"},
         seen' \in [TcTasks -> View], firsts' \subseteq First,
         UNCHANGED <<missing, changes, listed, tc_records, given_up, ended, reads>>
  PROVE  /\ ClusterTypes' /\ ReaderStep(r) /\ Others(r) /\ reader'[r].at \in {"task", "write"}
         /\ Made(e, v) \in TaskRecord /\ reader'[r].output = reader[r].output \cup {Made(e, v)}
<1> DEFINE x == Made(e, v)
<1>1. /\ f \in ReaderState /\ f.line = e.line + 1
      /\ f.at = IF f.line = TcLines THEN "write" ELSE "task"
      /\ f.read = e.read /\ f.source = Cluster!Source(e)
      /\ f.output = e.output \cup {x} /\ x \in TaskRecord
  BY OutputIs
<1>2. Cluster!Source(e) # 0 /\ (e.source # 0 => Cluster!Source(e) = e.source)
  BY SourceIs
<1>3. /\ x.read = e.read /\ x.line = e.line /\ x.source = f.source
      /\ x.task = e.task /\ x.view = v
  BY <1>1 DEF Made
<1> HIDE DEF x
<1>4. f.at \notin Resolving /\ f.at \in {"task", "write"}
  BY <1>1 DEF Resolving
<1>5. tc_records \subseteq TaskRecord /\ reads \in Nat
  BY DEF ClusterTypes
<1>6. ClusterTypes' /\ reader'[r] = f /\ \A q \in Readers \ {r} : reader'[q] = reader[q]
  BY <1>1, <1>4, <1>5, ReaderChanges
<1>7. Answers(r) /\ Records(r, x) /\ Others(r)
  BY <1>1, <1>2, <1>3, <1>6 DEF Answers, Records, Others
<1> QED
  BY <1>1, <1>4, <1>6, <1>7 DEF ReaderStep, x

LEMMA GiveUpStep ==
  ASSUME ClusterTypes, NEW r \in Readers, NEW kinds,
         reader' = [reader EXCEPT ![r] = Cluster!NextLine(reader[r])],
         reader[r].at \notin {"rest", "write"},
         given_up' = given_up \cup
           {[read |-> reader[r].read, line |-> reader[r].line, task |-> reader[r].task,
             differs |-> kinds]},
         UNCHANGED <<missing, changes, listed, seen, tc_records, ended, reads, firsts>>
  PROVE  /\ ClusterTypes' /\ ReaderStep(r) /\ Others(r) /\ reader'[r].at \in {"task", "write"}
         /\ reader'[r].output = reader[r].output
<1> DEFINE f == Cluster!NextLine(reader[r])
           g == [read |-> reader[r].read, line |-> reader[r].line, task |-> reader[r].task,
                 differs |-> kinds]
<1>1. reader[r] \in ReaderState
  BY DEF ClusterTypes
<1>2. /\ f \in ReaderState /\ f.line = reader[r].line + 1
      /\ f.at = IF f.line = TcLines THEN "write" ELSE "task"
      /\ f.read = reader[r].read /\ f.source = reader[r].source /\ f.output = reader[r].output
  BY <1>1, NextLineIs
<1> HIDE DEF f
<1>3. f.at \notin Resolving /\ f.at \in {"task", "write"}
  BY <1>2 DEF Resolving
<1>4. /\ seen \in [TcTasks -> View] /\ tc_records \subseteq TaskRecord /\ firsts \subseteq First
      /\ reads \in Nat /\ reader' = [reader EXCEPT ![r] = f]
  BY DEF ClusterTypes, f
<1>5. ClusterTypes' /\ reader'[r] = f /\ \A q \in Readers \ {r} : reader'[q] = reader[q]
  BY <1>2, <1>3, <1>4, ReaderChanges
<1>6. g.read = reader[r].read /\ g.line = reader[r].line /\ given_up' = given_up \cup {g}
  OBVIOUS
<1> HIDE DEF g
<1>7. Answers(r) /\ GivesUp(r, g) /\ Others(r)
  BY <1>2, <1>5, <1>6 DEF Answers, GivesUp, Others
<1> QED
  BY <1>2, <1>3, <1>5, <1>7 DEF ReaderStep

LEMMA LeaveStep ==
  ASSUME ClusterTypes, NEW r \in Readers, Cluster!GiveBack(r) \/ Cluster!Write(r)
  PROVE  /\ ClusterTypes' /\ ReaderStep(r) /\ Leaves(r) /\ Others(r)
         /\ UNCHANGED <<missing, changes, listed>>
<1> DEFINE i == Cluster!Idle
           f == [i EXCEPT !.at = "rest"]
<1>1. /\ reader[r].at # "rest" /\ reader' = [reader EXCEPT ![r] = f]
      /\ \/ UNCHANGED <<tc_records, ended>>
         \/ /\ reader[r].at = "write"
            /\ tc_records' = tc_records \cup reader[r].output
            /\ ended' = ended \cup {reader[r].read}
      /\ UNCHANGED <<missing, changes, listed, seen, given_up, reads, firsts>>
  BY DEF Cluster!GiveBack, Cluster!Write, Cluster!Goto, Cluster!world, Cluster!Asking
<1>2. i \in ReaderState /\ i.output = {}
  BY IdleIs
<1> HIDE DEF i
<1>3. f \in ReaderState /\ f.at = "rest" /\ f.output = {}
  BY <1>2 DEF ReaderState
<1> HIDE DEF f
<1>4. f.at \notin Resolving
  BY <1>3 DEF Resolving
<1>5. /\ seen \in [TcTasks -> View] /\ tc_records \subseteq TaskRecord /\ firsts \subseteq First
      /\ reads \in Nat /\ reader[r].output \subseteq TaskRecord
  BY DEF ClusterTypes, ReaderState
<1>6. tc_records' \subseteq TaskRecord
  BY <1>1, <1>5
<1>7. ClusterTypes' /\ reader'[r] = f /\ \A q \in Readers \ {r} : reader'[q] = reader[q]
  BY <1>1, <1>3, <1>4, <1>5, <1>6, ReaderChanges
<1> QED
  BY <1>1, <1>3, <1>7 DEF ReaderStep, Leaves, Others

(* What a thread sees of a task between two answers.                       *)
Looks(r) ==
  /\ reader'[r].output = reader[r].output
  /\ reader'[r].at = "log" => reader'[r].view.artifacts = listed[reader'[r].task]
  /\ reader'[r].at \in {"compare", "remember"} =>
       /\ reader[r].at \in {"log", "compare"} /\ reader'[r].view = reader[r].view
       /\ reader'[r].task = reader[r].task
  /\ reader'[r].at = "remember" => seen[reader[r].task] = Cluster!Unseen
  /\ UNCHANGED <<missing, changes, listed, seen, firsts, tc_records, given_up>>

LEMMA LookSteps ==
  ASSUME ClusterTypes, NEW r \in Readers,
         \/ \E t \in TcTasks, k \in TcKinds : Cluster!GetTask(r, t, k)
         \/ Cluster!GetStatus(r) \/ Cluster!GetArtifacts(r) \/ Cluster!ReadLog(r) \/ Cluster!NotSeen(r)
  PROVE  ClusterTypes' /\ ReaderStep(r) /\ Others(r) /\ Looks(r)
<1> DEFINE e == reader[r]
           Rest == UNCHANGED <<missing, changes, listed, seen, tc_records, given_up, ended, reads, firsts>>
           Goes(f) ==
             /\ reader' = [reader EXCEPT ![r] = f]
             /\ f.at \in Resolving /\ f.task \in TcTasks \ missing
             /\ f.view.kind \in TcKinds
             /\ e.at \notin {"rest", "write"} /\ f.read = e.read /\ f.line = e.line
             /\ f.output = e.output /\ (e.source # 0 => f.source = e.source)
             /\ f.at = "log" => f.view.artifacts = listed[f.task]
             /\ f.at \in {"compare", "remember"} =>
                  e.at \in {"log", "compare"} /\ f.view = e.view /\ f.task = e.task
             /\ f.at = "remember" => seen[e.task] = Cluster!Unseen
             /\ Rest
<1>1. /\ e \in ReaderState /\ (e.at \in Resolving => e.task \in TcTasks \ missing)
      /\ (e.at \in Resolving => e.view.kind \in TcKinds)
      /\ listed \in [TcTasks -> ListsOfArtifacts]
  BY DEF ClusterTypes
<1>2. SUFFICES \E f \in ReaderState : Goes(f)
  <2>1. PICK f \in ReaderState : Goes(f)
    BY <1>2
  <2>2. ClusterTypes' /\ ReaderStep(r) /\ reader'[r] = f
    <3>1. /\ reader' = [reader EXCEPT ![r] = f]
          /\ f.at \in Resolving /\ f.task \in TcTasks \ missing
          /\ f.view.kind \in TcKinds
          /\ reader[r].at \notin {"rest", "write"} /\ f.read = reader[r].read
          /\ f.line = reader[r].line /\ f.output = reader[r].output
          /\ (reader[r].source # 0 => f.source = reader[r].source)
          /\ UNCHANGED <<missing, changes, listed, seen, tc_records, given_up, ended, reads, firsts>>
      BY <2>1
    <3> HIDE DEF e, Rest, Goes
    <3> QED
      BY <3>1, MoveSteps, Zenon
  <2>3. Others(r)
    BY <2>2 DEF ReaderStep
  <2> QED
    BY <2>1, <2>2, <2>3 DEF Looks
<1>3. ASSUME NEW t \in TcTasks, NEW k \in TcKinds, Cluster!GetTask(r, t, k)
      PROVE  /\ e.at = "task" /\ t \notin missing /\ Rest
             /\ reader' = [reader EXCEPT ![r] =
                             [[e EXCEPT !.task = t, !.view.kind = k] EXCEPT !.at = "status"]]
  BY <1>3 DEF Cluster!GetTask, Cluster!Goto, Cluster!world
<1>4. ASSUME Cluster!GetStatus(r)
      PROVE  /\ e.at = "status" /\ Rest
             /\ reader' = [reader EXCEPT ![r] =
                             [e EXCEPT !.at = "artifacts"]]
  BY <1>4 DEF Cluster!GetStatus, Cluster!Goto, Cluster!world
<1>5. ASSUME Cluster!GetArtifacts(r)
      PROVE  /\ e.at = "artifacts" /\ Rest
             /\ reader' = [reader EXCEPT ![r] =
                             [[e EXCEPT !.view.artifacts = listed[e.task]] EXCEPT !.at = "log"]]
  BY <1>5 DEF Cluster!GetArtifacts, Cluster!Goto, Cluster!world
<1>6. ASSUME Cluster!ReadLog(r)
      PROVE  /\ e.at = "log" /\ Rest
             /\ reader' = [reader EXCEPT ![r] =
                             [[e EXCEPT !.source = Cluster!Source(e)] EXCEPT !.at = "compare"]]
  BY <1>6 DEF Cluster!ReadLog, Cluster!Goto, Cluster!world
<1>7. ASSUME Cluster!NotSeen(r)
      PROVE  /\ e.at = "compare" /\ seen[e.task] = Cluster!Unseen /\ Rest
             /\ reader' = [reader EXCEPT ![r] = [e EXCEPT !.at = "remember"]]
  BY <1>7 DEF Cluster!NotSeen, Cluster!Goto, Cluster!world
<1> HIDE DEF e, Rest
<1>8. ASSUME NEW t \in TcTasks, NEW k \in TcKinds, Cluster!GetTask(r, t, k)
      PROVE  \E f \in ReaderState : Goes(f)
  <2> DEFINE f == [[e EXCEPT !.task = t, !.view.kind = k] EXCEPT !.at = "status"]
  <2>1. /\ f \in ReaderState /\ f.at = "status" /\ f.task = t /\ f.read = e.read /\ f.line = e.line
        /\ f.output = e.output /\ f.source = e.source /\ f.view.kind = k
    BY <1>1 DEF ReaderState, Resolving, View
  <2> HIDE DEF f
  <2>2. reader' = [reader EXCEPT ![r] = f]
    BY <1>3, <1>8 DEF f
  <2> QED
    BY <1>3, <1>8, <2>1, <2>2 DEF Resolving
<1>9. ASSUME Cluster!GetStatus(r) PROVE \E f \in ReaderState : Goes(f)
  <2> DEFINE f == [e EXCEPT !.at = "artifacts"]
  <2>1. e.task \in TcTasks \ missing /\ e.view.kind \in TcKinds
    BY <1>1, <1>4, <1>9 DEF Resolving
  <2>2. /\ f \in ReaderState /\ f.at = "artifacts" /\ f.task = e.task /\ f.read = e.read /\ f.line = e.line
        /\ f.output = e.output /\ f.source = e.source /\ f.view = e.view
    BY <1>1, <2>1 DEF ReaderState, Resolving
  <2>3. reader' = [reader EXCEPT ![r] = f]
    BY <1>4, <1>9
  <2> HIDE DEF f
  <2> QED
    BY <1>4, <1>9, <2>1, <2>2, <2>3 DEF Resolving
<1>10. ASSUME Cluster!GetArtifacts(r) PROVE \E f \in ReaderState : Goes(f)
  <2> DEFINE l == listed[e.task]
             f == [[e EXCEPT !.view.artifacts = l] EXCEPT !.at = "log"]
  <2>1. l \in ListsOfArtifacts /\ e.task \in TcTasks \ missing /\ e.view.kind \in TcKinds
    BY <1>1, <1>5, <1>10 DEF Resolving
  <2> HIDE DEF l
  <2>2. /\ f \in ReaderState /\ f.at = "log" /\ f.task = e.task /\ f.read = e.read /\ f.line = e.line
        /\ f.output = e.output /\ f.source = e.source
        /\ f.view.artifacts = l /\ f.view.kind = e.view.kind
    BY <1>1, <2>1 DEF ReaderState, Resolving, View
  <2>3. reader' = [reader EXCEPT ![r] = f]
    BY <1>5, <1>10 DEF l
  <2> HIDE DEF f
  <2>4. f.view.artifacts = listed[f.task]
    BY <2>2 DEF l
  <2> QED
    BY <1>5, <1>10, <2>1, <2>2, <2>3, <2>4 DEF Resolving
<1>11. ASSUME Cluster!ReadLog(r) PROVE \E f \in ReaderState : Goes(f)
  <2> DEFINE c == Cluster!Source(e)
             f == [[e EXCEPT !.source = c] EXCEPT !.at = "compare"]
  <2>1. c \in Nat /\ (e.source # 0 => c = e.source) /\ e.task \in TcTasks \ missing /\ e.view.kind \in TcKinds
    BY <1>1, <1>6, <1>11, SourceIs DEF Resolving
  <2>2. reader' = [reader EXCEPT ![r] = f]
    BY <1>6, <1>11
  <2> HIDE DEF c
  <2>3. /\ f \in ReaderState /\ f.at = "compare" /\ f.task = e.task /\ f.read = e.read /\ f.line = e.line
        /\ f.output = e.output /\ f.source = c /\ f.view = e.view
    BY <1>1, <2>1 DEF ReaderState, Resolving
  <2> HIDE DEF f
  <2> QED
    BY <1>6, <1>11, <2>1, <2>2, <2>3 DEF Resolving
<1>12. ASSUME Cluster!NotSeen(r) PROVE \E f \in ReaderState : Goes(f)
  <2> DEFINE f == [e EXCEPT !.at = "remember"]
  <2>1. /\ f \in ReaderState /\ f.at = "remember" /\ f.task = e.task /\ f.read = e.read /\ f.line = e.line
        /\ f.output = e.output /\ f.source = e.source /\ f.view = e.view
    BY <1>1 DEF ReaderState, Resolving
  <2>2. e.task \in TcTasks \ missing /\ e.view.kind \in TcKinds
    BY <1>1, <1>7, <1>12 DEF Resolving
  <2>3. reader' = [reader EXCEPT ![r] = f]
    BY <1>7, <1>12
  <2> HIDE DEF f
  <2> QED
    BY <1>7, <1>12, <2>1, <2>2, <2>3 DEF Resolving
<1> QED
  BY <1>8, <1>9, <1>10, <1>11, <1>12

(* How a line is answered: with the record of a task that is gone, of one  *)
(* that was seen, of one that is seen first, or not.                       *)
AnswersMissing(r, x) == x.view = Cluster!NotFound /\ UNCHANGED <<seen, firsts, given_up>>

AnswersSeen(r, x) ==
  /\ x.task \in TcTasks /\ seen[x.task] # Cluster!Unseen
  /\ Cluster!Extends(x.view, seen[x.task])
  /\ UNCHANGED <<seen, firsts, given_up>>

AnswersFirst(r, x) ==
  /\ reader[r].at = "remember" /\ x.task = reader[r].task /\ x.view = reader[r].view
  /\ x.task \in TcTasks /\ x.view.kind \in TcKinds
  /\ seen' = [seen EXCEPT ![x.task] = x.view]
  /\ firsts' = firsts \cup {[task |-> x.task, reader |-> r, view |-> x.view]}
  /\ UNCHANGED given_up

Gives(r, x) ==
  /\ x \in TaskRecord /\ reader'[r].output = reader[r].output \cup {x}
  /\ AnswersMissing(r, x) \/ AnswersSeen(r, x) \/ AnswersFirst(r, x)

GivesNone(r) ==
  /\ reader'[r].output = reader[r].output
  /\ UNCHANGED <<seen, firsts>>
  /\ \E kinds :
       /\ given_up' = given_up \cup
            {[read |-> reader[r].read, line |-> reader[r].line, task |-> reader[r].task,
              differs |-> kinds]}
       /\ kinds # {} => /\ reader[r].at = "compare" /\ seen[reader[r].task] # Cluster!Unseen
                        /\ ~Cluster!Extends(reader[r].view, seen[reader[r].task])
                        /\ kinds = {reader[r].view.kind}

LEMMA AnswerSteps ==
  ASSUME ClusterTypes, NEW r \in Readers,
         \/ \E t \in TcTasks : Cluster!GetNoTask(r, t)
         \/ Cluster!Compare(r) \/ Cluster!Remember(r) \/ Cluster!GiveUpLine(r)
  PROVE  /\ ClusterTypes' /\ ReaderStep(r) /\ Others(r) /\ reader'[r].at \in {"task", "write"}
         /\ (\E x : Gives(r, x)) \/ GivesNone(r)
         /\ UNCHANGED <<missing, changes, listed, tc_records>>
<1> DEFINE Rest == UNCHANGED <<missing, changes, listed, tc_records, ended, reads>>
           e == reader[r]
           Done ==
             /\ ClusterTypes' /\ ReaderStep(r) /\ Others(r) /\ reader'[r].at \in {"task", "write"}
             /\ (\E x : Gives(r, x)) \/ GivesNone(r)
             /\ UNCHANGED <<missing, changes, listed, tc_records>>
<1>1. /\ e \in ReaderState
      /\ e.at \in Resolving => e.task \in TcTasks \ missing /\ e.view.kind \in TcKinds
      /\ seen \in [TcTasks -> View] /\ firsts \subseteq First
  BY DEF ClusterTypes
<1>2. ASSUME NEW d \in ReaderState, NEW v \in View,
             reader' = [reader EXCEPT ![r] = Cluster!Output(d, v)],
             d.task \in TcTasks, d.read = e.read, d.line = e.line,
             d.source = e.source, d.output = e.output,
             e.at \notin {"rest", "write"},
             seen' \in [TcTasks -> View], firsts' \subseteq First, UNCHANGED given_up, Rest,
             \A x : x.task = d.task /\ x.view = v =>
               AnswersMissing(r, x) \/ AnswersSeen(r, x) \/ AnswersFirst(r, x)
      PROVE  Done
  <2>1. /\ ClusterTypes' /\ ReaderStep(r) /\ Others(r) /\ reader'[r].at \in {"task", "write"}
        /\ Made(d, v) \in TaskRecord /\ reader'[r].output = reader[r].output \cup {Made(d, v)}
    <3>1. UNCHANGED <<missing, changes, listed, tc_records, given_up, ended, reads>>
      BY <1>2
    <3> DEFINE f == Cluster!Output(d, v)
    <3>2. /\ reader' = [reader EXCEPT ![r] = f]
          /\ d.task \in TcTasks /\ d.read = reader[r].read /\ d.line = reader[r].line
          /\ d.source = reader[r].source /\ d.output = reader[r].output
          /\ reader[r].at \notin {"rest", "write"}
          /\ seen' \in [TcTasks -> View] /\ firsts' \subseteq First
      BY <1>2
    <3>3. f = Cluster!Output(d, v) /\ f \in ReaderState
      BY <1>2, OutputIs
    <3> HIDE DEF f
    <3> QED
      BY <3>1, <3>2, <3>3, RecordStep
  <2>2. Made(d, v).task = d.task /\ Made(d, v).view = v
    BY DEF Made
  <2>3. Gives(r, Made(d, v))
    BY <1>2, <2>1, <2>2 DEF Gives
  <2> QED
    BY <1>2, <2>1, <2>3
<1>3. ASSUME NEW t \in TcTasks, Cluster!GetNoTask(r, t) PROVE Done
  <2> DEFINE d == [e EXCEPT !.task = t]
  <2>1. /\ e.at = "task" /\ t \in missing /\ reader' = [reader EXCEPT ![r] = Cluster!Output(d, Cluster!NotFound)]
        /\ UNCHANGED <<seen, firsts, given_up>> /\ Rest
    BY <1>3 DEF Cluster!GetNoTask, Cluster!world
  <2>2. /\ d \in ReaderState /\ d.task = t /\ d.read = e.read /\ d.line = e.line
        /\ d.source = e.source /\ d.output = e.output
    BY <1>1 DEF ReaderState
  <2> HIDE DEF d, e
  <2>3. \A x : x.task = d.task /\ x.view = Cluster!NotFound => AnswersMissing(r, x)
    BY <2>1, <2>2 DEF AnswersMissing
  <2>4. seen' \in [TcTasks -> View] /\ firsts' \subseteq First /\ UNCHANGED given_up /\ e.at \notin {"rest", "write"}
    BY <1>1, <2>1
  <2> HIDE DEF Done, Rest
  <2> QED
    BY <1>2, <2>1, <2>2, <2>3, <2>4, ViewTypes, Zenon
<1>4. ASSUME Cluster!Compare(r), Cluster!Extends(e.view, seen[e.task]) PROVE Done
  <2>1. /\ e.at = "compare" /\ reader' = [reader EXCEPT ![r] = Cluster!Output(e, e.view)]
        /\ seen[e.task] # Cluster!Unseen
        /\ UNCHANGED <<seen, firsts, given_up>> /\ Rest
    BY <1>4 DEF Cluster!Compare, Cluster!world
  <2>2. e.task \in TcTasks /\ e.view \in View
    BY <1>1, <2>1 DEF ReaderState, Resolving
  <2>3. \A x : x.task = e.task /\ x.view = e.view => AnswersSeen(r, x)
    BY <1>4, <2>1, <2>2 DEF AnswersSeen
  <2>4. seen' \in [TcTasks -> View] /\ firsts' \subseteq First /\ UNCHANGED given_up /\ e.at \notin {"rest", "write"}
    BY <1>1, <2>1
  <2> HIDE DEF Done, Rest, e
  <2> QED
    BY <1>1, <1>2, <2>1, <2>2, <2>3, <2>4
<1>5. ASSUME Cluster!Remember(r) PROVE Done
  <2>1. /\ e.at = "remember" /\ reader' = [reader EXCEPT ![r] = Cluster!Output(e, e.view)]
        /\ seen' = [seen EXCEPT ![e.task] = e.view] 
        /\ firsts' = firsts \cup {[task |-> e.task, reader |-> r, view |-> e.view]}
        /\ UNCHANGED given_up /\ Rest
    BY <1>5 DEF Cluster!Remember, Cluster!world
  <2>2. e.task \in TcTasks /\ e.view \in View /\ e.view.kind \in TcKinds
    BY <1>1, <2>1 DEF ReaderState, Resolving
  <2>3. \A x : x.task = e.task /\ x.view = e.view => AnswersFirst(r, x)
    BY <2>1, <2>2 DEF AnswersFirst
  <2>4. seen' \in [TcTasks -> View] /\ firsts' \subseteq First /\ e.at \notin {"rest", "write"}
    <3> DEFINE f == [task |-> e.task, reader |-> r, view |-> e.view]
    <3>1. f \in First
      BY <2>2 DEF First
    <3>2. firsts \subseteq First /\ seen \in [TcTasks -> View]
      BY <1>1
    <3>3. firsts' = firsts \cup {f} /\ seen' = [seen EXCEPT ![e.task] = e.view] /\ e.at = "remember"
      BY <2>1
    <3> HIDE DEF f
    <3> QED
      BY <2>2, <3>1, <3>2, <3>3
  <2> HIDE DEF Done, Rest, e
  <2> QED
    BY <1>1, <1>2, <2>1, <2>2, <2>3, <2>4
<1>6. ASSUME NEW kinds,
             e.at \notin {"rest", "write"},
             reader' = [reader EXCEPT ![r] = Cluster!NextLine(e)],
             given_up' = given_up \cup {[read |-> e.read, line |-> e.line, task |-> e.task,
                                         differs |-> kinds]},
             UNCHANGED <<seen, firsts>>, Rest,
             kinds # {} => /\ e.at = "compare" /\ seen[e.task] # Cluster!Unseen
                           /\ ~Cluster!Extends(e.view, seen[e.task])
                           /\ kinds = {e.view.kind}
      PROVE  Done
  <2>1. /\ ClusterTypes' /\ ReaderStep(r) /\ Others(r) /\ reader'[r].at \in {"task", "write"}
        /\ reader'[r].output = reader[r].output
    BY <1>6, GiveUpStep
  <2>2. GivesNone(r)
    BY <1>6, <2>1 DEF GivesNone
  <2> QED
    BY <1>6, <2>1, <2>2
<1>7. ASSUME Cluster!Compare(r), ~Cluster!Extends(e.view, seen[e.task]) PROVE Done
  <2>1. /\ e.at = "compare" /\ reader' = [reader EXCEPT ![r] = Cluster!NextLine(e)]
        /\ seen[e.task] # Cluster!Unseen
        /\ given_up' = given_up \cup {[read |-> e.read, line |-> e.line, task |-> e.task,
                                       differs |-> {e.view.kind}]}
        /\ UNCHANGED <<seen, firsts>> /\ Rest
    BY <1>7 DEF Cluster!Compare, Cluster!world, Cluster!Warned
  <2> HIDE DEF Done, Rest, e
  <2> QED
    BY <1>6, <1>7, <2>1
<1>8. ASSUME Cluster!GiveUpLine(r) PROVE Done
  <2> DEFINE none == {}
  <2>1. /\ e.at \notin {"rest", "write"} /\ reader' = [reader EXCEPT ![r] = Cluster!NextLine(e)]
        /\ given_up' = given_up \cup {[read |-> e.read, line |-> e.line, task |-> e.task,
                                       differs |-> none]}
        /\ UNCHANGED <<seen, firsts>> /\ Rest
    BY <1>8 DEF Cluster!GiveUpLine, Cluster!world, Cluster!Asking, Cluster!Warned
  <2>2. ~(none # {})
    OBVIOUS
  <2> HIDE DEF Done, Rest, e, none
  <2> QED
    BY <1>6, <2>1, <2>2
<1> QED
  BY <1>3, <1>4, <1>5, <1>7, <1>8

(* The steps, by what they do to the records.                              *)
Settles(r) ==
  /\ reader'[r].at \in {"task", "write", "rest"}
  /\ reader'[r].output \subseteq reader[r].output
  /\ tc_records' \subseteq tc_records \cup reader[r].output
  /\ UNCHANGED <<missing, changes, listed, seen, firsts, given_up>>

LEMMA ClusterSteps ==
  ASSUME ClusterTypes, [Cluster!Next]_tcVars
  PROVE  /\ ClusterTypes'
         /\ \/ /\ UNCHANGED <<missing, seen, reader, tc_records, given_up, ended, reads, firsts>>
               /\ \/ UNCHANGED <<changes, listed>>
                  \/ \E t \in TcTasks :
                       /\ changes'[t] # 0
                       /\ \A u \in TcTasks \ {t} : changes'[u] = changes[u] /\ listed'[u] = listed[u]
            \/ \E r \in Readers :
                 /\ ReaderStep(r) /\ Others(r)
                 /\ \/ Settles(r)
                    \/ Looks(r) /\ UNCHANGED tc_records
                    \/ /\ reader'[r].at \in {"task", "write"}
                       /\ (\E x : Gives(r, x)) \/ GivesNone(r)
                       /\ UNCHANGED <<missing, changes, listed, tc_records>>
<1>1. ASSUME NEW t \in TcTasks, Cluster!Change(t)
      PROVE  /\ ClusterTypes' /\ changes'[t] # 0
             /\ \A u \in TcTasks \ {t} : changes'[u] = changes[u] /\ listed'[u] = listed[u]
             /\ UNCHANGED <<missing, seen, reader, tc_records, given_up, ended, reads, firsts>>
  <2>1. /\ changes[t] < MaxChanges /\ changes' = [changes EXCEPT ![t] = @ + 1]
        /\ listed' \in [TcTasks -> ListsOfArtifacts]
        /\ \A u \in TcTasks \ {t} : listed'[u] = listed[u]
        /\ UNCHANGED <<missing, seen, reader, tc_records, given_up, ended, reads, firsts>>
    BY <1>1 DEF Cluster!Change, ClusterTypes
  <2>2. /\ changes' \in [TcTasks -> 0 .. MaxChanges] /\ changes'[t] # 0
        /\ \A u \in TcTasks \ {t} : changes'[u] = changes[u]
    BY <2>1, ClusterConstants DEF ClusterTypes
  <2> QED
    BY <2>1, <2>2 DEF ClusterTypes
<1>2. ASSUME NEW r \in Readers, Cluster!Begin(r)
      PROVE  ClusterTypes' /\ ReaderStep(r) /\ Others(r) /\ Settles(r)
  <2>1. /\ ClusterTypes' /\ ReaderStep(r) /\ Begins(r) /\ Others(r)
         /\ UNCHANGED <<missing, changes, listed>>
    BY <1>2, BeginSteps
  <2> QED
    BY <2>1 DEF Begins, Settles
<1>3. ASSUME NEW r \in Readers,
             \/ \E t \in TcTasks, k \in TcKinds : Cluster!GetTask(r, t, k)
             \/ Cluster!GetStatus(r) \/ Cluster!GetArtifacts(r) \/ Cluster!ReadLog(r) \/ Cluster!NotSeen(r)
      PROVE  ClusterTypes' /\ ReaderStep(r) /\ Others(r) /\ Looks(r) /\ UNCHANGED tc_records
  <2>1. UNCHANGED tc_records
    BY <1>3 DEF Cluster!GetTask, Cluster!GetStatus, Cluster!GetArtifacts, Cluster!ReadLog, Cluster!NotSeen
  <2> QED
    BY <1>3, <2>1, LookSteps
<1>4. ASSUME NEW r \in Readers,
             \/ \E t \in TcTasks : Cluster!GetNoTask(r, t)
             \/ Cluster!Compare(r) \/ Cluster!Remember(r) \/ Cluster!GiveUpLine(r)
      PROVE  /\ ClusterTypes' /\ ReaderStep(r) /\ Others(r) /\ reader'[r].at \in {"task", "write"}
             /\ (\E x : Gives(r, x)) \/ GivesNone(r)
             /\ UNCHANGED <<missing, changes, listed, tc_records>>
  BY <1>4, AnswerSteps
<1>5. ASSUME NEW r \in Readers, Cluster!GiveBack(r) \/ Cluster!Write(r)
      PROVE  ClusterTypes' /\ ReaderStep(r) /\ Others(r) /\ Settles(r)
  <2>1. /\ ClusterTypes' /\ ReaderStep(r) /\ Leaves(r) /\ Others(r)
         /\ UNCHANGED <<missing, changes, listed>>
    BY <1>5, LeaveStep
  <2> QED
    BY <2>1 DEF Leaves, Settles
<1>6. CASE UNCHANGED tcVars
  BY <1>6 DEF tcVars, ClusterTypes
<1>7. CASE \E t \in TcTasks : Cluster!Change(t)
  BY <1>1, <1>7
<1>8. ASSUME NEW r \in Readers,
             \/ Cluster!Begin(r)
             \/ \E t \in TcTasks : Cluster!GetNoTask(r, t) \/ \E k \in TcKinds : Cluster!GetTask(r, t, k)
             \/ Cluster!GetStatus(r) \/ Cluster!GetArtifacts(r) \/ Cluster!ReadLog(r)
             \/ Cluster!Compare(r) \/ Cluster!NotSeen(r) \/ Cluster!Remember(r)
             \/ Cluster!GiveUpLine(r) \/ Cluster!GiveBack(r) \/ Cluster!Write(r)
      PROVE  /\ ClusterTypes' /\ ReaderStep(r) /\ Others(r)
             /\ \/ Settles(r)
                \/ Looks(r) /\ UNCHANGED tc_records
                \/ /\ reader'[r].at \in {"task", "write"}
                   /\ (\E x : Gives(r, x)) \/ GivesNone(r)
                   /\ UNCHANGED <<missing, changes, listed, tc_records>>
  BY <1>2, <1>3, <1>4, <1>5, <1>8
<1> QED
  BY <1>6, <1>7, <1>8 DEF Cluster!Next

LEMMA ShowsStep ==
  ASSUME ClusterTypes, RecordsShowTheFirst, [Cluster!Next]_tcVars PROVE RecordsShowTheFirst'
<1>1. CASE UNCHANGED <<seen, reader, tc_records, firsts>>
  BY <1>1 DEF RecordsShowTheFirst, Shows
<1>2. ASSUME NEW r \in Readers, Others(r), UNCHANGED <<seen, firsts>>,
             reader'[r].output \subseteq reader[r].output,
             tc_records' \subseteq tc_records \cup reader[r].output
      PROVE  RecordsShowTheFirst'
  <2>1. \A x : Shows(x)' <=> Shows(x)
    BY <1>2 DEF Shows
  <2>2. \A q \in Readers : reader'[q].output \subseteq reader[q].output
    BY <1>2 DEF Others
  <2> QED
    BY <1>2, <2>1, <2>2 DEF RecordsShowTheFirst
<1>3. ASSUME NEW r \in Readers, Others(r), NEW x, Gives(r, x), UNCHANGED tc_records
      PROVE  RecordsShowTheFirst'
  <2> DEFINE Kept == \A t \in TcTasks :
                seen[t] # Cluster!Unseen => \E f \in firsts : f.task = t /\ f.view = seen[t]
  <2>1. firsts \subseteq firsts'
    BY <1>3 DEF Gives, AnswersMissing, AnswersSeen, AnswersFirst
  <2>2. \A y : Shows(y) => Shows(y)'
    BY <2>1 DEF Shows
  <2>3. Shows(x)' /\ Kept'
    <3>1. CASE AnswersMissing(r, x)
      BY <3>1 DEF AnswersMissing, Shows, RecordsShowTheFirst
    <3>2. CASE AnswersSeen(r, x)
      <4>1. PICK f \in firsts : f.task = x.task /\ f.view = seen[x.task]
        BY <3>2 DEF AnswersSeen, RecordsShowTheFirst
      <4> QED
        BY <3>2, <4>1 DEF AnswersSeen, Shows, RecordsShowTheFirst
    <3>3. CASE AnswersFirst(r, x)
      <4> DEFINE f == [task |-> x.task, reader |-> r, view |-> x.view]
      <4>1. f \in firsts' /\ f.task = x.task /\ f.view = x.view
        BY <3>3 DEF AnswersFirst
      <4> HIDE DEF f
      <4>2. Cluster!Extends(x.view, x.view)
        <5>1. x.view.artifacts \in ListsOfArtifacts \cup {<<>>}
          BY <1>3 DEF Gives, TaskRecord, View
        <5> QED BY <5>1, ClusterConstants DEF Cluster!Extends
      <4>3. seen \in [TcTasks -> View] /\ seen' = [seen EXCEPT ![x.task] = x.view] /\ x.task \in TcTasks
        BY <3>3 DEF AnswersFirst, ClusterTypes
      <4>4. Kept'
        <5> SUFFICES ASSUME NEW t \in TcTasks, seen'[t] # Cluster!Unseen
                     PROVE  \E g \in firsts' : g.task = t /\ g.view = seen'[t]
          OBVIOUS
        <5>1. CASE t = x.task
          BY <4>1, <4>3, <5>1
        <5>2. CASE t # x.task
          <6>1. seen'[t] = seen[t]
            BY <4>3, <5>2
          <6> QED BY <2>1, <6>1 DEF RecordsShowTheFirst
        <5> QED BY <5>1, <5>2
      <4> QED
        BY <4>1, <4>2, <4>4 DEF Shows
    <3> QED
      BY <1>3, <3>1, <3>2, <3>3 DEF Gives
  <2>4. \A q \in Readers : reader'[q].output \subseteq reader[q].output \cup {x}
    BY <1>3 DEF Gives, Others
  <2>5. \A y \in tc_records' : Shows(y)'
    BY <1>3, <2>2 DEF RecordsShowTheFirst
  <2>6. \A q \in Readers : \A y \in reader'[q].output : Shows(y)'
    BY <2>2, <2>3, <2>4 DEF RecordsShowTheFirst
  <2> QED
    BY <2>3, <2>5, <2>6 DEF RecordsShowTheFirst
<1> QED
  BY <1>1, <1>2, <1>3, ClusterSteps DEF Settles, Looks, GivesNone

(* A thread remembers a task once, since it looks first.                   *)
LEMMA OnceStep ==
  ASSUME ClusterTypes, OnceForEachThread, [Cluster!Next]_tcVars PROVE OnceForEachThread'
<1>1. CASE UNCHANGED <<seen, reader, firsts>>
  BY <1>1 DEF OnceForEachThread
<1>2. ASSUME NEW r \in Readers, Others(r), UNCHANGED <<seen, firsts>>,
             reader'[r].at = "remember" =>
               seen[reader[r].task] = Cluster!Unseen /\ reader'[r].task = reader[r].task
      PROVE  OnceForEachThread'
  <2>1. ASSUME NEW q \in Readers, NEW f \in firsts, reader'[q].at = "remember"
        PROVE  ~(f.task = reader'[q].task /\ f.reader = q)
    <3>1. CASE q = r
      BY <1>2, <2>1, <3>1 DEF OnceForEachThread
    <3>2. CASE q # r
      BY <1>2, <2>1, <3>2 DEF OnceForEachThread, Others
    <3> QED BY <3>1, <3>2
  <2> QED
    BY <1>2, <2>1 DEF OnceForEachThread
<1>3. ASSUME NEW r \in Readers, Others(r), NEW x, AnswersFirst(r, x), reader'[r].at \in {"task", "write"}
      PROVE  OnceForEachThread'
  <2> DEFINE f == [task |-> x.task, reader |-> r, view |-> x.view]
  <2>1. /\ firsts' = firsts \cup {f} /\ f.task = x.task /\ f.reader = r
        /\ reader[r].at = "remember" /\ x.task = reader[r].task
    BY <1>3 DEF AnswersFirst
  <2> HIDE DEF f
  <2>2. \A g \in firsts : ~(g.task = f.task /\ g.reader = f.reader)
    BY <2>1 DEF OnceForEachThread
  <2>3. seen \in [TcTasks -> View] /\ seen' = [seen EXCEPT ![x.task] = x.view]
        /\ x.task \in TcTasks /\ x.view.kind \in TcKinds
    BY <1>3 DEF AnswersFirst, ClusterTypes
  <2>4. x.view # Cluster!Unseen
    BY <2>3, ClusterConstants DEF Cluster!Unseen
  <2>5. ASSUME NEW g \in firsts' PROVE seen'[g.task] # Cluster!Unseen
    <3>1. CASE g.task = x.task
      BY <2>3, <2>4, <3>1
    <3>2. CASE g.task # x.task
      <4>1. g \in firsts
        BY <2>1, <3>2
      <4>2. seen'[g.task] = seen[g.task]
        BY <2>3, <3>2
      <4> QED BY <4>1, <4>2 DEF OnceForEachThread
    <3> QED BY <3>1, <3>2
  <2>6. \A g, h \in firsts' : g.task = h.task /\ g.reader = h.reader => g = h
    BY <2>1, <2>2 DEF OnceForEachThread
  <2>7. ASSUME NEW q \in Readers, NEW g \in firsts', reader'[q].at = "remember"
        PROVE  ~(g.task = reader'[q].task /\ g.reader = q)
    <3>1. q # r /\ reader'[q] = reader[q]
      BY <1>3, <2>7 DEF Others
    <3> QED BY <2>1, <2>7, <3>1 DEF OnceForEachThread
  <2> QED
    BY <2>5, <2>6, <2>7 DEF OnceForEachThread
<1>4. ASSUME NEW r \in Readers, Others(r), NEW x, Gives(r, x), reader'[r].at \in {"task", "write"}
      PROVE  OnceForEachThread'
  BY <1>2, <1>3, <1>4 DEF Gives, AnswersMissing, AnswersSeen
<1>5. ASSUME NEW r \in Readers, Others(r), Settles(r) PROVE OnceForEachThread'
  BY <1>2, <1>5 DEF Settles
<1>6. ASSUME NEW r \in Readers, Others(r), Looks(r) PROVE OnceForEachThread'
  BY <1>2, <1>6 DEF Looks
<1>7. ASSUME NEW r \in Readers, Others(r), GivesNone(r), reader'[r].at \in {"task", "write"}
      PROVE  OnceForEachThread'
  BY <1>2, <1>7 DEF GivesNone
<1> QED
  BY <1>1, <1>4, <1>5, <1>6, <1>7, ClusterSteps

LEMMA SameStep ==
  ASSUME ClusterTypes, RecordsShowTheFirst, SameWhileUnchanged, [Cluster!Next]_tcVars
  PROVE  SameWhileUnchanged'
<1> DEFINE Sees(e) == e.at \in {"log", "compare", "remember"} /\ changes[e.task] = 0 =>
                        e.view.artifacts = listed[e.task]
           Warned == \A g \in given_up, k \in TcKinds :
                       k \in g.differs => g.task \in TcTasks /\ Excused(g, k)
<1>1. ASSUME UNCHANGED <<seen, reader, firsts, given_up>>,
             \/ UNCHANGED <<changes, listed>>
             \/ \E t \in TcTasks :
                  /\ changes'[t] # 0
                  /\ \A u \in TcTasks \ {t} : changes'[u] = changes[u] /\ listed'[u] = listed[u]
      PROVE  SameWhileUnchanged'
  <2>1. CASE UNCHANGED <<changes, listed>>
    BY <1>1, <2>1 DEF SameWhileUnchanged, SameArtifacts, Excused
  <2>2. ASSUME NEW t \in TcTasks, changes'[t] # 0,
               \A u \in TcTasks \ {t} : changes'[u] = changes[u] /\ listed'[u] = listed[u]
        PROVE  SameWhileUnchanged'
    <3>1. ASSUME NEW u \in TcTasks, changes'[u] = 0 PROVE SameArtifacts(u)'
      <4>1. u # t /\ changes[u] = 0 /\ listed'[u] = listed[u]
        BY <2>2, <3>1
      <4>2. SameArtifacts(u)
        BY <4>1 DEF SameWhileUnchanged
      <4> QED BY <1>1, <4>1, <4>2 DEF SameArtifacts
    <3>2. Warned'
      BY <1>1, <2>2 DEF SameWhileUnchanged, Excused
    <3> QED BY <3>1, <3>2 DEF SameWhileUnchanged
  <2> QED
    BY <1>1, <2>1, <2>2
<1>2. ASSUME NEW r \in Readers, Others(r), UNCHANGED <<changes, listed>>,
             \A t \in TcTasks : changes[t] = 0 /\ reader'[r].at \in {"log", "compare", "remember"}
               /\ reader'[r].task = t => reader'[r].view.artifacts = listed[t],
             \A f \in firsts' \ firsts : f.task = reader[r].task /\ f.view = reader[r].view
               /\ reader[r].at = "remember",
             firsts \subseteq firsts',
             Warned'
      PROVE  SameWhileUnchanged'
  <2>1. ASSUME NEW t \in TcTasks, changes[t] = 0 PROVE SameArtifacts(t)'
    <3>1. SameArtifacts(t)
      BY <2>1 DEF SameWhileUnchanged
    <3>2. ASSUME NEW f \in firsts', f.task = t PROVE f.view.artifacts = listed[t]
      BY <1>2, <3>1, <3>2 DEF SameArtifacts
    <3>3. ASSUME NEW q \in Readers, reader'[q].at \in {"log", "compare", "remember"},
                 reader'[q].task = t
          PROVE  reader'[q].view.artifacts = listed[t]
      <4>1. CASE q = r
        BY <1>2, <2>1, <3>3, <4>1
      <4>2. CASE q # r
        BY <1>2, <3>1, <3>3, <4>2 DEF SameArtifacts, Others
      <4> QED BY <4>1, <4>2
    <3> QED BY <1>2, <3>2, <3>3 DEF SameArtifacts
  <2> QED BY <1>2, <2>1 DEF SameWhileUnchanged
<1>3. ASSUME UNCHANGED <<changes, given_up>>, firsts \subseteq firsts' PROVE Warned'
  BY <1>3 DEF SameWhileUnchanged, Excused
<1>4. ASSUME NEW r \in Readers, Others(r), Settles(r) PROVE SameWhileUnchanged'
  BY <1>2, <1>3, <1>4 DEF Settles
<1>5. ASSUME NEW r \in Readers, Others(r), Looks(r) PROVE SameWhileUnchanged'
  <2>1. /\ UNCHANGED <<changes, listed, firsts, given_up>>
        /\ reader'[r].at = "log" => reader'[r].view.artifacts = listed[reader'[r].task]
        /\ reader'[r].at \in {"compare", "remember"} =>
             /\ reader[r].at \in {"log", "compare"} /\ reader'[r].view = reader[r].view
             /\ reader'[r].task = reader[r].task
    BY <1>5 DEF Looks
  <2>2. ASSUME NEW t \in TcTasks, changes[t] = 0, reader'[r].at \in {"log", "compare", "remember"},
               reader'[r].task = t
        PROVE  reader'[r].view.artifacts = listed[t]
    <3>1. SameArtifacts(t)
      BY <2>2 DEF SameWhileUnchanged
    <3> QED BY <2>1, <2>2, <3>1 DEF SameArtifacts
  <2> QED BY <1>2, <1>3, <1>5, <2>1, <2>2
<1>6. ASSUME NEW r \in Readers, Others(r), reader'[r].at \in {"task", "write"}, NEW x, Gives(r, x),
             UNCHANGED <<changes, listed>>
      PROVE  SameWhileUnchanged'
  <2>1. /\ firsts \subseteq firsts' /\ UNCHANGED given_up
        /\ \A f \in firsts' \ firsts : f.task = reader[r].task /\ f.view = reader[r].view
               /\ reader[r].at = "remember"
    BY <1>6 DEF Gives, AnswersMissing, AnswersSeen, AnswersFirst
  <2> QED BY <1>2, <1>3, <1>6, <2>1
<1>7. ASSUME NEW r \in Readers, Others(r), reader'[r].at \in {"task", "write"}, GivesNone(r),
             UNCHANGED <<changes, listed>>
      PROVE  SameWhileUnchanged'
  <2>1. PICK kinds :
          /\ given_up' = given_up \cup
               {[read |-> reader[r].read, line |-> reader[r].line, task |-> reader[r].task,
                 differs |-> kinds]}
          /\ kinds # {} => /\ reader[r].at = "compare" /\ seen[reader[r].task] # Cluster!Unseen
                           /\ ~Cluster!Extends(reader[r].view, seen[reader[r].task])
                           /\ kinds = {reader[r].view.kind}
    BY <1>7 DEF GivesNone
  <2> DEFINE h == [read |-> reader[r].read, line |-> reader[r].line, task |-> reader[r].task,
                   differs |-> kinds]
             t == reader[r].task
             v == reader[r].view
  <2>2. ASSUME NEW k \in TcKinds, k \in h.differs PROVE h.task \in TcTasks /\ Excused(h, k)
    <3>1. /\ reader[r].at = "compare" /\ seen[t] # Cluster!Unseen
          /\ ~Cluster!Extends(v, seen[t]) /\ k = v.kind
      BY <2>1, <2>2
    <3>2. t \in TcTasks /\ v \in View /\ seen[t] \in View
      <4>1. reader[r].at \in Resolving
        BY <3>1 DEF Resolving
      <4> QED BY <4>1 DEF ClusterTypes, ReaderState
    <3>3. PICK f \in firsts : f.task = t /\ f.view = seen[t]
      BY <3>1, <3>2 DEF RecordsShowTheFirst
    <3>4. CASE changes[t] = 0
      <4>1. seen[t].artifacts = listed[t] /\ v.artifacts = listed[t]
        BY <3>1, <3>2, <3>3, <3>4 DEF SameWhileUnchanged, SameArtifacts
      <4>2. Len(listed[t]) \in Nat
        BY <3>2, ClusterConstants DEF ClusterTypes
      <4>3. Cluster!IsPrefix(seen[t].artifacts, v.artifacts)
        BY <4>1, <4>2 DEF Cluster!IsPrefix
      <4>4. ~(LeftOfMessages[seen[t].kind] \subseteq LeftOfMessages[v.kind])
        BY <3>1, <4>3 DEF Cluster!Extends
      <4> QED BY <3>1, <3>2, <3>3, <4>4 DEF Excused
    <3>5. CASE changes[t] # 0
      BY <3>2, <3>5 DEF Excused
    <3> QED BY <3>4, <3>5
  <2>3. given_up' = given_up \cup {h} /\ UNCHANGED firsts
    BY <1>7, <2>1 DEF GivesNone
  <2> HIDE DEF h
  <2>4. Warned'
    BY <1>7, <2>2, <2>3 DEF SameWhileUnchanged, Excused
  <2> QED BY <1>2, <1>7, <2>3, <2>4
<1> QED
  BY <1>1, <1>4, <1>5, <1>6, <1>7, ClusterSteps

(* Records with one source each, and a block nobody else reads.            *)
LEMMA ApartStep ==
  ASSUME ClusterTypes, BlocksApart, [Cluster!Next]_tcVars PROVE BlocksApart'
<1> USE DEF Cluster!OneSourceForABlock
<1>1. CASE UNCHANGED <<reader, tc_records, ended, reads>>
  BY <1>1 DEF BlocksApart
<1>2. reads \in Nat
  BY DEF ClusterTypes
<1>3. ASSUME NEW r \in Readers, Others(r), Begins(r) PROVE BlocksApart'
  <2>1. /\ reader'[r].at = "task" /\ reader'[r].read = reads + 1 /\ reader'[r].output = {}
        /\ reads' = reads + 1 /\ UNCHANGED <<tc_records, ended>>
        /\ \A q \in Readers \ {r} : reader'[q] = reader[q]
    BY <1>3 DEF Begins, Others
  <2>2. /\ reads + 1 \in 1 .. reads' /\ 1 .. reads \subseteq 1 .. reads'
        /\ \A n \in 1 .. reads : n # reads + 1
    BY <1>2, <2>1
  <2> QED
    BY <2>1, <2>2 DEF BlocksApart
<1>4. ASSUME NEW r \in Readers, Others(r), Moves(r) PROVE BlocksApart'
  <2>1. /\ reader[r].at # "rest" /\ reader'[r].at # "rest"
        /\ reader'[r].read = reader[r].read /\ reader'[r].output = reader[r].output
        /\ (reader[r].source # 0 => reader'[r].source = reader[r].source)
        /\ UNCHANGED <<tc_records, ended, reads>>
        /\ \A q \in Readers \ {r} : reader'[q] = reader[q]
    BY <1>4 DEF Moves, Others
  <2> QED
    BY <2>1 DEF BlocksApart
<1>5. ASSUME NEW r \in Readers, Others(r), Answers(r), NEW x, Records(r, x) PROVE BlocksApart'
  <2>1. /\ reader[r].at # "rest" /\ reader'[r].at # "rest"
        /\ reader'[r].read = reader[r].read /\ reader'[r].output = reader[r].output \cup {x}
        /\ x.read = reader[r].read /\ x.source = reader'[r].source /\ reader'[r].source # 0
        /\ (reader[r].source # 0 => reader'[r].source = reader[r].source)
        /\ UNCHANGED <<tc_records, ended, reads>>
        /\ \A q \in Readers \ {r} : reader'[q] = reader[q]
    BY <1>5 DEF Answers, Records, Others
  <2>2. \A y \in reader'[r].output :
          y.read = reader'[r].read /\ y.source = reader'[r].source /\ reader'[r].source # 0
    BY <2>1 DEF BlocksApart
  <2> QED
    BY <2>1, <2>2 DEF BlocksApart
<1>6. ASSUME NEW r \in Readers, Others(r), Answers(r), NEW g, GivesUp(r, g) PROVE BlocksApart'
  <2>1. /\ reader[r].at # "rest" /\ reader'[r].at # "rest"
        /\ reader'[r].read = reader[r].read /\ reader'[r].output = reader[r].output
        /\ reader'[r].source = reader[r].source
        /\ UNCHANGED <<tc_records, ended, reads>>
        /\ \A q \in Readers \ {r} : reader'[q] = reader[q]
    BY <1>6 DEF Answers, GivesUp, Others
  <2> QED
    BY <2>1 DEF BlocksApart
<1>7. ASSUME NEW r \in Readers, Others(r), Leaves(r) PROVE BlocksApart'
  <2>1. /\ reader[r].at # "rest" /\ reader'[r].at = "rest" /\ reader'[r].output = {}
        /\ UNCHANGED reads
        /\ \A q \in Readers \ {r} : reader'[q] = reader[q]
    BY <1>7 DEF Leaves, Others
  <2>2. CASE UNCHANGED <<tc_records, ended>>
    BY <2>1, <2>2 DEF BlocksApart
  <2>3. CASE /\ tc_records' = tc_records \cup reader[r].output
             /\ ended' = ended \cup {reader[r].read}
    <3>1. /\ reader[r].read \in 1 .. reads /\ reader[r].read \notin ended /\ ended \subseteq 1 .. reads
          /\ \A y \in reader[r].output : y.read = reader[r].read /\ y.source = reader[r].source
          /\ \A y \in tc_records : y.read \in ended
          /\ \A y, z \in tc_records : y.read = z.read => y.source = z.source
      BY <2>1 DEF BlocksApart
    <3>2. ended' \subseteq 1 .. reads' /\ \A y \in tc_records' : y.read \in ended'
      BY <2>1, <2>3, <3>1
    <3>3. \A y, z \in tc_records' : y.read = z.read => y.source = z.source
      BY <2>3, <3>1
    <3>4. ASSUME NEW q \in Readers, reader'[q].at # "rest"
          PROVE  /\ reader'[q].read \in 1 .. reads' /\ reader'[q].read \notin ended'
                 /\ \A s \in Readers :
                      reader'[s].at # "rest" /\ reader'[s].read = reader'[q].read => s = q
      <4>1. q # r /\ reader'[q] = reader[q]
        BY <2>1, <3>4
      <4>2. reader[q].read # reader[r].read /\ reader[q].read \in 1 .. reads /\ reader[q].read \notin ended
        BY <2>1, <3>4, <4>1 DEF BlocksApart
      <4>3. ASSUME NEW s \in Readers, reader'[s].at # "rest", reader'[s].read = reader'[q].read
            PROVE  s = q
        <5>1. s # r /\ reader'[s] = reader[s]
          BY <2>1, <4>3
        <5> QED
          BY <3>4, <4>1, <4>3, <5>1 DEF BlocksApart
      <4> QED
        BY <2>1, <2>3, <4>1, <4>2, <4>3
    <3>5. \A q \in Readers : \A y \in reader'[q].output :
            /\ reader'[q].at # "rest"
            /\ y.read = reader'[q].read /\ y.source = reader'[q].source /\ reader'[q].source # 0
      BY <2>1 DEF BlocksApart
    <3> QED
      BY <3>2, <3>3, <3>4, <3>5 DEF BlocksApart
  <2> QED
    BY <1>7, <2>2, <2>3 DEF Leaves
<1> QED
  BY <1>1, <1>3, <1>4, <1>5, <1>6, <1>7, ClusterSteps DEF ReaderStep

(* A line gets its answer before the next one is read.                     *)
LEMMA LinesStep ==
  ASSUME ClusterTypes, LinesBehind, [Cluster!Next]_tcVars PROVE LinesBehind'
<1>1. CASE UNCHANGED <<reader, tc_records, given_up, ended>>
  BY <1>1 DEF LinesBehind, AnsweredIn
<1> DEFINE Behind(e, G) ==
             /\ \A l \in 0 .. e.line - 1 : AnsweredIn(e.output \cup G, e.read, l)
             /\ e.at = "write" => e.line = TcLines
           Whole(E, X) == \A n \in E, l \in 0 .. TcLines - 1 : AnsweredIn(X, n, l)
<1>2. /\ \A r \in Readers : reader[r].at # "rest" => Behind(reader[r], given_up)
      /\ Whole(ended, tc_records \cup given_up)
  BY DEF LinesBehind
<1>3. ASSUME NEW r \in Readers, Others(r), given_up \subseteq given_up',
             reader'[r].at # "rest" => Behind(reader'[r], given_up'),
             Whole(ended', tc_records' \cup given_up')
      PROVE  LinesBehind'
  <2>1. ASSUME NEW q \in Readers, reader'[q].at # "rest" PROVE Behind(reader'[q], given_up')
    <3>1. CASE q = r
      BY <1>3, <2>1, <3>1
    <3>2. CASE q # r
      <4>1. reader'[q] = reader[q]
        BY <1>3, <3>2 DEF Others
      <4>2. Behind(reader[q], given_up)
        BY <1>2, <2>1, <4>1
      <4> QED
        BY <1>3, <4>1, <4>2 DEF AnsweredIn
    <3> QED
      BY <3>1, <3>2, Zenon
  <2> QED
    BY <1>3, <2>1 DEF LinesBehind
<1>4. ASSUME UNCHANGED <<tc_records, ended>>, given_up \subseteq given_up'
      PROVE  Whole(ended', tc_records' \cup given_up')
  BY <1>2, <1>4 DEF AnsweredIn
<1>5. ASSUME NEW r \in Readers, Others(r), Begins(r) PROVE LinesBehind'
  <2>1. Behind(reader'[r], given_up')
    BY <1>5 DEF Begins
  <2>2. UNCHANGED <<tc_records, ended>> /\ given_up \subseteq given_up'
    BY <1>5 DEF Begins
  <2> HIDE DEF Behind, Whole
  <2> QED
    BY <1>3, <1>4, <1>5, <2>1, <2>2
<1>6. ASSUME NEW r \in Readers, Others(r), Moves(r) PROVE LinesBehind'
  <2>1. /\ reader[r].at # "rest" /\ reader'[r].at # "write"
        /\ reader'[r].read = reader[r].read /\ reader'[r].line = reader[r].line
        /\ reader'[r].output = reader[r].output
        /\ UNCHANGED <<tc_records, ended, given_up>>
    BY <1>6 DEF Moves
  <2>2. Behind(reader'[r], given_up')
    BY <1>2, <2>1, Zenon
  <2> HIDE DEF Behind, Whole
  <2> QED
    BY <1>3, <1>4, <1>6, <2>1, <2>2
<1>7. ASSUME NEW r \in Readers, Others(r), Answers(r), given_up \subseteq given_up',
             reader[r].output \subseteq reader'[r].output,
             \E x \in reader'[r].output \cup given_up' : x.read = reader[r].read /\ x.line = reader[r].line
      PROVE  LinesBehind'
  <2>1. /\ reader[r].at # "rest" /\ reader'[r].read = reader[r].read
        /\ reader'[r].line = reader[r].line + 1
        /\ (reader'[r].at = "write" => reader'[r].line = TcLines)
        /\ UNCHANGED <<tc_records, ended>>
    BY <1>7 DEF Answers
  <2>2. reader[r].line \in Nat
    BY DEF ClusterTypes, ReaderState
  <2>3. ASSUME NEW l \in 0 .. reader'[r].line - 1
        PROVE  AnsweredIn(reader'[r].output \cup given_up', reader'[r].read, l)
    <3>1. CASE l = reader[r].line
      BY <1>7, <2>1, <3>1 DEF AnsweredIn
    <3>2. CASE l # reader[r].line
      <4>1. l \in 0 .. reader[r].line - 1
        BY <2>1, <2>2, <3>2
      <4>2. AnsweredIn(reader[r].output \cup given_up, reader[r].read, l)
        BY <1>2, <2>1, <4>1, Zenon
      <4> QED
        BY <1>7, <2>1, <4>2 DEF AnsweredIn
    <3> QED
      BY <3>1, <3>2
  <2>4. Behind(reader'[r], given_up')
    BY <2>1, <2>3
  <2> HIDE DEF Behind, Whole
  <2> QED
    BY <1>3, <1>4, <1>7, <2>1, <2>4
<1>8. ASSUME NEW r \in Readers, Others(r), Answers(r), NEW x, Records(r, x) PROVE LinesBehind'
  <2>1. /\ given_up \subseteq given_up' /\ reader[r].output \subseteq reader'[r].output
        /\ \E y \in reader'[r].output \cup given_up' : y.read = reader[r].read /\ y.line = reader[r].line
    BY <1>8 DEF Records
  <2> QED
    BY <1>7, <1>8, <2>1
<1>9. ASSUME NEW r \in Readers, Others(r), Answers(r), NEW g, GivesUp(r, g) PROVE LinesBehind'
  <2>1. /\ given_up \subseteq given_up' /\ reader[r].output \subseteq reader'[r].output
        /\ \E y \in reader'[r].output \cup given_up' : y.read = reader[r].read /\ y.line = reader[r].line
    BY <1>9 DEF GivesUp
  <2> QED
    BY <1>7, <1>9, <2>1
<1>10. ASSUME NEW r \in Readers, Others(r), Leaves(r) PROVE LinesBehind'
  <2>1. reader[r].at # "rest" /\ reader'[r].at = "rest" /\ UNCHANGED given_up
    BY <1>10 DEF Leaves
  <2>2. Whole(ended', tc_records' \cup given_up')
    <3>1. CASE UNCHANGED <<tc_records, ended>>
      BY <1>4, <2>1, <3>1, Zenon
    <3>2. CASE /\ reader[r].at = "write" /\ tc_records' = tc_records \cup reader[r].output
               /\ ended' = ended \cup {reader[r].read}
      <4>1. reader[r].line = TcLines /\ Behind(reader[r], given_up)
        BY <1>2, <3>2
      <4>2. ASSUME NEW n \in ended', NEW l \in 0 .. TcLines - 1
            PROVE  AnsweredIn(tc_records' \cup given_up', n, l)
        <5>1. CASE n \in ended
          BY <1>2, <2>1, <3>2, <5>1 DEF AnsweredIn
        <5>2. CASE n = reader[r].read
          <6>1. AnsweredIn(reader[r].output \cup given_up, n, l)
            BY <4>1, <5>2
          <6> QED
            BY <2>1, <3>2, <6>1 DEF AnsweredIn
        <5> QED
          BY <3>2, <5>1, <5>2
      <4> QED
        BY <4>2
    <3> QED
      BY <1>10, <3>1, <3>2, Zenon DEF Leaves
  <2> HIDE DEF Behind, Whole
  <2> QED
    BY <1>3, <1>10, <2>1, <2>2
<1> QED
  BY <1>1, <1>5, <1>6, <1>8, <1>9, <1>10, ClusterSteps DEF ReaderStep

LEMMA ClusterInit == Cluster!Init => ClusterInv
<1> SUFFICES ASSUME Cluster!Init PROVE ClusterInv
  OBVIOUS
<1>1. /\ changes = [t \in TcTasks |-> 0]
      /\ listed \in [TcTasks -> ListsOfArtifacts]
      /\ seen = [t \in TcTasks |-> Cluster!Unseen] /\ reader = [r \in Readers |-> Cluster!Idle]
      /\ tc_records = {} /\ given_up = {} /\ ended = {} /\ reads = 0 /\ firsts = {}
  BY DEF Cluster!Init
<1>2. \A r \in Readers : /\ reader[r] \in ReaderState /\ reader[r].at = "rest" /\ reader[r].output = {}
  BY <1>1, IdleIs
<1>3. reader \in [Readers -> ReaderState] /\ seen \in [TcTasks -> View]
  BY <1>1, IdleIs, ViewTypes
<1>4. changes \in [TcTasks -> 0 .. MaxChanges]
  BY <1>1, ClusterConstants
<1>5. ClusterTypes
  BY <1>1, <1>2, <1>3, <1>4, Zenon DEF ClusterTypes, Resolving
<1>6. RecordsShowTheFirst /\ OnceForEachThread /\ BlocksApart
  BY <1>1, <1>2 DEF RecordsShowTheFirst, OnceForEachThread, BlocksApart, Cluster!OneSourceForABlock
<1>7. LinesBehind /\ SameWhileUnchanged
  BY <1>1, <1>2 DEF LinesBehind, SameWhileUnchanged, SameArtifacts
<1> QED
  BY <1>5, <1>6, <1>7 DEF ClusterInv

(* pulse_block_to_task_cluster: whichever calls fail and whenever tasks    *)
(* change, each record of a task says at least what a thread of its        *)
(* process saw first of it, a thread has but one first view of a task, the *)
(* records of a block have one source, every line of a block that was      *)
(* written is answered, and no line is given up for what it shows unless   *)
(* its task changed or a first message left more                           *)
(* (pulse_block_to_task_cluster.py 50-221).                                *)
THEOREM RecordsOfTasksAgree == Cluster!Spec => []TaskRecordsAgree
<1>1. Cluster!Init => ClusterInv
  BY ClusterInit
<1>2. ClusterInv /\ [Cluster!Next]_tcVars => ClusterInv'
  <2> SUFFICES ASSUME ClusterInv, [Cluster!Next]_tcVars PROVE ClusterInv'
    OBVIOUS
  <2>1. ClusterTypes /\ ClusterTypes'
    BY ClusterSteps DEF ClusterInv
  <2>2. RecordsShowTheFirst' /\ OnceForEachThread' /\ BlocksApart'
    BY <2>1, ShowsStep, OnceStep, ApartStep DEF ClusterInv
  <2>3. LinesBehind' /\ SameWhileUnchanged'
    BY <2>1, LinesStep, SameStep DEF ClusterInv
  <2> QED
    BY <2>1, <2>2, <2>3 DEF ClusterInv
<1>3. ClusterInv => TaskRecordsAgree
  <2> SUFFICES ASSUME ClusterInv PROVE TaskRecordsAgree
    OBVIOUS
  <2>1. Cluster!FirstViewsStand
    BY DEF Cluster!FirstViewsStand, ClusterInv, RecordsShowTheFirst, OnceForEachThread, Shows
  <2>2. Cluster!OneSourceForABlock
    BY DEF ClusterInv, BlocksApart
  <2>3. Cluster!LinesAreAnswered
    <3>1. ASSUME NEW g \in given_up, NEW k \in TcKinds, k \in g.differs
          PROVE  \/ changes[g.task] > 0
                 \/ \E f \in firsts : f.task = g.task
                      /\ ~(LeftOfMessages[f.view.kind] \subseteq LeftOfMessages[k])
      <4>1. g.task \in TcTasks /\ Excused(g, k)
        BY <3>1 DEF ClusterInv, SameWhileUnchanged
      <4>2. changes[g.task] \in Nat
        BY <4>1, ClusterConstants DEF ClusterInv, ClusterTypes
      <4> QED
        BY <4>1, <4>2 DEF Excused
    <3> QED
      BY <3>1 DEF Cluster!LinesAreAnswered, ClusterInv, LinesBehind, AnsweredIn
  <2> QED
    BY <2>1, <2>2, <2>3 DEF TaskRecordsAgree
<1> QED
  BY <1>1, <1>2, <1>3, PTL DEF Cluster!Spec, Cluster!tcVars, tcVars

-----------------------------------------------------------------------------
(* Transforms.  The records of an attempt go to places where it has none   *)
(* yet, and its keys are numbered on, so that the loop finds all of them.  *)

Key == Seq(Nat)

Stamped == [key : Key, id : Nat, try : Nat]

OfTry(S) == {r \in S : r.try = try}

BlockTypes ==
  /\ block \in Blocks!Blocks
  /\ at \in {"ready", "lines", "stored", "dropped", "failed"}
  /\ line \in 0 .. Len(block) /\ counter \in Nat /\ next_id \in Nat
  /\ try \in Nat /\ wrote \in Nat
  /\ gap \in BOOLEAN /\ clash \in BOOLEAN
  /\ store \in SUBSET Stamped /\ IsFiniteSet(store) /\ docs \in SUBSET Stamped /\ IsFiniteSet(docs)
  /\ \A r \in store : r.try <= try
  /\ \A d \in docs : d.try = try

(* A transform writes its records at the end, or as it goes.               *)
AtTheEnd == {"pulse2es", "joblogs", "buildbot"}

(* Where an attempt has been.                                              *)
Passed(r) ==
  /\ worker = "perfherder" => \A c \in Nat :
       r.key = <<c>> => c < counter \/ (c = counter /\ r.id < next_id)
  /\ worker = "tcPerfherder" => \A c \in Nat : r.key = <<c>> => c < line
  /\ worker \in {"testResults", "tcTestResult"} => \A c \in Nat : r.key = <<c>> => c < next_id
  /\ worker \in Blocks!PerLine => \A l, c \in Nat :
       r.key = <<l, c>> => l < line \/ (l = line /\ c < next_id)

RecordsFresh ==
  at = "lines" /\ ~clash =>
    /\ IF worker \in AtTheEnd THEN OfTry(store) = {} ELSE docs = {}
    /\ Cardinality(OfTry(store)) + Cardinality(docs) = wrote
    /\ worker = "pulse2es" => \A d \in docs, l \in Nat : d.key = <<l>> => l < line
    /\ worker = "joblogs" => \A d \in docs : d.id < counter
    /\ worker = "buildbot" => \A d \in docs : d.id < line
    /\ \A r \in OfTry(store) : Passed(r)

Numbered(m) == Blocks!Ids(keys) = 0 .. m - 1

(* While every line gave something, the numbers of the keys have no gap    *)
(* and their objects exist.                                                *)
KeysNumbered ==
  at = "lines" /\ ~gap =>
    /\ worker # "pulse2es" => \A k \in keys : Blocks!Stored(k)
    /\ worker \in {"pulse2es", "tcPerfherder"} => Numbered(line)
    /\ worker = "perfherder" => Numbered(counter) \/ Numbered(counter + 1)
    /\ worker \in {"testResults", "tcTestResult"} => Numbered(next_id)
    /\ worker \in Blocks!PerLine => \E m \in Nat : m >= next_id /\ Numbered(m)
    /\ worker = "joblogs" /\ line > 0 => \E d \in docs : d.key = <<0>>
    /\ worker \notin {"joblogs", "buildbot"} /\ (line > 0 \/ counter > 0) => keys # {}

BlockInv ==
  /\ worker \in Workers
  /\ BlockTypes /\ RecordsFresh /\ KeysNumbered
  /\ at \in {"ready", "lines"} => announced = {}
  /\ Blocks!AnnouncedExists /\ Blocks!DroppedIsIncomplete /\ Blocks!RecordsKeepApart

(* The set theory of the destination.                                      *)

LEMMA BlocksCardinality == ASSUME NEW S PROVE Blocks!Cardinality(S) = Cardinality(S)
  BY DEF Blocks!Cardinality, Cardinality

(* A generator gives each record a number of its own.                      *)
Generated(key, b, n) == {Blocks!Record(key, b + k) : k \in 0 .. n - 1}

LEMMA GeneratedAreDistinct ==
  ASSUME NEW key, NEW b \in Nat, NEW n \in Nat
  PROVE  IsFiniteSet(Generated(key, b, n)) /\ Cardinality(Generated(key, b, n)) = n
<1> DEFINE D == 0 .. n - 1
           R == {Blocks!Record(key, b + k) : k \in D}
           f == [k \in D |-> Blocks!Record(key, b + k)]
<1>1. IsFiniteSet(D) /\ Cardinality(D) = n
  BY FS_Interval
<1>2. \A i, j \in D : f[i] = f[j] => i = j
  BY DEF Blocks!Record
<1>3. f \in [D -> R] /\ \A r \in R : \E k \in D : f[k] = r
  OBVIOUS
<1> HIDE DEF D, R, f
<1>4. f \in Bijection(D, R)
  BY <1>2, <1>3, Fun_IsBij
<1>5. ExistsBijection(D, R)
  BY <1>4 DEF ExistsBijection
<1> QED
  BY <1>1, <1>5, FS_Bijection DEF D, R, Generated

(* The records of an attempt and those it adds in places it has none.      *)
LEMMA ExtendFacts ==
  ASSUME BlockTypes, NEW R \in SUBSET Stamped, IsFiniteSet(R), \A d \in R : d.try = try
  PROVE  LET E == Blocks!Extended(R)
         IN  /\ E \in SUBSET Stamped /\ IsFiniteSet(E) /\ \A r \in E : r.try <= try
             /\ \A k : (Blocks!Stored(k) \/ \E d \in R : d.key = k) => \E r \in E : r.key = k
             /\ OfTry(E) \subseteq OfTry(store) \cup R
             /\ (\A d \in R, r \in OfTry(store) : <<d.key, d.id>> # <<r.key, r.id>>) =>
                  Cardinality(OfTry(E)) = Cardinality(OfTry(store)) + Cardinality(R)
<1> DEFINE E == Blocks!Extended(R)
<1>1. /\ store \in SUBSET Stamped /\ IsFiniteSet(store) /\ try \in Nat /\ \A r \in store : r.try <= try
  BY DEF BlockTypes
<1>2. /\ E \subseteq store \cup R /\ R \subseteq E
      /\ \A r \in store : (\A d \in R : <<d.key, d.id>> # <<r.key, r.id>>) => r \in E
      /\ \A r \in store : r \notin E => \E d \in R : d.key = r.key
  BY DEF Blocks!Extended
<1> HIDE DEF E
<1>3. IsFiniteSet(store \cup R)
  BY <1>1, FS_Union
<1>4. IsFiniteSet(E)
  BY <1>2, <1>3, FS_Subset
<1>5. E \in SUBSET Stamped /\ \A r \in E : r.try <= try
  BY <1>1, <1>2
<1>6. ASSUME NEW k, Blocks!Stored(k) \/ \E d \in R : d.key = k PROVE \E r \in E : r.key = k
  BY <1>2, <1>6 DEF Blocks!Stored
<1>7. OfTry(E) \subseteq OfTry(store) \cup R
  BY <1>2 DEF OfTry
<1>8. ASSUME \A d \in R, r \in OfTry(store) : <<d.key, d.id>> # <<r.key, r.id>>
      PROVE  Cardinality(OfTry(E)) = Cardinality(OfTry(store)) + Cardinality(R)
  <2>1. OfTry(E) = OfTry(store) \cup R
    BY <1>2, <1>8 DEF OfTry
  <2>2. OfTry(store) \cap R = {}
    BY <1>8 DEF OfTry
  <2>3. IsFiniteSet(OfTry(store)) /\ Cardinality(OfTry(store)) \in Nat /\ Cardinality(R) \in Nat
    BY <1>1, FS_Subset, FS_CardinalityType DEF OfTry
  <2>4. /\ Cardinality(OfTry(store) \cap R) = 0
        /\ Cardinality(OfTry(store) \cup R) =
             Cardinality(OfTry(store)) + Cardinality(R) - Cardinality(OfTry(store) \cap R)
    BY <2>2, <2>3, FS_Union, FS_EmptySet
  <2> QED
    BY <2>1, <2>3, <2>4
<1> QED
  BY <1>4, <1>5, <1>6, <1>7, <1>8 DEF E

LEMMA OverwriteFacts ==
  ASSUME BlockTypes, NEW k \in Key, Blocks!Overwrite(k)
  PROVE  /\ store' \in SUBSET Stamped /\ IsFiniteSet(store') /\ \A r \in store' : r.try <= try
         /\ \A j : (Blocks!Stored(j) \/ j = k) => \E r \in store' : r.key = j
         /\ OfTry(store') \subseteq OfTry(store) \cup {Blocks!Record(k, 0)}
         /\ (\A r \in OfTry(store) : r.key # k) =>
              Cardinality(OfTry(store')) = Cardinality(OfTry(store)) + 1
         /\ wrote' = wrote + 1
<1> DEFINE x == Blocks!Record(k, 0)
<1>1. /\ store \in SUBSET Stamped /\ IsFiniteSet(store) /\ try \in Nat /\ \A r \in store : r.try <= try
  BY DEF BlockTypes
<1>2. x \in Stamped /\ x.key = k /\ x.try = try
  BY <1>1 DEF Blocks!Record, Stamped
<1>3. store' = {r \in store : r.key # k} \cup {x} /\ wrote' = wrote + 1
  BY DEF Blocks!Overwrite
<1> HIDE DEF x
<1>4. IsFiniteSet(store \cup {x}) /\ store' \subseteq store \cup {x}
  BY <1>1, <1>3, FS_AddElement
<1>5. IsFiniteSet(store')
  BY <1>4, FS_Subset
<1>6. /\ OfTry(store') \subseteq OfTry(store) \cup {x}
      /\ (\A r \in OfTry(store) : r.key # k) =>
           OfTry(store') = OfTry(store) \cup {x} /\ x \notin OfTry(store)
  BY <1>2, <1>3 DEF OfTry
<1>7. IsFiniteSet(OfTry(store)) /\ Cardinality(OfTry(store)) \in Nat
  BY <1>1, FS_Subset, FS_CardinalityType DEF OfTry
<1>8. (\A r \in OfTry(store) : r.key # k) => Cardinality(OfTry(store')) = Cardinality(OfTry(store)) + 1
  BY <1>6, <1>7, FS_AddElement
<1>9. \A j : (Blocks!Stored(j) \/ j = k) => \E r \in store' : r.key = j
  BY <1>2, <1>3 DEF Blocks!Stored
<1> QED
  BY <1>1, <1>2, <1>3, <1>4, <1>5, <1>6, <1>8, <1>9 DEF x

(* The numbers of keys with one key more.                                  *)
LEMMA IdsOfMore ==
  ASSUME NEW S, NEW c \in Nat
  PROVE  /\ Blocks!Ids(S \cup {<<c>>}) = Blocks!Ids(S) \cup {c}
         /\ \A l \in Nat : Blocks!Ids(S \cup {<<l, c>>}) = Blocks!Ids(S) \cup {c}
         /\ Blocks!Ids({}) = {} /\ Blocks!Ids({<<c>>}) = {c}
         /\ S # {} => Blocks!Ids(S) # {}
<1> DEFINE Last(k) == IF k = << >> THEN source_id ELSE k[Len(k)]
<1>1. Last(<<c>>) = c /\ \A l \in Nat : Last(<<l, c>>) = c
  OBVIOUS
<1>2. \A ks : Blocks!Ids(ks) = {Last(k) : k \in ks}
  BY DEF Blocks!Ids
<1> HIDE DEF Last
<1> QED
  BY <1>1, <1>2

LEMMA IntervalsGrow ==
  ASSUME NEW m \in Nat
  PROVE  /\ 0 .. m = (0 .. m - 1) \cup {m}
         /\ \A c \in 0 .. m - 1 : (0 .. m - 1) \cup {c} = 0 .. m - 1
  OBVIOUS

LEMMA BlockLength ==
  ASSUME block \in Blocks!Blocks
  PROVE  Len(block) \in Nat /\ Len(block) > 0 /\ Len(block) <= BlockLines
<1>1. PICK n \in 1 .. BlockLines : block \in [1 .. n -> {"blank", "record"}]
  BY DEF Blocks!Blocks
<1>2. n \in Nat /\ n > 0
  BY RecordsAssumption DEF Blocks!TransformsAssumption
<1>3. block \in Seq({"blank", "record"}) /\ DOMAIN block = 1 .. n
  BY <1>1, <1>2
<1>4. Len(block) \in Nat /\ 1 .. Len(block) = 1 .. n
  BY <1>3
<1> QED
  BY <1>2, <1>4

(* What is to show of a step that reads on.                                *)
Going == BlockTypes /\ at = "lines" /\ line < Len(block)

StaysTyped ==
  /\ at' = "lines" /\ line' \in {line, line + 1} /\ counter' \in Nat /\ next_id' \in Nat /\ wrote' \in Nat
  /\ gap' \in BOOLEAN /\ clash' \in BOOLEAN
  /\ store' \in SUBSET Stamped /\ IsFiniteSet(store') /\ \A r \in store' : r.try <= try
  /\ docs' \in SUBSET Stamped /\ IsFiniteSet(docs') /\ \A d \in docs' : d.try = try
  /\ UNCHANGED <<block, try>>

LEMMA TypesStay == ASSUME Going, StaysTyped PROVE BlockTypes'
<1>1. line' \in 0 .. Len(block)
  BY BlockLength DEF Going, BlockTypes, StaysTyped
<1> QED
  BY <1>1 DEF Going, BlockTypes, StaysTyped

LEMMA GoingTypes ==
  ASSUME Going
  PROVE  /\ line \in Nat /\ counter \in Nat /\ next_id \in Nat /\ wrote \in Nat /\ try \in Nat
         /\ gap \in BOOLEAN /\ clash \in BOOLEAN
         /\ store \in SUBSET Stamped /\ IsFiniteSet(store) /\ \A r \in store : r.try <= try
         /\ docs \in SUBSET Stamped /\ IsFiniteSet(docs) /\ \A d \in docs : d.try = try
         /\ Cardinality(OfTry(store)) \in Nat /\ Cardinality(docs) \in Nat
<1>1. IsFiniteSet(store) /\ OfTry(store) \subseteq store /\ IsFiniteSet(docs)
  BY DEF Going, BlockTypes, OfTry
<1>2. Cardinality(OfTry(store)) \in Nat /\ Cardinality(docs) \in Nat
  BY <1>1, FS_Subset, FS_CardinalityType
<1> QED
  BY <1>2, BlockLength DEF Going, BlockTypes

(* A line that gives nothing.                                              *)
LEMMA LineGivesNothing ==
  ASSUME Going, RecordsFresh, KeysNumbered, Blocks!BlankLine \/ Blocks!NoLog
  PROVE  BlockTypes' /\ RecordsFresh' /\ KeysNumbered'
<1>1. /\ line' = line + 1 /\ gap' = TRUE /\ at' = "lines"
      /\ UNCHANGED <<worker, block, try, clash, counter, next_id, keys, docs, store, wrote>>
  BY DEF Blocks!BlankLine, Blocks!NoLog, Blocks!NextLine, Blocks!given, Going
<1>2. line \in Nat
  BY GoingTypes
<1>3. BlockTypes'
  BY <1>1, GoingTypes, TypesStay DEF StaysTyped
<1>4. KeysNumbered'
  BY <1>1 DEF KeysNumbered
<1>5. \A r : Passed(r) => Passed(r)'
  BY <1>1, <1>2 DEF Passed
<1>6. OfTry(store)' = OfTry(store)
  BY <1>1 DEF OfTry
<1>7. RecordsFresh'
  <2> SUFFICES ASSUME ~clash PROVE RecordsFresh'
    BY <1>1 DEF RecordsFresh
  <2>1. /\ IF worker \in AtTheEnd THEN OfTry(store) = {} ELSE docs = {}
        /\ Cardinality(OfTry(store)) + Cardinality(docs) = wrote
        /\ worker = "pulse2es" => \A d \in docs, l \in Nat : d.key = <<l>> => l < line
        /\ worker = "joblogs" => \A d \in docs : d.id < counter
        /\ worker = "buildbot" => \A d \in docs : d.id < line
        /\ \A r \in OfTry(store) : Passed(r)
    BY DEF RecordsFresh, Going
  <2>2. worker = "pulse2es" => \A d \in docs, l \in Nat : d.key = <<l>> => l < line + 1
    BY <2>1, <1>2
  <2>3. worker = "buildbot" => \A d \in docs : d.id < line + 1
    BY <2>1, <1>2, GoingTypes DEF Stamped
  <2>4. \A r \in OfTry(store) : Passed(r)'
    BY <2>1, <1>5
  <2> QED
    BY <1>1, <1>6, <2>1, <2>2, <2>3, <2>4 DEF RecordsFresh
<1> QED
  BY <1>3, <1>4, <1>7

(* A line that gives a document, to be written in the end.                 *)
LEMMA LineGivesDocument ==
  ASSUME Going, RecordsFresh, KeysNumbered, Blocks!EsLine \/ Blocks!JobLine \/ Blocks!BuildLine
  PROVE  BlockTypes' /\ RecordsFresh' /\ KeysNumbered'
<1> DEFINE d == IF worker = "pulse2es" THEN Blocks!Record(<<line>>, 0)
                ELSE IF worker = "joblogs" THEN Blocks!Record(<<0>>, counter)
                ELSE Blocks!Record(<< >>, line)
<1>1. /\ worker \in AtTheEnd /\ docs' = docs \cup {d} /\ line' = line + 1 /\ wrote' = wrote + 1 /\ at' = "lines"
      /\ counter' = IF worker = "joblogs" THEN counter + 1 ELSE counter + 0
      /\ keys' = IF worker = "pulse2es" THEN keys \cup {<<line>>} ELSE keys
      /\ UNCHANGED <<worker, block, source_id, try, clash, next_id, store, gap>>
  BY DEF Blocks!EsLine, Blocks!JobLine, Blocks!BuildLine, Blocks!Full, Blocks!Reading, Blocks!Keep,
         Blocks!NextLine, Blocks!given, Going, AtTheEnd
<1>2. /\ line \in Nat /\ counter \in Nat /\ try \in Nat /\ wrote \in Nat
      /\ store \in SUBSET Stamped /\ docs \in SUBSET Stamped /\ IsFiniteSet(docs)
      /\ Cardinality(OfTry(store)) \in Nat /\ Cardinality(docs) \in Nat
  BY GoingTypes
<1>3. /\ d \in Stamped /\ d.try = try
      /\ worker = "pulse2es" => d.key = <<line>>
      /\ worker = "joblogs" => d.key = <<0>> /\ d.id = counter
      /\ worker = "buildbot" => d.id = line
  BY <1>1, <1>2 DEF Blocks!Record, Stamped, Key, AtTheEnd
<1> HIDE DEF d
<1>4. IsFiniteSet(docs') /\ docs' \in SUBSET Stamped
  BY <1>1, <1>2, <1>3, FS_AddElement
<1>5. BlockTypes'
  <2>1. \A x \in docs' : x.try = try
    BY <1>1, <1>3, GoingTypes
  <2> QED
    BY <1>1, <1>4, <2>1, GoingTypes, TypesStay DEF StaysTyped
<1>6. RecordsFresh'
  <2> SUFFICES ASSUME ~clash PROVE RecordsFresh'
    BY <1>1 DEF RecordsFresh
  <2>1. /\ OfTry(store) = {} /\ OfTry(store') = {}
        /\ Cardinality(OfTry(store)) + Cardinality(docs) = wrote
        /\ worker = "pulse2es" => \A x \in docs, l \in Nat : x.key = <<l>> => l < line
        /\ worker = "joblogs" => \A x \in docs : x.id < counter
        /\ worker = "buildbot" => \A x \in docs : x.id < line
    BY <1>1 DEF RecordsFresh, Going, OfTry
  <2>2. d \notin docs
    BY <1>1, <1>2, <1>3, <2>1 DEF AtTheEnd
  <2>3. Cardinality(docs') = Cardinality(docs) + 1
    BY <1>1, <1>2, <2>2, FS_AddElement
  <2>4. worker = "pulse2es" => \A x \in docs', l \in Nat : x.key = <<l>> => l < line + 1
    <3> SUFFICES ASSUME worker = "pulse2es", NEW x \in docs', NEW l \in Nat, x.key = <<l>> PROVE l < line + 1
      OBVIOUS
    <3>1. CASE x \in docs
      BY <1>2, <2>1, <3>1
    <3>2. CASE x = d
      <4>1. <<line>> = <<l>>
        BY <1>3, <3>2
      <4> QED
        BY <1>2, <4>1
    <3> QED
      BY <1>1, <3>1, <3>2
  <2>5. worker = "joblogs" => \A x \in docs' : x.id < counter + 1
    BY <1>1, <1>2, <1>3, <2>1 DEF Stamped
  <2>6. worker = "buildbot" => \A x \in docs' : x.id < line + 1
    BY <1>1, <1>2, <1>3, <2>1 DEF Stamped
  <2>7. OfTry(store)' = {}
    BY <1>1, <2>1 DEF OfTry
  <2>8. Cardinality(OfTry(store))' + Cardinality(docs)' = wrote'
    BY <1>1, <1>2, <2>1, <2>3, <2>7
  <2> QED
    BY <1>1, <2>4, <2>5, <2>6, <2>7, <2>8 DEF RecordsFresh
<1>7. KeysNumbered'
  <2> SUFFICES ASSUME ~gap PROVE KeysNumbered'
    BY <1>1 DEF KeysNumbered
  <2>1. worker = "pulse2es" => Numbered(line) /\ Blocks!Ids(keys') = Blocks!Ids(keys) \cup {line}
    BY <1>1, <1>2, IdsOfMore DEF KeysNumbered, Going
  <2>2. worker = "pulse2es" => Numbered(line)'
    <3>1. 0 .. (line + 1) - 1 = (0 .. line - 1) \cup {line}
      BY <1>2
    <3>2. worker' = "pulse2es" /\ worker = "pulse2es" => Blocks!Ids(keys)' = Blocks!Ids(keys')
      BY <1>1 DEF Blocks!Ids
    <3> QED
      BY <1>1, <2>1, <3>1, <3>2 DEF Numbered
  <2>3. worker = "joblogs" => \E x \in docs' : x.key = <<0>>
    BY <1>1, <1>3
  <2>4. worker # "pulse2es" => \A k \in keys : Blocks!Stored(k)'
    BY <1>1 DEF KeysNumbered, Going, Blocks!Stored
  <2>5. worker \notin {"joblogs", "buildbot"} => keys' # {}
    BY <1>1 DEF AtTheEnd
  <2> QED
    BY <1>1, <2>2, <2>3, <2>4, <2>5 DEF KeysNumbered, AtTheEnd, Blocks!PerLine
<1> QED
  BY <1>5, <1>6, <1>7

(* A build that is too old.                                                *)
LEMMA LineEndsBlock ==
  ASSUME Going, RecordsFresh, KeysNumbered, Blocks!TooOld
  PROVE  BlockTypes' /\ RecordsFresh' /\ KeysNumbered'
<1>1. /\ worker = "buildbot" /\ docs' = {} /\ wrote' = 0 /\ keys' = {} /\ gap' = TRUE /\ at' = "lines"
      /\ line' = Len(block)
      /\ UNCHANGED <<worker, block, try, clash, counter, next_id, store>>
  BY DEF Blocks!TooOld, Blocks!Full, Blocks!Reading, Blocks!given, Going
<1>2. BlockTypes'
  BY <1>1, BlockLength, FS_EmptySet DEF BlockTypes, Going
<1>3. RecordsFresh'
  <2> SUFFICES ASSUME ~clash PROVE RecordsFresh'
    BY <1>1 DEF RecordsFresh
  <2>1. OfTry(store)' = {}
    BY <1>1 DEF RecordsFresh, Going, OfTry, AtTheEnd
  <2>2. Cardinality(OfTry(store))' + Cardinality(docs)' = wrote'
    BY <1>1, <2>1, FS_EmptySet
  <2> QED
    BY <1>1, <2>1, <2>2 DEF RecordsFresh, AtTheEnd
<1> QED
  BY <1>1, <1>2, <1>3 DEF KeysNumbered

(* What an attempt adds to the destination, and where it has been then.    *)
LEMMA RecordsGrow ==
  ASSUME Going, RecordsFresh, at' = "lines", worker \notin AtTheEnd, NEW R, NEW n \in Nat,
         UNCHANGED <<worker, docs, try>>, wrote' = wrote + n,
         ~clash' => /\ ~clash /\ OfTry(store') \subseteq OfTry(store) \cup R
                    /\ Cardinality(OfTry(store')) = Cardinality(OfTry(store)) + n,
         \A r \in Stamped : Passed(r) => Passed(r)', \A r \in R : Passed(r)'
  PROVE  RecordsFresh'
<1> SUFFICES ASSUME ~clash' PROVE RecordsFresh'
  BY DEF RecordsFresh
<1>1. OfTry(store)' = OfTry(store')
  BY DEF OfTry
<1>2. /\ docs = {} /\ Cardinality(OfTry(store)) + Cardinality(docs) = wrote
      /\ \A r \in OfTry(store) : Passed(r)
  BY DEF RecordsFresh, Going
<1>3. \A r \in OfTry(store)' : Passed(r)'
  BY <1>1, <1>2, GoingTypes DEF OfTry
<1>4. Cardinality(OfTry(store))' + Cardinality(docs)' = wrote'
  BY <1>1, <1>2, GoingTypes
<1> QED
  BY <1>2, <1>3, <1>4 DEF RecordsFresh, AtTheEnd

(* A place that was passed stays passed.                                   *)
LEMMA PassedStays ==
  ASSUME Going, UNCHANGED worker, line' \in Nat, counter' \in Nat, next_id' \in Nat,
         worker = "perfherder" => \/ counter' = counter /\ next_id' >= next_id
                                  \/ counter' > counter,
         worker = "tcPerfherder" => line' >= line,
         worker \in {"testResults", "tcTestResult"} => next_id' >= next_id,
         worker \in Blocks!PerLine => \/ line' = line /\ next_id' >= next_id
                                      \/ line' > line
  PROVE  \A r \in Stamped : Passed(r) => Passed(r)'
<1>1. line \in Nat /\ counter \in Nat /\ next_id \in Nat
  BY GoingTypes
<1>2. ASSUME NEW r \in Stamped, Passed(r) PROVE Passed(r)'
  <2>1. worker' = "perfherder" => \A c \in Nat :
          r.key = <<c>> => c < counter' \/ (c = counter' /\ r.id < next_id')
    BY <1>1, <1>2 DEF Passed, Stamped
  <2>2. worker' = "tcPerfherder" => \A c \in Nat : r.key = <<c>> => c < line'
    BY <1>1, <1>2 DEF Passed
  <2>3. worker' \in {"testResults", "tcTestResult"} => \A c \in Nat : r.key = <<c>> => c < next_id'
    BY <1>1, <1>2 DEF Passed
  <2>4. worker' \in Blocks!PerLine => \A l, c \in Nat :
          r.key = <<l, c>> => l < line' \/ (l = line' /\ c < next_id')
    BY <1>1, <1>2 DEF Passed
  <2> QED
    BY <2>1, <2>2, <2>3, <2>4 DEF Passed, Blocks!PerLine
<1> QED
  BY <1>2

(* One key more.                                                           *)
LEMMA KeyAdded ==
  ASSUME NEW k, NEW c \in Nat, k = <<c>> \/ \E l \in Nat : k = <<l, c>>,
         UNCHANGED source_id, keys' = keys \cup {k}
  PROVE  /\ keys' # {}
         /\ Numbered(c) => Blocks!Ids(keys)' = 0 .. c
         /\ \A m \in Nat : c < m /\ Numbered(m) => Blocks!Ids(keys)' = 0 .. m - 1
<1>1. Blocks!Ids(keys)' = Blocks!Ids(keys')
  BY DEF Blocks!Ids
<1>2. Blocks!Ids(keys') = Blocks!Ids(keys) \cup {c}
  <2>1. CASE k = <<c>>
    <3>1. Blocks!Ids(keys \cup {<<c>>}) = Blocks!Ids(keys) \cup {c}
      BY IdsOfMore
    <3> QED
      BY <2>1, <3>1
  <2>2. CASE \E l \in Nat : k = <<l, c>>
    <3>1. PICK l \in Nat : k = <<l, c>>
      BY <2>2
    <3>2. \A i \in Nat : Blocks!Ids(keys \cup {<<i, c>>}) = Blocks!Ids(keys) \cup {c}
      BY IdsOfMore
    <3>3. Blocks!Ids(keys \cup {<<l, c>>}) = Blocks!Ids(keys) \cup {c}
      BY <3>1, <3>2
    <3> QED
      BY <3>1, <3>3
  <2> QED
    BY <2>1, <2>2
<1>3. 0 .. c = (0 .. c - 1) \cup {c}
  OBVIOUS
<1>4. \A m \in Nat : c < m => (0 .. m - 1) \cup {c} = 0 .. m - 1
  OBVIOUS
<1> QED
  BY <1>1, <1>2, <1>3, <1>4 DEF Numbered

(* The keys of an attempt are those it had, and one of an object that is   *)
(* there now.                                                              *)
LEMMA KeysStored ==
  ASSUME Going, KeysNumbered, ~gap, worker # "pulse2es", UNCHANGED worker,
         NEW k, keys' = keys \cup {k},
         \A j : (Blocks!Stored(j) \/ j = k) => \E r \in store' : r.key = j
  PROVE  \A j \in keys' : Blocks!Stored(j)'
<1>1. \A j \in keys : Blocks!Stored(j)
  BY DEF KeysNumbered, Going
<1> QED
  BY <1>1 DEF Blocks!Stored

(* A log of pulse: its records have the number of the log, and its key     *)
(* is returned.                                                            *)
LEMMA LogGrows ==
  ASSUME Going, RecordsFresh, KeysNumbered, worker = "perfherder", at' = "lines", line' = line + 1,
         UNCHANGED <<worker, block, source_id, try, docs, gap>>,
         NEW R \in SUBSET Stamped, NEW n \in Nat, IsFiniteSet(R), Cardinality(R) = n,
         \A d \in R : d.try = try /\ d.key = <<counter>>,
         store' = Blocks!Extended(R), wrote' = wrote + n,
         R # {} \/ Blocks!Stored(<<counter>>), keys' = keys \cup {<<counter>>},
         \/ counter' = counter + 1 /\ next_id' \in Nat
         \/ counter' = counter /\ next_id' = next_id + 1 /\ \A d \in R : d.id = next_id,
         clash' \in BOOLEAN,
         ~clash' => ~clash /\ ((\A d \in R : d.id >= next_id) \/ R \cap store = {})
                           /\ ((\A d \in R : d.id >= next_id) \/ \E x : R = {x})
  PROVE  BlockTypes' /\ RecordsFresh' /\ KeysNumbered'
<1>1. /\ line \in Nat /\ counter \in Nat /\ next_id \in Nat /\ wrote \in Nat /\ store \in SUBSET Stamped
      /\ counter' \in Nat /\ next_id' \in Nat
  BY GoingTypes
<1>2. /\ store' \in SUBSET Stamped /\ IsFiniteSet(store') /\ \A r \in store' : r.try <= try
      /\ \A k : (Blocks!Stored(k) \/ \E d \in R : d.key = k) => \E r \in store' : r.key = k
      /\ OfTry(store') \subseteq OfTry(store) \cup R
      /\ (\A d \in R, r \in OfTry(store) : <<d.key, d.id>> # <<r.key, r.id>>) =>
           Cardinality(OfTry(store')) = Cardinality(OfTry(store)) + n
  BY ExtendFacts DEF Going
<1>3. BlockTypes'
  BY <1>1, <1>2, GoingTypes, TypesStay DEF StaysTyped
<1>4. \A r \in Stamped : Passed(r) => Passed(r)'
  BY <1>1, PassedStays DEF Blocks!PerLine
<1>5. \A d \in R : Passed(d)'
  <2> SUFFICES ASSUME NEW d \in R PROVE Passed(d)'
    OBVIOUS
  <2>1. \A c \in Nat : d.key = <<c>> => c < counter' \/ (c = counter' /\ d.id < next_id')
    <3> SUFFICES ASSUME NEW c \in Nat, d.key = <<c>> PROVE c < counter' \/ (c = counter' /\ d.id < next_id')
      OBVIOUS
    <3>1. <<c>> = <<counter>>
      OBVIOUS
    <3>2. c = counter
      BY <3>1
    <3> QED
      BY <1>1, <3>2
  <2> QED
    BY <2>1 DEF Passed, Blocks!PerLine
<1>6. ~clash' => \A d \in R, r \in OfTry(store) : <<d.key, d.id>> # <<r.key, r.id>>
  <2> SUFFICES ASSUME ~clash', NEW d \in R, NEW r \in OfTry(store), d.key = r.key, d.id = r.id PROVE FALSE
    OBVIOUS
  <2>1. r.key = <<counter>> /\ r \in store /\ r.try = try /\ r \in Stamped /\ d \in Stamped
    BY <1>1 DEF OfTry
  <2>2. r.id < next_id
    <3>1. Passed(r)
      BY DEF RecordsFresh, Going
    <3> QED
      BY <1>1, <2>1, <3>1 DEF Passed
  <2>3. r = d
    BY <2>1 DEF Stamped
  <2> QED
    BY <1>1, <2>1, <2>2, <2>3 DEF Stamped
<1>7. RecordsFresh'
  BY <1>2, <1>4, <1>5, <1>6, RecordsGrow DEF AtTheEnd
<1>8. KeysNumbered'
  <2> SUFFICES ASSUME ~gap PROVE KeysNumbered'
    BY DEF KeysNumbered
  <2>1. \A j : (Blocks!Stored(j) \/ j = <<counter>>) => \E r \in store' : r.key = j
    BY <1>2
  <2>2. \A k \in keys' : Blocks!Stored(k)'
    BY <2>1, KeysStored
  <2>3. Numbered(counter) \/ Numbered(counter + 1)
    BY DEF KeysNumbered, Going
  <2>4. keys' # {} /\ Blocks!Ids(keys)' = 0 .. counter
    <3>1. counter + 1 \in Nat /\ counter < counter + 1 /\ (counter + 1) - 1 = counter
      BY <1>1
    <3>2. /\ keys' # {}
          /\ Numbered(counter) => Blocks!Ids(keys)' = 0 .. counter
          /\ \A m \in Nat : counter < m /\ Numbered(m) => Blocks!Ids(keys)' = 0 .. m - 1
      BY <1>1, KeyAdded
    <3> QED
      BY <2>3, <3>1, <3>2
  <2>5. counter' - 1 = counter \/ (counter' + 1) - 1 = counter
    BY <1>1
  <2>6. Numbered(counter)' \/ Numbered(counter + 1)'
    BY <2>4, <2>5 DEF Numbered
  <2> QED
    BY <2>2, <2>4, <2>6 DEF KeysNumbered, Blocks!PerLine
<1> QED
  BY <1>3, <1>7, <1>8

(* A task: its records have the number of its line.                        *)
LEMMA TaskGrows ==
  ASSUME Going, RecordsFresh, KeysNumbered, worker = "tcPerfherder", at' = "lines", line' = line + 1,
         UNCHANGED <<worker, block, source_id, try, docs, gap, counter, next_id, clash>>,
         NEW R \in SUBSET Stamped, NEW n \in Nat, IsFiniteSet(R), Cardinality(R) = n,
         \A d \in R : d.try = try /\ d.key = <<line>>,
         store' = Blocks!Extended(R), wrote' = wrote + n,
         R # {} \/ Blocks!Stored(<<line>>), keys' = keys \cup {<<line>>}
  PROVE  BlockTypes' /\ RecordsFresh' /\ KeysNumbered'
<1>1. /\ line \in Nat /\ counter \in Nat /\ next_id \in Nat /\ wrote \in Nat /\ store \in SUBSET Stamped
      /\ clash \in BOOLEAN
  BY GoingTypes
<1>2. /\ store' \in SUBSET Stamped /\ IsFiniteSet(store') /\ \A r \in store' : r.try <= try
      /\ \A k : (Blocks!Stored(k) \/ \E d \in R : d.key = k) => \E r \in store' : r.key = k
      /\ OfTry(store') \subseteq OfTry(store) \cup R
      /\ (\A d \in R, r \in OfTry(store) : <<d.key, d.id>> # <<r.key, r.id>>) =>
           Cardinality(OfTry(store')) = Cardinality(OfTry(store)) + n
  BY ExtendFacts DEF Going
<1>3. BlockTypes'
  BY <1>1, <1>2, GoingTypes, TypesStay DEF StaysTyped
<1>4. \A r \in Stamped : Passed(r) => Passed(r)'
  BY <1>1, PassedStays DEF Blocks!PerLine
<1>5. \A d \in R : Passed(d)'
  <2> SUFFICES ASSUME NEW d \in R, NEW c \in Nat, d.key = <<c>> PROVE c < line'
    BY DEF Passed, Blocks!PerLine
  <2>1. <<c>> = <<line>>
    OBVIOUS
  <2>2. c = line
    BY <2>1
  <2> QED
    BY <1>1, <2>2
<1>6. ~clash => \A d \in R, r \in OfTry(store) : <<d.key, d.id>> # <<r.key, r.id>>
  <2> SUFFICES ASSUME ~clash, NEW d \in R, NEW r \in OfTry(store), d.key = r.key PROVE FALSE
    OBVIOUS
  <2>1. Passed(r) /\ r.key = <<line>>
    BY DEF RecordsFresh, Going
  <2> QED
    BY <1>1, <2>1 DEF Passed
<1>7. RecordsFresh'
  BY <1>2, <1>4, <1>5, <1>6, RecordsGrow DEF AtTheEnd
<1>8. KeysNumbered'
  <2> SUFFICES ASSUME ~gap PROVE KeysNumbered'
    BY DEF KeysNumbered
  <2>1. \A j : (Blocks!Stored(j) \/ j = <<line>>) => \E r \in store' : r.key = j
    BY <1>2
  <2>2. \A k \in keys' : Blocks!Stored(k)'
    BY <2>1, KeysStored
  <2>3. Numbered(line)
    BY DEF KeysNumbered, Going
  <2>4. keys' # {} /\ Blocks!Ids(keys)' = 0 .. line
    BY <1>1, <2>3, KeyAdded
  <2>5. Numbered(line)'
    <3>1. line' - 1 = line
      BY <1>1
    <3> QED
      BY <2>4, <3>1 DEF Numbered
  <2> QED
    BY <2>2, <2>4, <2>5 DEF KeysNumbered, Blocks!PerLine
<1> QED
  BY <1>3, <1>7, <1>8

LEMMA OneRecord ==
  ASSUME try \in Nat, NEW key \in Key, NEW id \in Nat, NEW R, R = {Blocks!Record(key, id)}
  PROVE  /\ R \in SUBSET Stamped /\ IsFiniteSet(R) /\ Cardinality(R) = 1 /\ R # {}
         /\ \A d \in R : d.try = try /\ d.key = key /\ d.id = id
<1>1. Blocks!Record(key, id) \in Stamped
  BY DEF Blocks!Record, Stamped
<1>2. IsFiniteSet({Blocks!Record(key, id)}) /\ Cardinality({Blocks!Record(key, id)}) = 1
  BY FS_Singleton
<1> QED
  BY <1>1, <1>2 DEF Blocks!Record

LEMMA ManyRecords ==
  ASSUME try \in Nat, NEW key \in Key, NEW b \in Nat, NEW n \in Nat
  PROVE  LET R == Generated(key, b, n)
         IN  /\ R \in SUBSET Stamped /\ IsFiniteSet(R) /\ Cardinality(R) = n /\ (n > 0 => R # {})
             /\ \A d \in R : d.try = try /\ d.key = key /\ d.id >= b
<1> DEFINE R == Generated(key, b, n)
<1>1. \A k \in 0 .. n - 1 : /\ Blocks!Record(key, b + k) \in Stamped
                            /\ Blocks!Record(key, b + k).try = try /\ Blocks!Record(key, b + k).key = key
                            /\ Blocks!Record(key, b + k).id >= b
  BY DEF Blocks!Record, Stamped
<1>2. R \in SUBSET Stamped /\ \A d \in R : d.try = try /\ d.key = key /\ d.id >= b
  BY <1>1 DEF Generated
<1>3. n > 0 => 0 \in 0 .. n - 1
  OBVIOUS
<1>4. n > 0 => R # {}
  BY <1>3 DEF Generated
<1>5. IsFiniteSet(R) /\ Cardinality(R) = n
  BY GeneratedAreDistinct
<1> QED
  BY <1>2, <1>4, <1>5

LEMMA NoRecords ==
  ASSUME NEW key
  PROVE  /\ {} \in SUBSET Stamped /\ IsFiniteSet({}) /\ Cardinality({}) = 0
         /\ Blocks!Extended({}) = store
         /\ \A d \in {} : d.try = try /\ d.key = key
<1>1. IsFiniteSet({}) /\ Cardinality({}) = 0
  BY FS_EmptySet
<1>2. Blocks!Extended({}) = store
  BY DEF Blocks!Extended
<1> QED
  BY <1>1, <1>2

LEMMA OneNumberKey == \A c \in Nat : <<c>> \in Key
  BY DEF Key

LEMMA TwoNumbersKey == \A l, c \in Nat : <<l, c>> \in Key
  BY DEF Key

(* A log of pulse.                                                         *)
LEMMA LogStep ==
  ASSUME Going, RecordsFresh, KeysNumbered,
         \/ Blocks!OldHost \/ Blocks!EmptyLog \/ Blocks!MissingLog
         \/ \E n \in 1 .. MaxRecords : Blocks!LogLine(n)
  PROVE  BlockTypes' /\ RecordsFresh' /\ KeysNumbered'
<1>1. /\ line \in Nat /\ counter \in Nat /\ next_id \in Nat /\ wrote \in Nat /\ try \in Nat
      /\ clash \in BOOLEAN /\ <<counter>> \in Key
  BY GoingTypes, OneNumberKey
<1>2. CASE Blocks!OldHost
  <2> DEFINE R == {Blocks!Record(<<counter>>, next_id)}
  <2>1. /\ worker = "perfherder" /\ at' = "lines" /\ line' = line + 1
        /\ UNCHANGED <<worker, block, source_id, try, docs, gap, counter, clash>>
        /\ store' = Blocks!Extended(R) /\ wrote' = wrote + 1 /\ keys' = keys \cup {<<counter>>}
        /\ next_id' = next_id + 1
    BY <1>2 DEF Blocks!OldHost, Blocks!Full, Blocks!Reading, Blocks!NextLine, Blocks!Extend, Blocks!Announce,
                Blocks!given, Going
  <2>2. /\ R \in SUBSET Stamped /\ IsFiniteSet(R) /\ Cardinality(R) = 1 /\ R # {}
        /\ \A d \in R : d.try = try /\ d.key = <<counter>> /\ d.id = next_id
    <3> DEFINE key == <<counter>>
               id == next_id
    <3>1. try \in Nat /\ id \in Nat /\ key \in Key
      BY <1>1
    <3>2. R = {Blocks!Record(key, id)}
      OBVIOUS
    <3> HIDE DEF R, key, id
    <3>3. /\ R \in SUBSET Stamped /\ IsFiniteSet(R) /\ Cardinality(R) = 1 /\ R # {}
          /\ \A d \in R : d.try = try /\ d.key = key /\ d.id = id
      BY <3>1, <3>2, OneRecord
    <3> QED
      BY <3>3 DEF key, id
  <2> HIDE DEF R
  <2>3. \A d \in R : d.id >= next_id
    BY <1>1, <2>2
  <2> QED
    BY <1>1, <2>1, <2>2, <2>3, LogGrows
<1>3. CASE Blocks!EmptyLog
  <2> DEFINE x == Blocks!Record(<<counter>>, 0)
             R == {x}
  <2>1. /\ worker = "perfherder" /\ at' = "lines" /\ line' = line + 1
        /\ UNCHANGED <<worker, block, source_id, try, docs, gap>>
        /\ store' = Blocks!Extended(R) /\ wrote' = wrote + 1 /\ keys' = keys \cup {<<counter>>}
        /\ counter' = counter + 1 /\ next_id' = 1
        /\ clash' = (clash \/ x \in store)
    BY <1>3 DEF Blocks!EmptyLog, Blocks!Full, Blocks!Reading, Blocks!NextLine, Blocks!Extend, Blocks!Announce,
                Blocks!Logged, Going
  <2>2. /\ R \in SUBSET Stamped /\ IsFiniteSet(R) /\ Cardinality(R) = 1 /\ R # {}
        /\ \A d \in R : d.try = try /\ d.key = <<counter>>
    <3> DEFINE key == <<counter>>
               id == 0
    <3>1. try \in Nat /\ id \in Nat /\ key \in Key
      BY <1>1
    <3>2. R = {Blocks!Record(key, id)}
      OBVIOUS
    <3> HIDE DEF R, x, key, id
    <3>3. /\ R \in SUBSET Stamped /\ IsFiniteSet(R) /\ Cardinality(R) = 1 /\ R # {}
          /\ \A d \in R : d.try = try /\ d.key = key /\ d.id = id
      BY <3>1, <3>2, OneRecord
    <3> QED
      BY <3>3 DEF key, id
  <2> HIDE DEF x
  <2>3. clash' \in BOOLEAN /\ (~clash' => ~clash /\ R \cap store = {}) /\ \E y : R = {y}
    BY <1>1, <2>1
  <2> HIDE DEF R
  <2> QED
    BY <1>1, <2>1, <2>2, <2>3, LogGrows
<1>4. CASE Blocks!MissingLog
  <2> DEFINE R == IF Blocks!Stored(<<counter>>) THEN {} ELSE {Blocks!Record(<<counter>>, next_id)}
             n == IF Blocks!Stored(<<counter>>) THEN 0 ELSE 1
  <2>1. /\ worker = "perfherder" /\ at' = "lines" /\ line' = line + 1
        /\ UNCHANGED <<worker, block, source_id, try, docs, gap, clash>>
        /\ keys' = keys \cup {<<counter>>} /\ counter' = counter + 1 /\ next_id' = 0
        /\ Blocks!Missing(<<counter>>, next_id)
    BY <1>4 DEF Blocks!MissingLog, Blocks!Full, Blocks!Reading, Blocks!NextLine, Blocks!Announce,
                Blocks!Logged, Blocks!given, Going
  <2>2. store' = Blocks!Extended(R) /\ wrote' = wrote + n
    BY <1>1, <2>1, NoRecords DEF Blocks!Missing, Blocks!Extend
  <2>3. /\ R \in SUBSET Stamped /\ IsFiniteSet(R) /\ Cardinality(R) = n /\ n \in Nat
        /\ R # {} \/ Blocks!Stored(<<counter>>)
        /\ \A d \in R : d.try = try /\ d.key = <<counter>> /\ d.id = next_id
    <3>1. CASE Blocks!Stored(<<counter>>)
      <4>1. R = {} /\ n = 0
        BY <3>1
      <4> HIDE DEF R, n
      <4> QED
        BY <3>1, <4>1, NoRecords
    <3>2. CASE ~Blocks!Stored(<<counter>>)
      <4>1. R = {Blocks!Record(<<counter>>, next_id)} /\ n = 1
        BY <3>2
      <4>2. try \in Nat /\ next_id \in Nat /\ <<counter>> \in Key
        BY <1>1
      <4> HIDE DEF R, n
      <4> QED
        BY <4>1, <4>2, OneRecord
    <3> QED
      BY <3>1, <3>2
  <2> HIDE DEF R, n
  <2>4. \A d \in R : d.id >= next_id
    BY <1>1, <2>3
  <2> QED
    BY <1>1, <2>1, <2>2, <2>3, <2>4, LogGrows
<1>5. ASSUME NEW n \in 1 .. MaxRecords, Blocks!LogLine(n) PROVE BlockTypes' /\ RecordsFresh' /\ KeysNumbered'
  <2> DEFINE R == Generated(<<counter>>, next_id, n)
  <2>1. /\ worker = "perfherder" /\ at' = "lines" /\ line' = line + 1
        /\ UNCHANGED <<worker, block, source_id, try, docs, gap, clash>>
        /\ store' = Blocks!Extended(R) /\ wrote' = wrote + n /\ keys' = keys \cup {<<counter>>}
        /\ counter' = counter + 1 /\ next_id' = 0
    BY <1>5 DEF Generated, Blocks!LogLine, Blocks!Full, Blocks!Reading, Blocks!NextLine, Blocks!Extend, Blocks!Announce,
                Blocks!Logged, Blocks!given, Going
  <2>2. n \in Nat /\ n > 0
    BY RecordsAssumption DEF Blocks!TransformsAssumption
  <2>3. /\ R \in SUBSET Stamped /\ IsFiniteSet(R) /\ Cardinality(R) = n /\ R # {}
        /\ \A d \in R : d.try = try /\ d.key = <<counter>> /\ d.id >= next_id
    BY <1>1, <2>2, ManyRecords
  <2> HIDE DEF R
  <2> QED
    BY <1>1, <2>1, <2>2, <2>3, LogGrows
<1> QED
  BY <1>2, <1>3, <1>4, <1>5

(* The artifacts and the log of a task.                                    *)
LEMMA TaskStep ==
  ASSUME Going, RecordsFresh, KeysNumbered, NEW m \in 0 .. MaxRecords,
         Blocks!TaskLine(m) \/ Blocks!MissingTaskLog(m)
  PROVE  BlockTypes' /\ RecordsFresh' /\ KeysNumbered'
<1>1. /\ line \in Nat /\ wrote \in Nat /\ try \in Nat /\ <<line>> \in Key /\ m \in Nat
  BY GoingTypes, OneNumberKey, RecordsAssumption DEF Blocks!TransformsAssumption
<1>2. CASE Blocks!TaskLine(m)
  <2> DEFINE n == IF m = 0 THEN 1 ELSE m
             b == 0
             R == Generated(<<line>>, b, n)
  <2>1. n \in Nat /\ n > 0 /\ b \in Nat
    BY <1>1
  <2>2. {Blocks!Record(<<line>>, k) : k \in 0 .. n - 1} = R
    <3>1. \A k \in 0 .. n - 1 : 0 + k = k
      BY <2>1
    <3> HIDE DEF n
    <3> QED
      BY <3>1 DEF Generated
  <2>3. /\ worker = "tcPerfherder" /\ at' = "lines" /\ line' = line + 1
        /\ UNCHANGED <<worker, block, source_id, try, docs, gap, counter, next_id, clash>>
        /\ store' = Blocks!Extended(R) /\ wrote' = wrote + n /\ keys' = keys \cup {<<line>>}
    BY <1>2, <2>2 DEF Blocks!TaskLine, Blocks!Full, Blocks!Reading, Blocks!NextLine, Blocks!Extend, Blocks!Announce,
                Blocks!given, Going
  <2> HIDE DEF n, b
  <2>4. /\ R \in SUBSET Stamped /\ IsFiniteSet(R) /\ Cardinality(R) = n /\ R # {}
        /\ \A d \in R : d.try = try /\ d.key = <<line>>
    BY <1>1, <2>1, ManyRecords
  <2> HIDE DEF R
  <2> QED
    BY <2>1, <2>3, <2>4, TaskGrows
<1>3. CASE Blocks!MissingTaskLog(m)
  <2> DEFINE R == IF Blocks!Stored(<<line>>) THEN {} ELSE {Blocks!Record(<<line>>, m)}
             n == IF Blocks!Stored(<<line>>) THEN 0 ELSE 1
  <2>1. /\ worker = "tcPerfherder" /\ at' = "lines" /\ line' = line + 1
        /\ UNCHANGED <<worker, block, source_id, try, docs, gap, counter, next_id, clash>>
        /\ keys' = keys \cup {<<line>>}
        /\ Blocks!Missing(<<line>>, m)
    BY <1>3 DEF Blocks!MissingTaskLog, Blocks!Full, Blocks!Reading, Blocks!NextLine, Blocks!Announce,
                Blocks!given, Going
  <2>2. store' = Blocks!Extended(R) /\ wrote' = wrote + n
    BY <1>1, <2>1, NoRecords DEF Blocks!Missing, Blocks!Extend
  <2>3. /\ R \in SUBSET Stamped /\ IsFiniteSet(R) /\ Cardinality(R) = n /\ n \in Nat
        /\ R # {} \/ Blocks!Stored(<<line>>)
        /\ \A d \in R : d.try = try /\ d.key = <<line>>
    <3>1. CASE Blocks!Stored(<<line>>)
      <4>1. R = {} /\ n = 0
        BY <3>1
      <4> HIDE DEF R, n
      <4> QED
        BY <3>1, <4>1, NoRecords
    <3>2. CASE ~Blocks!Stored(<<line>>)
      <4>1. R = {Blocks!Record(<<line>>, m)} /\ n = 1
        BY <3>2
      <4>2. try \in Nat /\ m \in Nat /\ <<line>> \in Key
        BY <1>1
      <4> HIDE DEF R, n
      <4> QED
        BY <4>1, <4>2, OneRecord
    <3> QED
      BY <3>1, <3>2
  <2> HIDE DEF R, n
  <2> QED
    BY <2>1, <2>2, <2>3, TaskGrows
<1> QED
  BY <1>2, <1>3

(* Transforms with an object for each file.                                *)
OfFiles == {"testResults", "tcTestResult"} \cup Blocks!PerLine

LEMMA FileStep ==
  ASSUME Going, RecordsFresh, KeysNumbered,
         \/ Blocks!BuildFile \/ Blocks!TaskFile \/ Blocks!FirefoxFile \/ Blocks!CoverageFile
         \/ Blocks!FileGivenUp
  PROVE  BlockTypes' /\ RecordsFresh' /\ KeysNumbered'
<1> DEFINE k == IF worker \in Blocks!PerLine THEN <<line, next_id>> ELSE <<next_id>>
<1>1. /\ line \in Nat /\ counter \in Nat /\ next_id \in Nat /\ wrote \in Nat /\ try \in Nat
      /\ clash \in BOOLEAN /\ gap \in BOOLEAN /\ k \in Key
  BY GoingTypes, OneNumberKey, TwoNumbersKey
<1>2. /\ worker \in OfFiles /\ at' = "lines"
      /\ UNCHANGED <<worker, block, source_id, try, docs, line, clash>>
      /\ keys' = keys \cup {k} /\ counter' = counter + 1 /\ next_id' = next_id + 1
      /\ \/ gap' = gap /\ Blocks!Overwrite(k)
         \/ gap' = TRUE /\ UNCHANGED <<store, wrote>>
  BY DEF Blocks!BuildFile, Blocks!TaskFile, Blocks!FirefoxFile, Blocks!CoverageFile, Blocks!FileGivenUp,
         Blocks!Full, Blocks!Reading, Blocks!Filed, Blocks!Announce, Blocks!given, Going, OfFiles, Blocks!PerLine
<1>3. k = <<next_id>> \/ \E l \in Nat : k = <<l, next_id>>
  BY <1>1
<1>4. \A r \in Stamped : Passed(r) => Passed(r)'
  BY <1>1, <1>2, PassedStays DEF OfFiles, Blocks!PerLine
<1>5. ASSUME NEW r, Passed(r), r.key = k PROVE FALSE
  <2>1. worker \in Blocks!PerLine => r.key = <<line, next_id>>
    BY <1>5
  <2>2. worker \in {"testResults", "tcTestResult"} => r.key = <<next_id>>
    BY <1>5 DEF Blocks!PerLine
  <2> HIDE DEF k
  <2> QED
    BY <1>1, <1>2, <1>5, <2>1, <2>2 DEF Passed, OfFiles
<1>6. ASSUME NEW x, x = Blocks!Record(k, 0) PROVE Passed(x)'
  <2>1. x.key = k
    BY <1>6 DEF Blocks!Record
  <2>2. worker \in Blocks!PerLine => \A l, c \in Nat : x.key = <<l, c>> => l = line /\ c = next_id
    <3> SUFFICES ASSUME worker \in Blocks!PerLine, NEW l \in Nat, NEW c \in Nat, x.key = <<l, c>>
                 PROVE  l = line /\ c = next_id
      OBVIOUS
    <3>1. <<line, next_id>> = <<l, c>>
      BY <2>1
    <3> QED
      BY <3>1
  <2>3. worker \in {"testResults", "tcTestResult"} => \A c \in Nat : x.key = <<c>> => c = next_id
    <3> SUFFICES ASSUME worker \in {"testResults", "tcTestResult"}, NEW c \in Nat, x.key = <<c>>
                 PROVE  c = next_id
      OBVIOUS
    <3>1. <<next_id>> = <<c>>
      BY <2>1 DEF Blocks!PerLine
    <3> QED
      BY <3>1
  <2> HIDE DEF k
  <2>4. worker \notin {"perfherder", "tcPerfherder"}
    BY <1>2 DEF OfFiles, Blocks!PerLine
  <2>5. worker' \in {"testResults", "tcTestResult"} => \A c \in Nat : x.key = <<c>> => c < next_id'
    BY <1>1, <1>2, <2>3
  <2>6. worker' \in Blocks!PerLine => \A l, c \in Nat :
          x.key = <<l, c>> => l < line' \/ (l = line' /\ c < next_id')
    BY <1>1, <1>2, <2>2
  <2> QED
    BY <1>2, <2>4, <2>5, <2>6 DEF Passed, Blocks!PerLine
<1> HIDE DEF k
<1>7. worker \notin AtTheEnd /\ worker # "pulse2es" /\ worker \notin {"joblogs", "buildbot"}
  BY <1>2 DEF OfFiles, Blocks!PerLine, AtTheEnd
<1>8. CASE gap' = gap /\ Blocks!Overwrite(k)
  <2> DEFINE R == {Blocks!Record(k, 0)}
  <2>1. ~clash => \A r \in OfTry(store) : r.key # k
    BY <1>5 DEF RecordsFresh, Going
  <2>2. /\ store' \in SUBSET Stamped /\ IsFiniteSet(store') /\ \A r \in store' : r.try <= try
        /\ \A j : (Blocks!Stored(j) \/ j = k) => \E r \in store' : r.key = j
        /\ wrote' = wrote + 1
        /\ OfTry(store') \subseteq OfTry(store) \cup R
        /\ ~clash => Cardinality(OfTry(store')) = Cardinality(OfTry(store)) + 1
    BY <1>1, <1>8, <2>1, OverwriteFacts DEF Going
  <2> HIDE DEF R
  <2>3. BlockTypes'
    BY <1>1, <1>2, <1>8, <2>2, GoingTypes, TypesStay DEF StaysTyped
  <2>4. RecordsFresh'
    <3>1. \A r \in R : Passed(r)'
      BY <1>6 DEF R
    <3> QED
      BY <1>2, <1>4, <1>7, <2>2, <3>1, RecordsGrow
  <2>5. KeysNumbered'
    <3> SUFFICES ASSUME ~gap PROVE KeysNumbered'
      BY <1>8 DEF KeysNumbered
    <3>1. \A j \in keys' : Blocks!Stored(j)'
      BY <1>2, <1>7, <2>2, KeysStored, Zenon
    <3>2. /\ keys' # {}
          /\ Numbered(next_id) => Blocks!Ids(keys)' = 0 .. next_id
          /\ \A m \in Nat : next_id < m /\ Numbered(m) => Blocks!Ids(keys)' = 0 .. m - 1
      BY <1>1, <1>2, <1>3, KeyAdded
    <3>3. worker \in {"testResults", "tcTestResult"} => Numbered(next_id)'
      <4>1. worker \in {"testResults", "tcTestResult"} => Numbered(next_id)
        BY DEF KeysNumbered, Going
      <4>2. next_id' - 1 = next_id
        BY <1>1, <1>2
      <4> QED
        BY <3>2, <4>1, <4>2 DEF Numbered
    <3>4. worker \in Blocks!PerLine => \E m \in Nat : m >= next_id' /\ Numbered(m)'
      <4> SUFFICES ASSUME worker \in Blocks!PerLine PROVE \E m \in Nat : m >= next_id' /\ Numbered(m)'
        OBVIOUS
      <4>1. PICK m \in Nat : m >= next_id /\ Numbered(m)
        BY DEF KeysNumbered, Going
      <4>2. CASE m = next_id
        <5>1. next_id + 1 \in Nat /\ next_id + 1 >= next_id' /\ (next_id + 1) - 1 = next_id
          BY <1>1, <1>2
        <5>2. \A i : i - 1 = next_id => Numbered(i)'
          BY <3>2, <4>1, <4>2 DEF Numbered
        <5> QED
          BY <5>1, <5>2
      <4>3. CASE m > next_id
        <5>1. Numbered(m)'
          BY <1>1, <3>2, <4>1, <4>3 DEF Numbered
        <5> QED
          BY <1>1, <1>2, <4>1, <4>3, <5>1
      <4> QED
        BY <1>1, <4>1, <4>2, <4>3
    <3> QED
      BY <1>2, <1>7, <3>1, <3>2, <3>3, <3>4 DEF KeysNumbered, OfFiles, Blocks!PerLine
  <2> QED
    BY <2>3, <2>4, <2>5
<1>9. CASE gap' = TRUE /\ UNCHANGED <<store, wrote>>
  <2>1. BlockTypes'
    BY <1>1, <1>2, <1>9, GoingTypes, TypesStay DEF StaysTyped
  <2>2. RecordsFresh'
    <3>1. OfTry(store') = OfTry(store) /\ wrote' = wrote + 0
      BY <1>1, <1>9
    <3>2. Cardinality(OfTry(store')) = Cardinality(OfTry(store)) + 0
      BY <3>1, GoingTypes
    <3> DEFINE R == {}
    <3>3. OfTry(store') \subseteq OfTry(store) \cup R /\ \A r \in R : Passed(r)'
      BY <3>1
    <3> HIDE DEF R
    <3> QED
      BY <1>2, <1>4, <1>7, <3>1, <3>2, <3>3, RecordsGrow
  <2> QED
    BY <1>9, <2>1, <2>2 DEF KeysNumbered
<1> QED
  BY <1>2, <1>8, <1>9

(* All files of a line are done with.                                      *)
LEMMA FilesDoneStep ==
  ASSUME Going, RecordsFresh, KeysNumbered, Blocks!FilesDone
  PROVE  BlockTypes' /\ RecordsFresh' /\ KeysNumbered'
<1>1. /\ line \in Nat /\ counter \in Nat /\ next_id \in Nat /\ wrote \in Nat /\ try \in Nat
      /\ clash \in BOOLEAN /\ gap \in BOOLEAN
  BY GoingTypes
<1>2. /\ worker \in OfFiles /\ at' = "lines"
      /\ UNCHANGED <<worker, block, source_id, try, docs, clash, keys, store, wrote>>
      /\ line' = line + 1 /\ counter' = 0 /\ gap' = (gap \/ counter = 0)
      /\ next_id' = IF worker \in Blocks!PerLine THEN 0 ELSE next_id
  BY DEF Blocks!FilesDone, Blocks!Full, Blocks!Reading, Blocks!NextLine, Blocks!given, Going, OfFiles,
         Blocks!PerLine, Blocks!Deleting
<1>3. worker \notin AtTheEnd /\ worker # "pulse2es" /\ worker \notin {"joblogs", "buildbot"}
  BY <1>2 DEF OfFiles, Blocks!PerLine, AtTheEnd
<1>4. \A r \in Stamped : Passed(r) => Passed(r)'
  BY <1>1, <1>2, PassedStays DEF OfFiles, Blocks!PerLine
<1>5. BlockTypes'
  BY <1>1, <1>2, GoingTypes, TypesStay DEF StaysTyped
<1>6. RecordsFresh'
  <2>1. OfTry(store') = OfTry(store) /\ wrote' = wrote + 0
    BY <1>1, <1>2
  <2>2. Cardinality(OfTry(store')) = Cardinality(OfTry(store)) + 0
    BY <2>1, GoingTypes
  <2> DEFINE R == {}
  <2>3. OfTry(store') \subseteq OfTry(store) \cup R /\ \A r \in R : Passed(r)'
    BY <2>1
  <2> HIDE DEF R
  <2> QED
    BY <1>2, <1>3, <1>4, <2>1, <2>2, <2>3, RecordsGrow
<1>7. KeysNumbered'
  <2> SUFFICES ASSUME ~gap, counter # 0 PROVE KeysNumbered'
    BY <1>2, Zenon DEF KeysNumbered
  <2>1. /\ \A k \in keys : Blocks!Stored(k)
        /\ worker \in {"testResults", "tcTestResult"} => Numbered(next_id)
        /\ worker \in Blocks!PerLine => \E m \in Nat : Numbered(m)
        /\ keys # {}
    BY <1>1, <1>3 DEF KeysNumbered, Going
  <2>2. /\ \A k : Blocks!Stored(k) => Blocks!Stored(k)'
        /\ \A m : Numbered(m) => Numbered(m)'
        /\ Numbered(next_id) /\ next_id' = next_id => Numbered(next_id)'
    BY <1>2, Zenon DEF Blocks!Stored, Numbered, Blocks!Ids
  <2>3. worker \in Blocks!PerLine => \E m \in Nat : m >= next_id' /\ Numbered(m)'
    BY <1>2, <2>1, <2>2
  <2> QED
    BY <1>2, <1>3, <2>1, <2>2, <2>3 DEF KeysNumbered, OfFiles, Blocks!PerLine
<1> QED
  BY <1>5, <1>6, <1>7

(* The transform is called, again or for the first time.                   *)
LEMMA BeginStep ==
  ASSUME BlockTypes, Blocks!Begin
  PROVE  BlockTypes' /\ RecordsFresh' /\ KeysNumbered'
<1>1. /\ at' = "lines" /\ try' = try + 1 /\ line' = 0 /\ counter' = 0 /\ next_id' = 0 /\ wrote' = 0
      /\ keys' = {} /\ docs' = {} /\ gap' = FALSE /\ clash' = FALSE
      /\ UNCHANGED <<worker, block, source_id>>
      /\ store' = {} \/ store' = store
  BY DEF Blocks!Begin
<1>2. /\ block \in Blocks!Blocks /\ try \in Nat /\ Len(block) \in Nat
      /\ store \in SUBSET Stamped /\ IsFiniteSet(store) /\ \A r \in store : r.try <= try
  BY BlockLength DEF BlockTypes
<1>3. IsFiniteSet({}) /\ Cardinality({}) = 0
  BY FS_EmptySet
<1>4. /\ store' \in SUBSET Stamped /\ IsFiniteSet(store')
      /\ \A r \in store' : r.try < try' /\ r.try <= try'
  <2>1. store' \in SUBSET Stamped /\ IsFiniteSet(store') /\ \A r \in store' : r \in store
    <3>1. CASE store' = {}
      BY <1>3, <3>1
    <3>2. CASE store' = store
      BY <1>2, <3>2
    <3> QED
      BY <1>1, <3>1, <3>2
  <2>2. \A r \in store : r.try \in Nat /\ r.try <= try
    BY <1>2 DEF Stamped
  <2> QED
    BY <1>1, <1>2, <2>1, <2>2
<1>5. BlockTypes'
  <2>1. line' \in 0 .. Len(block') /\ try' \in Nat /\ counter' \in Nat /\ wrote' \in Nat
    BY <1>1, <1>2
  <2> QED
    BY <1>1, <1>2, <1>3, <1>4, <2>1, Zenon DEF BlockTypes
<1>6. OfTry(store)' = {}
  BY <1>1, <1>2, <1>4 DEF OfTry
<1>7. RecordsFresh'
  <2>1. Cardinality(OfTry(store))' + Cardinality(docs)' = wrote'
    BY <1>1, <1>3, <1>6
  <2> QED
    BY <1>1, <1>6, <2>1 DEF RecordsFresh
<1>8. Blocks!Ids(keys)' = {}
  BY <1>1 DEF Blocks!Ids
<1>9. Numbered(line)' /\ Numbered(counter)' /\ Numbered(next_id)' /\ \E m \in Nat : m >= next_id' /\ Numbered(m)'
  <2>1. 0 .. 0 - 1 = {}
    OBVIOUS
  <2>2. \A m : m = 0 => Numbered(m)'
    BY <1>8, <2>1 DEF Numbered
  <2>3. Numbered(line)' /\ Numbered(counter)' /\ Numbered(next_id)'
    BY <1>1, <1>8, <2>1 DEF Numbered
  <2> QED
    BY <1>1, <2>2, <2>3
<1>10. KeysNumbered'
  BY <1>1, <1>9 DEF KeysNumbered
<1> QED
  BY <1>5, <1>7, <1>10

(* If every line gave something, the loop finds what the transform returns.*)
LEMMA CompleteIsVerified ==
  ASSUME BlockInv, at = "lines", line = Len(block), ~gap
  PROVE  Blocks!Verified(Blocks!Returned) /\ ~Blocks!Nothing
<1>1. /\ BlockTypes /\ KeysNumbered /\ line \in Nat /\ line > 0 /\ counter \in Nat /\ next_id \in Nat
      /\ worker \in AtTheEnd \cup OfFiles \cup {"perfherder", "tcPerfherder"}
  BY BlockLength, RecordsAssumption DEF BlockInv, BlockTypes, Blocks!TransformsAssumption, AtTheEnd, OfFiles,
                                      Blocks!Deleting, Blocks!PerLine
<1>2. \A k : (Blocks!Stored(k) \/ \E d \in docs : d.key = k) => \E r \in Blocks!Written : r.key = k
  <2>1. docs \in SUBSET Stamped /\ IsFiniteSet(docs) /\ \A d \in docs : d.try = try
    BY <1>1 DEF BlockTypes
  <2> QED
    BY <1>1, <2>1, ExtendFacts DEF Blocks!Written
<1>3. \A m \in Nat : Blocks!Contiguous(0 .. m - 1)
  <2> SUFFICES ASSUME NEW m \in Nat PROVE Blocks!Contiguous(0 .. m - 1)
    OBVIOUS
  <2>1. Cardinality(0 .. m - 1) = m
    BY FS_Interval
  <2> QED
    BY <2>1, BlocksCardinality DEF Blocks!Contiguous
<1>4. CASE worker = "buildbot"
  <2>1. Blocks!Returned = {<< >>}
    BY <1>4 DEF Blocks!Returned
  <2> QED
    BY <2>1 DEF Blocks!Verified, Blocks!Trusted, Blocks!Nothing
<1>5. CASE worker = "joblogs"
  <2>1. Blocks!Returned = {<<0>>}
    BY <1>5 DEF Blocks!Returned
  <2>2. \E r \in Blocks!Written : r.key = <<0>>
    BY <1>1, <1>2, <1>5 DEF KeysNumbered
  <2>3. Blocks!Ids({<<0>>}) = 0 .. 1 - 1
    <3> DEFINE c == 0
    <3>1. c \in Nat /\ {c} = 0 .. 1 - 1
      OBVIOUS
    <3> HIDE DEF c
    <3>2. Blocks!Ids({<<c>>}) = {c}
      BY <3>1, IdsOfMore
    <3> QED
      BY <3>1, <3>2 DEF c
  <2>4. Blocks!Contiguous(Blocks!Ids({<<0>>}))
    BY <1>3, <2>3
  <2> QED
    BY <2>1, <2>2, <2>4 DEF Blocks!Verified, Blocks!Nothing
<1>6. CASE worker \notin {"buildbot", "joblogs"}
  <2>1. Blocks!Returned = keys
    BY <1>6 DEF Blocks!Returned
  <2>2. \E m \in Nat : Numbered(m)
    <3>1. counter + 1 \in Nat
      BY <1>1
    <3> QED
      BY <1>1, <1>6, <3>1 DEF KeysNumbered, AtTheEnd, OfFiles, Blocks!PerLine
  <2>3. Blocks!Contiguous(Blocks!Ids(keys))
    BY <1>3, <2>2 DEF Numbered
  <2>4. worker \in Blocks!ToEs \/ \A k \in keys : \E r \in Blocks!Written : r.key = k
    BY <1>1, <1>2 DEF KeysNumbered, Blocks!ToEs
  <2>5. keys # {}
    BY <1>1, <1>6 DEF KeysNumbered
  <2> QED
    BY <2>1, <2>3, <2>4, <2>5 DEF Blocks!Verified, Blocks!Nothing
<1> QED
  BY <1>4, <1>5, <1>6

(* The transform returns.                                                  *)
LEMMA EndStep ==
  ASSUME BlockInv, Blocks!Verify \/ Blocks!Drop
  PROVE  BlockInv'
<1>1. /\ at = "lines" /\ line = Len(block) /\ store' = Blocks!Extended(docs) /\ docs' = {}
      /\ at' \in {"stored", "dropped"}
      /\ UNCHANGED <<worker, block, source_id, mode, old, try, line, counter, next_id, keys, wrote, gap, clash>>
  BY DEF Blocks!Verify, Blocks!Drop, Blocks!AtEnd, Blocks!Written, Blocks!given
<1>2. /\ BlockTypes /\ RecordsFresh /\ announced = {} /\ worker \in Workers
  BY <1>1 DEF BlockInv
<1>3. /\ docs \in SUBSET Stamped /\ IsFiniteSet(docs) /\ \A d \in docs : d.try = try
  BY <1>2 DEF BlockTypes
<1>4. /\ store' \in SUBSET Stamped /\ IsFiniteSet(store') /\ \A r \in store' : r.try <= try
      /\ \A k : (Blocks!Stored(k) \/ \E d \in docs : d.key = k) => \E r \in store' : r.key = k
      /\ (\A d \in docs, r \in OfTry(store) : <<d.key, d.id>> # <<r.key, r.id>>) =>
           Cardinality(OfTry(store')) = Cardinality(OfTry(store)) + Cardinality(docs)
  BY <1>1, <1>2, <1>3, ExtendFacts
<1>5. BlockTypes'
  BY <1>1, <1>2, <1>4, FS_EmptySet DEF BlockTypes
<1>6. RecordsFresh' /\ KeysNumbered'
  BY <1>1 DEF RecordsFresh, KeysNumbered
<1>7. Blocks!RecordsKeepApart'
  <2> SUFFICES ASSUME ~clash PROVE Blocks!Made'
    BY <1>1 DEF Blocks!RecordsKeepApart
  <2>1. /\ IF worker \in AtTheEnd THEN OfTry(store) = {} ELSE docs = {}
        /\ Cardinality(OfTry(store)) + Cardinality(docs) = wrote
    BY <1>1, <1>2 DEF RecordsFresh
  <2>2. Cardinality(OfTry(store')) = wrote'
    BY <1>1, <1>4, <2>1
  <2>3. {r \in store' : r.try = try'} = OfTry(store')
    BY <1>1 DEF OfTry
  <2>4. Blocks!Cardinality({r \in store' : r.try = try'}) = wrote'
    BY <2>2, <2>3, BlocksCardinality
  <2> QED
    BY <2>4 DEF Blocks!Made
<1>8. Blocks!DroppedIsIncomplete'
  <2> SUFFICES ASSUME at' = "dropped" PROVE gap
    BY <1>1 DEF Blocks!DroppedIsIncomplete
  <2>1. Blocks!Verify => at' = "stored"
    BY DEF Blocks!Verify
  <2>2. Blocks!Drop
    BY <2>1
  <2> QED
    BY <1>1, <1>5, <2>2, CompleteIsVerified DEF Blocks!Drop, BlockInv, BlockTypes
<1>9. Blocks!AnnouncedExists'
  <2>1. CASE Blocks!Drop
    BY <1>1, <1>2, <2>1 DEF Blocks!Drop, Blocks!given, Blocks!AnnouncedExists
  <2>2. CASE Blocks!Verify
    <3> SUFFICES ASSUME NEW k \in announced' \ old
                 PROVE  Blocks!Stored(k)' \/ Blocks!Trusted(Blocks!Returned)' \/ worker \in Blocks!ToEs
      BY <1>1 DEF Blocks!AnnouncedExists, Blocks!ToEs
    <3>1. k \in Blocks!Returned /\ Blocks!Verified(Blocks!Returned)
      BY <2>2 DEF Blocks!Verify
    <3>2. CASE Blocks!Trusted(Blocks!Returned)
      BY <1>1, <3>2 DEF Blocks!Trusted, Blocks!Ids, Blocks!Returned
    <3>3. CASE \E r \in Blocks!Written : r.key = k
      BY <1>1, <3>3 DEF Blocks!Written, Blocks!Stored
    <3> QED
      BY <3>1, <3>2, <3>3 DEF Blocks!Verified
  <2> QED
    BY <2>1, <2>2
<1> QED
  BY <1>1, <1>2, <1>5, <1>6, <1>7, <1>8, <1>9 DEF BlockInv

LEMMA BlockInit == Blocks!Init => BlockInv
<1> SUFFICES ASSUME Blocks!Init PROVE BlockInv
  OBVIOUS
<1>1. /\ worker \in Workers /\ block \in Blocks!Blocks /\ at = "ready" /\ line = 0 /\ counter = 0 /\ next_id = 0
      /\ keys = {} /\ docs = {} /\ store = {} /\ announced = {} /\ try = 0 /\ wrote = 0
      /\ gap = FALSE /\ clash = FALSE
  BY DEF Blocks!Init
<1>2. Len(block) \in Nat /\ IsFiniteSet({})
  BY <1>1, BlockLength, FS_EmptySet
<1>3. BlockTypes
  <2>1. line \in 0 .. Len(block) /\ try \in Nat /\ counter \in Nat /\ next_id \in Nat /\ wrote \in Nat
    BY <1>1, <1>2
  <2>2. /\ store \in SUBSET Stamped /\ IsFiniteSet(store) /\ docs \in SUBSET Stamped /\ IsFiniteSet(docs)
        /\ (\A r \in store : r.try <= try) /\ \A d \in docs : d.try = try
    BY <1>1, <1>2
  <2> QED
    BY <1>1, <2>1, <2>2 DEF BlockTypes
<1> QED
  BY <1>1, <1>3 DEF BlockInv, RecordsFresh, KeysNumbered, Blocks!AnnouncedExists, Blocks!DroppedIsIncomplete,
                    Blocks!RecordsKeepApart

LEMMA BlockStep ==
  ASSUME BlockInv, [Blocks!Next]_blockVars
  PROVE  BlockInv'
<1>1. CASE UNCHANGED blockVars
  <2>1. UNCHANGED <<worker, block, source_id, at, line, counter, next_id, keys, docs, store, old, announced,
                    try, wrote, gap, clash>>
    BY <1>1 DEF blockVars
  <2>2. BlockTypes'
    BY <2>1 DEF BlockInv, BlockTypes
  <2>3. \A r : Passed(r) => Passed(r)'
    BY <2>1 DEF Passed
  <2>4. RecordsFresh'
    BY <2>1, <2>3 DEF BlockInv, RecordsFresh, OfTry
  <2>5. \A m : Numbered(m) => Numbered(m)'
    BY <2>1 DEF Numbered, Blocks!Ids
  <2>6. /\ Numbered(line)' = Numbered(line) /\ Numbered(counter)' = Numbered(counter)
        /\ Numbered(counter + 1)' = Numbered(counter + 1) /\ Numbered(next_id)' = Numbered(next_id)
        /\ \A k : Blocks!Stored(k)' = Blocks!Stored(k)
    BY <2>1 DEF Numbered, Blocks!Ids, Blocks!Stored
  <2>7. KeysNumbered'
    BY <2>1, <2>5, <2>6 DEF BlockInv, KeysNumbered
  <2>8. Blocks!AnnouncedExists' /\ Blocks!DroppedIsIncomplete' /\ Blocks!RecordsKeepApart'
    BY <2>1 DEF BlockInv, Blocks!AnnouncedExists, Blocks!DroppedIsIncomplete, Blocks!RecordsKeepApart,
                Blocks!Made, Blocks!Stored, Blocks!Trusted, Blocks!Returned, Blocks!Ids
  <2> QED
    BY <2>1, <2>2, <2>4, <2>7, <2>8 DEF BlockInv
<1>2. CASE Blocks!Verify \/ Blocks!Drop
  BY <1>2, EndStep
<1>3. ASSUME BlockTypes' /\ RecordsFresh' /\ KeysNumbered', at' = "lines", UNCHANGED worker, announced' = {}
      PROVE  BlockInv'
  BY <1>3 DEF BlockInv, Blocks!AnnouncedExists, Blocks!DroppedIsIncomplete, Blocks!RecordsKeepApart
<1>4. CASE Blocks!Begin
  <2>1. at' = "lines" /\ UNCHANGED worker /\ announced' = {}
    BY <1>4 DEF Blocks!Begin
  <2> QED
    BY <1>3, <1>4, <2>1, BeginStep DEF BlockInv
<1>5. CASE Blocks!Raise
  <2>1. /\ at = "lines" /\ at' = "failed"
        /\ UNCHANGED <<worker, block, announced, try, clash, line, counter, next_id, keys, docs, store, wrote, gap>>
    BY <1>5 DEF Blocks!Raise, Blocks!Reading, Blocks!given
  <2>2. BlockTypes'
    BY <2>1 DEF BlockInv, BlockTypes
  <2> QED
    BY <2>1, <2>2 DEF BlockInv, RecordsFresh, KeysNumbered, Blocks!AnnouncedExists, Blocks!DroppedIsIncomplete,
                      Blocks!RecordsKeepApart
<1>6. CASE \/ Blocks!BlankLine \/ Blocks!NoLog \/ Blocks!EsLine \/ Blocks!JobLine \/ Blocks!BuildLine \/ Blocks!TooOld
           \/ Blocks!OldHost \/ Blocks!EmptyLog \/ Blocks!MissingLog
           \/ \E n \in 1 .. MaxRecords : Blocks!LogLine(n)
           \/ \E n \in 0 .. MaxRecords : Blocks!TaskLine(n) \/ Blocks!MissingTaskLog(n)
           \/ Blocks!BuildFile \/ Blocks!TaskFile \/ Blocks!FirefoxFile \/ Blocks!CoverageFile
           \/ Blocks!FileGivenUp \/ Blocks!FilesDone
  <2>1. Going /\ at' = "lines" /\ UNCHANGED <<worker, announced>>
    BY <1>6, Zenon DEF BlockInv, Going, Blocks!BlankLine, Blocks!NoLog, Blocks!EsLine, Blocks!JobLine, Blocks!BuildLine,
                Blocks!TooOld, Blocks!OldHost, Blocks!EmptyLog, Blocks!MissingLog, Blocks!LogLine, Blocks!TaskLine,
                Blocks!MissingTaskLog, Blocks!BuildFile, Blocks!TaskFile, Blocks!FirefoxFile, Blocks!CoverageFile,
                Blocks!FileGivenUp, Blocks!FilesDone, Blocks!Full, Blocks!Reading, Blocks!Keep, Blocks!Filed,
                Blocks!given
  <2>2. BlockTypes' /\ RecordsFresh' /\ KeysNumbered'
    BY <1>6, <2>1, LineGivesNothing, LineGivesDocument, LineEndsBlock, LogStep, TaskStep, FileStep, FilesDoneStep
       DEF BlockInv
  <2>3. announced' = {}
    BY <2>1 DEF BlockInv, Going
  <2> QED
    BY <1>3, <2>1, <2>2, <2>3
<1> QED
  BY <1>1, <1>2, <1>4, <1>5, <1>6 DEF Blocks!Next

LEMMA BlockIsInvariant == Blocks!Spec => []BlockInv
<1>1. Blocks!Init => BlockInv
  BY BlockInit
<1>2. BlockInv /\ [Blocks!Next]_blockVars => BlockInv'
  BY BlockStep
<1> QED
  BY <1>1, <1>2, PTL DEF Blocks!Spec, Blocks!blockVars, blockVars

(* _dispatch_work: a key that is announced has an object, unless it was    *)
(* there before or its number spared it the look-up; a block is dropped    *)
(* only when a line of it gave nothing (etl.py 169-217).                   *)
THEOREM BlocksEndAsTheyShould == Blocks!Spec => []BlocksEndRight
<1>1. BlockInv => BlocksEndRight
  BY DEF BlockInv, BlocksEndRight
<1> QED
  BY <1>1, BlockIsInvariant, PTL

(* The transforms: no two records that an attempt makes have one place in  *)
(* the destination, whatever the attempts before it left there, but for    *)
(* the record of an old host.                                              *)
THEOREM RecordsOfAnAttemptKeepApart == Blocks!Spec => []RecordsKeepApart
<1>1. BlockInv => RecordsKeepApart
  BY DEF BlockInv, RecordsKeepApart
<1> QED
  BY <1>1, BlockIsInvariant, PTL

(* What is in the destination was made by an attempt that there was.       *)
Tried ==
  /\ try = 0 => at = "ready" /\ docs = {}
  /\ \A r \in store : 1 <= r.try

(* The files of a line are bounded, and no other transform counts further  *)
(* than it has read.                                                       *)
NumberedSoFar ==
  IF worker \in Blocks!Deleting \cup Blocks!PerLine THEN counter <= MaxRecords ELSE counter <= line

LEMMA ExtendedTries ==
  ASSUME NEW R, \A d \in R : d.try = try
  PROVE  \A r \in Blocks!Extended(R) : r \in store \/ r.try = try
  BY DEF Blocks!Extended

LEMMA RecordTry == \A key, id : Blocks!Record(key, id).try = try
  BY DEF Blocks!Record

(* What a step puts into the destination is of its attempt.                *)
Puts == \A r \in store' : r \in store \/ r.try = try

LEMMA ExtendPuts ==
  ASSUME NEW R, \A d \in R : d.try = try, NEW n, Blocks!Extend(R, n) PROVE Puts
  BY ExtendedTries DEF Blocks!Extend, Puts

LEMMA OverwritePuts ==
  ASSUME NEW key, Blocks!Overwrite(key) PROVE Puts
  BY RecordTry DEF Blocks!Overwrite, Puts

LEMMA MissingPuts ==
  ASSUME NEW key, NEW id, Blocks!Missing(key, id) PROVE Puts
<1>1. \A d \in {Blocks!Record(key, id)} : d.try = try
  BY RecordTry
<1> QED
  BY <1>1, ExtendPuts DEF Blocks!Missing, Puts

(* How a step counts.                                                      *)
CountsOn ==
  \/ counter' = 0
  \/ counter' = counter /\ line' >= line
  \/ /\ counter' = counter + 1 /\ line' = line + 1
     /\ worker \notin Blocks!Deleting \cup Blocks!PerLine
  \/ /\ counter' = counter + 1 /\ counter < MaxRecords
     /\ worker \in Blocks!Deleting \cup Blocks!PerLine

LEMMA NumberedSoFarStays ==
  ASSUME BlockTypes, line' \in Nat, NumberedSoFar, CountsOn, worker' = worker PROVE NumberedSoFar'
<1>1. MaxRecords \in Nat
  BY RecordsAssumption DEF Blocks!TransformsAssumption
<1>2. counter \in Nat /\ line \in Nat
  BY BlockLength DEF BlockTypes
<1> QED
  BY <1>1, <1>2 DEF NumberedSoFar, CountsOn

LEMMA TriedStays ==
  ASSUME BlockTypes, Tried, Puts, try' = try, try >= 1 PROVE Tried'
<1>1. try \in Nat
  BY DEF BlockTypes
<1> QED
  BY <1>1 DEF Tried, Puts

Reads ==
  \/ Blocks!BlankLine \/ Blocks!NoLog \/ Blocks!EsLine \/ Blocks!JobLine \/ Blocks!BuildLine
  \/ Blocks!TooOld \/ Blocks!OldHost \/ Blocks!EmptyLog \/ Blocks!MissingLog
  \/ \E n \in 1 .. MaxRecords : Blocks!LogLine(n)
  \/ \E n \in 0 .. MaxRecords : Blocks!TaskLine(n) \/ Blocks!MissingTaskLog(n)
  \/ Blocks!BuildFile \/ Blocks!TaskFile \/ Blocks!FirefoxFile \/ Blocks!CoverageFile
  \/ Blocks!FileGivenUp \/ Blocks!FilesDone

LEMMA ReadsPut ==
  ASSUME Reads PROVE Puts
<1>1. ASSUME store' = store PROVE Puts
  BY <1>1 DEF Puts
<1>2. CASE Blocks!BlankLine \/ Blocks!NoLog \/ Blocks!TooOld \/ Blocks!FileGivenUp \/ Blocks!FilesDone
  BY <1>1, <1>2 DEF Blocks!BlankLine, Blocks!NoLog, Blocks!TooOld, Blocks!FileGivenUp, Blocks!FilesDone
<1>3. CASE Blocks!EsLine \/ Blocks!JobLine \/ Blocks!BuildLine
  BY <1>1, <1>3 DEF Blocks!EsLine, Blocks!JobLine, Blocks!BuildLine, Blocks!Keep
<1>4. CASE Blocks!OldHost \/ Blocks!EmptyLog
  <2>1. \A key, id : \A d \in {Blocks!Record(key, id)} : d.try = try
    BY RecordTry
  <2>2. \E key, id : Blocks!Extend({Blocks!Record(key, id)}, 1)
    BY <1>4 DEF Blocks!OldHost, Blocks!EmptyLog
  <2> QED
    BY <2>1, <2>2, ExtendPuts
<1>5. CASE Blocks!MissingLog \/ \E n \in 0 .. MaxRecords : Blocks!MissingTaskLog(n)
  <2>1. \E key, id : Blocks!Missing(key, id)
    BY <1>5 DEF Blocks!MissingLog, Blocks!MissingTaskLog
  <2> QED
    BY <2>1, MissingPuts
<1>6. ASSUME NEW n, Blocks!LogLine(n) PROVE Puts
  <2>1. Blocks!Extend({Blocks!Record(<<counter>>, next_id + k) : k \in 0 .. n - 1}, n)
    BY <1>6 DEF Blocks!LogLine
  <2>2. \A d \in {Blocks!Record(<<counter>>, next_id + k) : k \in 0 .. n - 1} : d.try = try
    BY RecordTry
  <2> QED
    BY <2>1, <2>2, ExtendPuts
<1>7. ASSUME NEW n, Blocks!TaskLine(n) PROVE Puts
  <2> DEFINE made == IF n = 0 THEN 1 ELSE n
             R == {Blocks!Record(<<line>>, k) : k \in 0 .. made - 1}
  <2>1. Blocks!Extend(R, made)
    BY <1>7 DEF Blocks!TaskLine
  <2>2. \A d \in R : d.try = try
    BY RecordTry
  <2> QED
    BY <2>1, <2>2, ExtendPuts
<1>8. CASE Blocks!BuildFile \/ Blocks!TaskFile \/ Blocks!FirefoxFile \/ Blocks!CoverageFile
  <2>1. \E key : Blocks!Overwrite(key)
    BY <1>8 DEF Blocks!BuildFile, Blocks!TaskFile, Blocks!FirefoxFile, Blocks!CoverageFile
  <2> QED
    BY <2>1, OverwritePuts
<1> QED
  BY <1>2, <1>3, <1>4, <1>5, <1>6, <1>7, <1>8 DEF Reads

LEMMA ReadsCount ==
  ASSUME BlockTypes, Reads PROVE CountsOn /\ UNCHANGED <<worker, try>> /\ at = "lines"
<1>1. /\ line \in Nat /\ counter \in Nat /\ Len(block) \in Nat /\ Len(block) >= line
      /\ line + 1 >= line /\ counter + 0 = counter
  BY BlockLength DEF BlockTypes
<1>2. at = "lines" /\ line < Len(block) /\ UNCHANGED <<worker, try>>
  BY Zenon DEF Reads, Blocks!BlankLine, Blocks!NoLog, Blocks!EsLine, Blocks!JobLine, Blocks!BuildLine,
       Blocks!TooOld, Blocks!OldHost, Blocks!EmptyLog, Blocks!MissingLog, Blocks!LogLine, Blocks!TaskLine,
       Blocks!MissingTaskLog, Blocks!BuildFile, Blocks!TaskFile, Blocks!FirefoxFile, Blocks!CoverageFile,
       Blocks!FileGivenUp, Blocks!FilesDone, Blocks!Full, Blocks!Reading, Blocks!Keep, Blocks!Filed,
       Blocks!given
<1>3. CASE Blocks!BlankLine \/ Blocks!NoLog \/ Blocks!TooOld \/ Blocks!OldHost
  BY <1>1, <1>2, <1>3 DEF Blocks!BlankLine, Blocks!NoLog, Blocks!TooOld, Blocks!OldHost, Blocks!NextLine, CountsOn
<1>4. CASE Blocks!EsLine \/ Blocks!JobLine \/ Blocks!BuildLine
  <2>1. /\ line' = line + 1
        /\ counter' = counter + 0 \/ (worker = "joblogs" /\ counter' = counter + 1)
    BY <1>4 DEF Blocks!EsLine, Blocks!JobLine, Blocks!BuildLine, Blocks!Keep, Blocks!NextLine, Blocks!Full,
         Blocks!Reading
  <2>2. "joblogs" \notin Blocks!Deleting \cup Blocks!PerLine
    BY DEF Blocks!Deleting, Blocks!PerLine
  <2> QED
    BY <1>1, <1>2, <2>1, <2>2 DEF CountsOn
<1>5. CASE Blocks!EmptyLog \/ Blocks!MissingLog \/ \E n \in 1 .. MaxRecords : Blocks!LogLine(n)
  <2>1. counter' = counter + 1 /\ line' = line + 1 /\ worker = "perfherder"
    BY <1>5 DEF Blocks!EmptyLog, Blocks!MissingLog, Blocks!LogLine, Blocks!Logged, Blocks!NextLine, Blocks!Full,
         Blocks!Reading
  <2> QED
    BY <1>2, <2>1 DEF Blocks!Deleting, Blocks!PerLine, CountsOn
<1>6. CASE \E n \in 0 .. MaxRecords : Blocks!TaskLine(n) \/ Blocks!MissingTaskLog(n)
  BY <1>1, <1>2, <1>6 DEF Blocks!TaskLine, Blocks!MissingTaskLog, Blocks!NextLine, CountsOn
<1>7. CASE Blocks!BuildFile \/ Blocks!TaskFile \/ Blocks!FirefoxFile \/ Blocks!CoverageFile \/ Blocks!FileGivenUp
  <2>1. counter < MaxRecords /\ counter' = counter + 1
    BY <1>7 DEF Blocks!BuildFile, Blocks!TaskFile, Blocks!FirefoxFile, Blocks!CoverageFile, Blocks!FileGivenUp,
         Blocks!Filed
  <2>2. worker \in Blocks!Deleting \cup Blocks!PerLine
    BY <1>7 DEF Blocks!BuildFile, Blocks!TaskFile, Blocks!FirefoxFile, Blocks!CoverageFile, Blocks!FileGivenUp,
         Blocks!Full, Blocks!Reading, Blocks!Deleting, Blocks!PerLine
  <2> QED
    BY <1>2, <2>1, <2>2 DEF CountsOn
<1>8. CASE Blocks!FilesDone
  BY <1>2, <1>8 DEF Blocks!FilesDone, CountsOn
<1> QED
  BY <1>2, <1>3, <1>4, <1>5, <1>6, <1>7, <1>8 DEF Reads

LEMMA CountStep ==
  ASSUME BlockInv, BlockTypes', Tried, NumberedSoFar, [Blocks!Next]_blockVars PROVE Tried' /\ NumberedSoFar'
<1>1. /\ BlockTypes /\ try \in Nat /\ line \in Nat /\ line' \in Nat /\ \A d \in docs : d.try = try
      /\ MaxRecords \in Nat
  <2>1. BlockTypes
    BY DEF BlockInv
  <2>2. Len(block) \in Nat /\ Len(block') \in Nat
    BY <2>1, BlockLength DEF BlockTypes
  <2>3. MaxRecords \in Nat
    BY RecordsAssumption DEF Blocks!TransformsAssumption
  <2> QED
    BY <2>1, <2>2, <2>3 DEF BlockTypes
<1>2. at # "ready" => try >= 1
  BY <1>1 DEF Tried
<1>3. CASE UNCHANGED blockVars
  BY <1>3 DEF blockVars, Tried, NumberedSoFar
<1>4. CASE Blocks!Begin
  <2>1. try' = try + 1 /\ counter' = 0 /\ line' = 0 /\ store' \subseteq store /\ docs' = {}
    BY <1>4 DEF Blocks!Begin
  <2> QED
    BY <1>1, <2>1 DEF Tried, NumberedSoFar
<1>5. CASE Blocks!Raise
  <2>1. at = "lines" /\ UNCHANGED <<worker, try, counter, line, docs, store>>
    BY <1>5 DEF Blocks!Raise, Blocks!Reading, Blocks!given
  <2> QED
    BY <1>1, <2>1 DEF Tried, NumberedSoFar
<1>6. CASE Blocks!Verify \/ Blocks!Drop
  <2>1. /\ at = "lines" /\ UNCHANGED <<worker, try, counter, line>>
        /\ store' = Blocks!Extended(docs)
    BY <1>6 DEF Blocks!Verify, Blocks!Drop, Blocks!AtEnd, Blocks!Written, Blocks!given
  <2>2. Puts
    BY <1>1, <2>1, ExtendedTries DEF Puts
  <2>3. Tried'
    BY <1>1, <1>2, <2>1, <2>2, TriedStays
  <2> QED
    BY <2>1, <2>3 DEF NumberedSoFar
<1>7. CASE Reads
  <2>1. Puts /\ CountsOn /\ UNCHANGED <<worker, try>> /\ at = "lines"
    BY <1>1, <1>7, ReadsPut, ReadsCount
  <2> QED
    BY <1>1, <1>2, <2>1, TriedStays, NumberedSoFarStays
<1> QED
  BY <1>3, <1>4, <1>5, <1>6, <1>7 DEF Reads, Blocks!Next

(* The transforms: the types of a block that is read; what lies in the     *)
(* destination was made by an attempt that there was, and no key is        *)
(* numbered beyond the lines and the files that were seen.                 *)
THEOREM BlockTypesStay == Blocks!Spec => []Blocks!TransformsTypeOK
<1>1. Blocks!Init => Tried /\ NumberedSoFar
  <2> SUFFICES ASSUME Blocks!Init PROVE Tried /\ NumberedSoFar
    OBVIOUS
  <2>1. MaxRecords \in Nat
    BY RecordsAssumption DEF Blocks!TransformsAssumption
  <2> QED
    BY <2>1 DEF Blocks!Init, Tried, NumberedSoFar
<1>2. BlockInv /\ BlockInv' /\ Tried /\ NumberedSoFar /\ [Blocks!Next]_blockVars => Tried' /\ NumberedSoFar'
  BY CountStep DEF BlockInv
<1>3. BlockInv /\ Tried /\ NumberedSoFar => Blocks!TransformsTypeOK
  <2> SUFFICES ASSUME BlockInv, Tried, NumberedSoFar PROVE Blocks!TransformsTypeOK
    OBVIOUS
  <2>1. BlockTypes /\ worker \in Workers
    BY DEF BlockInv
  <2>2. counter \in 0 .. BlockLines + MaxRecords
    <3>1. MaxRecords \in Nat /\ BlockLines \in Nat
      BY RecordsAssumption DEF Blocks!TransformsAssumption
    <3>2. Len(block) \in Nat /\ Len(block) <= BlockLines
      BY <2>1, <3>1, BlockLength DEF BlockTypes
    <3> QED
      BY <2>1, <3>1, <3>2 DEF BlockTypes, NumberedSoFar
  <2>3. ASSUME NEW r \in store \cup docs PROVE r.try \in 1 .. try
    <3>1. r \in Stamped /\ r.try \in Nat /\ r.try <= try /\ try \in Nat
      BY <2>1 DEF BlockTypes, Stamped
    <3>2. r.try >= 1
      BY <2>1, <3>1 DEF BlockTypes, Tried
    <3> QED
      BY <3>1, <3>2
  <2> QED
    BY <2>1, <2>2, <2>3 DEF BlockTypes, Blocks!TransformsTypeOK
<1> QED
  BY <1>1, <1>2, <1>3, BlockIsInvariant, PTL DEF Blocks!Spec, Blocks!blockVars, blockVars

==============================================================================
