---------------------------- MODULE TaskCluster ----------------------------
(***************************************************************************)
(* From the messages about tasks in a block to one record for each         *)
(* (activedata_etl/transforms/pulse_block_to_task_cluster.py).  For every  *)
(* line Taskcluster is asked for the task, its status and its artifacts,   *)
(* while the task goes on.  Its first view of a task is kept by the        *)
(* process, in a dictionary that all its threads use, and later views are  *)
(* compared with it: what _normalize left of the message, and the list of  *)
(* the artifacts.  The runs are gone by then, and whatever the first view  *)
(* does not have is not compared; so a later view may say more.            *)
(***************************************************************************)
EXTENDS Naturals, Sequences, SequencesExt

CONSTANTS
  TcTasks,      (* the tasks                                               *)
  TcKinds,      (* of messages                                             *)
  Left,         (* by kind, the members of a message that _normalize,      *)
                (* which takes what it knows, leaves in it                 *)
  Listings,     (* lists of artifacts                                      *)
  Readers,      (* threads that transform blocks                           *)
  TcLines,      (* lines of a block                                        *)
  MaxChanges,   (* bound on the changes of a task                          *)
  MaxReads      (* bound on the blocks that are begun                      *)

TcAssumption ==
  /\ TcLines \in Nat \ {0} /\ MaxChanges \in Nat
  /\ TcKinds \cap {"unseen", "unknown"} = {}

VARIABLES
  missing,      (* tasks Taskcluster does not know any more                *)
  changes,      (* how often the artifacts of a task changed               *)
  listed,       (* the artifacts of a task                                 *)
  seen,         (* seen_tasks: a view, or Unseen                           *)
  reader,       (* of each thread: see Idle                                *)
  tc_records,   (* the destination: [read, line, task, view, source]       *)
  given_up,     (* history: lines with a warning:                          *)
                (* [read, line, task, differs]                             *)
  ended,        (* history: blocks whose records were written              *)
  reads,        (* history: blocks begun                                   *)
  firsts        (* history: views that were kept: [task, reader, view]     *)

tcVars == <<missing, changes, listed, seen, reader, tc_records, given_up, ended, reads,
            firsts>>

(* A view: the kind of the message, and the artifacts.                     *)
Unseen == [kind |-> "unseen", artifacts |-> <<>>]
NotFound == [kind |-> "unknown", artifacts |-> <<>>]

Idle == [at |-> "rest", read |-> 0, line |-> 0, task |-> CHOOSE t \in TcTasks : TRUE,
         view |-> Unseen, source |-> 0, output |-> {}]

Init ==
  /\ missing \in SUBSET TcTasks
  /\ changes = [t \in TcTasks |-> 0]
  /\ listed \in [TcTasks -> Listings]
  /\ seen = [t \in TcTasks |-> Unseen]
  /\ reader = [r \in Readers |-> Idle]
  /\ tc_records = {} /\ given_up = {} /\ ended = {} /\ reads = 0 /\ firsts = {}

(* A task goes on.  How its last run ends is left open, and with it which  *)
(* failures of its log matter.                                             *)
Change(t) ==
  /\ changes[t] < MaxChanges
  /\ changes' = [changes EXCEPT ![t] = @ + 1]
  /\ \E l \in Listings : listed' = [listed EXCEPT ![t] = l]
  /\ UNCHANGED <<missing, seen, reader, tc_records, given_up, ended, reads, firsts>>

-----------------------------------------------------------------------------
(* process(): the calls for a line, one after the other.                   *)

world == <<missing, changes, listed>>

Begin(r) ==
  /\ reader[r].at = "rest" /\ reads < MaxReads
  /\ reads' = reads + 1
  /\ reader' = [reader EXCEPT ![r] = [Idle EXCEPT !.at = "task", !.read = reads + 1]]
  /\ UNCHANGED <<world, seen, tc_records, given_up, ended, firsts>>

Goto(r, at, e) == reader' = [reader EXCEPT ![r] = [e EXCEPT !.at = at]]

NextLine(e) ==
  [e EXCEPT !.line = @ + 1, !.at = IF e.line + 1 = TcLines THEN "write" ELSE "task",
            !.task = Idle.task, !.view = Unseen]

(* One source for all records: that of the first line that got so far.     *)
Source(e) == IF e.source = 0 THEN e.line + 1 ELSE e.source

Output(e, view) ==
  [NextLine(e) EXCEPT
     !.source = Source(e),
     !.output = @ \cup {[read |-> e.read, line |-> e.line, task |-> e.task, view |-> view,
                         source |-> Source(e)]}]

GetTask(r, t, k) ==
  /\ reader[r].at = "task" /\ t \notin missing
  /\ Goto(r, "status", [reader[r] EXCEPT !.task = t, !.view.kind = k])
  /\ UNCHANGED <<world, seen, tc_records, given_up, ended, reads, firsts>>

GetNoTask(r, t) ==
  /\ reader[r].at = "task" /\ t \in missing
  /\ reader' = [reader EXCEPT ![r] = Output([@ EXCEPT !.task = t], NotFound)]
  /\ UNCHANGED <<world, seen, tc_records, given_up, ended, reads, firsts>>

(* The last run is resolved, in whatever state.  If it is not, the block   *)
(* is given back: GiveBack.                                                *)
GetStatus(r) ==
  /\ reader[r].at = "status"
  /\ Goto(r, "artifacts", reader[r])
  /\ UNCHANGED <<world, seen, tc_records, given_up, ended, reads, firsts>>

GetArtifacts(r) ==
  LET e == reader[r]
  IN  /\ e.at = "artifacts"
      /\ Goto(r, "log", [e EXCEPT !.view.artifacts = listed[e.task]])
      /\ UNCHANGED <<world, seen, tc_records, given_up, ended, reads, firsts>>

(* The log was read, or the run did not complete and nobody minds.  The    *)
(* source is settled before the views are compared.                        *)
ReadLog(r) ==
  /\ reader[r].at = "log"
  /\ Goto(r, "compare", [reader[r] EXCEPT !.source = Source(reader[r])])
  /\ UNCHANGED <<world, seen, tc_records, given_up, ended, reads, firsts>>

(* assertAlmostEqual: what the first view does not have is not looked at.  *)
Extends(view, first) ==
  Left[first.kind] \subseteq Left[view.kind] /\ IsPrefix(first.artifacts, view.artifacts)

(* Mutant: the newest view is kept.                                        *)
CompareNewest(r) ==
  /\ reader[r].at = "compare" /\ seen[reader[r].task] # Unseen
  /\ seen' = [seen EXCEPT ![reader[r].task] = reader[r].view]
  /\ reader' = [reader EXCEPT ![r] = Output(@, @.view)]
  /\ UNCHANGED <<world, tc_records, given_up, ended, reads, firsts>>

(* The kind is kept of a message that differs.                             *)
Warned(e, kinds) ==
  given_up' = given_up \cup
    {[read |-> e.read, line |-> e.line, task |-> e.task, differs |-> kinds]}

(* "Not expected"                                                          *)
Compare(r) ==
  LET e == reader[r]
  IN  /\ e.at = "compare" /\ seen[e.task] # Unseen
      /\ \/ /\ Extends(e.view, seen[e.task])
            /\ reader' = [reader EXCEPT ![r] = Output(e, e.view)]
            /\ UNCHANGED given_up
         \/ /\ ~Extends(e.view, seen[e.task])
            /\ reader' = [reader EXCEPT ![r] = NextLine(e)]
            /\ Warned(e, {e.view.kind})
      /\ UNCHANGED <<world, seen, tc_records, ended, reads, firsts>>

NotSeen(r) ==
  /\ reader[r].at = "compare" /\ seen[reader[r].task] = Unseen
  /\ Goto(r, "remember", reader[r])
  /\ UNCHANGED <<world, seen, tc_records, given_up, ended, reads, firsts>>

Remember(r) ==
  LET e == reader[r]
  IN  /\ e.at = "remember"
      /\ seen' = [seen EXCEPT ![e.task] = e.view]
      /\ firsts' = firsts \cup {[task |-> e.task, reader |-> r, view |-> e.view]}
      /\ reader' = [reader EXCEPT ![r] = Output(e, e.view)]
      /\ UNCHANGED <<world, tc_records, given_up, ended, reads>>

Asking == {"task", "status", "artifacts", "log"}

(* Any other failure of a call, or of the log of a completed run: a        *)
(* warning, and the line is gone.                                          *)
GiveUpLine(r) ==
  LET e == reader[r]
  IN  /\ e.at \in Asking
      /\ Warned(e, {})
      /\ reader' = [reader EXCEPT ![r] = NextLine(e)]
      /\ UNCHANGED <<world, seen, tc_records, ended, reads, firsts>>

(* TRY_AGAIN_LATER: an error of the server, a task that is not resolved,   *)
(* artifacts that can not be listed, a connection lost within the log of a *)
(* completed run; or the thread is to stop, or the write fails.            *)
GiveBack(r) ==
  LET e == reader[r]
  IN  /\ e.at \in Asking \cup {"write"}
      /\ Goto(r, "rest", Idle)
      /\ UNCHANGED <<world, seen, tc_records, given_up, ended, reads, firsts>>

Write(r) ==
  LET e == reader[r]
  IN  /\ e.at = "write"
      /\ tc_records' = tc_records \cup e.output
      /\ ended' = ended \cup {e.read}
      /\ Goto(r, "rest", Idle)
      /\ UNCHANGED <<world, seen, given_up, reads, firsts>>

Next ==
  \/ \E t \in TcTasks : Change(t)
  \/ \E r \in Readers :
       \/ Begin(r)
       \/ \E t \in TcTasks : GetNoTask(r, t) \/ \E k \in TcKinds : GetTask(r, t, k)
       \/ GetStatus(r) \/ GetArtifacts(r) \/ ReadLog(r)
       \/ Compare(r) \/ NotSeen(r) \/ Remember(r)
       \/ GiveUpLine(r) \/ GiveBack(r) \/ Write(r)

Spec == Init /\ [][Next]_tcVars

-----------------------------------------------------------------------------
(* Properties.                                                             *)

(* Records of one task agree, whichever blocks and threads they came by    *)
(* and whatever failed: each says at least what a view says that was the   *)
(* first of its thread, with the same artifacts in front.  And a thread    *)
(* has but one first view of a task, so that one thread has one for all    *)
(* records.                                                                *)
FirstViewsStand ==
  /\ \A x \in tc_records :
       x.view # NotFound => \E f \in firsts : f.task = x.task /\ Extends(x.view, f.view)
  /\ \A f, g \in firsts : f.task = g.task /\ f.reader = g.reader => f = g

(* The records of a block have one source, and so one key of an object.    *)
OneSourceForABlock ==
  \A a, b \in tc_records : a.read = b.read => a.source = b.source

(* Every line of a block that was written has its record, or was given up; *)
(* and none was given up for what it shows unless its task changed while   *)
(* the process was there, or a message that was first left more.           *)
LinesAreAnswered ==
  /\ \A n \in ended, l \in 0 .. TcLines - 1 :
       \E x \in tc_records \cup given_up : x.read = n /\ x.line = l
  /\ \A g \in given_up, k \in TcKinds : k \in g.differs =>
       \/ changes[g.task] > 0
       \/ \E f \in firsts : f.task = g.task /\ ~(Left[f.view.kind] \subseteq Left[k])
==============================================================================
