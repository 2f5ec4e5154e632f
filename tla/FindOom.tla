------------------------------ MODULE FindOom -------------------------------
(***************************************************************************)
(* The tool that looks for out-of-memory errors in the logs of the         *)
(* Elasticsearch nodes, and restarts the node when the error is newer than *)
(* its last restart (activedata_etl/find_es_oom.py).  The error itself has *)
(* no timestamp on its line when a thread dies of it; the tool then takes  *)
(* the time of the first line after it that has one.                       *)
(***************************************************************************)
EXTENDS Naturals, Sequences, FiniteSets

CONSTANTS
  Nodes,        (* the instances that run Elasticsearch                    *)
  NumRestarts,  (* num_restarts: 100                                       *)
  MaxTime,      (* bound on the clock                                    *)
  MaxLog        (* bound on the lines of a log                             *)

VARIABLES
  now,
  log,          (* the lines of each node's log: [oom, time], 0 for no time *)
  started,      (* when each node was started                              *)
  visible,      (* the nodes that the cluster knows                        *)
  known,        (* known_nodes of this run                                 *)
  todo,         (* the nodes this run has yet to look at                   *)
  budget,       (* num_restarts of this run                                *)
  ooms,         (* history: the errors of each node                        *)
  bounced       (* history: the restarts because of an error               *)

nodeVars == <<now, log, started, visible, known, todo, budget, ooms, bounced>>

Line(oom, time) == [oom |-> oom, time |-> time]

OomInit ==
  /\ now = 1
  /\ log = [n \in Nodes |-> <<>>] /\ started = [n \in Nodes |-> 0]
  /\ visible = Nodes /\ known = {} /\ todo = {} /\ budget = 0
  /\ ooms = [n \in Nodes |-> 0] /\ bounced = [n \in Nodes |-> 0]

Tick ==
  /\ now < MaxTime /\ now' = now + 1
  /\ UNCHANGED <<log, started, visible, known, todo, budget, ooms, bounced>>

(* An error, or another line, is logged; an error may hide the node.       *)
Write(n) ==
  /\ Len(log[n]) < MaxLog
  /\ \E oom \in BOOLEAN, time \in {0, now} :
       /\ oom \/ time = now
       /\ log' = [log EXCEPT ![n] = Append(@, Line(oom, time))]
       /\ ooms' = [ooms EXCEPT ![n] = IF oom THEN @ + 1 ELSE @]
       /\ visible' \in IF oom THEN {visible, visible \ {n}} ELSE {visible}
  /\ UNCHANGED <<now, started, known, todo, budget, bounced>>

(* The supervisor restarts a node that ended.                              *)
Respawn(n) ==
  /\ started' = [started EXCEPT ![n] = now] /\ visible' = visible \cup {n}
  /\ started[n] # now
  /\ UNCHANGED <<now, log, known, todo, budget, ooms, bounced>>

(* A run; one without restarts left ends, whatever nodes there are to see. *)
BeginLook ==
  /\ todo = {} \/ budget = 0
  /\ todo' = Nodes
  /\ known' = visible /\ budget' = NumRestarts
  /\ UNCHANGED <<now, log, started, visible, ooms, bounced>>

(* A line whose time the tool takes for that of an error: the first line   *)
(* with a time, from an error on.                                          *)
Dates(l, j) ==
  /\ l[j].time > 0
  /\ \E i \in 1 .. j : l[i].oom /\ \A k \in i .. j - 1 : l[k].time = 0

(* Mutant: an error of the time of the start counts as well.               *)
NewOomsAtStart(n) == {j \in DOMAIN log[n] : Dates(log[n], j) /\ log[n][j].time >= started[n]}

NewOoms(n) == {j \in DOMAIN log[n] : Dates(log[n], j) /\ log[n][j].time > started[n]}

Restart(n) ==
  /\ started' = [started EXCEPT ![n] = now]
  /\ visible' = visible \cup {n}

(* A node that the cluster did not know is restarted, whatever is left of  *)
(* the budget, and does not count.                                         *)
RestartUnknown(n) ==
  /\ n \in todo /\ budget > 0 /\ n \notin known
  /\ Restart(n) /\ todo' = todo \ {n}
  /\ UNCHANGED <<now, log, known, budget, ooms, bounced>>

(* A command that raises has cost a restart, and may have restarted the    *)
(* node; the tool then goes on to the next new error of the log, until a   *)
(* command does not raise.                                                 *)
RestartOom(n) ==
  /\ n \in todo /\ budget > 0 /\ n \in known
  /\ \E tried \in 1 .. budget, worked \in 0 .. budget :
         /\ worked <= tried /\ tried <= Cardinality(NewOoms(n))
         /\ worked > 0 \/ tried \in {budget, Cardinality(NewOoms(n))}
         /\ IF worked > 0 THEN Restart(n) ELSE UNCHANGED <<started, visible>>
         /\ budget' = budget - tried
         /\ bounced' = [bounced EXCEPT ![n] = @ + worked]
  /\ todo' = todo \ {n}
  /\ UNCHANGED <<now, log, known, ooms>>

(* Nothing new; or the node does not answer, which is only logged.         *)
LeaveNode(n) ==
  /\ n \in todo /\ budget > 0
  /\ todo' = todo \ {n}
  /\ UNCHANGED <<now, log, started, visible, known, budget, ooms, bounced>>

Next ==
  \/ Tick \/ BeginLook
  \/ \E n \in Nodes : Write(n) \/ Respawn(n) \/ RestartUnknown(n)
                      \/ RestartOom(n) \/ LeaveNode(n)

Spec == OomInit /\ [][Next]_nodeVars

------------------------------------------------------------------------------
(* However often the tool runs over a log that keeps every error, it       *)
(* restarts a node at most once for each (find_es_oom.py 117), although    *)
(* the time it takes for an error may be that of a line after a restart.   *)
OneRestartPerOom == \A n \in Nodes : bounced[n] <= ooms[n]
==============================================================================
