----------------------------- MODULE CopyQueue ------------------------------
(***************************************************************************)
(* The copying of one queue into another (activedata_etl/copy_queue.py):   *)
(* messages are taken until none comes, and only then deleted from the     *)
(* source.  The queue hides a message it gave for a while; the process     *)
(* remembers what it took (aws.Queue.pending).                             *)
(***************************************************************************)
EXTENDS Naturals, FiniteSets

CONSTANTS
  Mail,         (* the messages of the source queue                        *)
  MaxCopiers,   (* bound on the processes that are run, one at a time      *)
  MaxCopies     (* bound on the copies of one message                      *)

VARIABLES
  mail,      (* messages of the source that can be received             *)
  hidden,       (* messages that were received a short while ago           *)
  held,         (* self.pending of the process                             *)
  copied,       (* the number of copies of each message                    *)
  copier,       (* <<"off">>, <<"pop">>, or <<"add", message>>             *)
  copiers       (* history: the processes                                  *)

copyVars == <<mail, hidden, held, copied, copier, copiers>>

CopyInit ==
  /\ mail = Mail /\ hidden = {} /\ held = {}
  /\ copied = [m \in Mail |-> 0]
  /\ copier = <<"off">> /\ copiers = 0

Begin ==
  /\ copier = <<"off">> /\ copiers < MaxCopiers
  /\ copier' = <<"pop">> /\ copiers' = copiers + 1
  /\ UNCHANGED <<mail, hidden, held, copied>>

Pop(m) ==
  /\ copier = <<"pop">> /\ m \in mail /\ copied[m] < MaxCopies
  /\ mail' = mail \ {m} /\ hidden' = hidden \cup {m}
  /\ held' = held \cup {m}
  /\ copier' = <<"add", m>>
  /\ UNCHANGED <<copied, copiers>>

AddCopy ==
  /\ copier[1] = "add"
  /\ copied' = [copied EXCEPT ![copier[2]] = @ + 1]
  /\ copier' = <<"pop">>
  /\ UNCHANGED <<mail, hidden, held, copiers>>

(* Nothing came within 10 seconds: what this process took is deleted, also *)
(* what has become visible again.                                          *)
Commit ==
  /\ copier = <<"pop">> /\ mail = {}
  /\ hidden' = hidden \ held
  /\ held' = {} /\ copier' = <<"off">>
  /\ UNCHANGED <<mail, copied, copiers>>

(* Mutant: the process deletes what it took however it ends.               *)
FailsClosing ==
  /\ copier # <<"off">>
  /\ mail' = mail \ held /\ hidden' = hidden \ held
  /\ held' = {} /\ copier' = <<"off">>
  /\ UNCHANGED <<copied, copiers>>

(* The pop or the add raises, and the process ends without commit().       *)
Fails ==
  /\ copier # <<"off">>
  /\ held' = {} /\ copier' = <<"off">>
  /\ UNCHANGED <<mail, hidden, copied, copiers>>

(* The queue shows a message again, whatever the process still does.       *)
Visible(m) ==
  /\ m \in hidden
  /\ hidden' = hidden \ {m} /\ mail' = mail \cup {m}
  /\ UNCHANGED <<held, copied, copier, copiers>>

Next == Begin \/ AddCopy \/ Commit \/ Fails \/ \E m \in Mail : Pop(m) \/ Visible(m)

Spec == CopyInit /\ [][Next]_copyVars

------------------------------------------------------------------------------
(* A message leaves the source only after it was added to the destination  *)
(* (copy_queue.py 30 before 31), whatever failed on the way.               *)
CopiedBeforeDeleted == \A m \in Mail \ (mail \cup hidden) : copied[m] > 0
==============================================================================
