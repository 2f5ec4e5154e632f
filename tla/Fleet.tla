------------------------------- MODULE Fleet --------------------------------
(***************************************************************************)
(* One machine of the fleet, and the tools that bring it to the latest     *)
(* code: update_etl.py for a machine that transforms, update_push_to_es.py *)
(* for one that indexes.  A tool pulls the code and restarts the processes *)
(* unless the pull finds nothing new; any of its commands may raise.       *)
(***************************************************************************)
EXTENDS Naturals

CONSTANTS
  OldGit,       (* git says "Already up-to-date.", which is all update_etl looks for *)
  MaxRelease,   (* bound on the revisions of the branch                    *)
  MaxVisits     (* bound on the visits of a tool                           *)

VARIABLES
  role,         (* "etl" or "push"                                         *)
  release,      (* the revision of the branch                              *)
  disk,         (* the revision on the machine's disk, 0: terminated       *)
  packages,     (* the revision whose requirements are installed           *)
  code,         (* the revision that the processes run, 0: stopped         *)
  elastic,      (* Elasticsearch runs on the machine                       *)
  visit,        (* the step of the tool: "off", "check", "pull", "pip", "restart", "failed" *)
  outcome,      (* what the last visit came to                             *)
  severed,      (* history: a tool ended between a pull and its restart, and *)
                (* left the machine                                        *)
  visits        (* history                                                 *)

fleetVars == <<role, release, disk, packages, code, elastic, visit, outcome, severed, visits>>

FleetInit ==
  /\ role \in {"etl", "push"}
  /\ release = 1 /\ disk = 1 /\ packages = 1 /\ code = 1
  /\ elastic = TRUE /\ visit = "off" /\ outcome = "none"
  /\ severed = FALSE /\ visits = 0

Release ==
  /\ release < MaxRelease /\ release' = release + 1
  /\ UNCHANGED <<role, disk, packages, code, elastic, visit, outcome, severed, visits>>

(* A process ends and the supervisor starts it from what is on the disk.   *)
Respawn ==
  /\ code # 0 /\ code' = disk
  /\ UNCHANGED <<role, release, disk, packages, elastic, visit, outcome, severed, visits>>

ElasticEnds ==
  /\ role = "push" /\ elastic /\ elastic' = FALSE
  /\ UNCHANGED <<role, release, disk, packages, code, visit, outcome, severed, visits>>

End(what) == visit' = "off" /\ outcome' = what

(* --start and --stop of update_push_to_es.                                *)
StartStop ==
  /\ role = "push" /\ visit = "off" /\ visits < MaxVisits
  /\ visits' = visits + 1
  /\ \/ code' = IF code = 0 THEN disk ELSE code
     \/ code' = 0
  /\ UNCHANGED <<role, release, disk, packages, elastic, visit, outcome, severed>>

Visit ==
  /\ visit = "off" /\ disk # 0 /\ visits < MaxVisits
  /\ visit' = "check" /\ outcome' = "none" /\ visits' = visits + 1
  /\ UNCHANGED <<role, release, disk, packages, code, elastic, severed>>

(* The connection; and on an indexing machine, the start of Elasticsearch, *)
(* which raises when it does not find it running.                          *)
Check ==
  /\ visit = "check"
  /\ \/ role = "etl" /\ visit' = "pull" /\ UNCHANGED <<elastic, outcome>>
     \/ role = "push" /\ elastic' = TRUE /\ visit' = "pull" /\ UNCHANGED outcome
     \/ role = "etl" /\ UNCHANGED elastic /\ End("skipped")   (* no key to connect *)
     \/ visit' = "failed" /\ UNCHANGED <<elastic, outcome>>
  /\ UNCHANGED <<role, release, disk, packages, code, severed, visits>>

SaidUpToDate == disk = release /\ (role = "push" \/ OldGit)

(* The pull, whose failure update_etl does not see (warn=True); a machine  *)
(* that has the latest code is left alone when its processor is busy.      *)
Pull ==
  /\ visit = "pull"
  /\ \/ /\ SaidUpToDate /\ End("same") /\ UNCHANGED disk
     \/ /\ SaidUpToDate /\ role = "etl"
        /\ visit' = "restart" /\ UNCHANGED <<disk, outcome>>
     \/ /\ ~SaidUpToDate /\ disk' = release
        /\ visit' = IF role = "etl" THEN "restart" ELSE "pip"
        /\ UNCHANGED outcome
     \/ /\ role = "etl" /\ visit' = "restart" /\ UNCHANGED <<disk, outcome>>
     \/ visit' = "failed" /\ disk' \in {disk, release} /\ UNCHANGED outcome
  /\ UNCHANGED <<role, release, packages, code, elastic, severed, visits>>

Pip ==
  /\ visit = "pip"
  /\ \/ packages' = disk /\ visit' = "restart"
     \/ visit' = "failed" /\ UNCHANGED packages
  /\ UNCHANGED <<role, release, disk, code, elastic, outcome, severed, visits>>

(* supervisorctl restart; on an indexing machine whose supervisor is lost  *)
(* the processes are told to end instead (a Respawn, later).  A command    *)
(* that fails raises: nobody reads the flag that warn_only sets.           *)
Restart ==
  /\ visit = "restart"
  /\ \/ code' = disk /\ End("restarted")
     \/ role = "push" /\ UNCHANGED code /\ End("told")
     \/ visit' = "failed" /\ UNCHANGED <<code, outcome>>
  /\ UNCHANGED <<role, release, disk, packages, elastic, severed, visits>>

(* Mutant: update_etl only warns, as update_push_to_es does.               *)
FailedWarns ==
  /\ visit = "failed" /\ End("failed")
  /\ UNCHANGED <<role, release, disk, packages, code, elastic, severed, visits>>

(* A machine that cannot be updated is terminated, or only named.          *)
Failed ==
  /\ visit = "failed"
  /\ \/ role = "etl" /\ disk' = 0 /\ code' = 0 /\ End("terminated") /\ UNCHANGED severed
     \/ role = "push" /\ UNCHANGED <<disk, code, severed>> /\ End("failed")
     \/ UNCHANGED <<disk, code>> /\ severed' = TRUE /\ End("failed")
  /\ UNCHANGED <<role, release, packages, elastic, visits>>

(* The tool itself is ended.                                               *)
Cut ==
  /\ visit \in {"pip", "restart", "failed"}
  /\ severed' = TRUE /\ End("none")
  /\ UNCHANGED <<role, release, disk, packages, code, elastic, visits>>

(* The fleet gets a new machine for one that is terminated.                *)
Replace ==
  /\ disk = 0
  /\ disk' = release /\ packages' = release /\ code' = release
  /\ UNCHANGED <<role, release, elastic, visit, outcome, severed, visits>>

Next ==
  \/ Release \/ Respawn \/ ElasticEnds \/ StartStop \/ Visit \/ Check \/ Pull
  \/ Pip \/ Restart \/ Failed \/ Cut \/ Replace

Spec == FleetInit /\ [][Next]_fleetVars

------------------------------------------------------------------------------
(* update_etl leaves a busy machine alone because its pull finds nothing   *)
(* new (update_etl.py 64-67): the processes then run what is on the disk,  *)
(* whatever failed in the visits before, unless a tool ended in the middle *)
(* of one.                                                                 *)
LeftAloneIsCurrent ==
  role = "etl" /\ outcome = "same" /\ ~severed => code = disk
==============================================================================
