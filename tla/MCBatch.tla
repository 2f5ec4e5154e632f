------------------------------- MODULE MCBatch -------------------------------
(***************************************************************************)
(* The programs that run to an end: the parsers of logs, the transforms of *)
(* a block, the file mapper, the coverage ETL, the backfills and the tools *)
(* of the fleet.  They share nothing, so a behaviour is that of one of     *)
(* them: `which` names it, and the variables of the others keep the first  *)
(* values they may have.                                                   *)
(***************************************************************************)
EXTENDS MCLogs, MCRecords, MCImports

CONSTANTS
  Programs,                                         (* those that are checked *)
  Nodes, NumRestarts, MaxTime, MaxLog,                               (* FindOom *)
  OldGit, MaxRelease, MaxVisits                                        (* Fleet *)

VARIABLES
  which,
  now, log, started, visible, known, todo, budget, ooms, bounced,
  role, release, disk, packages, code, elastic, visit, outcome, severed, visits

(* A source tree, and what is asked for.                                   *)
Tree == {<<"b">>, <<"b","a">>, <<"b","c">>, <<"b","a","d">>, <<"b","c","d">>, <<"b","m">>}
NotFound == {<<"z">>}
Questions == Tree \cup {<<"b","q">>, <<"b","a","q">>} \cup NotFound

Doctor == INSTANCE FindOom
Machine == INSTANCE Fleet

nodeVars == <<now, log, started, visible, known, todo, budget, ooms, bounced>>
fleetVars == <<role, release, disk, packages, code, elastic, visit, outcome, severed, visits>>

logs == <<taskVars, buildVars, testVars>>
tools == <<tuidVars, fillVars, autoVars, nodeVars, fleetVars>>
parsers == <<perfVars, tcVars>>
allVars == <<which, logs, blockVars, mapVars, covVars, tools, parsers>>

(* One value for the rest: the first lines of a component's Init, where it *)
(* leaves a choice.                                                        *)
BatchInit ==
  /\ which \in Programs
  /\ Task!Init
  /\ Build!Init /\ (which # "build" => offset = 0 /\ ~next_bare)
  /\ Test!Init
  /\ Blocks!Init
  /\ which # "block" => /\ worker = CHOOSE w \in Workers : TRUE
                        /\ block = CHOOSE b \in Blocks!Blocks : TRUE
                        /\ source_id = 0 /\ mode = "queue"
  /\ Mapper!Init /\ Cover!Init /\ Tuid!Init
  /\ Fill!BackfillInit /\ (which # "fill" => stored = {} /\ indexed = {})
  /\ AutoFill!AutoInit /\ Doctor!OomInit
  /\ Machine!FleetInit /\ (which # "fleet" => role = "etl")
  /\ Perf!Init
  /\ Cluster!Init /\ (which # "cluster" => /\ missing = {} /\ listed = [t \in TcTasks |-> <<"log">>])

BatchNext ==
  \/ /\ which = "task" /\ Task!Next
     /\ UNCHANGED <<which, buildVars, testVars, blockVars, mapVars, covVars, tools, parsers>>
  \/ /\ which = "build" /\ Build!Next
     /\ UNCHANGED <<which, taskVars, testVars, blockVars, mapVars, covVars, tools, parsers>>
  \/ /\ which = "test" /\ Test!Next
     /\ UNCHANGED <<which, taskVars, buildVars, blockVars, mapVars, covVars, tools, parsers>>
  \/ /\ which = "block" /\ Blocks!Next
     /\ UNCHANGED <<which, logs, mapVars, covVars, tools, parsers>>
  \/ /\ which = "mapper" /\ Mapper!Next
     /\ UNCHANGED <<which, logs, blockVars, covVars, tools, parsers>>
  \/ /\ which = "coverage" /\ Cover!Next
     /\ UNCHANGED <<which, logs, blockVars, mapVars, tools, parsers>>
  \/ /\ which = "tuid" /\ Tuid!Next
     /\ UNCHANGED <<which, logs, blockVars, mapVars, covVars, fillVars, autoVars, nodeVars, fleetVars, parsers>>
  \/ /\ which = "fill" /\ Fill!Next
     /\ UNCHANGED <<which, logs, blockVars, mapVars, covVars, tuidVars, autoVars, nodeVars, fleetVars, parsers>>
  \/ /\ which = "auto" /\ AutoFill!Next
     /\ UNCHANGED <<which, logs, blockVars, mapVars, covVars, tuidVars, fillVars, nodeVars, fleetVars, parsers>>
  \/ /\ which = "oom" /\ Doctor!Next
     /\ UNCHANGED <<which, logs, blockVars, mapVars, covVars, tuidVars, fillVars, autoVars, fleetVars, parsers>>
  \/ /\ which = "fleet" /\ Machine!Next
     /\ UNCHANGED <<which, logs, blockVars, mapVars, covVars, tuidVars, fillVars, autoVars, nodeVars, parsers>>
  \/ /\ which = "perf" /\ Perf!Next
     /\ UNCHANGED <<which, logs, blockVars, mapVars, covVars, tools, tcVars>>
  \/ /\ which = "cluster" /\ Cluster!Next
     /\ UNCHANGED <<which, logs, blockVars, mapVars, covVars, tools, perfVars>>

BatchSpec == BatchInit /\ [][BatchNext]_allVars

-----------------------------------------------------------------------------
(* Properties.                                                             *)

(* The types of the programs that state them.                              *)
BatchTypeOK ==
  /\ Task!TypeOK /\ Build!BuildLogTypeOK /\ Test!TestLogTypeOK
  /\ Blocks!TransformsTypeOK /\ Mapper!FileMapperTypeOK /\ Cover!CoverageTypeOK

(* A node is restarted at most once for an error (find_es_oom.py 90-123).  *)
OneRestartPerOom == Doctor!OneRestartPerOom

(* A machine that update_etl leaves alone runs what is on its disk         *)
(* (update_etl.py 47-76).                                                  *)
LeftAloneIsCurrent == Machine!LeftAloneIsCurrent
==============================================================================
