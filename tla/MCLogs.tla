------------------------------- MODULE MCLogs -------------------------------
(***************************************************************************)
(* What reads logs: the parsers of the logs of tasks, of builds and of     *)
(* tests, and the rows of perfherder.  The programs share nothing.         *)
(***************************************************************************)
EXTENDS Integers, Sequences, FiniteSets

CONSTANTS
  Prefixed, Mozharness, HarnessSteps, Stamps, MaxHead, MaxLines,     (* TaskLog *)
  BuilderSteps, OldHarnessSteps, LineTimes, StartTime, Hour, Day,       (* BuildLog *)
  BuilderError, HarnessError, MaxRead, Unset,
  Tests, SuiteCrash, Subtests,                                       (* TestLog *)
  EtlThreads, Reader, NoName, ChunkSize, MaxPerfLines, MaxBlocks  (* PerfLogs *)

VARIABLES
  phase, head, acc, settings, first, last, timings, harness, lines, clock,
  backwards, foreign, spans,
  stage, header, prev_bare, next_bare, from, to, steps, open, zone, oldZone,
  offset, lag, oldLag, latest, reversed, read,
  parse, runs, json, bad_lines, length, starts, orphans,
  suites, learning, perf_read, perf, perf_suite, perf_line, records, perf_rows, perf_blocks,
  named, overtaken, given, perf_given

(* Instances that a cfg cannot write: a task that ran at time 2, and       *)
(* builders ahead of and behind UTC.                                       *)
RunTimesTwo == {<<2, 2>>}
OffsetsOfOneHour == {-Hour, 0, Hour}

(* Suites of which one begins another, one is remote, one is taken over    *)
(* because of its browser, and one is cut down to dromaeo.                 *)
Suites == {<<"a">>, <<"a","b">>, <<"a","c">>, <<"r","a","b">>, <<"d","x">>}
Dromaeo == <<"d">>

Task == INSTANCE TaskLog WITH RunTimes <- RunTimesTwo
Build == INSTANCE BuildLog WITH HarnessSteps <- OldHarnessSteps, Offsets <- OffsetsOfOneHour
Test == INSTANCE TestLog
Perf == INSTANCE PerfLogs WITH
  Threads <- EtlThreads, SuiteNames <- Suites, FirstSuites <- <<Dromaeo>>, Chunked <- {Dromaeo},
  Remote <- <<"r">>, Raptor <- {<<"a","c">>}, Replicates <- {<<3>>}

ASSUME LogsAssumption ==
  /\ Task!TaskLogAssumption /\ Build!BuildLogAssumption /\ Perf!PerfAssumption

taskVars == <<phase, head, acc, settings, first, last, timings, harness, lines, clock,
              backwards, foreign, spans>>
buildVars == <<stage, header, prev_bare, next_bare, from, to, steps, open, zone, oldZone,
               offset, lag, oldLag, latest, reversed, read>>
testVars == <<parse, runs, json, bad_lines, length, starts, orphans>>
perfVars == <<suites, learning, named, overtaken, perf_read, perf, perf_suite,
              perf_line, records, given, perf_rows, perf_blocks, perf_given>>

-----------------------------------------------------------------------------
(* Properties.                                                             *)

(* The log of a task, or of a build whose offsets are guessed right, is    *)
(* taken if its lines are in order (text_log.py 342-443, 814-842).         *)
OrderedLogsAreTaken == Task!OrderedLogIsTaken /\ Build!OrderedBuildIsTaken

(* Cutting overlapping steps gives no moment of a task to nobody           *)
(* (text_log.py 785-811).                                                  *)
NoTimeLost == Task!NoTimeLost

(* The cutting of overlapping steps ends (text_log.py 785-811).            *)
CutsEnd == Task!CutsEnd

(* Both offsets of a build log are guessed right if its first line of each *)
(* kind comes within the hour (text_log.py 539-689).                       *)
ClocksAreRight == Build!BuilderZoneIsRight /\ Build!HarnessZoneIsRight

(* Every start of a test gets a row of its own, and a row that says ok has *)
(* earned it (unittest_logs_to_sink.py 197-372).                           *)
TestRowsAreTrue == Test!OneRowPerRun /\ Test!OkIsEarned

(* A process calls a suite by one name, and what it writes of a block has  *)
(* every sample (perfherder_logs_to_perf_logs.py 52-393).                  *)
SuitesStayTheSame == Perf!SuiteNamesStick /\ Perf!EverySampleHasARow
==============================================================================
