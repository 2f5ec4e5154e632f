------------------------------- MODULE TestLog -------------------------------
(***************************************************************************)
(* A structured log of unit tests becomes one row per run of a test        *)
(* (activedata_etl/transforms/unittest_logs_to_sink.py, process_unittest,  *)
(* accumulate_logs and LogSummary).  Tests may be interleaved, run again,  *)
(* never start or never end; the file may be cut off, or be an error page. *)
(***************************************************************************)
EXTENDS Naturals, Sequences, SequencesExt, FiniteSets

CONSTANTS
  Tests,        (* what log.test may be                                    *)
  SuiteCrash,   (* the test of a crash that names none                     *)
  Subtests,     (* what log.subtest may be                                 *)
  MaxLines      (* bound on the lines of a log                             *)

VARIABLES
  parse,        (* "lines", and how it ends: "rows", "null", "again", "failed" *)
  runs,         (* LogSummary.tests: the runs of each test                 *)
  json,         (* last_line_was_json                                      *)
  bad_lines,
  length,       (* history: the number of lines                            *)
  starts,       (* history: the starts of each test                        *)
  orphans       (* history: tests whose first line is not a start          *)

testVars == <<parse, runs, json, bad_lines, length, starts, orphans>>

Names == Tests \cup {SuiteCrash}

(* A run is what its row will say.  Of its unexpected subtests it is       *)
(* remembered (late) which came behind its end.                            *)
Run(missing_start) ==
  [ok |-> FALSE, status |-> FALSE, crash |-> FALSE, subtests |-> << >>,
   missing_test_start |-> missing_start, missing_test_end |-> FALSE]

Init ==
  /\ parse = "lines"
  /\ runs = [x \in Names |-> << >>]
  /\ json = TRUE /\ bad_lines = 0
  /\ length = 0 /\ starts = [x \in Names |-> 0] /\ orphans = {}

Line ==
  /\ parse = "lines"
  /\ length < MaxLines
  /\ length' = length + 1

(* A line that is JSON.                                                    *)
JsonLine == Line /\ json' = TRUE /\ UNCHANGED <<parse, bad_lines>>

-----------------------------------------------------------------------------
(* LogSummary.                                                             *)

(* _get_test: the last run of a test, or one that did not start.           *)
GetTest(x) == IF runs[x] = << >> THEN Run(TRUE) ELSE Last(runs[x])

WithLast(x, run) ==
  [runs EXCEPT ![x] = IF @ = << >> THEN <<run>> ELSE Append(Front(@), run)]

Note(x) == orphans' = IF runs[x] = << >> THEN orphans \cup {x} ELSE orphans

(* Mutant: a test that is still running is not started again.              *)
TestStartOnce(x) ==
  /\ JsonLine
  /\ runs' = IF runs[x] # << >> /\ ~Last(runs[x]).status THEN runs
             ELSE [runs EXCEPT ![x] = Append(@, Run(FALSE))]
  /\ starts' = [starts EXCEPT ![x] = @ + 1]
  /\ UNCHANGED orphans

TestStart(x) ==
  /\ JsonLine
  /\ runs' = [runs EXCEPT ![x] = Append(@, Run(FALSE))]
  /\ starts' = [starts EXCEPT ![x] = @ + 1]
  /\ UNCHANGED orphans

(* Only unexpected subtests are kept, and one that is repeated once.       *)
TestStatus(x, subtest, expected) ==
  /\ JsonLine
  /\ LET run == GetTest(x)
     IN runs' = WithLast(x,
          IF expected \/ (run.subtests # << >> /\ Last(run.subtests).name = subtest) THEN run
          ELSE [run EXCEPT !.subtests = Append(@, [name |-> subtest, late |-> run.status])])
  /\ Note(x)
  /\ UNCHANGED starts

(* "log"; "process_output" and unknown actions do not even do that.        *)
LogOfTest(x) ==
  /\ JsonLine
  /\ runs' = WithLast(x, GetTest(x))
  /\ Note(x)
  /\ UNCHANGED starts

OtherAction ==
  /\ JsonLine
  /\ UNCHANGED <<runs, starts, orphans>>

(* log.status may be missing, which takes the status away.                 *)
Crash(x, status) ==
  /\ JsonLine
  /\ runs' = WithLast(x, [GetTest(x) EXCEPT
       !.ok = FALSE, !.crash = TRUE, !.status = status, !.missing_test_end = TRUE])
  /\ Note(x)
  /\ UNCHANGED starts

(* Mutant: the subtests do not count.                                      *)
TestEndAlone(x, expected) ==
  /\ JsonLine
  /\ runs' = WithLast(x, [GetTest(x) EXCEPT !.ok = expected, !.status = TRUE])
  /\ Note(x)
  /\ UNCHANGED starts

TestEnd(x, expected) ==
  /\ JsonLine
  /\ runs' = WithLast(x, [GetTest(x) EXCEPT
       !.ok = expected /\ GetTest(x).subtests = << >>, !.status = TRUE])
  /\ Note(x)
  /\ UNCHANGED starts

-----------------------------------------------------------------------------
(* Lines that are not JSON.                                                *)

BadLine ==
  /\ Line
  /\ json' = FALSE
  /\ bad_lines' = bad_lines + 1
  /\ UNCHANGED <<parse, runs, starts, orphans>>

(* A line whose handler raises.                                            *)
RaisingLine ==
  /\ Line
  /\ json' = TRUE
  /\ bad_lines' = bad_lines + 1
  /\ UNCHANGED <<parse, runs, starts, orphans>>

Ends(how) ==
  /\ parse = "lines"
  /\ parse' = how
  /\ UNCHANGED <<json, bad_lines, length, starts, orphans>>

(* An error page: access is denied, which leaves a row without results, or *)
(* the file is not there yet.                                              *)
ErrorPage ==
  /\ length < MaxLines
  /\ Ends("null") \/ Ends("again")
  /\ UNCHANGED runs

(* The connection fails, or the thread is to stop.                         *)
Interrupted ==
  /\ Ends("again") \/ Ends("failed")
  /\ UNCHANGED runs

-----------------------------------------------------------------------------
(* The end of the file.                                                    *)

(* summary: a run without a status did not end.                            *)
Judged(run) ==
  IF run.status THEN run ELSE [run EXCEPT !.ok = FALSE, !.missing_test_end = TRUE]

Summary ==
  /\ json
  /\ Ends("rows")
  /\ runs' = [x \in Names |-> [i \in DOMAIN runs[x] |-> Judged(runs[x][i])]]

(* "Incomplete file".                                                      *)
Incomplete ==
  /\ ~json
  /\ Ends("again")
  /\ UNCHANGED runs

(* The next file.                                                          *)
NextFile ==
  /\ parse # "lines"
  /\ parse' = "lines"
  /\ runs' = [x \in Names |-> << >>]
  /\ json' = TRUE /\ bad_lines' = 0
  /\ length' = 0 /\ starts' = [x \in Names |-> 0] /\ orphans' = {}

Next ==
  \/ \E x \in Tests : TestStart(x) \/ LogOfTest(x)
  \/ \E x \in Tests, subtest \in Subtests, expected \in BOOLEAN : TestStatus(x, subtest, expected)
  \/ \E x \in Tests, expected \in BOOLEAN : TestEnd(x, expected)
  \/ \E x \in Names, status \in BOOLEAN : Crash(x, status)
  \/ OtherAction \/ BadLine \/ RaisingLine \/ ErrorPage \/ Interrupted
  \/ Summary \/ Incomplete \/ NextFile

Spec == Init /\ [][Next]_testVars

-----------------------------------------------------------------------------
(* Properties.                                                             *)

TestLogTypeOK ==
  /\ parse \in {"lines", "rows", "null", "again", "failed"}
  /\ \A x \in Names, i \in 1 .. MaxLines : i \in DOMAIN runs[x] =>
       /\ {runs[x][i].ok, runs[x][i].status, runs[x][i].crash} \subseteq BOOLEAN
       /\ \A j \in DOMAIN runs[x][i].subtests : runs[x][i].subtests[j].name \in Subtests
  /\ json \in BOOLEAN
  /\ bad_lines \in 0 .. length /\ length \in 0 .. MaxLines

(* Every start of a test gets a row of its own, however runs of the test   *)
(* overlap, and lines without a start share one.                           *)
OneRowPerRun ==
  \A x \in Names : Len(runs[x]) = starts[x] + (IF x \in orphans THEN 1 ELSE 0)

(* A row that says ok has a status, and no subtest of it was unexpected    *)
(* before the line that made it ok.                                        *)
OkIsEarned ==
  parse = "rows" =>
    \A x \in Names : \A i \in DOMAIN runs[x] : runs[x][i].ok =>
      /\ runs[x][i].status
      /\ \A j \in DOMAIN runs[x][i].subtests : runs[x][i].subtests[j].late
==============================================================================
