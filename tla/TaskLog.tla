------------------------------- MODULE TaskLog -------------------------------
(***************************************************************************)
(* The live log of a Taskcluster task becomes a list of timed steps        *)
(* (activedata_etl/imports/text_log.py, process_tc_live_backing_log).  A   *)
(* line is "[step time] text"; text may be a line of mozharness, which has *)
(* a time and steps of its own.                                            *)
(***************************************************************************)
EXTENDS StepTimes

CONSTANTS
  Prefixed,     (* the steps named in front of a line                      *)
  Mozharness,   (* the step that holds the steps of mozharness             *)
  HarnessSteps, (* their names                                             *)
  Stamps,       (* the times of lines                                      *)
  RunTimes,     (* <<start, end>> of the task's run, as Taskcluster has it *)
  MaxHead,      (* bound on the lines of its head                          *)
  MaxLines      (* bound on the lines of a log                             *)

VARIABLES
  phase,        (* "lines", "cut", "times", and how it ends: "done", "refused" *)
  head,         (* process_head                                            *)
  acc,          (* accumulate_head, until the head ends                    *)
  settings,     (* task_record.run was filled with it                      *)
  first, last,  (* start_time, end_time                                    *)
  timings,      (* action.timings, but for the children of mozharness      *)
  harness,      (* those children                                          *)
  lines,        (* history: the number of lines                            *)
  clock,        (* history: the latest time of a line                      *)
  backwards,    (* history: a line was older than the one before           *)
  foreign,      (* history: a line named another task                      *)
  spans         (* history: timings before any step was cut                *)

vars == <<phase, head, acc, settings, first, last, timings, harness,
          lines, clock, backwards, foreign, spans>>

(* Seconds since 1970.                                                     *)
TaskLogAssumption == Stamps \subseteq Nat /\ MaxLines \in Nat

Texts == {"text", "json", "settings", "this task", "other task", "worker", "starting"}

Init ==
  /\ phase = "lines" /\ head = TRUE
  /\ acc = << >> /\ settings = FALSE
  /\ \E run \in RunTimes : first = run[1] /\ last = run[2]
  /\ timings = << >> /\ harness = << >>
  /\ lines = 0 /\ clock = None /\ backwards = FALSE /\ foreign = FALSE /\ spans = << >>

Line ==
  /\ phase = "lines"
  /\ lines < MaxLines
  /\ lines' = lines + 1

-----------------------------------------------------------------------------
(* Times.                                                                  *)

Position(ts, s) == SelectInSeq(ts, LAMBDA t : t.step = s)
Fresh(s, from, to) == [step |-> s, start |-> from, end |-> to, children |-> << >>]

(* A step is stretched over the time of its line.                          *)
Touch(ts, s, t) ==
  LET i == Position(ts, s)
  IN IF i = 0 THEN Append(ts, Fresh(s, t, t))
     ELSE [ts EXCEPT ![i].start = MIN({@, t}), ![i].end = MAX({@, t})]

(* A line of step s at time t.                                             *)
Stamp(s, t) ==
  /\ first' = MIN({first, t})
  /\ last' = MAX({last, t})
  /\ timings' = Touch(timings, s, t)
  /\ backwards' = (backwards \/ t < clock)
  /\ clock' = MAX({clock, t})

NoStamp == UNCHANGED <<first, last, timings, backwards, clock>>

-----------------------------------------------------------------------------
(* Lines.                                                                  *)

(* What is left of the head when "Task ID" and "settings:" are cut off.    *)
Body ==
  LET tail == IF acc # << >> /\ Last(acc) \in {"this task", "other task"}
              THEN Front(acc) ELSE acc
  IN IF tail # << >> /\ Head(tail) = "settings" THEN Tail(tail) ELSE tail

Said(texts) == {texts[i] : i \in DOMAIN texts}
NewHead == "json" \in Said(acc)
OldHead == Said(acc) \cap {"this task", "other task", "worker"} # {}

(* "=== Task Starting ===": a head of JSON becomes part of the task.       *)
Starting ==
  /\ head' = FALSE
  /\ settings' = ((NewHead \/ ~OldHead) /\ Body # << >> /\ Said(Body) = {"json"})
  /\ acc' = << >>
  /\ UNCHANGED foreign

(* Another line of the head.  The error about another task is raised in a  *)
(* try whose except does nothing.                                          *)
HeadText(text) ==
  /\ Len(acc) < MaxHead
  /\ acc' = Append(acc, text)
  /\ foreign' = (foreign \/ text = "other task")
  /\ UNCHANGED <<head, settings>>

(* A line of the head.                                                     *)
HeadLine(s, t, text) ==
  /\ Line /\ head
  /\ Stamp(s, t)
  /\ IF text = "starting" THEN Starting ELSE HeadText(text)
  /\ UNCHANGED <<phase, harness, spans>>

(* A line behind the head which mozharness did not write.                  *)
BodyLine(s, t) ==
  /\ Line /\ ~head
  /\ Stamp(s, t)
  /\ UNCHANGED <<phase, head, acc, settings, harness, foreign, spans>>

(* A line without a prefix ends the head.                                  *)
BareLine ==
  /\ Line
  /\ head' = FALSE /\ acc' = << >>
  /\ NoStamp
  /\ UNCHANGED <<phase, settings, harness, foreign, spans>>

(* The first line of a step of mozharness starts it; any other, "Running", *)
(* "Finished" or a summary, ends it.                                       *)
HarnessTouch(name, t) ==
  LET i == Position(harness, name)
  IN IF i = 0 THEN Append(harness, Fresh(name, t, None))
     ELSE [harness EXCEPT ![i].end = t]

(* A line of mozharness without a prefix, or behind the head with one of   *)
(* the same time.                                                          *)
HarnessLine(s, name, t) ==
  /\ Line
  /\ s # Mozharness => ~head
  /\ head' = FALSE /\ acc' = << >>
  /\ first' = MIN({first, t})
  /\ last' = MAX({last, t})
  /\ timings' = Touch(Touch(timings, s, t), Mozharness, t)
  /\ backwards' = (backwards \/ t < clock)
  /\ clock' = MAX({clock, t})
  /\ harness' = HarnessTouch(name, t)
  /\ UNCHANGED <<phase, settings, foreign, spans>>

-----------------------------------------------------------------------------
(* The end of the log.                                                     *)

EndOfLog ==
  /\ phase = "lines"
  /\ phase' = "cut"
  /\ spans' = timings
  /\ UNCHANGED <<head, acc, settings, first, last, timings, harness,
                 lines, clock, backwards, foreign>>

(* Mutant: the first part keeps its end.                                   *)
FixOverlapKeepsEnd ==
  /\ phase = "cut"
  /\ IF Holders(timings) # {}
     THEN LET i == Min(Holders(timings))
          IN timings' = [Cut(timings) EXCEPT ![i].end = timings[i].end] /\ UNCHANGED phase
     ELSE phase' = "times" /\ UNCHANGED timings
  /\ UNCHANGED <<head, acc, settings, first, last, harness,
                 lines, clock, backwards, foreign, spans>>

(* Mutant: what is behind the inner step is forgotten.                     *)
FixOverlapDropsRest ==
  /\ phase = "cut"
  /\ IF Holders(timings) # {}
     THEN LET i == Min(Holders(timings))
          IN timings' = [timings EXCEPT ![i].end = timings[i + 1].start] /\ UNCHANGED phase
     ELSE phase' = "times" /\ UNCHANGED timings
  /\ UNCHANGED <<head, acc, settings, first, last, harness,
                 lines, clock, backwards, foreign, spans>>

(* fix_overlap.                                                            *)
FixOverlap ==
  /\ phase = "cut"
  /\ IF Holders(timings) # {} THEN timings' = Cut(timings) /\ UNCHANGED phase
                              ELSE phase' = "times" /\ UNCHANGED timings
  /\ UNCHANGED <<head, acc, settings, first, last, harness,
                 lines, clock, backwards, foreign, spans>>

(* The parts of the step of mozharness; each of them has all the children. *)
Parts == {i \in DOMAIN timings : timings[i].step = Mozharness}

(* A child without an end gets it with the first part.                     *)
EndedHarness ==
  IF Parts = {} THEN harness ELSE Ended(harness, timings[Min(Parts)].end)

(* Mutant: the last child is taken to end with its part.                   *)
MisfitOutsidePart ==
  \/ NoTimes(timings, first, last)
  \/ \E i \in Parts : timings[i].end < Last(harness).start

(* "Problem with calculating durations".                                   *)
Misfit ==
  \/ NoTimes(timings, first, last)
  \/ \E i \in Parts : NoTimes(EndedHarness, timings[i].start, timings[i].end)

(* fix_times of the steps and of each list of children.                    *)
Times ==
  /\ phase = "times"
  /\ phase' = IF Misfit THEN "refused" ELSE "done"
  /\ harness' = IF Misfit THEN harness ELSE EndedHarness
  /\ UNCHANGED <<head, acc, settings, first, last, timings,
                 lines, clock, backwards, foreign, spans>>

(* One task at a time: the next one has a log of its own.                  *)
NextLog ==
  /\ phase \in {"done", "refused"}
  /\ phase' = "lines" /\ head' = TRUE
  /\ acc' = << >> /\ settings' = FALSE
  /\ \E run \in RunTimes : first' = run[1] /\ last' = run[2]
  /\ timings' = << >> /\ harness' = << >>
  /\ lines' = 0 /\ clock' = None /\ backwards' = FALSE /\ foreign' = FALSE /\ spans' = << >>

Next ==
  \/ \E s \in Prefixed, t \in Stamps, text \in Texts : HeadLine(s, t, text)
  \/ \E s \in Prefixed, t \in Stamps : BodyLine(s, t)
  \/ BareLine
  \/ \E s \in Prefixed \cup {Mozharness}, name \in HarnessSteps, t \in Stamps :
       HarnessLine(s, name, t)
  \/ EndOfLog \/ FixOverlap \/ Times \/ NextLog

Spec == Init /\ [][Next]_vars

-----------------------------------------------------------------------------
(* Properties.                                                             *)

TypeOK ==
  /\ phase \in {"lines", "cut", "times", "done", "refused"}
  /\ {head, settings, backwards, foreign} \subseteq BOOLEAN
  /\ acc \in Seq(Texts)
  /\ {first, last, clock} \subseteq Stamps \cup {None} \cup {r[i] : r \in RunTimes, i \in 1 .. 2}
  /\ lines \in 0 .. MaxLines
  /\ \A i \in DOMAIN timings : timings[i].step \in Prefixed \cup {Mozharness}
  /\ \A i \in DOMAIN harness : harness[i].step \in HarnessSteps

(* fix_times raises on a negative duration: only a log whose lines go back *)
(* in time, or one without any time, may meet that.                        *)
OrderedLogIsTaken ==
  phase = "refused" => backwards \/ first = None \/ last = None

(* However often steps are cut, every moment between the first and the     *)
(* last line of a step is still in some step.                              *)
NoTimeLost ==
  phase = "done" =>
    \A i \in DOMAIN spans : \A t \in Stamps :
      spans[i].start <= t /\ t <= spans[i].end =>
        \E j \in DOMAIN timings : timings[j].start <= t /\ t <= timings[j].end

(* The `while True` of fix_overlap ends: a cut adds no time, leaves more   *)
(* steps that take time, and there are no more of these than units of time *)
(* to share.                                                               *)
Units(ts) == UNION {{i} \X (ts[i].start + 1 .. ts[i].end) : i \in DOMAIN ts}
Lasting(ts) == {i \in DOMAIN ts : ts[i].start < ts[i].end}
CutsEnd ==
  [][phase = "cut" /\ phase' = "cut" =>
       /\ Cardinality(Units(timings')) <= Cardinality(Units(timings))
       /\ Cardinality(Lasting(timings')) > Cardinality(Lasting(timings))
       /\ Cardinality(Lasting(timings')) <= Cardinality(Units(timings'))]_vars

(* "Task in log not matching task details" (text_log.py:181).              *)
ForeignLogIsRefused == foreign => phase # "done"
==============================================================================
