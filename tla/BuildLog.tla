------------------------------- MODULE BuildLog -------------------------------
(***************************************************************************)
(* The log of a buildbot build becomes a list of timed steps               *)
(* (activedata_etl/imports/text_log.py, process_text_log).  buildbot and   *)
(* the old mozharness write local times: their offset from UTC is guessed  *)
(* from the first line each of them writes.                                *)
(***************************************************************************)
EXTENDS StepTimes

CONSTANTS
  BuilderSteps, HarnessSteps,  (* names                                    *)
  LineTimes,    (* the true times of lines                                 *)
  StartTime,    (* the time in the header                                  *)
  Offsets,      (* what local clocks may be behind UTC, in whole hours     *)
  Hour, Day,
  BuilderError, (* MAX_TIMING_ERROR                                        *)
  HarnessError, (* MAX_HARNESS_TIMING_ERROR                                *)
  MaxRead,      (* bound on the lines of a log                             *)
  Unset         (* no offset yet                                           *)

(* Times are counted from 1970, offsets are whole hours.                   *)
BuildLogAssumption ==
  /\ Hour \in Nat \ {0} /\ Day \in Nat \ {0} /\ Day % 2 = 0
  /\ BuilderError \in Nat /\ HarnessError \in Nat /\ MaxRead \in Nat
  /\ LineTimes \cup {StartTime} \subseteq Nat
  /\ \A o \in Offsets : o \in Int /\ o % Hour = 0
  /\ Unset \notin Int

VARIABLES
  stage,        (* "lines", "times", and how it ends: "done", "refused", "raised" *)
  header,       (* process_head                                            *)
  prev_bare,    (* prev_line is a bare "#####"                             *)
  next_bare,    (* next_line is one                                        *)
  from, to,     (* start_time, end_time                                    *)
  steps,        (* data.timings; builder_step is the last one              *)
  open,         (* harness_steps: where the step of each name is           *)
  zone,         (* time_zone of the builder's lines                        *)
  oldZone,      (* time_zone of the old mozharness' lines                  *)
  offset,       (* the true one                                            *)
  lag, oldLag,  (* history: true delay of the first line of each kind      *)
  latest,       (* history: the latest true time of a line                 *)
  reversed,     (* history: a line was older than the one before           *)
  read          (* history: the number of lines                            *)

logVars == <<stage, header, prev_bare, next_bare, from, to, steps, open, zone, oldZone, offset,
             lag, oldLag, latest, reversed, read>>

Kinds == [stamped |-> {"started", "finished", "running", "summary", "ended", "old running"},
          other |-> {"skipped", "start time", "bad header", "header", "bare", "text"}]

Names(kind) ==
  IF kind \in {"started", "finished"} THEN BuilderSteps ELSE HarnessSteps

Lines == [kind : Kinds.other]
         \cup UNION {[kind : {k}, step : Names(k), time : LineTimes] : k \in Kinds.stamped}

Init ==
  /\ stage = "lines" /\ header = TRUE
  /\ prev_bare = FALSE /\ next_bare \in BOOLEAN
  /\ from = None /\ to = None /\ steps = << >>
  /\ open = [h \in HarnessSteps |-> << >>]
  /\ zone = Unset /\ oldZone = Unset /\ offset \in Offsets
  /\ lag = Unset /\ oldLag = Unset /\ latest = None /\ reversed = FALSE /\ read = 0

(* The next of the log's lines; whether the one behind it is bare is       *)
(* already known.                                                          *)
Read(line) ==
  /\ stage = "lines"
  /\ read < MaxRead
  /\ read' = read + 1
  /\ next_bare = (line.kind = "bare")
  /\ prev_bare' = next_bare
  /\ next_bare' \in BOOLEAN
  /\ LET time == CASE line.kind \in Kinds.stamped -> line.time
                    [] line.kind = "start time" -> StartTime
                    [] OTHER -> latest
     IN /\ latest' = MAX({latest, time})
        /\ reversed' = (reversed \/ time < latest)

Raise == stage' = "raised"

Steps == UNCHANGED <<stage, header, from, to, steps, open, zone, oldZone, offset, lag, oldLag>>

-----------------------------------------------------------------------------
(* The header.                                                             *)

StartTimeLine(line) ==
  /\ header /\ line.kind = "start time"
  /\ from' = StartTime /\ to' = StartTime
  /\ UNCHANGED <<stage, header, steps, open, zone, oldZone, offset, lag, oldLag>>

BadHeader(line) ==
  /\ header /\ line.kind = "bad header"
  /\ header' = FALSE
  /\ UNCHANGED <<stage, from, to, steps, open, zone, oldZone, offset, lag, oldLag>>

(* Any line but one of the builder is kept as data, or warned of.          *)
HeaderLine(line) ==
  /\ header
  /\ line.kind \notin {"start time", "bad header", "started", "finished", "skipped"}
  /\ Steps

-----------------------------------------------------------------------------
(* Lines of the builder (BuilderLines.match).                              *)

Ceiling(x) == -((-x) \div Hour) * Hour

(* Mutant: rounded down.                                                   *)
GuessDown(error, difference) == ((difference - error) \div Hour) * Hour

(* The offset is what brings the line to at most an hour after a known     *)
(* time.                                                                   *)
Guess(error, difference) == Ceiling(difference - error)

BuilderZone(line) == IF zone # Unset THEN zone
               ELSE Guess(BuilderError, from - (line.time - offset))
BuilderTime(line) == line.time - offset + BuilderZone(line)

(* There is no start time, or a first line that ends a step.               *)
BuilderFails(line) ==
  /\ \/ line.kind \in {"started", "finished"} /\ from = None /\ zone = Unset
     \/ line.kind \in {"finished", "skipped"} /\ steps = << >>
  /\ Raise
  /\ UNCHANGED <<header, from, to, steps, open, zone, oldZone, offset, lag, oldLag>>

BuilderLine(line) ==
  /\ header' = FALSE
  /\ zone' = BuilderZone(line)
  /\ lag' = IF zone = Unset THEN line.time - from ELSE lag
  /\ to' = MAX({to, BuilderTime(line)})
  /\ UNCHANGED <<stage, from, open, oldZone, offset, oldLag>>

Step(s, start, end) == [step |-> s, start |-> start, end |-> end, children |-> << >>]

BuilderStarts(line) ==
  /\ line.kind = "started" /\ (from # None \/ zone # Unset)
  /\ BuilderLine(line)
  /\ steps' = Append(steps, Step(line.step, BuilderTime(line), None))

(* The end of another step than the current one is a step of its own.      *)
BuilderEnds(line) ==
  /\ line.kind = "finished" /\ (from # None \/ zone # Unset) /\ steps # << >>
  /\ BuilderLine(line)
  /\ steps' = IF Last(steps).step = line.step
              THEN [steps EXCEPT ![Len(steps)].end = BuilderTime(line)]
              ELSE Append(steps, Step(line.step, Last(steps).end, BuilderTime(line)))

(* A skipped step has neither name nor time.                                    *)
BuilderSkips(line) ==
  /\ line.kind = "skipped" /\ steps # << >>
  /\ header' = FALSE
  /\ steps' = IF Last(steps).step = "" THEN [steps EXCEPT ![Len(steps)].end = None]
              ELSE Append(steps, Step("", Last(steps).end, None))
  /\ UNCHANGED <<stage, from, to, open, zone, oldZone, offset, lag, oldLag>>

-----------------------------------------------------------------------------
(* Lines of mozharness.                                                    *)

AddChild(child) == steps' = [steps EXCEPT ![Len(steps)].children = Append(@, child)]

(* A summary has an empty result: it starts the step once more.            *)
HarnessStarts(line) ==
  /\ ~header /\ line.kind \in {"running", "summary"} /\ steps # << >>
  /\ AddChild(Step(line.step, line.time, None))
  /\ open' = [open EXCEPT ![line.step] = <<Len(steps), Len(Last(steps).children) + 1>>]
  /\ to' = MAX({to, line.time})
  /\ UNCHANGED <<stage, header, from, zone, oldZone, offset, lag, oldLag>>

HarnessEnds(line) ==
  /\ ~header /\ line.kind = "ended" /\ open[line.step] # << >>
  /\ LET place == open[line.step]
     IN steps' = [steps EXCEPT ![place[1]].children[place[2]].end = line.time]
  /\ to' = MAX({to, line.time})
  /\ UNCHANGED <<stage, header, from, open, zone, oldZone, offset, lag, oldLag>>

(* Mutant: the day is that of the last known time.                         *)
TimeOfDay(line) == (to \div Day) * Day + ((line.time - offset) % Day)

(* A line of the old mozharness has no date: it is taken to be within half *)
(* a day of the last known time (OldHarnessLines.match).                   *)
OldTime(line) ==
  LET Half == Day \div 2
      clock == (line.time - offset) % Day
      same == ((to - Half) \div Day) * Day + clock
  IN IF same < to - Half - HarnessError THEN same + Day ELSE same
OldHarnessZone(line) == IF oldZone # Unset THEN oldZone ELSE Guess(HarnessError, to - OldTime(line))

IsOldStart(line) ==
  /\ ~header /\ line.kind = "old running"
  /\ prev_bare /\ next_bare'

OldHarnessStarts(line) ==
  /\ IsOldStart(line) /\ to # None /\ steps # << >>
  /\ AddChild(Step(line.step, OldTime(line) + OldHarnessZone(line), None))
  /\ oldZone' = OldHarnessZone(line)
  /\ oldLag' = IF oldZone = Unset THEN line.time - to ELSE oldLag
  /\ to' = MAX({to, OldTime(line) + OldHarnessZone(line)})
  /\ UNCHANGED <<stage, header, from, open, zone, offset, lag>>

(* No step to add to, no step to end, or no time to go by.                 *)
HarnessFails(line) ==
  /\ ~header
  /\ \/ line.kind \in {"running", "summary"} /\ steps = << >>
     \/ line.kind = "ended" /\ open[line.step] = << >>
     \/ IsOldStart(line) /\ (to = None \/ steps = << >>)
  /\ Raise
  /\ UNCHANGED <<header, from, to, steps, open, zone, oldZone, offset, lag, oldLag>>

OtherLine(line) ==
  /\ ~header
  /\ line.kind \in {"start time", "bad header", "header", "bare", "text", "old running"}
  /\ ~IsOldStart(line)
  /\ Steps

-----------------------------------------------------------------------------
(* The end of the log; its last line is never a line.                 *)
EndOfLog ==
  /\ stage = "lines"
  /\ stage' = "times"
  /\ UNCHANGED <<header, prev_bare, next_bare, from, to, steps, open, zone, oldZone, offset,
                 lag, oldLag, latest, reversed, read>>

(* Mutant: the children are looked at before their parents.                *)
DurationsInside ==
  /\ stage = "times"
  /\ stage' = IF NoTimes(steps, from, to)
                 \/ \E i \in DOMAIN steps : steps[i].children # << >> /\
                      NoTimes(steps[i].children, steps[i].start, steps[i].end)
              THEN "refused" ELSE "done"
  /\ UNCHANGED <<header, prev_bare, next_bare, from, to, steps, open, zone, oldZone,
                 offset, lag, oldLag, latest, reversed, read>>

(* fix_times of the steps, then of each list of children.                  *)
Durations ==
  /\ stage = "times"
  /\ LET fixed == FixTimes(steps, from, to)
         wrong == \/ NoTimes(steps, from, to)
                  \/ \E i \in DOMAIN steps : steps[i].children # << >> /\
                       NoTimes(steps[i].children, fixed[i].start, fixed[i].end)
     IN /\ stage' = IF wrong THEN "refused" ELSE "done"
        /\ steps' = IF wrong THEN steps
                    ELSE [i \in DOMAIN fixed |->
                            [fixed[i] EXCEPT !.children = FixTimes(@, fixed[i].start, fixed[i].end)]]
  /\ UNCHANGED <<header, prev_bare, next_bare, from, to, open, zone, oldZone, offset,
                 lag, oldLag, latest, reversed, read>>

Line(line) ==
  /\ Read(line)
  /\ \/ StartTimeLine(line) \/ BadHeader(line) \/ HeaderLine(line)
     \/ BuilderFails(line) \/ BuilderStarts(line) \/ BuilderEnds(line) \/ BuilderSkips(line)
     \/ HarnessStarts(line) \/ HarnessEnds(line)
     \/ OldHarnessStarts(line) \/ HarnessFails(line) \/ OtherLine(line)

(* One build at a time.                                                    *)
NextBuild ==
  /\ stage \in {"done", "refused", "raised"}
  /\ stage' = "lines" /\ header' = TRUE
  /\ prev_bare' = FALSE /\ next_bare' \in BOOLEAN
  /\ from' = None /\ to' = None /\ steps' = << >>
  /\ open' = [h \in HarnessSteps |-> << >>]
  /\ zone' = Unset /\ oldZone' = Unset /\ offset' \in Offsets
  /\ lag' = Unset /\ oldLag' = Unset /\ latest' = None /\ reversed' = FALSE /\ read' = 0

Next == EndOfLog \/ Durations \/ NextBuild \/ \E line \in Lines : Line(line)

Spec == Init /\ [][Next]_logVars

-----------------------------------------------------------------------------
(* Properties.                                                             *)

BuildLogTypeOK ==
  /\ stage \in {"lines", "times", "done", "refused", "raised"}
  /\ {header, prev_bare, next_bare, reversed} \subseteq BOOLEAN
  /\ from \in {None, StartTime}
  /\ \A z \in {zone, oldZone} \ {Unset} : z \in Int /\ z % Hour = 0
  /\ \A h \in HarnessSteps : open[h] # << >> => open[h][1] \in DOMAIN steps
  /\ read \in 0 .. MaxRead

(* A build whose lines are in order, and whose builder's offset is guessed *)
(* right, has steps of non-negative duration, whatever is missing: it is   *)
(* refused for want of a start time only.                                  *)
OrderedBuildIsTaken ==
  stage = "refused" => reversed \/ from = None \/ zone \notin {Unset, offset}

(* The offset of the builder's clock is right if the first step starts     *)
(* within an hour of the start time, less BuilderError at both ends.       *)
BuilderZoneIsRight ==
  zone # Unset => (zone = offset <=> -BuilderError <= lag /\ lag < Hour - BuilderError)

(* The date that a line of the old mozharness does not have can be told:   *)
(* by its local clock it is within half a day of the last known time.      *)
WithinHalfADay ==
  LET Half == Day \div 2
  IN -Half <= oldLag - offset /\ oldLag - offset < Half - HarnessError

(* So is that of the old mozharness, on either side of midnight.           *)
HarnessZoneIsRight ==
  oldZone # Unset /\ zone = offset /\ WithinHalfADay =>
    (oldZone = offset <=> -HarnessError <= oldLag /\ oldLag < Hour - HarnessError)
===============================================================================
