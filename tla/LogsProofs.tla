----------------------------- MODULE LogsProofs ------------------------------
(***************************************************************************)
(* Theorems of what reads logs: the offsets of the clocks in the log of a  *)
(* build, the rows of tests, the steps of a task, and perfherder's rows.   *)
(***************************************************************************)
EXTENDS MCLogs, FiniteSetTheorems, SequenceTheorems, WellFoundedInduction, TLAPS

(* A set of naturals has a least one.                                      *)
LEMMA LeastOf ==
  ASSUME NEW F, F \subseteq Nat, F # {}
  PROVE  \E i \in F : \A j \in F : i <= j
<1>1. PICK i \in F : \A j \in F : <<j, i>> \notin OpToRel(<, Nat)
  BY NatLessThanWellFounded, WFMin
<1>2. \A j \in F : ~(j < i)
  BY <1>1, Zenon DEF OpToRel
<1> QED
  BY <1>2

-----------------------------------------------------------------------------
(* BuildLog.  An offset is what brings a line to less than an hour after a *)
(* known time, so the guess is right if the line was written within it.    *)

(* Quotient and rest.                                                      *)
LEMMA Division ==
  ASSUME NEW a \in Int, NEW b \in Nat \ {0}
  PROVE  /\ a \div b \in Int /\ a % b \in Int
         /\ a = b * (a \div b) + (a % b)
         /\ 0 <= a % b /\ a % b < b
  OBVIOUS

(* Multiples of b that are less than b apart are one.                      *)
LEMMA Multiples ==
  ASSUME NEW b \in Nat \ {0}, NEW i \in Int, NEW j \in Int, b * i < b * j + b
  PROVE  i <= j
<1> SUFFICES ASSUME j + 1 <= i PROVE FALSE
  OBVIOUS
<1>1. \A d \in Nat : b * d >= 0
  OBVIOUS
<1>2. b * (i - (j + 1)) >= 0
  BY <1>1
<1>3. b * (i - (j + 1)) = b * i - (b * j + b)
  OBVIOUS
<1> QED BY <1>2, <1>3

LEMMA BuildFacts ==
  /\ Hour \in Nat \ {0} /\ Day \in Nat \ {0} /\ Day = 2 * (Day \div 2) /\ Day \div 2 \in Nat
  /\ BuilderError \in Nat /\ HarnessError \in Nat
  /\ StartTime \in Nat /\ LineTimes \subseteq Nat
  /\ \A o \in OffsetsOfOneHour : o \in Int /\ o = Hour * (o \div Hour) /\ o \div Hour \in Int
  /\ Unset \notin Int
<1> USE LogsAssumption DEF Build!BuildLogAssumption
<1>1. Day = 2 * (Day \div 2) /\ Day \div 2 \in Nat
  <2>1. Day \in Nat /\ Day % 2 = 0
    OBVIOUS
  <2> QED BY <2>1, Division
<1>2. ASSUME NEW o \in OffsetsOfOneHour PROVE o \in Int /\ o = Hour * (o \div Hour) /\ o \div Hour \in Int
  <2>1. o \in Int /\ o % Hour = 0 /\ Hour \in Nat \ {0}
    OBVIOUS
  <2> QED BY <2>1, Division
<1> QED BY <1>1, <1>2

(* A multiple of the hour is the ceiling of what is less than an hour      *)
(* below it.                                                               *)
LEMMA CeilingIs ==
  ASSUME NEW x \in Int, NEW o \in OffsetsOfOneHour
  PROVE  /\ Build!Ceiling(x) \in Int
         /\ Build!Ceiling(x) = o <=> o - Hour < x /\ x <= o
<1> DEFINE q == (-x) \div Hour
           k == o \div Hour
<1>1. q \in Int /\ k \in Int /\ o = Hour * k /\ Hour \in Nat \ {0}
  BY Division, BuildFacts
<1>2. Hour * q <= -x /\ -x < Hour * q + Hour
  BY Division, BuildFacts
<1>3. Build!Ceiling(x) = -(q * Hour)
  BY DEF Build!Ceiling
<1> HIDE DEF q, k
<1>4. q * Hour = Hour * q /\ Hour * q \in Int /\ Hour * k \in Int /\ Hour * (-k) = -(Hour * k)
  BY <1>1
<1>5. ASSUME Build!Ceiling(x) = o PROVE o - Hour < x /\ x <= o
  BY <1>1, <1>2, <1>3, <1>4, <1>5
<1>6. ASSUME o - Hour < x, x <= o PROVE Build!Ceiling(x) = o
  <2>1. Hour * q < Hour * (-k) + Hour
    BY <1>1, <1>2, <1>4, <1>6
  <2>2. Hour * (-k) < Hour * q + Hour
    BY <1>1, <1>2, <1>4, <1>6
  <2>3. q <= -k /\ -k <= q
    BY <2>1, <2>2, <1>1, Multiples
  <2> QED BY <2>3, <1>1, <1>3, <1>4
<1> QED BY <1>1, <1>3, <1>4, <1>5, <1>6

(* The guess for a line that was written `late` after the known time.      *)
LEMMA GuessIs ==
  ASSUME NEW o \in OffsetsOfOneHour, NEW late \in Int, NEW error \in Nat
  PROVE  /\ Build!Guess(error, o - late) \in Int
         /\ Build!Guess(error, o - late) = o <=> -error <= late /\ late < Hour - error
<1>1. o \in Int /\ Hour \in Nat
  BY BuildFacts
<1>2. (o - late) - error \in Int
  BY <1>1
<1>3. o - Hour < (o - late) - error <=> late < Hour - error
  BY <1>1
<1>4. (o - late) - error <= o <=> -error <= late
  BY <1>1
<1> HIDE DEF OffsetsOfOneHour
<1> QED BY <1>2, <1>3, <1>4, CeilingIs DEF Build!Guess

LEMMA LatestType ==
  ASSUME NEW a \in Int, NEW b \in Int PROVE Build!MAX({a, b}) \in Int
<1>1. CASE {a, b} \subseteq {Build!None}
  BY <1>1 DEF Build!MAX, Build!None
<1>2. CASE ~({a, b} \subseteq {Build!None})
  <2> DEFINE S == {a, b} \ {Build!None}
  <2>1. \E m \in S : \A y \in S : m >= y
    BY <1>2
  <2>2. Build!Max(S) \in S
    BY <2>1 DEF Build!Max
  <2> QED BY <1>2, <2>2 DEF Build!MAX
<1> QED BY <1>1, <1>2

(* A local time within half a day of the last known time is found from its *)
(* time of day, on the day before or after as well.                        *)
LEMMA DayIsFound ==
  ASSUME NEW l \in Int, NEW t \in Int, t <= l, l < t + Day
  PROVE  LET same == (t \div Day) * Day + (l % Day)
         IN same = l \/ same = l - Day
<1> DEFINE m == l \div Day
           n == t \div Day
<1>1. Day \in Nat \ {0}
  BY BuildFacts
<1>2. m \in Int /\ l % Day \in Int /\ l = Day * m + (l % Day) /\ 0 <= l % Day /\ l % Day < Day
  BY <1>1, Division
<1>3. n \in Int /\ t % Day \in Int /\ t = Day * n + (t % Day) /\ 0 <= t % Day /\ t % Day < Day
  BY <1>1, Division
<1> HIDE DEF m, n
<1> DEFINE x == Day * m
           y == Day * n
<1>4. x \in Int /\ y \in Int /\ Day * (n + 1) = y + Day /\ n * Day = y /\ Day * (n + 1) \in Int
  BY <1>1, <1>2, <1>3
<1> HIDE DEF x, y
<1>5. l = x + (l % Day) /\ t = y + (t % Day)
  BY <1>2, <1>3 DEF x, y
<1>6. y < x + Day
  BY <1>1, <1>2, <1>3, <1>4, <1>5
<1>7. x < (y + Day) + Day
  BY <1>1, <1>2, <1>3, <1>4, <1>5
<1>8. n <= m
  BY <1>1, <1>2, <1>3, <1>6, Multiples DEF x, y
<1>9. m <= n + 1
  <2>1. n + 1 \in Int /\ Day * m < Day * (n + 1) + Day
    BY <1>3, <1>4, <1>7 DEF x
  <2> QED BY <1>1, <1>2, <2>1, Multiples
<1>10. m = n \/ m = n + 1
  BY <1>2, <1>3, <1>8, <1>9
<1>11. x = y \/ x = y + Day
  BY <1>10, <1>4 DEF x, y
<1>12. n * Day + (l % Day) = l \/ n * Day + (l % Day) = l - Day
  BY <1>1, <1>2, <1>4, <1>5, <1>11
<1> QED BY <1>12 DEF n

LEMMA OldTimeIs ==
  ASSUME NEW ln, ln.time \in Int, offset \in Int, to \in Int,
         -(Day \div 2) <= ln.time - to - offset,
         ln.time - to - offset < (Day \div 2) - HarnessError
  PROVE  Build!OldTime(ln) = ln.time - offset
<1> DEFINE l == ln.time - offset
           half == Day \div 2
           t == to - half
           same == (t \div Day) * Day + (l % Day)
<1>1. Day \in Nat /\ HarnessError \in Nat /\ half \in Nat /\ Day = 2 * half
  BY BuildFacts
<1>2. l \in Int /\ t \in Int /\ t <= l /\ l < t + Day - HarnessError /\ l < t + Day
  BY <1>1
<1>3. same = l \/ same = l - Day
  BY <1>2, DayIsFound
<1>4. Build!OldTime(ln) = IF same < to - half - HarnessError THEN same + Day ELSE same
  BY DEF Build!OldTime
<1>5. to - half - HarnessError = t - HarnessError
  OBVIOUS
<1> HIDE DEF l, same, half, t
<1>6. CASE same = l
  BY <1>1, <1>2, <1>4, <1>5, <1>6 DEF l
<1>7. CASE same = l - Day
  BY <1>1, <1>2, <1>4, <1>5, <1>7 DEF l
<1> QED BY <1>3, <1>6, <1>7

(* The times that are known, and the offsets that were guessed.            *)
BuilderIsRight ==
  zone # Unset => /\ zone \in Int
                  /\ zone = offset <=> -BuilderError <= lag /\ lag < Hour - BuilderError

OldHarnessIsRight ==
  oldZone # Unset =>
    /\ oldZone \in Int /\ oldLag \in Int
    /\ Build!WithinHalfADay =>
         (oldZone = offset <=> -HarnessError <= oldLag /\ oldLag < Hour - HarnessError)

ClockInv ==
  /\ offset \in OffsetsOfOneHour
  /\ from \in {Build!None, StartTime} /\ to \in Int
  /\ BuilderIsRight /\ OldHarnessIsRight

LEMMA StampedLines ==
  ASSUME NEW ln \in Build!Lines, ln.kind \in {"started", "finished", "running", "summary", "ended", "old running"}
  PROVE  ln.time \in Nat
<1>1. CASE ln \in [kind : Build!Kinds.other]
  BY <1>1 DEF Build!Kinds
<1>2. CASE \E k \in Build!Kinds.stamped : ln \in [kind : {k}, step : Build!Names(k), time : LineTimes]
  BY <1>2, BuildFacts
<1>3. \/ ln \in [kind : Build!Kinds.other]
      \/ ln \in UNION {[kind : {k}, step : Build!Names(k), time : LineTimes] : k \in Build!Kinds.stamped}
  BY DEF Build!Lines
<1> QED BY <1>1, <1>2, <1>3, Zenon

(* The first line of the builder gives the offset, the others leave it.    *)
LEMMA BuilderLineStep ==
  ASSUME ClockInv, NEW ln, ln.time \in Nat, from # Build!None \/ zone # Unset, Build!BuilderLine(ln)
  PROVE  ClockInv'
<1>1. offset \in Int /\ from \in Int /\ StartTime \in Int
  BY BuildFacts DEF ClockInv, Build!None
<1>2. UNCHANGED <<from, offset, oldZone, oldLag>>
  BY DEF Build!BuilderLine
<1>3. Build!BuilderZone(ln) \in Int /\ BuilderIsRight'
  <2>1. CASE zone # Unset
    <3>1. zone' = zone /\ lag' = lag /\ Build!BuilderZone(ln) = zone
      BY <2>1 DEF Build!BuilderLine, Build!BuilderZone
    <3> QED BY <2>1, <3>1, <1>2 DEF ClockInv, BuilderIsRight
  <2>2. CASE zone = Unset
    <3> DEFINE late == ln.time - from
    <3>1. late \in Int /\ lag' = late
      BY <2>2, <1>1 DEF Build!BuilderLine
    <3>2. from - (ln.time - offset) = offset - late
      BY <1>1
    <3>3. Build!BuilderZone(ln) = Build!Guess(BuilderError, offset - late)
      BY <2>2, <3>2 DEF Build!BuilderZone
    <3>4. zone' = Build!BuilderZone(ln)
      BY DEF Build!BuilderLine
    <3> HIDE DEF late
    <3>5. offset \in OffsetsOfOneHour /\ BuilderError \in Nat
      BY BuildFacts DEF ClockInv
    <3>6. /\ Build!Guess(BuilderError, offset - late) \in Int
          /\ Build!Guess(BuilderError, offset - late) = offset
               <=> -BuilderError <= late /\ late < Hour - BuilderError
      BY <3>1, <3>5, GuessIs
    <3> QED BY <3>1, <3>3, <3>4, <3>6, <1>2 DEF BuilderIsRight
  <2> QED BY <2>1, <2>2
<1>4. to' \in Int
  <2>1. to \in Int /\ Build!BuilderTime(ln) \in Int
    BY <1>1, <1>3 DEF ClockInv, Build!BuilderTime
  <2> QED BY <2>1, LatestType DEF Build!BuilderLine
<1>5. OldHarnessIsRight'
  BY <1>2 DEF ClockInv, OldHarnessIsRight, Build!WithinHalfADay
<1> QED BY <1>2, <1>3, <1>4, <1>5 DEF ClockInv

(* So does the first line of the old mozharness.                           *)
LEMMA OldHarnessStep ==
  ASSUME ClockInv, NEW ln, ln.time \in Nat, Build!OldHarnessStarts(ln)
  PROVE  ClockInv'
<1>1. offset \in Int /\ to \in Int
  BY BuildFacts DEF ClockInv
<1>2. UNCHANGED <<from, offset, zone, lag>>
  BY DEF Build!OldHarnessStarts
<1>3. Build!OldTime(ln) \in Int
  <2>1. Day \in Nat \ {0} /\ Day \div 2 \in Nat
    BY BuildFacts
  <2>2. (ln.time - offset) % Day \in Int /\ (to - (Day \div 2)) \div Day \in Int
    BY <1>1, <2>1, Division
  <2> QED BY <2>1, <2>2 DEF Build!OldTime
<1>4. Build!OldHarnessZone(ln) \in Int /\ OldHarnessIsRight'
  <2>1. CASE oldZone # Unset
    <3>1. oldZone' = oldZone /\ oldLag' = oldLag /\ Build!OldHarnessZone(ln) = oldZone
      BY <2>1 DEF Build!OldHarnessStarts, Build!OldHarnessZone
    <3> QED BY <2>1, <3>1, <1>2 DEF ClockInv, OldHarnessIsRight, Build!WithinHalfADay
  <2>2. CASE oldZone = Unset
    <3> DEFINE late == ln.time - to
    <3>1. late \in Int /\ oldLag' = late
      BY <2>2, <1>1 DEF Build!OldHarnessStarts
    <3>2. oldZone' = Build!Guess(HarnessError, to - Build!OldTime(ln))
      BY <2>2 DEF Build!OldHarnessStarts, Build!OldHarnessZone
    <3>3. Build!OldHarnessZone(ln) = oldZone'
      BY DEF Build!OldHarnessStarts
    <3>4. oldZone' \in Int
      <4>1. to - Build!OldTime(ln) - HarnessError \in Int
        BY <1>1, <1>3, BuildFacts
      <4> QED BY <4>1, <3>2, <1>1, CeilingIs DEF ClockInv, Build!Guess
    <3>5. ASSUME Build!WithinHalfADay'
          PROVE  oldZone' = offset <=> -HarnessError <= late /\ late < Hour - HarnessError
      <4>1. -(Day \div 2) <= ln.time - to - offset /\ ln.time - to - offset < (Day \div 2) - HarnessError
        BY <3>1, <3>5, <1>2 DEF Build!WithinHalfADay
      <4>2. Build!OldTime(ln) = ln.time - offset
        BY <4>1, <1>1, OldTimeIs
      <4>3. to - Build!OldTime(ln) = offset - late
        BY <4>2, <1>1
      <4> HIDE DEF late
      <4>4. offset \in OffsetsOfOneHour /\ HarnessError \in Nat
        BY BuildFacts DEF ClockInv
      <4> QED BY <3>1, <3>2, <4>3, <4>4, GuessIs
    <3> HIDE DEF late
    <3> QED BY <3>1, <3>3, <3>4, <3>5, <1>2 DEF OldHarnessIsRight
  <2> QED BY <2>1, <2>2
<1>5. to' \in Int
  <2>1. Build!OldTime(ln) + Build!OldHarnessZone(ln) \in Int
    BY <1>3, <1>4
  <2> QED BY <2>1, <1>1, LatestType DEF Build!OldHarnessStarts
<1>6. BuilderIsRight'
  BY <1>2 DEF ClockInv, BuilderIsRight
<1> QED BY <1>2, <1>4, <1>5, <1>6 DEF ClockInv

(* Nothing else touches an offset.                                         *)
LEMMA ClocksStay ==
  ASSUME ClockInv, UNCHANGED <<zone, oldZone, offset, lag, oldLag>>,
         from' \in {from, StartTime}, to' \in Int
  PROVE  ClockInv'
  BY DEF ClockInv, BuilderIsRight, OldHarnessIsRight, Build!WithinHalfADay

LEMMA ClocksStart == ASSUME Build!Init PROVE ClockInv
  BY DEF Build!Init, ClockInv, BuilderIsRight, OldHarnessIsRight, Build!None

LEMMA ClockStep ==
  ASSUME ClockInv, [Build!Next]_buildVars PROVE ClockInv'
<1>1. to \in Int /\ StartTime \in Int
  BY BuildFacts DEF ClockInv
<1>2. CASE UNCHANGED buildVars
  BY <1>2, <1>1, ClocksStay DEF buildVars
<1>3. CASE Build!EndOfLog
  BY <1>3, <1>1, ClocksStay DEF Build!EndOfLog
<1>4. CASE Build!Durations
  <2>1. UNCHANGED <<zone, oldZone, offset, lag, oldLag, from, to>>
    BY <1>4 DEF Build!Durations
  <2> QED BY <2>1, <1>1, ClocksStay
<1>5. CASE Build!NextBuild
  BY <1>5 DEF Build!NextBuild, ClockInv, BuilderIsRight, OldHarnessIsRight, Build!None
<1>6. ASSUME NEW ln \in Build!Lines, Build!Line(ln) PROVE ClockInv'
  <2>1. CASE Build!StartTimeLine(ln)
    BY <2>1, <1>1, ClocksStay DEF Build!StartTimeLine
  <2>2. CASE Build!BadHeader(ln)
    BY <2>2, <1>1, ClocksStay DEF Build!BadHeader
  <2>3. CASE Build!HeaderLine(ln) \/ Build!OtherLine(ln)
    BY <2>3, <1>1, ClocksStay DEF Build!HeaderLine, Build!OtherLine, Build!Steps
  <2>4. CASE Build!BuilderFails(ln)
    BY <2>4, <1>1, ClocksStay DEF Build!BuilderFails
  <2>5. CASE Build!BuilderStarts(ln)
    <3>1. ln.time \in Nat
      BY <2>5, StampedLines DEF Build!BuilderStarts
    <3> QED BY <2>5, <3>1, BuilderLineStep DEF Build!BuilderStarts
  <2>6. CASE Build!BuilderEnds(ln)
    <3>1. ln.time \in Nat
      BY <2>6, StampedLines DEF Build!BuilderEnds
    <3> QED BY <2>6, <3>1, BuilderLineStep DEF Build!BuilderEnds
  <2>7. CASE Build!BuilderSkips(ln)
    BY <2>7, <1>1, ClocksStay DEF Build!BuilderSkips
  <2>8. CASE Build!HarnessStarts(ln)
    <3>1. ln.time \in Nat
      BY <2>8, StampedLines DEF Build!HarnessStarts
    <3>2. to' \in Int
      BY <2>8, <3>1, <1>1, LatestType DEF Build!HarnessStarts
    <3> QED BY <2>8, <3>2, ClocksStay DEF Build!HarnessStarts
  <2>9. CASE Build!HarnessEnds(ln)
    <3>1. ln.time \in Nat
      BY <2>9, StampedLines, Zenon DEF Build!HarnessEnds
    <3>2. to' = Build!MAX({to, ln.time}) /\ UNCHANGED <<from, zone, oldZone, offset, lag, oldLag>>
      BY <2>9, Zenon DEF Build!HarnessEnds
    <3>3. to' \in Int
      BY <3>1, <3>2, <1>1, LatestType
    <3> QED BY <3>2, <3>3, ClocksStay
  <2>10. CASE Build!OldHarnessStarts(ln)
    <3>1. ln.time \in Nat
      BY <2>10, StampedLines DEF Build!OldHarnessStarts, Build!IsOldStart
    <3> QED BY <2>10, <3>1, OldHarnessStep
  <2>11. CASE Build!HarnessFails(ln)
    BY <2>11, <1>1, ClocksStay DEF Build!HarnessFails
  <2> QED
    BY <1>6, <2>1, <2>2, <2>3, <2>4, <2>5, <2>6, <2>7, <2>8, <2>9, <2>10, <2>11 DEF Build!Line
<1> QED BY <1>2, <1>3, <1>4, <1>5, <1>6 DEF Build!Next

(* text_log.py, BuilderLines and OldHarnessLines: the offset of a local    *)
(* clock is guessed right exactly if the first line by it was written      *)
(* within the hour after the last known time, less the error that is       *)
(* allowed for at both ends; for the old mozharness also across midnight,  *)
(* as long as its line is within half a day of that time.                  *)
THEOREM GuessedClocksAreRight == Build!Spec => []ClocksAreRight
<1>1. Build!Init => ClockInv
  BY ClocksStart
<1>2. ClockInv /\ [Build!Next]_buildVars => ClockInv'
  BY ClockStep
<1>3. ClockInv => ClocksAreRight
  BY DEF ClockInv, BuilderIsRight, OldHarnessIsRight, ClocksAreRight,
         Build!BuilderZoneIsRight, Build!HarnessZoneIsRight
<1> QED
  BY <1>1, <1>2, <1>3, PTL DEF Build!Spec, Build!logVars, buildVars

-----------------------------------------------------------------------------
(* What a build's log has been read into is taken if its lines are in      *)
(* order: a step that has both its times has them in order, and one that   *)
(* has only its end ends after everything that was known before.           *)
StepNames == BuilderSteps \cup OldHarnessSteps \cup {""}

BuildChild == [step : OldHarnessSteps, start : Int, end : Int, children : {<< >>}]

BuildStep ==
  [step : StepNames, start : Int, end : Int, children : Seq(BuildChild)]

LEMMA EndsOf ==
  ASSUME NEW S \in SUBSET Int, IsFiniteSet(S), S # {}
  PROVE  (\E m \in S : \A y \in S : m >= y) /\ (\E m \in S : \A y \in S : m <= y)
<1> DEFINE HasEnds(T) == (\E m \in T : \A y \in T : m >= y) /\ (\E m \in T : \A y \in T : m <= y)
           Bad == {n \in Nat : \E T \in SUBSET Int : /\ IsFiniteSet(T) /\ T # {}
                                                   /\ Cardinality(T) = n /\ ~HasEnds(T)}
<1> SUFFICES ASSUME ~HasEnds(S) PROVE FALSE
  OBVIOUS
<1>1. Cardinality(S) \in Bad
  BY FS_CardinalityType
<1>2. PICK n \in Bad : \A j \in Bad : n <= j
  <2>1. Bad \subseteq Nat /\ Bad # {}
    BY <1>1
  <2> HIDE DEF Bad
  <2> QED BY <2>1, LeastOf
<1>3. PICK T \in SUBSET Int : IsFiniteSet(T) /\ T # {} /\ Cardinality(T) = n /\ ~HasEnds(T)
  BY <1>2
<1>4. PICK x \in T : TRUE
  BY <1>3
<1> DEFINE U == T \ {x}
<1>5. IsFiniteSet(U) /\ Cardinality(U) = n - 1 /\ n - 1 \in Nat /\ U \in SUBSET Int
  <2>1. IsFiniteSet(U) /\ Cardinality(U) = Cardinality(T) - 1
    BY <1>3, <1>4, FS_RemoveElement
  <2>2. Cardinality(U) \in Nat
    BY <2>1, FS_CardinalityType
  <2> QED BY <1>3, <2>1, <2>2
<1>6. n - 1 \notin Bad
  BY <1>2, <1>5
<1>7. x \in Int /\ T = U \cup {x} /\ x \notin U
  BY <1>3, <1>4
<1>8. U = {} \/ HasEnds(U)
  BY <1>5, <1>6
<1> HIDE DEF Bad, U
<1>9. CASE U = {}
  <2>1. T = {x}
    BY <1>7, <1>9
  <2> QED BY <1>3, <1>7, <2>1
<1>10. CASE HasEnds(U)
  <2>1. PICK m \in U : \A y \in U : m >= y
    BY <1>10
  <2>2. PICK l \in U : \A y \in U : l <= y
    BY <1>10
  <2>3. m \in Int /\ l \in Int /\ \A y \in U : y \in Int
    BY <1>5
  <2>4. \E k \in T : \A y \in T : k >= y
    <3>1. CASE m >= x
      BY <1>7, <2>1, <3>1
    <3>2. CASE ~(m >= x)
      <4>1. \A y \in U : x >= y
        BY <1>7, <2>1, <2>3, <3>2
      <4> QED BY <1>7, <4>1
    <3> QED BY <3>1, <3>2
  <2>5. \E k \in T : \A y \in T : k <= y
    <3>1. CASE l <= x
      BY <1>7, <2>2, <3>1
    <3>2. CASE ~(l <= x)
      <4>1. \A y \in U : x <= y
        BY <1>7, <2>2, <2>3, <3>2
      <4> QED BY <1>7, <4>1
    <3> QED BY <3>1, <3>2
  <2> QED BY <1>3, <2>4, <2>5
<1> QED BY <1>8, <1>9, <1>10

(* MIN and MAX of times one of which is known.                             *)
LEMMA KnownTime ==
  ASSUME NEW S \in SUBSET Int, IsFiniteSet(S), NEW x \in S, x # Build!None
  PROVE  /\ Build!MAX(S) \in S \ {Build!None} /\ x <= Build!MAX(S)
         /\ Build!MIN(S) \in S \ {Build!None} /\ Build!MIN(S) <= x
<1> DEFINE T == S \ {Build!None}
<1>1. T \in SUBSET Int /\ IsFiniteSet(T) /\ x \in T
  BY FS_RemoveElement
<1>2. Build!MAX(S) = Build!Max(T) /\ Build!MIN(S) = Build!Min(T)
  BY DEF Build!MAX, Build!MIN
<1> HIDE DEF T
<1>3. Build!Max(T) \in T /\ \A y \in T : Build!Max(T) >= y
  BY <1>1, EndsOf DEF Build!Max
<1>4. Build!Min(T) \in T /\ \A y \in T : Build!Min(T) <= y
  BY <1>1, EndsOf DEF Build!Min
<1>5. x <= Build!Max(T) /\ Build!Min(T) <= x
  BY <1>1, <1>3, <1>4
<1> QED BY <1>2, <1>3, <1>4, <1>5 DEF T

LEMMA TimesOfSteps ==
  ASSUME NEW ts, NEW n \in Nat, DOMAIN ts = 1 .. n,
         \A i \in 1 .. n : ts[i].start \in Int /\ ts[i].end \in Int
  PROVE  /\ Build!Starts(ts) \in SUBSET Int /\ IsFiniteSet(Build!Starts(ts))
         /\ Build!Ends(ts) \in SUBSET Int /\ IsFiniteSet(Build!Ends(ts))
<1>1. IsFiniteSet(1 .. n)
  BY FS_Interval
<1> DEFINE f == [i \in 1 .. n |-> ts[i].start]
           g == [i \in 1 .. n |-> ts[i].end]
<1>2. Build!Starts(ts) = {ts[i].start : i \in 1 .. n} /\ Build!Ends(ts) = {ts[i].end : i \in 1 .. n}
  BY DEF Build!Starts, Build!Ends
<1>3. f \in Surjection(1 .. n, Build!Starts(ts)) /\ g \in Surjection(1 .. n, Build!Ends(ts))
  BY <1>2 DEF Surjection
<1>4. IsFiniteSet(Build!Starts(ts)) /\ IsFiniteSet(Build!Ends(ts))
  <2> HIDE DEF f, g
  <2> QED BY <1>1, <1>3, FS_Surjection
<1> QED BY <1>2, <1>4

(* The times of the children of a step, and one more.                      *)
LEMMA ChildTimes ==
  ASSUME NEW y \in BuildStep, NEW t \in Int
  PROVE  LET S == Build!Starts(y.children) \cup Build!Ends(y.children) \cup {t}
         IN S \in SUBSET Int /\ IsFiniteSet(S) /\ t \in S
<1> DEFINE ts == y.children
           n == Len(ts)
<1>1. n \in Nat /\ DOMAIN ts = 1 .. n /\ \A i \in 1 .. n : ts[i].start \in Int /\ ts[i].end \in Int
  <2>1. ts \in Seq(BuildChild)
    BY DEF BuildStep
  <2>2. \A c \in BuildChild : c.start \in Int /\ c.end \in Int
    BY DEF BuildChild
  <2> HIDE DEF ts
  <2>3. \A i \in 1 .. Len(ts) : ts[i] \in BuildChild
    BY <2>1
  <2> QED BY <2>1, <2>2, <2>3
<1> HIDE DEF ts, n
<1>2. /\ Build!Starts(ts) \in SUBSET Int /\ IsFiniteSet(Build!Starts(ts))
      /\ Build!Ends(ts) \in SUBSET Int /\ IsFiniteSet(Build!Ends(ts))
  BY <1>1, TimesOfSteps
<1>3. IsFiniteSet(Build!Starts(ts) \cup Build!Ends(ts))
  BY <1>2, FS_Union
<1>4. IsFiniteSet(Build!Starts(ts) \cup Build!Ends(ts) \cup {t})
  BY <1>3, FS_AddElement
<1> QED BY <1>2, <1>4 DEF ts

(* What the steps before have come to is known if the start is, and is no  *)
(* later than what all of it is no later than.                             *)
LEMMA ReachedIs ==
  ASSUME NEW ts, NEW n \in Nat, DOMAIN ts = 1 .. n, ts \in Seq(BuildStep),
         NEW i \in 1 .. n, NEW a \in Int, a # Build!None
  PROVE  /\ Build!Reached(ts, i, a) \in Int \ {Build!None}
         /\ \A t \in Int : /\ a <= t
                           /\ \A j \in 1 .. i - 1 : ts[j].start <= t /\ ts[j].end <= t
                           => Build!Reached(ts, i, a) <= t
<1> DEFINE before == SubSeq(ts, 1, i - 1)
           S == {a} \cup Build!Starts(before) \cup Build!Ends(before)
<1>1. /\ i - 1 \in Nat /\ before \in Seq(BuildStep) /\ DOMAIN before = 1 .. i - 1
      /\ \A j \in 1 .. i - 1 : before[j] = ts[j]
  <2>1. Len(ts) = n /\ i - 1 \in 0 .. n
    OBVIOUS
  <2> QED BY <2>1
<1>2. \A j \in 1 .. i - 1 : ts[j].start \in Int /\ ts[j].end \in Int
  <2>1. \A j \in 1 .. n : ts[j] \in BuildStep
    OBVIOUS
  <2>2. \A y \in BuildStep : y.start \in Int /\ y.end \in Int
    BY DEF BuildStep
  <2>3. 1 .. i - 1 \subseteq 1 .. n
    OBVIOUS
  <2> QED BY <2>1, <2>2, <2>3
<1> HIDE DEF before
<1>3. /\ Build!Starts(before) \in SUBSET Int /\ IsFiniteSet(Build!Starts(before))
      /\ Build!Ends(before) \in SUBSET Int /\ IsFiniteSet(Build!Ends(before))
  BY <1>1, <1>2, TimesOfSteps
<1>4. S \in SUBSET Int /\ IsFiniteSet(S) /\ a \in S
  <2>1. IsFiniteSet({a})
    BY FS_Singleton
  <2>2. IsFiniteSet({a} \cup Build!Starts(before))
    BY <1>3, <2>1, FS_Union
  <2> QED BY <1>3, <2>2, FS_Union
<1>5. \A x \in S : x = a \/ \E j \in 1 .. i - 1 : x = ts[j].start \/ x = ts[j].end
  BY <1>1 DEF Build!Starts, Build!Ends
<1>6. Build!Reached(ts, i, a) = Build!MAX(S)
  BY DEF Build!Reached, before
<1> HIDE DEF S
<1>7. Build!MAX(S) \in S \ {Build!None}
  BY <1>4, KnownTime
<1>8. ASSUME NEW t \in Int, a <= t, \A j \in 1 .. i - 1 : ts[j].start <= t /\ ts[j].end <= t
      PROVE  Build!MAX(S) <= t
  BY <1>5, <1>7, <1>8
<1> QED BY <1>4, <1>6, <1>7, <1>8

(* Started: every step has a start, a missing one is no later than what    *)
(* the steps before have come to.                                          *)
LEMMA StartedIs ==
  ASSUME NEW ts, NEW n \in Nat, DOMAIN ts = 1 .. n, ts \in Seq(BuildStep),
         NEW a \in Int, a # Build!None, NEW i \in 1 .. n
  PROVE  LET new == Build!Started(ts, a)[i] IN
         /\ new \in BuildStep /\ new.start # Build!None
         /\ new.end = ts[i].end /\ new.children = ts[i].children
         /\ ts[i].start # Build!None => new.start = ts[i].start
         /\ ts[i].start = Build!None => new.start <= Build!Reached(ts, i, a)
<1> DEFINE t == Build!Reached(ts, i, a)
           S == Build!Starts(ts[i].children) \cup Build!Ends(ts[i].children) \cup {t}
           new == Build!Started(ts, a)[i]
<1>1. new = IF ts[i].start # Build!None THEN ts[i] ELSE [ts[i] EXCEPT !.start = Build!MIN(S)]
  BY DEF Build!Started
<1>2. ts[i] \in BuildStep
  <2>1. \A j \in 1 .. n : ts[j] \in BuildStep
    OBVIOUS
  <2> QED BY <2>1
<1>3. t \in Int \ {Build!None}
  BY ReachedIs
<1> HIDE DEF t
<1>4. S \in SUBSET Int /\ IsFiniteSet(S) /\ t \in S
  BY <1>2, <1>3, ChildTimes
<1> HIDE DEF S, new
<1>5. Build!MIN(S) \in Int \ {Build!None} /\ Build!MIN(S) <= t
  BY <1>3, <1>4, KnownTime
<1>6. \A y \in BuildStep, x \in Int :
        /\ [y EXCEPT !.start = x] \in BuildStep /\ [y EXCEPT !.start = x].start = x
        /\ [y EXCEPT !.start = x].end = y.end /\ [y EXCEPT !.start = x].children = y.children
  BY DEF BuildStep
<1>7. CASE ts[i].start # Build!None
  BY <1>1, <1>2, <1>7 DEF new
<1>8. CASE ts[i].start = Build!None
  <2>1. new = [ts[i] EXCEPT !.start = Build!MIN(S)]
    BY <1>1, <1>8
  <2>2. new \in BuildStep /\ new.start = Build!MIN(S) /\ new.end = ts[i].end /\ new.children = ts[i].children
    BY <1>2, <1>5, <1>6, <2>1
  <2> QED BY <1>5, <1>8, <2>2 DEF new, t
<1> QED BY <1>7, <1>8

(* fix_times: every step gets both its times, and has them in order if it  *)
(* had, or if what was missing is before its end.                          *)
LEMMA FixedSteps ==
  ASSUME NEW ts, NEW n \in Nat, DOMAIN ts = 1 .. n, ts \in Seq(BuildStep),
         NEW a \in Int, a # Build!None, NEW b \in Int, b # Build!None,
         \A i \in 1 .. n : ts[i].end # Build!None =>
           IF ts[i].start # Build!None THEN ts[i].start <= ts[i].end
           ELSE Build!Reached(ts, i, a) <= ts[i].end
  PROVE  /\ ~Build!NoTimes(ts, a, b)
         /\ \A i \in 1 .. n : /\ Build!FixTimes(ts, a, b)[i].start \in Int \ {Build!None}
                              /\ Build!FixTimes(ts, a, b)[i].end \in Int \ {Build!None}
<1> DEFINE st == Build!Started(ts, a)
           fixed == Build!FixTimes(ts, a, b)
<1>1. DOMAIN st = 1 .. n /\ DOMAIN fixed = 1 .. n
  BY DEF Build!Started, Build!FixTimes, Build!Ended
<1>2. \A i \in 1 .. n :
        /\ st[i] \in BuildStep /\ st[i].start # Build!None
        /\ st[i].end = ts[i].end /\ st[i].children = ts[i].children
        /\ ts[i].start # Build!None => st[i].start = ts[i].start
        /\ ts[i].start = Build!None => st[i].start <= Build!Reached(ts, i, a)
  BY StartedIs
<1>3. \A i \in 1 .. n : Build!Reached(ts, i, a) \in Int
  BY ReachedIs
<1>4. \A i \in 1 .. n : ts[i].start \in Int /\ ts[i].end \in Int
  <2>1. \A i \in 1 .. n : ts[i] \in BuildStep
    OBVIOUS
  <2> QED BY <2>1 DEF BuildStep
<1>5. \A i \in 1 .. n : st[i].start \in Int /\ st[i].end \in Int
  BY <1>2 DEF BuildStep
<1> HIDE DEF st
<1>6. ASSUME NEW i \in 1 .. n, st[i].end # Build!None PROVE st[i].start <= st[i].end
  <2>1. ts[i].end # Build!None /\ st[i].end = ts[i].end
    BY <1>2, <1>6
  <2>2. CASE ts[i].start # Build!None
    BY <1>2, <2>1, <2>2
  <2>3. CASE ts[i].start = Build!None
    <3>1. Build!Reached(ts, i, a) <= ts[i].end /\ st[i].start <= Build!Reached(ts, i, a)
      BY <1>2, <2>1, <2>3
    <3> QED BY <1>3, <1>4, <1>5, <2>1, <3>1
  <2> QED BY <2>2, <2>3
<1>7. \A i \in 1 .. n : Build!Due(st, i, b) \in Int
  <2>1. Len(st) = n
    BY <1>1, <1>2
  <2> QED BY <1>5, <2>1 DEF Build!Due
<1>8. ASSUME NEW i \in 1 .. n
      PROVE  /\ fixed[i].start = st[i].start
             /\ fixed[i].end \in Int \ {Build!None} /\ st[i].start <= fixed[i].end
  <2> DEFINE d == Build!Due(st, i, b)
             S == Build!Starts(st[i].children) \cup Build!Ends(st[i].children) \cup {d, st[i].start}
  <2>1. fixed[i] = IF st[i].end # Build!None THEN st[i] ELSE [st[i] EXCEPT !.end = Build!MAX(S)]
    BY <1>1 DEF Build!FixTimes, Build!Ended, st
  <2> HIDE DEF d, fixed
  <2>2. CASE st[i].end # Build!None
    BY <1>5, <1>6, <2>1, <2>2
  <2>3. CASE st[i].end = Build!None
    <3>1. S \in SUBSET Int /\ IsFiniteSet(S) /\ st[i].start \in S
      <4>1. d \in Int
        BY <1>7 DEF d
      <4> DEFINE R == Build!Starts(st[i].children) \cup Build!Ends(st[i].children) \cup {st[i].start}
      <4>2. R \in SUBSET Int /\ IsFiniteSet(R) /\ st[i].start \in R
        BY <1>2, <1>5, ChildTimes
      <4>3. IsFiniteSet(R \cup {d})
        <5> HIDE DEF R
        <5> QED BY <4>2, FS_AddElement
      <4>4. S = R \cup {d}
        OBVIOUS
      <4> QED BY <4>1, <4>2, <4>3, <4>4
    <3> HIDE DEF S
    <3>2. Build!MAX(S) \in Int \ {Build!None} /\ st[i].start <= Build!MAX(S)
      BY <1>2, <3>1, KnownTime
    <3>3. fixed[i] = [st[i] EXCEPT !.end = Build!MAX(S)]
      BY <2>1, <2>3
    <3>4. \A y \in BuildStep, x \in Int :
            [y EXCEPT !.end = x].end = x /\ [y EXCEPT !.end = x].start = y.start
      BY DEF BuildStep
    <3>5. fixed[i].end = Build!MAX(S) /\ fixed[i].start = st[i].start
      BY <1>2, <3>2, <3>3, <3>4
    <3> QED BY <3>2, <3>5
  <2> QED BY <2>2, <2>3
<1>9. \A i \in 1 .. n : ~(Build!Duration(fixed, i, b) < 0)
  <2> TAKE i \in 1 .. n
  <2> DEFINE d == Build!Due(fixed, i, b)
             S == {d, fixed[i].end}
  <2>1. d \in Int
    <3>1. Len(fixed) = n
      BY <1>1 DEF Build!FixTimes, Build!Ended
    <3>2. \A j \in 1 .. n : fixed[j].start \in Int
      BY <1>5, <1>8
    <3> HIDE DEF fixed
    <3> QED BY <3>1, <3>2 DEF Build!Due
  <2> HIDE DEF d
  <2>2. Build!Duration(fixed, i, b) = Build!MAX(S) - fixed[i].start
    BY DEF Build!Duration, d
  <2>3. fixed[i].end \in Int \ {Build!None} /\ fixed[i].start \in Int /\ fixed[i].start <= fixed[i].end
    BY <1>5, <1>8
  <2> HIDE DEF fixed
  <2>4. S \in SUBSET Int /\ IsFiniteSet(S) /\ fixed[i].end \in S
    <3>1. IsFiniteSet({d} \cup {fixed[i].end})
      BY FS_Singleton, FS_AddElement
    <3>2. S = {d} \cup {fixed[i].end}
      OBVIOUS
    <3> QED BY <2>1, <2>3, <3>1, <3>2
  <2> HIDE DEF S
  <2>5. Build!MAX(S) \in Int /\ fixed[i].end <= Build!MAX(S)
    BY <2>3, <2>4, KnownTime
  <2> QED BY <2>2, <2>3, <2>5
<1>10. ~Build!NoTimes(ts, a, b)
  BY <1>1, <1>9 DEF Build!NoTimes
<1> QED BY <1>2, <1>5, <1>8, <1>10

(* What the invariant says of the steps that a log has been read into: no  *)
(* child ends before it starts, and no step that has an end has it before  *)
(* what came earlier in the log.                                           *)
ChildrenInOrder(ts) ==
  \A i \in DOMAIN ts : \A j \in DOMAIN ts[i].children :
    ts[i].children[j].end # Build!None =>
      /\ ts[i].children[j].start # Build!None
      /\ ts[i].children[j].start <= ts[i].children[j].end

StepsInOrder(ts, a, t) ==
  \A i \in DOMAIN ts :
    /\ ts[i].start <= t /\ ts[i].end <= t
    /\ ts[i].end # Build!None =>
         /\ a <= ts[i].end /\ ts[i].start <= ts[i].end
         /\ \A j \in 1 .. i - 1 : ts[j].start <= ts[i].end /\ ts[j].end <= ts[i].end

(* No step and no child is lost, or gets another start.                    *)
Grown(ts, us) ==
  /\ DOMAIN ts \subseteq DOMAIN us
  /\ \A i \in DOMAIN ts :
       /\ DOMAIN ts[i].children \subseteq DOMAIN us[i].children
       /\ \A j \in DOMAIN ts[i].children : us[i].children[j].start = ts[i].children[j].start

LEMMA StepFacts ==
  ASSUME NEW ts \in Seq(BuildStep)
  PROVE  /\ Len(ts) \in Nat /\ DOMAIN ts = 1 .. Len(ts)
         /\ \A i \in 1 .. Len(ts) :
              /\ ts[i] \in BuildStep /\ ts[i].start \in Int /\ ts[i].end \in Int
              /\ ts[i].children \in Seq(BuildChild)
<1>1. \A y \in BuildStep : y.start \in Int /\ y.end \in Int /\ y.children \in Seq(BuildChild)
  BY DEF BuildStep
<1>2. \A i \in 1 .. Len(ts) : ts[i] \in BuildStep
  OBVIOUS
<1> QED BY <1>1, <1>2

LEMMA FreshStep ==
  ASSUME NEW s \in StepNames, NEW a \in Int, NEW e \in Int
  PROVE  LET x == Build!Step(s, a, e) IN
         /\ x \in BuildStep /\ x.children = << >> /\ x.start = a /\ x.end = e
         /\ s \in OldHarnessSteps => x \in BuildChild
<1>1. << >> \in Seq(BuildChild)
  BY EmptySeq
<1>2. [step |-> s, start |-> a, end |-> e, children |-> << >>] \in BuildStep
  BY <1>1 DEF BuildStep
<1>3. s \in OldHarnessSteps => [step |-> s, start |-> a, end |-> e, children |-> << >>] \in BuildChild
  BY DEF BuildChild
<1> QED BY <1>2, <1>3 DEF Build!Step

LEMMA FreshChild ==
  ASSUME NEW s \in OldHarnessSteps, NEW a \in Int
  PROVE  /\ Build!Step(s, a, Build!None) \in BuildChild
         /\ Build!Step(s, a, Build!None).start = a
         /\ Build!Step(s, a, Build!None).end = Build!None
<1> DEFINE x == [step |-> s, start |-> a, end |-> Build!None, children |-> << >>]
<1>1. x \in BuildChild /\ x.start = a /\ x.end = Build!None
  BY DEF BuildChild, Build!None
<1>2. Build!Step(s, a, Build!None) = x
  BY DEF Build!Step
<1> HIDE DEF x
<1> QED BY <1>1, <1>2

LEMMA AppendedStep ==
  ASSUME NEW ts \in Seq(BuildStep), NEW x \in BuildStep, x.children = << >>
  PROVE  /\ Append(ts, x) \in Seq(BuildStep) /\ Append(ts, x) # << >> /\ Grown(ts, Append(ts, x))
         /\ ChildrenInOrder(ts) => ChildrenInOrder(Append(ts, x))
         /\ \A a, t, u \in Int :
              /\ StepsInOrder(ts, a, t) /\ t <= u /\ a <= u /\ x.start <= u
              /\ x.end = u \/ (x.end = Build!None /\ x.end <= u)
              => StepsInOrder(Append(ts, x), a, u)
<1> DEFINE us == Append(ts, x)
           n == Len(ts)
<1>1. /\ us \in Seq(BuildStep) /\ n \in Nat /\ DOMAIN us = 1 .. n + 1 /\ DOMAIN ts = 1 .. n
      /\ us[n + 1] = x /\ \A i \in 1 .. n : us[i] = ts[i]
  OBVIOUS
<1>2. \A i \in 1 .. n : ts[i].start \in Int /\ ts[i].end \in Int
  BY StepFacts
<1>3. x.start \in Int /\ x.end \in Int /\ DOMAIN x.children = {}
  <2>1. \A y \in BuildStep : y.start \in Int /\ y.end \in Int
    BY DEF BuildStep
  <2>2. DOMAIN << >> = {}
    OBVIOUS
  <2> QED BY <2>1, <2>2
<1> HIDE DEF us, n
<1>4. us # << >>
  BY <1>1
<1>5. Grown(ts, us)
  BY <1>1 DEF Grown
<1>6. ASSUME ChildrenInOrder(ts) PROVE ChildrenInOrder(us)
  <2>1. \A i \in 1 .. n + 1 : i \in 1 .. n \/ us[i] = x
    BY <1>1
  <2> QED BY <1>1, <1>3, <1>6, <2>1 DEF ChildrenInOrder
<1>7. ASSUME NEW a \in Int, NEW t \in Int, NEW u \in Int, StepsInOrder(ts, a, t), t <= u, a <= u,
             x.start <= u, x.end = u \/ (x.end = Build!None /\ x.end <= u)
      PROVE  StepsInOrder(us, a, u)
  <2>1. \A i \in 1 .. n : ts[i].start <= u /\ ts[i].end <= u
    <3>1. \A i \in 1 .. n : ts[i].start <= t /\ ts[i].end <= t
      BY <1>1, <1>7 DEF StepsInOrder
    <3> QED BY <1>2, <1>7, <3>1
  <2>2. ASSUME NEW i \in 1 .. n
        PROVE  /\ us[i].start <= u /\ us[i].end <= u
               /\ us[i].end # Build!None =>
                    /\ a <= us[i].end /\ us[i].start <= us[i].end
                    /\ \A j \in 1 .. i - 1 : us[j].start <= us[i].end /\ us[j].end <= us[i].end
    <3>1. us[i] = ts[i] /\ \A j \in 1 .. i - 1 : j \in 1 .. n /\ us[j] = ts[j]
      BY <1>1
    <3> QED BY <1>1, <1>7, <2>1, <3>1 DEF StepsInOrder
  <2>3. /\ us[n + 1].start <= u /\ us[n + 1].end <= u
        /\ us[n + 1].end # Build!None =>
             /\ a <= us[n + 1].end /\ us[n + 1].start <= us[n + 1].end
             /\ \A j \in 1 .. n : us[j].start <= us[n + 1].end /\ us[j].end <= us[n + 1].end
    <3>1. CASE x.end = u
      BY <1>1, <1>3, <1>7, <2>1, <3>1
    <3>2. CASE x.end = Build!None /\ x.end <= u
      BY <1>1, <1>3, <1>7, <3>2
    <3> QED BY <1>7, <3>1, <3>2
  <2>4. \A i \in 1 .. n + 1 : i \in 1 .. n \/ (i = n + 1 /\ 1 .. i - 1 = 1 .. n)
    BY <1>1
  <2> QED BY <1>1, <2>2, <2>3, <2>4 DEF StepsInOrder
<1> QED BY <1>1, <1>4, <1>5, <1>6, <1>7 DEF us

LEMMA EndedStep ==
  ASSUME NEW ts \in Seq(BuildStep), ts # << >>, NEW t2 \in Int
  PROVE  LET us == [ts EXCEPT ![Len(ts)].end = t2] IN
         /\ us \in Seq(BuildStep) /\ us # << >> /\ Grown(ts, us)
         /\ ChildrenInOrder(ts) => ChildrenInOrder(us)
         /\ \A a, t, u \in Int :
              /\ StepsInOrder(ts, a, t) /\ t <= u /\ a <= u
              /\ t2 = u \/ (t2 = Build!None /\ t2 <= u)
              => StepsInOrder(us, a, u)
<1> DEFINE us == [ts EXCEPT ![Len(ts)].end = t2]
           n == Len(ts)
<1>1. n \in Nat \ {0} /\ DOMAIN ts = 1 .. n /\ n \in 1 .. n
  OBVIOUS
<1>2. \A i \in 1 .. n : ts[i] \in BuildStep /\ ts[i].start \in Int /\ ts[i].end \in Int
  BY StepFacts
<1>3. \A y \in BuildStep :
        /\ [y EXCEPT !.end = t2] \in BuildStep /\ [y EXCEPT !.end = t2].end = t2
        /\ [y EXCEPT !.end = t2].start = y.start /\ [y EXCEPT !.end = t2].children = y.children
  BY DEF BuildStep
<1>4. us = [ts EXCEPT ![n] = [ts[n] EXCEPT !.end = t2]]
  OBVIOUS
<1>5. \A y \in BuildStep : /\ [ts EXCEPT ![n] = y] \in Seq(BuildStep)
                           /\ DOMAIN [ts EXCEPT ![n] = y] = 1 .. n
                           /\ [ts EXCEPT ![n] = y][n] = y
                           /\ \A i \in 1 .. n : i # n => [ts EXCEPT ![n] = y][i] = ts[i]
  <2> HIDE DEF n
  <2> QED BY <1>1
<1> DEFINE y == [ts[n] EXCEPT !.end = t2]
<1>6. y \in BuildStep /\ y.end = t2 /\ y.start = ts[n].start /\ y.children = ts[n].children
  BY <1>1, <1>2, <1>3
<1>7. /\ us \in Seq(BuildStep) /\ DOMAIN us = 1 .. n /\ us[n] = y
      /\ \A i \in 1 .. n : i # n => us[i] = ts[i]
  <2> HIDE DEF y
  <2> QED BY <1>4, <1>5, <1>6 DEF y
<1> HIDE DEF us, n, y
<1>8. us # << >>
  BY <1>1, <1>7
<1>9. \A i \in 1 .. n : us[i].children = ts[i].children /\ us[i].start = ts[i].start
  BY <1>6, <1>7
<1>10. Grown(ts, us)
  BY <1>1, <1>7, <1>9 DEF Grown
<1>11. ASSUME ChildrenInOrder(ts) PROVE ChildrenInOrder(us)
  BY <1>1, <1>7, <1>9, <1>11 DEF ChildrenInOrder
<1>12. ASSUME NEW a \in Int, NEW t \in Int, NEW u \in Int, StepsInOrder(ts, a, t), t <= u, a <= u,
              t2 = u \/ (t2 = Build!None /\ t2 <= u)
       PROVE  StepsInOrder(us, a, u)
  <2>1. \A i \in 1 .. n : ts[i].start <= u /\ ts[i].end <= u
    BY <1>1, <1>2, <1>12 DEF StepsInOrder
  <2>2. ASSUME NEW i \in 1 .. n, i # n
        PROVE  /\ us[i].start <= u /\ us[i].end <= u
               /\ us[i].end # Build!None =>
                    /\ a <= us[i].end /\ us[i].start <= us[i].end
                    /\ \A j \in 1 .. i - 1 : us[j].start <= us[i].end /\ us[j].end <= us[i].end
    <3>1. us[i] = ts[i] /\ \A j \in 1 .. i - 1 : j \in 1 .. n /\ us[j] = ts[j]
      BY <1>1, <1>7, <2>2
    <3> QED BY <1>1, <1>12, <2>1, <3>1 DEF StepsInOrder
  <2>3. /\ us[n].start <= u /\ us[n].end <= u
        /\ us[n].end # Build!None =>
             /\ a <= us[n].end /\ us[n].start <= us[n].end
             /\ \A j \in 1 .. n - 1 : us[j].start <= us[n].end /\ us[j].end <= us[n].end
    <3>1. us[n].start <= u
      BY <1>1, <1>9, <2>1
    <3>2. us[n].end = t2 /\ \A j \in 1 .. n - 1 : j \in 1 .. n /\ us[j] = ts[j]
      BY <1>1, <1>6, <1>7
    <3>3. CASE t2 = u
      BY <1>12, <2>1, <3>1, <3>2, <3>3
    <3>4. CASE t2 = Build!None /\ t2 <= u
      BY <1>12, <3>1, <3>2, <3>4
    <3> QED BY <1>12, <3>3, <3>4
  <2> QED BY <1>1, <1>7, <2>2, <2>3 DEF StepsInOrder
<1> QED BY <1>7, <1>8, <1>10, <1>11, <1>12 DEF us, n

(* The children of a step change, its times do not.                        *)
LEMMA ChildrenChange ==
  ASSUME NEW ts \in Seq(BuildStep), NEW i \in DOMAIN ts, NEW cs \in Seq(BuildChild),
         DOMAIN ts[i].children \subseteq DOMAIN cs,
         \A j \in DOMAIN ts[i].children : cs[j].start = ts[i].children[j].start
  PROVE  LET us == [ts EXCEPT ![i].children = cs] IN
         /\ us \in Seq(BuildStep) /\ us # << >> /\ Grown(ts, us) /\ us[i].children = cs
         /\ ChildrenInOrder(ts)
            /\ (\A j \in DOMAIN cs : cs[j].end # Build!None =>
                                       cs[j].start # Build!None /\ cs[j].start <= cs[j].end)
            => ChildrenInOrder(us)
         /\ \A a, t, u \in Int : StepsInOrder(ts, a, t) /\ t <= u => StepsInOrder(us, a, u)
<1> DEFINE us == [ts EXCEPT ![i].children = cs]
           n == Len(ts)
           y == [ts[i] EXCEPT !.children = cs]
<1>1. n \in Nat /\ DOMAIN ts = 1 .. n /\ i \in 1 .. n
  OBVIOUS
<1>2. \A k \in 1 .. n : ts[k] \in BuildStep /\ ts[k].start \in Int /\ ts[k].end \in Int
  BY StepFacts
<1>3. \A x \in BuildStep :
        /\ [x EXCEPT !.children = cs] \in BuildStep /\ [x EXCEPT !.children = cs].end = x.end
        /\ [x EXCEPT !.children = cs].start = x.start /\ [x EXCEPT !.children = cs].children = cs
  BY DEF BuildStep, BuildChild
<1>4. us = [ts EXCEPT ![i] = y]
  OBVIOUS
<1>5. \A x \in BuildStep : /\ [ts EXCEPT ![i] = x] \in Seq(BuildStep)
                           /\ DOMAIN [ts EXCEPT ![i] = x] = 1 .. n
                           /\ [ts EXCEPT ![i] = x][i] = x
                           /\ \A k \in 1 .. n : k # i => [ts EXCEPT ![i] = x][k] = ts[k]
  BY <1>1
<1>6. y \in BuildStep /\ y.end = ts[i].end /\ y.start = ts[i].start /\ y.children = cs
  BY <1>1, <1>2, <1>3
<1>7. /\ us \in Seq(BuildStep) /\ DOMAIN us = 1 .. n /\ us[i] = y
      /\ \A k \in 1 .. n : k # i => us[k] = ts[k]
  <2> HIDE DEF y
  <2> QED BY <1>4, <1>5, <1>6 DEF y
<1> HIDE DEF us, n, y
<1>8. us # << >>
  BY <1>1, <1>7
<1>9. \A k \in 1 .. n : us[k].start = ts[k].start /\ us[k].end = ts[k].end
  BY <1>6, <1>7
<1>10. Grown(ts, us)
  BY <1>1, <1>6, <1>7 DEF Grown
<1>11. ASSUME ChildrenInOrder(ts),
              \A j \in DOMAIN cs : cs[j].end # Build!None =>
                                     cs[j].start # Build!None /\ cs[j].start <= cs[j].end
       PROVE  ChildrenInOrder(us)
  BY <1>1, <1>6, <1>7, <1>11 DEF ChildrenInOrder
<1>12. ASSUME NEW a \in Int, NEW t \in Int, NEW u \in Int, StepsInOrder(ts, a, t), t <= u
       PROVE  StepsInOrder(us, a, u)
  <2>1. \A k \in 1 .. n : us[k].start <= u /\ us[k].end <= u
    BY <1>1, <1>2, <1>9, <1>12 DEF StepsInOrder
  <2>2. \A k \in 1 .. n : \A j \in 1 .. k - 1 : j \in 1 .. n
    BY <1>1
  <2> QED BY <1>1, <1>7, <1>9, <1>12, <2>1, <2>2 DEF StepsInOrder
<1> QED BY <1>6, <1>7, <1>8, <1>10, <1>11, <1>12 DEF us

(* The invariant of the parser of a build's log.                           *)
KnownInv ==
  /\ stage \in {"lines", "times", "done", "refused", "raised"}
  /\ {header, prev_bare, next_bare, reversed} \subseteq BOOLEAN
  /\ read \in 0 .. MaxRead
  /\ latest \in Nat \cup {Build!None}
  /\ from # Build!None => to # Build!None /\ from <= latest
  /\ DOMAIN steps # {} => zone # Unset
  /\ zone # Unset => from # Build!None /\ ~header /\ zone % Hour = 0
  /\ oldZone # Unset => oldZone % Hour = 0

StepsInv ==
  stage \in {"lines", "times"} =>
    /\ steps \in Seq(BuildStep)
    /\ ~reversed => ChildrenInOrder(steps)
    /\ ~reversed /\ zone \in {Unset, offset} => StepsInOrder(steps, from, latest)

IsPlace(p, ts, t) ==
  /\ p[1] \in DOMAIN ts /\ p[2] \in DOMAIN ts[p[1]].children
  /\ ts[p[1]].children[p[2]].start \in Nat
  /\ ts[p[1]].children[p[2]].start <= t

PlacesInv ==
  /\ DOMAIN open = OldHarnessSteps
  /\ \A h \in OldHarnessSteps : open[h] # << >> => open[h][1] \in DOMAIN steps
  /\ stage = "lines" => \A h \in OldHarnessSteps : open[h] # << >> => IsPlace(open[h], steps, latest)

BuildInv == ClockInv /\ KnownInv /\ StepsInv /\ PlacesInv /\ Build!OrderedBuildIsTaken

LEMMA KnownTimes ==
  ASSUME BuildInv
  PROVE  /\ from \in Int /\ to \in Int /\ offset \in Int /\ latest \in Int /\ StartTime \in Nat
         /\ Build!None \in Int /\ Build!None <= latest /\ MaxRead \in Nat /\ Unset \notin Int
<1>1. Build!None = -1
  BY DEF Build!None
<1> QED BY <1>1, BuildFacts, LogsAssumption DEF BuildInv, ClockInv, KnownInv, Build!BuildLogAssumption

LEMMA LaterOf ==
  ASSUME NEW a \in Nat \cup {Build!None}, NEW b \in Nat \cup {Build!None}
  PROVE  LET m == Build!MAX({a, b}) IN m \in {a, b} /\ a <= m /\ b <= m
<1> DEFINE S == {a, b}
           m == Build!MAX(S)
<1>1. Build!None = -1 /\ Build!None \notin Nat
  BY DEF Build!None
<1>2. S \in SUBSET Int /\ a \in S /\ b \in S
  BY <1>1
<1>3. IsFiniteSet(S)
  <2>1. IsFiniteSet({a} \cup {b})
    BY FS_Singleton, FS_AddElement
  <2>2. S = {a} \cup {b}
    OBVIOUS
  <2> QED BY <2>1, <2>2
<1>4. CASE a = Build!None /\ b = Build!None
  BY <1>1, <1>4 DEF Build!MAX
<1>5. \A x \in S : x # Build!None => m \in S \ {Build!None} /\ x <= m
  <2> HIDE DEF S
  <2> QED BY <1>2, <1>3, KnownTime
<1>6. \A x \in Nat : Build!None <= x
  BY <1>1
<1>7. ASSUME a # Build!None \/ b # Build!None PROVE m \in S /\ a <= m /\ b <= m
  <2>1. m \in S /\ m \in Nat
    BY <1>5, <1>7
  <2>2. a <= m /\ b <= m
    BY <1>5, <1>6, <2>1
  <2> QED BY <2>1, <2>2
<1> QED BY <1>4, <1>7

LEMMA ToIsKept ==
  ASSUME NEW a \in Int, NEW b \in Int
  PROVE  Build!MAX({a, b}) \in Int /\ (a # Build!None => Build!MAX({a, b}) # Build!None)
<1> DEFINE S == {a, b}
<1>1. S \in SUBSET Int /\ a \in S
  OBVIOUS
<1>2. IsFiniteSet(S)
  <2>1. IsFiniteSet({a} \cup {b})
    BY FS_Singleton, FS_AddElement
  <2>2. S = {a} \cup {b}
    OBVIOUS
  <2> QED BY <2>1, <2>2
<1>3. a # Build!None => Build!MAX(S) \in S \ {Build!None}
  <2> HIDE DEF S
  <2> QED BY <1>1, <1>2, KnownTime
<1> QED BY <1>3, LatestType

(* A guessed offset is whole hours.                                        *)
LEMMA GuessIsWhole ==
  ASSUME NEW error \in Nat, NEW d \in Int
  PROVE  Build!Guess(error, d) \in Int /\ Build!Guess(error, d) % Hour = 0
<1> DEFINE x == d - error
           q == (-x) \div Hour
           g == Hour * (-q)
<1>1. Hour \in Nat \ {0}
  BY BuildFacts
<1>2. q \in Int
  <2>1. -x \in Int
    OBVIOUS
  <2> QED BY <1>1, <2>1, Division
<1>3. Build!Guess(error, d) = -(q * Hour)
  BY DEF Build!Guess, Build!Ceiling
<1> HIDE DEF q
<1>4. g \in Int /\ -(q * Hour) = g
  BY <1>1, <1>2
<1> HIDE DEF g
<1> DEFINE k == g \div Hour
           r == g % Hour
<1>5. k \in Int /\ r \in Int /\ g = Hour * k + r /\ 0 <= r /\ r < Hour
  BY <1>1, <1>4, Division
<1> HIDE DEF k, r
<1>6. Hour * k \in Int /\ Hour * (-q) \in Int /\ g = Hour * (-q) /\ -q \in Int
  BY <1>1, <1>2, <1>5 DEF g
<1>7. Hour * k < Hour * (-q) + Hour /\ Hour * (-q) < Hour * k + Hour
  BY <1>1, <1>5, <1>6
<1>8. k <= -q /\ -q <= k
  BY <1>1, <1>5, <1>6, <1>7, Multiples
<1>9. k = -q
  BY <1>2, <1>5, <1>8
<1>10. r = 0
  BY <1>5, <1>6, <1>9
<1> QED BY <1>3, <1>4, <1>10 DEF r

LEMMA LineSteps ==
  ASSUME NEW ln \in Build!Lines
  PROVE  /\ ln.kind \in {"started", "finished"} => ln.step \in BuilderSteps
         /\ ln.kind \in {"running", "summary", "ended", "old running"} => ln.step \in OldHarnessSteps
<1>1. CASE ln \in [kind : Build!Kinds.other]
  BY <1>1 DEF Build!Kinds
<1>2. CASE \E k \in Build!Kinds.stamped : ln \in [kind : {k}, step : Build!Names(k), time : LineTimes]
  BY <1>2 DEF Build!Names
<1>3. \/ ln \in [kind : Build!Kinds.other]
      \/ ln \in UNION {[kind : {k}, step : Build!Names(k), time : LineTimes] : k \in Build!Kinds.stamped}
  BY DEF Build!Lines
<1> QED BY <1>1, <1>2, <1>3, Zenon

(* The latest time goes on; if no line was older, it is that of the line.  *)
LEMMA ReadIs ==
  ASSUME KnownInv, NEW ln \in Build!Lines, Build!Read(ln)
  PROVE  /\ stage = "lines" /\ read' \in 0 .. MaxRead
         /\ {prev_bare', next_bare', reversed'} \subseteq BOOLEAN
         /\ latest' \in Nat \cup {Build!None} /\ latest <= latest'
         /\ ~reversed' => ~reversed
         /\ ln.kind \in Build!Kinds.stamped =>
              ln.time \in Nat /\ ln.time <= latest' /\ (~reversed' => latest' = ln.time)
         /\ ln.kind = "start time" => StartTime <= latest'
<1> DEFINE time == CASE ln.kind \in Build!Kinds.stamped -> ln.time
                     [] ln.kind = "start time" -> StartTime
                     [] OTHER -> latest
<1>1. /\ latest' = Build!MAX({latest, time}) /\ reversed' = (reversed \/ time < latest)
      /\ stage = "lines" /\ read < MaxRead /\ read' = read + 1
      /\ prev_bare' = next_bare /\ next_bare' \in BOOLEAN
  BY DEF Build!Read
<1>2. latest \in Nat \cup {Build!None} /\ read \in 0 .. MaxRead /\ reversed \in BOOLEAN /\ next_bare \in BOOLEAN
  BY DEF KnownInv
<1>3. ln.kind \in Build!Kinds.stamped => time = ln.time /\ ln.time \in Nat
  <2>1. ln.kind \in Build!Kinds.stamped => ln.kind # "start time" /\ ln.time \in Nat
    BY StampedLines DEF Build!Kinds
  <2> QED BY <2>1
<1>4. ln.kind = "start time" => time = StartTime /\ StartTime \in Nat
  <2>1. ln.kind = "start time" => ln.kind \notin Build!Kinds.stamped
    BY DEF Build!Kinds
  <2> QED BY <2>1, BuildFacts
<1>5. time \in Nat \cup {Build!None}
  BY <1>2, <1>3, <1>4
<1> HIDE DEF time
<1>6. latest' \in {latest, time} /\ latest <= latest' /\ time <= latest'
  BY <1>1, <1>2, <1>5, LaterOf
<1>7. latest \in Int /\ time \in Int /\ latest' \in Int
  BY <1>2, <1>5, <1>6 DEF Build!None
<1>8. ~reversed' => ~reversed /\ latest' = time
  <2>1. ~reversed' => ~reversed /\ ~(time < latest)
    BY <1>1, Zenon
  <2>2. ~(time < latest) => latest' = time
    BY <1>6, <1>7
  <2> QED BY <2>1, <2>2
<1>9. MaxRead \in Nat
  BY LogsAssumption DEF Build!BuildLogAssumption
<1>10. read' \in 0 .. MaxRead
  BY <1>1, <1>2, <1>9
<1>11. reversed' \in BOOLEAN
  BY <1>1, <1>2
<1> QED BY <1>1, <1>2, <1>3, <1>4, <1>5, <1>6, <1>8, <1>10, <1>11

LEMMA PlaceStays ==
  ASSUME NEW ts \in Seq(BuildStep), NEW us, Grown(ts, us), NEW t \in Int, NEW u \in Int, t <= u,
         NEW p, IsPlace(p, ts, t)
  PROVE  IsPlace(p, us, u)
<1> DEFINE i == p[1]
           j == p[2]
           x == ts[i].children[j].start
<1>1. i \in DOMAIN ts /\ j \in DOMAIN ts[i].children /\ x \in Nat /\ x <= t
  BY DEF IsPlace
<1>2. i \in DOMAIN us /\ j \in DOMAIN us[i].children /\ us[i].children[j].start = x
  BY <1>1 DEF Grown
<1> HIDE DEF i, j, x
<1>3. x <= u
  BY <1>1
<1> QED BY <1>1, <1>2, <1>3 DEF IsPlace, i, j

(* A line that leaves the places alone.                                    *)
LEMMA StepPlacesStay ==
  ASSUME BuildInv, stage = "lines", latest' \in Int, latest <= latest', UNCHANGED open,
         Grown(steps, steps')
  PROVE  PlacesInv'
<1>1. steps \in Seq(BuildStep) /\ DOMAIN open = OldHarnessSteps
      /\ \A h \in OldHarnessSteps : open[h] # << >> => open[h][1] \in DOMAIN steps /\ IsPlace(open[h], steps, latest)
  BY DEF BuildInv, StepsInv, PlacesInv
<1>2. latest \in Int
  BY KnownTimes
<1>3. DOMAIN steps \subseteq DOMAIN steps'
  BY DEF Grown
<1>4. ASSUME NEW h \in OldHarnessSteps, open[h] # << >> PROVE IsPlace(open[h], steps', latest')
  <2>1. IsPlace(open[h], steps, latest)
    BY <1>1, <1>4
  <2> QED BY <1>1, <1>2, <2>1, PlaceStays
<1> QED BY <1>1, <1>3, <1>4 DEF PlacesInv

LEMMA SameGrown == \A ts : Grown(ts, ts)
  BY DEF Grown

LEMMA StepsLater ==
  ASSUME NEW ts \in Seq(BuildStep), NEW a, NEW t \in Int, NEW u \in Int, t <= u, StepsInOrder(ts, a, t)
  PROVE  StepsInOrder(ts, a, u)
<1>1. \A i \in DOMAIN ts : ts[i].start \in Int /\ ts[i].end \in Int
  BY StepFacts
<1>2. \A i \in DOMAIN ts : ts[i].start <= t /\ ts[i].end <= t
  BY DEF StepsInOrder
<1>3. \A i \in DOMAIN ts : ts[i].start <= u /\ ts[i].end <= u
  BY <1>1, <1>2
<1> QED BY <1>3 DEF StepsInOrder

(* A line that leaves the steps alone, or fails.                           *)
LEMMA SameSteps ==
  ASSUME BuildInv, NEW ln \in Build!Lines, Build!Read(ln), UNCHANGED <<steps, open, zone, offset>>,
         UNCHANGED from \/ steps = << >>, stage' \in {"lines", "raised"}
  PROVE  StepsInv' /\ PlacesInv'
<1>1. /\ stage = "lines" /\ latest' \in Nat \cup {Build!None} /\ latest <= latest'
      /\ ~reversed' => ~reversed
  BY ReadIs DEF BuildInv
<1>2. latest \in Int /\ latest' \in Int
  BY <1>1, KnownTimes
<1>3. PlacesInv'
  <2>1. Grown(steps, steps')
    BY SameGrown
  <2> QED BY <1>1, <1>2, <2>1, StepPlacesStay
<1>4. steps \in Seq(BuildStep) /\ (~reversed => ChildrenInOrder(steps))
      /\ (~reversed /\ zone \in {Unset, offset} => StepsInOrder(steps, from, latest))
  BY <1>1 DEF BuildInv, StepsInv
<1>5. ASSUME ~reversed', zone \in {Unset, offset} PROVE StepsInOrder(steps, from', latest')
  <2>1. CASE UNCHANGED from
    <3>1. StepsInOrder(steps, from, latest)
      BY <1>1, <1>4, <1>5
    <3>2. StepsInOrder(steps, from, latest')
      BY <1>1, <1>2, <1>4, <3>1, StepsLater
    <3> QED BY <2>1, <3>2
  <2>2. CASE steps = << >>
    <3>1. DOMAIN steps = {}
      BY <2>2
    <3> QED BY <3>1 DEF StepsInOrder
  <2> QED BY <2>1, <2>2
<1> QED BY <1>1, <1>3, <1>4, <1>5 DEF StepsInv

(* The time that a line of the builder is given; it is the true one if its *)
(* offset is.                                                              *)
LEMMA BuilderTimeIs ==
  ASSUME BuildInv, NEW ln, ln.time \in Nat, from # Build!None \/ zone # Unset, Build!BuilderLine(ln)
  PROVE  /\ Build!BuilderTime(ln) \in Int /\ zone' # Unset /\ zone' % Hour = 0 /\ ~header'
         /\ from # Build!None /\ to' \in Int /\ to' # Build!None
         /\ UNCHANGED <<stage, from, open, offset, oldZone>>
         /\ zone' \in {Unset, offset'} =>
              zone \in {Unset, offset} /\ Build!BuilderTime(ln) = ln.time
<1>1. from \in Int /\ to \in Int /\ offset \in Int /\ Unset \notin Int
  BY KnownTimes
<1>2. from # Build!None /\ to # Build!None
  BY DEF BuildInv, KnownInv
<1>3. /\ zone' = Build!BuilderZone(ln) /\ header' = FALSE
      /\ to' = Build!MAX({to, Build!BuilderTime(ln)})
      /\ UNCHANGED <<stage, from, open, offset, oldZone>>
  BY DEF Build!BuilderLine
<1>4. zone' \in Int /\ zone' % Hour = 0 /\ (zone # Unset => zone' = zone)
  <2>1. CASE zone # Unset
    <3>1. zone' = zone
      BY <1>3, <2>1 DEF Build!BuilderZone
    <3> QED BY <2>1, <3>1 DEF BuildInv, KnownInv, ClockInv, BuilderIsRight
  <2>2. CASE zone = Unset
    <3> DEFINE d == from - (ln.time - offset)
    <3>1. d \in Int /\ BuilderError \in Nat
      BY <1>1, BuildFacts
    <3>2. zone' = Build!Guess(BuilderError, d)
      BY <1>3, <2>2 DEF Build!BuilderZone
    <3> HIDE DEF d
    <3> QED BY <2>2, <3>1, <3>2, GuessIsWhole
  <2> QED BY <2>1, <2>2
<1>5. Build!BuilderTime(ln) = ln.time - offset + zone'
  BY <1>3 DEF Build!BuilderTime
<1>6. Build!BuilderTime(ln) \in Int
  BY <1>1, <1>4, <1>5
<1>7. to' \in Int /\ to' # Build!None
  BY <1>1, <1>2, <1>3, <1>6, ToIsKept
<1>8. ASSUME zone' = offset PROVE zone \in {Unset, offset} /\ Build!BuilderTime(ln) = ln.time
  BY <1>1, <1>4, <1>5, <1>8
<1> QED BY <1>1, <1>2, <1>3, <1>4, <1>6, <1>7, <1>8

(* A line of the builder that adds a step, or ends the last one.           *)
LEMMA BuilderStepsAre ==
  ASSUME BuildInv, NEW ln \in Build!Lines, Build!Read(ln),
         Build!BuilderStarts(ln) \/ Build!BuilderEnds(ln)
  PROVE  KnownInv' /\ StepsInv' /\ PlacesInv'
<1> DEFINE T == Build!BuilderTime(ln)
           n == Len(steps)
<1>1. ln.kind \in {"started", "finished"} /\ (from # Build!None \/ zone # Unset) /\ Build!BuilderLine(ln)
  BY DEF Build!BuilderStarts, Build!BuilderEnds
<1>2. ln.kind \in Build!Kinds.stamped /\ ln.step \in StepNames
  BY <1>1, LineSteps DEF Build!Kinds, StepNames
<1>3. /\ stage = "lines" /\ read' \in 0 .. MaxRead
      /\ {prev_bare', next_bare', reversed'} \subseteq BOOLEAN
      /\ latest' \in Nat \cup {Build!None} /\ latest <= latest'
      /\ ~reversed' => ~reversed /\ latest' = ln.time
      /\ ln.time \in Nat
  BY <1>2, ReadIs DEF BuildInv
<1>4. /\ T \in Int /\ zone' # Unset /\ zone' % Hour = 0 /\ ~header'
      /\ from # Build!None /\ to' \in Int /\ to' # Build!None
      /\ UNCHANGED <<stage, from, open, offset, oldZone>>
      /\ zone' \in {Unset, offset'} => zone \in {Unset, offset} /\ T = ln.time
  BY <1>1, <1>3, BuilderTimeIs
<1>5. header' \in BOOLEAN
  BY <1>1 DEF Build!BuilderLine
<1>6. latest \in Int /\ latest' \in Int /\ from \in Int /\ from <= latest' /\ Build!None \in Int /\ Build!None <= latest'
  <2>1. latest \in Int /\ from \in Int /\ Build!None \in Int /\ Build!None <= latest /\ from <= latest
    BY <1>4, KnownTimes DEF BuildInv, KnownInv
  <2>2. latest' \in Int
    BY <1>3, <2>1
  <2> QED BY <1>3, <2>1, <2>2
<1>7. KnownInv'
  <2>1. stage' = "lines" /\ from' <= latest'
    BY <1>3, <1>4, <1>6
  <2>2. oldZone' # Unset => oldZone' % Hour = 0
    BY <1>4 DEF BuildInv, KnownInv
  <2> QED BY <1>3, <1>4, <1>5, <2>1, <2>2 DEF KnownInv
<1>8. /\ steps \in Seq(BuildStep) /\ (~reversed => ChildrenInOrder(steps))
      /\ (~reversed /\ zone \in {Unset, offset} => StepsInOrder(steps, from, latest))
  BY <1>3 DEF BuildInv, StepsInv
<1> DEFINE Fits(us) ==
             /\ us \in Seq(BuildStep) /\ Grown(steps, us)
             /\ ChildrenInOrder(steps) => ChildrenInOrder(us)
             /\ StepsInOrder(steps, from, latest) /\ T = latest' => StepsInOrder(us, from, latest')
<1>9. Fits(steps')
  <2>1. CASE Build!BuilderStarts(ln)
    <3> DEFINE x == Build!Step(ln.step, T, Build!None)
    <3>1. steps' = Append(steps, x)
      BY <2>1 DEF Build!BuilderStarts
    <3>2. x \in BuildStep /\ x.children = << >> /\ x.start = T /\ x.end = Build!None
      <4> HIDE DEF T
      <4> QED BY <1>2, <1>4, <1>6, FreshStep
    <3> HIDE DEF x, T
    <3>3. /\ Append(steps, x) \in Seq(BuildStep) /\ Grown(steps, Append(steps, x))
          /\ ChildrenInOrder(steps) => ChildrenInOrder(Append(steps, x))
          /\ \A a, t, u \in Int :
               /\ StepsInOrder(steps, a, t) /\ t <= u /\ a <= u /\ x.start <= u
               /\ x.end = u \/ (x.end = Build!None /\ x.end <= u)
               => StepsInOrder(Append(steps, x), a, u)
      BY <1>8, <3>2, AppendedStep
    <3>4. ASSUME StepsInOrder(steps, from, latest), T = latest' PROVE StepsInOrder(Append(steps, x), from, latest')
      BY <1>3, <1>6, <3>2, <3>3, <3>4
    <3> QED BY <3>1, <3>3, <3>4
  <2>2. CASE Build!BuilderEnds(ln) /\ Build!Last(steps).step = ln.step
    <3> DEFINE us == [steps EXCEPT ![Len(steps)].end = T]
    <3>1. steps' = us /\ steps # << >>
      BY <2>2 DEF Build!BuilderEnds
    <3> HIDE DEF T
    <3>2. /\ us \in Seq(BuildStep) /\ Grown(steps, us)
          /\ ChildrenInOrder(steps) => ChildrenInOrder(us)
          /\ \A a, t, u \in Int :
               /\ StepsInOrder(steps, a, t) /\ t <= u /\ a <= u
               /\ T = u \/ (T = Build!None /\ T <= u)
               => StepsInOrder(us, a, u)
      BY <1>4, <1>8, <3>1, EndedStep
    <3> HIDE DEF us
    <3>3. ASSUME StepsInOrder(steps, from, latest), T = latest' PROVE StepsInOrder(us, from, latest')
      BY <1>3, <1>6, <3>2, <3>3
    <3> QED BY <3>1, <3>2, <3>3
  <2>3. CASE Build!BuilderEnds(ln) /\ Build!Last(steps).step # ln.step
    <3> DEFINE s == Build!Last(steps).end
               x == Build!Step(ln.step, s, T)
    <3>1. steps' = Append(steps, x) /\ steps # << >>
      BY <2>3 DEF Build!BuilderEnds
    <3>2. n \in DOMAIN steps /\ s = steps[n].end /\ s \in Int
      <4>1. n \in 1 .. Len(steps) /\ DOMAIN steps = 1 .. Len(steps)
        BY <1>8, <3>1
      <4> HIDE DEF n
      <4> QED BY <1>8, <4>1, StepFacts DEF Build!Last, n
    <3>3. x \in BuildStep /\ x.children = << >> /\ x.start = s /\ x.end = T
      <4> HIDE DEF s, T
      <4> QED BY <1>2, <1>4, <3>2, FreshStep
    <3> HIDE DEF x, s, T
    <3>4. /\ Append(steps, x) \in Seq(BuildStep) /\ Grown(steps, Append(steps, x))
          /\ ChildrenInOrder(steps) => ChildrenInOrder(Append(steps, x))
          /\ \A a, t, u \in Int :
               /\ StepsInOrder(steps, a, t) /\ t <= u /\ a <= u /\ x.start <= u
               /\ x.end = u \/ (x.end = Build!None /\ x.end <= u)
               => StepsInOrder(Append(steps, x), a, u)
      BY <1>8, <3>3, AppendedStep
    <3>5. ASSUME StepsInOrder(steps, from, latest), T = latest' PROVE StepsInOrder(Append(steps, x), from, latest')
      <4>1. s <= latest
        BY <3>2, <3>5 DEF StepsInOrder
      <4>2. s <= latest'
        BY <1>3, <1>6, <3>2, <4>1
      <4> QED BY <1>3, <1>6, <3>3, <3>4, <3>5, <4>2
    <3> QED BY <3>1, <3>4, <3>5
  <2> QED BY <2>1, <2>2, <2>3
<1>10. StepsInv'
  <2>1. steps' \in Seq(BuildStep)
    BY <1>9
  <2>2. ASSUME ~reversed' PROVE ChildrenInOrder(steps')
    BY <1>3, <1>8, <1>9, <2>2
  <2>3. ASSUME ~reversed', zone' \in {Unset, offset'} PROVE StepsInOrder(steps', from', latest')
    <3>1. StepsInOrder(steps, from, latest) /\ T = latest'
      BY <1>3, <1>4, <1>8, <2>3
    <3> QED BY <1>4, <1>9, <3>1
  <2> QED BY <2>1, <2>2, <2>3 DEF StepsInv
<1>11. PlacesInv'
  BY <1>3, <1>4, <1>6, <1>9, StepPlacesStay
<1> QED BY <1>7, <1>10, <1>11

(* A skipped step has no times of its own.                                 *)
LEMMA SkippedSteps ==
  ASSUME BuildInv, NEW ln \in Build!Lines, Build!Read(ln), Build!BuilderSkips(ln)
  PROVE  StepsInv' /\ PlacesInv' /\ DOMAIN steps # {}
<1> DEFINE n == Len(steps)
           s == steps[n].end
           x == Build!Step("", s, Build!None)
           us == [steps EXCEPT ![Len(steps)].end = Build!None]
<1>1. /\ steps # << >> /\ UNCHANGED <<stage, from, open, zone, offset>>
      /\ steps' = us \/ steps' = Append(steps, x)
  BY DEF Build!BuilderSkips, Build!Last
<1>2. /\ stage = "lines" /\ latest' \in Nat \cup {Build!None} /\ latest <= latest'
      /\ ~reversed' => ~reversed
  BY ReadIs DEF BuildInv
<1>3. latest \in Int /\ latest' \in Int /\ Build!None \in Int /\ Build!None <= latest' /\ from \in Int
  <2>1. latest \in Int /\ from \in Int /\ Build!None \in Int /\ Build!None <= latest
    BY KnownTimes
  <2>2. latest' \in Int
    BY <1>2, <2>1
  <2> QED BY <1>2, <2>1, <2>2
<1>4. /\ steps \in Seq(BuildStep) /\ (~reversed => ChildrenInOrder(steps))
      /\ (~reversed /\ zone \in {Unset, offset} => StepsInOrder(steps, from, latest))
  BY <1>2 DEF BuildInv, StepsInv
<1>5. n \in DOMAIN steps /\ DOMAIN steps # {}
  <2>1. steps # << >> /\ steps \in Seq(BuildStep)
    BY <1>1, <1>4
  <2>2. n \in 1 .. Len(steps) /\ DOMAIN steps = 1 .. Len(steps)
    BY <2>1
  <2> QED BY <2>2
<1>6. from <= latest'
  <2>1. zone # Unset
    BY <1>5 DEF BuildInv, KnownInv
  <2>2. from <= latest
    BY <2>1 DEF BuildInv, KnownInv
  <2> QED BY <1>2, <1>3, <2>2
<1> DEFINE Fits(vs) ==
             /\ vs \in Seq(BuildStep) /\ Grown(steps, vs)
             /\ ChildrenInOrder(steps) => ChildrenInOrder(vs)
             /\ StepsInOrder(steps, from, latest) => StepsInOrder(vs, from, latest')
<1>7. Fits(us)
  <2>1. /\ us \in Seq(BuildStep) /\ Grown(steps, us)
        /\ ChildrenInOrder(steps) => ChildrenInOrder(us)
        /\ \A a, t, u \in Int :
             /\ StepsInOrder(steps, a, t) /\ t <= u /\ a <= u
             /\ Build!None = u \/ (Build!None = Build!None /\ Build!None <= u)
             => StepsInOrder(us, a, u)
    BY <1>1, <1>3, <1>4, EndedStep
  <2> HIDE DEF us
  <2> QED BY <1>2, <1>3, <1>6, <2>1
<1>8. Fits(Append(steps, x))
  <2>1. s \in Int
    <3> HIDE DEF n
    <3> QED BY <1>4, <1>5, StepFacts
  <2> HIDE DEF s
  <2>2. x \in BuildStep /\ x.children = << >> /\ x.start = s /\ x.end = Build!None
    <3>1. "" \in StepNames
      BY DEF StepNames
    <3>2. Build!None \in Int
      BY <1>3
    <3>3. \A e \in StepNames :
            /\ Build!Step(e, s, Build!None) \in BuildStep /\ Build!Step(e, s, Build!None).children = << >>
            /\ Build!Step(e, s, Build!None).start = s /\ Build!Step(e, s, Build!None).end = Build!None
      BY <2>1, <3>2, FreshStep
    <3> QED BY <3>1, <3>3
  <2> HIDE DEF x
  <2>3. /\ Append(steps, x) \in Seq(BuildStep) /\ Grown(steps, Append(steps, x))
        /\ ChildrenInOrder(steps) => ChildrenInOrder(Append(steps, x))
        /\ \A a, t, u \in Int :
             /\ StepsInOrder(steps, a, t) /\ t <= u /\ a <= u /\ x.start <= u
             /\ x.end = u \/ (x.end = Build!None /\ x.end <= u)
             => StepsInOrder(Append(steps, x), a, u)
    BY <1>4, <2>2, AppendedStep
  <2>4. ASSUME StepsInOrder(steps, from, latest) PROVE StepsInOrder(Append(steps, x), from, latest')
    <3>1. s <= latest
      BY <1>5, <2>4 DEF StepsInOrder, s
    <3>2. s <= latest'
      BY <1>2, <1>3, <2>1, <3>1
    <3> QED BY <1>2, <1>3, <1>6, <2>2, <2>3, <2>4, <3>2
  <2> QED BY <2>3, <2>4
<1>9. Fits(steps')
  <2> HIDE DEF us, x, Fits
  <2> QED BY <1>1, <1>7, <1>8
<1>10. StepsInv'
  <2>1. ASSUME ~reversed', zone \in {Unset, offset} PROVE StepsInOrder(steps', from, latest')
    BY <1>2, <1>4, <1>9, <2>1
  <2>2. ASSUME ~reversed' PROVE ChildrenInOrder(steps')
    BY <1>2, <1>4, <1>9, <2>2
  <2> QED BY <1>1, <1>9, <2>1, <2>2 DEF StepsInv
<1>11. PlacesInv'
  BY <1>1, <1>2, <1>3, <1>9, StepPlacesStay
<1> QED BY <1>5, <1>10, <1>11

(* Another list of children of one step.                                   *)
LEMMA ChildrenOfStep ==
  ASSUME BuildInv, NEW ln \in Build!Lines, Build!Read(ln), NEW i \in DOMAIN steps,
         NEW cs \in Seq(BuildChild), UNCHANGED <<stage, from, zone, offset>>,
         steps' = [steps EXCEPT ![i].children = cs],
         DOMAIN steps[i].children \subseteq DOMAIN cs,
         \A j \in DOMAIN steps[i].children : cs[j].start = steps[i].children[j].start,
         ~reversed' /\ ChildrenInOrder(steps) =>
           \A j \in DOMAIN cs : cs[j].end # Build!None =>
                                  cs[j].start # Build!None /\ cs[j].start <= cs[j].end
  PROVE  StepsInv' /\ Grown(steps, steps') /\ steps'[i].children = cs
<1>2. /\ stage = "lines" /\ latest' \in Nat \cup {Build!None} /\ latest <= latest'
      /\ ~reversed' => ~reversed
  BY ReadIs DEF BuildInv
<1>3. latest \in Int /\ latest' \in Int /\ from \in Int
  BY <1>2, KnownTimes
<1>4. /\ steps \in Seq(BuildStep) /\ (~reversed => ChildrenInOrder(steps))
      /\ (~reversed /\ zone \in {Unset, offset} => StepsInOrder(steps, from, latest))
  BY <1>2 DEF BuildInv, StepsInv
<1> DEFINE us == [steps EXCEPT ![i].children = cs]
<1>5. /\ us \in Seq(BuildStep) /\ Grown(steps, us) /\ us[i].children = cs
      /\ ChildrenInOrder(steps)
         /\ (\A j \in DOMAIN cs : cs[j].end # Build!None =>
                                    cs[j].start # Build!None /\ cs[j].start <= cs[j].end)
         => ChildrenInOrder(us)
      /\ \A a, t, u \in Int : StepsInOrder(steps, a, t) /\ t <= u => StepsInOrder(us, a, u)
  BY <1>4, ChildrenChange
<1>6. steps' = us
  OBVIOUS
<1> HIDE DEF us
<1>7. ASSUME ~reversed' PROVE ChildrenInOrder(us)
  BY <1>2, <1>4, <1>5, <1>7
<1>8. ASSUME ~reversed', zone \in {Unset, offset} PROVE StepsInOrder(us, from, latest')
  BY <1>2, <1>3, <1>4, <1>5, <1>8
<1>9. StepsInv'
  BY <1>5, <1>6, <1>7, <1>8 DEF StepsInv
<1> QED BY <1>5, <1>6, <1>9

(* A child of the last step, which has no end yet.                         *)
LEMMA AddedChild ==
  ASSUME BuildInv, NEW ln \in Build!Lines, Build!Read(ln), steps # << >>,
         NEW s \in OldHarnessSteps, NEW t \in Int,
         Build!AddChild(Build!Step(s, t, Build!None)), UNCHANGED <<stage, from, zone, offset>>
  PROVE  /\ StepsInv' /\ Grown(steps, steps')
         /\ t \in Nat /\ t <= latest' =>
              IsPlace(<<Len(steps), Len(Build!Last(steps).children) + 1>>, steps', latest')
<1> DEFINE i == Len(steps)
           old_cs == steps[i].children
           x == Build!Step(s, t, Build!None)
           cs == Append(old_cs, x)
<1>1. stage = "lines"
  BY DEF Build!Read
<1>2. steps \in Seq(BuildStep) /\ Build!None \in Int
  BY <1>1, KnownTimes DEF BuildInv, StepsInv
<1>3. i \in DOMAIN steps
  BY <1>2
<1>4. old_cs \in Seq(BuildChild)
  <2> HIDE DEF i
  <2> QED BY <1>2, <1>3, StepFacts
<1>5. steps' = [steps EXCEPT ![i].children = cs]
  BY DEF Build!AddChild
<1>6. Build!Last(steps).children = old_cs
  BY DEF Build!Last
<1> HIDE DEF i
<1>7. x \in BuildChild /\ x.start = t /\ x.end = Build!None
  BY FreshChild
<1> HIDE DEF x
<1>8. /\ cs \in Seq(BuildChild) /\ DOMAIN old_cs \subseteq DOMAIN cs
      /\ \A j \in DOMAIN old_cs : cs[j] = old_cs[j]
      /\ \A j \in DOMAIN cs : j \in DOMAIN old_cs \/ cs[j] = x
      /\ Len(old_cs) + 1 \in DOMAIN cs /\ cs[Len(old_cs) + 1] = x
  <2> HIDE DEF old_cs
  <2> QED BY <1>4, <1>7
<1> HIDE DEF cs
<1>9. ASSUME ChildrenInOrder(steps)
      PROVE  \A j \in DOMAIN cs : cs[j].end # Build!None =>
                                    cs[j].start # Build!None /\ cs[j].start <= cs[j].end
  BY <1>3, <1>7, <1>8, <1>9 DEF ChildrenInOrder
<1>10. UNCHANGED <<stage, from, zone, offset>>
  OBVIOUS
<1>11. StepsInv' /\ Grown(steps, steps') /\ steps'[i].children = cs
  BY <1>3, <1>5, <1>8, <1>9, <1>10, ChildrenOfStep
<1>12. ASSUME t \in Nat, t <= latest' PROVE IsPlace(<<i, Len(old_cs) + 1>>, steps', latest')
  <2>1. i \in DOMAIN steps'
    BY <1>3, <1>11 DEF Grown
  <2> HIDE DEF old_cs
  <2>2. <<i, Len(old_cs) + 1>>[1] = i /\ <<i, Len(old_cs) + 1>>[2] = Len(old_cs) + 1
    OBVIOUS
  <2> QED BY <1>7, <1>8, <1>11, <1>12, <2>1, <2>2 DEF IsPlace
<1> QED BY <1>6, <1>11, <1>12 DEF i

LEMMA HarnessStepsAre ==
  ASSUME BuildInv, NEW ln \in Build!Lines, Build!Read(ln), Build!HarnessStarts(ln)
  PROVE  StepsInv' /\ PlacesInv' /\ to' \in Int /\ (to # Build!None => to' # Build!None)
<1>1. /\ ln.kind \in {"running", "summary"} /\ steps # << >>
      /\ Build!AddChild(Build!Step(ln.step, ln.time, Build!None))
      /\ open' = [open EXCEPT ![ln.step] = <<Len(steps), Len(Build!Last(steps).children) + 1>>]
      /\ to' = Build!MAX({to, ln.time})
      /\ UNCHANGED <<stage, from, zone, offset>>
  BY DEF Build!HarnessStarts
<1>2. ln.kind \in Build!Kinds.stamped /\ ln.step \in OldHarnessSteps
  BY <1>1, LineSteps DEF Build!Kinds
<1>3. /\ stage = "lines" /\ latest' \in Nat \cup {Build!None} /\ latest <= latest'
      /\ ln.time \in Nat /\ ln.time <= latest'
  BY <1>2, ReadIs DEF BuildInv
<1>4. latest \in Int /\ latest' \in Int /\ ln.time \in Int /\ to \in Int
  BY <1>3, KnownTimes
<1> DEFINE p == <<Len(steps), Len(Build!Last(steps).children) + 1>>
<1>5. StepsInv' /\ Grown(steps, steps') /\ IsPlace(p, steps', latest')
  BY <1>1, <1>2, <1>3, <1>4, AddedChild
<1>6. p[1] \in DOMAIN steps'
  BY <1>5 DEF IsPlace
<1>7. /\ DOMAIN open = OldHarnessSteps /\ steps \in Seq(BuildStep)
      /\ \A h \in OldHarnessSteps : open[h] # << >> => open[h][1] \in DOMAIN steps /\ IsPlace(open[h], steps, latest)
  BY <1>3 DEF BuildInv, PlacesInv, StepsInv
<1> HIDE DEF p
<1>8. DOMAIN open' = OldHarnessSteps /\ open'[ln.step] = p
      /\ \A h \in OldHarnessSteps : h # ln.step => open'[h] = open[h]
  BY <1>1, <1>2, <1>7 DEF p
<1>9. ASSUME NEW h \in OldHarnessSteps, open'[h] # << >>
      PROVE  open'[h][1] \in DOMAIN steps' /\ IsPlace(open'[h], steps', latest')
  <2>1. CASE h = ln.step
    BY <1>5, <1>6, <1>8, <2>1
  <2>2. CASE h # ln.step
    <3>1. open'[h] = open[h] /\ IsPlace(open[h], steps, latest) /\ open[h][1] \in DOMAIN steps
      BY <1>7, <1>8, <1>9, <2>2
    <3>2. IsPlace(open[h], steps', latest')
      BY <1>3, <1>4, <1>5, <1>7, <3>1, PlaceStays
    <3> QED BY <3>1, <3>2 DEF IsPlace
  <2> QED BY <2>1, <2>2
<1>10. PlacesInv'
  BY <1>8, <1>9 DEF PlacesInv
<1> QED BY <1>1, <1>4, <1>5, <1>10, ToIsKept

LEMMA OldHarnessStepsAre ==
  ASSUME BuildInv, NEW ln \in Build!Lines, Build!Read(ln), Build!OldHarnessStarts(ln)
  PROVE  /\ StepsInv' /\ PlacesInv' /\ to' \in Int /\ (to # Build!None => to' # Build!None)
         /\ oldZone' # Unset => oldZone' % Hour = 0
<1> DEFINE t == Build!OldTime(ln) + Build!OldHarnessZone(ln)
<1>1. /\ ln.kind = "old running" /\ steps # << >>
      /\ Build!AddChild(Build!Step(ln.step, t, Build!None))
      /\ oldZone' = Build!OldHarnessZone(ln)
      /\ to' = Build!MAX({to, t})
      /\ UNCHANGED <<stage, from, open, zone, offset>>
  BY DEF Build!OldHarnessStarts, Build!IsOldStart
<1>2. ln.kind \in Build!Kinds.stamped /\ ln.step \in OldHarnessSteps
  BY <1>1, LineSteps DEF Build!Kinds
<1>3. /\ stage = "lines" /\ latest' \in Nat \cup {Build!None} /\ latest <= latest' /\ ln.time \in Nat
  BY <1>2, ReadIs DEF BuildInv
<1>4. latest \in Int /\ latest' \in Int /\ to \in Int /\ offset \in Int
  BY <1>3, KnownTimes
<1>5. Build!OldTime(ln) \in Int
  <2>1. Day \in Nat \ {0} /\ Day \div 2 \in Nat
    BY BuildFacts
  <2>2. ln.time - offset \in Int /\ to - (Day \div 2) \in Int
    BY <1>3, <1>4, <2>1
  <2>3. (ln.time - offset) % Day \in Int /\ (to - (Day \div 2)) \div Day \in Int
    BY <2>1, <2>2, Division
  <2> DEFINE c == (ln.time - offset) % Day
             d == (to - (Day \div 2)) \div Day
  <2>4. Build!OldTime(ln) = IF d * Day + c < to - (Day \div 2) - HarnessError
                            THEN d * Day + c + Day ELSE d * Day + c
    BY DEF Build!OldTime
  <2> HIDE DEF c, d
  <2>5. c \in Int /\ d \in Int
    BY <2>3 DEF c, d
  <2>6. d * Day + c \in Int /\ d * Day + c + Day \in Int
    BY <2>1, <2>5
  <2> QED BY <2>4, <2>6
<1>6. Build!OldHarnessZone(ln) \in Int /\ Build!OldHarnessZone(ln) % Hour = 0
  <2>1. CASE oldZone # Unset
    BY <2>1 DEF Build!OldHarnessZone, BuildInv, ClockInv, OldHarnessIsRight, KnownInv
  <2>2. CASE oldZone = Unset
    <3> DEFINE d == to - Build!OldTime(ln)
    <3>1. Build!OldHarnessZone(ln) = Build!Guess(HarnessError, d)
      BY <2>2 DEF Build!OldHarnessZone
    <3>2. d \in Int /\ HarnessError \in Nat
      BY <1>4, <1>5, BuildFacts
    <3> HIDE DEF d
    <3> QED BY <3>1, <3>2, GuessIsWhole
  <2> QED BY <2>1, <2>2
<1>7. t \in Int
  BY <1>5, <1>6
<1> HIDE DEF t
<1>8. StepsInv' /\ Grown(steps, steps')
  BY <1>1, <1>2, <1>7, AddedChild
<1>9. PlacesInv'
  BY <1>1, <1>3, <1>4, <1>8, StepPlacesStay
<1> QED BY <1>1, <1>4, <1>6, <1>7, <1>8, <1>9, ToIsKept

(* A child ends no earlier than it started if no line is older than the    *)
(* one before it.                                                          *)
LEMMA EndedChildren ==
  ASSUME BuildInv, NEW ln \in Build!Lines, Build!Read(ln), Build!HarnessEnds(ln)
  PROVE  StepsInv' /\ PlacesInv' /\ to' \in Int /\ (to # Build!None => to' # Build!None)
<1> DEFINE p == open[ln.step]
           i == p[1]
           k == p[2]
           old_cs == steps[i].children
           cs == [old_cs EXCEPT ![k].end = ln.time]
<1>1. /\ ln.kind = "ended" /\ p # << >>
      /\ steps' = [steps EXCEPT ![i].children[k].end = ln.time]
      /\ to' = Build!MAX({to, ln.time})
      /\ UNCHANGED <<stage, from, open, zone, offset>>
  BY DEF Build!HarnessEnds
<1>2. ln.kind \in Build!Kinds.stamped /\ ln.step \in OldHarnessSteps
  BY <1>1, LineSteps DEF Build!Kinds
<1>3. /\ stage = "lines" /\ latest' \in Nat \cup {Build!None} /\ latest <= latest'
      /\ ln.time \in Nat /\ (~reversed' => latest' = ln.time)
  BY <1>2, ReadIs DEF BuildInv
<1>4. latest \in Int /\ latest' \in Int /\ ln.time \in Int /\ to \in Int
  BY <1>3, KnownTimes
<1>5. IsPlace(p, steps, latest) /\ steps \in Seq(BuildStep)
  BY <1>1, <1>2, <1>3 DEF BuildInv, PlacesInv, StepsInv
<1>6. /\ i \in DOMAIN steps /\ k \in DOMAIN old_cs
      /\ old_cs[k].start \in Nat /\ old_cs[k].start <= latest
  BY <1>5 DEF IsPlace
<1>7. old_cs \in Seq(BuildChild)
  <2> HIDE DEF i
  <2> QED BY <1>5, <1>6, StepFacts
<1>8. steps' = [steps EXCEPT ![i].children = cs]
  BY <1>1, <1>6
<1> HIDE DEF i, k
<1> DEFINE y == [old_cs[k] EXCEPT !.end = ln.time]
<1>9. \A c \in BuildChild : /\ [c EXCEPT !.end = ln.time] \in BuildChild
                            /\ [c EXCEPT !.end = ln.time].start = c.start
                            /\ [c EXCEPT !.end = ln.time].end = ln.time
  BY <1>4 DEF BuildChild
<1>10. old_cs[k] \in BuildChild /\ cs = [old_cs EXCEPT ![k] = y]
  <2> HIDE DEF old_cs
  <2> QED BY <1>6, <1>7 DEF old_cs
<1>11. y \in BuildChild /\ y.start = old_cs[k].start /\ y.end = ln.time
  <2> HIDE DEF old_cs
  <2> QED BY <1>9, <1>10
<1>12. /\ cs \in Seq(BuildChild) /\ DOMAIN cs = DOMAIN old_cs /\ cs[k] = y
       /\ \A j \in DOMAIN old_cs : j # k => cs[j] = old_cs[j]
  <2> HIDE DEF y, old_cs, cs
  <2>1. \A c \in BuildChild : /\ [old_cs EXCEPT ![k] = c] \in Seq(BuildChild)
                              /\ DOMAIN [old_cs EXCEPT ![k] = c] = DOMAIN old_cs
                              /\ [old_cs EXCEPT ![k] = c][k] = c
                              /\ \A j \in DOMAIN old_cs : j # k => [old_cs EXCEPT ![k] = c][j] = old_cs[j]
    BY <1>6, <1>7
  <2> QED BY <1>10, <1>11, <2>1
<1> HIDE DEF cs, y, old_cs
<1>13. \A j \in DOMAIN old_cs : cs[j].start = old_cs[j].start
  BY <1>11, <1>12
<1>14. ASSUME ~reversed', ChildrenInOrder(steps)
       PROVE  \A j \in DOMAIN cs : cs[j].end # Build!None =>
                                     cs[j].start # Build!None /\ cs[j].start <= cs[j].end
  <2>1. cs[k].start # Build!None /\ cs[k].start <= cs[k].end
    <3>1. \A u \in Nat : u # Build!None /\ u \in Int
      BY DEF Build!None
    <3>2. old_cs[k].start <= ln.time
      BY <1>3, <1>4, <1>6, <1>14, <3>1
    <3> QED BY <1>6, <1>11, <1>12, <3>1, <3>2
  <2>2. \A j \in DOMAIN old_cs : old_cs[j].end # Build!None =>
                                   old_cs[j].start # Build!None /\ old_cs[j].start <= old_cs[j].end
    BY <1>6, <1>14 DEF ChildrenInOrder, old_cs
  <2> QED BY <1>12, <2>1, <2>2
<1>15. UNCHANGED <<stage, from, zone, offset>>
  BY <1>1
<1>16. DOMAIN steps[i].children \subseteq DOMAIN cs
       /\ \A j \in DOMAIN steps[i].children : cs[j].start = steps[i].children[j].start
  BY <1>12, <1>13 DEF old_cs
<1>17. StepsInv' /\ Grown(steps, steps')
  BY <1>6, <1>8, <1>12, <1>14, <1>15, <1>16, ChildrenOfStep
<1>18. PlacesInv'
  BY <1>1, <1>3, <1>4, <1>17, StepPlacesStay
<1> QED BY <1>1, <1>4, <1>17, <1>18, ToIsKept

(* What is known of the log after a line that is not the builder's.        *)
LEMMA KnownLine ==
  ASSUME BuildInv, NEW ln \in Build!Lines, Build!Read(ln), stage' \in {"lines", "raised"},
         header' \in BOOLEAN, ~header => ~header', UNCHANGED zone,
         DOMAIN steps # {} \/ UNCHANGED steps,
         oldZone' # Unset => oldZone' % Hour = 0,
         \/ UNCHANGED from /\ (to # Build!None => to' # Build!None)
         \/ from' = StartTime /\ to' = StartTime /\ StartTime <= latest'
  PROVE  KnownInv'
<1>1. /\ read' \in 0 .. MaxRead /\ {prev_bare', next_bare', reversed'} \subseteq BOOLEAN
      /\ latest' \in Nat \cup {Build!None} /\ latest <= latest'
  BY ReadIs DEF BuildInv
<1>2. latest \in Int /\ latest' \in Int /\ from \in Int /\ StartTime \in Nat /\ StartTime # Build!None
  <2>1. latest \in Int /\ from \in Int /\ StartTime \in Nat /\ Build!None \in Int
    BY KnownTimes
  <2>2. \A x \in Nat : x # Build!None
    BY DEF Build!None
  <2>3. latest' \in Int
    BY <1>1, <2>1
  <2> QED BY <2>1, <2>2, <2>3
<1>3. /\ from # Build!None => to # Build!None /\ from <= latest
      /\ DOMAIN steps # {} => zone # Unset
      /\ zone # Unset => from # Build!None /\ ~header /\ zone % Hour = 0
  BY DEF BuildInv, KnownInv
<1>4. from' # Build!None => to' # Build!None /\ from' <= latest'
  <2>1. CASE UNCHANGED from /\ (to # Build!None => to' # Build!None)
    BY <1>1, <1>2, <1>3, <2>1
  <2>2. CASE from' = StartTime /\ to' = StartTime /\ StartTime <= latest'
    BY <1>2, <2>2
  <2> QED BY <2>1, <2>2
<1>5. zone # Unset => from' # Build!None
  BY <1>2, <1>3
<1>6. DOMAIN steps' # {} => zone' # Unset
  BY <1>3
<1> QED BY <1>1, <1>3, <1>4, <1>5, <1>6 DEF KnownInv

LEMMA SomeSteps ==
  ASSUME BuildInv, stage = "lines", steps # << >> PROVE DOMAIN steps # {}
<1>1. steps \in Seq(BuildStep)
  BY DEF BuildInv, StepsInv
<1>2. Len(steps) \in 1 .. Len(steps) /\ DOMAIN steps = 1 .. Len(steps)
  BY <1>1
<1> QED BY <1>2

LEMMA LineStep ==
  ASSUME BuildInv, NEW ln \in Build!Lines, Build!Line(ln)
  PROVE  KnownInv' /\ StepsInv' /\ PlacesInv' /\ stage' \in {"lines", "raised"}
<1>1. Build!Read(ln) /\ stage = "lines"
  BY DEF Build!Line, Build!Read
<1>2. header \in BOOLEAN /\ (oldZone # Unset => oldZone % Hour = 0)
  BY DEF BuildInv, KnownInv
<1>3. to \in Int /\ StartTime \in Int
  BY KnownTimes
<1>4. CASE Build!StartTimeLine(ln)
  <2>1. /\ header /\ ln.kind = "start time" /\ from' = StartTime /\ to' = StartTime
        /\ UNCHANGED <<stage, header, steps, open, zone, oldZone, offset>>
    BY <1>4 DEF Build!StartTimeLine
  <2>2. steps = << >>
    <3>1. zone = Unset
      BY <2>1 DEF BuildInv, KnownInv
    <3>2. DOMAIN steps = {}
      BY <3>1 DEF BuildInv, KnownInv
    <3> QED BY <1>1, <3>2, SomeSteps
  <2>3. StartTime <= latest'
    BY <1>1, <2>1, ReadIs DEF BuildInv
  <2>4. KnownInv'
    BY <1>1, <1>2, <2>1, <2>3, KnownLine
  <2> QED BY <1>1, <2>1, <2>2, <2>4, SameSteps
<1>5. CASE Build!BadHeader(ln)
  <2>1. header' = FALSE /\ UNCHANGED <<stage, from, to, steps, open, zone, oldZone, offset>>
    BY <1>5 DEF Build!BadHeader
  <2>2. KnownInv'
    BY <1>1, <1>2, <2>1, KnownLine
  <2> QED BY <1>1, <2>1, <2>2, SameSteps
<1>6. CASE Build!HeaderLine(ln) \/ Build!OtherLine(ln)
  <2>1. UNCHANGED <<stage, header, from, to, steps, open, zone, oldZone, offset>>
    BY <1>6 DEF Build!HeaderLine, Build!OtherLine, Build!Steps
  <2>2. KnownInv'
    BY <1>1, <1>2, <2>1, KnownLine
  <2> QED BY <1>1, <2>1, <2>2, SameSteps
<1>7. CASE Build!BuilderFails(ln) \/ Build!HarnessFails(ln)
  <2>1. stage' = "raised" /\ UNCHANGED <<header, from, to, steps, open, zone, oldZone, offset>>
    BY <1>7 DEF Build!BuilderFails, Build!HarnessFails, Build!Raise
  <2>2. KnownInv'
    BY <1>1, <1>2, <2>1, KnownLine
  <2> QED BY <1>1, <2>1, <2>2, SameSteps
<1>8. CASE Build!BuilderStarts(ln) \/ Build!BuilderEnds(ln)
  <2>1. UNCHANGED stage
    BY <1>8 DEF Build!BuilderStarts, Build!BuilderEnds, Build!BuilderLine
  <2> QED BY <1>1, <1>8, <2>1, BuilderStepsAre
<1>9. CASE Build!BuilderSkips(ln)
  <2>1. header' = FALSE /\ UNCHANGED <<stage, from, to, open, zone, oldZone>>
    BY <1>9 DEF Build!BuilderSkips
  <2>2. StepsInv' /\ PlacesInv' /\ DOMAIN steps # {}
    BY <1>1, <1>9, SkippedSteps
  <2>3. KnownInv'
    BY <1>1, <1>2, <2>1, <2>2, KnownLine
  <2> QED BY <1>1, <2>1, <2>2, <2>3
<1>10. CASE Build!HarnessStarts(ln)
  <2>1. steps # << >> /\ UNCHANGED <<stage, header, from, zone, oldZone>>
    BY <1>10 DEF Build!HarnessStarts
  <2>2. StepsInv' /\ PlacesInv' /\ (to # Build!None => to' # Build!None)
    BY <1>1, <1>10, HarnessStepsAre
  <2>3. KnownInv'
    BY <1>1, <1>2, <2>1, <2>2, SomeSteps, KnownLine
  <2> QED BY <1>1, <2>1, <2>2, <2>3
<1>11. CASE Build!HarnessEnds(ln)
  <2>1. open[ln.step] # << >> /\ ln.kind = "ended" /\ UNCHANGED <<stage, header, from, zone, oldZone>>
    BY <1>11 DEF Build!HarnessEnds
  <2>2. StepsInv' /\ PlacesInv' /\ (to # Build!None => to' # Build!None)
    BY <1>1, <1>11, EndedChildren
  <2>3. DOMAIN steps # {}
    <3>1. ln.step \in OldHarnessSteps
      BY <2>1, LineSteps
    <3> QED BY <2>1, <3>1 DEF BuildInv, PlacesInv
  <2>4. KnownInv'
    BY <1>1, <1>2, <2>1, <2>2, <2>3, KnownLine
  <2> QED BY <1>1, <2>1, <2>2, <2>4
<1>12. CASE Build!OldHarnessStarts(ln)
  <2>1. steps # << >> /\ UNCHANGED <<stage, header, from, zone>>
    BY <1>12 DEF Build!OldHarnessStarts
  <2>2. StepsInv' /\ PlacesInv' /\ (to # Build!None => to' # Build!None)
        /\ (oldZone' # Unset => oldZone' % Hour = 0)
    BY <1>1, <1>12, OldHarnessStepsAre
  <2>3. KnownInv'
    BY <1>1, <1>2, <2>1, <2>2, SomeSteps, KnownLine
  <2> QED BY <1>1, <2>1, <2>2, <2>3
<1> QED BY <1>4, <1>5, <1>6, <1>7, <1>8, <1>9, <1>10, <1>11, <1>12 DEF Build!Line

(* fix_times of a build that is in order.                                  *)
LEMMA BuildFits ==
  ASSUME BuildInv, stage = "times", ~reversed, from # Build!None, zone \in {Unset, offset}
  PROVE  /\ ~Build!NoTimes(steps, from, to)
         /\ \A i \in DOMAIN steps :
              steps[i].children # << >> =>
                ~Build!NoTimes(steps[i].children, Build!FixTimes(steps, from, to)[i].start,
                               Build!FixTimes(steps, from, to)[i].end)
<1> DEFINE n == Len(steps)
<1>1. /\ steps \in Seq(BuildStep) /\ ChildrenInOrder(steps) /\ StepsInOrder(steps, from, latest)
  BY DEF BuildInv, StepsInv
<1>2. from \in Int /\ to \in Int /\ to # Build!None
  BY KnownTimes DEF BuildInv, KnownInv
<1>3. n \in Nat /\ DOMAIN steps = 1 .. n /\ \A i \in 1 .. n : /\ steps[i].start \in Int /\ steps[i].end \in Int
                                                           /\ steps[i].children \in Seq(BuildChild)
  BY <1>1, StepFacts
<1> HIDE DEF n
<1>4. \A i \in 1 .. n : steps[i].end # Build!None =>
        IF steps[i].start # Build!None THEN steps[i].start <= steps[i].end
        ELSE Build!Reached(steps, i, from) <= steps[i].end
  <2> SUFFICES ASSUME NEW i \in 1 .. n, steps[i].end # Build!None
               PROVE  steps[i].start <= steps[i].end /\ Build!Reached(steps, i, from) <= steps[i].end
    OBVIOUS
  <2>1. /\ from <= steps[i].end /\ steps[i].start <= steps[i].end
        /\ \A j \in 1 .. i - 1 : steps[j].start <= steps[i].end /\ steps[j].end <= steps[i].end
    BY <1>1, <1>3 DEF StepsInOrder
  <2>2. \A t \in Int : /\ from <= t
                       /\ \A j \in 1 .. i - 1 : steps[j].start <= t /\ steps[j].end <= t
                       => Build!Reached(steps, i, from) <= t
    BY <1>1, <1>2, <1>3, ReachedIs
  <2> QED BY <1>3, <2>1, <2>2
<1>5. /\ ~Build!NoTimes(steps, from, to)
      /\ \A i \in 1 .. n : /\ Build!FixTimes(steps, from, to)[i].start \in Int \ {Build!None}
                           /\ Build!FixTimes(steps, from, to)[i].end \in Int \ {Build!None}
  BY <1>1, <1>2, <1>3, <1>4, FixedSteps
<1>6. BuildChild \subseteq BuildStep
  <2>1. << >> \in Seq(BuildChild)
    BY EmptySeq
  <2>2. \A c \in [step : OldHarnessSteps, start : Int, end : Int, children : {<< >>}] :
          c \in [step : StepNames, start : Int, end : Int, children : Seq(BuildChild)]
    BY <2>1 DEF StepNames
  <2> QED BY <2>2 DEF BuildStep, BuildChild
<1>7. ASSUME NEW i \in 1 .. n, NEW a \in Int \ {Build!None}, NEW b \in Int \ {Build!None}
      PROVE  ~Build!NoTimes(steps[i].children, a, b)
  <2> DEFINE cs == steps[i].children
             m == Len(cs)
  <2>1. cs \in Seq(BuildChild)
    BY <1>3
  <2>2. \A j \in DOMAIN cs : cs[j].end # Build!None => cs[j].start # Build!None /\ cs[j].start <= cs[j].end
    BY <1>1, <1>3 DEF ChildrenInOrder
  <2> HIDE DEF cs
  <2>3. m \in Nat /\ DOMAIN cs = 1 .. m /\ \A j \in 1 .. m : cs[j] \in BuildChild
    BY <2>1
  <2>4. cs \in Seq(BuildStep)
    BY <1>6, <2>1, <2>3
  <2> HIDE DEF m
  <2>5. \A j \in 1 .. m : cs[j].end # Build!None =>
          IF cs[j].start # Build!None THEN cs[j].start <= cs[j].end
          ELSE Build!Reached(cs, j, a) <= cs[j].end
    BY <2>2, <2>3
  <2>6. ~Build!NoTimes(cs, a, b)
    BY <2>3, <2>4, <2>5, FixedSteps
  <2> QED BY <2>6 DEF cs
<1> QED BY <1>3, <1>5, <1>7

LEMMA DurationsStep ==
  ASSUME BuildInv, Build!Durations
  PROVE  KnownInv' /\ StepsInv' /\ PlacesInv' /\ Build!OrderedBuildIsTaken'
<1> DEFINE fixed == Build!FixTimes(steps, from, to)
           wrong == \/ Build!NoTimes(steps, from, to)
                    \/ \E i \in DOMAIN steps : /\ steps[i].children # << >>
                                               /\ Build!NoTimes(steps[i].children, fixed[i].start, fixed[i].end)
           taken == [i \in DOMAIN fixed |->
                       [fixed[i] EXCEPT !.children = Build!FixTimes(@, fixed[i].start, fixed[i].end)]]
<1>1. /\ stage = "times" /\ stage' = IF wrong THEN "refused" ELSE "done"
      /\ steps' = IF wrong THEN steps ELSE taken
      /\ UNCHANGED <<header, prev_bare, next_bare, from, to, open, zone, oldZone, offset, latest, reversed, read>>
  BY DEF Build!Durations
<1>2. DOMAIN taken = DOMAIN steps
  <2>1. DOMAIN fixed = DOMAIN steps
    BY DEF Build!FixTimes, Build!Ended, Build!Started
  <2> QED BY <2>1
<1>3. ~reversed /\ from # Build!None /\ zone \in {Unset, offset} => ~wrong
  BY <1>1, BuildFits
<1> HIDE DEF taken, wrong
<1>4. DOMAIN steps' = DOMAIN steps /\ stage' \in {"refused", "done"}
  BY <1>1, <1>2
<1>5. KnownInv'
  BY <1>1, <1>4 DEF BuildInv, KnownInv
<1>6. StepsInv'
  BY <1>4 DEF StepsInv
<1>7. PlacesInv'
  BY <1>1, <1>4 DEF BuildInv, PlacesInv
<1>8. Build!OrderedBuildIsTaken'
  BY <1>1, <1>3 DEF Build!OrderedBuildIsTaken
<1> QED BY <1>5, <1>6, <1>7, <1>8

LEMMA BuildStarts ==
  /\ Build!Init => BuildInv
  /\ Build!NextBuild => KnownInv' /\ StepsInv' /\ PlacesInv' /\ Build!OrderedBuildIsTaken'
<1> DEFINE noPlaces == [h \in OldHarnessSteps |-> << >>]
<1>1. << >> \in Seq(BuildStep) /\ DOMAIN << >> = {} /\ MaxRead \in Nat /\ 0 \in 0 .. MaxRead
  BY EmptySeq, LogsAssumption DEF Build!BuildLogAssumption
<1>2. DOMAIN noPlaces = OldHarnessSteps /\ \A h \in OldHarnessSteps : noPlaces[h] = << >>
  OBVIOUS
<1> HIDE DEF noPlaces
<1>3. ASSUME Build!Init PROVE BuildInv
  <2>1. /\ stage = "lines" /\ header = TRUE /\ prev_bare = FALSE /\ next_bare \in BOOLEAN
        /\ from = Build!None /\ steps = << >> /\ open = noPlaces /\ zone = Unset /\ oldZone = Unset
        /\ latest = Build!None /\ reversed = FALSE /\ read = 0
    BY <1>3 DEF Build!Init, noPlaces
  <2>2. KnownInv
    BY <1>1, <2>1 DEF KnownInv
  <2>3. StepsInv
    BY <1>1, <2>1 DEF StepsInv, ChildrenInOrder, StepsInOrder
  <2>4. PlacesInv
    BY <1>2, <2>1 DEF PlacesInv
  <2>5. ClockInv
    BY <1>3, ClocksStart
  <2> QED BY <2>1, <2>2, <2>3, <2>4, <2>5 DEF BuildInv, Build!OrderedBuildIsTaken
<1>4. ASSUME Build!NextBuild PROVE KnownInv' /\ StepsInv' /\ PlacesInv' /\ Build!OrderedBuildIsTaken'
  <2>1. /\ stage' = "lines" /\ header' = TRUE /\ prev_bare' = FALSE /\ next_bare' \in BOOLEAN
        /\ from' = Build!None /\ steps' = << >> /\ open' = noPlaces /\ zone' = Unset /\ oldZone' = Unset
        /\ latest' = Build!None /\ reversed' = FALSE /\ read' = 0
    BY <1>4 DEF Build!NextBuild, noPlaces
  <2>2. KnownInv'
    BY <1>1, <2>1 DEF KnownInv
  <2>3. StepsInv'
    BY <1>1, <2>1 DEF StepsInv, ChildrenInOrder, StepsInOrder
  <2>4. PlacesInv'
    BY <1>2, <2>1 DEF PlacesInv
  <2> QED BY <2>1, <2>2, <2>3, <2>4 DEF Build!OrderedBuildIsTaken
<1> QED BY <1>3, <1>4

LEMMA BuildInvStep ==
  ASSUME BuildInv, [Build!Next]_buildVars PROVE BuildInv'
<1>1. ClockInv'
  BY ClockStep DEF BuildInv
<1>2. CASE UNCHANGED buildVars
  <2>1. UNCHANGED <<stage, header, prev_bare, next_bare, from, to, steps, open, zone, oldZone,
                    offset, lag, oldLag, latest, reversed, read>>
    BY <1>2 DEF buildVars
  <2>2. KnownInv'
    BY <2>1 DEF BuildInv, KnownInv
  <2>3. StepsInv'
    BY <2>1 DEF BuildInv, StepsInv
  <2>4. PlacesInv'
    BY <2>1 DEF BuildInv, PlacesInv
  <2> QED BY <1>1, <2>1, <2>2, <2>3, <2>4 DEF BuildInv, Build!OrderedBuildIsTaken
<1>3. CASE Build!EndOfLog
  <2>1. /\ stage = "lines" /\ stage' = "times"
        /\ UNCHANGED <<header, prev_bare, next_bare, from, to, steps, open, zone, oldZone,
                       offset, latest, reversed, read>>
    BY <1>3 DEF Build!EndOfLog
  <2>2. KnownInv'
    BY <2>1 DEF BuildInv, KnownInv
  <2>3. StepsInv'
    BY <2>1 DEF BuildInv, StepsInv
  <2>4. PlacesInv'
    BY <2>1 DEF BuildInv, PlacesInv
  <2> QED BY <1>1, <2>1, <2>2, <2>3, <2>4 DEF BuildInv, Build!OrderedBuildIsTaken
<1>4. CASE Build!Durations
  BY <1>1, <1>4, DurationsStep DEF BuildInv
<1>5. CASE Build!NextBuild
  BY <1>1, <1>5, BuildStarts DEF BuildInv
<1>6. CASE \E ln \in Build!Lines : Build!Line(ln)
  BY <1>1, <1>6, LineStep DEF BuildInv, Build!OrderedBuildIsTaken
<1> QED BY <1>2, <1>3, <1>4, <1>5, <1>6 DEF Build!Next

LEMMA BuildIsInvariant == Build!Spec => []BuildInv
BY BuildStarts, BuildInvStep, PTL DEF Build!Spec, Build!logVars, buildVars

(* fix_times: the log of a build whose lines are in order, and whose       *)
(* builder's offset is guessed right, is taken, whatever starts and ends   *)
(* are missing and whatever the old mozharness' offset is taken for, if    *)
(* its header has a start time (text_log.py 342-443, 814-842).             *)
THEOREM BuildsInOrderAreTaken == Build!Spec => []Build!OrderedBuildIsTaken
<1>1. BuildInv => Build!OrderedBuildIsTaken
  BY DEF BuildInv
<1> QED BY <1>1, BuildIsInvariant, PTL

(* text_log.py: the types of the parser of the logs of builds; every step  *)
(* that is open is one of the log, and offsets are whole hours.            *)
THEOREM BuildTypes == Build!Spec => []Build!BuildLogTypeOK
<1>1. BuildInv => Build!BuildLogTypeOK
  BY DEF BuildInv, KnownInv, PlacesInv, ClockInv, BuilderIsRight, OldHarnessIsRight, Build!BuildLogTypeOK
<1> QED BY <1>1, BuildIsInvariant, PTL

-----------------------------------------------------------------------------
(* TestLog.  The rows of a test are those of its starts, and one more if   *)
(* its first line was not a start; a run keeps its `ok` only while every   *)
(* unexpected subtest comes behind its end.                                *)

SubtestRow == [name : Subtests, late : BOOLEAN]

TestRun ==
  [ok : BOOLEAN, status : BOOLEAN, crash : BOOLEAN, subtests : Seq(SubtestRow),
   missing_test_start : BOOLEAN, missing_test_end : BOOLEAN]

Earned(run) == run.ok => run.status /\ \A j \in DOMAIN run.subtests : run.subtests[j].late

EarnedRun == {run \in TestRun : Earned(run)}

RowInv ==
  /\ runs \in [Test!Names -> Seq(EarnedRun)]
  /\ starts \in [Test!Names -> Nat] /\ orphans \subseteq Test!Names
  /\ Test!OneRowPerRun

LEMMA FreshRun ==
  ASSUME NEW missing_start \in BOOLEAN PROVE Test!Run(missing_start) \in EarnedRun
<1>1. << >> \in Seq(SubtestRow)
  OBVIOUS
<1> QED
  BY <1>1 DEF Test!Run, EarnedRun, Earned, TestRun

LEMMA CurrentRun ==
  ASSUME RowInv, NEW x \in Test!Names PROVE Test!GetTest(x) \in EarnedRun
<1>1. Test!Run(TRUE) \in EarnedRun
  BY FreshRun, Zenon
<1>2. runs[x] \in Seq(EarnedRun)
  BY DEF RowInv
<1>3. runs[x] # << >> => runs[x][Len(runs[x])] \in EarnedRun
  BY <1>2
<1> QED
  BY <1>1, <1>3 DEF Test!GetTest, Test!Last

(* A line that is of the last run of its test.                             *)
LEMMA RunTakesLine ==
  ASSUME RowInv, NEW x \in Test!Names, NEW run \in EarnedRun,
         runs' = Test!WithLast(x, run), Test!Note(x), starts' = starts
  PROVE  RowInv'
<1> DEFINE s == runs[x]
           t == IF s = << >> THEN <<run>> ELSE Append(Test!Front(s), run)
<1>1. s \in Seq(EarnedRun) /\ runs \in [Test!Names -> Seq(EarnedRun)]
  BY DEF RowInv
<1>2. t \in Seq(EarnedRun) /\ Len(t) = IF s = << >> THEN 1 ELSE Len(s)
  <2>1. CASE s = << >>
    BY <2>1
  <2>2. CASE s # << >>
    <3>1. Len(s) \in Nat \ {0}
      BY <1>1, <2>2, EmptySeq
    <3>2. Test!Front(s) \in Seq(EarnedRun) /\ Len(Test!Front(s)) = Len(s) - 1
      <4>1. \A i \in 1 .. Len(s) - 1 : s[i] \in EarnedRun
        BY <1>1, <3>1
      <4>2. SubSeq(s, 1, Len(s) - 1) \in Seq(EarnedRun)
        BY <3>1, <4>1, SubSeqProperties
      <4>3. Len(SubSeq(s, 1, Len(s) - 1)) = IF 1 <= Len(s) - 1 THEN Len(s) - 1 - 1 + 1 ELSE 0
        BY <3>1, <4>1, SubSeqProperties
      <4> QED
        BY <3>1, <4>2, <4>3 DEF Test!Front
    <3> HIDE DEF s
    <3>3. /\ Append(Test!Front(s), run) \in Seq(EarnedRun)
          /\ Len(Append(Test!Front(s), run)) = Len(Test!Front(s)) + 1
      BY <3>2, AppendProperties
    <3> QED
      BY <2>2, <3>1, <3>2, <3>3
  <2> QED
    BY <2>1, <2>2
<1>3. runs' = [runs EXCEPT ![x] = t]
  BY DEF Test!WithLast
<1>4. orphans' = IF s = << >> THEN orphans \cup {x} ELSE orphans
  BY DEF Test!Note
<1>5. /\ starts \in [Test!Names -> Nat] /\ orphans \subseteq Test!Names
      /\ \A y \in Test!Names : Len(runs[y]) = starts[y] + (IF y \in orphans THEN 1 ELSE 0)
  BY DEF RowInv, Test!OneRowPerRun
<1>6. Len(s) = starts[x] + (IF x \in orphans THEN 1 ELSE 0) /\ (s = << >> => Len(s) = 0)
  BY <1>5
<1> HIDE DEF s, t
<1>7. /\ runs' \in [Test!Names -> Seq(EarnedRun)]
      /\ runs'[x] = t /\ \A y \in Test!Names \ {x} : runs'[y] = runs[y]
  BY <1>1, <1>2, <1>3
<1>8. ASSUME NEW y \in Test!Names
      PROVE  Len(runs'[y]) = starts'[y] + (IF y \in orphans' THEN 1 ELSE 0)
  <2>1. CASE y = x
    <3>1. starts[x] \in Nat /\ starts' = starts
      BY <1>5
    <3>2. CASE s = << >>
      <4>1. Len(runs'[x]) = 1 /\ starts[x] = 0 /\ x \in orphans'
        BY <3>1, <3>2, <1>2, <1>4, <1>6, <1>7
      <4> QED
        BY <2>1, <3>1, <4>1
    <3>3. CASE s # << >>
      BY <2>1, <3>1, <3>3, <1>2, <1>4, <1>6, <1>7
    <3> QED
      BY <3>2, <3>3
  <2>2. CASE y # x
    BY <2>2, <1>4, <1>5, <1>7
  <2> QED
    BY <2>1, <2>2
<1> QED
  BY <1>4, <1>5, <1>7, <1>8 DEF RowInv, Test!OneRowPerRun

LEMMA TestStarts ==
  ASSUME RowInv, NEW x \in Tests, Test!TestStart(x) PROVE RowInv'
<1>1. x \in Test!Names /\ Test!Run(FALSE) \in EarnedRun
  BY FreshRun DEF Test!Names
<1>2. /\ runs' = [runs EXCEPT ![x] = Append(@, Test!Run(FALSE))]
      /\ starts' = [starts EXCEPT ![x] = @ + 1] /\ orphans' = orphans
  BY DEF Test!TestStart
<1>3. /\ Append(runs[x], Test!Run(FALSE)) \in Seq(EarnedRun)
      /\ Len(Append(runs[x], Test!Run(FALSE))) = Len(runs[x]) + 1
  <2> DEFINE s == runs[x]
             e == Test!Run(FALSE)
  <2>1. s \in Seq(EarnedRun) /\ e \in EarnedRun
    BY <1>1, Zenon DEF RowInv
  <2> HIDE DEF s, e
  <2>2. Append(s, e) \in Seq(EarnedRun) /\ Len(Append(s, e)) = Len(s) + 1
    BY <2>1, AppendProperties
  <2> QED
    BY <2>2 DEF s, e
<1>4. /\ runs' \in [Test!Names -> Seq(EarnedRun)]
      /\ Len(runs'[x]) = Len(runs[x]) + 1
      /\ \A y \in Test!Names \ {x} : runs'[y] = runs[y]
  BY <1>1, <1>2, <1>3 DEF RowInv
<1>5. /\ starts' \in [Test!Names -> Nat] /\ starts'[x] = starts[x] + 1
      /\ \A y \in Test!Names \ {x} : starts'[y] = starts[y]
  BY <1>1, <1>2 DEF RowInv
<1>6. \A y \in Test!Names :
        starts[y] \in Nat /\ Len(runs[y]) = starts[y] + (IF y \in orphans THEN 1 ELSE 0)
  BY DEF RowInv, Test!OneRowPerRun
<1>7. ASSUME NEW y \in Test!Names
      PROVE  Len(runs'[y]) = starts'[y] + (IF y \in orphans THEN 1 ELSE 0)
  <2>1. CASE y = x
    <3>1. /\ starts[x] \in Nat
          /\ Len(runs[x]) = starts[x] + (IF x \in orphans THEN 1 ELSE 0)
          /\ Len(runs'[x]) = Len(runs[x]) + 1 /\ starts'[x] = starts[x] + 1
      BY <1>1, <1>4, <1>5, <1>6
    <3> QED
      BY <2>1, <3>1
  <2>2. CASE y # x
    BY <2>2, <1>4, <1>5, <1>6, Zenon
  <2> QED
    BY <2>1, <2>2
<1> QED
  BY <1>2, <1>4, <1>5, <1>7 DEF RowInv, Test!OneRowPerRun

(* An unexpected subtest costs the run its `ok` if it comes before the     *)
(* end, and a run that is ok has ended.                                    *)
LEMMA SubtestIsEarned ==
  ASSUME NEW run \in EarnedRun, NEW subtest \in Subtests
  PROVE  [run EXCEPT !.subtests = Append(@, [name |-> subtest, late |-> run.status])]
           \in EarnedRun
<1> DEFINE row == [name |-> subtest, late |-> run.status]
           new == Append(run.subtests, row)
           next == [run EXCEPT !.subtests = new]
<1>1. run \in TestRun /\ row \in SubtestRow /\ run.subtests \in Seq(SubtestRow)
  BY DEF EarnedRun, TestRun, SubtestRow
<1>2. new \in Seq(SubtestRow) /\ DOMAIN new = 1 .. Len(run.subtests) + 1
  BY <1>1, AppendProperties
<1>3. next \in TestRun /\ next.ok = run.ok /\ next.status = run.status /\ next.subtests = new
  BY <1>1, <1>2 DEF TestRun
<1>4. ASSUME run.ok, NEW j \in DOMAIN new PROVE run.status /\ new[j].late
  <2>1. run.status /\ \A i \in DOMAIN run.subtests : run.subtests[i].late
    BY <1>4 DEF EarnedRun, Earned
  <2>2. CASE j \in 1 .. Len(run.subtests)
    <3>1. new[j] = run.subtests[j] /\ j \in DOMAIN run.subtests
      BY <2>2, <1>1, AppendProperties
    <3> QED
      BY <2>1, <3>1
  <2>3. CASE j = Len(run.subtests) + 1
    <3>1. new[j] = row
      BY <2>3, <1>1, AppendProperties
    <3> QED
      BY <2>1, <3>1
  <2> QED
    BY <1>1, <1>2, <2>2, <2>3
<1>5. run.ok => run.status
  BY DEF EarnedRun, Earned
<1> QED
  BY <1>3, <1>4, <1>5 DEF EarnedRun, Earned

LEMMA JudgedIsEarned ==
  ASSUME NEW run \in EarnedRun PROVE Test!Judged(run) \in EarnedRun
BY DEF Test!Judged, EarnedRun, Earned, TestRun

LEMMA RowsJudged ==
  ASSUME RowInv, Test!Summary PROVE RowInv'
<1>1. runs' = [x \in Test!Names |-> [i \in DOMAIN runs[x] |-> Test!Judged(runs[x][i])]]
  BY DEF Test!Summary
<1>2. starts' = starts /\ orphans' = orphans
  BY DEF Test!Summary, Test!Ends
<1>3. ASSUME NEW x \in Test!Names
      PROVE  runs'[x] \in Seq(EarnedRun) /\ Len(runs'[x]) = Len(runs[x])
  <2>1. runs[x] \in Seq(EarnedRun)
    BY DEF RowInv
  <2>2. \A i \in DOMAIN runs[x] : Test!Judged(runs[x][i]) \in EarnedRun
    BY <2>1, JudgedIsEarned
  <2>3. runs'[x] = [i \in 1 .. Len(runs[x]) |-> Test!Judged(runs[x][i])]
    BY <1>1, <2>1
  <2> QED
    BY <2>1, <2>2, <2>3
<1>4. runs' \in [Test!Names -> Seq(EarnedRun)]
  BY <1>1, <1>3
<1>5. /\ starts \in [Test!Names -> Nat] /\ orphans \subseteq Test!Names
      /\ \A y \in Test!Names : Len(runs[y]) = starts[y] + (IF y \in orphans THEN 1 ELSE 0)
  BY DEF RowInv, Test!OneRowPerRun
<1> QED
  BY <1>2, <1>3, <1>4, <1>5 DEF RowInv, Test!OneRowPerRun

(* The beginning of a log, and of the next one.                            *)
LEMMA NoRowsYet ==
  /\ Test!Init => RowInv
  /\ Test!NextFile => RowInv'
<1>1. << >> \in Seq(EarnedRun)
  OBVIOUS
<1>2. [x \in Test!Names |-> << >>] \in [Test!Names -> Seq(EarnedRun)]
  BY <1>1
<1> QED
  <2>1. Len(<< >>) = 0 /\ \A x : x \notin {}
    BY EmptySeq
  <2>2. \A x \in Test!Names :
          /\ [y \in Test!Names |-> << >>][x] = << >>
          /\ Len(<< >>) = [y \in Test!Names |-> 0][x] + (IF x \in {} THEN 1 ELSE 0)
    BY <2>1
  <2>3. [x \in Test!Names |-> 0] \in [Test!Names -> Nat]
    OBVIOUS
  <2>4. Test!Init => RowInv
    BY <1>2, <2>2, <2>3 DEF Test!Init, RowInv, Test!OneRowPerRun
  <2>5. Test!NextFile => RowInv'
    BY <1>2, <2>2, <2>3 DEF Test!NextFile, RowInv, Test!OneRowPerRun
  <2> QED
    BY <2>4, <2>5

LEMMA RowStep ==
  ASSUME RowInv, [Test!Next]_testVars PROVE RowInv'
<1>1. ASSUME NEW x \in Tests, Test!TestStart(x) PROVE RowInv'
  BY <1>1, TestStarts
<1>2. ASSUME NEW x \in Tests, Test!LogOfTest(x) PROVE RowInv'
  <2>1. x \in Test!Names
    BY DEF Test!Names
  <2> QED
    BY <1>2, <2>1, CurrentRun, RunTakesLine DEF Test!LogOfTest
<1>3. ASSUME NEW x \in Tests, NEW subtest \in Subtests, NEW expected \in BOOLEAN,
             Test!TestStatus(x, subtest, expected)
      PROVE  RowInv'
  <2> DEFINE run == Test!GetTest(x)
             next == IF \/ expected
                        \/ run.subtests # << >> /\ Test!Last(run.subtests).name = subtest
                     THEN run
                     ELSE [run EXCEPT !.subtests =
                             Append(@, [name |-> subtest, late |-> run.status])]
  <2>1. x \in Test!Names
    BY DEF Test!Names
  <2>2. next \in EarnedRun
    BY <2>1, CurrentRun, SubtestIsEarned
  <2>3. runs' = Test!WithLast(x, next) /\ Test!Note(x) /\ starts' = starts
    BY <1>3 DEF Test!TestStatus
  <2> HIDE DEF next
  <2> QED
    BY <2>1, <2>2, <2>3, RunTakesLine
<1>4. ASSUME NEW x \in Tests, NEW expected \in BOOLEAN, Test!TestEnd(x, expected)
      PROVE  RowInv'
  <2> DEFINE run == Test!GetTest(x)
             next == [run EXCEPT !.ok = expected /\ run.subtests = << >>, !.status = TRUE]
  <2>1. x \in Test!Names
    BY DEF Test!Names
  <2>2. run \in EarnedRun
    BY <2>1, CurrentRun
  <2>3. next \in EarnedRun
    <3> DEFINE passed == expected /\ run.subtests = << >>
    <3>1. run \in TestRun /\ passed \in BOOLEAN
      BY <2>2 DEF EarnedRun
    <3> HIDE DEF run
    <3>2. next \in TestRun /\ next.ok = passed /\ next.status = TRUE
          /\ next.subtests = run.subtests
      <4> HIDE DEF passed
      <4>1. [run EXCEPT !.ok = passed, !.status = TRUE] \in TestRun
        BY <3>1 DEF TestRun
      <4>2. /\ [run EXCEPT !.ok = passed, !.status = TRUE].ok = passed
            /\ [run EXCEPT !.ok = passed, !.status = TRUE].status = TRUE
            /\ [run EXCEPT !.ok = passed, !.status = TRUE].subtests = run.subtests
        BY <3>1 DEF TestRun
      <4> QED
        BY <4>1, <4>2 DEF passed
    <3>3. next.ok => DOMAIN next.subtests = {}
      <4>1. DOMAIN << >> = {}
        OBVIOUS
      <4> HIDE DEF next
      <4> QED
        BY <3>2, <4>1
    <3> QED
      BY <3>2, <3>3 DEF EarnedRun, Earned
  <2>4. runs' = Test!WithLast(x, next) /\ Test!Note(x) /\ starts' = starts
    BY <1>4 DEF Test!TestEnd
  <2> HIDE DEF next
  <2> QED
    BY <2>1, <2>3, <2>4, RunTakesLine
<1>5. ASSUME NEW x \in Test!Names, NEW status \in BOOLEAN, Test!Crash(x, status)
      PROVE  RowInv'
  <2> DEFINE run == Test!GetTest(x)
             next == [run EXCEPT !.ok = FALSE, !.crash = TRUE, !.status = status,
                                 !.missing_test_end = TRUE]
  <2>1. run \in EarnedRun
    BY CurrentRun
  <2>2. next \in EarnedRun
    BY <2>1 DEF EarnedRun, Earned, TestRun
  <2>3. runs' = Test!WithLast(x, next) /\ Test!Note(x) /\ starts' = starts
    BY <1>5 DEF Test!Crash
  <2> HIDE DEF next
  <2> QED
    BY <2>2, <2>3, RunTakesLine
<1>6. CASE UNCHANGED <<runs, starts, orphans>>
  BY <1>6 DEF RowInv, Test!OneRowPerRun
<1>7. CASE Test!OtherAction \/ Test!BadLine \/ Test!RaisingLine \/ UNCHANGED testVars
  BY <1>6, <1>7 DEF Test!OtherAction, Test!BadLine, Test!RaisingLine, testVars
<1>8. CASE Test!ErrorPage \/ Test!Interrupted \/ Test!Incomplete
  BY <1>6, <1>8 DEF Test!ErrorPage, Test!Interrupted, Test!Incomplete, Test!Ends
<1>9. CASE Test!Summary
  BY <1>9, RowsJudged
<1>10. CASE Test!NextFile
  BY <1>10, NoRowsYet
<1> QED
  BY <1>1, <1>2, <1>3, <1>4, <1>5, <1>7, <1>8, <1>9, <1>10 DEF Test!Next

LEMMA RowIsInvariant == Test!Spec => []RowInv
<1>1. Test!Init => RowInv
  BY NoRowsYet
<1>2. RowInv /\ [Test!Next]_testVars => RowInv'
  BY RowStep
<1> QED
  BY <1>1, <1>2, PTL DEF Test!Spec, Test!testVars, testVars

(* process_unittest: however the lines of tests are interleaved, broken    *)
(* or missing, every start of a test has a row of its own, and a row that  *)
(* says ok has a status and no subtest that went wrong before its end      *)
(* (unittest_logs_to_sink.py 197-372).                                     *)
THEOREM RowsOfTestsAreTrue == Test!Spec => []TestRowsAreTrue
<1>1. RowInv => TestRowsAreTrue
  <2> SUFFICES ASSUME RowInv, NEW x \in Test!Names, NEW i \in DOMAIN runs[x], runs[x][i].ok
               PROVE  /\ runs[x][i].status
                      /\ \A j \in DOMAIN runs[x][i].subtests : runs[x][i].subtests[j].late
    BY DEF TestRowsAreTrue, RowInv, Test!OkIsEarned
  <2>1. runs[x] \in Seq(EarnedRun)
    BY DEF RowInv
  <2>2. runs[x][i] \in EarnedRun
    BY <2>1
  <2> QED
    BY <2>2 DEF EarnedRun, Earned
<1> QED
  BY <1>1, RowIsInvariant, PTL

FileInv ==
  /\ parse \in {"lines", "rows", "null", "again", "failed"}
  /\ json \in BOOLEAN
  /\ length \in 0 .. MaxLines /\ bad_lines \in 0 .. length

LEMMA FileStarts ==
  /\ Test!Init => FileInv
  /\ Test!NextFile => FileInv'
<1>1. MaxLines \in Nat
  BY LogsAssumption DEF Task!TaskLogAssumption
<1>2. 0 \in 0 .. MaxLines /\ 0 \in 0 .. 0
  BY <1>1
<1>3. Test!Init => FileInv
  BY <1>2 DEF Test!Init, FileInv
<1> QED
  BY <1>2, <1>3 DEF Test!NextFile, FileInv

(* A line is counted, and may be counted as a bad one.                     *)
LEMMA FileTakesLine ==
  ASSUME FileInv, Test!Line, json' \in BOOLEAN, parse' = parse,
         bad_lines' = bad_lines \/ bad_lines' = bad_lines + 1
  PROVE  FileInv'
<1>1. MaxLines \in Nat
  BY LogsAssumption DEF Task!TaskLogAssumption
<1>2. length' = length + 1 /\ length < MaxLines
  BY DEF Test!Line
<1>3. length' \in 0 .. MaxLines /\ bad_lines' \in 0 .. length'
  BY <1>1, <1>2 DEF FileInv
<1> QED
  BY <1>3 DEF FileInv

LEMMA LogFileStep ==
  ASSUME FileInv, [Test!Next]_testVars PROVE FileInv'
<1>1. ASSUME Test!JsonLine PROVE FileInv'
  BY <1>1, FileTakesLine DEF Test!JsonLine
<1>2. CASE Test!BadLine \/ Test!RaisingLine
  <2>1. Test!Line /\ parse' = parse /\ bad_lines' = bad_lines + 1
    BY <1>2 DEF Test!BadLine, Test!RaisingLine
  <2>2. json' \in BOOLEAN
    BY <1>2 DEF Test!BadLine, Test!RaisingLine
  <2> QED
    BY <2>1, <2>2, FileTakesLine
<1>3. ASSUME NEW how \in {"rows", "null", "again", "failed"}, Test!Ends(how) PROVE FileInv'
  BY <1>3 DEF Test!Ends, FileInv
<1>4. CASE Test!Summary \/ Test!Incomplete \/ Test!ErrorPage \/ Test!Interrupted
  BY <1>3, <1>4 DEF Test!Summary, Test!Incomplete, Test!ErrorPage, Test!Interrupted
<1>5. CASE Test!NextFile
  BY <1>5, FileStarts
<1>6. CASE UNCHANGED testVars
  BY <1>6 DEF FileInv, testVars
<1>7. ASSUME NEW x \in Test!Names,
             \/ Test!TestStart(x) \/ Test!LogOfTest(x)
             \/ \E subtest \in Subtests, expected \in BOOLEAN :
                  Test!TestStatus(x, subtest, expected)
             \/ \E expected \in BOOLEAN : Test!TestEnd(x, expected)
             \/ \E status \in BOOLEAN : Test!Crash(x, status)
      PROVE  FileInv'
  <2>1. Test!JsonLine
    BY <1>7 DEF Test!TestStart, Test!LogOfTest, Test!TestStatus, Test!TestEnd, Test!Crash
  <2> QED
    BY <2>1, <1>1
<1>8. CASE Test!OtherAction
  BY <1>8, <1>1 DEF Test!OtherAction
<1>9. Tests \subseteq Test!Names
  BY DEF Test!Names
<1> QED
  BY <1>2, <1>4, <1>5, <1>6, <1>7, <1>8, <1>9 DEF Test!Next

LEMMA FileIsInvariant == Test!Spec => []FileInv
<1>1. Test!Init => FileInv
  BY FileStarts
<1>2. FileInv /\ [Test!Next]_testVars => FileInv'
  BY LogFileStep
<1> QED
  BY <1>1, <1>2, PTL DEF Test!Spec, Test!testVars, testVars

(* LogSummary and accumulate_logs: the types of the parser of the logs of  *)
(* tests; it never counts more bad lines than there are.                   *)
THEOREM TestTypes == Test!Spec => []Test!TestLogTypeOK
<1>1. ASSUME RowInv, NEW x \in Test!Names, NEW i \in DOMAIN runs[x]
      PROVE  /\ {runs[x][i].ok, runs[x][i].status, runs[x][i].crash} \subseteq BOOLEAN
             /\ \A j \in DOMAIN runs[x][i].subtests : runs[x][i].subtests[j].name \in Subtests
  <2>1. runs[x] \in Seq(EarnedRun)
    BY <1>1 DEF RowInv
  <2>2. runs[x][i] \in TestRun
    BY <2>1 DEF EarnedRun
  <2> DEFINE run == runs[x][i]
  <2>3. run.subtests \in Seq(SubtestRow) /\ {run.ok, run.status, run.crash} \subseteq BOOLEAN
    BY <2>2 DEF TestRun
  <2>4. \A j \in DOMAIN run.subtests : run.subtests[j] \in SubtestRow
    BY <2>3
  <2> QED
    BY <2>3, <2>4 DEF SubtestRow
<1>2. RowInv /\ FileInv => Test!TestLogTypeOK
  BY <1>1 DEF FileInv, Test!TestLogTypeOK
<1> QED
  BY <1>2, RowIsInvariant, FileIsInvariant, PTL

-----------------------------------------------------------------------------
(* TaskLog.  Cutting a step that holds the next one leaves its first part, *)
(* the step it holds, and its last part: together they have every moment   *)
(* it had.                                                                 *)

TimedStep ==
  {x \in [step : Prefixed \cup {Mozharness}, start : Nat, end : Nat, children : {<< >>}] :
     x.start <= x.end}

Within(ts, t) == \E i \in DOMAIN ts : ts[i].start <= t /\ t <= ts[i].end

SpansInv ==
  /\ timings \in Seq(TimedStep) /\ spans \in Seq(TimedStep)
  /\ phase # "lines" => \A t \in Nat : Within(spans, t) => Within(timings, t)

LEMMA MinIsLeast ==
  ASSUME NEW F, F \subseteq Nat, F # {}
  PROVE  Task!Min(F) \in F /\ \A j \in F : Task!Min(F) <= j
BY LeastOf DEF Task!Min

LEMMA MaxOfTwo ==
  ASSUME NEW a \in Nat \cup {Task!None}, NEW b \in Nat
  PROVE  /\ Task!MAX({a, b}) \in {a, b} /\ Task!MAX({a, b}) \in Nat
         /\ a <= Task!MAX({a, b}) /\ b <= Task!MAX({a, b})
<1> DEFINE S == {a, b} \ {Task!None}
<1>1. Task!MAX({a, b}) = Task!Max(S) /\ b \in S /\ S \subseteq {a, b} /\ S \subseteq Nat
  BY DEF Task!MAX, Task!None
<1>2. \E x \in S : \A y \in S : x >= y
  <2>1. \A x, y \in Nat : x >= y \/ y >= x
    OBVIOUS
  <2>2. CASE S = {b}
    BY <2>2
  <2>3. CASE S # {b}
    <3>1. S = {a, b} /\ a \in Nat
      BY <1>1, <2>3
    <3> HIDE DEF S
    <3> QED BY <2>1, <3>1
  <2> QED BY <2>2, <2>3
<1>3. Task!Max(S) \in S /\ \A y \in S : Task!Max(S) >= y
  BY <1>2 DEF Task!Max
<1>4. (a \in S \/ a = -1) /\ (a \in Nat \/ a = -1)
  BY DEF Task!None
<1> HIDE DEF S
<1>5. \A x \in Nat : -1 <= x
  OBVIOUS
<1>6. Task!MAX({a, b}) \in S /\ Task!MAX({a, b}) \in Nat /\ Task!MAX({a, b}) \in {a, b}
  BY <1>1, <1>3
<1>7. b <= Task!MAX({a, b})
  BY <1>1, <1>3, <1>6
<1>8. a <= Task!MAX({a, b})
  BY <1>1, <1>3, <1>4, <1>5, <1>6
<1> QED
  BY <1>6, <1>7, <1>8

LEMMA MinOfTwo ==
  ASSUME NEW a \in Nat \cup {Task!None}, NEW b \in Nat
  PROVE  /\ Task!MIN({a, b}) \in {a, b} /\ Task!MIN({a, b}) \in Nat
         /\ Task!MIN({a, b}) <= b /\ (a # Task!None => Task!MIN({a, b}) <= a)
<1> DEFINE S == {a, b} \ {Task!None}
<1>1. Task!MIN({a, b}) = Task!Min(S) /\ b \in S /\ S \subseteq {a, b} /\ S \subseteq Nat
  BY DEF Task!MIN, Task!None
<1>2. Task!Min(S) \in S /\ \A y \in S : Task!Min(S) <= y
  BY <1>1, MinIsLeast
<1>3. a \in S \/ a = Task!None
  OBVIOUS
<1> HIDE DEF S
<1> QED
  BY <1>1, <1>2, <1>3

LEMMA TouchedSteps ==
  ASSUME NEW ts \in Seq(TimedStep), NEW s \in Prefixed \cup {Mozharness}, NEW t \in Nat
  PROVE  Task!Touch(ts, s, t) \in Seq(TimedStep)
<1> DEFINE same == {j \in 1 .. Len(ts) : ts[j].step = s}
           i == Task!Position(ts, s)
<1>1. i = IF same # {} THEN Task!Min(same) ELSE 0
  BY DEF Task!Position, Task!SelectInSeq
<1>2. same \subseteq Nat
  OBVIOUS
<1>3. i \in 1 .. Len(ts) \/ i = 0
  BY <1>1, <1>2, MinIsLeast
<1>4. Task!Fresh(s, t, t) \in TimedStep
  BY DEF Task!Fresh, TimedStep
<1>5. Append(ts, Task!Fresh(s, t, t)) \in Seq(TimedStep)
  BY <1>4
<1>6. ASSUME i # 0
      PROVE  [ts EXCEPT ![i].start = Task!MIN({@, t}), ![i].end = Task!MAX({@, t})]
               \in Seq(TimedStep)
  <2> HIDE DEF i
  <2>1. i \in 1 .. Len(ts)
    BY <1>3, <1>6
  <2>2. ts[i] \in TimedStep
    BY <2>1
  <2>3. /\ Task!MIN({ts[i].start, t}) \in Nat /\ Task!MAX({ts[i].end, t}) \in Nat
        /\ Task!MIN({ts[i].start, t}) <= Task!MAX({ts[i].end, t})
    <3>1. ts[i].start \in Nat /\ ts[i].end \in Nat
      BY <2>2 DEF TimedStep
    <3>2. Task!MIN({ts[i].start, t}) \in Nat /\ Task!MIN({ts[i].start, t}) <= t
      BY <3>1, MinOfTwo
    <3>3. Task!MAX({ts[i].end, t}) \in Nat /\ t <= Task!MAX({ts[i].end, t})
      BY <3>1, MaxOfTwo
    <3> QED BY <3>2, <3>3
  <2>4. [ts[i] EXCEPT !.start = Task!MIN({ts[i].start, t}), !.end = Task!MAX({ts[i].end, t})]
          \in TimedStep
    BY <2>2, <2>3 DEF TimedStep
  <2>5. [ts EXCEPT ![i].start = Task!MIN({@, t}), ![i].end = Task!MAX({@, t})]
        = [ts EXCEPT ![i] =
             [ts[i] EXCEPT !.start = Task!MIN({ts[i].start, t}),
                           !.end = Task!MAX({ts[i].end, t})]]
    BY <2>1
  <2>6. \A x \in TimedStep : [ts EXCEPT ![i] = x] \in Seq(TimedStep)
    BY <2>1
  <2> QED
    BY <2>4, <2>5, <2>6
<1> QED
  BY <1>5, <1>6 DEF Task!Touch

LEMMA InsertIs ==
  ASSUME NEW S, NEW s \in Seq(S), NEW p \in 1 .. Len(s) + 1, NEW e \in S
  PROVE  /\ Task!InsertAt(s, p, e) \in Seq(S) /\ Len(Task!InsertAt(s, p, e)) = Len(s) + 1
         /\ Task!InsertAt(s, p, e)[p] = e
         /\ \A i \in 1 .. Len(s) : i < p => Task!InsertAt(s, p, e)[i] = s[i]
         /\ \A i \in 1 .. Len(s) : i >= p => Task!InsertAt(s, p, e)[i + 1] = s[i]
<1> DEFINE a == SubSeq(s, 1, p - 1)
           b == SubSeq(s, p, Len(s))
           ae == a \o <<e>>
           aeb == ae \o b
<1>1. Len(s) \in Nat /\ p \in Nat \ {0} /\ \A i \in 1 .. Len(s) : s[i] \in S
  OBVIOUS
<1>2. a \in Seq(S) /\ Len(a) = p - 1 /\ \A i \in 1 .. p - 1 : a[i] = s[i]
  <2>1. \A i \in 1 .. p - 1 : s[i] \in S
    BY <1>1
  <2>2. /\ a \in Seq(S) /\ Len(a) = IF 1 <= p - 1 THEN p - 1 - 1 + 1 ELSE 0
        /\ \A i \in 1 .. p - 1 - 1 + 1 : a[i] = s[1 + i - 1]
    BY <1>1, <2>1, SubSeqProperties
  <2>3. /\ (IF 1 <= p - 1 THEN p - 1 - 1 + 1 ELSE 0) = p - 1 /\ p - 1 - 1 + 1 = p - 1
        /\ \A i \in 1 .. p - 1 : 1 + i - 1 = i
    BY <1>1
  <2> HIDE DEF a
  <2> QED
    BY <2>2, <2>3
<1>3. /\ b \in Seq(S) /\ Len(b) = Len(s) - p + 1
      /\ \A i \in 1 .. Len(s) - p + 1 : b[i] = s[p + i - 1]
  <2>1. \A i \in p .. Len(s) : s[i] \in S
    BY <1>1
  <2>2. /\ b \in Seq(S) /\ Len(b) = IF p <= Len(s) THEN Len(s) - p + 1 ELSE 0
        /\ \A i \in 1 .. Len(s) - p + 1 : b[i] = s[p + i - 1]
    BY <1>1, <2>1, SubSeqProperties
  <2>3. (IF p <= Len(s) THEN Len(s) - p + 1 ELSE 0) = Len(s) - p + 1
    BY <1>1
  <2> HIDE DEF b
  <2> QED
    BY <2>2, <2>3
<1> HIDE DEF a, b
<1>4. <<e>> \in Seq(S) /\ Len(<<e>>) = 1 /\ <<e>>[1] = e
  OBVIOUS
<1>5. /\ ae \in Seq(S) /\ Len(ae) = p
      /\ \A i \in 1 .. p : ae[i] = IF i <= p - 1 THEN a[i] ELSE <<e>>[i - (p - 1)]
  <2>1. /\ ae \in Seq(S) /\ Len(ae) = Len(a) + Len(<<e>>)
        /\ \A i \in 1 .. Len(a) + Len(<<e>>) :
             ae[i] = IF i <= Len(a) THEN a[i] ELSE <<e>>[i - Len(a)]
    BY <1>2, <1>4, ConcatProperties
  <2>2. Len(a) = p - 1 /\ Len(<<e>>) = 1 /\ p - 1 + 1 = p
    BY <1>1, <1>2, <1>4
  <2> HIDE DEF ae
  <2> QED
    BY <2>1, <2>2
<1> HIDE DEF ae
<1>6. /\ aeb \in Seq(S) /\ Len(aeb) = Len(s) + 1
      /\ \A i \in 1 .. Len(s) + 1 : aeb[i] = IF i <= p THEN ae[i] ELSE b[i - p]
  <2>1. /\ aeb \in Seq(S) /\ Len(aeb) = Len(ae) + Len(b)
        /\ \A i \in 1 .. Len(ae) + Len(b) :
             aeb[i] = IF i <= Len(ae) THEN ae[i] ELSE b[i - Len(ae)]
    BY <1>3, <1>5, ConcatProperties
  <2> HIDE DEF aeb
  <2> QED
    BY <1>1, <1>3, <1>5, <2>1
<1>7. Task!InsertAt(s, p, e) = aeb
  BY DEF Task!InsertAt, aeb, ae, a, b
<1> HIDE DEF aeb
<1>8. DOMAIN aeb = 1 .. Len(s) + 1 /\ DOMAIN s = 1 .. Len(s)
  BY <1>6
<1>9. p \in DOMAIN aeb /\ aeb[p] = e
  <2>1. aeb[p] = ae[p] /\ p \in DOMAIN aeb
    BY <1>1, <1>6, <1>8
  <2>2. ae[p] = <<e>>[p - (p - 1)] /\ p - (p - 1) = 1
    BY <1>1, <1>5
  <2> QED
    BY <2>1, <2>2, <1>4
<1>10. ASSUME NEW i \in 1 .. Len(s), i < p PROVE aeb[i] = s[i]
  BY <1>10, <1>1, <1>2, <1>5, <1>6
<1>11. ASSUME NEW i \in 1 .. Len(s), i >= p PROVE aeb[i + 1] = s[i]
  <2>1. aeb[i + 1] = b[i + 1 - p]
    <3>1. i + 1 \in 1 .. Len(s) + 1 /\ ~(i + 1 <= p)
      BY <1>11, <1>1
    <3>2. aeb[i + 1] = IF i + 1 <= p THEN ae[i + 1] ELSE b[i + 1 - p]
      BY <3>1, <1>6
    <3> QED
      BY <3>1, <3>2
  <2>2. b[i + 1 - p] = s[p + (i + 1 - p) - 1] /\ p + (i + 1 - p) - 1 = i
    BY <1>11, <1>1, <1>3
  <2> QED
    BY <2>1, <2>2
<1> QED
  BY <1>6, <1>7, <1>9, <1>10, <1>11

(* Step i, which holds the next one, is left with its first part, and its  *)
(* last part goes to place p; where the steps of the new list come from.   *)
CutTo(ts, new, i, p) ==
  /\ i \in 1 .. Len(ts) - 1 /\ p \in i + 2 .. Len(ts) + 1 /\ Task!Holds(ts[i], ts[i + 1])
  /\ new \in Seq(TimedStep) /\ Len(new) = Len(ts) + 1
  /\ new[i].start = ts[i].start /\ new[i].end = ts[i + 1].start
  /\ new[p].start = ts[i + 1].end /\ new[p].end = ts[i].end
  /\ \A k \in 1 .. Len(ts) \ {i} : k < p => new[k] = ts[k]
  /\ \A k \in 1 .. Len(ts) : k >= p => new[k + 1] = ts[k]

LEMMA CutIs ==
  ASSUME NEW ts \in Seq(TimedStep), Task!Holders(ts) # {}
  PROVE  \E i, p : CutTo(ts, Task!Cut(ts), i, p)
<1> DEFINE i == Task!Min(Task!Holders(ts))
           post == [ts[i] EXCEPT !.start = ts[i + 1].end]
           later == {j \in i + 2 .. Len(ts) : post.start <= ts[j].start}
           place == IF later = {} THEN Len(ts) + 1 ELSE Task!Min(later)
           short == [ts EXCEPT ![i].end = ts[i + 1].start]
<1>1. i \in 1 .. Len(ts) - 1 /\ Task!Holds(ts[i], ts[i + 1])
  <2>1. Task!Holders(ts) \subseteq 1 .. Len(ts) - 1
    BY DEF Task!Holders
  <2>2. i \in Task!Holders(ts)
    BY <2>1, MinIsLeast
  <2> QED
    BY <2>2 DEF Task!Holders
<1>2. Task!Cut(ts) = Task!InsertAt(short, place, post)
  BY DEF Task!Cut
<1> HIDE DEF i
<1>3. Len(ts) \in Nat /\ DOMAIN ts = 1 .. Len(ts) /\ i \in DOMAIN ts /\ i + 1 \in DOMAIN ts
  BY <1>1
<1>4. \A j \in DOMAIN ts : ts[j] \in TimedStep
  OBVIOUS
<1>5. post \in TimedStep /\ post.start = ts[i + 1].end /\ post.end = ts[i].end
  <2>1. ts[i] \in TimedStep /\ ts[i + 1].end \in Nat /\ ts[i + 1].end <= ts[i].end
    BY <1>1, <1>3, <1>4 DEF TimedStep, Task!Holds
  <2>2. \A x \in TimedStep, e \in Nat : e <= x.end =>
          /\ [x EXCEPT !.start = e] \in TimedStep
          /\ [x EXCEPT !.start = e].start = e /\ [x EXCEPT !.start = e].end = x.end
    BY DEF TimedStep
  <2> QED BY <2>1, <2>2
<1>6. /\ short \in Seq(TimedStep) /\ Len(short) = Len(ts) /\ DOMAIN short = DOMAIN ts
      /\ short[i].start = ts[i].start /\ short[i].end = ts[i + 1].start
      /\ \A j \in DOMAIN ts \ {i} : short[j] = ts[j]
  <2> DEFINE x == [ts[i] EXCEPT !.end = ts[i + 1].start]
  <2>1. x \in TimedStep /\ x.start = ts[i].start /\ x.end = ts[i + 1].start
    <3>1. ts[i] \in TimedStep /\ ts[i + 1].start \in Nat /\ ts[i].start <= ts[i + 1].start
      BY <1>1, <1>3, <1>4 DEF TimedStep, Task!Holds
    <3>2. \A y \in TimedStep, e \in Nat : y.start <= e =>
            /\ [y EXCEPT !.end = e] \in TimedStep
            /\ [y EXCEPT !.end = e].end = e /\ [y EXCEPT !.end = e].start = y.start
      BY DEF TimedStep
    <3> QED BY <3>1, <3>2
  <2>2. short = [ts EXCEPT ![i] = x]
    BY <1>3
  <2> HIDE DEF x
  <2>3. /\ [ts EXCEPT ![i] = x] \in Seq(TimedStep)
        /\ Len([ts EXCEPT ![i] = x]) = Len(ts)
        /\ DOMAIN [ts EXCEPT ![i] = x] = DOMAIN ts
        /\ [ts EXCEPT ![i] = x][i] = x
        /\ \A j \in DOMAIN ts \ {i} : [ts EXCEPT ![i] = x][j] = ts[j]
    BY <1>3, <2>1
  <2> QED
    BY <2>1, <2>2, <2>3
<1> HIDE DEF short, post
<1>7. place \in i + 2 .. Len(ts) + 1
  <2>1. later \subseteq Nat /\ later \subseteq i + 2 .. Len(ts)
    BY <1>1
  <2>2. later # {} => Task!Min(later) \in i + 2 .. Len(ts)
    BY <2>1, MinIsLeast
  <2> HIDE DEF later
  <2> QED
    BY <1>1, <1>3, <2>2
<1> HIDE DEF place
<1> DEFINE new == Task!InsertAt(short, place, post)
<1>8. /\ new \in Seq(TimedStep) /\ Len(new) = Len(short) + 1 /\ new[place] = post
      /\ \A k \in 1 .. Len(short) : k < place => new[k] = short[k]
      /\ \A k \in 1 .. Len(short) : k >= place => new[k + 1] = short[k]
  <2>1. place \in 1 .. Len(short) + 1
    BY <1>1, <1>3, <1>6, <1>7
  <2>2. ASSUME NEW s \in Seq(TimedStep), NEW q \in 1 .. Len(s) + 1, NEW e \in TimedStep
        PROVE  LET n == Task!InsertAt(s, q, e)
               IN  /\ n \in Seq(TimedStep) /\ Len(n) = Len(s) + 1 /\ n[q] = e
                   /\ \A k \in 1 .. Len(s) : k < q => n[k] = s[k]
                   /\ \A k \in 1 .. Len(s) : k >= q => n[k + 1] = s[k]
    BY <2>2, InsertIs
  <2> QED
    BY <1>5, <1>6, <2>1, <2>2
<1> HIDE DEF new
<1>9. new[i] = short[i]
  BY <1>1, <1>3, <1>6, <1>7, <1>8
<1>10. \A k \in 1 .. Len(ts) \ {i} : k < place => new[k] = ts[k]
  BY <1>3, <1>6, <1>8
<1>11. \A k \in 1 .. Len(ts) : k >= place => new[k + 1] = ts[k]
  <2>1. \A k \in 1 .. Len(ts) : k >= place => k # i
    BY <1>1, <1>3, <1>7
  <2> QED
    BY <2>1, <1>3, <1>6, <1>8
<1>12. CutTo(ts, new, i, place)
  BY <1>1, <1>5, <1>6, <1>7, <1>8, <1>9, <1>10, <1>11 DEF CutTo
<1> QED
  BY <1>2, <1>12 DEF new

LEMMA CutKeepsTime ==
  ASSUME NEW ts \in Seq(TimedStep), NEW new, NEW i, NEW p, CutTo(ts, new, i, p),
         NEW t \in Nat, Within(ts, t)
  PROVE  Within(new, t)
<1>1. PICK j \in DOMAIN ts : ts[j].start <= t /\ t <= ts[j].end
  BY DEF Within
<1>2. /\ DOMAIN ts = 1 .. Len(ts) /\ DOMAIN new = 1 .. Len(ts) + 1
      /\ Len(ts) \in Nat /\ i \in DOMAIN ts /\ i + 1 \in DOMAIN ts /\ p \in Nat
      /\ i \in Nat /\ i + 1 # i /\ i + 1 < p /\ {i, p, i + 1} \subseteq DOMAIN new
  BY DEF CutTo
<1>3. CASE j # i
  <2>1. CASE j < p
    BY <1>1, <1>2, <1>3, <2>1 DEF CutTo, Within
  <2>2. CASE j >= p
    <3>1. new[j + 1] = ts[j] /\ j + 1 \in DOMAIN new
      BY <1>1, <1>2, <2>2 DEF CutTo
    <3> QED
      BY <1>1, <3>1 DEF Within
  <2> QED
    BY <1>2, <2>1, <2>2
<1>4. CASE j = i /\ t <= ts[i + 1].start
  BY <1>1, <1>2, <1>4 DEF CutTo, Within
<1>5. CASE j = i /\ ts[i + 1].end <= t
  BY <1>1, <1>2, <1>5 DEF CutTo, Within
<1>6. CASE ts[i + 1].start <= t /\ t <= ts[i + 1].end
  <2>1. new[i + 1] = ts[i + 1]
    BY <1>2 DEF CutTo
  <2> QED
    BY <1>2, <1>6, <2>1 DEF Within
<1>7. ts[i + 1].start \in Nat /\ ts[i + 1].end \in Nat
  <2>1. ts[i + 1] \in TimedStep
    BY <1>2
  <2> QED
    BY <2>1 DEF TimedStep
<1> QED
  BY <1>3, <1>4, <1>5, <1>6, <1>7

(* A line stretches the steps it names, before anything is cut.            *)
LEMMA SpansAndLines ==
  ASSUME SpansInv, NEW s \in Prefixed \cup {Mozharness}, NEW t \in Stamps,
         phase = "lines", phase' = phase, spans' = spans,
         \/ timings' = Task!Touch(timings, s, t)
         \/ timings' = Task!Touch(Task!Touch(timings, s, t), Mozharness, t)
  PROVE  SpansInv'
<1>1. t \in Nat
  BY LogsAssumption DEF Task!TaskLogAssumption
<1>2. timings \in Seq(TimedStep) /\ spans \in Seq(TimedStep)
  BY DEF SpansInv
<1>3. Task!Touch(timings, s, t) \in Seq(TimedStep)
  BY <1>1, <1>2, TouchedSteps
<1>4. Task!Touch(Task!Touch(timings, s, t), Mozharness, t) \in Seq(TimedStep)
  BY <1>1, <1>3, TouchedSteps
<1> QED
  BY <1>2, <1>3, <1>4 DEF SpansInv

LEMMA SpansStep ==
  ASSUME SpansInv, [Task!Next]_taskVars PROVE SpansInv'
<1>1. ASSUME NEW s \in Prefixed, NEW t \in Stamps, NEW text \in Task!Texts,
             Task!HeadLine(s, t, text)
      PROVE  SpansInv'
  BY <1>1, SpansAndLines DEF Task!HeadLine, Task!Line, Task!Stamp
<1>2. ASSUME NEW s \in Prefixed, NEW t \in Stamps, Task!BodyLine(s, t) PROVE SpansInv'
  BY <1>2, SpansAndLines DEF Task!BodyLine, Task!Line, Task!Stamp
<1>3. ASSUME NEW s \in Prefixed \cup {Mozharness}, NEW name \in HarnessSteps,
             NEW t \in Stamps, Task!HarnessLine(s, name, t)
      PROVE  SpansInv'
  BY <1>3, SpansAndLines DEF Task!HarnessLine, Task!Line
<1>4. CASE UNCHANGED <<timings, spans>> /\ (phase # "lines" \/ phase' = "lines")
  BY <1>4 DEF SpansInv, Within
<1>5. CASE Task!BareLine \/ Task!Times \/ UNCHANGED taskVars
  BY <1>4, <1>5 DEF Task!BareLine, Task!Line, Task!NoStamp, Task!Times, taskVars
<1>6. CASE Task!EndOfLog
  <2>1. timings' = timings /\ spans' = timings
    BY <1>6 DEF Task!EndOfLog
  <2> QED
    BY <2>1 DEF SpansInv, Within
<1>7. CASE Task!FixOverlap
  <2>1. phase = "cut" /\ spans' = spans
    BY <1>7 DEF Task!FixOverlap
  <2>2. CASE Task!Holders(timings) = {}
    BY <1>4, <1>7, <2>1, <2>2 DEF Task!FixOverlap
  <2>3. CASE Task!Holders(timings) # {}
    <3>1. timings' = Task!Cut(timings)
      BY <1>7, <2>3 DEF Task!FixOverlap
    <3>2. timings \in Seq(TimedStep) /\ spans \in Seq(TimedStep)
      BY DEF SpansInv
    <3>3. /\ Task!Cut(timings) \in Seq(TimedStep)
          /\ \A t \in Nat : Within(timings, t) => Within(Task!Cut(timings), t)
      <4>1. PICK i, p : CutTo(timings, Task!Cut(timings), i, p)
        BY <2>3, <3>2, CutIs
      <4>2. ASSUME NEW t \in Nat, Within(timings, t) PROVE Within(Task!Cut(timings), t)
        BY <3>2, <4>1, <4>2, CutKeepsTime
      <4> QED
        BY <4>1, <4>2 DEF CutTo
    <3>4. \A t \in Nat : Within(spans, t) => Within(timings, t)
      BY <2>1 DEF SpansInv
    <3>5. \A t \in Nat : Within(spans', t) => Within(timings', t)
      BY <2>1, <3>1, <3>3, <3>4
    <3> QED
      BY <2>1, <3>1, <3>2, <3>3, <3>5 DEF SpansInv, Within
  <2> QED
    BY <2>2, <2>3
<1>8. CASE Task!NextLog
  <2>1. << >> \in Seq(TimedStep)
    OBVIOUS
  <2>2. phase' = "lines" /\ timings' = << >> /\ spans' = << >>
    BY <1>8 DEF Task!NextLog
  <2> QED
    BY <2>1, <2>2 DEF SpansInv
<1> QED
  BY <1>1, <1>2, <1>3, <1>5, <1>6, <1>7, <1>8 DEF Task!Next

LEMMA SpansAreInvariant == Task!Spec => []SpansInv
<1>1. Task!Init => SpansInv
  <2>1. << >> \in Seq(TimedStep)
    OBVIOUS
  <2> QED
    BY <2>1 DEF Task!Init, SpansInv
<1>2. SpansInv /\ [Task!Next]_taskVars => SpansInv'
  BY SpansStep
<1> QED
  BY <1>1, <1>2, PTL DEF Task!Spec, Task!vars, taskVars

(* fix_overlap: however steps overlap, and however often one is cut, each  *)
(* moment between the first and the last line of a step stays in a step    *)
(* (text_log.py 785-811).                                                  *)
THEOREM EveryMomentIsInAStep == Task!Spec => []NoTimeLost
<1>1. SpansInv => NoTimeLost
  <2> SUFFICES ASSUME SpansInv, phase = "done", NEW i \in DOMAIN spans, NEW t \in Stamps,
                      spans[i].start <= t, t <= spans[i].end
               PROVE  \E j \in DOMAIN timings : timings[j].start <= t /\ t <= timings[j].end
    BY DEF NoTimeLost, Task!NoTimeLost
  <2>1. t \in Nat
    BY LogsAssumption DEF Task!TaskLogAssumption
  <2> QED
    BY <2>1 DEF SpansInv, Within
<1> QED
  BY <1>1, SpansAreInvariant, PTL

(* The end of fix_overlap.  Step k of the new list is a part of step From  *)
(* of the old one; two of them are parts of the same one only if that was  *)
(* cut, and what it held lies between them.                                *)
From(i, p, k) == IF k < p THEN k ELSE IF k = p THEN i ELSE k - 1

Proper(x, y) == x.start >= y.start /\ x.end <= y.end

LEMMA CutTypes ==
  ASSUME NEW ts \in Seq(TimedStep), NEW new, NEW i, NEW p, CutTo(ts, new, i, p)
  PROVE  /\ Len(ts) \in Nat /\ i \in Nat /\ p \in Nat /\ 1 <= i /\ i + 2 <= p /\ p <= Len(ts) + 1
         /\ DOMAIN ts = 1 .. Len(ts) /\ DOMAIN new = 1 .. Len(ts) + 1
         /\ \A k \in 1 .. Len(ts) :
              ts[k].start \in Nat /\ ts[k].end \in Nat /\ ts[k].start <= ts[k].end
         /\ ts[i].start < ts[i + 1].start /\ ts[i + 1].end < ts[i].end
<1>1. \A k \in 1 .. Len(ts) : ts[k] \in TimedStep
  OBVIOUS
<1>2. \A k \in 1 .. Len(ts) :
        ts[k].start \in Nat /\ ts[k].end \in Nat /\ ts[k].start <= ts[k].end
  BY <1>1 DEF TimedStep
<1>3. /\ Len(ts) \in Nat /\ i \in Nat /\ p \in Nat /\ 1 <= i /\ i + 2 <= p /\ p <= Len(ts) + 1
      /\ DOMAIN ts = 1 .. Len(ts) /\ DOMAIN new = 1 .. Len(ts) + 1
  BY DEF CutTo
<1>4. ts[i].start < ts[i + 1].start /\ ts[i + 1].end < ts[i].end
  BY DEF CutTo, Task!Holds
<1> QED
  BY <1>2, <1>3, <1>4

LEMMA PartsOfSteps ==
  ASSUME NEW ts \in Seq(TimedStep), NEW new, NEW i, NEW p, CutTo(ts, new, i, p),
         NEW k \in 1 .. Len(ts) + 1
  PROVE  /\ From(i, p, k) \in 1 .. Len(ts)
         /\ Proper(new[k], ts[From(i, p, k)])
         /\ k \notin {i, p} => new[k] = ts[From(i, p, k)] /\ From(i, p, k) # i
         /\ new[k].start \in Nat /\ new[k].end \in Nat
<1>1. /\ Len(ts) \in Nat /\ i \in Nat /\ p \in Nat /\ 1 <= i /\ i + 2 <= p /\ p <= Len(ts) + 1
      /\ i \in 1 .. Len(ts) /\ i + 1 \in 1 .. Len(ts)
  BY CutTypes
<1>2. \A m \in 1 .. Len(ts) :
        ts[m].start \in Nat /\ ts[m].end \in Nat /\ ts[m].start <= ts[m].end
  BY CutTypes
<1>3. From(i, p, k) \in 1 .. Len(ts)
  BY <1>1 DEF From
<1>4. CASE k \notin {i, p}
  <2>1. new[k] = ts[From(i, p, k)] /\ From(i, p, k) # i
    <3>1. CASE k < p
      BY <1>1, <1>4, <3>1 DEF CutTo, From
    <3>2. CASE k > p
      <4>1. k - 1 \in 1 .. Len(ts) /\ k - 1 >= p /\ k - 1 + 1 = k /\ k - 1 # i
        BY <1>1, <3>2
      <4>2. new[k - 1 + 1] = ts[k - 1]
        BY <4>1 DEF CutTo
      <4> QED
        BY <1>1, <3>2, <4>1, <4>2 DEF From
    <3> QED
      BY <1>1, <1>4, <3>1, <3>2
  <2> QED
    BY <1>2, <1>3, <1>4, <2>1 DEF Proper
<1>5. ts[i].start < ts[i + 1].start /\ ts[i + 1].end < ts[i].end
  BY CutTypes
<1>6. CASE k = i
  <2>1. From(i, p, k) = i /\ new[k].start = ts[i].start /\ new[k].end = ts[i + 1].start
    BY <1>1, <1>6 DEF CutTo, From
  <2> QED
    BY <1>1, <1>2, <1>5, <1>6, <2>1 DEF Proper
<1>7. CASE k = p
  <2>1. From(i, p, k) = i /\ new[k].start = ts[i + 1].end /\ new[k].end = ts[i].end
    BY <1>1, <1>7 DEF CutTo, From
  <2> QED
    BY <1>1, <1>2, <1>5, <1>7, <2>1 DEF Proper
<1> QED
  BY <1>4, <1>6, <1>7

LEMMA OnlyPartsShare ==
  ASSUME NEW ts \in Seq(TimedStep), NEW new, NEW i, NEW p, CutTo(ts, new, i, p),
         NEW k \in 1 .. Len(ts) + 1, NEW m \in 1 .. Len(ts) + 1,
         From(i, p, k) = From(i, p, m), k # m
  PROVE  (k = i /\ m = p) \/ (k = p /\ m = i)
<1>1. Len(ts) \in Nat /\ i \in Nat /\ p \in Nat /\ 1 <= i /\ i + 2 <= p /\ p <= Len(ts) + 1
  BY CutTypes
<1> QED
  BY <1>1 DEF From

LEMMA UnitsAre ==
  ASSUME NEW ts
  PROVE  /\ \A k, t : <<k, t>> \in Task!Units(ts) <=>
                        k \in DOMAIN ts /\ t \in ts[k].start + 1 .. ts[k].end
         /\ \A u \in Task!Units(ts) : u = <<u[1], u[2]>>
BY DEF Task!Units

LEMMA UnitsAreFinite ==
  ASSUME NEW ts \in Seq(TimedStep) PROVE IsFiniteSet(Task!Units(ts))
<1> DEFINE D == 1 .. Len(ts)
           Of(k) == {k} \X (ts[k].start + 1 .. ts[k].end)
           R == {Of(k) : k \in D}
           f == [k \in D |-> Of(k)]
<1>1. Task!Units(ts) = UNION R
  BY DEF Task!Units
<1>2. ASSUME NEW k \in D PROVE IsFiniteSet(Of(k))
  <2>1. ts[k] \in TimedStep
    OBVIOUS
  <2>2. ts[k].start + 1 \in Int /\ ts[k].end \in Int
    BY <2>1 DEF TimedStep
  <2>3. IsFiniteSet(ts[k].start + 1 .. ts[k].end) /\ IsFiniteSet({k})
    BY <2>2, FS_Interval, FS_Singleton
  <2> QED
    BY <2>3, FS_Product
<1>3. IsFiniteSet(D)
  BY FS_Interval
<1>4. f \in Surjection(D, R)
  <2>1. f \in [D -> R] /\ \A r \in R : \E k \in D : f[k] = r
    OBVIOUS
  <2> HIDE DEF f, R, D
  <2> QED
    BY <2>1 DEF Surjection
<1>5. \A r \in R : IsFiniteSet(r)
  BY <1>2
<1> HIDE DEF f, R, D
<1>6. IsFiniteSet(R)
  BY <1>3, <1>4, FS_Surjection
<1> QED
  BY <1>1, <1>5, <1>6, FS_UNION

LEMMA TaskCardinality == ASSUME NEW S PROVE Task!Cardinality(S) = Cardinality(S)
  BY DEF Task!Cardinality, Cardinality

(* Every unit of time of a part was one of its step.                       *)
LEMMA CutAddsNoTime ==
  ASSUME NEW ts \in Seq(TimedStep), NEW new, NEW i, NEW p, CutTo(ts, new, i, p)
  PROVE  Cardinality(Task!Units(new)) <= Cardinality(Task!Units(ts))
<1> DEFINE S == Task!Units(new)
           T == Task!Units(ts)
           g == [u \in S |-> <<From(i, p, u[1]), u[2]>>]
<1>1. ASSUME NEW u \in S PROVE g[u] \in T
  <2>1. u[1] \in 1 .. Len(ts) + 1 /\ u[2] \in new[u[1]].start + 1 .. new[u[1]].end
    BY UnitsAre, CutTypes
  <2> DEFINE k == u[1]
             t == u[2]
             m == From(i, p, k)
  <2>2. m \in 1 .. Len(ts) /\ Proper(new[k], ts[m]) /\ new[k].start \in Nat /\ new[k].end \in Nat
    BY <2>1, PartsOfSteps
  <2>3. ts[m].start \in Nat /\ ts[m].end \in Nat
    BY <2>2, CutTypes
  <2>4. t \in ts[m].start + 1 .. ts[m].end
    <3>1. t \in new[k].start + 1 .. new[k].end
      BY <2>1
    <3> HIDE DEF t, m, k
    <3> QED
      BY <2>2, <2>3, <3>1 DEF Proper
  <2>5. m \in DOMAIN ts
    BY <2>2, CutTypes
  <2>6. g[u] = <<m, t>>
    OBVIOUS
  <2> HIDE DEF g, t, m, k
  <2> QED
    BY <2>4, <2>5, <2>6, UnitsAre
<1>2. ASSUME NEW u \in S, NEW v \in S, g[u] = g[v] PROVE u = v
  <2>1. /\ u[1] \in 1 .. Len(ts) + 1 /\ u[2] \in new[u[1]].start + 1 .. new[u[1]].end
        /\ v[1] \in 1 .. Len(ts) + 1 /\ v[2] \in new[v[1]].start + 1 .. new[v[1]].end
        /\ u = <<u[1], u[2]>> /\ v = <<v[1], v[2]>>
    BY UnitsAre, CutTypes
  <2>2. From(i, p, u[1]) = From(i, p, v[1]) /\ u[2] = v[2]
    BY <1>2
  <2>3. ASSUME NEW t, t \in new[i].start + 1 .. new[i].end, t \in new[p].start + 1 .. new[p].end
        PROVE  FALSE
    <3>1. new[i].end = ts[i + 1].start /\ new[p].start = ts[i + 1].end /\ i + 1 \in 1 .. Len(ts)
      BY DEF CutTo
    <3>2. /\ ts[i + 1].start \in Nat /\ ts[i + 1].end \in Nat
          /\ ts[i + 1].start <= ts[i + 1].end
      BY <3>1, CutTypes
    <3>3. {i, p} \subseteq 1 .. Len(ts) + 1
      BY CutTypes
    <3>4. new[i].start \in Nat /\ new[p].end \in Nat
      BY <3>3, PartsOfSteps
    <3> QED
      BY <2>3, <3>1, <3>2, <3>4
  <2>4. u[1] = v[1]
    <3> SUFFICES ASSUME u[1] # v[1] PROVE FALSE
      OBVIOUS
    <3>1. (u[1] = i /\ v[1] = p) \/ (u[1] = p /\ v[1] = i)
      BY <2>1, <2>2, OnlyPartsShare
    <3> QED
      BY <2>1, <2>2, <2>3, <3>1
  <2> HIDE DEF S, g
  <2> QED
    BY <2>1, <2>2, <2>4
<1>3. g \in [S -> T]
  BY <1>1
<1>4. IsFiniteSet(T)
  BY UnitsAreFinite
<1> HIDE DEF S, T, g
<1>5. g \in Injection(S, T)
  BY <1>2, <1>3 DEF Injection, IsInjective
<1>6. Cardinality(S) <= Cardinality(T)
  BY <1>4, <1>5, FS_Injection
<1> QED
  BY <1>6 DEF S, T

(* Both parts of a step that held another one take time.                   *)
LEMMA CutLeavesMore ==
  ASSUME NEW ts \in Seq(TimedStep), NEW new, NEW i, NEW p, CutTo(ts, new, i, p)
  PROVE  Cardinality(Task!Lasting(new)) > Cardinality(Task!Lasting(ts))
<1> DEFINE S == Task!Lasting(new)
           T == Task!Lasting(ts)
           g == [k \in S \ {p} |-> From(i, p, k)]
<1>1. /\ Len(ts) \in Nat /\ i \in Nat /\ p \in Nat /\ 1 <= i /\ i + 2 <= p /\ p <= Len(ts) + 1
      /\ DOMAIN ts = 1 .. Len(ts) /\ DOMAIN new = 1 .. Len(ts) + 1
      /\ ts[i].start < ts[i + 1].start /\ ts[i + 1].end < ts[i].end
  BY CutTypes
<1>2. /\ i \in 1 .. Len(ts) /\ i + 1 \in 1 .. Len(ts) /\ p \in 1 .. Len(ts) + 1
      /\ i \in 1 .. Len(ts) + 1
  BY <1>1
<1>3. \A k \in 1 .. Len(ts) :
        ts[k].start \in Nat /\ ts[k].end \in Nat /\ ts[k].start <= ts[k].end
  BY CutTypes
<1>4. p \in S /\ i \in T
  <2>1. new[p].start = ts[i + 1].end /\ new[p].end = ts[i].end
    BY DEF CutTo
  <2>2. new[p].start < new[p].end
    BY <1>1, <2>1
  <2>3. ts[i].start < ts[i].end
    BY <1>1, <1>2, <1>3
  <2> QED
    BY <1>1, <1>2, <2>2, <2>3 DEF Task!Lasting
<1>5. ASSUME NEW k \in S \ {p} PROVE g[k] \in T
  <2>1. k \in 1 .. Len(ts) + 1 /\ new[k].start < new[k].end
    BY <1>1 DEF Task!Lasting
  <2>2. /\ From(i, p, k) \in 1 .. Len(ts) /\ Proper(new[k], ts[From(i, p, k)])
        /\ new[k].start \in Nat /\ new[k].end \in Nat
    BY <2>1, PartsOfSteps
  <2>3. ts[From(i, p, k)].start < ts[From(i, p, k)].end
    BY <1>3, <2>1, <2>2 DEF Proper
  <2> QED
    BY <1>1, <2>2, <2>3 DEF Task!Lasting
<1>6. ASSUME NEW k \in S \ {p}, NEW m \in S \ {p}, g[k] = g[m] PROVE k = m
  <2>1. k \in 1 .. Len(ts) + 1 /\ m \in 1 .. Len(ts) + 1
    BY <1>1 DEF Task!Lasting
  <2> QED
    BY <1>6, <2>1, OnlyPartsShare
<1>7. ASSUME NEW m \in T PROVE \E k \in S \ {p} : g[k] = m
  <2>1. m \in 1 .. Len(ts) /\ ts[m].start < ts[m].end
    BY <1>1 DEF Task!Lasting
  <2>2. CASE m = i
    <3>1. new[i].start < new[i].end /\ i # p
      BY <1>1 DEF CutTo
    <3>2. i \in S \ {p}
      BY <1>1, <1>2, <3>1 DEF Task!Lasting
    <3>3. From(i, p, i) = i
      BY <1>1 DEF From
    <3> QED
      BY <2>2, <3>2, <3>3
  <2>3. CASE m # i /\ m < p
    <3>1. new[m] = ts[m] /\ m \in 1 .. Len(ts) + 1 /\ m # p
      BY <1>1, <2>1, <2>3 DEF CutTo
    <3>2. m \in S \ {p}
      BY <1>1, <2>1, <3>1 DEF Task!Lasting
    <3>3. From(i, p, m) = m
      BY <2>3 DEF From
    <3> QED
      BY <3>2, <3>3
  <2>4. CASE m >= p
    <3>1. new[m + 1] = ts[m] /\ m + 1 \in 1 .. Len(ts) + 1 /\ m + 1 # p /\ ~(m + 1 < p)
      BY <1>1, <2>1, <2>4 DEF CutTo
    <3>2. m + 1 \in S \ {p}
      BY <1>1, <2>1, <3>1 DEF Task!Lasting
    <3>3. From(i, p, m + 1) = m
      BY <2>1, <3>1 DEF From
    <3> QED
      BY <3>2, <3>3
  <2> QED
    BY <1>1, <2>1, <2>2, <2>3, <2>4
<1>8. IsFiniteSet(S)
  <2>1. IsFiniteSet(1 .. Len(ts) + 1)
    BY <1>1, FS_Interval
  <2>2. S \subseteq 1 .. Len(ts) + 1
    BY <1>1 DEF Task!Lasting
  <2> HIDE DEF S
  <2> QED
    BY <2>1, <2>2, FS_Subset
<1>9. g \in [S \ {p} -> T]
  BY <1>5
<1> HIDE DEF S, T, g
<1>10. IsFiniteSet(S \ {p}) /\ Cardinality(S \ {p}) = Cardinality(S) - 1
  BY <1>4, <1>8, FS_RemoveElement
<1>11. g \in Bijection(S \ {p}, T)
  BY <1>6, <1>7, <1>9 DEF Bijection, Injection, Surjection, IsInjective
<1>12. ExistsBijection(S \ {p}, T)
  BY <1>11 DEF ExistsBijection
<1>13. Cardinality(T) = Cardinality(S \ {p}) /\ Cardinality(S) \in Nat
  BY <1>8, <1>10, <1>12, FS_Bijection, FS_CardinalityType
<1> QED
  BY <1>10, <1>13 DEF S, T

(* A step that takes time has its last unit of it for itself.              *)
LEMMA LastingShareTime ==
  ASSUME NEW ts \in Seq(TimedStep)
  PROVE  Cardinality(Task!Lasting(ts)) <= Cardinality(Task!Units(ts))
<1> DEFINE S == Task!Lasting(ts)
           T == Task!Units(ts)
           g == [k \in S |-> <<k, ts[k].end>>]
<1>1. ASSUME NEW k \in S PROVE g[k] \in T
  <2>1. k \in DOMAIN ts /\ ts[k].start < ts[k].end
    BY DEF Task!Lasting
  <2>2. ts[k] \in TimedStep
    BY <2>1
  <2>3. ts[k].end \in ts[k].start + 1 .. ts[k].end
    BY <2>1, <2>2 DEF TimedStep
  <2> HIDE DEF T
  <2> QED
    BY <2>1, <2>3, UnitsAre DEF T
<1>2. \A k, m \in S : g[k] = g[m] => k = m
  OBVIOUS
<1>3. g \in [S -> T]
  BY <1>1
<1>4. IsFiniteSet(T)
  BY UnitsAreFinite
<1> HIDE DEF S, T, g
<1>5. g \in Injection(S, T)
  BY <1>2, <1>3 DEF Injection, IsInjective
<1>6. Cardinality(S) <= Cardinality(T)
  BY <1>4, <1>5, FS_Injection
<1> QED
  BY <1>6 DEF S, T

CutStep ==
  phase = "cut" /\ phase' = "cut" =>
    /\ Task!Cardinality(Task!Units(timings')) <= Task!Cardinality(Task!Units(timings))
    /\ Task!Cardinality(Task!Lasting(timings')) > Task!Cardinality(Task!Lasting(timings))
    /\ Task!Cardinality(Task!Lasting(timings')) <= Task!Cardinality(Task!Units(timings'))

(* fix_overlap: its `while True` ends, whatever the steps: a cut adds no   *)
(* time to them, leaves one more that takes time, and each of these has a  *)
(* unit of time of its own (text_log.py 785-811).                          *)
THEOREM CutsComeToAnEnd == Task!Spec => CutsEnd
<1>1. SpansInv /\ [Task!Next]_taskVars => [CutStep]_taskVars
  <2> SUFFICES ASSUME SpansInv, Task!Next, phase = "cut", phase' = "cut" PROVE CutStep
    BY DEF CutStep
  <2>1. Task!FixOverlap
    BY DEF Task!Next, Task!HeadLine, Task!BodyLine, Task!BareLine, Task!HarnessLine, Task!Line,
           Task!EndOfLog, Task!Times, Task!NextLog
  <2>2. Task!Holders(timings) # {} /\ timings' = Task!Cut(timings)
    BY <2>1 DEF Task!FixOverlap
  <2>3. timings \in Seq(TimedStep)
    BY DEF SpansInv
  <2>4. PICK i, p : CutTo(timings, timings', i, p)
    BY <2>2, <2>3, CutIs
  <2>5. timings' \in Seq(TimedStep)
    BY <2>4 DEF CutTo
  <2>6. Cardinality(Task!Units(timings')) <= Cardinality(Task!Units(timings))
    BY <2>3, <2>4, CutAddsNoTime
  <2>7. Cardinality(Task!Lasting(timings')) > Cardinality(Task!Lasting(timings))
    BY <2>3, <2>4, CutLeavesMore
  <2>8. Cardinality(Task!Lasting(timings')) <= Cardinality(Task!Units(timings'))
    BY <2>5, LastingShareTime
  <2> QED
    BY <2>6, <2>7, <2>8, TaskCardinality DEF CutStep
<1> QED
  BY <1>1, SpansAreInvariant, PTL
     DEF CutsEnd, Task!CutsEnd, CutStep, Task!Spec, Task!vars, taskVars

(* A log whose lines are in order.  A step ends behind its start, so no    *)
(* duration is negative, wherever the next step starts; a child of         *)
(* mozharness does if no line was older than the one before.               *)

HarnessStep ==
  [step : HarnessSteps, start : Nat, end : Nat \cup {Task!None}, children : {<< >>}]

InOrder(ts) == \A i \in DOMAIN ts : ts[i].end # Task!None => ts[i].start <= ts[i].end

HeadTypes ==
  /\ phase \in {"lines", "cut", "times", "done", "refused"}
  /\ head \in BOOLEAN /\ settings \in BOOLEAN /\ backwards \in BOOLEAN /\ foreign \in BOOLEAN
  /\ acc \in Seq(Task!Texts) /\ lines \in 0 .. MaxLines
  /\ {first, last, clock} \subseteq Stamps \cup {Task!None, 2}

HarnessInv ==
  /\ harness \in Seq(HarnessStep)
  /\ ~backwards => InOrder(harness) /\ \A i \in DOMAIN harness : harness[i].start <= clock

OrderedInv == SpansInv /\ HeadTypes /\ HarnessInv /\ Task!OrderedLogIsTaken

LEMMA MomentIs ==
  /\ MaxLines \in Nat /\ Stamps \subseteq Nat
  /\ \A t \in Stamps \cup {Task!None, 2} : t \in Nat \cup {Task!None}
  BY LogsAssumption DEF Task!TaskLogAssumption

(* fix_times has nothing to fill in, and nothing to complain about.        *)
LEMMA OrderFits ==
  ASSUME NEW S, NEW ts \in Seq(S), NEW b \in Nat, NEW e \in Nat,
         \A i \in DOMAIN ts : ts[i].start \in Nat /\ ts[i].end \in Nat /\ ts[i].start <= ts[i].end
  PROVE  ~Task!NoTimes(ts, b, e)
<1>1. \A i \in DOMAIN ts : ts[i].start # Task!None /\ ts[i].end # Task!None
  BY DEF Task!None
<1>2. ts = [i \in DOMAIN ts |-> ts[i]] /\ DOMAIN ts = 1 .. Len(ts) /\ Len(ts) \in Nat
  OBVIOUS
<1>3. Task!Started(ts, b) = ts
  BY <1>1, <1>2 DEF Task!Started
<1>4. Task!Ended(ts, e) = ts
  BY <1>1, <1>2 DEF Task!Ended
<1>5. Task!FixTimes(ts, b, e) = ts
  BY <1>3, <1>4 DEF Task!FixTimes
<1>6. ASSUME NEW i \in DOMAIN ts PROVE ~(Task!Duration(ts, i, e) < 0)
  <2>1. Task!Due(ts, i, e) \in Nat
    <3>1. CASE i = Len(ts)
      BY <3>1 DEF Task!Due
    <3>2. CASE i # Len(ts)
      <4>1. i + 1 \in DOMAIN ts
        BY <1>2, <3>2
      <4> QED BY <3>2, <4>1 DEF Task!Due
    <3> QED BY <3>1, <3>2
  <2>2. /\ Task!MAX({Task!Due(ts, i, e), ts[i].end}) \in Nat
        /\ ts[i].end <= Task!MAX({Task!Due(ts, i, e), ts[i].end})
    BY <2>1, MaxOfTwo
  <2>3. \A x, y, m \in Nat : x <= y /\ y <= m => ~(m - x < 0)
    OBVIOUS
  <2> QED BY <2>2, <2>3 DEF Task!Duration
<1>7. b # Task!None /\ e # Task!None
  BY DEF Task!None
<1> QED BY <1>5, <1>6, <1>7 DEF Task!NoTimes

(* A child that has no end gets one behind its start.                      *)
LEMMA ChildrenEnd ==
  ASSUME NEW ts \in Seq(HarnessStep), NEW e \in Nat
  PROVE  /\ Task!Ended(ts, e) \in Seq(HarnessStep) /\ DOMAIN Task!Ended(ts, e) = DOMAIN ts
         /\ \A i \in DOMAIN ts :
              /\ Task!Ended(ts, e)[i].start = ts[i].start /\ Task!Ended(ts, e)[i].end \in Nat
              /\ InOrder(ts) => ts[i].start <= Task!Ended(ts, e)[i].end
<1>1. DOMAIN ts = 1 .. Len(ts) /\ Len(ts) \in Nat /\ \A i \in DOMAIN ts : ts[i] \in HarnessStep
  OBVIOUS
<1>0. \A i \in 1 .. Len(ts) : i # Len(ts) => i + 1 \in DOMAIN ts
  <2>1. \A n \in Nat : \A i \in 1 .. n : i # n => i + 1 \in 1 .. n
    OBVIOUS
  <2> QED BY <1>1, <2>1
<1> DEFINE filled(i) == [ts[i] EXCEPT !.end =
                           Task!MAX(Task!Starts(ts[i].children) \cup Task!Ends(ts[i].children)
                                    \cup {Task!Due(ts, i, e), ts[i].start})]
           x(i) == IF ts[i].end # Task!None THEN ts[i] ELSE filled(i)
<1>2. Task!Ended(ts, e) = [i \in 1 .. Len(ts) |-> x(i)]
  BY <1>1 DEF Task!Ended
<1>3. ASSUME NEW i \in 1 .. Len(ts)
      PROVE  /\ x(i) \in HarnessStep /\ x(i).start = ts[i].start /\ x(i).end \in Nat
             /\ InOrder(ts) => ts[i].start <= x(i).end
  <2>1. ts[i] \in HarnessStep /\ ts[i].start \in Nat /\ ts[i].children = << >>
    BY <1>1 DEF HarnessStep
  <2>2. CASE ts[i].end # Task!None
    <3>1. x(i) = ts[i]
      BY <2>2
    <3>2. ts[i].end \in Nat
      BY <2>1, <2>2 DEF HarnessStep
    <3> HIDE DEF x
    <3> QED BY <2>1, <2>2, <3>1, <3>2, <1>1 DEF InOrder
  <2>3. CASE ts[i].end = Task!None
    <3>1. x(i) = filled(i)
      BY <2>3
    <3> DEFINE d == Task!Due(ts, i, e)
    <3>2. d \in Nat
      <4>1. CASE i = Len(ts)
        BY <4>1 DEF Task!Due
      <4>2. CASE i # Len(ts)
        <5>1. i + 1 \in DOMAIN ts
          BY <1>0, <4>2
        <5>2. ts[i + 1] \in HarnessStep
          BY <1>1, <5>1
        <5> QED BY <4>2, <5>2 DEF Task!Due, HarnessStep
      <4> QED BY <4>1, <4>2
    <3>3. Task!Starts(<< >>) = {} /\ Task!Ends(<< >>) = {}
      BY DEF Task!Starts, Task!Ends
    <3>4. Task!Starts(ts[i].children) \cup Task!Ends(ts[i].children) \cup {d, ts[i].start}
          = {d, ts[i].start}
      BY <2>1, <3>3
    <3> DEFINE m == Task!MAX({d, ts[i].start})
    <3>5. filled(i) = [ts[i] EXCEPT !.end = m]
      BY <3>4
    <3> HIDE DEF d, filled
    <3>6. m \in Nat /\ ts[i].start <= m
      BY <2>1, <3>2, MaxOfTwo
    <3> HIDE DEF m
    <3>7. \A y \in HarnessStep : \A k \in Nat :
            /\ [y EXCEPT !.end = k] \in HarnessStep
            /\ [y EXCEPT !.end = k].end = k /\ [y EXCEPT !.end = k].start = y.start
      BY DEF HarnessStep
    <3> HIDE DEF x
    <3> QED BY <2>1, <3>1, <3>5, <3>6, <3>7
  <2> QED BY <2>2, <2>3
<1> HIDE DEF x
<1>4. [i \in 1 .. Len(ts) |-> x(i)] \in Seq(HarnessStep)
  BY <1>1, <1>3
<1>5. DOMAIN [i \in 1 .. Len(ts) |-> x(i)] = DOMAIN ts
      /\ \A j \in DOMAIN ts : [i \in 1 .. Len(ts) |-> x(i)][j] = x(j)
  BY <1>1
<1> QED BY <1>1, <1>2, <1>3, <1>4, <1>5

(* A line of mozharness starts a child, or ends it.                        *)
LEMMA HarnessTouched ==
  ASSUME NEW hs \in Seq(HarnessStep), hs = harness,
         NEW name \in HarnessSteps, NEW t \in Nat
  PROVE  /\ Task!HarnessTouch(name, t) \in Seq(HarnessStep)
         /\ InOrder(hs) /\ (\A i \in DOMAIN hs : hs[i].start <= t) =>
              /\ InOrder(Task!HarnessTouch(name, t))
              /\ \A i \in DOMAIN Task!HarnessTouch(name, t) :
                   Task!HarnessTouch(name, t)[i].start <= t
<1> DEFINE same == {j \in 1 .. Len(hs) : hs[j].step = name}
           p == Task!Position(hs, name)
           new == Task!HarnessTouch(name, t)
<1>1. p = IF same # {} THEN Task!Min(same) ELSE 0
  BY DEF Task!Position, Task!SelectInSeq
<1>2. p \in 1 .. Len(hs) \/ p = 0
  <2>1. same \subseteq Nat /\ same \subseteq 1 .. Len(hs)
    OBVIOUS
  <2> HIDE DEF same
  <2> QED BY <1>1, <2>1, MinIsLeast
<1>3. new = IF p = 0 THEN Append(hs, Task!Fresh(name, t, Task!None))
            ELSE [hs EXCEPT ![p].end = t]
  BY DEF Task!HarnessTouch
<1>4. Len(hs) \in Nat /\ DOMAIN hs = 1 .. Len(hs) /\ \A i \in DOMAIN hs : hs[i] \in HarnessStep
  OBVIOUS
<1> HIDE DEF p, new
<1>5. CASE p = 0
  <2> DEFINE f == Task!Fresh(name, t, Task!None)
  <2>1. f \in HarnessStep /\ f.start = t /\ f.end = Task!None
    BY DEF Task!Fresh, HarnessStep
  <2>2. new = Append(hs, f)
    BY <1>3, <1>5
  <2> HIDE DEF f
  <2>3. /\ new \in Seq(HarnessStep) /\ DOMAIN new = 1 .. Len(hs) + 1
        /\ \A i \in DOMAIN hs : new[i] = hs[i]
        /\ new[Len(hs) + 1] = f
    BY <1>4, <2>1, <2>2
  <2>4. \A i \in DOMAIN new : i \in DOMAIN hs \/ i = Len(hs) + 1
    BY <1>4, <2>3
  <2>5. t <= t
    OBVIOUS
  <2> QED BY <2>1, <2>3, <2>4, <2>5 DEF InOrder, new
<1>6. CASE p \in 1 .. Len(hs)
  <2> DEFINE x == [hs[p] EXCEPT !.end = t]
  <2>1. x \in HarnessStep /\ x.start = hs[p].start /\ x.end = t
    <3>1. \A y \in HarnessStep :
            /\ [y EXCEPT !.end = t] \in HarnessStep
            /\ [y EXCEPT !.end = t].end = t /\ [y EXCEPT !.end = t].start = y.start
      BY DEF HarnessStep
    <3> QED BY <1>4, <1>6, <3>1
  <2>2. new = [hs EXCEPT ![p] = x]
    <3>1. p # 0 /\ p \in DOMAIN hs
      BY <1>4, <1>6
    <3>2. [hs EXCEPT ![p].end = t] = [hs EXCEPT ![p] = x]
      BY <3>1
    <3> QED BY <1>3, <3>1, <3>2
  <2> HIDE DEF x
  <2>3. /\ new \in Seq(HarnessStep) /\ DOMAIN new = DOMAIN hs
        /\ \A i \in DOMAIN hs : new[i] = IF i = p THEN x ELSE hs[i]
    BY <1>4, <1>6, <2>1, <2>2
  <2> QED BY <1>4, <1>6, <2>1, <2>3 DEF InOrder, new
<1> QED BY <1>2, <1>5, <1>6

LEMMA HeadStep ==
  ASSUME OrderedInv, [Task!Next]_taskVars PROVE HeadTypes'
<1>1. /\ phase \in {"lines", "cut", "times", "done", "refused"}
      /\ head \in BOOLEAN /\ settings \in BOOLEAN /\ backwards \in BOOLEAN /\ foreign \in BOOLEAN
      /\ acc \in Seq(Task!Texts) /\ lines \in 0 .. MaxLines
      /\ {first, last, clock} \subseteq Stamps \cup {Task!None, 2}
  BY DEF OrderedInv, HeadTypes
<1>2. ASSUME NEW t \in Stamps, first' = Task!MIN({first, t}), last' = Task!MAX({last, t}),
             clock' = Task!MAX({clock, t})
      PROVE  {first', last', clock'} \subseteq Stamps \cup {Task!None, 2}
  <2>1. /\ t \in Nat /\ first \in Nat \cup {Task!None} /\ last \in Nat \cup {Task!None}
        /\ clock \in Nat \cup {Task!None}
    BY <1>1, MomentIs
  <2>2. first' \in {first, t} /\ last' \in {last, t} /\ clock' \in {clock, t}
    BY <1>2, <2>1, MinOfTwo, MaxOfTwo
  <2> QED BY <1>1, <2>2
<1>3. ASSUME Task!Line PROVE phase' = phase => lines' \in 0 .. MaxLines
  BY <1>1, <1>3, MomentIs DEF Task!Line
<1>4. ASSUME NEW t \in Stamps, backwards' = (backwards \/ t < clock) PROVE backwards' \in BOOLEAN
  BY <1>4
<1>5. << >> \in Seq(Task!Texts)
  OBVIOUS
<1>6. ASSUME NEW s \in Prefixed, NEW t \in Stamps, NEW text \in Task!Texts, Task!HeadLine(s, t, text)
      PROVE  HeadTypes'
  <2>1. Task!Line /\ phase' = phase /\ Task!Stamp(s, t)
    BY <1>6 DEF Task!HeadLine
  <2>2. /\ head' \in BOOLEAN /\ settings' \in BOOLEAN /\ foreign' \in BOOLEAN
        /\ acc' \in Seq(Task!Texts)
    <3>1. CASE Task!Starting
      BY <1>1, <1>5, <3>1, Zenon DEF Task!Starting
    <3>2. CASE Task!HeadText(text)
      <4>1. Append(acc, text) \in Seq(Task!Texts)
        BY <1>1
      <4>2. head' = head /\ settings' = settings /\ foreign' = (foreign \/ text = "other task")
            /\ acc' = Append(acc, text)
        BY <3>2 DEF Task!HeadText
      <4> QED BY <1>1, <4>1, <4>2, Zenon
    <3> QED BY <1>6, <3>1, <3>2 DEF Task!HeadLine
  <2>3. {first', last', clock'} \subseteq Stamps \cup {Task!None, 2} /\ backwards' \in BOOLEAN
    BY <2>1, <1>2, <1>4 DEF Task!Stamp
  <2>4. lines' \in 0 .. MaxLines
    BY <2>1, <1>3
  <2> QED BY <1>1, <2>1, <2>2, <2>3, <2>4 DEF HeadTypes
<1>7. ASSUME NEW s \in Prefixed, NEW t \in Stamps, Task!BodyLine(s, t) PROVE HeadTypes'
  <2>1. /\ Task!Line /\ phase' = phase /\ Task!Stamp(s, t)
        /\ UNCHANGED <<head, acc, settings, foreign>>
    BY <1>7 DEF Task!BodyLine
  <2>2. {first', last', clock'} \subseteq Stamps \cup {Task!None, 2} /\ backwards' \in BOOLEAN
    BY <2>1, <1>2, <1>4 DEF Task!Stamp
  <2>3. lines' \in 0 .. MaxLines
    BY <2>1, <1>3
  <2> QED BY <1>1, <2>1, <2>2, <2>3 DEF HeadTypes
<1>8. CASE Task!BareLine
  <2>1. /\ Task!Line /\ phase' = phase /\ head' = FALSE /\ acc' = << >>
        /\ UNCHANGED <<settings, foreign, first, last, backwards, clock>>
    BY <1>8 DEF Task!BareLine, Task!NoStamp
  <2>2. lines' \in 0 .. MaxLines
    BY <2>1, <1>3
  <2> QED BY <1>1, <1>5, <2>1, <2>2 DEF HeadTypes
<1>9. ASSUME NEW s \in Prefixed \cup {Mozharness}, NEW name \in HarnessSteps, NEW t \in Stamps,
             Task!HarnessLine(s, name, t)
      PROVE  HeadTypes'
  <2>1. /\ Task!Line /\ phase' = phase /\ head' = FALSE /\ acc' = << >>
        /\ first' = Task!MIN({first, t}) /\ last' = Task!MAX({last, t})
        /\ clock' = Task!MAX({clock, t}) /\ backwards' = (backwards \/ t < clock)
        /\ UNCHANGED <<settings, foreign>>
    BY <1>9 DEF Task!HarnessLine
  <2>2. {first', last', clock'} \subseteq Stamps \cup {Task!None, 2} /\ backwards' \in BOOLEAN
    BY <2>1, <1>2, <1>4
  <2>3. lines' \in 0 .. MaxLines
    BY <2>1, <1>3
  <2> QED BY <1>1, <1>5, <2>1, <2>2, <2>3 DEF HeadTypes
<1>10. ASSUME phase' \in {"lines", "cut", "times", "done", "refused"},
              UNCHANGED <<head, acc, settings, first, last, lines, clock, backwards, foreign>>
       PROVE  HeadTypes'
  BY <1>1, <1>10 DEF HeadTypes
<1>11. CASE Task!EndOfLog
  BY <1>10, <1>11 DEF Task!EndOfLog
<1>12. CASE Task!FixOverlap
  BY <1>1, <1>10, <1>12 DEF Task!FixOverlap
<1>13. CASE Task!Times
  BY <1>10, <1>13 DEF Task!Times
<1>14. CASE Task!NextLog
  <2>1. first' = 2 /\ last' = 2
    BY <1>14 DEF Task!NextLog, RunTimesTwo
  <2>2. /\ phase' = "lines" /\ head' = TRUE /\ acc' = << >> /\ settings' = FALSE
        /\ lines' = 0 /\ clock' = Task!None /\ backwards' = FALSE /\ foreign' = FALSE
    BY <1>14 DEF Task!NextLog
  <2>3. 0 \in 0 .. MaxLines
    BY MomentIs
  <2> QED BY <2>1, <2>2, <2>3, <1>5 DEF HeadTypes
<1>15. CASE UNCHANGED taskVars
  BY <1>1, <1>10, <1>15 DEF taskVars
<1> QED
  BY <1>6, <1>7, <1>8, <1>9, <1>11, <1>12, <1>13, <1>14, <1>15 DEF Task!Next

(* Where the parts of mozharness end, and its children with them.          *)
LEMMA ChildrenOfParts ==
  ASSUME timings \in Seq(TimedStep), harness \in Seq(HarnessStep)
  PROVE  /\ Task!EndedHarness \in Seq(HarnessStep)
         /\ DOMAIN Task!EndedHarness = DOMAIN harness
         /\ \A i \in DOMAIN harness :
              /\ Task!EndedHarness[i].start = harness[i].start
              /\ Task!Parts # {} => Task!EndedHarness[i].end \in Nat
         /\ InOrder(harness) => InOrder(Task!EndedHarness)
<1>1. CASE Task!Parts = {}
  BY <1>1 DEF Task!EndedHarness
<1>2. CASE Task!Parts # {}
  <2> DEFINE e == timings[Task!Min(Task!Parts)].end
  <2>1. Task!Min(Task!Parts) \in DOMAIN timings
    <3>1. Task!Parts \subseteq DOMAIN timings /\ Task!Parts \subseteq Nat
      BY DEF Task!Parts
    <3> QED BY <1>2, <3>1, MinIsLeast
  <2>2. e \in Nat
    <3>1. timings[Task!Min(Task!Parts)] \in TimedStep
      BY <2>1
    <3> QED BY <3>1 DEF TimedStep
  <2>3. Task!EndedHarness = Task!Ended(harness, e)
    BY <1>2 DEF Task!EndedHarness
  <2> HIDE DEF e
  <2> QED BY <1>2, <2>2, <2>3, ChildrenEnd DEF InOrder
<1> QED BY <1>1, <1>2

LEMMA ChildrenStep ==
  ASSUME OrderedInv, [Task!Next]_taskVars PROVE HarnessInv'
<1>1. /\ harness \in Seq(HarnessStep) /\ timings \in Seq(TimedStep)
      /\ clock \in Nat \cup {Task!None} /\ backwards \in BOOLEAN
      /\ ~backwards => InOrder(harness) /\ \A i \in DOMAIN harness : harness[i].start <= clock
  BY MomentIs DEF OrderedInv, SpansInv, HeadTypes, HarnessInv
<1>2. \A i \in DOMAIN harness : harness[i].start \in Nat
  <2>1. \A i \in DOMAIN harness : harness[i] \in HarnessStep
    BY <1>1
  <2> QED BY <2>1 DEF HarnessStep
<1>3. ASSUME NEW t \in Stamps, backwards' = (backwards \/ t < clock), clock' = Task!MAX({clock, t}),
             ~backwards'
      PROVE  /\ ~backwards /\ clock <= t /\ t <= clock'
             /\ \A i \in DOMAIN harness : harness[i].start <= t /\ harness[i].start <= clock'
  <2>1. t \in Nat /\ ~backwards /\ ~(t < clock)
    BY <1>3, MomentIs
  <2>2. clock <= t
    BY <1>1, <2>1 DEF Task!None
  <2>3. clock' \in Nat /\ clock <= clock' /\ t <= clock'
    BY <1>1, <1>3, <2>1, MaxOfTwo
  <2>4. clock \in Int
    BY <1>1 DEF Task!None
  <2> QED BY <1>1, <1>2, <2>1, <2>2, <2>3, <2>4
<1>4. ASSUME NEW s \in Prefixed, NEW t \in Stamps, Task!Stamp(s, t), harness' = harness
      PROVE  HarnessInv'
  <2>1. backwards' = (backwards \/ t < clock) /\ clock' = Task!MAX({clock, t})
    BY <1>4 DEF Task!Stamp
  <2> QED BY <1>1, <1>3, <1>4, <2>1 DEF HarnessInv, InOrder
<1>5. ASSUME NEW s \in Prefixed, NEW t \in Stamps, NEW text \in Task!Texts, Task!HeadLine(s, t, text)
      PROVE  HarnessInv'
  BY <1>4, <1>5 DEF Task!HeadLine
<1>6. ASSUME NEW s \in Prefixed, NEW t \in Stamps, Task!BodyLine(s, t) PROVE HarnessInv'
  BY <1>4, <1>6 DEF Task!BodyLine
<1>7. CASE UNCHANGED <<harness, backwards, clock>>
  BY <1>1, <1>7 DEF HarnessInv, InOrder
<1>8. CASE Task!BareLine \/ Task!EndOfLog \/ Task!FixOverlap \/ UNCHANGED taskVars
  BY <1>7, <1>8 DEF Task!BareLine, Task!NoStamp, Task!EndOfLog, Task!FixOverlap, taskVars
<1>9. ASSUME NEW s \in Prefixed \cup {Mozharness}, NEW name \in HarnessSteps, NEW t \in Stamps,
             Task!HarnessLine(s, name, t)
      PROVE  HarnessInv'
  <2>1. /\ backwards' = (backwards \/ t < clock) /\ clock' = Task!MAX({clock, t})
        /\ harness' = Task!HarnessTouch(name, t) /\ t \in Nat
    BY <1>9, MomentIs DEF Task!HarnessLine
  <2>2. /\ harness' \in Seq(HarnessStep)
        /\ InOrder(harness) /\ (\A i \in DOMAIN harness : harness[i].start <= t) =>
             InOrder(harness') /\ \A i \in DOMAIN harness' : harness'[i].start <= t
    BY <1>1, <2>1, HarnessTouched
  <2>3. ASSUME ~backwards'
        PROVE  InOrder(harness') /\ \A i \in DOMAIN harness' : harness'[i].start <= clock'
    <3>1. /\ ~backwards /\ t <= clock' /\ \A i \in DOMAIN harness : harness[i].start <= t
      BY <1>3, <2>1, <2>3
    <3>2. InOrder(harness') /\ \A i \in DOMAIN harness' : harness'[i].start <= t
      BY <1>1, <2>2, <3>1
    <3>3. \A i \in DOMAIN harness' : harness'[i].start \in Nat
      <4>1. \A i \in DOMAIN harness' : harness'[i] \in HarnessStep
        BY <2>2
      <4> QED BY <4>1 DEF HarnessStep
    <3>4. clock' \in Nat
      BY <1>1, <2>1, MaxOfTwo
    <3> QED BY <2>1, <3>1, <3>2, <3>3, <3>4
  <2> QED BY <2>2, <2>3 DEF HarnessInv, InOrder
<1>10. CASE Task!Times
  <2>1. UNCHANGED <<backwards, clock>> /\ harness' \in {harness, Task!EndedHarness}
    BY <1>10 DEF Task!Times
  <2>2. CASE harness' = harness
    BY <1>7, <2>1, <2>2
  <2>3. CASE harness' = Task!EndedHarness
    <3>1. /\ harness' \in Seq(HarnessStep) /\ DOMAIN harness' = DOMAIN harness
          /\ \A i \in DOMAIN harness : harness'[i].start = harness[i].start
          /\ InOrder(harness) => InOrder(harness')
      BY <1>1, <2>3, ChildrenOfParts
    <3> QED BY <1>1, <2>1, <3>1 DEF HarnessInv, InOrder
  <2> QED BY <2>1, <2>2, <2>3
<1>11. CASE Task!NextLog
  <2>1. harness' = << >>
    BY <1>11 DEF Task!NextLog
  <2> QED BY <2>1 DEF HarnessInv, InOrder
<1> QED
  BY <1>5, <1>6, <1>8, <1>9, <1>10, <1>11 DEF Task!Next

(* A log in order that has a time is not a misfit.                         *)
LEMMA OrderedFits ==
  ASSUME OrderedInv, ~backwards, first # Task!None, last # Task!None PROVE ~Task!Misfit
<1>1. /\ harness \in Seq(HarnessStep) /\ timings \in Seq(TimedStep) /\ InOrder(harness)
      /\ first \in Nat /\ last \in Nat
  BY MomentIs DEF OrderedInv, SpansInv, HeadTypes, HarnessInv
<1>2. \A i \in DOMAIN timings : /\ timings[i].start \in Nat /\ timings[i].end \in Nat
                                /\ timings[i].start <= timings[i].end
  BY <1>1 DEF TimedStep
<1>3. ~Task!NoTimes(timings, first, last)
  BY <1>1, <1>2, OrderFits
<1>4. ASSUME NEW i \in Task!Parts
      PROVE  ~Task!NoTimes(Task!EndedHarness, timings[i].start, timings[i].end)
  <2>1. i \in DOMAIN timings
    BY DEF Task!Parts
  <2> DEFINE hs == Task!EndedHarness
  <2>2. /\ hs \in Seq(HarnessStep) /\ DOMAIN hs = DOMAIN harness /\ InOrder(hs)
        /\ \A j \in DOMAIN hs : hs[j].start = harness[j].start /\ hs[j].end \in Nat
    BY <1>1, ChildrenOfParts
  <2> HIDE DEF hs
  <2>3. \A j \in DOMAIN hs : hs[j].start \in Nat /\ hs[j].end \in Nat /\ hs[j].start <= hs[j].end
    <3>1. \A k \in Nat : k # Task!None
      BY DEF Task!None
    <3>2. \A j \in DOMAIN hs : hs[j].start \in Nat
      <4>1. \A j \in DOMAIN hs : hs[j] \in HarnessStep
        BY <2>2
      <4> QED BY <4>1 DEF HarnessStep
    <3> QED BY <2>2, <3>1, <3>2 DEF InOrder
  <2>4. ~Task!NoTimes(hs, timings[i].start, timings[i].end)
    BY <1>2, <2>1, <2>2, <2>3, OrderFits
  <2> QED BY <2>4 DEF hs
<1> QED BY <1>3, <1>4 DEF Task!Misfit

LEMMA TakenStep ==
  ASSUME OrderedInv, [Task!Next]_taskVars PROVE Task!OrderedLogIsTaken'
<1>1. Task!OrderedLogIsTaken
  BY DEF OrderedInv
<1>2. CASE UNCHANGED taskVars
  BY <1>1, <1>2 DEF taskVars, Task!OrderedLogIsTaken
<1>3. CASE Task!Times
  <2>1. /\ phase' = IF Task!Misfit THEN "refused" ELSE "done"
        /\ UNCHANGED <<first, last, timings, backwards>>
    BY <1>3 DEF Task!Times
  <2> QED BY <2>1, OrderedFits DEF Task!OrderedLogIsTaken
<1>4. CASE phase' \in {"lines", "cut", "times"}
  BY <1>4 DEF Task!OrderedLogIsTaken
<1>5. Task!Next => phase' \in {"lines", "cut", "times"} \/ Task!Times
  <2>1. \A s, t, text : Task!HeadLine(s, t, text) => phase' = "lines"
    BY DEF Task!HeadLine, Task!Line
  <2>2. \A s, t : Task!BodyLine(s, t) => phase' = "lines"
    BY DEF Task!BodyLine, Task!Line
  <2>3. \A s, name, t : Task!HarnessLine(s, name, t) => phase' = "lines"
    BY DEF Task!HarnessLine, Task!Line
  <2>4. Task!BareLine \/ Task!NextLog => phase' = "lines"
    BY DEF Task!BareLine, Task!Line, Task!NextLog
  <2>5. Task!EndOfLog \/ Task!FixOverlap => phase' \in {"cut", "times"}
    BY DEF Task!EndOfLog, Task!FixOverlap
  <2> QED BY <2>1, <2>2, <2>3, <2>4, <2>5 DEF Task!Next
<1> QED BY <1>2, <1>3, <1>4, <1>5

LEMMA OrderedStarts == Task!Init => OrderedInv
<1> SUFFICES ASSUME Task!Init PROVE OrderedInv
  OBVIOUS
<1>1. /\ phase = "lines" /\ head = TRUE /\ acc = << >> /\ settings = FALSE
      /\ timings = << >> /\ harness = << >>
      /\ lines = 0 /\ clock = Task!None /\ backwards = FALSE /\ foreign = FALSE /\ spans = << >>
  BY DEF Task!Init
<1>2. first = 2 /\ last = 2
  BY DEF Task!Init, RunTimesTwo
<1>3. 0 \in 0 .. MaxLines
  BY MomentIs
<1>4. << >> \in Seq(TimedStep) /\ << >> \in Seq(HarnessStep) /\ << >> \in Seq(Task!Texts)
  OBVIOUS
<1>5. SpansInv
  BY <1>1, <1>4 DEF SpansInv
<1>6. HeadTypes
  BY <1>1, <1>2, <1>3, <1>4 DEF HeadTypes
<1>7. HarnessInv
  BY <1>1, <1>4 DEF HarnessInv, InOrder
<1> QED BY <1>1, <1>5, <1>6, <1>7 DEF OrderedInv, Task!OrderedLogIsTaken

LEMMA OrderedIsInvariant == Task!Spec => []OrderedInv
<1>1. OrderedInv /\ [Task!Next]_taskVars => OrderedInv'
  BY SpansStep, HeadStep, ChildrenStep, TakenStep DEF OrderedInv
<1> QED BY <1>1, OrderedStarts, PTL DEF Task!Spec, Task!vars, taskVars

(* fix_times: the log of a task whose lines are in order is taken, however *)
(* its steps overlap and however often they were cut, if the task or its   *)
(* log has a time (text_log.py 785-842).                                   *)
THEOREM LogsInOrderAreTaken == Task!Spec => []Task!OrderedLogIsTaken
<1>1. OrderedInv => Task!OrderedLogIsTaken
  BY DEF OrderedInv
<1> QED BY <1>1, OrderedIsInvariant, PTL

(* text_log.py: the types of the parser of the logs of tasks.              *)
THEOREM TaskTypes == Task!Spec => []Task!TypeOK
<1>1. OrderedInv => Task!TypeOK
  <2> SUFFICES ASSUME OrderedInv PROVE Task!TypeOK
    OBVIOUS
  <2>1. {r[i] : r \in RunTimesTwo, i \in 1 .. 2} = {2}
    <3>1. RunTimesTwo = {<<2, 2>>} /\ \A i \in 1 .. 2 : <<2, 2>>[i] = 2
      BY DEF RunTimesTwo
    <3> QED BY <3>1
  <2>2. \A i \in DOMAIN timings : timings[i].step \in Prefixed \cup {Mozharness}
    BY DEF OrderedInv, SpansInv, TimedStep
  <2>3. \A i \in DOMAIN harness : harness[i].step \in HarnessSteps
    <3>1. \A i \in DOMAIN harness : harness[i] \in HarnessStep
      BY DEF OrderedInv, HarnessInv
    <3> QED BY <3>1 DEF HarnessStep
  <2>4. HeadTypes
    BY DEF OrderedInv
  <2>5. {head, settings, backwards, foreign} \subseteq BOOLEAN
    BY <2>4, Zenon DEF HeadTypes
  <2>6. {first, last, clock} \subseteq Stamps \cup {Task!None} \cup {r[i] : r \in RunTimesTwo, i \in 1 .. 2}
    BY <2>1, <2>4 DEF HeadTypes
  <2> QED BY <2>2, <2>3, <2>4, <2>5, <2>6 DEF HeadTypes, Task!TypeOK
<1> QED BY <1>1, OrderedIsInvariant, PTL

-----------------------------------------------------------------------------
(* PerfLogs.  A name that was cut down to a suite stays cut down to it,    *)
(* because suites are only added behind those there are.  A name that was  *)
(* nothing's is a suite of its own from then on, if nothing was added that *)
(* begins it while it waited.                                              *)

SuiteParts == {"a", "b", "c", "d", "r", "x"}

SuiteName == Seq(SuiteParts)

Naming == [name : SuiteName, resource : BOOLEAN, suite : SuiteName]

Waiting == {learning[u] : u \in EtlThreads} \ {NoName}

Settled(n) ==
  /\ n.suite = Perf!Suite(suites, n.name, n.resource)
  /\ Perf!Hits(suites, n.name, n.resource) # {} \/ n.resource \/ n.name \in Waiting

Overtaken(n) ==
  /\ ~n.resource /\ n.suite = n.name /\ n.name \in overtaken
  /\ Perf!Hits(suites, n.name, n.resource) # {}

PerfInv ==
  /\ suites \in Seq(SuiteName) /\ named \subseteq Naming
  /\ learning \in [EtlThreads -> Suites \cup {NoName}]
  /\ \A n \in named : Perf!Floating(n) \/ Settled(n) \/ Overtaken(n)

LEMMA RemoteBegins ==
  ASSUME NEW s \in SuiteName, NEW name \in SuiteName, Perf!IsPrefix(<<"r">> \o s, name)
  PROVE  Perf!IsPrefix(<<"r">>, name)
<1> DEFINE rs == <<"r">> \o s
<1>1. <<"r">> \in SuiteName /\ Len(<<"r">>) = 1 /\ <<"r">>[1] = "r"
  <2>1. "r" \in SuiteParts
    BY DEF SuiteParts
  <2>2. \A x \in SuiteParts : <<x>> \in Seq(SuiteParts) /\ Len(<<x>>) = 1 /\ <<x>>[1] = x
    OBVIOUS
  <2> QED
    BY <2>1, <2>2 DEF SuiteName
<1>2. rs \in SuiteName /\ Len(rs) = 1 + Len(s) /\ rs[1] = "r"
  <2>1. /\ rs \in Seq(SuiteParts) /\ Len(rs) = Len(<<"r">>) + Len(s)
        /\ \A i \in 1 .. Len(<<"r">>) + Len(s) :
             rs[i] = IF i <= Len(<<"r">>) THEN <<"r">>[i] ELSE s[i - Len(<<"r">>)]
    BY <1>1, ConcatProperties DEF SuiteName
  <2>2. Len(s) \in Nat
    BY DEF SuiteName
  <2> QED
    BY <1>1, <2>1, <2>2 DEF SuiteName
<1> HIDE DEF rs
<1>3. Len(s) \in Nat /\ Len(name) \in Nat /\ Len(rs) <= Len(name)
      /\ SubSeq(rs, 1, Len(rs)) = SubSeq(name, 1, Len(rs))
  BY DEF Perf!IsPrefix, rs, SuiteName
<1>4. SubSeq(rs, 1, Len(rs))[1] = rs[1] /\ SubSeq(name, 1, Len(rs))[1] = name[1]
  BY <1>2, <1>3 DEF SuiteName
<1>5. name[1] = "r"
  BY <1>2, <1>3, <1>4
<1>6. SubSeq(<<"r">>, 1, 1) = SubSeq(name, 1, 1)
  BY <1>1, <1>2, <1>3, <1>5 DEF SuiteName
<1> QED
  BY <1>1, <1>2, <1>3, <1>6 DEF Perf!IsPrefix

LEMMA AddedSuite ==
  ASSUME NEW list \in Seq(SuiteName), NEW s \in SuiteName,
         NEW name \in SuiteName, NEW resource \in BOOLEAN
  PROVE  /\ Perf!Hits(list, name, resource) # {} =>
              /\ Perf!Hits(Append(list, s), name, resource) # {}
              /\ Perf!Suite(Append(list, s), name, resource) = Perf!Suite(list, name, resource)
         /\ Perf!Hits(list, name, resource) = {} /\ s = name =>
              /\ Perf!Hits(Append(list, s), name, resource) # {}
              /\ Perf!Suite(Append(list, s), name, resource) = name
         /\ Perf!Hits(list, name, resource) = {} /\ resource /\ ~Perf!IsPrefix(<<"r">>, name) =>
              Perf!Suite(Append(list, s), name, resource) = name
<1> DEFINE more == Append(list, s)
           before == Perf!Hits(list, name, resource)
           after == Perf!Hits(more, name, resource)
           new == Len(list) + 1
<1>1. /\ DOMAIN more = 1 .. new /\ DOMAIN list = 1 .. Len(list) /\ Len(list) \in Nat
      /\ more[new] = s /\ \A i \in 1 .. Len(list) : more[i] = list[i]
  BY AppendProperties
<1> HIDE DEF more
<1>2. before \subseteq 1 .. Len(list)
  BY <1>1 DEF Perf!Hits
<1>3. before \subseteq after /\ after \subseteq before \cup {new}
  BY <1>1 DEF Perf!Hits
<1>4. new \in after <=> \/ s = name \/ Perf!Begins(s, name, resource)
                         \/ Perf!IsPrefix(<<"r">> \o s, name)
  BY <1>1 DEF Perf!Hits
<1>5. Perf!Suite(more, name, resource) =
        IF after = {} THEN name
        ELSE IF more[Perf!Min(after)] = name \/ Perf!Begins(more[Perf!Min(after)], name, resource)
             THEN more[Perf!Min(after)] ELSE <<"r">> \o more[Perf!Min(after)]
  BY DEF Perf!Suite
<1>6. Perf!Suite(list, name, resource) =
        IF before = {} THEN name
        ELSE IF list[Perf!Min(before)] = name \/ Perf!Begins(list[Perf!Min(before)], name, resource)
             THEN list[Perf!Min(before)] ELSE <<"r">> \o list[Perf!Min(before)]
  BY DEF Perf!Suite
<1> HIDE DEF before, after
<1>7. ASSUME before # {} PROVE Perf!Min(after) = Perf!Min(before) /\ Perf!Min(before) \in before
  <2>1. PICK i \in before : \A j \in before : i <= j
    <3>1. before \subseteq Nat
      BY <1>1, <1>2
    <3> QED
      BY <1>7, <3>1, LeastOf
  <2>2. i \in after /\ (\A j \in after : i <= j) /\ i \in Nat
    BY <1>1, <1>2, <1>3, <2>1
  <2>3. before \subseteq Int /\ after \subseteq Int
    BY <1>1, <1>2, <1>3
  <2>4. Perf!Min(before) = i
    <3>1. Perf!Min(before) \in before /\ \A j \in before : Perf!Min(before) <= j
      BY <2>1 DEF Perf!Min
    <3>2. Perf!Min(before) \in Int /\ i \in Int
      BY <2>3, <3>1
    <3>3. Perf!Min(before) <= i /\ i <= Perf!Min(before)
      BY <2>1, <3>1
    <3> HIDE DEF Perf!Min
    <3> QED
      BY <3>2, <3>3
  <2>5. Perf!Min(after) = i
    <3>1. Perf!Min(after) \in after /\ \A j \in after : Perf!Min(after) <= j
      BY <2>2 DEF Perf!Min
    <3>2. Perf!Min(after) \in Int /\ i \in Int
      BY <2>3, <3>1, Zenon
    <3>3. Perf!Min(after) <= i /\ i <= Perf!Min(after)
      BY <2>2, <3>1
    <3> HIDE DEF Perf!Min
    <3> QED
      BY <3>2, <3>3
  <2> QED
    BY <2>1, <2>4, <2>5
<1>8. ASSUME before = {}, new \in after PROVE Perf!Min(after) = new
  <2>1. after = {new} /\ new <= new
    BY <1>1, <1>3, <1>8
  <2> QED
    BY <2>1 DEF Perf!Min
<1>9. before # {} => after # {} /\ Perf!Suite(more, name, resource) = Perf!Suite(list, name, resource)
  <2>1. ASSUME before # {} PROVE list[Perf!Min(before)] = more[Perf!Min(after)]
    BY <1>1, <1>2, <1>7, <2>1
  <2> QED
    BY <1>3, <1>5, <1>6, <2>1
<1>10. before = {} /\ s = name => after # {} /\ Perf!Suite(more, name, resource) = name
  BY <1>1, <1>4, <1>5, <1>8
<1>11. ASSUME before = {}, resource, ~Perf!IsPrefix(<<"r">>, name)
       PROVE  Perf!Suite(more, name, resource) = name
  <2>1. ~Perf!IsPrefix(<<"r">> \o s, name)
    BY <1>11, RemoteBegins
  <2>2. new \in after => s = name
    BY <1>4, <1>11, <2>1 DEF Perf!Begins
  <2>3. new \notin after => after = {}
    BY <1>3, <1>11
  <2> QED
    BY <1>5, <1>10, <1>11, <2>2, <2>3
<1> QED
  BY <1>9, <1>10, <1>11 DEF more, before, after

(* Of a resource that no known name starts, the name itself is taken.      *)
LEMMA AddedResource ==
  ASSUME NEW list \in Seq(SuiteName), NEW s \in SuiteName, NEW name \in SuiteName,
         Perf!Hits(list, name, TRUE) = {}, ~Perf!IsPrefix(<<"r">>, name)
  PROVE  Perf!Suite(Append(list, s), name, TRUE) = name
BY AddedSuite, TRUE \in BOOLEAN, Zenon

LEMMA SuiteTypes ==
  /\ Suites \subseteq SuiteName /\ <<Dromaeo>> \in Seq(SuiteName)
  /\ \A list \in Seq(SuiteName), name \in SuiteName, resource \in BOOLEAN :
       Perf!Suite(list, name, resource) \in SuiteName
<1>1. /\ <<"a">> \in Seq(SuiteParts) /\ <<"d">> \in Seq(SuiteParts)
      /\ <<"r">> \in Seq(SuiteParts)
      /\ <<"a","b">> \in Seq(SuiteParts) /\ <<"a","c">> \in Seq(SuiteParts)
      /\ <<"d","x">> \in Seq(SuiteParts) /\ <<"r","a","b">> \in Seq(SuiteParts)
  <2>1. {"a", "b", "c", "d", "r", "x"} \subseteq SuiteParts
    BY DEF SuiteParts
  <2>2. \A p \in SuiteParts : <<p>> \in Seq(SuiteParts)
    OBVIOUS
  <2>3. \A p, q \in SuiteParts : <<p, q>> \in Seq(SuiteParts)
    OBVIOUS
  <2>4. \A p, q, s \in SuiteParts : <<p, q, s>> \in Seq(SuiteParts)
    OBVIOUS
  <2> QED
    BY <2>1, <2>2, <2>3, <2>4
<1>2. Suites \subseteq SuiteName
  BY <1>1 DEF Suites, SuiteName
<1>3. <<Dromaeo>> \in Seq(SuiteName)
  BY <1>1 DEF Dromaeo, SuiteName
<1>4. ASSUME NEW list \in Seq(SuiteName), NEW name \in SuiteName, NEW resource \in BOOLEAN
      PROVE  Perf!Suite(list, name, resource) \in SuiteName
  <2> DEFINE hits == Perf!Hits(list, name, resource)
             s == list[Perf!Min(hits)]
  <2>1. CASE hits = {}
    BY <2>1 DEF Perf!Suite
  <2>2. CASE hits # {}
    <3>1. hits \subseteq Nat /\ hits \subseteq DOMAIN list
      BY DEF Perf!Hits
    <3>2. Perf!Min(hits) \in hits
      BY <2>2, <3>1, LeastOf DEF Perf!Min
    <3>3. s \in SuiteName
      BY <3>1, <3>2
    <3>4. <<"r">> \o s \in SuiteName
      BY <1>1, <3>3, ConcatProperties DEF SuiteName
    <3>5. Perf!Suite(list, name, resource) \in {s, <<"r">> \o s}
      BY <2>2 DEF Perf!Suite
    <3> QED
      BY <3>3, <3>4, <3>5
  <2> QED
    BY <2>1, <2>2
<1> QED
  BY <1>2, <1>3, <1>4

LEMMA NoNameIsNoSuite == NoName \notin Suites /\ Reader \in EtlThreads
BY LogsAssumption DEF Perf!PerfAssumption

(* A search changes nothing for the names that were recognized before.     *)
LEMMA SuiteRecognized ==
  ASSUME PerfInv, NEW t \in EtlThreads, NEW name \in Suites, NEW resource \in BOOLEAN,
         Perf!Recognize(t, name, resource)
  PROVE  PerfInv'
<1> DEFINE n0 == [name |-> name, resource |-> resource,
                  suite |-> Perf!Suite(suites, name, resource)]
           l0 == IF Perf!Unknown(name, resource) THEN name ELSE NoName
<1>1. /\ name \in SuiteName /\ suites \in Seq(SuiteName) /\ named \subseteq Naming
      /\ learning \in [EtlThreads -> Suites \cup {NoName}]
  BY SuiteTypes DEF PerfInv
<1>2. /\ learning[t] = NoName /\ learning' = [learning EXCEPT ![t] = l0]
      /\ named' = named \cup {n0} /\ suites' = suites /\ overtaken' = overtaken
  BY DEF Perf!Recognize
<1>3. n0 \in Naming
  BY <1>1, SuiteTypes DEF Naming
<1>4. l0 \in Suites \cup {NoName}
  OBVIOUS
<1>5. learning' \in [EtlThreads -> Suites \cup {NoName}] /\ learning'[t] = l0
      /\ \A u \in EtlThreads \ {t} : learning'[u] = learning[u]
  BY <1>1, <1>2, <1>4
<1>6. Waiting \subseteq Waiting'
  BY <1>2, <1>5 DEF Waiting
<1>7. PICK z : /\ z = n0 /\ z.name = name /\ z.resource = resource
               /\ z.suite = Perf!Suite(suites, name, resource)
  <2>1. n0.name = name /\ n0.resource = resource /\ n0.suite = Perf!Suite(suites, name, resource)
    OBVIOUS
  <2> HIDE DEF n0
  <2> QED
    BY <2>1
<1>8. Perf!Unknown(name, resource) => name \in Waiting'
  BY <1>5, NoNameIsNoSuite DEF Waiting
<1>9. Perf!Hits(suites, name, resource) # {} \/ resource \/ name \in {<<"a","c">>}
      \/ name \in Waiting'
  BY <1>8 DEF Perf!Unknown
<1> HIDE DEF n0, l0
<1>10. Perf!Floating(z) \/ Settled(z)'
  BY <1>2, <1>7, <1>9, Zenon DEF Settled, Perf!Floating
<1>11. ASSUME NEW n \in named PROVE Perf!Floating(n) \/ Settled(n)' \/ Overtaken(n)'
  <2>1. Perf!Floating(n) \/ Settled(n) \/ Overtaken(n)
    BY DEF PerfInv
  <2> QED BY <1>2, <1>6, <2>1 DEF Settled, Overtaken
<1>12. \A n \in named' : Perf!Floating(n) \/ Settled(n)' \/ Overtaken(n)'
  <2>1. named' = named \cup {z}
    BY <1>2, <1>7
  <2> QED
    BY <1>10, <1>11, <2>1
<1> QED
  BY <1>1, <1>2, <1>3, <1>5, <1>12 DEF PerfInv, Perf!Floating

(* What a thread adds overtakes the names that begin with it and wait.     *)
LEMMA SuiteLearned ==
  ASSUME PerfInv, NEW t \in EtlThreads, Perf!Learn(t)
  PROVE  PerfInv'
<1> DEFINE s == learning[t]
<1>1. /\ suites \in Seq(SuiteName) /\ named \subseteq Naming
      /\ learning \in [EtlThreads -> Suites \cup {NoName}]
  BY DEF PerfInv
<1>2. /\ s # NoName /\ suites' = Append(suites, s) /\ named' = named
      /\ learning' = [learning EXCEPT ![t] = NoName]
      /\ overtaken' = overtaken \cup {m \in Waiting : Perf!Suite(suites', m, FALSE) # m}
  BY DEF Perf!Learn, Perf!Learned, Waiting
<1>3. s \in SuiteName
  BY <1>1, <1>2, SuiteTypes
<1>4. \A m \in Waiting : m = s \/ m \in Waiting'
  <2>1. ASSUME NEW u \in EtlThreads, learning[u] # NoName, learning[u] # s
        PROVE  learning[u] \in Waiting'
    <3>1. u # t
      BY <2>1
    <3>2. learning'[u] = learning[u]
      BY <1>1, <1>2, <3>1
    <3> QED BY <2>1, <3>2 DEF Waiting
  <2> QED BY <2>1 DEF Waiting
<1>5. suites' \in Seq(SuiteName) /\ learning' \in [EtlThreads -> Suites \cup {NoName}]
  BY <1>1, <1>2, <1>3
<1> HIDE DEF s
<1>6. ASSUME NEW n \in named PROVE Perf!Floating(n) \/ Settled(n)' \/ Overtaken(n)'
  <2> DEFINE nm == n.name
             r == n.resource
  <2>1. nm \in SuiteName /\ r \in BOOLEAN
    BY <1>1 DEF Naming
  <2>2. Perf!Floating(n) \/ Settled(n) \/ Overtaken(n)
    BY DEF PerfInv
  <2>3. CASE Perf!Hits(suites, nm, r) # {}
    <3>1. /\ Perf!Hits(suites', nm, r) # {}
          /\ Perf!Suite(suites', nm, r) = Perf!Suite(suites, nm, r)
      BY <1>1, <1>2, <1>3, <2>1, <2>3, AddedSuite
    <3> QED BY <1>2, <2>2, <3>1 DEF Settled, Overtaken
  <2>4. ASSUME Perf!Hits(suites, nm, r) = {}, Settled(n), ~Perf!Floating(n)
        PROVE  Settled(n)' \/ Overtaken(n)'
    <3>1. n.suite = nm
      BY <2>4 DEF Settled, Perf!Suite
    <3>2. CASE r
      <4>1. r = TRUE /\ ~Perf!IsPrefix(<<"r">>, nm)
        BY <2>1, <2>4, <3>2 DEF Perf!Floating
      <4>2. Perf!Hits(suites, nm, TRUE) = {}
        BY <2>4, <4>1, Zenon
      <4> HIDE DEF nm, r
      <4>3. Perf!Suite(Append(suites, s), nm, TRUE) = nm
        BY <1>1, <1>3, <2>1, <4>1, <4>2, AddedResource, Zenon
      <4>4. Perf!Suite(suites', nm, r) = nm
        BY <1>2, <4>1, <4>3, Zenon
      <4> QED BY <3>1, <3>2, <4>4, Zenon DEF Settled, nm, r
    <3>3. CASE ~r
      <4>1. r = FALSE /\ nm \in Waiting
        BY <2>1, <2>4, <3>3 DEF Settled
      <4>2. CASE s = nm
        <5>1. Perf!Hits(suites', nm, r) # {} /\ Perf!Suite(suites', nm, r) = nm
          BY <1>1, <1>2, <2>1, <2>4, <4>2, AddedSuite
        <5> QED BY <3>1, <5>1 DEF Settled
      <4>3. CASE s # nm /\ Perf!Suite(suites', nm, FALSE) = nm
        <5>1. nm \in Waiting'
          BY <1>4, <4>1, <4>3
        <5> QED BY <3>1, <4>1, <4>3, <5>1 DEF Settled
      <4>4. CASE Perf!Suite(suites', nm, FALSE) # nm
        <5>1. nm \in overtaken'
          BY <1>2, <4>1, <4>4
        <5>2. Perf!Hits(suites', nm, FALSE) # {}
          BY <4>4 DEF Perf!Suite
        <5> QED BY <3>1, <4>1, <5>1, <5>2, Zenon DEF Overtaken
      <4> QED BY <4>2, <4>3, <4>4
    <3> QED BY <3>2, <3>3
  <2>5. CASE Perf!Hits(suites, nm, r) = {}
    <3>1. ~Overtaken(n)
      BY <2>5 DEF Overtaken
    <3> QED BY <2>2, <2>4, <2>5, <3>1
  <2> QED
    BY <2>3, <2>5
<1> QED
  BY <1>1, <1>2, <1>5, <1>6 DEF PerfInv, Perf!Floating

LEMMA SuiteStep ==
  ASSUME PerfInv, [Perf!Next]_perfVars PROVE PerfInv'
<1>1. CASE UNCHANGED <<suites, learning, named, overtaken>>
  BY <1>1 DEF PerfInv, Perf!Floating, Settled, Overtaken, Waiting
<1>2. ASSUME NEW name \in Suites, NEW resource \in BOOLEAN,
             \/ Perf!NamedRecord(name, resource)
             \/ \E t \in EtlThreads : Perf!OtherRecord(t, name, resource)
      PROVE  PerfInv'
  <2>1. \E t \in EtlThreads : Perf!Recognize(t, name, resource)
    BY <1>2, NoNameIsNoSuite DEF Perf!NamedRecord, Perf!OtherRecord
  <2> QED
    BY <2>1, SuiteRecognized
<1>3. ASSUME NEW t \in EtlThreads, Perf!Learn(t) PROVE PerfInv'
  BY <1>3, SuiteLearned
<1>4. CASE Perf!Restart
  BY <1>4, SuiteTypes DEF Perf!Restart, PerfInv
<1>5. CASE Perf!Begin \/ Perf!SkipLine \/ Perf!EmptyRecord \/ Perf!PlainRecord \/ Perf!BareRecord
  BY <1>1, <1>5 DEF Perf!Begin, Perf!SkipLine, Perf!EmptyRecord, Perf!PlainRecord,
     Perf!BareRecord, Perf!Unnamed, Perf!NamedLine, Perf!Line, Perf!listVars
<1>6. CASE Perf!Abandon \/ Perf!Finish \/ UNCHANGED perfVars
  BY <1>1, <1>6 DEF Perf!Abandon, Perf!Finish, perfVars, Perf!listVars
<1>7. CASE \E replicates \in {<<3>>} : Perf!TestsRecord(replicates)
  BY <1>1, <1>7 DEF Perf!TestsRecord, Perf!NamedLine, Perf!Line, Perf!listVars
<1> QED
  BY <1>2, <1>3, <1>4, <1>5, <1>6, <1>7 DEF Perf!Next

(* The rows of a test have its replicates, each of them in one row: chunk  *)
(* g of a chunked suite those from g * ChunkSize on.                       *)
RowsAt(rows, g) == {r \in rows : r.line = g.line /\ r.test = g.test}

Parted(rows, g) ==
  /\ UNION {r.samples : r \in RowsAt(rows, g)} = g.samples
  /\ \A r, s \in RowsAt(rows, g) : r # s => r.samples \cap s.samples = {}

SamplesInv ==
  /\ perf_line \in Nat
  /\ \A r \in records \cup given : r.line \in Nat /\ r.line < perf_line
  /\ \A g \in given : Parted(records, g)
  /\ \A g \in perf_given : Parted(perf_rows, g)

LEMMA ChunkSizes == ChunkSize \in Nat \ {0}
  BY LogsAssumption DEF Perf!PerfAssumption

LEMMA RowIs ==
  ASSUME NEW k, NEW g, NEW S
  PROVE  /\ Perf!Row(k, g, S).line = perf_line /\ Perf!Row(k, g, S).test = k
         /\ Perf!Row(k, g, S).group = g /\ Perf!Row(k, g, S).samples = S
  BY DEF Perf!Row

(* The replicates of chunk g of n.                                         *)
InChunk(g, n) == {i \in 1 .. n : g * ChunkSize < i /\ i <= (g + 1) * ChunkSize}

LEMMA ChunksPart ==
  ASSUME NEW n \in Nat
  PROVE  /\ \A i \in 1 .. n : \E g \in 0 .. n : g * ChunkSize < n /\ i \in InChunk(g, n)
         /\ \A g, h \in 0 .. n : \A i \in InChunk(g, n) \cap InChunk(h, n) : g = h
<1>1. ASSUME NEW i \in 1 .. n
      PROVE  \E g \in 0 .. n : g * ChunkSize < n /\ i \in InChunk(g, n)
  <2> DEFINE g == (i - 1) \div ChunkSize
  <2>1. i - 1 \in Int /\ 0 <= i - 1 /\ i - 1 < n
    OBVIOUS
  <2>2. /\ g \in Int /\ (i - 1) % ChunkSize \in Int
        /\ i - 1 = ChunkSize * g + ((i - 1) % ChunkSize)
        /\ 0 <= (i - 1) % ChunkSize /\ (i - 1) % ChunkSize < ChunkSize
    BY <2>1, ChunkSizes, Division
  <2> HIDE DEF g
  <2>3. 0 <= g
    <3>1. ChunkSize * 0 < ChunkSize * g + ChunkSize
      BY <2>1, <2>2, ChunkSizes
    <3> QED BY <2>2, <3>1, ChunkSizes, Multiples
  <2>4. g <= ChunkSize * g
    <3>1. \A x, y \in Nat : x # 0 => y <= x * y
      OBVIOUS
    <3> QED BY <2>2, <2>3, <3>1, ChunkSizes
  <2>5. ChunkSize * g \in Int /\ g * ChunkSize = ChunkSize * g
        /\ (g + 1) * ChunkSize = ChunkSize * g + ChunkSize
    BY <2>2, ChunkSizes
  <2>6. g \in 0 .. n /\ g * ChunkSize < n
    BY <2>1, <2>2, <2>3, <2>4, <2>5
  <2>7. g * ChunkSize < i /\ i <= (g + 1) * ChunkSize
    BY <2>1, <2>2, <2>5, ChunkSizes
  <2> QED BY <2>6, <2>7 DEF InChunk
<1>2. ASSUME NEW g \in 0 .. n, NEW h \in 0 .. n, NEW i \in InChunk(g, n) \cap InChunk(h, n)
      PROVE  g = h
  <2>1. /\ i \in Int /\ g * ChunkSize < i /\ i <= (g + 1) * ChunkSize
        /\ h * ChunkSize < i /\ i <= (h + 1) * ChunkSize
    BY DEF InChunk
  <2>2. \A x \in Int : x * ChunkSize = ChunkSize * x /\ (x + 1) * ChunkSize = ChunkSize * x + ChunkSize
                       /\ ChunkSize * x \in Int
    BY ChunkSizes
  <2>3. ChunkSize * g < ChunkSize * h + ChunkSize /\ ChunkSize * h < ChunkSize * g + ChunkSize
    BY <2>1, <2>2, ChunkSizes
  <2>4. g <= h /\ h <= g
    BY <2>3, ChunkSizes, Multiples
  <2> QED BY <2>4
<1> QED BY <1>1, <1>2

LEMMA ChunksHaveAll ==
  ASSUME NEW k, NEW n \in Nat
  PROVE  /\ UNION {r.samples : r \in Perf!Chunks(k, n)} = 1 .. n
         /\ \A r, s \in Perf!Chunks(k, n) : r # s => r.samples \cap s.samples = {}
         /\ \A r \in Perf!Chunks(k, n) : r.line = perf_line /\ r.test = k
<1> DEFINE G == {h \in 0 .. n : h * ChunkSize < n}
<1>1. Perf!Chunks(k, n) = {Perf!Row(k, g, InChunk(g, n)) : g \in G}
  BY DEF Perf!Chunks, InChunk
<1>2. \A g \in G : InChunk(g, n) \subseteq 1 .. n /\ g \in 0 .. n
  BY DEF InChunk
<1>3. \A i \in 1 .. n : \E g \in G : i \in InChunk(g, n)
  BY ChunksPart
<1>4. \A g, h \in G : \A i \in InChunk(g, n) \cap InChunk(h, n) : g = h
  BY ChunksPart
<1> HIDE DEF G
<1>5. UNION {r.samples : r \in Perf!Chunks(k, n)} = 1 .. n
  <2>1. ASSUME NEW r \in Perf!Chunks(k, n) PROVE r.samples \subseteq 1 .. n
    BY <1>1, <1>2, RowIs
  <2>2. ASSUME NEW i \in 1 .. n PROVE \E r \in Perf!Chunks(k, n) : i \in r.samples
    BY <1>1, <1>3, RowIs
  <2> QED BY <2>1, <2>2
<1>6. ASSUME NEW r \in Perf!Chunks(k, n), NEW s \in Perf!Chunks(k, n), r # s
      PROVE  r.samples \cap s.samples = {}
  <2>1. PICK g \in G : r = Perf!Row(k, g, InChunk(g, n))
    BY <1>1
  <2>2. PICK h \in G : s = Perf!Row(k, h, InChunk(h, n))
    BY <1>1
  <2>3. g # h
    BY <1>6, <2>1, <2>2
  <2>4. r.samples = InChunk(g, n) /\ s.samples = InChunk(h, n)
    BY <2>1, <2>2, RowIs
  <2> QED BY <1>4, <2>3, <2>4
<1>7. \A r \in Perf!Chunks(k, n) : r.line = perf_line /\ r.test = k
  BY <1>1, RowIs
<1> QED BY <1>5, <1>6, <1>7

(* What a record gives, whatever its suite is.                             *)
LEMMA TestsArePartedByRows ==
  ASSUME NEW suite, NEW replicates \in Seq(Nat)
  PROVE  /\ \A r \in Perf!TestRows(suite, replicates) :
              r.line = perf_line /\ \E k, g, S : r = Perf!Row(k, g, S)
         /\ \A k \in DOMAIN replicates :
              Parted(Perf!TestRows(suite, replicates), Perf!Row(k, 0, 1 .. replicates[k]))
<1> DEFINE Of(k) == IF suite \in {Dromaeo} THEN Perf!Chunks(k, replicates[k])
                    ELSE {Perf!Row(k, 0, 1 .. replicates[k])}
           T == Perf!TestRows(suite, replicates)
<1>1. T = UNION {Of(k) : k \in DOMAIN replicates}
  BY DEF Perf!TestRows
<1>2. ASSUME NEW k \in DOMAIN replicates
      PROVE  /\ UNION {r.samples : r \in Of(k)} = 1 .. replicates[k]
             /\ \A r, s \in Of(k) : r # s => r.samples \cap s.samples = {}
             /\ \A r \in Of(k) : r.line = perf_line /\ r.test = k
  <2>1. replicates[k] \in Nat
    OBVIOUS
  <2>2. CASE suite \in {Dromaeo}
    BY <2>1, <2>2, ChunksHaveAll
  <2>3. CASE suite \notin {Dromaeo}
    <3>1. Of(k) = {Perf!Row(k, 0, 1 .. replicates[k])}
      BY <2>3
    <3> HIDE DEF Of
    <3> QED BY <3>1, RowIs
  <2> QED BY <2>2, <2>3
<1>5. \A r \in T : \E k, g, S : r = Perf!Row(k, g, S)
  <2>1. ASSUME NEW k \in DOMAIN replicates, NEW r \in Of(k)
        PROVE  \E j, g, S : r = Perf!Row(j, g, S)
    <3>1. CASE suite \in {Dromaeo}
      BY <3>1 DEF Perf!Chunks
    <3>2. CASE suite \notin {Dromaeo}
      BY <3>2
    <3> QED BY <3>1, <3>2
  <2> HIDE DEF Of, T
  <2> QED BY <1>1, <2>1
<1> HIDE DEF Of, T
<1>3. \A r \in T : r.line = perf_line
  BY <1>1, <1>2
<1>4. ASSUME NEW k \in DOMAIN replicates PROVE Parted(T, Perf!Row(k, 0, 1 .. replicates[k]))
  <2>1. RowsAt(T, Perf!Row(k, 0, 1 .. replicates[k])) = Of(k)
    <3>1. \A r : r \in T <=> \E j \in DOMAIN replicates : r \in Of(j)
      BY <1>1
    <3>2. \A r \in T : r.test = k <=> r \in Of(k)
      BY <3>1, <1>2
    <3> QED BY <1>3, <3>1, <3>2, RowIs DEF RowsAt
  <2> QED BY <1>2, <2>1, RowIs DEF Parted
<1> QED BY <1>3, <1>4, <1>5 DEF T

(* A row without moments leaves the replicates of the others.              *)
LEMMA StatsKeepTheParts ==
  ASSUME NEW rows, NEW hopeless \in SUBSET rows, NEW k, NEW n \in Nat,
         \A r \in rows : r.line = perf_line /\ \E j, g, S : r = Perf!Row(j, g, S),
         Parted(rows, Perf!Row(k, 0, 1 .. n))
  PROVE  Parted(Perf!Stats(rows, hopeless), Perf!Row(k, 0, Perf!WithMoments(k, n, hopeless)))
<1> DEFINE Bare(r) == [r EXCEPT !.samples = {}]
           Kept == Perf!Stats(rows, hopeless)
           At == {r \in Kept : r.line = perf_line /\ r.test = k}
           Mine == {r \in rows : r.test = k}
<1>1. ASSUME NEW r \in rows
      PROVE  Bare(r).line = perf_line /\ Bare(r).test = r.test /\ Bare(r).samples = {}
  <2>1. PICK j, g, S : r = Perf!Row(j, g, S)
    OBVIOUS
  <2> QED BY <2>1 DEF Perf!Row
<1>2. /\ UNION {r.samples : r \in Mine} = 1 .. n
      /\ \A r, q \in Mine : r # q => r.samples \cap q.samples = {}
  <2>1. RowsAt(rows, Perf!Row(k, 0, 1 .. n)) = Mine
    BY RowIs DEF RowsAt
  <2> QED BY <2>1, RowIs DEF Parted
<1>3. \A q : q \in Kept <=> \E r \in rows : q = IF r \in hopeless THEN Bare(r) ELSE r
  BY DEF Perf!Stats
<1> HIDE DEF Bare, Kept
<1>4. \A q \in At : q.samples = {} \/ (q \in Mine /\ q \notin hopeless)
  BY <1>1, <1>3
<1>5. \A r \in Mine : r \notin hopeless => r \in At
  BY <1>3
<1> HIDE DEF At
<1>6. ASSUME NEW i \in 1 .. n, \A r \in hopeless : r.test = k => i \notin r.samples
      PROVE  \E q \in At : i \in q.samples
  <2>1. PICK r \in Mine : i \in r.samples
    BY <1>2
  <2> QED BY <1>5, <1>6, <2>1
<1>7. ASSUME NEW q \in At, NEW i \in q.samples
      PROVE  i \in 1 .. n /\ \A r \in hopeless : r.test = k => i \notin r.samples
  <2>1. q \in Mine /\ q \notin hopeless
    BY <1>4, <1>7
  <2>2. ASSUME NEW r \in hopeless, r.test = k PROVE i \notin r.samples
    <3>1. r \in Mine /\ r # q
      BY <2>1, <2>2
    <3> QED BY <1>2, <1>7, <2>1, <3>1
  <2> QED BY <1>2, <1>7, <2>1, <2>2
<1>8. UNION {q.samples : q \in At} = Perf!WithMoments(k, n, hopeless)
  BY <1>6, <1>7 DEF Perf!WithMoments
<1>9. \A r, q \in At : r # q => r.samples \cap q.samples = {}
  BY <1>2, <1>4
<1>10. RowsAt(Kept, Perf!Row(k, 0, Perf!WithMoments(k, n, hopeless))) = At
  BY RowIs DEF RowsAt, At
<1> QED BY <1>8, <1>9, <1>10, RowIs DEF Parted, Kept

(* A line adds rows of its own.                                            *)
LEMMA LineAddsRows ==
  ASSUME SamplesInv, NEW N, NEW G, \A r \in N \cup G : r.line = perf_line,
         \A g \in G : Parted(N, g),
         records' = records \cup N, given' = given \cup G, perf_line' = perf_line + 1,
         UNCHANGED <<perf_rows, perf_given>>
  PROVE  SamplesInv'
<1>1. perf_line \in Nat /\ \A r \in records \cup given : r.line \in Nat /\ r.line < perf_line
  BY DEF SamplesInv
<1>2. \A g \in given : RowsAt(records', g) = RowsAt(records, g)
  BY <1>1 DEF RowsAt
<1>3. \A g \in G : RowsAt(records', g) = RowsAt(N, g)
  BY <1>1 DEF RowsAt
<1>4. ASSUME NEW g \in given' PROVE Parted(records', g)
  <2>1. CASE g \in given
    <3>1. Parted(records, g)
      BY <2>1 DEF SamplesInv
    <3> QED BY <2>1, <3>1, <1>2 DEF Parted
  <2>2. CASE g \in G
    BY <2>2, <1>3 DEF Parted
  <2> QED BY <2>1, <2>2
<1>5. perf_line' \in Nat /\ \A r \in records' \cup given' : r.line \in Nat /\ r.line < perf_line'
  BY <1>1
<1>6. \A g \in perf_given' : Parted(perf_rows', g)
  BY DEF SamplesInv
<1> QED BY <1>4, <1>5, <1>6 DEF SamplesInv

LEMMA SamplesStep ==
  ASSUME SamplesInv, [Perf!Next]_perfVars PROVE SamplesInv'
<1>1. ASSUME UNCHANGED <<perf_rows, perf_given>>, perf_line' = 0, records' = {}, given' = {}
      PROVE  SamplesInv'
  BY <1>1 DEF SamplesInv
<1>2. CASE Perf!Begin \/ Perf!Abandon \/ Perf!Restart
  BY <1>1, <1>2 DEF Perf!Begin, Perf!Abandon, Perf!Restart, Perf!doneVars
<1>3. CASE Perf!SkipLine \/ Perf!BareRecord \/ Perf!EmptyRecord
  <2> DEFINE none == {}
             N == {Perf!Row(0, 0, none)}
  <2>1. /\ records' = records \cup N \/ records' = records
        /\ given' = given \cup none /\ perf_line' = perf_line + 1
        /\ UNCHANGED <<perf_rows, perf_given>>
    BY <1>3 DEF Perf!SkipLine, Perf!BareRecord, Perf!EmptyRecord, Perf!Unnamed,
       Perf!NamedLine, Perf!Line, Perf!doneVars
  <2>2. \A r \in N : r.line = perf_line
    BY RowIs
  <2> HIDE DEF N
  <2>3. PICK M \in {N, none} : records' = records \cup M
    BY <2>1
  <2>4. \A r \in M \cup none : r.line = perf_line
    BY <2>2
  <2>5. \A g \in none : Parted(M, g)
    OBVIOUS
  <2> HIDE DEF none
  <2> QED BY <2>1, <2>3, <2>4, <2>5, LineAddsRows
<1>4. CASE UNCHANGED <<perf_line, records, given, perf_rows, perf_given>>
  BY <1>4 DEF SamplesInv, Parted, RowsAt
<1>5. ASSUME NEW replicates \in Seq(Nat), Perf!TestsRecord(replicates)
      PROVE  SamplesInv'
  <2> DEFINE rows == Perf!TestRows(perf_suite, replicates)
  <2>1. PICK hopeless \in SUBSET rows :
          /\ records' = records \cup Perf!Stats(rows, hopeless)
          /\ given' = given \cup {Perf!Row(k, 0, Perf!WithMoments(k, replicates[k], hopeless)) :
                                   k \in DOMAIN replicates}
    BY <1>5 DEF Perf!TestsRecord
  <2> DEFINE N == Perf!Stats(rows, hopeless)
             G == {Perf!Row(k, 0, Perf!WithMoments(k, replicates[k], hopeless)) :
                     k \in DOMAIN replicates}
  <2>2. perf_line' = perf_line + 1 /\ UNCHANGED <<perf_rows, perf_given>>
    BY <1>5 DEF Perf!TestsRecord, Perf!NamedLine, Perf!Line, Perf!doneVars
  <2>3. /\ \A r \in rows : r.line = perf_line /\ \E k, g, S : r = Perf!Row(k, g, S)
        /\ \A k \in DOMAIN replicates : Parted(rows, Perf!Row(k, 0, 1 .. replicates[k]))
    BY TestsArePartedByRows
  <2> HIDE DEF rows
  <2>4. \A r \in N : r.line = perf_line
    <3>1. ASSUME NEW r \in rows PROVE [r EXCEPT !.samples = {}].line = perf_line
      BY <2>3 DEF Perf!Row
    <3> QED BY <2>3, <3>1 DEF Perf!Stats
  <2>5. \A r \in G : r.line = perf_line
    BY RowIs
  <2>6. ASSUME NEW k \in DOMAIN replicates
        PROVE  Parted(N, Perf!Row(k, 0, Perf!WithMoments(k, replicates[k], hopeless)))
    <3>1. replicates[k] \in Nat
      OBVIOUS
    <3> QED BY <2>3, <3>1, StatsKeepTheParts
  <2>7. \A g \in G : Parted(N, g)
    BY <2>6
  <2>8. records' = records \cup N /\ given' = given \cup G
    BY <2>1
  <2> HIDE DEF N, G
  <2> QED BY <2>2, <2>4, <2>5, <2>7, <2>8, LineAddsRows
<1>6. CASE Perf!PlainRecord
  <2> DEFINE N == {Perf!Row(0, 0, {1})}
  <2>1. /\ records' = records \cup N /\ given' = given \cup N /\ perf_line' = perf_line + 1
        /\ UNCHANGED <<perf_rows, perf_given>>
    BY <1>6 DEF Perf!PlainRecord, Perf!NamedLine, Perf!Line, Perf!doneVars
  <2>2. \A r \in N \cup N : r.line = perf_line
    BY RowIs
  <2>3. \A g \in N : RowsAt(N, g) = N
    BY DEF RowsAt
  <2>4. \A g \in N : Parted(N, g)
    BY <2>3 DEF Parted
  <2> HIDE DEF N
  <2> QED BY <2>1, <2>2, <2>4, LineAddsRows
<1>7. ASSUME NEW name, NEW resource, NEW t,
             \/ Perf!NamedRecord(name, resource) \/ Perf!OtherRecord(t, name, resource)
             \/ Perf!Learn(t)
      PROVE  SamplesInv'
  BY <1>4, <1>7 DEF Perf!NamedRecord, Perf!OtherRecord, Perf!Learn, Perf!rowVars, Perf!doneVars
<1>8. CASE Perf!Finish
  BY <1>8 DEF Perf!Finish, SamplesInv, Parted, RowsAt
<1>9. CASE UNCHANGED perfVars
  BY <1>9 DEF perfVars, SamplesInv, Parted, RowsAt
<1>10. \A replicates \in {<<3>>} : replicates \in Seq(Nat)
  <2>1. \A x \in Nat : <<x>> \in Seq(Nat)
    OBVIOUS
  <2>2. <<3>> \in Seq(Nat)
    BY <2>1
  <2> QED BY <2>2
<1> QED
  BY <1>2, <1>3, <1>5, <1>6, <1>7, <1>8, <1>9, <1>10 DEF Perf!Next

(* The recognition of suites: in a process a suite keeps the name it was   *)
(* given first, whatever is learned later and by whatever threads, unless  *)
(* its browser decided it, it is remote and was not learned from, or       *)
(* another thread added what begins it before its own thread added it,     *)
(* which gives it two names and no more; and of a block that is written    *)
(* each replicate of a series with moments is in one row, however many     *)
(* chunks the test is cut in (perfherder_logs_to_perf_logs.py 52-393).     *)
THEOREM SuitesAreTrue == Perf!Spec => []SuitesStayTheSame
<1>1. Perf!Init => PerfInv /\ SamplesInv
  BY SuiteTypes DEF Perf!Init, PerfInv, SamplesInv
<1>2. PerfInv /\ SamplesInv /\ [Perf!Next]_perfVars => (PerfInv /\ SamplesInv)'
  BY SuiteStep, SamplesStep
<1>3. PerfInv => Perf!SuiteNamesStick
  BY DEF PerfInv, Settled, Overtaken, Perf!SuiteNamesStick, Perf!Floating
<1>4. SamplesInv => Perf!EverySampleHasARow
  BY DEF SamplesInv, Parted, RowsAt, Perf!EverySampleHasARow, Perf!RowsOf
<1>5. PerfInv /\ SamplesInv => SuitesStayTheSame
  BY <1>3, <1>4 DEF SuitesStayTheSame
<1> QED
  <2>1. UNCHANGED Perf!perfVars => UNCHANGED perfVars
    BY DEF Perf!perfVars, Perf!listVars, Perf!rowVars, Perf!doneVars, perfVars
  <2>2. [Perf!Next]_(Perf!perfVars) => [Perf!Next]_perfVars
    BY <2>1
  <2> QED BY <1>1, <1>2, <1>5, <2>2, PTL DEF Perf!Spec

=============================================================================
