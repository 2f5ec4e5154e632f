----------------------------- MODULE BatchProofs -----------------------------
(***************************************************************************)
(* Theorems of the programs that MCBatch puts side by side: those of the   *)
(* fleet and of the Elasticsearch nodes, and that what is proved of each   *)
(* program holds of all of them together.                                  *)
(***************************************************************************)
EXTENDS MCBatch, LogsProofs, RecordsProofs, ImportsProofs

(* A step of the batch programs is a step of each program, or leaves it.   *)
LEMMA ProgramSteps ==
  ASSUME [BatchNext]_allVars
  PROVE  /\ [Task!Next]_taskVars /\ [Build!Next]_buildVars /\ [Test!Next]_testVars
         /\ [Blocks!Next]_blockVars /\ [Mapper!Next]_mapVars /\ [Cover!Next]_covVars
         /\ [Tuid!Next]_tuidVars /\ [Fill!Next]_fillVars /\ [AutoFill!Next]_autoVars
         /\ [Doctor!Next]_nodeVars /\ [Machine!Next]_fleetVars
         /\ [Perf!Next]_perfVars /\ [Cluster!Next]_tcVars
<1>2. CASE UNCHANGED allVars
  BY <1>2 DEF allVars, logs, parsers, tools
<1>3. CASE Task!Next /\ UNCHANGED <<which, buildVars, testVars, blockVars, mapVars, covVars, tools, parsers>>
  BY <1>3 DEF parsers, tools
<1>4. CASE Build!Next /\ UNCHANGED <<which, taskVars, testVars, blockVars, mapVars, covVars, tools, parsers>>
  BY <1>4 DEF parsers, tools
<1>5. CASE Test!Next /\ UNCHANGED <<which, taskVars, buildVars, blockVars, mapVars, covVars, tools, parsers>>
  BY <1>5 DEF parsers, tools
<1>6. CASE Blocks!Next /\ UNCHANGED <<which, logs, mapVars, covVars, tools, parsers>>
  BY <1>6 DEF logs, parsers, tools
<1>7. CASE Mapper!Next /\ UNCHANGED <<which, logs, blockVars, covVars, tools, parsers>>
  BY <1>7 DEF logs, parsers, tools
<1>8. CASE Cover!Next /\ UNCHANGED <<which, logs, blockVars, mapVars, tools, parsers>>
  BY <1>8 DEF logs, parsers, tools
<1>9. CASE Tuid!Next /\ UNCHANGED <<which, logs, blockVars, mapVars, covVars, fillVars, autoVars, nodeVars, fleetVars, parsers>>
  BY <1>9 DEF logs, parsers
<1>10. CASE Fill!Next /\ UNCHANGED <<which, logs, blockVars, mapVars, covVars, tuidVars, autoVars, nodeVars, fleetVars, parsers>>
  BY <1>10 DEF logs, parsers
<1>11. CASE AutoFill!Next /\ UNCHANGED <<which, logs, blockVars, mapVars, covVars, tuidVars, fillVars, nodeVars, fleetVars, parsers>>
  BY <1>11 DEF logs, parsers
<1>12. CASE Doctor!Next /\ UNCHANGED <<which, logs, blockVars, mapVars, covVars, tuidVars, fillVars, autoVars, fleetVars, parsers>>
  BY <1>12 DEF logs, parsers
<1>13. CASE Machine!Next /\ UNCHANGED <<which, logs, blockVars, mapVars, covVars, tuidVars, fillVars, autoVars, nodeVars, parsers>>
  BY <1>13 DEF logs, parsers
<1>14. CASE Perf!Next /\ UNCHANGED <<which, logs, blockVars, mapVars, covVars, tools, tcVars>>
  BY <1>14 DEF logs, tools
<1>15. CASE Cluster!Next /\ UNCHANGED <<which, logs, blockVars, mapVars, covVars, tools, perfVars>>
  BY <1>15 DEF logs, tools
<1> QED
  BY <1>2, <1>3, <1>4, <1>5, <1>6, <1>7, <1>8, <1>9, <1>10, <1>11, <1>12, <1>13, <1>14, <1>15 DEF BatchNext


-----------------------------------------------------------------------------
(* Fleet.  A machine that transforms runs what is on its disk, but between *)
(* a pull and the restart after it, or until it is terminated for a        *)
(* failure.                                                                *)

MachineInv ==
  /\ role \in {"etl", "push"}
  /\ role = "etl" /\ ~severed => code = disk \/ visit \in {"restart", "failed"}
  /\ visit = "pip" => role = "push"
  /\ visit # "off" => outcome = "none"

LEMMA MachineStep ==
  ASSUME MachineInv, [Machine!Next]_fleetVars PROVE MachineInv'
<1> USE DEF MachineInv
<1>1. CASE Machine!Release
  BY <1>1 DEF Machine!Release
<1>2. CASE Machine!Respawn
  BY <1>2 DEF Machine!Respawn
<1>3. CASE Machine!ElasticEnds
  BY <1>3 DEF Machine!ElasticEnds
<1>4. CASE Machine!StartStop
  BY <1>4 DEF Machine!StartStop
<1>5. CASE Machine!Visit
  BY <1>5 DEF Machine!Visit
<1>6. CASE Machine!Check
  BY <1>6 DEF Machine!Check, Machine!End
<1>7. CASE Machine!Pull
  <2>1. visit = "pull" /\ UNCHANGED <<role, code, severed>>
    BY <1>7 DEF Machine!Pull
  <2>2. \/ visit' = "off" /\ UNCHANGED disk
        \/ visit' \in {"restart", "failed"} /\ UNCHANGED outcome
        \/ visit' = "pip" /\ role = "push" /\ UNCHANGED outcome
    BY <1>7 DEF Machine!Pull, Machine!End
  <2> QED
    BY <2>1, <2>2
<1>8. CASE Machine!Pip
  BY <1>8 DEF Machine!Pip
<1>9. CASE Machine!Restart
  BY <1>9 DEF Machine!Restart, Machine!End
<1>10. CASE Machine!Failed
  BY <1>10 DEF Machine!Failed, Machine!End
<1>11. CASE Machine!Cut
  BY <1>11 DEF Machine!Cut, Machine!End
<1>12. CASE Machine!Replace
  BY <1>12 DEF Machine!Replace
<1>13. CASE UNCHANGED fleetVars
  BY <1>13 DEF fleetVars
<1> QED
  BY <1>1, <1>2, <1>3, <1>4, <1>5, <1>6, <1>7, <1>8, <1>9, <1>10, <1>11, <1>12, <1>13
  DEF Machine!Next

(* update_etl: a machine that it leaves alone because its pull finds       *)
(* nothing new runs what is on its disk, whatever failed in the visits     *)
(* before, unless a tool ended in the middle of one (update_etl.py 47-76). *)
THEOREM LeftAloneRunsItsDisk == BatchSpec => []LeftAloneIsCurrent
<1>1. BatchInit => MachineInv
  BY DEF BatchInit, Machine!FleetInit, MachineInv
<1>2. MachineInv /\ [BatchNext]_allVars => MachineInv'
  BY MachineStep, ProgramSteps
<1>3. MachineInv => LeftAloneIsCurrent
  BY DEF MachineInv, LeftAloneIsCurrent, Machine!LeftAloneIsCurrent
<1> QED
  BY <1>1, <1>2, <1>3, PTL DEF BatchSpec

-----------------------------------------------------------------------------
(* FindOom.  The line that dates an error never changes.  A restart        *)
(* because of an error makes a dated line older than the node, and one     *)
(* that is older stays so; and there are no more of them than errors.      *)

LogLine == [oom : BOOLEAN, time : Nat]

OomLines(l) == {i \in DOMAIN l : l[i].oom}

DatedLines(l) == {j \in DOMAIN l : Doctor!Dates(l, j)}

(* Those that are no reason any more to restart a node started at t.       *)
Served(l, t) == {j \in DatedLines(l) : l[j].time <= t}

NodeTypes ==
  /\ now \in Nat
  /\ log \in [Nodes -> Seq(LogLine)]
  /\ started \in [Nodes -> Nat]
  /\ ooms \in [Nodes -> Nat] /\ bounced \in [Nodes -> Nat]
  /\ \A n \in Nodes : started[n] <= now /\ \A i \in DOMAIN log[n] : log[n][i].time <= now

Counted == \A n \in Nodes : ooms[n] = Cardinality(OomLines(log[n]))

EachServes == \A n \in Nodes : bounced[n] <= Cardinality(Served(log[n], started[n]))

NodeInv == NodeTypes /\ Counted /\ EachServes

(* The lines of a log are as many as it is long.                           *)
LEMMA LinesAreFinite ==
  ASSUME NEW l \in Seq(LogLine)
  PROVE  /\ IsFiniteSet(OomLines(l)) /\ Cardinality(OomLines(l)) \in Nat
         /\ IsFiniteSet(DatedLines(l)) /\ Cardinality(DatedLines(l)) \in Nat
<1>1. Len(l) \in Int /\ DOMAIN l = 1 .. Len(l) /\ 1 \in Int
  OBVIOUS
<1>2. IsFiniteSet(DOMAIN l)
  BY <1>1, FS_Interval
<1> QED
  BY <1>2, FS_Subset, FS_CardinalityType DEF OomLines, DatedLines

LEMMA ServedAreFinite ==
  ASSUME NEW l \in Seq(LogLine), NEW t
  PROVE  /\ IsFiniteSet(Served(l, t)) /\ Cardinality(Served(l, t)) \in Nat
         /\ Cardinality(Served(l, t)) <= Cardinality(DatedLines(l))
  BY LinesAreFinite, FS_Subset, FS_CardinalityType DEF Served

(* An error is dated by one line at most.                                  *)
LEMMA DatedAreErrors ==
  ASSUME NEW l \in Seq(LogLine)
  PROVE  Cardinality(DatedLines(l)) <= Cardinality(OomLines(l))
<1> DEFINE D == DatedLines(l)  O == OomLines(l)
           ErrorsUpTo(j, i) == i \in 1 .. j /\ l[i].oom /\ \A k \in i .. j - 1 : l[k].time = 0
           f == [j \in D |-> CHOOSE i \in O : ErrorsUpTo(j, i)]
<1>1. DOMAIN l = 1 .. Len(l) /\ Len(l) \in Nat
  OBVIOUS
<1>2. ASSUME NEW j \in D PROVE \E i \in O : ErrorsUpTo(j, i)
  <2>1. j \in 1 .. Len(l) /\ Doctor!Dates(l, j)
    BY <1>1 DEF DatedLines
  <2>2. PICK i \in 1 .. j : l[i].oom /\ \A k \in i .. j - 1 : l[k].time = 0
    BY <2>1 DEF Doctor!Dates
  <2>3. i \in 1 .. Len(l)
    BY <1>1, <2>1
  <2> QED
    BY <1>1, <2>2, <2>3 DEF OomLines
<1>3. \A j \in D : f[j] \in O /\ ErrorsUpTo(j, f[j])
  BY <1>2
<1>4. f \in [D -> O]
  BY <1>3
<1>5. ASSUME NEW x \in D, NEW y \in D, f[x] = f[y], x < y PROVE FALSE
  <2>1. x \in 1 .. Len(l) /\ y \in 1 .. Len(l) /\ l[x].time > 0
    BY <1>1 DEF DatedLines, Doctor!Dates
  <2>2. f[x] \in 1 .. x /\ f[y] \in 1 .. y /\ \A k \in f[y] .. y - 1 : l[k].time = 0
    BY <1>3
  <2>3. x \in f[y] .. y - 1
    BY <1>5, <2>1, <2>2
  <2> QED
    BY <2>1, <2>2, <2>3
<1>6. D \subseteq Nat
  BY <1>1 DEF DatedLines
<1> HIDE DEF f, ErrorsUpTo
<1>7. ~(Cardinality(O) < Cardinality(D))
  <2> SUFFICES ASSUME Cardinality(O) < Cardinality(D) PROVE FALSE
    OBVIOUS
  <2>1. IsFiniteSet(D) /\ IsFiniteSet(O)
    BY LinesAreFinite
  <2>2. PICK x \in D, y \in D : x # y /\ f[x] = f[y]
    BY <1>4, <2>1, FS_PigeonHole
  <2>3. x < y \/ y < x
    BY <1>6, <2>2
  <2> QED
    BY <1>5, <2>2, <2>3
<1> QED
  BY <1>7, LinesAreFinite

LEMMA OomLogGrows ==
  ASSUME NEW l \in Seq(LogLine), NEW x \in LogLine, NEW t \in Nat
  PROVE  /\ Cardinality(OomLines(Append(l, x))) = Cardinality(OomLines(l)) + (IF x.oom THEN 1 ELSE 0)
         /\ Cardinality(Served(l, t)) <= Cardinality(Served(Append(l, x), t))
<1> DEFINE m == Append(l, x)
<1>1. /\ m \in Seq(LogLine) /\ Len(l) \in Nat /\ DOMAIN l = 1 .. Len(l)
      /\ DOMAIN m = DOMAIN l \cup {Len(l) + 1} /\ Len(l) + 1 \notin DOMAIN l
      /\ m[Len(l) + 1] = x /\ \A k \in DOMAIN l : m[k] = l[k]
  OBVIOUS
<1> HIDE DEF m
<1>2. ASSUME NEW j \in DOMAIN l, Doctor!Dates(l, j) PROVE Doctor!Dates(m, j)
  <2>1. 1 .. j \subseteq DOMAIN l
    BY <1>1
  <2>2. PICK i \in 1 .. j : l[i].oom /\ \A k \in i .. j - 1 : l[k].time = 0
    BY <1>2 DEF Doctor!Dates
  <2>3. i .. j - 1 \subseteq DOMAIN l
    BY <1>1
  <2>4. m[i].oom /\ \A k \in i .. j - 1 : m[k].time = 0
    BY <1>1, <2>1, <2>2, <2>3
  <2>5. m[j].time > 0
    BY <1>1, <1>2 DEF Doctor!Dates
  <2> QED
    BY <2>4, <2>5 DEF Doctor!Dates
<1>3. OomLines(m) = OomLines(l) \cup (IF x.oom THEN {Len(l) + 1} ELSE {}) /\ Len(l) + 1 \notin OomLines(l)
  BY <1>1 DEF OomLines
<1>4. Cardinality(OomLines(m)) = Cardinality(OomLines(l)) + (IF x.oom THEN 1 ELSE 0)
  <2>1. CASE x.oom
    BY <1>3, <2>1, LinesAreFinite, FS_AddElement
  <2>2. CASE ~x.oom
    BY <1>3, <2>2, LinesAreFinite
  <2> QED
    BY <2>1, <2>2
<1>5. Served(l, t) \subseteq Served(m, t)
  BY <1>1, <1>2 DEF Served, DatedLines
<1>6. Cardinality(Served(l, t)) <= Cardinality(Served(m, t))
  BY <1>1, <1>5, ServedAreFinite, FS_Subset
<1> QED
  BY <1>4, <1>6 DEF m

LEMMA LineTypes ==
  ASSUME NEW l \in Seq(LogLine), NEW i \in DOMAIN l
  PROVE  l[i].time \in Nat
<1>1. l[i] \in LogLine
  BY ElementOfSeq
<1> QED
  BY <1>1 DEF LogLine

(* A later start leaves no line unserved that was served before.           *)
LEMMA LaterServes ==
  ASSUME NEW l \in Seq(LogLine), NEW t \in Nat, NEW u \in Nat, t <= u
  PROVE  Served(l, t) \subseteq Served(l, u) /\ Cardinality(Served(l, t)) <= Cardinality(Served(l, u))
<1>1. \A j \in DOMAIN l : l[j].time \in Nat
  BY LineTypes
<1>2. Served(l, t) \subseteq Served(l, u)
  BY <1>1 DEF Served, DatedLines
<1> QED
  BY <1>2, ServedAreFinite, FS_Subset

(* And a start behind all lines serves those that are new as well.         *)
LEMMA RestartServes ==
  ASSUME NEW l \in Seq(LogLine), NEW t \in Nat, NEW u \in Nat, t <= u,
         \A i \in DOMAIN l : l[i].time <= u,
         NEW New, New = {j \in DOMAIN l : Doctor!Dates(l, j) /\ l[j].time > t}
  PROVE  /\ Cardinality(New) \in Nat
         /\ Cardinality(Served(l, t)) + Cardinality(New) <= Cardinality(Served(l, u))
<1>1. \A j \in DOMAIN l : l[j].time \in Nat
  BY LineTypes
<1>2. New \subseteq Served(l, u)
  BY DEF Served, DatedLines
<1>3. Served(l, t) \cap New = {}
  BY <1>1 DEF Served, DatedLines
<1>4. IsFiniteSet(New) /\ Cardinality(New) \in Nat
  BY <1>2, ServedAreFinite, FS_Subset, FS_CardinalityType
<1>5. /\ IsFiniteSet(Served(l, t) \cup New)
      /\ Cardinality(Served(l, t) \cup New)
           = Cardinality(Served(l, t)) + Cardinality(New) - Cardinality(Served(l, t) \cap New)
  BY <1>4, ServedAreFinite, FS_Union
<1>6. Cardinality(Served(l, t) \cap New) = 0
  BY <1>3, FS_EmptySet
<1>7. Cardinality(Served(l, t) \cup New) <= Cardinality(Served(l, u))
  BY <1>2, LaterServes, ServedAreFinite, FS_Subset
<1>8. Cardinality(Served(l, t)) \in Nat /\ Cardinality(Served(l, u)) \in Nat
  BY ServedAreFinite
<1> QED
  BY <1>4, <1>5, <1>6, <1>7, <1>8

LEMMA NodeInit == Doctor!OomInit => NodeInv
<1> SUFFICES ASSUME Doctor!OomInit PROVE NodeInv
  OBVIOUS
<1>1. NodeTypes
  BY DEF Doctor!OomInit, NodeTypes
<1>2. OomLines(<<>>) = {} /\ \A t : Served(<<>>, t) = {}
  BY DEF OomLines, DatedLines, Served
<1>3. \A n \in Nodes : log[n] = <<>> /\ ooms[n] = 0 /\ bounced[n] = 0
  BY DEF Doctor!OomInit
<1>4. Cardinality({}) = 0
  BY FS_EmptySet
<1>5. ASSUME NEW n \in Nodes
      PROVE  ooms[n] = Cardinality(OomLines(log[n])) /\ bounced[n] <= Cardinality(Served(log[n], started[n]))
  <2>1. OomLines(log[n]) = {} /\ Served(log[n], started[n]) = {}
    BY <1>2, <1>3
  <2> QED
    BY <1>3, <1>4, <2>1
<1> QED
  BY <1>1, <1>5 DEF NodeInv, Counted, EachServes

(* A start at the present time.                                            *)
LEMMA StartNow ==
  ASSUME NodeInv, NEW n \in Nodes, started' = [started EXCEPT ![n] = now],
         UNCHANGED <<now, log, ooms, bounced>>
  PROVE  NodeInv'
<1>1. NodeTypes'
  BY DEF NodeInv, NodeTypes
<1>2. ASSUME NEW m \in Nodes
      PROVE  Cardinality(Served(log[m], started[m])) <= Cardinality(Served(log[m], started'[m]))
  BY LaterServes DEF NodeInv, NodeTypes
<1>3. \A m \in Nodes : /\ Cardinality(Served(log[m], started[m])) \in Nat
                       /\ Cardinality(Served(log[m], started'[m])) \in Nat /\ bounced[m] \in Nat
  BY ServedAreFinite DEF NodeInv, NodeTypes
<1>4. EachServes'
  BY <1>2, <1>3 DEF NodeInv, EachServes
<1> QED
  BY <1>1, <1>4 DEF NodeInv, Counted

LEMMA NodeStep ==
  ASSUME NodeInv, [Doctor!Next]_nodeVars PROVE NodeInv'
<1> USE DEF NodeInv
<1>1. CASE UNCHANGED <<log, started, ooms, bounced>> /\ now' \in {now, now + 1}
  <2>1. \A n \in Nodes : \A i \in DOMAIN log[n] : log[n][i].time \in Nat
    BY LineTypes DEF NodeTypes
  <2>2. NodeTypes'
    BY <1>1, <2>1 DEF NodeTypes
  <2> QED
    BY <1>1, <2>2 DEF Counted, EachServes
<1>2. ASSUME NEW n \in Nodes, Doctor!Write(n) PROVE NodeInv'
  <2>1. PICK oom \in BOOLEAN, time \in {0, now} :
          /\ log' = [log EXCEPT ![n] = Append(@, Doctor!Line(oom, time))]
          /\ ooms' = [ooms EXCEPT ![n] = IF oom THEN @ + 1 ELSE @]
          /\ UNCHANGED <<now, started, bounced>>
    BY <1>2 DEF Doctor!Write
  <2> DEFINE x == Doctor!Line(oom, time)
  <2>2. x \in LogLine /\ x.oom = oom /\ x.time = time
    BY DEF Doctor!Line, LogLine, NodeTypes
  <2> HIDE DEF x
  <2>3. log[n] \in Seq(LogLine) /\ started[n] \in Nat /\ ooms[n] \in Nat
    BY DEF NodeTypes
  <2>4. log'[n] = Append(log[n], x) /\ \A m \in Nodes \ {n} : log'[m] = log[m] /\ ooms'[m] = ooms[m]
    BY <2>1 DEF NodeTypes, x
  <2>5. \A i \in DOMAIN Append(log[n], x) : Append(log[n], x)[i].time <= now
    <3>1. SUFFICES ASSUME NEW i \in 1 .. Len(log[n]) + 1 PROVE Append(log[n], x)[i].time <= now
      BY <2>2, <2>3
    <3>2. CASE i = Len(log[n]) + 1
      BY <2>2, <2>3, <3>2 DEF NodeTypes
    <3>3. CASE i # Len(log[n]) + 1
      <4>1. i \in DOMAIN log[n] /\ Append(log[n], x)[i] = log[n][i]
        BY <2>2, <2>3, <3>3
      <4> QED
        BY <4>1 DEF NodeTypes
    <3> QED
      BY <3>2, <3>3
  <2>6. log' \in [Nodes -> Seq(LogLine)]
    BY <2>1, <2>2, <2>3, AppendProperties DEF NodeTypes, x
  <2>7. ooms' \in [Nodes -> Nat]
    BY <2>1 DEF NodeTypes
  <2>8. NodeTypes'
    BY <2>1, <2>4, <2>5, <2>6, <2>7 DEF NodeTypes
  <2>9. Cardinality(OomLines(log'[n])) = ooms'[n]
    <3>1. ooms'[n] = ooms[n] + (IF x.oom THEN 1 ELSE 0)
      BY <2>1, <2>2, <2>3 DEF NodeTypes
    <3> QED
      BY <2>2, <2>3, <2>4, <3>1, OomLogGrows DEF Counted
  <2>10. Counted'
    BY <2>4, <2>9 DEF Counted
  <2>11. Cardinality(Served(log[n], started[n])) <= Cardinality(Served(log'[n], started[n]))
    BY <2>2, <2>3, <2>4, OomLogGrows
  <2>12. EachServes'
    <3> SUFFICES ASSUME NEW m \in Nodes PROVE bounced[m] <= Cardinality(Served(log'[m], started[m]))
      BY <2>1 DEF EachServes
    <3>1. CASE m # n
      BY <2>4, <3>1 DEF EachServes
    <3>2. CASE m = n
      <4>1. /\ Cardinality(Served(log[n], started[n])) \in Nat
            /\ Cardinality(Served(log'[n], started[n])) \in Nat /\ bounced[n] \in Nat
        BY <2>6, ServedAreFinite DEF NodeTypes
      <4> QED
        BY <2>11, <3>2, <4>1 DEF EachServes
    <3> QED
      BY <3>1, <3>2
  <2> QED
    BY <2>8, <2>10, <2>12
<1>3. ASSUME NEW n \in Nodes, Doctor!Respawn(n) \/ Doctor!RestartUnknown(n) PROVE NodeInv'
  BY <1>3, StartNow DEF Doctor!Respawn, Doctor!RestartUnknown, Doctor!Restart
<1>4. ASSUME NEW n \in Nodes, Doctor!RestartOom(n) PROVE NodeInv'
  <2>1. PICK tried \in 1 .. budget, worked \in 0 .. budget :
          /\ worked <= tried /\ tried <= Cardinality(Doctor!NewOoms(n))
          /\ IF worked > 0 THEN Doctor!Restart(n) ELSE UNCHANGED <<started, visible>>
          /\ bounced' = [bounced EXCEPT ![n] = @ + worked]
    BY <1>4 DEF Doctor!RestartOom, Doctor!Cardinality, Cardinality
  <2> DEFINE New == Doctor!NewOoms(n)
  <2>2. /\ worked \in Nat /\ tried \in Nat /\ UNCHANGED <<now, log, ooms>>
        /\ IF worked > 0 THEN started' = [started EXCEPT ![n] = now] ELSE UNCHANGED started
    BY <1>4, <2>1 DEF Doctor!RestartOom, Doctor!Restart
  <2>3. NodeTypes'
    <3>1. bounced' \in [Nodes -> Nat]
      BY <2>1, <2>2 DEF NodeTypes
    <3>2. started' \in [Nodes -> Nat] /\ \A m \in Nodes : started'[m] <= now
      <4>1. CASE worked > 0
        <5>1. started' = [started EXCEPT ![n] = now]
          BY <2>2, <4>1
        <5>2. started \in [Nodes -> Nat] /\ now \in Nat /\ \A m \in Nodes : started[m] <= now
          BY DEF NodeTypes
        <5> QED
          BY <5>1, <5>2
      <4>2. CASE ~(worked > 0)
        BY <2>2, <4>2 DEF NodeTypes
      <4> QED
        BY <4>1, <4>2
    <3> QED
      BY <2>2, <3>1, <3>2 DEF NodeTypes
  <2>4. CASE worked = 0
    BY <2>1, <2>2, <2>3, <2>4 DEF NodeTypes, Counted, EachServes
  <2>5. CASE worked > 0
    <3>1. New = {j \in DOMAIN log[n] : Doctor!Dates(log[n], j) /\ log[n][j].time > started[n]}
      BY DEF Doctor!NewOoms
    <3>2. /\ log[n] \in Seq(LogLine) /\ started[n] \in Nat /\ now \in Nat /\ started[n] <= now
          /\ \A i \in DOMAIN log[n] : log[n][i].time <= now
      BY DEF NodeTypes
    <3> HIDE DEF New
    <3>3. Cardinality(New) \in Nat
      BY <3>1, <3>2, RestartServes
    <3>4. Cardinality(Served(log[n], started[n])) + Cardinality(New) <= Cardinality(Served(log[n], now))
      BY <3>1, <3>2, RestartServes
    <3>5. EachServes'
      <4> SUFFICES ASSUME NEW m \in Nodes PROVE bounced'[m] <= Cardinality(Served(log[m], started'[m]))
        BY <2>2 DEF EachServes
      <4>1. CASE m # n
        BY <2>1, <2>2, <2>5, <4>1 DEF EachServes, NodeTypes
      <4>2. CASE m = n
        <5>1. /\ Cardinality(Served(log[n], started[n])) \in Nat
              /\ Cardinality(Served(log[n], now)) \in Nat /\ bounced[n] \in Nat
              /\ bounced'[n] = bounced[n] + worked /\ started'[n] = now
          BY <2>1, <2>2, <2>5, ServedAreFinite DEF NodeTypes
        <5>2. worked <= Cardinality(New)
          BY <2>1, <2>2, <3>3 DEF New
        <5> QED
          BY <2>2, <3>3, <3>4, <4>2, <5>1, <5>2 DEF EachServes
      <4> QED
        BY <4>1, <4>2
    <3> QED
      BY <2>2, <2>3, <3>5 DEF Counted
  <2> QED
    BY <2>2, <2>4, <2>5
<1>5. ASSUME NEW n \in Nodes, Doctor!LeaveNode(n) PROVE NodeInv'
  BY <1>1, <1>5 DEF Doctor!LeaveNode
<1>6. CASE Doctor!Tick \/ Doctor!BeginLook \/ UNCHANGED nodeVars
  BY <1>1, <1>6 DEF Doctor!Tick, Doctor!BeginLook, nodeVars
<1> QED
  BY <1>2, <1>3, <1>4, <1>5, <1>6 DEF Doctor!Next

(* find_es_oom: however often it looks at the logs, whenever the nodes     *)
(* restart by themselves, and although a command that raised may have      *)
(* restarted the node, a node is restarted at most once for each of its    *)
(* errors, which have no time of their own (find_es_oom.py 90-123).        *)
THEOREM OneRestartForAnOom == BatchSpec => []OneRestartPerOom
<1>1. BatchInit => NodeInv
  BY NodeInit DEF BatchInit
<1>2. NodeInv /\ [BatchNext]_allVars => NodeInv'
  BY NodeStep, ProgramSteps
<1>3. NodeInv => OneRestartPerOom
  <2> SUFFICES ASSUME NodeInv, NEW n \in Nodes PROVE bounced[n] <= ooms[n]
    BY DEF OneRestartPerOom, Doctor!OneRestartPerOom
  <2>1. /\ Cardinality(Served(log[n], started[n])) \in Nat /\ Cardinality(OomLines(log[n])) \in Nat
        /\ Cardinality(DatedLines(log[n])) \in Nat
        /\ Cardinality(Served(log[n], started[n])) <= Cardinality(DatedLines(log[n]))
        /\ Cardinality(DatedLines(log[n])) <= Cardinality(OomLines(log[n]))
    BY ServedAreFinite, LinesAreFinite, DatedAreErrors DEF NodeInv, NodeTypes
  <2> QED
    BY <2>1 DEF NodeInv, NodeTypes, Counted, EachServes
<1> QED
  BY <1>1, <1>2, <1>3, PTL DEF BatchSpec

-----------------------------------------------------------------------------
(* The other programs.  The behaviours of the batch programs are behaviours *)
(* of each of them, so its theorems hold of them.                          *)

LEMMA TaskRuns == BatchSpec => Task!Spec
<1>1. BatchInit => Task!Init
  BY DEF BatchInit
<1>2. [BatchNext]_allVars => [Task!Next]_taskVars
  BY ProgramSteps
<1> QED
  BY <1>1, <1>2, PTL DEF BatchSpec, Task!Spec, Task!vars, taskVars

LEMMA BuildRuns == BatchSpec => Build!Spec
<1>1. BatchInit => Build!Init
  BY DEF BatchInit
<1>2. [BatchNext]_allVars => [Build!Next]_buildVars
  BY ProgramSteps
<1> QED
  BY <1>1, <1>2, PTL DEF BatchSpec, Build!Spec, Build!logVars, buildVars

LEMMA TestRuns == BatchSpec => Test!Spec
<1>1. BatchInit => Test!Init
  BY DEF BatchInit
<1>2. [BatchNext]_allVars => [Test!Next]_testVars
  BY ProgramSteps
<1> QED
  BY <1>1, <1>2, PTL DEF BatchSpec, Test!Spec, Test!testVars, testVars

LEMMA PerfRuns == BatchSpec => Perf!Spec
<1>1. BatchInit => Perf!Init
  BY DEF BatchInit
<1>2. UNCHANGED perfVars => UNCHANGED Perf!perfVars
  BY DEF perfVars, Perf!perfVars, Perf!listVars, Perf!rowVars, Perf!doneVars
<1>3. [BatchNext]_allVars => [Perf!Next]_(Perf!perfVars)
  BY <1>2, ProgramSteps
<1> QED
  BY <1>1, <1>3, PTL DEF BatchSpec, Perf!Spec

LEMMA BlocksRuns == BatchSpec => Blocks!Spec
<1>1. BatchInit => Blocks!Init
  BY DEF BatchInit
<1>2. [BatchNext]_allVars => [Blocks!Next]_blockVars
  BY ProgramSteps
<1> QED
  BY <1>1, <1>2, PTL DEF BatchSpec, Blocks!Spec, Blocks!blockVars, blockVars

LEMMA ClusterRuns == BatchSpec => Cluster!Spec
<1>1. BatchInit => Cluster!Init
  BY DEF BatchInit
<1>2. [BatchNext]_allVars => [Cluster!Next]_tcVars
  BY ProgramSteps
<1> QED
  BY <1>1, <1>2, PTL DEF BatchSpec, Cluster!Spec, Cluster!tcVars, tcVars

LEMMA MapperRuns == BatchSpec => Mapper!Spec
<1>1. BatchInit => Mapper!Init
  BY DEF BatchInit
<1>2. [BatchNext]_allVars => [Mapper!Next]_mapVars
  BY ProgramSteps
<1> QED
  BY <1>1, <1>2, PTL DEF BatchSpec, Mapper!Spec, Mapper!mapVars, mapVars

LEMMA CoverRuns == BatchSpec => Cover!Spec
<1>1. BatchInit => Cover!Init
  BY DEF BatchInit
<1>2. [BatchNext]_allVars => [Cover!Next]_covVars
  BY ProgramSteps
<1> QED
  BY <1>1, <1>2, PTL DEF BatchSpec, Cover!Spec, Cover!covVars, covVars

LEMMA TuidRuns == BatchSpec => Tuid!Spec
<1>1. BatchInit => Tuid!Init
  BY DEF BatchInit
<1>2. [BatchNext]_allVars => [Tuid!Next]_tuidVars
  BY ProgramSteps
<1> QED
  BY <1>1, <1>2, PTL DEF BatchSpec, Tuid!Spec, Tuid!tuidVars, tuidVars

LEMMA FillRuns == BatchSpec => Fill!Spec
<1>1. BatchInit => Fill!BackfillInit
  BY DEF BatchInit
<1>2. [BatchNext]_allVars => [Fill!Next]_fillVars
  BY ProgramSteps
<1> QED
  BY <1>1, <1>2, PTL DEF BatchSpec, Fill!Spec, Fill!fillVars, fillVars

LEMMA AutoFillRuns == BatchSpec => AutoFill!Spec
<1>1. BatchInit => AutoFill!AutoInit
  BY DEF BatchInit
<1>2. [BatchNext]_allVars => [AutoFill!Next]_autoVars
  BY ProgramSteps
<1> QED
  BY <1>1, <1>2, PTL DEF BatchSpec, AutoFill!Spec, AutoFill!autoVars, autoVars

(* The cutting of overlapping steps gives no moment of a task to nobody    *)
(* (text_log.py 785-811).                                                  *)
THEOREM BatchKeepsTime == BatchSpec => []NoTimeLost
  BY TaskRuns, EveryMomentIsInAStep, PTL

(* The cutting of overlapping steps ends (text_log.py 785-811).            *)
THEOREM BatchEndsCuts == BatchSpec => CutsEnd
  BY TaskRuns, CutsComeToAnEnd, PTL

(* The offsets of the clocks in a build log are guessed right              *)
(* (text_log.py 539-689).                                                  *)
THEOREM BatchGuessesClocks == BatchSpec => []ClocksAreRight
  BY BuildRuns, GuessedClocksAreRight, PTL

(* The rows of tests are those of their starts, and say ok when it is so   *)
(* (unittest_logs_to_sink.py 197-372).                                     *)
THEOREM BatchHasRowsOfTests == BatchSpec => []TestRowsAreTrue
  BY TestRuns, RowsOfTestsAreTrue, PTL

(* A key that is announced has an object, and no transformed block is      *)
(* dropped (etl.py 179-268).                                               *)
THEOREM BatchEndsBlocks == BatchSpec => []BlocksEndRight
  BY BlocksRuns, BlocksEndAsTheyShould, PTL

(* No two records of an attempt have one place in the destination          *)
(* (transforms/__init__.py 210-239).                                       *)
THEOREM BatchKeepsRecordsApart == BatchSpec => []RecordsKeepApart
  BY BlocksRuns, RecordsOfAnAttemptKeepApart, PTL

(* The records of a task agree with a first view of it, a thread has one   *)
(* first view of a task, and a line of a written block has its record or   *)
(* was given up; for what it shows only when the task changed, or an older *)
(* kind of message left more (pulse_block_to_task_cluster.py 50-221).      *)
THEOREM BatchAgreesOnTasks == BatchSpec => []TaskRecordsAgree
  BY ClusterRuns, RecordsOfTasksAgree, PTL

(* A source file is found under its own name (file_mapper.py 106-216).     *)
THEOREM BatchFindsSources == BatchSpec => []SourceIsFound
  BY MapperRuns, SourceFilesAreFound, PTL

(* The records of an artifact that is written are those of the files that  *)
(* the transform read of it, in their order, and their TUIDs are their     *)
(* own; a file that it gave up in a per-test artifact is not among them    *)
(* (per_test_to_es.py 175-191).  And a file is given the TUIDs that are    *)
(* stored for it, by a client that is switched off for a reason only, and  *)
(* in time (tuid/client.py 77-149).                                        *)
THEOREM BatchCoversArtifacts == BatchSpec => []CoverageIsOfArtifact
  BY CoverRuns, CoverageIsTrue, TuidRuns, ClientIsRight, PTL DEF CoverageIsOfArtifact

(* A backfill that ends below its limit has queued every missing number of *)
(* its range, but for those with no more digits than the query skips, for  *)
(* any rounding of the logarithm (backfill.py 18-166).                     *)
THEOREM BatchFillsGaps == BatchSpec => []BackfillIsComplete
  BY FillRuns, BackfillLeavesNothing, PTL

(* A run of the automatic backfill queues no object twice and, when        *)
(* MAX_SIZE does not cut it off, every hole of the table it was shown,     *)
(* for keys of any length (auto_backfill.py 56-132).                       *)
THEOREM BatchFillsHolesOnce == BatchSpec => []HolesAreFilledOnce
  BY AutoFillRuns, EachHoleIsQueuedOnce, PTL

(* A log whose lines are in order is taken, and the steps of a task or of  *)
(* a build are not refused (text_log.py 342-443, 814-842).                 *)
THEOREM BatchTakesOrderedLogs == BatchSpec => []OrderedLogsAreTaken
  BY TaskRuns, BuildRuns, LogsInOrderAreTaken, BuildsInOrderAreTaken, PTL DEF OrderedLogsAreTaken

(* What the threads of a process call a suite stays its name, but for the  *)
(* names that are never learned, and those that another thread overtook    *)
(* while they were added; and what is written of a block has every sample  *)
(* of a test in one row (perfherder_logs_to_perf_logs.py 52-393).          *)
THEOREM BatchNamesSuites == BatchSpec => []SuitesStayTheSame
  BY PerfRuns, SuitesAreTrue, PTL

(* The types of the programs that state them: the logs of tasks, builds    *)
(* and tests, the transforms, the file mapper and the coverage ETL.        *)
THEOREM BatchHasTypes == BatchSpec => []BatchTypeOK
  BY TaskRuns, BuildRuns, TestRuns, BlocksRuns, MapperRuns, CoverRuns, TaskTypes, BuildTypes,
     TestTypes, BlockTypesStay, MapperTypes, CoverTypes, PTL DEF BatchTypeOK

==============================================================================
