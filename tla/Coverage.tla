------------------------------ MODULE Coverage ------------------------------
(***************************************************************************)
(* A coverage artifact becomes an object with a record for each source     *)
(* file: the lines that were covered and those that were not, and the      *)
(* TUIDs of these lines (activedata_etl/transforms/grcov_to_es.py,         *)
(* jsvm_to_es.py, per_test_to_es.py, jsdcov_to_es.py, imports/             *)
(* parse_lcov.py and coverage_util.py).  One process reads many artifacts. *)
(* What the TuidClient gives for a file may be anything: see there.        *)
(***************************************************************************)
EXTENDS Naturals, Sequences, SequencesExt, FiniteSets

CONSTANTS
  Sources,      (* the files an artifact speaks of                         *)
  Firefox,      (* those the FileMapper knows                              *)
  CodeLines,    (* the lines of a file                                     *)
  LineLimit,    (* LINE_LIMIT, FILE_TOO_LONG                               *)
  BatchLimit,   (* TUID_BLOCK_SIZE                                         *)
  MaxInput,     (* bound on the lines, or objects, of an artifact          *)
  MaxArtifacts  (* bound on the artifacts of the process                   *)

CoverageAssumption ==
  /\ IsFiniteSet(CodeLines)
  /\ {LineLimit, BatchLimit} \subseteq Nat \ {0}

VARIABLES
  artifact,     (* "none", "grcov", "jsvm", "per-test", "jsdcov"           *)
  reading,      (* "idle", "open", "header", "end"; how it ended:          *)
                (* "written", "given up", "again"                          *)
  current,      (* current_source, or aggr_coverage: file -> its lines     *)
  batch,        (* the records that wait for TUIDs                         *)
  output,       (* the records of the object                               *)
  input,        (* history: the files and lines that were read, without    *)
                (* those of per-test coverage that were warned of          *)
  consumed,     (* history: the number of lines and objects read           *)
  cut,          (* history: the thread stopped in the middle               *)
  artifacts     (* history: the artifacts that were begun                  *)

covVars == <<artifact, reading, current, batch, output, input, consumed, cut, artifacts>>

Lcov == {"grcov", "jsvm"}

(* Lines of a file, and a record of it.                                    *)
Of(file, covered, uncovered) == [file |-> file, covered |-> covered, uncovered |-> uncovered]

Init ==
  /\ artifact = "none" /\ reading = "idle"
  /\ current = {} /\ batch = << >> /\ output = << >>
  /\ input = << >> /\ consumed = 0 /\ cut = FALSE /\ artifacts = 0

Open(kind) ==
  /\ reading \in {"idle", "written", "given up", "again"}
  /\ artifacts < MaxArtifacts /\ artifacts' = artifacts + 1
  /\ artifact' = kind
  /\ reading' = IF kind = "jsdcov" THEN "header" ELSE "open"
  /\ current' = {} /\ batch' = << >> /\ output' = << >>
  /\ input' = << >> /\ consumed' = 0 /\ cut' = FALSE

Consume ==
  /\ reading = "open" /\ Len(batch) < BatchLimit
  /\ consumed < MaxInput /\ consumed' = consumed + 1
  /\ UNCHANGED <<artifact, reading, output, cut, artifacts>>

-----------------------------------------------------------------------------
(* Artifacts of grcov and jsvm are in the lcov format (parse_lcov).        *)

LcovLine == artifact \in Lcov /\ Consume

(* SF: a file that was not ended is forgotten.                             *)
SourceFile(file) ==
  /\ LcovLine
  /\ current' = {Of(file, {}, {})}
  /\ input' = IF current = {} THEN Append(input, Of(file, {}, {}))
              ELSE Append(Front(input), Of(file, {}, {}))
  /\ UNCHANGED batch

With(s, line, hit) ==
  IF hit THEN [s EXCEPT !.covered = @ \cup {line}] ELSE [s EXCEPT !.uncovered = @ \cup {line}]

(* DA: the same line may be given twice.                                   *)
LineData(line, hit) ==
  /\ LcovLine
  /\ current # {}
  /\ current' = {With(s, line, hit) : s \in current}
  /\ input' = Append(Front(input), With(Last(input), line, hit))
  /\ UNCHANGED batch

(* TN, the functions and the branches change no record, and neither does   *)
(* the rest of a file name with a line break in it.                        *)
OtherCommand ==
  /\ LcovLine
  /\ UNCHANGED <<current, batch, input>>

(* Files with too many lines are left out.                                 *)
Fits(s) == Cardinality(s.covered) <= LineLimit /\ Cardinality(s.uncovered) <= LineLimit

EndOfRecord ==
  /\ LcovLine
  /\ current # {}
  /\ batch' = batch \o SetToSeq({s \in current : Fits(s)})
  /\ current' = {}
  /\ UNCHANGED input

(* Lines without a file or a meaning, a file mapper or an archive that     *)
(* fails, a second file in the archive of grcov: nothing is written.  Only *)
(* process_per_test_artifact, of an archive that can not be read and of a  *)
(* thread that is to stop, and process_jsdcov_artifact tell.               *)
Fail ==
  /\ reading \in {"open", "header", "end"}
  /\ reading' = IF artifact \in Lcov THEN "given up" ELSE "again"
  /\ UNCHANGED <<artifact, current, batch, output, input, consumed, cut, artifacts>>

(* A thread that is to stop ends the file of an lcov artifact early.       *)
StopShort ==
  /\ artifact \in Lcov /\ reading = "open"
  /\ current' = {} /\ cut' = TRUE
  /\ reading' = "end"
  /\ UNCHANGED <<artifact, batch, output, input, consumed, artifacts>>

-----------------------------------------------------------------------------
(* Artifacts of per-test and jsdcov coverage are objects.                  *)

(* process_source_file: the lines with a count, and those whose count is 0.*)
PerTestFile(s) ==
  /\ artifact = "per-test" /\ Consume
  /\ input' = Append(input, s)
  /\ batch' = IF Cardinality(s.covered \cup s.uncovered) > LineLimit THEN batch
              ELSE Append(batch, s)
  /\ UNCHANGED current

(* A file that can not be made a record of, as when the file mapper fails: *)
(* a warning, and the next one is read.                                    *)
PerTestFileFails ==
  /\ artifact = "per-test" /\ Consume
  /\ UNCHANGED <<current, batch, input>>

(* The first object of a jsdcov file is its version.                       *)
VersionObject ==
  /\ reading = "header"
  /\ reading' = "open"
  /\ UNCHANGED <<artifact, current, batch, output, input, consumed, cut, artifacts>>

(* aggregator: the lines of all objects with the same source file.         *)
JsdcovObject(s) ==
  /\ artifact = "jsdcov" /\ Consume
  /\ LET same == {t \in current : t.file = s.file}
     IN current' = (current \ same) \cup
          {Of(s.file, UNION {t.covered : t \in same \cup {s}},
                      UNION {t.uncovered : t \in same \cup {s}})}
  /\ input' = Append(input, s)
  /\ UNCHANGED batch

(* Mutant: lines that another test covered stay uncovered.                 *)
AggregateAll(t) == t

Aggregate(t) == [t EXCEPT !.uncovered = @ \ t.covered]

(* The archive is read.                                                    *)
EndOfArtifact ==
  /\ reading = "open" /\ Len(batch) < BatchLimit
  /\ reading' = "end"
  /\ current' = {}
  /\ batch' = IF artifact = "jsdcov" THEN SetToSeq({Aggregate(t) : t \in current}) ELSE batch
  /\ input' = IF artifact \in Lcov /\ current # {} THEN Front(input) ELSE input
  /\ UNCHANGED <<artifact, output, consumed, cut, artifacts>>

-----------------------------------------------------------------------------
(* tuid_batches: the records wait until the batch is full, or the artifact *)
(* is read, and get their TUIDs from the cache and the service.            *)

Ready == Len(batch) > 0 /\ (Len(batch) = BatchLimit \/ reading = "end")

HasTuids(s) == s.file \in Firefox /\ s.covered \cup s.uncovered # {}

(* What is asked for.                                                      *)
Wanted == {s.file : s \in {t \in ToSet(batch) : HasTuids(t)}}

(* The TUIDs of a list of lines, each as the file and line it is of.       *)
(* Where the record is not the source itself, but has it, its lines are    *)
(* not found and the lists are empty.                                      *)
Tuids(s, lines, found) ==
  IF HasTuids(s) /\ artifact \in Lcov THEN {t \in found : t[1] = s.file /\ t[2] \in lines} ELSE {}

(* Two lists for each record, until a failure ends the markup.             *)
Annotated(i, found, lists) ==
  LET s == batch[i]
  IN  [file |-> s.file, covered |-> s.covered, uncovered |-> s.uncovered,
       tuid_covered |-> IF lists >= 2 * i - 1 THEN Tuids(s, s.covered, found) ELSE {},
       tuid_uncovered |-> IF lists >= 2 * i THEN Tuids(s, s.uncovered, found) ELSE {}]

(* The client may have the TUIDs of all files, of some, or of none, and of *)
(* some lines only; its failure is as good as none.                        *)
Flush(found, lists) ==
  /\ Ready
  /\ LET n == IF Len(batch) < BatchLimit THEN Len(batch) ELSE BatchLimit
     IN /\ output' = output \o [i \in 1 .. n |-> Annotated(i, found, lists)]
        /\ batch' = SubSeq(batch, n + 1, Len(batch))
  /\ UNCHANGED <<artifact, reading, current, input, consumed, cut, artifacts>>

Write ==
  /\ reading = "end" /\ batch = << >>
  /\ reading' = "written"
  /\ UNCHANGED <<artifact, current, batch, output, input, consumed, cut, artifacts>>

Apart == {s \in [file : Sources, covered : SUBSET CodeLines, uncovered : SUBSET CodeLines] :
            s.covered \cap s.uncovered = {}}

Next ==
  \/ \E kind \in Lcov \cup {"per-test", "jsdcov"} : Open(kind)
  \/ \E file \in Sources : SourceFile(file)
  \/ \E line \in CodeLines, hit \in BOOLEAN : LineData(line, hit)
  \/ OtherCommand \/ EndOfRecord \/ Fail \/ StopShort
  \/ \E s \in Apart : PerTestFile(s) \/ JsdcovObject(s)
  \/ PerTestFileFails \/ VersionObject \/ EndOfArtifact
  \/ \E found \in SUBSET (Wanted \X CodeLines), lists \in 0 .. 2 * Len(batch) : Flush(found, lists)
  \/ Write

Spec == Init /\ [][Next]_covVars

-----------------------------------------------------------------------------
(* Properties.                                                             *)

CoverageTypeOK ==
  /\ reading \in {"idle", "open", "header", "end", "written", "given up", "again"}
  /\ Len(batch) <= BatchLimit \/ (artifact = "jsdcov" /\ reading \in {"end", "again"})

(* What the records say of the files, without the TUIDs.                   *)
Plain(records) ==
  [i \in DOMAIN records |-> Of(records[i].file, records[i].covered, records[i].uncovered)]

Kept(s) ==
  IF artifact \in Lcov THEN Fits(s) ELSE Cardinality(s.covered \cup s.uncovered) <= LineLimit

(* The records are the files at the places that are kept, in their order.  *)
AreThose(records, files, places) ==
  \E at \in [DOMAIN records -> DOMAIN files] :
    /\ \A k \in DOMAIN records : records[k] = files[at[k]]
    /\ \A j, k \in DOMAIN records : j < k => at[j] < at[k]
    /\ {at[k] : k \in DOMAIN records} = places

All(file, field) == UNION {input[i][field] : i \in {j \in DOMAIN input : input[j].file = file}}

(* TUIDs are of the lines and the file of their record.                    *)
OwnTuids(r) ==
  /\ r.tuid_covered \subseteq {r.file} \X r.covered
  /\ r.tuid_uncovered \subseteq {r.file} \X r.uncovered

(* Where an object was written, the records of it are those of the files   *)
(* in the artifact: in their order, however they were batched; of a jsdcov *)
(* artifact one for each file, in which a line that any test covered is    *)
(* covered.  The TUIDs of a record are its own, whatever the service says. *)
CoverageIsOfArtifact ==
  /\ \A i \in DOMAIN output : OwnTuids(output[i])
  /\ reading = "written" /\ ~cut =>
    IF artifact # "jsdcov"
    THEN AreThose(Plain(output), input, {i \in DOMAIN input : Kept(input[i])})
    ELSE /\ ToSet(Plain(output)) =
              {Of(f, All(f, "covered"), All(f, "uncovered") \ All(f, "covered"))
                 : f \in {input[i].file : i \in DOMAIN input}}
         /\ IsInjective(Plain(output))
==============================================================================
