----------------------------- MODULE Transforms -----------------------------
(***************************************************************************)
(* The transforms that the ETL loop calls (activedata_etl/transforms): a   *)
(* block of lines is read from the source bucket, every line becomes       *)
(* records of the destination, and the loop checks and announces the keys  *)
(* that the transform returns (activedata_etl/etl.py, _dispatch_work).  A  *)
(* block may be transformed again, after a failure or by a backfill.       *)
(* Keys are what follows the key of the block: << >> is the block itself.  *)
(***************************************************************************)
EXTENDS Naturals, Sequences, FiniteSets

CONSTANTS
  Workers,      (* the transforms: see the sets below                      *)
  MaxLines,     (* bound on the lines of a block                           *)
  MaxRecords,   (* bound on the records of a log, the files of a line      *)
  MaxTries,     (* bound on the times a block is transformed               *)
  SourceIds     (* the last number of the key of the block                 *)

(* Transforms that delete what they made before, that name their keys by   *)
(* a generator for each line, and whose destination is Elasticsearch.      *)
Deleting == {"testResults", "tcTestResult", "firefoxFiles"}
PerLine == {"firefoxFiles", "coverage"}
ToEs == {"pulse2es"}

TransformsAssumption ==
  /\ MaxLines \in Nat /\ MaxRecords \in Nat
  /\ Workers \subseteq
       {"pulse2es", "joblogs", "buildbot", "perfherder", "tcPerfherder"} \cup Deleting \cup PerLine

VARIABLES
  worker, block, source_id, mode,
  at,           (* "ready", "lines", "stored", "dropped", "failed"         *)
  line,         (* lines read                                              *)
  counter, next_id,
  keys,         (* the keys to return                                      *)
  docs,         (* the documents that are written when all lines are read  *)
  store,        (* the destination: records [key, id, try]                 *)
  old,          (* old_keys                                                *)
  announced,    (* keys put on a queue                                     *)
  try, wrote,   (* history: the attempt, and the records it made           *)
  gap,          (* history: a line gave nothing, or a write was given up   *)
  clash         (* history: an empty log took the place of another record  *)

blockVars == <<worker, block, source_id, mode, at, line, counter, next_id, keys, docs, store,
               old, announced, try, wrote, gap, clash>>

given == <<worker, block, source_id, mode, old, announced, try, clash>>

Blocks == UNION {[1 .. n -> {"blank", "record"}] : n \in 1 .. MaxLines}

Init ==
  /\ worker \in Workers /\ block \in Blocks /\ source_id \in SourceIds
  /\ mode \in {"notify", "queue", "bulk"}
  /\ at = "ready"
  /\ line = 0 /\ counter = 0 /\ next_id = 0
  /\ keys = {} /\ docs = {} /\ store = {} /\ old = {} /\ announced = {}
  /\ try = 0 /\ wrote = 0 /\ gap = FALSE /\ clash = FALSE

Stored(k) == \E r \in store : r.key = k

Record(key, id) == [key |-> key, id |-> id, try |-> try]

(* S3Bucket.extend: records replace those with their id, the others stay.  *)
Extended(records) ==
  {r \in store : \A d \in records : <<d.key, d.id>> # <<r.key, r.id>>} \cup records

Extend(records, n) ==
  /\ store' = Extended(records)
  /\ wrote' = wrote + n

(* write_lines: the object is what is written.                             *)
Overwrite(key) ==
  /\ store' = {r \in store : r.key # key} \cup {Record(key, 0)}
  /\ wrote' = wrote + 1

-----------------------------------------------------------------------------
(* _dispatch_work calls the transform.                                     *)

Begin ==
  /\ at \in {"ready", "stored", "dropped", "failed"}
  /\ try < MaxTries /\ try' = try + 1
  /\ at' = "lines"
  /\ old' = IF mode = "bulk" THEN {} ELSE {r.key : r \in store}
  /\ store' = IF worker \in Deleting THEN {} ELSE store
  /\ line' = 0 /\ counter' = 0 /\ next_id' = 0
  /\ keys' = {} /\ docs' = {} /\ announced' = {}
  /\ wrote' = 0 /\ gap' = FALSE /\ clash' = FALSE
  /\ UNCHANGED <<worker, block, source_id, mode>>

Reading(workers) == worker \in workers /\ at = "lines" /\ line < Len(block)

Full(workers) == Reading(workers) /\ block[line + 1] = "record"

NextLine == line' = line + 1

(* A blank line, or one that scrub_pulse_record can not read.              *)
BlankLine ==
  /\ Reading(Workers \ {"buildbot", "tcTestResult", "firefoxFiles"})
  /\ block[line + 1] = "blank"
  /\ NextLine
  /\ gap' = TRUE
  /\ UNCHANGED <<given, at, counter, next_id, keys, docs, store, wrote>>

(* An exception, or the thread is to stop: the block is given back.        *)
Raise ==
  /\ Reading(Workers)
  /\ at' = "failed"
  /\ UNCHANGED <<given, line, counter, next_id, keys, docs, store, wrote, gap>>

-----------------------------------------------------------------------------
(* Transforms that write all records in the end.                           *)

Keep(doc, bump) ==
  /\ NextLine
  /\ docs' = docs \cup {doc}
  /\ wrote' = wrote + 1
  /\ counter' = counter + bump
  /\ UNCHANGED <<given, at, next_id, store, gap>>

(* pulse_block_to_es: a document has the number of its line.               *)
EsLine ==
  /\ Full({"pulse2es"})
  /\ Keep(Record(<<line>>, 0), 0)
  /\ keys' = keys \cup {<<line>>}

(* pulse_block_to_job_logs: a heartbeat, a job without a log, whose log is *)
(* missing or can not be read, and one whose log was parsed.               *)
JobLine ==
  /\ Full({"joblogs"})
  /\ Keep(Record(<<0>>, counter), 1)
  /\ UNCHANGED keys

(* buildbot_block_to_job_logs: the same, without heartbeats.               *)
BuildLine ==
  /\ Full({"buildbot"})
  /\ Keep(Record(<< >>, line), 0)
  /\ UNCHANGED keys

(* A build that is too old ends the block, with no keys.                   *)
TooOld ==
  /\ Full({"buildbot"})
  /\ line' = Len(block)
  /\ docs' = {} /\ wrote' = 0 /\ keys' = {}
  /\ gap' = TRUE
  /\ UNCHANGED <<given, at, counter, next_id, store>>

-----------------------------------------------------------------------------
(* pulse_block_to_perfherder_logs and task_cluster_to_perfherder: the      *)
(* records of a line are written as soon as they are found.  The object is *)
(* numbered by the counter, or by the line.                                *)

Announce(key) == keys' = keys \cup {key}

(* A log is done with: finally.                                            *)
Logged == counter' = counter + 1

(* A pulse without a log.                                                  *)
NoLog ==
  /\ Full({"perfherder"})
  /\ NextLine
  /\ gap' = TRUE
  /\ UNCHANGED <<given, at, counter, next_id, keys, docs, store, wrote>>

(* A log nobody can reach: a record is made, the counter stays.            *)
OldHost ==
  /\ Full({"perfherder"})
  /\ NextLine
  /\ Extend({Record(<<counter>>, next_id)}, 1)
  /\ Announce(<<counter>>)
  /\ next_id' = next_id + 1
  /\ UNCHANGED <<given, at, counter, docs, gap>>

(* Mutant: the counter stays where it is after a log.                      *)
LogLineUncounted(n) ==
  /\ Full({"perfherder"})
  /\ NextLine
  /\ Extend({Record(<<counter>>, next_id + k) : k \in 0 .. n - 1}, n)
  /\ Announce(<<counter>>)
  /\ next_id' = 0
  /\ UNCHANGED <<given, at, counter, docs, gap>>

(* A log with n records, which the generator numbers on.                   *)
LogLine(n) ==
  /\ Full({"perfherder"})
  /\ NextLine
  /\ Extend({Record(<<counter>>, next_id + k) : k \in 0 .. n - 1}, n)
  /\ Announce(<<counter>>)
  /\ Logged /\ next_id' = 0
  /\ UNCHANGED <<given, at, docs, gap>>

(* A log without records leaves one that says so; the generator was reset  *)
(* before.                                                                 *)
EmptyLog ==
  /\ Full({"perfherder"})
  /\ NextLine
  /\ Extend({Record(<<counter>>, 0)}, 1)
  /\ Announce(<<counter>>)
  /\ Logged /\ next_id' = 1
  /\ clash' = (clash \/ Record(<<counter>>, 0) \in store)
  /\ UNCHANGED <<worker, block, source_id, mode, old, announced, try, at, docs, gap>>

(* A log that is gone: what was made of it before is announced again, or   *)
(* else a record that says so.                                             *)
Missing(object, id) ==
  IF Stored(object) THEN UNCHANGED <<store, wrote>> ELSE Extend({Record(object, id)}, 1)

(* Mutant: what was made before is not announced again.                    *)
MissingLogSilent ==
  /\ Full({"perfherder"})
  /\ NextLine
  /\ Missing(<<counter>>, next_id)
  /\ IF Stored(<<counter>>) THEN UNCHANGED keys ELSE Announce(<<counter>>)
  /\ Logged /\ next_id' = 0
  /\ UNCHANGED <<given, at, docs, gap>>

MissingLog ==
  /\ Full({"perfherder"})
  /\ NextLine
  /\ Missing(<<counter>>, next_id)
  /\ Announce(<<counter>>)
  /\ Logged /\ next_id' = 0
  /\ UNCHANGED <<given, at, docs, gap>>

(* A task: every line has a generator, and an object.  If there is neither *)
(* a record in its artifacts nor in its log, one is made that says so.     *)
TaskLine(n) ==
  /\ Full({"tcPerfherder"})
  /\ NextLine
  /\ LET made == IF n = 0 THEN 1 ELSE n
     IN Extend({Record(<<line>>, k) : k \in 0 .. made - 1}, made)
  /\ Announce(<<line>>)
  /\ UNCHANGED <<given, at, counter, next_id, docs, gap>>

(* The log of a task is gone; n records were in its artifacts, and are     *)
(* forgotten.                                                              *)
MissingTaskLog(n) ==
  /\ Full({"tcPerfherder"})
  /\ NextLine
  /\ Missing(<<line>>, n)
  /\ Announce(<<line>>)
  /\ UNCHANGED <<given, at, counter, next_id, docs, gap>>

-----------------------------------------------------------------------------
(* Transforms with an object for each file of a line.  Files that are      *)
(* expired, are not of the kind, or can not be read are passed over.       *)

(* A file is done with: its key is the next one.                           *)
Filed(key) ==
  /\ counter < MaxRecords /\ counter' = counter + 1
  /\ next_id' = next_id + 1
  /\ Announce(key)
  /\ UNCHANGED <<given, at, line, docs>>

(* The structured logs of a build: the keys are numbered in the block.     *)
BuildFile ==
  /\ Full({"testResults"})
  /\ Filed(<<next_id>>) /\ Overwrite(<<next_id>>)
  /\ UNCHANGED gap

(* The structured logs of a task, numbered in the block too.               *)
TaskFile ==
  /\ Full({"tcTestResult"})
  /\ Filed(<<next_id>>) /\ Overwrite(<<next_id>>)
  /\ UNCHANGED gap

(* The two files of a task about the files of Firefox, numbered in the     *)
(* line.                                                                   *)
FirefoxFile ==
  /\ Full({"firefoxFiles"})
  /\ Filed(<<line, next_id>>) /\ Overwrite(<<line, next_id>>)
  /\ UNCHANGED gap

(* The coverage artifacts of a task, numbered in the line.                 *)
CoverageFile ==
  /\ Full({"coverage"})
  /\ Filed(<<line, next_id>>) /\ Overwrite(<<line, next_id>>)
  /\ UNCHANGED gap

(* process_grcov_artifact and process_jsvm_artifact return the key of a    *)
(* file that could not be downloaded, parsed or written.                   *)
FileGivenUp ==
  /\ Full({"coverage"})
  /\ Filed(<<line, next_id>>)
  /\ gap' = TRUE
  /\ UNCHANGED <<store, wrote>>

FilesDone ==
  /\ Full(Deleting \cup {"coverage"})
  /\ NextLine
  /\ gap' = (gap \/ counter = 0)
  /\ counter' = 0
  /\ next_id' = IF worker \in PerLine THEN 0 ELSE next_id
  /\ UNCHANGED <<given, at, keys, docs, store, wrote>>

-----------------------------------------------------------------------------
(* The transform returns, and _dispatch_work verifies its keys.            *)

(* What was not written before is written now.                             *)
Written == Extended(docs)

Returned ==
  CASE worker = "joblogs" -> {<<0>>}
    [] worker = "buildbot" /\ ~gap -> {<< >>}
    [] OTHER -> keys

Ids(ks) == {IF k = << >> THEN source_id ELSE k[Len(k)] : k \in ks}

(* A single key that is the source's, or has its number, is not verified.  *)
Trusted(ks) == ks = {<< >>} \/ Ids(ks) = {source_id}

Contiguous(ids) == ids = 0 .. Cardinality(ids) - 1

(* Mutant: keys are not looked up in the destination.                      *)
VerifiedByNumber(ks) == Trusted(ks) \/ Contiguous(Ids(ks))

Verified(ks) ==
  \/ Trusted(ks)
  \/ /\ Contiguous(Ids(ks))
     /\ worker \in ToEs \/ \A k \in ks : \E r \in Written : r.key = k

(* Only process_coverage returns None, which is no key to verify.          *)
Nothing == Returned = {} /\ worker # "coverage"

AtEnd ==
  /\ at = "lines" /\ line = Len(block)
  /\ store' = Written
  /\ docs' = {}

Verify ==
  /\ AtEnd
  /\ Verified(Returned) /\ ~Nothing
  /\ at' = "stored"
  /\ announced' = CASE mode = "notify" -> Returned
                    [] mode = "queue" /\ worker \notin ToEs -> old \cup Returned
                    [] OTHER -> {}
  /\ UNCHANGED <<worker, block, source_id, mode, old, try, line, counter, next_id, keys,
                 wrote, gap, clash>>

(* The message is committed, although the keys were not announced.         *)
Drop ==
  /\ AtEnd
  /\ Nothing \/ ~Verified(Returned)
  /\ at' = "dropped"
  /\ UNCHANGED <<given, line, counter, next_id, keys, wrote, gap>>

Next ==
  \/ Begin \/ BlankLine \/ Raise
  \/ EsLine \/ JobLine \/ BuildLine \/ TooOld
  \/ NoLog \/ OldHost \/ EmptyLog \/ MissingLog
  \/ \E n \in 1 .. MaxRecords : LogLine(n)
  \/ \E n \in 0 .. MaxRecords : TaskLine(n) \/ MissingTaskLog(n)
  \/ BuildFile \/ TaskFile \/ FirefoxFile \/ CoverageFile \/ FileGivenUp \/ FilesDone
  \/ Verify \/ Drop

Spec == Init /\ [][Next]_blockVars

-----------------------------------------------------------------------------
(* Properties.                                                             *)

TransformsTypeOK ==
  /\ worker \in Workers /\ block \in Blocks
  /\ at \in {"ready", "lines", "stored", "dropped", "failed"}
  /\ line \in 0 .. Len(block) /\ counter \in 0 .. MaxLines + MaxRecords
  /\ \A r \in store \cup docs : r.try \in 1 .. try
  /\ gap \in BOOLEAN

(* A key that goes to the next stage has an object, unless it was there    *)
(* before the attempt or the numbers spared it the look-up.                *)
AnnouncedExists ==
  \A k \in announced \ old : Stored(k) \/ Trusted(Returned) \/ worker \in ToEs

(* What an attempt made is in the destination when it ends.                *)
Made == Cardinality({r \in store : r.try = try}) = wrote

(* No two records that an attempt makes have one place in the destination, *)
(* although some share an object and some a generator of numbers; but for  *)
(* the record of an old host, whose place an empty log can take.           *)
RecordsKeepApart == at \in {"stored", "dropped"} => Made \/ clash

(* What EtlHeadGenerator says of itself: "WILL RETURN A UNIQUE ETL         *)
(* STRUCTURE, GIVEN A SOURCE AND A DESTINATION NAME"; no exception.        *)
HeadersAreUnique == at \in {"stored", "dropped"} => Made

(* A block that was transformed is not dropped, unless a line of it gave   *)
(* nothing or a file was given up.                                         *)
DroppedIsIncomplete == at = "dropped" => gap
==============================================================================
