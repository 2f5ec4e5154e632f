# ActiveData-ETL in TLA+

ActiveData-ETL moves test and build data of Mozilla through a pipeline: loaders
write blocks of raw data to S3 and announce them on an SQS queue; ETL machines
read the announcements, transform the blocks into other blocks in S3 and
announce those; `push_to_es` machines copy what is finished into rolling
Elasticsearch indexes.  Everything between the machines is a message that can
be delivered twice or late, and every machine is a cheap one that can disappear
at any time.  The modules here model how work survives that.

Paths below are relative to `src/`.

## 1. Inventory

| component | state | operations | interacts with | what is hard | what makes it correct |
|---|---|---|---|---|---|
| **ETL loop** `activedata_etl/etl.py` | the loop's `todo`, the shared stop signal, `previous_attempts` in the message | `loop`, `_dispatch_work`, retry, reject | SQS wrapper, transforms, sinks | exceptions at every call, stop in mid-work, several threads and machines on one queue | no block is lost, output is announced, attempts are counted right, every block ends |
| **SQS wrapper** `vendor/pyLibrary/aws/__init__.py` | `pending` | `add`, `pop`, `pop_message`, `commit`, `rollback`, `close` | SQS | partial failure of `commit` and `rollback`, stale receipts, `close` on the way of an exception | a message is deleted only if its work is settled or copied |
| **push_to_es** `activedata_etl/push_to_es.py`, `vendor/pyLibrary/env/rollover_index.py` | position in the files, `queue`, `pending`, `done_copy` | `splitter`, `copy`, `_get_queue` | SQS, S3, one threaded queue per index | the deletion of a message is a callback queued behind its rows | a deleted message's rows are indexed, or left out for a reason |
| **threaded queue** `vendor/mo_threads/queues.py` (`ThreadedQueue`) | queue, `_buffer`, `_post_push_functions` | `add`, `extend`, `worker_bee` | splitter, Elasticsearch client | failed batches are kept and retried, or dropped; shutdown | rows leave the buffer only if indexed or hopeless |
| **Elasticsearch client** `vendor/pyLibrary/env/elasticsearch.py`, `typed_inserter.py` | the records it encodes (it removes their `_id`) | `extend`, `errors` | Elasticsearch | a request that fails after it was executed; partly refused batches | retry without loss and without doubles |
| **Queue and Lock** `vendor/mo_threads/queues.py`, `lock.py` | deque, `closed`, `waiting` | `add`, `pop`, `wait` | every thread | a wake-up can reach the wrong thread; timeouts | a bounded channel that can be shut; no consumer sleeps beside an item; the stop comes last |
| **buildbot loader** `activedata_etl/buildbot_json_logs.py` | set of upload threads, block number; S3 | `parse_day`, `upload` | S3, SQS, cron | uploads nobody joins, a set changed by two threads | a day is marked only when done; told after stored |
| **log parsers** `activedata_etl/imports/text_log.py` | the head, the steps and their times, the offsets of the clocks, of one log | `process_tc_live_backing_log`, `process_text_log`, `fix_overlap`, `fix_times` | transforms | lines without a date or in local time, steps without an end, steps that overlap | a log in order is taken, no time is lost, the offsets are right |
| **test result logs** `activedata_etl/transforms/unittest_logs_to_sink.py` | the runs of each test of one log | the actions of `LogSummary`, `summary` | transforms | tests that overlap, restart, crash or never end; files cut off | a row for each run; what says ok is ok |
| **transforms** `activedata_etl/transforms` | numbers of keys and records, the destination | `process` of each | ETL loop, sinks, S3, Taskcluster | a block is transformed again; lines that give nothing shift or thin the numbers | a key that is announced has an object; records do not take each other's place |
| **perfherder rows** `activedata_etl/transforms/perfherder_logs_to_perf_logs.py` | the list of known suites, shared by the threads, which grows as long as the process lives | `process`, `transform`, `stats` | transforms | what a suite is called depends on what came before, and on what another thread adds between a search and an addition | one name for a suite; every sample in a row |
| **Taskcluster records** `activedata_etl/transforms/pulse_block_to_task_cluster.py` | `seen_tasks`, shared by the threads | `process` | Taskcluster | a task changes between the calls for it; check and set by two threads; a comparison that leaves most out | the records of a task agree |
| **coverage ETL** `activedata_etl/transforms/{cov_to_es,grcov_to_es,jsvm_to_es,per_test_to_es,jsdcov_to_es}.py`, `imports/{parse_lcov,coverage_util}.py`, `vendor/tuid/client.py` | the lines of a file, the batch; the client's database, `num_bad_requests` and `enabled`, shared by the threads | the readers, `tuid_batches`, `get_tuids` | the tuid service, sqlite, SQS, sinks | batches, a service that fails or answers in part, a count without a lock, a thread that is to stop | the records are those of the artifact, with TUIDs of their own; the client is switched off for a reason |
| **file mapper** `activedata_etl/imports/file_mapper.py` | a tree of file names, `known_failures` | `_add`, `find` | coverage ETL | names that end each other, a listing that fails half-way | a source file is found under its own name |
| **S3 sink** `activedata_etl/sinks/s3_bucket.py`, `vendor/pyLibrary/aws/s3.py` | objects | `extend` (read, merge, write), `write_lines` | S3 | two writers of one key | no document is lost |
| **Firefox test logger** `activedata_etl/fx_test_logger.py` | sqlite table of files and keys | `loop` | S3, SQS | a crash between write, notify and update | a key belongs to one file; copies are fresh |
| **copying of a queue** `activedata_etl/copy_queue.py` | `pending` | copy, then one commit | SQS | failure on the way | copied before deleted |
| **backfills** `activedata_etl/{backfill,auto_backfill}.py`, `imports/s3_cache.py` | sqlite copy of a listing | compare S3 with ES, announce | SQS, S3, ES | S3 is listed by prefixes and in the order of names, keys are numbers | holes are filled, and once |
| **machine management** `activedata_etl/{find_es_oom,update_etl,update_push_to_es}.py` | the machines' code and processes | look, pull, restart, terminate | ssh, supervisor | a tool ends half-way; errors without a time | one restart for an error; what is left alone is current |
| **monitors** `activedata_etl/monitor*` | none | queries, e-mail | Elasticsearch | - | - |
| **threads and signals** `vendor/mo_threads/{threads,signals,till}.py` | children, `please_stop`, `stopped` | `start`, `stop`, `join`, `then`, `go` | all | children started while the parent stops | a stop reaches every thread |
| **persistent queue, pulse logger** `vendor/mo_collections/persistent_queue.py`, `activedata_etl/pulse_logger.py` | a file of deltas, `start`, `pending` | `add`, `pop`, `commit`, `rollback`, `close` | pulse, S3, SQS | does not start (section 12) | what was added comes off once |
| **other sinks** `activedata_etl/sinks/{split,threaded,dummy_sink}.py` | none | `extend`, `add`, `keys` | sinks | - | - |
| **ETL keys** `activedata_etl/__init__.py`, `s3_clear.py` | none | `key2etl`, `etl2key`, `etl2path`, `Version` | all | - | round trip, order |
| **normalizers** `activedata_etl/{transforms,imports}` | none | a mapping of fields | transforms | - (data) | - |
| **libraries** `vendor/{jx_*,mo_dots,mo_json,mo_logs,mo_times,mo_hg}` | various | - | all | - | not this system's own logic |

The hazards of this code, each at its line and with the properties that watch
it, are listed in `PROJECT.json`.

## 2. Plan

Done, the most important behaviour first:

1. `EtlLoop` (ETL loop and SQS wrapper), the abstract `WorkQueue` it implements, `MCEtlLoop`,
   `EtlLoopProofs`;
2. `PushToEs` (splitter, rollover index, threaded queue, client), `MCPushToEs`,
   `PushToEsProofs`;
3. `MoQueue` (Queue and Lock), the abstract `Channel` it implements, `MoQueueProofs`;
4. `BuildbotDay` (buildbot loader);
5. what the ETL loop calls: `Transforms` (keys and records of a block),
   `TaskLog` and `BuildLog` above `StepTimes` (log parsers), `TestLog`,
   `PerfLogs`, `TaskCluster`, `Coverage` with the `TuidClient`, `FileMapper`;
6. the programs around it: `S3Sink`, `FxTestLogger`, `CopyQueue`, `Backfill`,
   `AutoBackfill`, `FindOom`, `Fleet`;
7. `MCServices`, which checks the modules of 3 and 4 with those of 6 that run for ever;
   `MCLogs`, `MCRecords` and `MCImports`, which hold the instances of the programs that run to an
   end, and `MCBatch`, which checks them; and the theorems about these: `ServicesProofs`,
   `LogsProofs`, `RecordsProofs`, `ImportsProofs`, `BatchProofs`.

Left:

8. `EtlKeys`: `key2etl`, `etl2key`, `Version` as functions on sequences.

`PushToEs` has no abstract specification: what it promises of a message, that it is
deleted only after its rows are indexed, is the one invariant `DeletedIsIndexed`.

## 3. EtlLoop

**State.**  `sqs`, `body`, `holder` are the queue: what SQS holds under each
message name, the block and `previous_attempts` in its body, and the thread
with the latest receipt.  `pending` is `Queue.pending` of each thread's wrapper;
`batch`, `uncopied` and `onfail` are the locals of a running `commit()` or
`rollback()` and where its caller continues when it raises.  `pc`, `todo`, `act`,
`soft` are where a thread is in `loop` and `_dispatch_work`.  `please_stop` is
one signal per machine.  `posted`, `fate`, `cut`, `fails` are history, `stored`
is what destinations hold.

**Actions.**  `Top`, `Read`, `ReadNothing`, `ReadFails` are the head of the
loop with its `pop()`; `Dispatch` chooses the workers; `Transform`,
`TransformWarns`, `TransformFails`, `TransformStops` are the ways a transform
ends (as the code sorts exceptions at etl.py:242-266 and 309-312); `Announce` is
`work_queue.add` or the add of a notify queue; `Retry`, `RetryFails` are the
handler at 314-350; `Commit`, `Rollback`, `Copy`, `Delete`, `CallFails` the
wrapper; `Close` its `__exit__`.  `Stop`, `Crash`, `Restart`, `Expire`, `Post`
are the world.  A call to SQS is a step of its own, so machines interleave
between any two calls.

**What is abstracted.**  A worker has at most one key to announce (`Target`); a
batch notification of several keys is several workers.  A transform may write to
its destination before it fails.  Attempts and the constants 3 and 10 are
parameters; `TryAgain` is the code's condition.  Message names are reused once nobody
remembers them, which keeps the model finite; the instances have enough names
that an `add` never waits for one.

**What holds.**  `NoBlockLost`: an announced block has been processed to an
end, is named by a message on the queue, or was cut off by a stop request.
`OutputAnnounced`: a crash between transform and announcement is repaired by the
redelivery.  `RejectedAfterAllAttempts` (a part of the next property) and
`AttemptsAreBounded`: the counter in
the message means failures, in both directions.  A block fails at most `Limit + 1`
times, and for each fault as often again for each thread of a machine: a crash gives
back what every thread of it held, and each of these messages has attempts of its own.  `EveryBlockEnds`,
`StopEndsThreads`: liveness; a process all of whose threads have died without a stop
request (an exception of `pop` ends a thread) is the one exception, `AllDead`.

`LoopIsWorkQueue`: the loops of all machines implement `WorkQueue`, which has no
messages, receipts, threads or machines, only blocks:

    Promise == INSTANCE WorkQueue WITH
      Makes <- Outputs, Works <- WorkBlocks, Patience <- Limit,
      announced <- posted, waiting <- Waiting, ends <- fate, failed <- fails,
      interrupted <- cut

A block waits (`Waiting`) while any message on the queue names it.  `WorkQueue` lets a
block be announced only by other programs (`Post`) or by work on a block it is made from
(`Announce`); it is forgotten only behind an end or a stop request (`Forget`); it ends as
"done" only if all it is made into was announced, as "rejected" only if it failed more
often than `Patience`, as "malformed" exactly if it is not work (`EndsAs`).  Reading, copying,
deleting one message of several, crashing, restarting and redelivering are stutters.  Work
is done at least once, so the ends of a block are a set: `Forget` asks for an end at any
time, not since the latest announcement.

**What does not.**  `WorkIsReturned` (run `etl_shutdown`): a transform that
raises "Shutdown detected." loses its work, because `continue` leaves the
message in `pending` and `close()` commits it.  `docs/CodeCoverage Testing.md:37`
promises otherwise.

## 4. PushToEs

**State.**  `sqs` and `again` are the messages (`again`: delivered more than once,
so a receipt may be stale); `pc`, `cur`, `queue`, `pend`, `done_copy` are the splitter
and the locals of `copy()`; `chan` is what is in each `ThreadedQueue`, rows and
deletion callbacks in one order; `buffer`, `stripped`, `acks`, `at` are each
worker, `stripped` being how many rows of the buffer have lost their `_id`
in a failed push; `own` and `copies` are the documents in Elasticsearch.
`ignored` and `dropped` record why a row is not there.

**Actions.**  `Pop`, `PopNothing`, `Discard` (splitter); `CopyGarbled`,
`CopyUndated`, `CopyTooOld`, `CopyAfterTooOld`, `FindQueue`, `CopyRow`,
`CopyFails`, `EndOfFile`, `Finish`, `FinishFails` (one per branch of `copy()`);
`Take`, `TimeIsUp`, `Leave`, `Push`, `PushRefused`, `PushFails`, `PushBroken`,
`Ack`, `AckFails` (worker and client); `Stop`, `Crash`, `Restart`, `Expire`.
The deletions of one push are a set: they commute.  `Resume` says where a
worker goes on after a failed push: pushes are made in the loop, at a THREAD_STOP, and
once more after the loop.

**What holds.**  `DeletedIsIndexed`, `DropsAreExplained` (both proved), `EveryRowIndexed`,
`StopEndsProcess`.  **What does not:** `NoDuplicates` (run `push_duplicates`): a
retried batch has no ids any more.

## 5. MoQueue and Channel

The lock is held from the start of a call to its end or to a `wait()`, so these
stretches are the steps.  `waiting` is `Lock.waiting`, newest first;
`signalled` are the threads that `__exit__` told to go.  `Nap` is the 5-second
wait of a producer, `TimeOut` its limit, `PopNone` the `till` of `pop()`.
With one producer a wake-up always finds a consumer that needs it (`NobodySleeps`,
checked in run `services` and proved); with two it can go to the other producer (run `queue_two`), and
`pop()` returns None beside an item.

`Channel` says what the queue promises without a lock or a waiter: items of a
producer go in once, in their order, while it is open and has room; what went in
first comes out first; the stop sign goes in once, and nothing after it.  `MoQueue`
implements it:

    Promise == INSTANCE Channel WITH Earlier <- InOrder, Room <- Limit,
                 StopSign <- Stop, contents <- queue, shut <- closed, taken <- popped

A wait, a nap and a wake-up are stutters of the channel.  TLC checks
`QueueIsChannel` with one producer, `MoQueueProofs` proves it for any number.

## 6. BuildbotDay

`pc` and `block` are `parse_day`, `at` its upload threads, `threads` the set
guarded by the lock, `stored` and `notified` what S3 and the queue were given.
A call that fails may have done its work.  `NextProcess` is the next run (cron) or
the end of this one, which takes the uploads with it.  `UploadsAreBounded`
counts the threads that ended before they were added and hold their place for good;
`DayGetsMarked` says that only those can keep a day from its block 0.
`FirstBlockLast` (buildbot_json_logs.py:126) does not hold: nobody joins
the uploads.

## 7. What the ETL loop calls

**Transforms.**  One attempt of a block is `Begin`, a step for each line or
file, and `Verify` or `Drop`, which are what `_dispatch_work` does with
the keys that came back.  Each of the nine transforms has the actions of its
own `process()`: the numbers it gives (`counter`, `next_id`, or the line), when it
writes (at once, or `docs` in the end), what it deletes, and what it returns.
`BlocksEndRight`: a key that goes on to the next stage has an object, and a
block is dropped only if a line or a file of it gave nothing.  `RecordsKeepApart`: what an
attempt made is all there when it ends.  The one exception is the record of an
old host in `pulse_block_to_perfherder_logs`, which a later empty log replaces;
`HeadersAreUnique` (run `headers`), the promise without the exception, fails.

**TaskLog, BuildLog, StepTimes.**  A log is read a line at a time.  A line of a
Taskcluster log has a step and a time; a buildbot log has lines of two
clocks whose distance from UTC must be guessed from the first line of each.  `StepTimes`
has `fix_overlap` and `fix_times` as operators on sequences of steps.
`OrderedLogsAreTaken`: a log whose lines are in order has no negative duration and is taken,
a build's if the offset of its builder was guessed right, whatever its old mozharness was
taken for.  `NoTimeLost` and `CutsEnd` are about the cutting of overlapping steps, whose
`while True` has no other reason to end: a cut adds no unit of time, and makes one more
step that lasts, each of which has a unit of its own.  `ClocksAreRight` gives the exact
condition under which an offset is guessed right, on both sides of midnight; a line of the
old mozharness has no date, so its clock must be within half a day of the last known time.
Regular expressions, names and results are data.  `TaskLog` has what the code does
with a log of another task: it raises (text_log.py:181) within a `try` that
catches it (188), so `ForeignLogIsRefused` does not hold and no run
checks it.  The last line of a buildbot log is never looked at, and `elapsedTime` of
a step is assigned to a local (632); the model has the first and leaves the
second out.

**TestLog.**  The runs of each test are a sequence, the last of which is the one
`_get_test` finds.  Tests start again before they ended, end without a start,
crash with or without a name, and have subtests that come late.
`TestRowsAreTrue`: a row per start, one more for what came without; a
row that says ok has a status and no unexpected subtest before the line
that made it ok.

**PerfLogs.**  `suites` belongs to the process and is shared by its threads without a lock: a
name it does not know is put at the end of the list, and a name that begins with one of
the list is cut to it.  The search (`Recognize`) and the addition (`Learn`) are two steps,
with a warning between them in the code, and the other threads of the machine learn names
in between.  The block of one thread (`Reader`) is followed in full; of the others only
what they do to the list.  `SuitesStayTheSame`: in one process a name is always cut the same
way, and what is written has every replicate of a series with moments, in one row (`Stats`: a
series without moments is warned of, and its row has no samples).  Excepted are names
accepted because of their browser, which are never learned, and resource records of a
remote suite (`Floating`); and a name that was `overtaken`: between its search and
its addition another thread added a name that begins it.  Then it was a suite of its own
once, and is cut down to one other ever after, no more.  The comment at line 570 asks for the
longest names first; the race breaks that order, and so does the list itself, in which
"tp6-stylo-threads" stands behind "tp6" and is never found.  The property holds in any order.

**TaskCluster.**  The calls for a line (task, status, artifacts, log) are steps,
and the task changes between them.  How its last run ended is not kept, so that every
failure of a log may be one that matters: the model does more than the code, never less.
`Compare` and `Remember` are two
steps, as two threads share `seen_tasks`.  What is compared is little: `_normalize` has
consumed most of the message (`Left` is what remains, by kind), the runs are gone, and
`assertAlmostEqual` does not look at what the first view lacks (`Extends`), such as a later
artifact.  `TaskRecordsAgree`: each record says at least what a first view of its task says,
of which a thread has but one; the records of a block have one source; each line of a block that was
written has a record or was given up, and for what it shows only if the task changed or
the first message had left more.

**Coverage.**  Readers of the five kinds of artifact, and the batch of records
that wait for their TUIDs.  What the client gives may be anything (`Flush`): of all files, of
some, of some lines, or nothing, and a failure of the markup ends it for the rest of the batch.
`CoverageIsOfArtifact`: the TUIDs of a record are of its file and its lines, and whatever
happens to them, the records are the files of the artifact that are not too long,
in their order; for jsdcov one per file.  A per-test file that raises is warned of and
left out, and the artifact goes on (`PerTestFileFails`).  A batch keeps within its limit, but for that of a
jsdcov artifact, which is made in one go and stays as it is when a call fails.  An lcov file that a stop request cut is
written short (`StopShort`), and is excepted.

**TuidClient.**  One client for all threads: `lookup` is where each is in
`get_tuids`, `tuid_db` the files with a row, `enabled` and `bad_requests` what they share.  The
service may answer for part of the files (`Ask`); one command inserts all new rows, and fails
if another thread was there first (`Insert`, `Fails`); the count is read and written in two
steps (`Count`, `Store`).  A failure of the database or of the caller's markup
switches the client off from outside (`QueryFails`, `MarkupFails`).  Theorem `ClientIsRight`: a
caller gets what is stored of the files it asked for, and the client is off only for a reason
and on with too many failures only while a thread is about to switch it off.  The count may exceed
the limit once the client is off, as its queue can still fail.  With the vendored
libraries a query with names of files, and an insertion, always raise (an iterator of
`_Join` without `next`, a `ConcatSQL` without `endswith`); the model leaves both outcomes open,
as the code has them.

**FileMapper.**  The tree is the set of its leaves; `Add` moves an older file down
when two meet (its cases exclude each other, as the branches of `_add` do).  `SourceIsFound`: a
source file is found under its own name, unless another file's path ends with its path, or it is
at the top of the tree and was listed twice: then it moved itself below its own end, where it
is not looked for.

## 8. The programs around it

**S3Sink.**  `extend` is `Read` then `Write`, by several threads; both can
fail, and a failed read is taken for an empty object (s3_bucket.py:107).
`ExtendKeeps`: what was written stays, unless two calls overlapped or a read failed;
in both of these cases the code does lose documents.

**FxTestLogger.**  A run scans the bucket into sqlite, then copies, notifies and
marks one file after the other, and can be killed between any two of these.
`CopiesAreRight`: the key a file has in the database holds that file, although a
key may be given again after a failure; and without failures the copy is the
newest.

**CopyQueue.**  Messages are held until the last is copied; one that becomes
visible again is copied twice.  `CopiedBeforeDeleted`.

**Backfill, AutoBackfill.**  Both compare S3 with Elasticsearch.  `Backfill` lists S3
by the first digits of a number, going downwards.  How many digits it leaves off is
`ceiling(log10(...))`, where `mo_math.ceiling` is the next greater integer, of an integer
too, and the logarithm of some powers of ten is rounded down (`Enough`, `RoundedDown`).
`BackfillIsComplete`: below its limit it queues what is missing in its range, but for the
numbers of no more digits than that, which are under the prefix "0" that is never listed.
`AutoBackfill` has the pages of the sqlite copy (in the order of names, from the largest
number: "10" is not seen once "9" is there; the largest comes again, as a key is longer than its
number; old keys of one bucket are deleted) and the division of a bucket into groups by
decimal digits; `HolesAreFilledOnce`: each hole of the copy is queued once in a run that was
not cut off by `MAX_SIZE`, and none twice.  The next run queues it again if it is not indexed by then.

**FindOom, Fleet.**  `FindOom` takes for the time of an error that of a later line, which may be
one of after the restart, and tries one error after the other as long as the command raises
(`RestartOom`; what raised may have restarted the node); still `OneRestartPerOom`.  `Fleet` is
one machine and the two tools that update it, which can end anywhere; a command that fails is noticed, for
`mo_fabric` never reads the `warn_only` it is given.
`LeftAloneIsCurrent`: `update_etl` leaves a busy machine alone if the pull
finds nothing new, and then its processes run what is on its disk.

## 9. Runs and bounds

| run | instance | why enough |
|---|---|---|
| `etl_safety` | 2 machines with one thread each, a block made into another, 1 fault, 2 attempts | every pair of calls of two machines interleaves, and is a step or a stutter of `WorkQueue`, with one failure, crash, stop or early redelivery at any point; symmetric in the machines |
| `etl_malformed` | 1 thread, `wait_forever` false, one message of each odd kind, unknown blocks kept | the paths that do not depend on a second thread |
| `etl_liveness` | 2 threads of one machine, 1 fault | the shared stop signal; no symmetry, as liveness needs |
| `etl_shutdown` | as `etl_safety` with one block | shows the loss |
| `push_safety` | 5 messages, 6 rows, batches of 2, 1 reported row, 1 fault | every branch of `copy()`, a batch with good and hopeless rows, rows and deletion split over batches |
| `push_liveness` | 2 messages, 2 indexes, 1 fault | an index with a hopeless row beside one that is stuck |
| `push_duplicates` | 1 message, 1 fault | shows the doubles |
| `queue_two` | 2 producers, 1 consumer, room for 1 | shows the lost wake-up |
| `day_last` | 2 blocks, no fault | shows the missing join |
| `services` | queue: 1 producer of 3 items, 4 consumers, room for 2; day: 5 blocks, 1 upload at a time, 1 fault, `force` either way; sink: 2 writers, 2 documents, 3 calls; copier: 2 messages, 2 processes; logger: 2 files, 2 versions, 1 kill | queue full, empty, closed; with twice as many consumers as there is room the stop can wake the producer while consumers sleep; the limit of uploads binds and a thread can leak; two calls overlap and a third follows; a process fails and the next goes on |
| `batch` | task log of 4 lines, build log of 5, hours of 4 and days of 96 units; test log of 4 lines; blocks of 2 lines, 2 records each, 2 attempts; 2 searches; 1 artifact of 3 lines, batches of 2; 2 callers of the TUID client, 2 files, 3 calls, off at 2 failures; backfill with digits of base 2, numbers of 2 to 5 digits, a limit that is a power of the base and has its logarithm rounded down; objects of 1 and 2 decimal digits, pages and groups of 2, one key to be deleted, 2 runs; 1 node, 2 restarts, 4 ticks and 3 lines for the errors; 2 releases, 3 visits; 2 threads, 2 perfherder blocks, 3 lines in all; 2 Taskcluster lines, 1 task, 2 kinds of messages, 1 change, 2 readers | a step is cut and its rest too; a line before and after midnight; a second attempt after each way the first can end; a batch that fills and a rest; two threads at the count, and at the insertion of one file; two prefixes and the short one; a group that is divided and one that is not; a command that raises before one that works; a visit after one that failed; a name that is learned while another thread is about to add a longer one |
| `headers` | one block of `pulse_block_to_perfherder_logs` | shows the record that is replaced |

The components of `services` and of `batch` (`MCLogs`, `MCRecords`, `MCImports`, and the tools in
`MCBatch` itself) share nothing, so a behaviour is that of
one of them: `which` names it, the variables of the others keep their first
values, and a run explores the sum of their state spaces, not the product.

`MaxFaults` and `MaxKills` bound what goes wrong outside the program; the thread steps of the
models are not bounded, and inputs (lines, blocks, messages) are bounded by the
constants named `Max...`.  The theorems below hold for any number of faults.
Deadlock is not checked where the system may stop (an empty queue, a finished
day, the end of the input); `queue_two` stops at its violation.

## 10. Fairness

Threads run (`WF` of their steps; a failing call is never fair).  SQS makes a
message visible again that nobody works on (`WF` of `Expire` under that
condition).  supervisord starts a process that is gone
(`resources/supervisor/beta/supervisord.conf`, autorestart=true), cron the buildbot
loader (`resources/cron/manager.cron`).  In `PushToEs` SQS does not pass over a
message for ever (`SF` of `Pop(m)`): a garbage message that comes back
again and again may not hide the others; and a worker looks at its stop
signal in every round of its loop (`SF` of `Leave`; queues.py:433), so a batch
that fails for ever cannot keep the process alive.  In `MoQueue` no timeout is fair:
`EveryItemPopped` must not need one.  `ServicesFairness` is the fairness of `BuildbotDay` and
of `MoQueue`, each for its own steps.  The programs of `MCBatch` have no fairness: what is
said of their end is an action property (`CutsEnd`: with each cut the steps that last become
more, and there are never more of them than units of time, which do not become more).

## 11. Proofs

All theorems hold for every value of the constants that the named assumptions of
the module allow, any number of faults included.

**`EtlLoopProofs`**: `TypeSafety`, `NoBlockIsEverLost`,
`RejectedOnlyAfterAllAttempts`, `OutputIsAnnounced`, and `InvariantHolds` for the whole of
`IInv`.  `NoBlockLost` is not inductive: a block may be carried only by a message that
some thread is about to delete.  `Safe` says that unfinished work is named by a
message nobody is committed to delete (`Doomed`: the rest of a batch in `commit`, the
copied part of one in `rollback`).  For that to survive `Commit`, `PendingOK` says
what a thread remembers: messages of settled blocks, or of the block it is working
on.  `TypeOK` needs `ActOK` (a dispatch is at one of the block's workers).
`CountOK` says that the count in a message never runs ahead of the failures there
were; `RejectedAfterAllAttempts` is part of it.  `DoneOK` says that a dispatch without a
warning has announced the output of each worker it has passed, which with `Safe` gives
`OutputAnnounced`.  One lemma per conjunct has one step per action;
`SafeFrom`, `SafeWrite`, `SafeCommit` and `PendingFrom` are the facts those steps share.

`LoopsAreAWorkQueue` is the refinement of section 3, from `IInv`, `GripOK` (below) and
`PostedOK`: the block of every message, and the block a thread holds or works on, was announced, also
when the message itself is gone.  `WaitingWrite` and `WaitingDelete` say what one message more
or less does to `Waiting`; that the last message of a block is deleted only behind its end is
`Safe` again.  `EndIs` turns an end that a step gives into one that `WorkQueue` allows, from
`DoneOK` and `CountOK` after the step; `FailStep` and `ReturnStep` do so for a failure and a copy,
and `PromiseStep` maps each action to a step or a stutter.

`OnlyFaultsGiveMoreAttempts` is for any finite number of threads and
messages, where no worker announces a block that other programs announce too.  The
failures of a block are bounded by what is left of its attempts, so the invariant counts both:
`Spent(b)` is the failures so far, the attempts left in the messages that can be read
(`From`), and those left with the threads that are busy with it (`Due`).  `RoundsOK` says
that this sum stays within the `Budget`: a round of `Limit + 1` attempts for being announced,
and one for each fault and each thread of a machine.  Attempts left are the size of a
set (`Area`), since a sum over messages would be induction over data; `LeftShrinks`, `LeftBut`
and `LeftReleased` compare such sizes.  `GripOK` is what makes it inductive: a thread holds at
most one message with work, so a step of it spends or hands over one round (`ThreadSpends`), a
failure costs an attempt (`ThreadFails`), and a crash or an early redelivery, both faults, can
release a round per thread at most (`CrashReleases`, `ExpireSpends`).  While this was proved, the
bound the runs had checked, one round per fault, turned out to be too small for two
threads on one machine, which no instance had; the property now has the number of threads.

**`PushToEsProofs`**: `PushTypes`, `PushInvariant` (`IInv`), `DeletedMeansIndexed`,
`DropsExplained`.  A message may be deleted long after its rows were read, so `IInv`
follows a row on its way, and says at each stage that the deletion can not overtake it.
`CopyOK` is the account of `copy()`: as long as `done_copy` is set, each row read so far is
settled, in `pend`, or on its way to the one index the message has.  `ChanOK`: before a
deletion in a queue stands each of its rows that is not yet sent.  `AcksOK`: the rows of
a message whose deletion a worker holds are settled or in its buffer.  `PushedOK`: when the
deletions are done, the buffer is empty, so they are settled.  A failed push keeps
the buffer; a refused one that empties it has indexed or given up each of its rows
(`PushSteps`); a crash empties everything that could overtake.  The documents only grow
(`IndexAdds`, `Stay`).  `DropsAreExplained` is inductive with the types: the first refused
place is always among those reported (`SomePlaceIsFirst`), so it is hopeless where
`errors()` gives the batch up.  `DataAssumption` asks for at least one message, for the value
`cur` has before the first.

**`MoQueueProofs`**: `QueueImplementsChannel`, the refinement of section 5, for any number of
producers and consumers.  `ChannelInv` has the types of the queue, that the numbers of all
items so far have been counted by their producer (`Counted`), and that who waits for
room still has an item to add (`Waiters`).
`TryAddStep`, `TryPopStep` and `QueueStep` show that a step maps to a step of `Channel`
or a stutter.  `OneProducerWakesAll` and `OneProducerMeansEmpty` are about one producer
and at least one consumer (`Setting`).  Their invariant is `WakeInv`.  The danger is that the
oldest waiter, who gets the wake-up, is the producer while a consumer sleeps; `Newer` says
that such a consumer found the queue empty while the producer slept already, so that
nothing but the stop can have been added since.  `OthersOf`, `ExitWakes` and `WaitSleeps`
say what the lock does to the list of waiters; `Asleep` says that who waits is in it or has
been woken, which `StopIsLast` needs for the last consumer.

**`ServicesProofs`**: the buildbot loader, and the composition `MCServices`.

- `DaySafety` (`DayInv`: types, ranges of block numbers, and that
  `parse_day` and each upload have stored what they are about to announce);
  `AnnouncedIsStored`, from it; `UploadsStayBounded`.  The bound says nothing of where the
  running uploads are; `SlotsOK` does: each is in `threads` or is the one just started,
  `parse_day` adds to `threads` only after it found a free slot, and `SlotsBound` counts
  the union of the running and the leaked.
- `ServicesTypes`, `QueueAmongServices`, `NobodySleepsWithOneProducer`,
  `NoneMeansEmptyWithOneProducer` carry `MoQueueProofs` and the types of the loader over to
  `ServicesSpec`; the last two ask for one producer and at least one consumer, as above.
- `ExtendKeepsDocuments` (`SinkInv`): until two calls overlap or a read fails, at most one call
  is running (`OneAtATime`), and what it has read is what is in the object (`ReadIsCurrent`).
- `CopiedBeforeItLeaves` (`CopierInv`): what a process holds is copied, but for the message it is
  adding; a message that is not in the source has a copy.
- `LoggerCopiesAreRight` (`LoggerInv`): keys are given without a gap and to one file each
  (`KeysApart`), which the next key, one more than the largest, only keeps because of the
  count of the files that have one; the key of a file and the key about to be marked have a
  copy of that file (`CopiesStored`); and without a kill a file that is not copied
  in its newest version is due to be (`NothingForgotten`).

**`RecordsProofs`**: transforms.

- `RecordsOfTasksAgree` (`ClusterInv`): what is in the output of a thread, or in the
  destination, says what a first view says, and so does `seen_tasks` (`RecordsShowTheFirst`); a
  thread that is about to be the first has not been (`OnceForEachThread`); threads read
  different blocks, and what they hold is of theirs (`BlocksApart`); the lines behind a thread
  are answered (`LinesBehind`); and as long as no task has changed, all see the
  same artifacts (`SameWhileUnchanged`), so nothing is given up for a difference but where the
  first message had left more.  The kinds of messages are any; what each leaves, and the
  two lists of artifacts, are those of `MCRecords`.
- `BlocksEndAsTheyShould`, `RecordsOfAnAttemptKeepApart` (`BlockInv`): each transform numbers
  its keys and its records in its own way.  `RecordsFresh` says for each where the records of
  this attempt are, that there are as many of them as were written, and what lies behind the counters it
  uses (`Passed`), so that the next record has a place of its own.  `KeysNumbered` says that
  without a gap the keys are numbered from 0 and have their objects, which is what
  `Verify` and `Drop` look at.

- `BlockTypesStay`: a record is of this attempt or of an earlier one (`Tried`, as every write of a
  step is: `Puts`), and `NumberedSoFar` bounds the numbers, by the lines read or by the files of
  a line.

**`LogsProofs`**: log parsers, test result logs, perfherder rows.

- `LogsInOrderAreTaken` (`OrderedInv`): a step of a task ends behind its start in any log, so only
  the children of mozharness can have a negative duration; they start no later than the last
  line (`HarnessInv`), which ends the open ones, unless a line went back.  `TaskTypes`.
- `EveryMomentIsInAStep` (`SpansInv`): from the first cut on, what was in a step before is in
  one.  `CutTo` is the sequence after a cut, `CutIs` and `InsertIs` show that `fix_overlap` computes
  it for steps of any number, `CutKeepsTime` that it leaves no moment out.
- `CutsComeToAnEnd`: `From` tells for each step after a cut which one it is or was cut from; parts of
  one step share no unit of time (`OnlyPartsShare`), so there is a one-to-one map from
  the units after the cut to those before it (`CutAddsNoTime`); the step that was cut lasts, and so do
  the one it held and its rest (`CutLeavesMore`).  The measure is the size of a set, as a sum of
  durations would be induction over data.
- `GuessedClocksAreRight` (`ClockInv`): what an offset was guessed from is remembered (`lag`,
  `oldLag`), and the guess is compared with the true one by division with remainder, for each of
  the offsets of whole hours.
- `BuildsInOrderAreTaken`, `BuildTypes` (`BuildInv`): `KnownInv` says which times are known when;
  `StepsInv` that, with lines in order, the children of a step end behind their start, and the
  steps do if the builder's offset is right; `PlacesInv` that an open step of the old mozharness
  is where `open` says and started before the last line, so that its end can be set.
- `RowsOfTestsAreTrue` (`RowInv`), `TestTypes` (`FileInv`): a run is `Earned` at any time, not only
  at the end of the log; the runs of a test are counted by its starts.
- `SuitesAreTrue` (`PerfInv`, `SamplesInv`), for any number of threads and the five suites of
  `MCLogs`: a name that was given is the one that would be given
  now, or waits to be added by a thread (`Settled`), because a suite that is added stands behind
  all others (`AddedSuite`); a name that was overtaken was its own suite or is what it would be cut to
  now (`Overtaken`); each replicate of a line is in one row of it (`Parted`), also where they are
  written in chunks, and where a series has no moments (`StatsKeepTheParts`).

**`ImportsProofs`**: file mapper, coverage ETL, backfills.

- `SourceFilesAreFound`, `MapperTypes` (`FindInv`, with `TreeInv` for the tree): every leaf stands
  at a beginning of its file's path, or just below its end; no leaf is on the way of another
  (`Apart`), and no file of the listing is missing but the one that is being moved
  (`AllPresent`).  What is at or below the end of a path that ends no other is then
  that file (`GoodEnd`).
- `CoverageIsTrue` (`CoverInv`): the records written and the batch together are what was read and
  is kept, in its order (`OrderInv`), at any time and whatever became of the ids; for jsdcov
  they are one for each file, with the lines of all its parts (`AggregateInv`).  `CoverTypes`
  (`WaitInv`): the bound of the batch.
- `ClientIsRight` (`TuidInv`): what a thread holds, and all that was returned, is stored and was asked
  for (`HoldsStored`), since rows are never taken out; what a thread has read of the count,
  and the count itself, are no more than the failures there were (`CountsRight`), although
  additions to the count can be lost.  `TuidGoes` and `TuidQuiet` are the steps that leave the switch alone.
- `BackfillLeavesNothing` (`FillInv`): what has more digits than are left off is under just one
  prefix of each length (`ExtraDigitsAre` holds whichever logarithms are rounded down), and above the current prefix everything that is missing has been found (`ScanInv`); what
  is queued is what was found, in its order (`QueueInv`).  Sorting (`Downwards`) is defined by the
  place of each number, so that it can be reasoned about.
- `EachHoleIsQueuedOnce` (`AutoInv`): the groups on the agenda have no number in common (`ApartIn`);
  a number that was queued is in none of them (`QueuedOnce`), and a hole that was
  not queued is in one (`NothingLeft`).  `DividedGroup`, `GroupsFacts` say that a division gives
  each number of a group to one of the smaller ones, for keys of any number of digits: by
  `NextDigit` a number in a group is the group's own or has just one next digit, and
  `LessDigits` and `NotLonger` keep those of different lengths apart; `PushLevel` and `PopLevel` what that does
  to the agenda.

**`BatchProofs`**: the tools of the fleet, and the composition `MCBatch`.

- `LeftAloneRunsItsDisk` (`MachineInv`): the processes differ from the disk only between a pull
  and what follows it, unless a tool was cut off.
- `OneRestartForAnOom` (`NodeInv`): the lines that date an error are no more than the errors
  (`DatedAreErrors`), and stay what they are (`OomLogGrows`); a run restarts a node at most
  once for each such line that is newer than its start, all of which are behind its new start
  (`RestartServes`), so the restarts are at most the lines that were `Served`.
- The theorems `Batch...` say of `BatchSpec` what the modules above prove of one program.  The programs
  share no variable, so a behaviour of the composition is one of each of them, with stutters
  (`ProgramSteps`, and the lemmas `TaskRuns` to `ClusterRuns`).  Together with the two above they
  state every invariant and the action property of run `batch`.

The assumptions name what a constant is: `ServicesAssumption` (numbers; finitely many log
files), `LogsAssumption` (times are numbers; a day has two halves; offsets are whole hours; a
chunk has at least one replicate), `RecordsAssumption` (a block has a number of
lines; the workers are among the nine transforms), `ImportsAssumption` (files are paths without
the mark "."; limits are positive; the numbers of the automatic backfill have at least one and
at most `MaxLength` digits, which may be any number, and `MAX_SIZE` is at least two).  `PowersOfTen` and
`BackfillAssumption` also have the arithmetic of
powers that would take induction (`Base^d` is a positive number, `Limit < Base^Limit`, the
next power of ten is ten times as much), and that
the numbers are allowed as many digits as the limit has.  TLC evaluates them in the runs.

What the proofs changed.  The bound on attempts was too small for two threads on one machine.
The guards of `Add` in the file mapper overlapped.  The bound of a batch of records does not hold
after a failed jsdcov artifact.  The condition for the clock of the old mozharness needs
the half day.  On the other hand, a build in order is taken
whatever the offset of its old mozharness, and a task's log in order without the exception
for one that has no step; the properties say so now.  An overtaken suite can change its name
only once.

Every invariant and every action property of the passing runs is a theorem.  Only
model-checked are the liveness properties (`EveryBlockEnds`, `StopEndsThreads`,
`EveryRowIndexed`, `StopEndsProcess`, `EveryItemPopped`, `DayGetsMarked`): they need fairness,
and `ENABLED` is out of the prover's reach; and what the runs that end in a violation show.
`ClientIsRight` is only proved: no run states it, but `TuidClient` is one of the programs of run `batch`.

## 12. Not modelled

Elasticsearch, S3, SQS, sqlite, Taskcluster, the tuid service and the machines are
external: what they may do is in the actions above.

Left out of components that are modelled: sampling (`sample_only`), the
deletion of old indexes, `--id` runs with a local queue, the setup of the
workers; `push`, `extend`, `pop_all` and `pop_one` of the queue; the fields of
rows, statistics (but for whether a series has moments) and names (data); `verify_blobber_file`; the download of
listings.  Seven files import `Math` from the vendored `mo_math`, which has no such
name; the models have what was meant.

Not modelled at all:

- *threads, signals, timers*: the models take `please_stop`, `join` and timers as given;
- *persistent queue and pulse logger*: `pulse_logger` imports modules that are not
  in the repository, and nothing else uses `PersistentQueue`;
- *other sinks*: wrappers without state; `Threaded` passes an argument `queue` that
  `ThreadedQueue` does not have;
- *ETL keys*: text taken apart and put together; `Transforms` has keys as sequences of numbers;
- *queue tools that do not run*: `compact_tc_logger` uses names it does not import,
  `backfill_repo` a module that is gone; `look_at_queue` prints one message;
- *normalizers, monitors, libraries*: functions of data, queries, and code that is not this system's.
