---------------------------- MODULE AutoBackfill ----------------------------
(***************************************************************************)
(* The automatic backfill (activedata_etl/auto_backfill.py) over a copy of *)
(* the bucket's listing that it keeps in sqlite (imports/s3_cache.py).     *)
(* The copy is topped up from the largest number it has; then the keys are *)
(* divided by their first digits until a group is small enough to be       *)
(* compared with Elasticsearch.                                            *)
(***************************************************************************)
EXTENDS Naturals, Sequences, SequencesExt, FiniteSets, FiniteSetsExt

CONSTANTS
  ObjectIds,    (* the numbers an object can have                          *)
  MaxLength,    (* digits of the longest of them                           *)
  BadKeys,      (* those of keys that do not have the bucket's format      *)
  Retired,      (* above 2000 in bucket active-data-jobs, {} for the others *)
  MaxSize,      (* MAX_SIZE: 10000                                         *)
  PageSize,     (* the objects taken at a time: 100                        *)
  MaxBad,       (* pages with nothing new that end the top up: 100         *)
  MaxRuns       (* bound on the runs                                         *)

HasDigits(n, d) == 10^(d - 1) <= n /\ n < 10^d

(* What the proofs need of the powers of ten, which the provers do not know. *)
PowersOfTen ==
  /\ 10^0 = 1
  /\ \A d \in 0 .. MaxLength : 10^d \in Nat \ {0}
  /\ \A d \in 1 .. MaxLength : 10^d = 10 * 10^(d - 1)
  /\ \A d, e \in 0 .. MaxLength : d < e => 10 * 10^d <= 10^e

AutoAssumption ==
  /\ MaxLength \in Nat \ {0} /\ PowersOfTen
  /\ \A n \in ObjectIds : n \in Nat /\ \E d \in 1 .. MaxLength : HasDigits(n, d)
  /\ MaxSize \in Nat /\ MaxSize >= 2

VARIABLES
  objects,      (* the numbers with an object in the bucket                *)
  files,        (* the numbers in table `files`                            *)
  annotated,    (* those that are annotated as invalid                     *)
  documents,    (* the numbers with a document in Elasticsearch            *)
  activity,     (* "off", "topup", "fill"                                  *)
  largest,      (* maximum of the table when the run began                 *)
  marker,       (* where the listing goes on: a number, and whether it was listed *)
  badCount,
  agenda,       (* stack: the groups to look at, with their counts         *)
  total,        (* backfill.total                                          *)
  capped,       (* history: a group was left because the total is too large *)
  added,        (* how often each number was queued in this run            *)
  rounds        (* history: the runs                                       *)

autoVars == <<objects, files, annotated, documents, activity, largest, marker,
              badCount, agenda, total, capped, added, rounds>>

Digits(n) == CHOOSE d \in 1 .. MaxLength : HasDigits(n, d)
Padded(n) == n * 10^(MaxLength - Digits(n))

(* The order of names in a listing.                                        *)
Before(a, b) ==
  Padded(a) < Padded(b) \/ (Padded(a) = Padded(b) /\ Digits(a) < Digits(b))

(* A group is a number and whether the name ends with it ("12."); of the   *)
(* others n is one if it is the group's number and d more digits.          *)
Root == [number |-> 0, whole |-> FALSE]
Begins(n, k, d) == k * 10^d <= n /\ n < (k + 1) * 10^d
InGroup(n, g) ==
  IF g.whole THEN n = g.number ELSE \E d \in 0 .. MaxLength : Begins(n, g.number, d)

(* The names with one more character than the group's.                     *)
Longer(g) ==
  {[number |-> g.number * 10 + d, whole |-> FALSE] : d \in 0 .. 9}
    \cup {[number |-> g.number, whole |-> TRUE]}

Valid == files \ annotated          (* and not too old: all of ObjectIds are recent *)
Count(g) == Cardinality({n \in Valid : InGroup(n, g)})
Groups(g) == {s \in {[group |-> h, size |-> Count(h)] : h \in Longer(g) \ {Root}} : s.size > 0}

AutoInit ==
  /\ objects = {} /\ documents = {}
  /\ files = {} /\ annotated = {}
  /\ activity = "off" /\ largest = 0 /\ badCount = 0
  /\ marker = [number |-> 0, listed |-> FALSE]
  /\ agenda = <<>> /\ total = 0 /\ capped = FALSE
  /\ added = [n \in ObjectIds |-> 0] /\ rounds = 0

(* The ETL goes on between runs.                                             *)
NewObject(n) ==
  /\ activity = "off" /\ n \notin objects
  /\ objects' = objects \cup {n}
  /\ UNCHANGED <<files, annotated, documents, activity, largest, marker, badCount,
                 agenda, total, capped, added, rounds>>

(* What was queued, or is loaded by others, becomes a document.            *)
Index(n) ==
  /\ n \in objects \ documents
  /\ documents' = documents \cup {n}
  /\ UNCHANGED <<objects, files, annotated, activity, largest, marker, badCount,
                 agenda, total, capped, added, rounds>>

(* S3Cache._top_up: the listing is asked from the largest number, in the   *)
(* order of names; so "10" is never seen once "9" is in the table.  The    *)
(* key of an object begins with its number and is longer, so that of the   *)
(* largest comes again.                                                    *)
StartRun ==
  /\ activity = "off" /\ rounds < MaxRuns
  /\ activity' = "topup" /\ rounds' = rounds + 1
  /\ largest' = Max(files \cup {0})
  /\ marker' = [number |-> largest', listed |-> FALSE] /\ badCount' = 0
  /\ total' = 0 /\ capped' = FALSE
  /\ added' = [n \in ObjectIds |-> 0]
  /\ UNCHANGED <<objects, files, annotated, documents, agenda>>

Follows(n) ==
  \/ marker.number = 0 \/ Before(marker.number, n)
  \/ n = marker.number /\ ~marker.listed
Listed == {n \in objects : Follows(n)}
Page == {n \in Listed : Cardinality({m \in Listed : Before(m, n)}) < PageSize}

(* A page of the listing: what is retired is deleted from the bucket, what *)
(* is below the largest is skipped, what the table has already is ignored  *)
(* (upsert_to_db).                                                         *)
TakePage ==
  /\ activity = "topup" /\ Listed # {} /\ badCount <= MaxBad
  /\ LET gone == Page \cap Retired
         new  == {n \in Page \ gone : n >= largest}
     IN  /\ objects' = objects \ gone
         /\ files' = files \cup new
         /\ badCount' = IF new # {} THEN 0 ELSE IF gone # {} THEN 1 ELSE badCount + 1
  /\ marker' = [number |-> CHOOSE n \in Page : \A m \in Page : m = n \/ Before(m, n),
                listed |-> TRUE]
  /\ UNCHANGED <<annotated, documents, activity, largest, agenda, total, capped,
                 added, rounds>>

(* up_to_date, and decimate("").                                           *)
UpToDate ==
  /\ activity = "topup" /\ (Listed = {} \/ badCount > MaxBad)
  /\ activity' = "fill" /\ agenda' = <<Groups(Root)>>
  /\ UNCHANGED <<objects, files, annotated, documents, largest, marker, badCount,
                 total, capped, added, rounds>>

(* fill_holes: what Elasticsearch does not have is queued, a key that has  *)
(* not the format is annotated, and only the others are counted.           *)
FillHoles(g) ==
  LET holes == {n \in Valid : InGroup(n, g)} \ documents
      sent  == holes \ BadKeys
  IN  /\ added' = [n \in ObjectIds |-> IF n \in sent THEN added[n] + 1 ELSE added[n]]
      /\ annotated' = annotated \cup (holes \cap BadKeys)
      /\ total' = total + Cardinality(sent)

Small(size) == size < MaxSize

(* decimate: the groups of one level, in the order of their age.           *)
Fill(s) ==
  /\ activity = "fill" /\ agenda # <<>> /\ s \in Head(agenda) /\ Small(s.size)
  /\ FillHoles(s.group)
  /\ agenda' = <<Head(agenda) \ {s}>> \o Tail(agenda)
  /\ UNCHANGED <<objects, files, documents, activity, largest, marker, badCount,
                 capped, rounds>>

(* Mutant: a large group is compared, and then divided all the same.       *)
DecimateFilled(s) ==
  /\ activity = "fill" /\ agenda # <<>> /\ s \in Head(agenda) /\ ~Small(s.size)
  /\ FillHoles(s.group)
  /\ agenda' = <<Groups(s.group), Head(agenda) \ {s}>> \o Tail(agenda)
  /\ UNCHANGED <<objects, files, documents, activity, largest, marker, badCount,
                 capped, rounds>>

Decimate(s) ==
  /\ activity = "fill" /\ agenda # <<>> /\ s \in Head(agenda) /\ ~Small(s.size)
  /\ IF total > MaxSize
     THEN agenda' = <<Head(agenda) \ {s}>> \o Tail(agenda) /\ capped' = TRUE
     ELSE /\ agenda' = <<Groups(s.group), Head(agenda) \ {s}>> \o Tail(agenda)
          /\ UNCHANGED capped
  /\ UNCHANGED <<objects, files, annotated, documents, activity, largest, marker,
                 badCount, total, added, rounds>>

LevelDone ==
  /\ activity = "fill" /\ agenda # <<>> /\ Head(agenda) = {}
  /\ agenda' = Tail(agenda)
  /\ UNCHANGED <<objects, files, annotated, documents, activity, largest, marker,
                 badCount, total, capped, added, rounds>>

EndRun ==
  /\ activity = "fill" /\ agenda = <<>>
  /\ activity' = "off"
  /\ UNCHANGED <<objects, files, annotated, documents, largest, marker, badCount, agenda,
                 total, capped, added, rounds>>

(* Asked to stop, or a query that fails: the thread of this bucket ends.   *)
RunFails ==
  /\ activity # "off"
  /\ activity' = "off" /\ agenda' = <<>>
  /\ UNCHANGED <<objects, files, annotated, documents, largest, marker, badCount,
                 total, capped, added, rounds>>

Next ==
  \/ \E n \in ObjectIds : NewObject(n) \/ Index(n)
  \/ StartRun \/ TakePage \/ UpToDate
  \/ agenda # <<>> /\ \E s \in Head(agenda) : Fill(s) \/ Decimate(s)
  \/ LevelDone \/ EndRun \/ RunFails

Spec == AutoInit /\ [][Next]_autoVars

------------------------------------------------------------------------------
(* However the keys are divided, a run queues every hole of the table once *)
(* (auto_backfill.py 75-104), unless it was cut off by MAX_SIZE.           *)
HolesAreFilledOnce ==
  activity = "fill" =>
    /\ \A n \in ObjectIds : added[n] <= 1
    /\ agenda = <<>> /\ ~capped =>
         \A n \in files \ documents : n \in BadKeys \/ added[n] = 1
==============================================================================
