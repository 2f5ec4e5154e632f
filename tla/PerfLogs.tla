------------------------------ MODULE PerfLogs ------------------------------
(***************************************************************************)
(* From the perfherder records of a block to one row for each test         *)
(* (activedata_etl/transforms/perfherder_logs_to_perf_logs.py).  The list  *)
(* of suites belongs to the process: a suite nobody knows is put at its    *)
(* end, and a name that begins with one of the list is cut down to it.     *)
(* A name is the sequence of its parts, without the options in it.         *)
(*                                                                         *)
(* The threads of an ETL machine (etl.py 438-447) share the list and take  *)
(* no lock: a thread that has found no name for a suite adds it some time  *)
(* later.  As names are only added at the end, a search finds what it      *)
(* would find if it were done at once when it ends.  The block of one      *)
(* thread is followed, Reader; of the others only what they do to the      *)
(* list.                                                                   *)
(***************************************************************************)
EXTENDS Naturals, Sequences, SequencesExt, FiniteSetsExt

CONSTANTS
  Threads,        (* of the process                                        *)
  Reader,         (* the thread whose block is followed                    *)
  NoName,         (* of no thread's list                                   *)
  SuiteNames,     (* the names that records come with                      *)
  FirstSuites,    (* KNOWN_PERFHERDER_TESTS of a new process               *)
  Remote,         (* "remote-", as a sequence of parts                     *)
  Raptor,         (* names that are accepted because of their browser      *)
  Chunked,        (* dromaeo_css, dromaeo_dom                              *)
  ChunkSize,      (* replicates of these are in sets of that size          *)
  Replicates,     (* bound: how many replicates the tests of a record have *)
  MaxPerfLines,   (* bound on the lines that all threads read              *)
  MaxBlocks       (* bound on the blocks, and on the times one is read     *)

PerfAssumption ==
  /\ ChunkSize \in Nat \ {0} /\ Reader \in Threads /\ NoName \notin SuiteNames

VARIABLES
  suites,       (* KNOWN_PERFHERDER_TESTS                                  *)
  learning,     (* the name that a thread found none for, and is to add    *)
  perf_read,    (* lines that all threads have read                        *)
  perf,         (* "rest", "lines", or "suite" with the suite recognized   *)
  perf_suite,   (* suite_name                                              *)
  perf_line,    (* lines read                                              *)
  records,      (* rows of the lines so far: [line, test, group, samples], *)
                (* samples being which replicates of the test it has       *)
  perf_rows,    (* what the destination has for the block                  *)
  perf_blocks,  (* history: blocks begun                                   *)
  named,        (* history: [name, resource, suite], in this process       *)
  overtaken,    (* history: names for which another thread added one that  *)
                (* begins them, between their search and their addition    *)
  given,        (* history: by line and test the replicates with moments   *)
  perf_given    (* history: those of the rows in the destination           *)

listVars == <<suites, learning, named, overtaken>>
rowVars == <<perf_line, records, given>>
doneVars == <<perf_rows, perf_blocks, perf_given>>
perfVars == <<listVars, perf_read, perf, perf_suite, rowVars, doneVars>>

Init ==
  /\ suites = FirstSuites /\ learning = [t \in Threads |-> NoName] /\ perf_read = 0
  /\ perf = "rest" /\ perf_suite = NoName /\ perf_line = 0
  /\ records = {} /\ perf_rows = {} /\ perf_blocks = 0
  /\ named = {} /\ overtaken = {} /\ given = {} /\ perf_given = {}

-----------------------------------------------------------------------------
(* RECOGNIZE SUITE.  Records of the framework job_resource_usage are not   *)
(* cut, and are not learned from.                                          *)

Begins(s, name, resource) == ~resource /\ IsPrefix(s, name)

Hits(list, name, resource) ==
  {i \in DOMAIN list :
     \/ list[i] = name
     \/ Begins(list[i], name, resource)
     \/ IsPrefix(Remote \o list[i], name)}

Suite(list, name, resource) ==
  LET hits == Hits(list, name, resource)
      s == list[Min(hits)]
  IN  IF hits = {} THEN name
      ELSE IF s = name \/ Begins(s, name, resource) THEN s ELSE Remote \o s

Unknown(name, resource) ==
  Hits(suites, name, resource) = {} /\ name \notin Raptor /\ ~resource

ReadLine == perf_read < MaxPerfLines /\ perf_read' = perf_read + 1

(* A thread goes through the list.                                         *)
Recognize(t, name, resource) ==
  /\ learning[t] = NoName
  /\ learning' = [learning EXCEPT ![t] = IF Unknown(name, resource) THEN name ELSE NoName]
  /\ named' = named \cup {[name |-> name, resource |-> resource,
                            suite |-> Suite(suites, name, resource)]}
  /\ UNCHANGED <<suites, overtaken>>

(* Mutant: the newest suite comes first.                                   *)
LearnedInFront(name) == <<name>> \o suites

(* What the list becomes.                                                  *)
Learned(name) == Append(suites, name)

(* And adds the name, whatever others have added since.                    *)
Learn(t) ==
  /\ learning[t] # NoName
  /\ suites' = Learned(learning[t])
  /\ learning' = [learning EXCEPT ![t] = NoName]
  /\ overtaken' = overtaken \cup
       {m \in {learning[u] : u \in Threads} \ {NoName} : Suite(suites', m, FALSE) # m}
  /\ UNCHANGED <<perf_read, perf, perf_suite, named, rowVars, doneVars>>

(* A thread with a block of its own.                                       *)
OtherRecord(t, name, resource) ==
  /\ t # Reader /\ ReadLine
  /\ Recognize(t, name, resource)
  /\ UNCHANGED <<perf, perf_suite, rowVars, doneVars>>

-----------------------------------------------------------------------------
(* The rows of a record.                                                   *)

Row(test, group, samples) ==
  [line |-> perf_line, test |-> test, group |-> group, samples |-> samples]

(* Sets of ChunkSize, the last one with the rest.                          *)
Chunks(test, n) ==
  {Row(test, g, {i \in 1 .. n : g * ChunkSize < i /\ i <= (g + 1) * ChunkSize}) :
     g \in {h \in 0 .. n : h * ChunkSize < n}}

(* subtests or results: replicates[k] are the replicates of the k-th.      *)
TestRows(suite, replicates) ==
  UNION {IF suite \in Chunked THEN Chunks(k, replicates[k]) ELSE {Row(k, 0, 1 .. replicates[k])} :
           k \in DOMAIN replicates}

(* stats(): a series without moments is warned of, and its row has none.   *)
Stats(rows, hopeless) ==
  {IF r \in hopeless THEN [r EXCEPT !.samples = {}] ELSE r : r \in rows}

WithMoments(k, n, hopeless) == {i \in 1 .. n : \A r \in hopeless : r.test = k => i \notin r.samples}

-----------------------------------------------------------------------------
(* process().                                                              *)

Begin ==
  /\ perf = "rest" /\ perf_blocks < MaxBlocks
  /\ perf' = "lines" /\ perf_blocks' = perf_blocks + 1
  /\ perf_line' = 0 /\ records' = {} /\ given' = {}
  /\ UNCHANGED <<listVars, perf_read, perf_suite, perf_rows, perf_given>>

Line ==
  /\ perf_line' = perf_line + 1
  /\ perf' = "lines" /\ perf_suite' = NoName
  /\ UNCHANGED <<listVars, doneVars>>

(* A line without a suite.                                                 *)
Unnamed == perf = "lines" /\ ReadLine /\ Line

(* An empty line, or a record of no task and no job.                       *)
SkipLine == Unnamed /\ UNCHANGED <<records, given>>

(* is_empty, known before the suite is.                                    *)
EmptyRecord == Unnamed /\ records' = records \cup {Row(0, 0, {})} /\ UNCHANGED given

(* A record, as far as its suite.                                          *)
NamedRecord(name, resource) ==
  /\ perf = "lines" /\ ReadLine
  /\ perf' = "suite" /\ perf_suite' = Suite(suites, name, resource)
  /\ Recognize(Reader, name, resource)
  /\ UNCHANGED <<rowVars, doneVars>>

(* The suite is added, if it is to be.                                     *)
Recognized == perf = "suite" /\ learning[Reader] = NoName

NamedLine == Recognized /\ UNCHANGED perf_read /\ Line

(* Tests with their replicates.                                            *)
TestsRecord(replicates) ==
  LET rows == TestRows(perf_suite, replicates)
  IN  /\ NamedLine
      /\ \E hopeless \in SUBSET rows :
           /\ records' = records \cup Stats(rows, hopeless)
           /\ given' = given \cup {Row(k, 0, WithMoments(k, replicates[k], hopeless)) :
                                    k \in DOMAIN replicates}

(* A suite with a single value has one row.                                *)
PlainRecord ==
  /\ NamedLine
  /\ records' = records \cup {Row(0, 0, {1})}
  /\ given' = given \cup {Row(0, 0, {1})}

(* A suite with nothing in it, or with a value that has no moments.        *)
BareRecord ==
  /\ NamedLine
  /\ records' = records \cup {Row(0, 0, {})}
  /\ UNCHANGED given

(* Whatever is raised ends the block: the condition of the handler is a    *)
(* string, which is always true.  A record with suites, one that does not  *)
(* decode, a write that fails; or, when the suite was recognized, a        *)
(* subtest with a property nobody knows.                                   *)
Abandon ==
  /\ perf = "lines" \/ Recognized
  /\ perf' = "rest" /\ perf_suite' = NoName
  /\ records' = {} /\ given' = {} /\ perf_line' = 0
  /\ UNCHANGED <<listVars, perf_read, doneVars>>

(* extend() with overwrite: without records nothing is written, but the    *)
(* key is returned all the same.                                           *)
Finish ==
  /\ perf = "lines" /\ perf' = "rest"
  /\ IF records = {} THEN UNCHANGED <<perf_rows, perf_given>>
     ELSE perf_rows' = records /\ perf_given' = given
  /\ records' = {} /\ given' = {} /\ perf_line' = 0
  /\ UNCHANGED <<listVars, perf_read, perf_suite, perf_blocks>>

(* A new process knows the suites of the source.                           *)
Restart ==
  /\ perf_blocks < MaxBlocks
  /\ suites' = FirstSuites /\ learning' = [t \in Threads |-> NoName]
  /\ named' = {} /\ overtaken' = {}
  /\ perf' = "rest" /\ perf_suite' = NoName
  /\ perf_line' = 0 /\ records' = {} /\ given' = {}
  /\ UNCHANGED <<perf_read, doneVars>>

Next ==
  \/ Begin \/ SkipLine \/ EmptyRecord \/ PlainRecord \/ BareRecord
  \/ Abandon \/ Finish \/ Restart
  \/ \E replicates \in Replicates : TestsRecord(replicates)
  \/ \E name \in SuiteNames, resource \in BOOLEAN :
       \/ NamedRecord(name, resource)
       \/ \E t \in Threads : OtherRecord(t, name, resource)
  \/ \E t \in Threads : Learn(t)

Spec == Init /\ [][Next]_perfVars

-----------------------------------------------------------------------------
(* Properties.                                                             *)

(* A name that is not learned can be cut when another one is.              *)
Floating(n) == n.name \in Raptor \/ (n.resource /\ IsPrefix(Remote, n.name))

(* In one process a suite keeps the name it was given first, whatever      *)
(* other suites are learned, by whatever thread, before a block is given   *)
(* back and after.  But for the names that are taken over without being    *)
(* learned; and a name that was overtaken while its thread was to add it   *)
(* has been a suite of its own, and is cut down to one other ever after.   *)
SuiteNamesStick ==
  \A n, m \in named :
    n.name = m.name /\ n.resource = m.resource /\ ~Floating(n) =>
      n.suite = m.suite \/ (n.name \in overtaken /\ n.name \in {n.suite, m.suite})

RowsOf(g) == {r \in perf_rows : r.line = g.line /\ r.test = g.test}

(* The destination has in one row each replicate of each test that is in a *)
(* series with moments, of the whole block or not at all.                  *)
EverySampleHasARow ==
  \A g \in perf_given :
    /\ UNION {r.samples : r \in RowsOf(g)} = g.samples
    /\ \A r, s \in RowsOf(g) : r # s => r.samples \cap s.samples = {}
==============================================================================
