----------------------------- MODULE TuidClient -----------------------------
(***************************************************************************)
(* The client of the TUID service (vendor/tuid/client.py), which all ETL   *)
(* threads of a process share.  It gives the lists of TUIDs that files of  *)
(* one revision have: those of its database, and for the rest it asks the  *)
(* service; it gives up when the service fails too often.  Nothing is      *)
(* locked: the count of failures and the switch are used by all threads.   *)
(***************************************************************************)
EXTENDS Naturals, FiniteSets

CONSTANTS
  Callers,        (* the threads                                           *)
  TuidFiles,      (* the files of a revision                               *)
  MaxBadRequests, (* MAX_BAD_REQUESTS                                      *)
  Recorded,       (* whether there is a push_queue                         *)
  MaxLookups      (* bound on the calls                                    *)

TuidAssumption == MaxBadRequests \in Nat \ {0}

VARIABLES
  enabled, bad_requests,
  tuid_db,        (* the files that have a row                             *)
  lookup,         (* of each caller: see Resting                           *)
  faults,         (* history: failures that were counted                   *)
  broken,         (* history: the database, gateway or markup has failed   *)
  lookups,        (* history: calls that were begun                        *)
  answers         (* history: what was returned: [asked, had, got]         *)

tuidVars == <<enabled, bad_requests, tuid_db, lookup, faults, broken, lookups, answers>>

Resting == [at |-> "rest", asked |-> {}, had |-> {}, got |-> {}, count |-> 0, gateway |-> FALSE]

Init ==
  /\ enabled = TRUE /\ bad_requests = 0 /\ tuid_db = {}
  /\ lookup = [c \in Callers |-> Resting]
  /\ faults = 0 /\ broken = FALSE /\ lookups = 0 /\ answers = {}

Goto(c, at, l) == lookup' = [lookup EXCEPT ![c] = [l EXCEPT !.at = at]]

Return(c) ==
  LET l == lookup[c]
  IN  /\ lookup' = [lookup EXCEPT ![c] = Resting]
      /\ answers' = answers \cup {[asked |-> l.asked, had |-> l.had, got |-> l.got]}

GetTuids(c, files) ==
  /\ lookup[c].at = "rest" /\ lookups < MaxLookups
  /\ lookups' = lookups + 1
  /\ Goto(c, "query", [Resting EXCEPT !.asked = files])
  /\ UNCHANGED <<enabled, bad_requests, tuid_db, faults, broken, answers>>

Remaining(l) == l.asked \ l.had

Query(c) ==
  LET l == lookup[c]  rows == l.asked \cap tuid_db
  IN  /\ l.at = "query"
      /\ Goto(c, IF l.asked \subseteq rows THEN "found" ELSE IF Recorded THEN "push" ELSE "check",
              [l EXCEPT !.had = rows, !.got = rows])
      /\ UNCHANGED <<enabled, bad_requests, tuid_db, faults, broken, lookups, answers>>

(* The caller gets the error, and switches the client off:                 *)
(* _annotate_sources.                                                      *)
QueryFails(c) ==
  /\ lookup[c].at = "query"
  /\ enabled' = FALSE /\ broken' = TRUE
  /\ Goto(c, "rest", Resting)
  /\ UNCHANGED <<bad_requests, tuid_db, faults, lookups, answers>>

(* The caller fails while it gives the records what it got, which switches *)
(* the client off as well.                                                 *)
MarkupFails(c) ==
  /\ lookup[c].at = "rest" /\ answers # {}
  /\ enabled' = FALSE /\ broken' = TRUE
  /\ UNCHANGED <<bad_requests, tuid_db, lookup, faults, lookups, answers>>

Push(c) ==
  /\ lookup[c].at = "push"
  /\ Goto(c, "check", lookup[c])
  /\ UNCHANGED <<enabled, bad_requests, tuid_db, faults, broken, lookups, answers>>

(* A client that is switched off has recorded the request, and no more.    *)
Disabled(c) ==
  /\ lookup[c].at = "check" /\ ~enabled
  /\ Return(c)
  /\ UNCHANGED <<enabled, bad_requests, tuid_db, faults, broken, lookups>>

Enabled(c) ==
  /\ lookup[c].at = "check" /\ enabled
  /\ Goto(c, "ask", lookup[c])
  /\ UNCHANGED <<enabled, bad_requests, tuid_db, faults, broken, lookups, answers>>

(* The service may know the TUIDs of some of the files, or of none.        *)
Ask(c, known) ==
  LET l == lookup[c]
  IN  /\ l.at = "ask" /\ known \subseteq Remaining(l)
      /\ Goto(c, IF known = {} THEN "found" ELSE "insert", [l EXCEPT !.got = l.had \cup known])
      /\ UNCHANGED <<enabled, bad_requests, tuid_db, faults, broken, lookups, answers>>

(* One command inserts all rows: none of them may be there.                *)
Insert(c) ==
  LET l == lookup[c]  rows == l.got \ l.had
  IN  /\ l.at = "insert" /\ rows \cap tuid_db = {}
      /\ tuid_db' = tuid_db \cup rows
      /\ Goto(c, "found", l)
      /\ UNCHANGED <<enabled, bad_requests, faults, broken, lookups, answers>>

Found(c) ==
  /\ lookup[c].at = "found"
  /\ bad_requests' = 0
  /\ Return(c)
  /\ UNCHANGED <<enabled, tuid_db, faults, broken, lookups>>

-----------------------------------------------------------------------------
(* The queue, the service or the insertion fails: the caller gets what the *)
(* database had.  The failure is counted, then the count is looked at.     *)

Fails(c, gateway) ==
  LET l == lookup[c]
  IN  /\ l.at \in {"push", "ask", "insert"} /\ (gateway => l.at # "insert")
      /\ Goto(c, "count", [l EXCEPT !.got = l.had, !.gateway = gateway])
      /\ UNCHANGED <<enabled, bad_requests, tuid_db, faults, broken, lookups, answers>>

(* num_bad_requests += 1: read, and written.                               *)
Count(c) ==
  /\ lookup[c].at = "count"
  /\ faults' = faults + 1
  /\ Goto(c, "store", [lookup[c] EXCEPT !.count = bad_requests])
  /\ UNCHANGED <<enabled, bad_requests, tuid_db, broken, lookups, answers>>

Store(c) ==
  /\ lookup[c].at = "store"
  /\ bad_requests' = lookup[c].count + 1
  /\ Goto(c, "decide", lookup[c])
  /\ UNCHANGED <<enabled, tuid_db, faults, broken, lookups, answers>>

(* Otherwise the caller sleeps before it returns.                          *)
Decide(c) ==
  LET l == lookup[c]
  IN  /\ l.at = "decide"
      /\ enabled' = (enabled /\ ~l.gateway /\ bad_requests < MaxBadRequests)
      /\ broken' = (broken \/ (enabled /\ l.gateway))
      /\ Return(c)
      /\ UNCHANGED <<bad_requests, tuid_db, faults, lookups>>

Next ==
  \E c \in Callers :
    \/ \E files \in SUBSET TuidFiles : GetTuids(c, files) \/ Ask(c, files)
    \/ Query(c) \/ QueryFails(c) \/ MarkupFails(c) \/ Push(c) \/ Disabled(c) \/ Enabled(c)
    \/ Insert(c) \/ Found(c)
    \/ \E gateway \in BOOLEAN : Fails(c, gateway)
    \/ Count(c) \/ Store(c) \/ Decide(c)

Spec == Init /\ [][Next]_tuidVars

-----------------------------------------------------------------------------
(* Properties.                                                             *)

(* A caller is given the TUIDs of files it asked for: all that the         *)
(* database had of them, and nothing that is not stored for the others.    *)
GivenIsStored ==
  \A a \in answers : a.had \subseteq a.got /\ a.got \subseteq a.asked \cap tuid_db

(* The client is switched off for a reason: the database, the gateway or a *)
(* markup has failed, or that many failures were counted, whether or not   *)
(* others have succeeded in between.  And it is switched off in time: the  *)
(* count is at its limit only while a thread is about to do it.  It may go *)
(* over the limit, once the client is off.                                 *)
SwitchedOffRightly ==
  /\ ~enabled => broken \/ faults >= MaxBadRequests
  /\ enabled /\ bad_requests >= MaxBadRequests => \E c \in Callers : lookup[c].at = "decide"
==============================================================================
