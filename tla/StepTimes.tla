------------------------------ MODULE StepTimes ------------------------------
(***************************************************************************)
(* The times of the steps of a log (activedata_etl/imports/text_log.py,    *)
(* fix_overlap and fix_times).  A step is [step, start, end, children], and *)
(* a log has them in the order of their first lines.                       *)
(***************************************************************************)
EXTENDS Integers, Sequences, SequencesExt

None == -1

(* mo_math: missing values do not count.                                   *)
MIN(S) == IF S \subseteq {None} THEN None ELSE Min(S \ {None})
MAX(S) == IF S \subseteq {None} THEN None ELSE Max(S \ {None})

Starts(ts) == {ts[i].start : i \in DOMAIN ts}
Ends(ts) == {ts[i].end : i \in DOMAIN ts}

-----------------------------------------------------------------------------
(* fix_overlap: a step that holds the whole of the next one is cut in two. *)

Holds(a, b) == a.start < b.start /\ b.end < a.end

Holders(ts) == {i \in 1 .. Len(ts) - 1 : Holds(ts[i], ts[i + 1])}

Cut(ts) ==
  LET i == Min(Holders(ts))
      post == [ts[i] EXCEPT !.start = ts[i + 1].end]
      later == {j \in i + 2 .. Len(ts) : post.start <= ts[j].start}
      place == IF later = {} THEN Len(ts) + 1 ELSE Min(later)
  IN InsertAt([ts EXCEPT ![i].end = ts[i + 1].start], place, post)

-----------------------------------------------------------------------------
(* fix_times.                                                              *)

(* The time the steps before have come to.                                 *)
Reached(ts, i, from) ==
  MAX({from} \cup Starts(SubSeq(ts, 1, i - 1)) \cup Ends(SubSeq(ts, 1, i - 1)))

(* A missing start is the earliest evidence.  It is not later than what    *)
(* the steps before have come to, and adds nothing to that.                *)
Started(ts, from) ==
  [i \in DOMAIN ts |->
     IF ts[i].start # None THEN ts[i]
     ELSE [ts[i] EXCEPT !.start = MIN(Starts(ts[i].children) \cup Ends(ts[i].children)
                                      \cup {Reached(ts, i, from)})]]

(* When the step after i starts; the last one has until `to`.              *)
Due(ts, i, to) == IF i = Len(ts) THEN to ELSE ts[i + 1].start

(* A missing end is the latest evidence.                                   *)
Ended(ts, to) ==
  [i \in DOMAIN ts |->
     IF ts[i].end # None THEN ts[i]
     ELSE [ts[i] EXCEPT !.end = MAX(Starts(ts[i].children) \cup Ends(ts[i].children)
                                    \cup {Due(ts, i, to), ts[i].start})]]

FixTimes(ts, from, to) == Ended(Started(ts, from), to)

Duration(ts, i, to) == MAX({Due(ts, i, to), ts[i].end}) - ts[i].start

(* fix_times raises.                                                       *)
NoTimes(ts, from, to) ==
  \/ from = None \/ to = None
  \/ LET fixed == FixTimes(ts, from, to)
     IN \E i \in DOMAIN fixed : Duration(fixed, i, to) < 0
=============================================================================
