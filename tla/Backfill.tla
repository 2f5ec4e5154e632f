------------------------------ MODULE Backfill ------------------------------
(***************************************************************************)
(* Queueing what the bucket has and Elasticsearch has not                  *)
(* (activedata_etl/backfill.py).  Keys are numbers in a range; the bucket  *)
(* can only be listed by the first digits of a key, so the scan goes down  *)
(* from the prefix of the largest missing number, a prefix at a time.      *)
(***************************************************************************)
EXTENDS Integers, Sequences, SequencesExt, FiniteSets, FiniteSetsExt

CONSTANTS
  Base,         (* of the digits of a key: 10 in the code                  *)
  Numbers,      (* the keys the bucket may have                            *)
  MaxDigits,    (* bound on the digits of a key                            *)
  Low,          (* settings.range.min; there is no max (backfill_jobs.json) *)
  Limit,        (* settings.limit                                          *)
  Window,       (* the numbers after Low, when none is indexed: a million  *)
  RoundedDown   (* the powers of Base with a logarithm that comes out too  *)
                (* small: 1000 and 1000000, but neither 10 nor 100         *)

BackfillAssumption ==
  /\ IsFiniteSet(Numbers) /\ Numbers \subseteq Nat /\ Low \in Nat
  /\ {Base, Limit, Window, MaxDigits} \subseteq Nat \ {0}
  /\ \A d \in 0 .. Limit : Base^d \in Nat \ {0}
  /\ Limit < Base^Limit /\ Limit < Base^MaxDigits

VARIABLES
  stored,       (* the numbers with an object in the bucket                *)
  indexed,      (* the numbers with a document of this revision            *)
  scan,         (* what diff() does: "check", "scan", "queue", "done", "error" *)
  prefix,       (* the prefix to list, or NoPrefix                         *)
  in_s3,        (* what the scan has found                                 *)
  requested     (* the numbers whose keys were added to the work queue     *)

fillVars == <<stored, indexed, scan, prefix, in_s3, requested>>

NoPrefix == -1                      (* the empty string, which is not "0"  *)

(* in_range: it ends Limit numbers after the largest that is indexed.      *)
InRange == Low .. (IF indexed = {} THEN Low + Window - 1 ELSE Max(indexed) + Limit)

(* extra_digits: ceiling(log10(min(indexed range, limit))).  The ceiling   *)
(* is the next integer, of an integer too; the logarithm is a float.       *)
Span == Min({Limit} \cup {Max(indexed) - Low : i \in indexed})

Enough(d) == Base^d > Span \/ (Base^d = Span /\ Span \in RoundedDown)

ExtraDigits == CHOOSE d \in 1 .. Limit : Enough(d) /\ \A e \in 1 .. (d - 1) : ~Enough(e)

(* The text of n begins with that of p, whatever the length of n.          *)
BeginsWith(n, p) == p = NoPrefix \/ \E d \in 0 .. MaxDigits : n \div (Base^d) = p

FirstPrefix(n) ==
  LET p == n \div (Base^ExtraDigits) IN IF p = 0 THEN NoPrefix ELSE p

(* The largest number of the prefix and the extra digits.                  *)
PrefixMax(p) == (IF p = NoPrefix THEN 1 ELSE p + 1) * Base^ExtraDigits - 1

BackfillInit ==
  /\ stored \in SUBSET Numbers /\ indexed \in SUBSET {n \in Numbers : n >= Low}
  /\ scan = "check" /\ prefix = NoPrefix
  /\ in_s3 = <<>> /\ requested = <<>>

(* diff() up to the scan: it returns when the queue is long, and raises    *)
(* when the query fails, or when only Low is indexed, as there is no       *)
(* logarithm of zero.                                                      *)
Check ==
  /\ scan = "check"
  /\ UNCHANGED <<stored, indexed, in_s3, requested>>
  /\ \/ scan' = "error" /\ UNCHANGED prefix
     \/ /\ Span > 0
        /\ scan' = "scan"
        /\ prefix' = FirstPrefix(Max(InRange \ indexed))

Missing(p) == {n \in stored : BeginsWith(n, p) /\ n \in InRange /\ n \notin indexed}

(* Mutant: the scan ends by the smallest number of the prefix.             *)
MoreByMinimum ==
  /\ prefix # 0 /\ Len(in_s3) < Limit
  /\ Low <= (IF prefix = NoPrefix THEN 0 ELSE prefix * Base^ExtraDigits)

More == prefix # 0 /\ Len(in_s3) < Limit /\ Low <= PrefixMax(prefix)

(* A shorter prefix lists numbers again that a longer one has listed.      *)
Scan ==
  /\ scan = "scan" /\ More
  /\ in_s3' = in_s3 \o SetToSeq(Missing(prefix))
  /\ IF prefix = NoPrefix
     THEN scan' = "sort" /\ UNCHANGED prefix
     ELSE prefix' = prefix - 1 /\ UNCHANGED scan
  /\ UNCHANGED <<stored, indexed, requested>>

(* The place of the i-th number, where the largest come first.             *)
Place(s, i) == Cardinality({j \in DOMAIN s : s[j] > s[i] \/ (s[j] = s[i] /\ j <= i)})

Downwards(s) == [k \in DOMAIN s |-> s[CHOOSE i \in DOMAIN s : Place(s, i) = k]]

(* The largest numbers are kept, and queued in that order.                 *)
Select ==
  /\ scan = "sort" \/ (scan = "scan" /\ ~More)
  /\ in_s3' = SubSeq(Downwards(in_s3), 1, Min({Len(in_s3), Limit}))
  /\ scan' = "queue"
  /\ UNCHANGED <<stored, indexed, prefix, requested>>

QueueKeys ==
  /\ scan = "queue" /\ Len(requested) < Len(in_s3)
  /\ requested' = Append(requested, in_s3[Len(requested) + 1])
  /\ UNCHANGED <<stored, indexed, scan, prefix, in_s3>>

QueueFails ==
  /\ scan = "queue" /\ Len(requested) < Len(in_s3)
  /\ scan' = "error"
  /\ UNCHANGED <<stored, indexed, prefix, in_s3, requested>>

Done ==
  /\ scan = "queue" /\ Len(requested) = Len(in_s3)
  /\ scan' = "done"
  /\ UNCHANGED <<stored, indexed, prefix, in_s3, requested>>

Next == Check \/ Scan \/ Select \/ QueueKeys \/ QueueFails \/ Done

Spec == BackfillInit /\ [][Next]_fillVars

------------------------------------------------------------------------------
(* A backfill that ends below its limit has queued every missing number of *)
(* the range that has more than the extra digits (backfill.py 130-166):    *)
(* the numbers below are under the prefix "0", which is never listed.      *)
BackfillIsComplete ==
  scan = "done" /\ Len(in_s3) < Limit =>
    \A n \in stored \cap InRange :
      n \in indexed \/ n < Base^ExtraDigits \/ Contains(requested, n)
==============================================================================
