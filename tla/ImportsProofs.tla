---------------------------- MODULE ImportsProofs ----------------------------
(***************************************************************************)
(* Theorems of what reads what others have stored: the names of source     *)
(* files, the records of a coverage artifact, and what the two backfills   *)
(* queue.                                                                  *)
(***************************************************************************)
EXTENDS MCImports, FiniteSetTheorems, SequenceTheorems, WellFoundedInduction, TLAPS

(* Quotient and rest.                                                      *)
LEMMA QuotientIs ==
  ASSUME NEW a \in Int, NEW b \in Nat \ {0}
  PROVE  /\ a \div b \in Int /\ a % b \in Int
         /\ a = b * (a \div b) + (a % b)
         /\ 0 <= a % b /\ a % b < b
  OBVIOUS

(* Multiples of b that are less than b apart are one.                      *)
LEMMA MultiplesApart ==
  ASSUME NEW b \in Nat \ {0}, NEW i \in Int, NEW j \in Int, b * i < b * j + b
  PROVE  i <= j
<1> SUFFICES ASSUME j + 1 <= i PROVE FALSE
  OBVIOUS
<1>1. \A d \in Nat : b * d >= 0
  OBVIOUS
<1>2. b * (i - (j + 1)) >= 0
  BY <1>1
<1>3. b * (i - (j + 1)) = b * i - (b * j + b)
  OBVIOUS
<1> QED BY <1>2, <1>3

(* The least of a set of numbers.                                          *)
LEMMA Least ==
  ASSUME NEW F, F \subseteq Nat, F # {}
  PROVE  \E i \in F : \A j \in F : i <= j
<1>1. PICK i \in F : \A j \in F : <<j, i>> \notin OpToRel(<, Nat)
  BY NatLessThanWellFounded, WFMin
<1>2. \A j \in F : ~(j < i)
  BY <1>1, Zenon DEF OpToRel
<1> QED
  BY <1>2

(* Prefixes.                                                               *)

(* The components of files, and "." of the places below them.              *)
Parts == {"."} \cup UNION {Mapper!ToSet(f) : f \in Files}
Paths == {p \in Seq(Parts) : p # << >>}

LEMMA FileFacts ==
  ASSUME NEW f \in Files
  PROVE  /\ f \in Paths /\ Len(f) \in Nat \ {0}
         /\ \A i \in 1 .. Len(f) : f[i] # "."
<1>1. f # << >> /\ f \in Seq(Mapper!ToSet(f) \ {"."})
  BY ImportsAssumption DEF Mapper!FileMapperAssumption
<1>2. Mapper!ToSet(f) \ {"."} \subseteq Parts
  BY DEF Parts
<1>3. f \in Seq(Parts)
  BY <1>1, <1>2, SeqMonotonic
<1>4. Len(f) \in Nat /\ Len(f) # 0
  BY <1>1, <1>3, EmptySeq
<1>5. \A i \in 1 .. Len(f) : f[i] \in Mapper!ToSet(f) \ {"."}
  BY <1>1, ElementOfSeq
<1> QED BY <1>1, <1>3, <1>4, <1>5 DEF Paths

LEMMA PrefixIs ==
  ASSUME NEW s \in Seq(Parts), NEW t \in Seq(Parts)
  PROVE  Mapper!IsPrefix(s, t) <=> Len(s) <= Len(t) /\ \A i \in 1 .. Len(s) : s[i] = t[i]
<1>1. Len(s) \in Nat /\ Len(t) \in Nat
  OBVIOUS
<1>2. SubSeq(s, 1, Len(s)) = s
  BY SubSeqFull
<1>3. ASSUME Len(s) <= Len(t)
      PROVE  SubSeq(t, 1, Len(s)) = s <=> \A i \in 1 .. Len(s) : s[i] = t[i]
  <2> DEFINE u == SubSeq(t, 1, Len(s))
  <2>1. \A i \in 1 .. Len(s) : t[i] \in Parts
    BY <1>1, <1>3, ElementOfSeq
  <2>2. u \in Seq(Parts) /\ Len(u) = Len(s) /\ \A i \in 1 .. Len(s) : u[i] = t[i]
    BY <1>1, <2>1, SubSeqProperties
  <2> HIDE DEF u
  <2>3. u = s <=> \A i \in 1 .. Len(s) : s[i] = t[i]
    BY <2>2, SeqEqual
  <2> QED BY <2>3 DEF u
<1> QED BY <1>2, <1>3 DEF Mapper!IsPrefix

LEMMA PrefixOrder ==
  ASSUME NEW r \in Seq(Parts), NEW s \in Seq(Parts), NEW t \in Seq(Parts)
  PROVE  /\ Mapper!IsPrefix(r, r)
         /\ Mapper!IsPrefix(r, s) /\ Mapper!IsPrefix(s, t) => Mapper!IsPrefix(r, t)
         /\ Mapper!IsPrefix(r, s) /\ Mapper!IsPrefix(s, r) => r = s
         /\ Mapper!IsPrefix(r, t) /\ Mapper!IsPrefix(s, t) => Mapper!IsPrefix(r, s) \/ Mapper!IsPrefix(s, r)
<1>1. Len(r) \in Nat /\ Len(s) \in Nat /\ Len(t) \in Nat
  OBVIOUS
<1>2. Mapper!IsPrefix(r, r)
  BY <1>1, PrefixIs
<1>3. ASSUME Mapper!IsPrefix(r, s), Mapper!IsPrefix(s, t) PROVE Mapper!IsPrefix(r, t)
  BY <1>1, <1>3, PrefixIs
<1>4. ASSUME Mapper!IsPrefix(r, s), Mapper!IsPrefix(s, r) PROVE r = s
  <2>1. Len(r) = Len(s) /\ \A i \in 1 .. Len(r) : r[i] = s[i]
    BY <1>1, <1>4, PrefixIs
  <2> QED BY <2>1, SeqEqual
<1>5. ASSUME Mapper!IsPrefix(r, t), Mapper!IsPrefix(s, t) PROVE Mapper!IsPrefix(r, s) \/ Mapper!IsPrefix(s, r)
  <2>1. CASE Len(r) <= Len(s)
    BY <1>1, <1>5, <2>1, PrefixIs
  <2>2. CASE Len(s) <= Len(r)
    BY <1>1, <1>5, <2>2, PrefixIs
  <2> QED BY <1>1, <2>1, <2>2
<1> QED BY <1>2, <1>3, <1>4, <1>5

(* The places on the way of a file.                                        *)
LEMMA UpIs ==
  ASSUME NEW f \in Seq(Parts), NEW i \in 1 .. Len(f)
  PROVE  /\ Mapper!Up(f, i) \in Paths /\ Len(Mapper!Up(f, i)) = i
         /\ \A k \in 1 .. i : Mapper!Up(f, i)[k] = f[k]
         /\ Mapper!IsPrefix(Mapper!Up(f, i), f)
<1>1. Len(f) \in Nat /\ i \in Nat /\ 1 <= i /\ i <= Len(f)
  OBVIOUS
<1>2. \A k \in 1 .. i : f[k] \in Parts
  BY <1>1, ElementOfSeq
<1>3. Mapper!Up(f, i) \in Seq(Parts) /\ Len(Mapper!Up(f, i)) = i /\ \A k \in 1 .. i : Mapper!Up(f, i)[k] = f[k]
  BY <1>1, <1>2, SubSeqProperties DEF Mapper!Up
<1>4. Mapper!Up(f, i) # << >>
  BY <1>1, <1>3, EmptySeq
<1> QED BY <1>1, <1>3, <1>4, PrefixIs DEF Paths

LEMMA UpFull ==
  ASSUME NEW f \in Paths PROVE Mapper!Up(f, Len(f)) = f
  BY SubSeqFull DEF Mapper!Up, Paths

(* A path on the way of a file is a place on it.                           *)
LEMMA PrefixIsUp ==
  ASSUME NEW f \in Seq(Parts), NEW p \in Paths, Mapper!IsPrefix(p, f)
  PROVE  Len(p) \in 1 .. Len(f) /\ p = Mapper!Up(f, Len(p))
<1>1. Len(f) \in Nat /\ Len(p) \in Nat /\ Len(p) # 0
  BY EmptySeq DEF Paths
<1>2. Len(p) <= Len(f) /\ \A k \in 1 .. Len(p) : p[k] = f[k]
  BY PrefixIs DEF Paths
<1>3. Len(p) \in 1 .. Len(f)
  BY <1>1, <1>2
<1>4. Mapper!Up(f, Len(p)) \in Seq(Parts) /\ Len(Mapper!Up(f, Len(p))) = Len(p)
      /\ \A k \in 1 .. Len(p) : Mapper!Up(f, Len(p))[k] = f[k]
  BY <1>3, UpIs DEF Paths
<1>5. p \in Seq(Parts)
  BY DEF Paths
<1> QED BY <1>2, <1>3, <1>4, <1>5, SeqEqual

(* Behind the end of a file there is only ".".                             *)
LEMMA BelowIs ==
  ASSUME NEW f \in Seq(Parts)
  PROVE  /\ Append(f, ".") \in Paths /\ Len(Append(f, ".")) = Len(f) + 1
         /\ Append(f, ".")[Len(f) + 1] = "."
         /\ Mapper!IsPrefix(f, Append(f, "."))
         /\ \A p \in Paths : Mapper!IsPrefix(p, Append(f, ".")) => Mapper!IsPrefix(p, f) \/ p = Append(f, ".")
<1> DEFINE b == Append(f, ".")
<1>1. "." \in Parts /\ Len(f) \in Nat
  BY DEF Parts
<1>2. b \in Seq(Parts) /\ Len(b) = Len(f) + 1 /\ b[Len(f) + 1] = "."
      /\ \A k \in 1 .. Len(f) : b[k] = f[k]
  BY <1>1, AppendProperties
<1> HIDE DEF b
<1>3. b # << >>
  BY <1>1, <1>2, EmptySeq
<1>4. Mapper!IsPrefix(f, b)
  BY <1>1, <1>2, PrefixIs
<1>5. ASSUME NEW p \in Paths, Mapper!IsPrefix(p, b) PROVE Mapper!IsPrefix(p, f) \/ p = b
  <2>1. p \in Seq(Parts) /\ Len(p) \in Nat
    BY DEF Paths
  <2>2. Len(p) <= Len(b) /\ \A k \in 1 .. Len(p) : p[k] = b[k]
    BY <1>2, <1>5, <2>1, PrefixIs
  <2>3. CASE Len(p) <= Len(f)
    <3>1. \A k \in 1 .. Len(p) : p[k] = f[k]
      BY <1>1, <1>2, <2>1, <2>2, <2>3
    <3> QED BY <2>1, <2>3, <3>1, PrefixIs
  <2>4. CASE Len(p) = Len(b)
    BY <1>2, <2>1, <2>2, <2>4, SeqEqual
  <2> QED BY <1>1, <1>2, <2>1, <2>2, <2>3, <2>4
<1> QED BY <1>2, <1>3, <1>4, <1>5 DEF b, Paths

-----------------------------------------------------------------------------
(* The tree.                                                               *)

(* Where a file may be: on its way, or below its end.                      *)
Places(f) == {Mapper!Up(f, i) : i \in 1 .. Len(f)} \cup {Append(f, ".")}

LEMMA PlaceFacts ==
  ASSUME NEW f \in Files, NEW p \in Places(f)
  PROVE  /\ p \in Paths
         /\ Mapper!IsPrefix(p, f) \/ p = Append(f, ".")
         /\ Mapper!IsPrefix(p, Append(f, "."))
<1>1. f \in Seq(Parts) /\ Append(f, ".") \in Seq(Parts)
  BY FileFacts, BelowIs DEF Paths
<1>2. CASE p = Append(f, ".")
  BY <1>1, <1>2, BelowIs, PrefixOrder
<1>3. CASE p # Append(f, ".")
  <2>1. PICK i \in 1 .. Len(f) : p = Mapper!Up(f, i)
    BY <1>3 DEF Places
  <2>2. p \in Paths /\ Mapper!IsPrefix(p, f)
    BY <1>1, <2>1, UpIs
  <2>3. Mapper!IsPrefix(f, Append(f, "."))
    BY <1>1, BelowIs
  <2>4. p \in Seq(Parts)
    BY <2>2 DEF Paths
  <2> QED BY <1>1, <2>2, <2>3, <2>4, PrefixOrder
<1> QED BY <1>2, <1>3

LEMMA StopIs ==
  ASSUME NEW f \in Paths
  PROVE  \/ Mapper!Stop(f) = 0 /\ \A i \in 1 .. Len(f) : Mapper!IsTree(Mapper!Up(f, i))
         \/ /\ Mapper!Stop(f) \in 1 .. Len(f) /\ ~Mapper!IsTree(Mapper!Up(f, Mapper!Stop(f)))
            /\ \A i \in 1 .. Len(f) : i < Mapper!Stop(f) => Mapper!IsTree(Mapper!Up(f, i))
<1> DEFINE off == {i \in 1 .. Len(f) : ~Mapper!IsTree(Mapper!Up(f, i))}
           least == CHOOSE i \in off : \A j \in off : i <= j
<1>1. Len(f) \in Nat
  BY DEF Paths
<1>2. Mapper!Stop(f) = IF off = {} THEN 0 ELSE least
  BY DEF Mapper!Stop
<1>3. CASE off = {}
  BY <1>2, <1>3
<1>4. CASE off # {}
  <2>1. off \subseteq Nat
    BY <1>1
  <2>2. \E i \in off : \A j \in off : i <= j
    BY <1>4, <2>1, Least
  <2>3. least \in off /\ \A j \in off : least <= j
    BY <2>2
  <2>4. Mapper!Stop(f) = least
    BY <1>2, <1>4
  <2> HIDE DEF least
  <2>5. Mapper!Stop(f) \in 1 .. Len(f) /\ ~Mapper!IsTree(Mapper!Up(f, Mapper!Stop(f)))
    BY <2>3, <2>4
  <2>6. ASSUME NEW i \in 1 .. Len(f), i < Mapper!Stop(f) PROVE Mapper!IsTree(Mapper!Up(f, i))
    <3>1. i \notin off
      BY <1>1, <2>3, <2>4, <2>5, <2>6
    <3> QED BY <3>1
  <2> QED BY <2>5, <2>6
<1> QED BY <1>3, <1>4

(* A source file whose path does not end another one's.                    *)
Good(f) == f \in Mapper!Listed /\ ~Mapper!EndsAnother(f, Mapper!Listed)

LeavesOK ==
  \A l \in leaves : /\ l = [path |-> l.path, file |-> l.file]
                    /\ l.file \in Mapper!Listed /\ l.path \in Places(l.file)

(* No file is on the way of another.                                       *)
Apart == \A l, m \in leaves : Mapper!IsPrefix(l.path, m.path) => l = m

(* A file of the listing is in the tree as soon as it was read, but for    *)
(* the one that was moved out of its place just now.                       *)
Present(f) ==
  f \in listing \/ f = adding \/ \E l \in leaves : l.file = f

AllPresent == \A f \in Files : Good(f) => Present(f)

(* In one listing no file comes twice, so none is below its own end.       *)
Once ==
  listings = 1 =>
    /\ \A l \in leaves : l.file \notin listing /\ l.file # adding
    /\ adding \notin listing
    /\ \A f \in Files : Good(f) => [path |-> Append(f, "."), file |-> f] \notin leaves

TreeInv ==
  /\ LeavesOK /\ Apart /\ AllPresent /\ Once
  /\ adding \in Mapper!Listed \cup {<< >>}
  /\ listing \subseteq Files
  /\ mapping = "read" => listing = {} /\ adding = << >>

LEMMA ListedFacts ==
  /\ Mapper!Listed \subseteq Files
  /\ << >> \notin Files
  /\ \A f \in Mapper!Listed : f \in Paths /\ f \in Seq(Parts)
  BY FileFacts DEF Mapper!Listed, Paths

LEMMA LeafFacts ==
  ASSUME LeavesOK, NEW l \in leaves
  PROVE  /\ l.path \in Paths /\ l.path \in Seq(Parts)
         /\ l.file \in Mapper!Listed /\ l.file \in Files /\ l.file \in Seq(Parts)
         /\ Mapper!IsPrefix(l.path, l.file) \/ l.path = Append(l.file, ".")
         /\ Mapper!IsPrefix(l.path, Append(l.file, "."))
  BY ListedFacts, PlaceFacts DEF LeavesOK, Paths

(* What is at or below the end of a good file is that file.                *)
LEMMA GoodEnd ==
  ASSUME LeavesOK, NEW f, Good(f), NEW l \in leaves, Mapper!IsPrefix(f, l.path)
  PROVE  l.file = f
<1>1. f \in Mapper!Listed /\ f \in Paths /\ f \in Seq(Parts) /\ f \in Files
  BY ListedFacts DEF Good
<1>2. Mapper!IsPrefix(f, Append(l.file, "."))
  <2>1. Append(l.file, ".") \in Seq(Parts)
    BY LeafFacts, BelowIs DEF Paths
  <2> QED BY <1>1, <2>1, LeafFacts, PrefixOrder
<1>3. f # Append(l.file, ".")
  <2>1. Append(l.file, ".")[Len(l.file) + 1] = "." /\ Len(Append(l.file, ".")) = Len(l.file) + 1
    BY LeafFacts, BelowIs
  <2>2. Len(l.file) + 1 \in 1 .. Len(l.file) + 1
    BY LeafFacts, FileFacts
  <2> QED BY <1>1, <2>1, <2>2, FileFacts
<1>4. Mapper!IsPrefix(f, l.file)
  BY <1>1, <1>2, <1>3, LeafFacts, BelowIs
<1>5. ~Mapper!IsStrictPrefix(f, l.file)
  BY LeafFacts DEF Good, Mapper!EndsAnother
<1> QED BY <1>4, <1>5 DEF Mapper!IsStrictPrefix

(* A file has one place at most.                                           *)
LEMMA OnePlace ==
  ASSUME LeavesOK, Apart, NEW l \in leaves, NEW m \in leaves, l.file = m.file
  PROVE  l = m
<1>1. l.path \in Seq(Parts) /\ m.path \in Seq(Parts) /\ l.file \in Seq(Parts)
  BY LeafFacts
<1>2. Append(l.file, ".") \in Seq(Parts)
  BY <1>1, BelowIs DEF Paths
<1>3. Mapper!IsPrefix(l.path, Append(l.file, ".")) /\ Mapper!IsPrefix(m.path, Append(l.file, "."))
  BY LeafFacts
<1>4. \A r, s, t \in Seq(Parts) : Mapper!IsPrefix(r, t) /\ Mapper!IsPrefix(s, t) => Mapper!IsPrefix(r, s) \/ Mapper!IsPrefix(s, r)
  BY PrefixOrder
<1>5. Mapper!IsPrefix(l.path, m.path) \/ Mapper!IsPrefix(m.path, l.path)
  BY <1>1, <1>2, <1>3, <1>4
<1> QED BY <1>5 DEF Apart

(* Nothing is above a place that is reached.                               *)
LEMMA NothingAbove ==
  ASSUME LeavesOK, Apart, NEW f \in Paths, NEW i \in 1 .. Len(f),
         \A j \in 1 .. Len(f) : j < i => Mapper!IsTree(Mapper!Up(f, j)),
         NEW l \in leaves, Mapper!IsPrefix(l.path, Mapper!Up(f, i))
  PROVE  l.path = Mapper!Up(f, i)
<1>1. f \in Seq(Parts) /\ Len(f) \in Nat
  BY DEF Paths
<1>2. Mapper!Up(f, i) \in Seq(Parts) /\ Len(Mapper!Up(f, i)) = i /\ Mapper!IsPrefix(Mapper!Up(f, i), f) /\ Mapper!Up(f, i) \in Paths
  BY <1>1, UpIs DEF Paths
<1>3. Mapper!IsPrefix(l.path, f)
  BY <1>1, <1>2, LeafFacts, PrefixOrder
<1> DEFINE j == Len(l.path)
<1>4. j \in 1 .. Len(f) /\ l.path = Mapper!Up(f, j)
  BY <1>1, <1>3, LeafFacts, PrefixIsUp
<1>5. j <= i
  BY <1>2, LeafFacts, PrefixIs
<1>6. CASE j < i
  <2>1. Mapper!IsTree(l.path)
    BY <1>4, <1>6
  <2>2. PICK m \in leaves : Mapper!IsStrictPrefix(l.path, m.path)
    BY <2>1 DEF Mapper!IsTree
  <2>3. l = m
    BY <2>2 DEF Apart, Mapper!IsStrictPrefix
  <2> QED BY <2>2, <2>3 DEF Mapper!IsStrictPrefix
<1>7. CASE j = i
  BY <1>4, <1>7
<1> QED BY <1>4, <1>5, <1>6, <1>7

(* A file is put at a place that nothing is above or below.                *)
LEMMA Put ==
  ASSUME LeavesOK, Apart, NEW a \in Mapper!Listed, NEW p \in Places(a), NEW rest \in SUBSET leaves,
         \A m \in rest : ~Mapper!IsPrefix(m.path, p) /\ ~Mapper!IsPrefix(p, m.path),
         leaves' = rest \cup {[path |-> p, file |-> a]}
  PROVE  LeavesOK' /\ Apart'
<1> DEFINE new == [path |-> p, file |-> a]
<1>1. new.path = p /\ new.file = a /\ new = [path |-> new.path, file |-> new.file]
  OBVIOUS
<1> HIDE DEF new
<1>2. leaves' = rest \cup {new}
  BY DEF new
<1>3. ASSUME NEW l \in leaves'
      PROVE  /\ l = [path |-> l.path, file |-> l.file]
             /\ l.file \in Mapper!Listed /\ l.path \in Places(l.file)
  <2>1. CASE l = new
    BY <1>1, <2>1
  <2>2. CASE l \in leaves
    BY <2>2 DEF LeavesOK
  <2> QED BY <1>2, <2>1, <2>2
<1>4. ASSUME NEW l \in leaves', NEW m \in leaves', Mapper!IsPrefix(l.path, m.path) PROVE l = m
  <2>1. CASE l \in rest /\ m \in rest
    BY <1>4, <2>1 DEF Apart
  <2>2. CASE l = new /\ m \in rest
    BY <1>1, <1>4, <2>2
  <2>3. CASE l \in rest /\ m = new
    BY <1>1, <1>4, <2>3
  <2> QED BY <1>2, <2>1, <2>2, <2>3
<1>5. LeavesOK'
  BY <1>3 DEF LeavesOK
<1>6. Apart'
  BY <1>4 DEF Apart
<1> QED BY <1>5, <1>6

(* The place that _add goes to.                                            *)
LEMMA WayEnds ==
  ASSUME TreeInv, NEW a \in Mapper!Listed, NEW i \in 1 .. Len(a), ~Mapper!IsTree(Mapper!Up(a, i)),
         \A j \in 1 .. Len(a) : j < i => Mapper!IsTree(Mapper!Up(a, j))
  PROVE  \A m \in leaves : Mapper!IsPrefix(m.path, Mapper!Up(a, i)) \/ Mapper!IsPrefix(Mapper!Up(a, i), m.path) => m.path = Mapper!Up(a, i)
<1>1. a \in Paths
  BY ListedFacts
<1> SUFFICES ASSUME NEW m \in leaves, m.path # Mapper!Up(a, i)
             PROVE  ~Mapper!IsPrefix(m.path, Mapper!Up(a, i)) /\ ~Mapper!IsPrefix(Mapper!Up(a, i), m.path)
  OBVIOUS
<1>2. ~Mapper!IsPrefix(m.path, Mapper!Up(a, i))
  BY <1>1, NothingAbove DEF TreeInv
<1>3. ~Mapper!IsPrefix(Mapper!Up(a, i), m.path)
  BY DEF Mapper!IsTree, Mapper!IsStrictPrefix
<1> QED BY <1>2, <1>3

(* Where an older file is met, the new one goes one component further.     *)
Below(a, i) == IF i = Len(a) THEN Append(Mapper!Up(a, i), ".") ELSE Mapper!Up(a, i + 1)

LEMMA BelowFacts ==
  ASSUME NEW a \in Mapper!Listed, NEW i \in 1 .. Len(a)
  PROVE  /\ Below(a, i) \in Places(a) /\ Below(a, i) \in Seq(Parts)
         /\ Mapper!IsPrefix(Mapper!Up(a, i), Below(a, i))
         /\ \A p \in Paths : Mapper!IsPrefix(p, Below(a, i)) => Mapper!IsPrefix(p, Mapper!Up(a, i)) \/ p = Below(a, i)
         /\ Below(a, i) = Append(a, ".") => i = Len(a)
<1>1. a \in Paths /\ a \in Seq(Parts) /\ Len(a) \in Nat /\ a \in Files
  BY ListedFacts, FileFacts
<1>2. CASE i = Len(a)
  <2>1. Below(a, i) = Append(a, ".") /\ Mapper!Up(a, i) = a
    BY <1>1, <1>2, UpFull DEF Below
  <2>2. Below(a, i) \in Places(a)
    BY <2>1 DEF Places
  <2> QED BY <1>1, <1>2, <2>1, <2>2, BelowIs DEF Paths
<1>3. CASE i # Len(a)
  <2> DEFINE k == i + 1
  <2>1. k \in 1 .. Len(a) /\ Below(a, i) = Mapper!Up(a, k) /\ i \in Nat
    BY <1>1, <1>3 DEF Below
  <2>2. Mapper!Up(a, k) \in Seq(Parts) /\ Len(Mapper!Up(a, k)) = k /\ Mapper!Up(a, k) \in Places(a)
        /\ \A j \in 1 .. k : Mapper!Up(a, k)[j] = a[j]
    BY <1>1, <2>1, UpIs DEF Places, Paths
  <2>3. Mapper!Up(a, i) \in Seq(Parts) /\ Len(Mapper!Up(a, i)) = i /\ \A j \in 1 .. i : Mapper!Up(a, i)[j] = a[j]
    BY <1>1, UpIs DEF Paths
  <2>4. Mapper!IsPrefix(Mapper!Up(a, i), Mapper!Up(a, k))
    BY <2>1, <2>2, <2>3, PrefixIs
  <2>5. ASSUME NEW p \in Paths, Mapper!IsPrefix(p, Mapper!Up(a, k)) PROVE Mapper!IsPrefix(p, Mapper!Up(a, i)) \/ p = Mapper!Up(a, k)
    <3>1. p \in Seq(Parts) /\ Len(p) \in Nat
      BY DEF Paths
    <3>2. Len(p) <= k /\ \A j \in 1 .. Len(p) : p[j] = Mapper!Up(a, k)[j]
      BY <2>2, <2>5, <3>1, PrefixIs
    <3>3. CASE Len(p) = k
      BY <2>2, <3>1, <3>2, <3>3, SeqEqual
    <3>4. CASE Len(p) <= i
      <4>1. \A j \in 1 .. Len(p) : p[j] = Mapper!Up(a, i)[j]
        BY <2>1, <2>2, <2>3, <3>1, <3>2, <3>4
      <4> QED BY <2>3, <3>1, <3>4, <4>1, PrefixIs
    <3> QED BY <2>1, <3>1, <3>2, <3>3, <3>4
  <2>6. Mapper!Up(a, k) # Append(a, ".")
    <3>1. Len(Append(a, ".")) = Len(a) + 1
      BY <1>1, BelowIs
    <3> QED BY <1>1, <2>1, <2>2, <3>1
  <2> QED BY <2>1, <2>2, <2>4, <2>5, <2>6
<1> QED BY <1>2, <1>3

(* _add: the way of the file never ends; or it ends where nothing is; or   *)
(* it meets another, which is then to be added again.                      *)
AddKnown ==
  /\ leaves' = leaves /\ adding' = << >>
  /\ \A i \in 1 .. Len(adding) : Mapper!IsTree(Mapper!Up(adding, i))

AddNew(p) ==
  /\ leaves' = leaves \cup {[path |-> p, file |-> adding]} /\ adding' = << >>
  /\ p # Append(adding, ".")
  /\ \A m \in leaves : ~Mapper!IsPrefix(m.path, p) /\ ~Mapper!IsPrefix(p, m.path)

AddMeets(l, p) ==
  /\ leaves' = (leaves \ {l}) \cup {[path |-> p, file |-> adding]} /\ adding' = l.file
  /\ p = Append(adding, ".") => l.path = adding
  /\ \A m \in leaves \ {l} : ~Mapper!IsPrefix(m.path, p) /\ ~Mapper!IsPrefix(p, m.path)

LEMMA AddIs ==
  ASSUME TreeInv, Mapper!Add
  PROVE  /\ adding \in Mapper!Listed
         /\ \/ AddKnown
            \/ \E p \in Places(adding) : AddNew(p)
            \/ \E l \in leaves, p \in Places(adding) : AddMeets(l, p)
<1>1. adding \in Mapper!Listed /\ adding \in Paths
  BY ListedFacts DEF Mapper!Add, TreeInv
<1> DEFINE a == adding
           i == Mapper!Stop(a)
           path == Mapper!Up(a, i)
           met == {l \in leaves : i > 0 /\ l.path = path}
<1>2. /\ i = 0 => leaves' = leaves
      /\ i # 0 /\ met = {} => leaves' = leaves \cup {[path |-> path, file |-> a]}
      /\ i # 0 /\ met # {} => leaves' = (leaves \ met) \cup {[path |-> Below(a, i), file |-> a]}
      /\ adding' = IF met = {} THEN << >> ELSE (CHOOSE l \in met : TRUE).file
  <2>1. i \in Nat
    <3>1. Len(a) \in Nat
      BY <1>1 DEF Paths
    <3> QED BY <1>1, <3>1, StopIs
  <2> QED BY <2>1 DEF Mapper!Add, Below
<1>3. Len(a) \in Nat
  BY <1>1, ListedFacts, FileFacts
<1>4. CASE i = 0
  <2>1. met = {}
    BY <1>4
  <2>2. leaves' = leaves /\ adding' = << >>
    BY <1>2, <1>4, <2>1
  <2>3. \A j \in 1 .. Len(a) : Mapper!IsTree(Mapper!Up(a, j))
    BY <1>1, <1>3, <1>4, StopIs
  <2> QED BY <1>1, <2>2, <2>3 DEF AddKnown
<1>5. CASE i # 0
  <2>1. i \in 1 .. Len(a) /\ ~Mapper!IsTree(Mapper!Up(a, i)) /\ \A j \in 1 .. Len(a) : j < i => Mapper!IsTree(Mapper!Up(a, j))
    BY <1>1, <1>5, StopIs
  <2>2. \A m \in leaves : Mapper!IsPrefix(m.path, path) \/ Mapper!IsPrefix(path, m.path) => m.path = path
    BY <1>1, <2>1, WayEnds
  <2>3. CASE met = {}
    <3>1. leaves' = leaves \cup {[path |-> path, file |-> a]} /\ adding' = << >>
      BY <1>2, <1>5, <2>3
    <3>2. \A m \in leaves : m.path # path
      BY <1>3, <2>1, <2>3
    <3>3. path \in Places(a)
      BY <2>1 DEF Places
    <3>4. path # Append(a, ".")
      <4>1. Len(path) = i /\ Len(Append(a, ".")) = Len(a) + 1
        BY <1>1, <2>1, UpIs, BelowIs DEF Paths
      <4> QED BY <1>3, <2>1, <4>1
    <3>5. AddNew(path)
      BY <2>2, <3>1, <3>2, <3>4 DEF AddNew
    <3> QED BY <1>1, <3>3, <3>5
  <2>4. CASE met # {}
    <3> DEFINE l == CHOOSE l \in met : TRUE
               p == Below(a, i)
    <3>1. l \in leaves /\ l.path = path
      BY <2>4
    <3>2. met = {l}
      <4>1. \A m \in met : m \in leaves /\ Mapper!IsPrefix(l.path, m.path)
        <5>1. l.path \in Seq(Parts)
          BY <3>1, LeafFacts DEF TreeInv
        <5> QED BY <3>1, <5>1, PrefixOrder
      <4> QED BY <3>1, <4>1, <2>4 DEF TreeInv, Apart
    <3>3. leaves' = (leaves \ {l}) \cup {[path |-> p, file |-> a]} /\ adding' = l.file
      BY <1>2, <1>5, <2>4, <3>2
    <3>4. /\ p \in Places(a) /\ p \in Seq(Parts) /\ Mapper!IsPrefix(path, p)
          /\ \A q \in Paths : Mapper!IsPrefix(q, p) => Mapper!IsPrefix(q, path) \/ q = p
          /\ p = Append(a, ".") => i = Len(a)
      BY <1>1, <2>1, BelowFacts
    <3>5. p = Append(a, ".") => l.path = a
      BY <1>1, <3>1, <3>4, UpFull
    <3>6. ASSUME NEW m \in leaves \ {l} PROVE ~Mapper!IsPrefix(m.path, p) /\ ~Mapper!IsPrefix(p, m.path)
      <4>1. m.path # path
        BY <3>2, <2>1, <1>3
      <4>2. ~Mapper!IsPrefix(m.path, path) /\ ~Mapper!IsPrefix(path, m.path)
        BY <2>2, <4>1
      <4>3. m.path \in Paths /\ m.path \in Seq(Parts) /\ path \in Seq(Parts)
        BY <1>1, <2>1, LeafFacts, UpIs DEF TreeInv, Paths
      <4>4. ~Mapper!IsPrefix(p, m.path)
        BY <3>4, <4>2, <4>3, PrefixOrder
      <4>5. m.path # p
        BY <3>4, <4>2
      <4> QED BY <3>4, <4>2, <4>3, <4>4, <4>5
    <3> HIDE DEF l, p
    <3>7. AddMeets(l, p)
      BY <3>3, <3>5, <3>6 DEF AddMeets
    <3> QED BY <1>1, <3>1, <3>4, <3>7
  <2> QED BY <2>3, <2>4
<1> QED BY <1>4, <1>5

LEMMA AddKeepsTree ==
  ASSUME TreeInv, Mapper!Add PROVE LeavesOK' /\ Apart' /\ adding' \in Mapper!Listed \cup {<< >>}
<1>1. adding \in Mapper!Listed
  BY AddIs
<1>2. CASE AddKnown
  BY <1>2 DEF AddKnown, TreeInv, LeavesOK, Apart
<1>3. ASSUME NEW p \in Places(adding), AddNew(p)
      PROVE  LeavesOK' /\ Apart' /\ adding' \in Mapper!Listed \cup {<< >>}
  <2>1. leaves \in SUBSET leaves /\ adding' = << >>
    BY <1>3 DEF AddNew
  <2> QED BY <1>1, <1>3, <2>1, Put DEF AddNew, TreeInv
<1>4. ASSUME NEW l \in leaves, NEW p \in Places(adding), AddMeets(l, p)
      PROVE  LeavesOK' /\ Apart' /\ adding' \in Mapper!Listed \cup {<< >>}
  <2>1. leaves \ {l} \in SUBSET leaves /\ adding' \in Mapper!Listed
    BY <1>4, LeafFacts DEF AddMeets, TreeInv
  <2> QED BY <1>1, <1>4, <2>1, Put DEF AddMeets, TreeInv
<1> QED BY <1>2, <1>3, <1>4, AddIs

LEMMA AddKeepsPresent ==
  ASSUME TreeInv, Mapper!Add PROVE AllPresent'
<1> SUFFICES ASSUME NEW f \in Files, Good(f) PROVE Present(f)'
  BY DEF AllPresent, Good, Mapper!EndsAnother, Mapper!Listed
<1>1. adding \in Mapper!Listed /\ listing' = listing
  BY AddIs DEF Mapper!Add
<1>2. f \in listing \/ f = adding \/ \E m \in leaves : m.file = f
  BY DEF TreeInv, AllPresent, Present
<1>3. CASE AddKnown
  <2>1. CASE f = adding
    <3>1. f \in Paths /\ Len(f) \in Nat /\ Len(f) # 0
      BY FileFacts
    <3>2. Len(f) \in 1 .. Len(f) /\ Mapper!Up(f, Len(f)) = f
      BY <3>1, UpFull
    <3>3. Mapper!IsTree(Mapper!Up(f, Len(f)))
      BY <1>3, <2>1, <3>2 DEF AddKnown
    <3>4. PICK m \in leaves : Mapper!IsStrictPrefix(f, m.path)
      BY <3>2, <3>3 DEF Mapper!IsTree
    <3>5. m.file = f
      BY <3>4, GoodEnd DEF TreeInv, Mapper!IsStrictPrefix
    <3> QED BY <1>3, <3>5 DEF AddKnown, Present
  <2> QED BY <1>1, <1>2, <1>3, <2>1 DEF AddKnown, Present
<1>4. ASSUME NEW p \in Places(adding), AddNew(p) PROVE Present(f)'
  <2>1. [path |-> p, file |-> adding] \in leaves' /\ leaves \subseteq leaves'
    BY <1>4 DEF AddNew
  <2> QED BY <1>1, <1>2, <2>1 DEF Present
<1>5. ASSUME NEW l \in leaves, NEW p \in Places(adding), AddMeets(l, p) PROVE Present(f)'
  <2>1. [path |-> p, file |-> adding] \in leaves' /\ leaves \ {l} \subseteq leaves' /\ adding' = l.file
    BY <1>5 DEF AddMeets
  <2> QED BY <1>1, <1>2, <2>1 DEF Present
<1> QED BY <1>3, <1>4, <1>5, AddIs

LEMMA AddKeepsOnce ==
  ASSUME TreeInv, Mapper!Add PROVE Once'
<1> SUFFICES ASSUME listings = 1
             PROVE  /\ \A m \in leaves' : m.file \notin listing /\ m.file # adding'
                    /\ adding' \notin listing
                    /\ \A f \in Files : Good(f) => [path |-> Append(f, "."), file |-> f] \notin leaves'
  <2>1. listing' = listing /\ listings' = listings
    BY DEF Mapper!Add
  <2> QED BY <2>1 DEF Once, Good, Mapper!EndsAnother, Mapper!Listed
<1>1. adding \in Mapper!Listed /\ << >> \notin listing /\ << >> \notin Mapper!Listed
  BY AddIs, ListedFacts DEF TreeInv
<1>2. /\ \A m \in leaves : m.file \notin listing /\ m.file # adding
      /\ adding \notin listing
      /\ \A f \in Files : Good(f) => [path |-> Append(f, "."), file |-> f] \notin leaves
  BY DEF TreeInv, Once
<1>3. \A m \in leaves : m.file \in Mapper!Listed
  BY DEF TreeInv, LeavesOK
<1>4. CASE AddKnown
  BY <1>1, <1>2, <1>3, <1>4 DEF AddKnown
<1>5. ASSUME NEW p \in Places(adding), AddNew(p)
      PROVE  /\ \A m \in leaves' : m.file \notin listing /\ m.file # adding'
             /\ adding' \notin listing
             /\ \A f \in Files : Good(f) => [path |-> Append(f, "."), file |-> f] \notin leaves'
  <2> DEFINE new == [path |-> p, file |-> adding]
  <2>1. leaves' = leaves \cup {new} /\ adding' = << >> /\ p # Append(adding, ".")
    BY <1>5 DEF AddNew
  <2>2. new.file = adding /\ \A f : [path |-> Append(f, "."), file |-> f] = new => f = adding /\ Append(f, ".") = p
    OBVIOUS
  <2> HIDE DEF new
  <2>3. \A m \in leaves' : m.file \notin listing /\ m.file # adding'
    BY <1>1, <1>2, <1>3, <2>1, <2>2
  <2>4. \A f \in Files : Good(f) => [path |-> Append(f, "."), file |-> f] \notin leaves'
    BY <1>2, <2>1, <2>2
  <2> QED BY <1>1, <2>1, <2>3, <2>4
<1>6. ASSUME NEW l \in leaves, NEW p \in Places(adding), AddMeets(l, p)
      PROVE  /\ \A m \in leaves' : m.file \notin listing /\ m.file # adding'
             /\ adding' \notin listing
             /\ \A f \in Files : Good(f) => [path |-> Append(f, "."), file |-> f] \notin leaves'
  <2> DEFINE new == [path |-> p, file |-> adding]
  <2>1. leaves' = (leaves \ {l}) \cup {new} /\ adding' = l.file /\ (p = Append(adding, ".") => l.path = adding)
    BY <1>6 DEF AddMeets
  <2>2. new.file = adding /\ \A f : [path |-> Append(f, "."), file |-> f] = new => f = adding /\ Append(f, ".") = p
    OBVIOUS
  <2> HIDE DEF new
  <2>3. \A m \in leaves \ {l} : m.file # l.file
    BY OnePlace DEF TreeInv
  <2>4. \A m \in leaves' : m.file \notin listing /\ m.file # adding'
    BY <1>1, <1>2, <2>1, <2>2, <2>3
  <2>5. ASSUME Good(adding) PROVE p # Append(adding, ".")
    <3>1. ASSUME l.path = adding PROVE l.file = adding
      <4>1. Mapper!IsPrefix(adding, l.path)
        BY <3>1, LeafFacts, PrefixOrder DEF TreeInv
      <4> QED BY <2>5, <4>1, GoodEnd DEF TreeInv
    <3> QED BY <1>2, <2>1, <3>1
  <2>6. \A f \in Files : Good(f) => [path |-> Append(f, "."), file |-> f] \notin leaves'
    BY <1>2, <2>1, <2>2, <2>5
  <2> QED BY <1>2, <2>1, <2>4, <2>6
<1> QED BY <1>4, <1>5, <1>6, AddIs

(* Only __init__ and _add touch the tree.                                  *)
LEMMA TreeStays ==
  ASSUME TreeInv, UNCHANGED <<leaves, adding, mapping, listing, listings>> PROVE TreeInv'
<1>1. LeavesOK' /\ Apart'
  BY DEF TreeInv, LeavesOK, Apart
<1>2. AllPresent'
  BY DEF TreeInv, AllPresent, Present, Good, Mapper!EndsAnother, Mapper!Listed
<1>3. Once'
  BY DEF TreeInv, Once, Good, Mapper!EndsAnother, Mapper!Listed
<1> QED BY <1>1, <1>2, <1>3 DEF TreeInv, Mapper!Listed

LEMMA ReadingStep ==
  ASSUME TreeInv, (\E f \in Files : Mapper!NextFile(f)) \/ Mapper!ListingRead \/ Mapper!ListingFails PROVE TreeInv'
<1>1. leaves' = leaves /\ adding = << >> /\ mapping = "reading"
  BY DEF Mapper!NextFile, Mapper!ListingRead, Mapper!ListingFails
<1>2. LeavesOK' /\ Apart'
  BY <1>1 DEF TreeInv, LeavesOK, Apart
<1>3. ASSUME NEW f \in Files, Mapper!NextFile(f) PROVE TreeInv'
  <2>1. /\ f \in listing /\ listing' = listing \ {f} /\ mapping' = mapping /\ listings' = listings
        /\ adding' = IF Mapper!Last(f) \in Excluded THEN << >> ELSE f
    BY <1>3 DEF Mapper!NextFile
  <2>2. AllPresent'
    <3> SUFFICES ASSUME NEW g \in Files, Good(g) PROVE Present(g)'
      BY DEF AllPresent, Good, Mapper!EndsAnother, Mapper!Listed
    <3>1. g \in listing \/ \E m \in leaves : m.file = g
      BY <1>1, ListedFacts DEF TreeInv, AllPresent, Present
    <3>2. Mapper!Last(g) \notin Excluded
      BY DEF Good, Mapper!Listed
    <3> QED BY <1>1, <2>1, <3>1, <3>2 DEF Present
  <2>3. Once'
    <3>1. << >> \notin listing /\ \A m \in leaves : m.file # << >>
      BY ListedFacts, LeafFacts DEF TreeInv
    <3> QED BY <1>1, <2>1, <3>1 DEF TreeInv, Once, Good, Mapper!EndsAnother, Mapper!Listed
  <2>4. adding' \in Mapper!Listed \cup {<< >>}
    BY <2>1 DEF Mapper!Listed
  <2>5. listing' \subseteq Files /\ mapping' # "read"
    BY <1>1, <2>1 DEF TreeInv
  <2> QED BY <1>2, <2>2, <2>3, <2>4, <2>5 DEF TreeInv, Mapper!Listed
<1>4. CASE Mapper!ListingRead
  <2>1. listing = {} /\ UNCHANGED <<leaves, adding, listing, listings>>
    BY <1>4 DEF Mapper!ListingRead
  <2>2. AllPresent'
    BY <2>1 DEF TreeInv, AllPresent, Present, Good, Mapper!EndsAnother, Mapper!Listed
  <2>3. Once'
    BY <2>1 DEF TreeInv, Once, Good, Mapper!EndsAnother, Mapper!Listed
  <2> QED BY <1>1, <1>2, <2>1, <2>2, <2>3 DEF TreeInv, Mapper!Listed
<1>5. CASE Mapper!ListingFails
  <2>1. UNCHANGED <<leaves, adding>> /\ mapping' # "read"
    BY <1>1, <1>5 DEF Mapper!ListingFails
  <2>2. \/ listings' = 2 /\ listing' = Files
        \/ listings' = listings /\ listing' = listing
    BY <1>5 DEF Mapper!ListingFails
  <2>3. AllPresent'
    BY <2>1, <2>2 DEF TreeInv, AllPresent, Present, Good, Mapper!EndsAnother, Mapper!Listed
  <2>4. Once'
    BY <2>1, <2>2 DEF TreeInv, Once, Good, Mapper!EndsAnother, Mapper!Listed
  <2> QED BY <1>1, <1>2, <2>1, <2>2, <2>3, <2>4 DEF TreeInv, Mapper!Listed
<1> QED BY <1>3, <1>4, <1>5

LEMMA TreeStep ==
  ASSUME TreeInv, [Mapper!Next]_mapVars PROVE TreeInv'
<1>1. CASE Mapper!Add
  <2>1. UNCHANGED <<mapping, listing>> /\ adding # << >>
    BY <1>1 DEF Mapper!Add
  <2>2. LeavesOK' /\ Apart' /\ AllPresent' /\ Once' /\ adding' \in Mapper!Listed \cup {<< >>}
    BY <1>1, AddKeepsTree, AddKeepsPresent, AddKeepsOnce
  <2> QED BY <2>1, <2>2 DEF TreeInv, Mapper!Listed
<1>2. ASSUME NEW asked \in Asked, Mapper!Ask(asked) PROVE TreeInv'
  BY <1>2, TreeStays DEF Mapper!Ask
<1>3. CASE UNCHANGED mapVars
  BY <1>3, TreeStays DEF mapVars
<1> QED BY <1>1, <1>2, <1>3, ReadingStep DEF Mapper!Next, Mapper!FindRefused, Mapper!FindText, Mapper!FindBest

-----------------------------------------------------------------------------
(* find.                                                                   *)

(* The way of a good file ends at its place, or it is all that is below    *)
(* its end.                                                                *)
AtItsPlace(f) ==
  Mapper!Stop(f) > 0 /\ \E l \in leaves : l.path = Mapper!Up(f, Mapper!Stop(f)) /\ l.file = f

BelowItsEnd(f) ==
  /\ Mapper!Stop(f) = 0 /\ listings # 1
  /\ {l.file : l \in {m \in leaves : Mapper!IsPrefix(f, m.path)}} = {f}

LEMMA GoodIsThere ==
  ASSUME TreeInv, mapping = "read", NEW f, Good(f)
  PROVE  AtItsPlace(f) \/ BelowItsEnd(f)
<1>1. f \in Mapper!Listed /\ f \in Files /\ f \in Paths /\ f \in Seq(Parts) /\ Len(f) \in Nat
  BY ListedFacts, FileFacts DEF Good
<1>2. PICK l \in leaves : l.file = f
  BY <1>1, ListedFacts DEF TreeInv, AllPresent, Present
<1>3. l.path \in Places(f) /\ l = [path |-> l.path, file |-> f]
  BY <1>2 DEF TreeInv, LeavesOK
<1>4. ASSUME NEW j \in 1 .. Len(f), l.path = Mapper!Up(f, j) PROVE AtItsPlace(f)
  <2>1. ~Mapper!IsTree(Mapper!Up(f, j))
    <3> SUFFICES ASSUME NEW m \in leaves, Mapper!IsStrictPrefix(l.path, m.path) PROVE FALSE
      BY <1>4 DEF Mapper!IsTree
    <3>1. l = m
      BY DEF TreeInv, Apart, Mapper!IsStrictPrefix
    <3> QED BY <3>1 DEF Mapper!IsStrictPrefix
  <2>2. ASSUME NEW i \in 1 .. Len(f), i < j PROVE Mapper!IsTree(Mapper!Up(f, i))
    <3>1. /\ Mapper!Up(f, i) \in Seq(Parts) /\ Len(Mapper!Up(f, i)) = i /\ \A k \in 1 .. i : Mapper!Up(f, i)[k] = f[k]
          /\ Mapper!Up(f, j) \in Seq(Parts) /\ Len(Mapper!Up(f, j)) = j /\ \A k \in 1 .. j : Mapper!Up(f, j)[k] = f[k]
      BY <1>1, UpIs DEF Paths
    <3>2. Mapper!IsPrefix(Mapper!Up(f, i), Mapper!Up(f, j)) /\ Mapper!Up(f, i) # Mapper!Up(f, j)
      BY <1>1, <2>2, <3>1, PrefixIs
    <3> QED BY <1>4, <3>2 DEF Mapper!IsTree, Mapper!IsStrictPrefix
  <2>3. Mapper!Stop(f) = j
    BY <1>1, <2>1, <2>2, StopIs
  <2> QED BY <1>1, <1>2, <1>4, <2>3 DEF AtItsPlace
<1>5. CASE l.path = Append(f, ".")
  <2>1. Mapper!IsPrefix(f, l.path) /\ l.path \in Seq(Parts) /\ Len(l.path) = Len(f) + 1
    BY <1>1, <1>5, BelowIs DEF Paths
  <2>2. ASSUME NEW i \in 1 .. Len(f) PROVE Mapper!IsTree(Mapper!Up(f, i))
    <3>1. Mapper!Up(f, i) \in Seq(Parts) /\ Len(Mapper!Up(f, i)) = i /\ Mapper!IsPrefix(Mapper!Up(f, i), f)
      BY <1>1, UpIs DEF Paths
    <3>2. Mapper!IsPrefix(Mapper!Up(f, i), l.path)
      BY <1>1, <2>1, <3>1, PrefixOrder
    <3>3. Mapper!Up(f, i) # l.path
      BY <1>1, <2>1, <3>1
    <3> QED BY <3>2, <3>3 DEF Mapper!IsTree, Mapper!IsStrictPrefix
  <2>3. Mapper!Stop(f) = 0
    BY <1>1, <2>2, StopIs
  <2>4. \A m \in leaves : Mapper!IsPrefix(f, m.path) => m.file = f
    BY GoodEnd DEF TreeInv
  <2>5. {k.file : k \in {m \in leaves : Mapper!IsPrefix(f, m.path)}} = {f}
    BY <1>2, <2>1, <2>4
  <2>6. listings # 1
    BY <1>1, <1>3, <1>5 DEF TreeInv, Once
  <2> QED BY <2>3, <2>5, <2>6 DEF BelowItsEnd
<1> QED BY <1>3, <1>4, <1>5 DEF Places

FindInv ==
  /\ TreeInv
  /\ \A f \in failures : ~Good(f)
  /\ failures \subseteq Asked
  /\ found.name \in Asked \cup Mapper!Listed \cup {<< >>}
  /\ Mapper!SourceIsFound

(* The answer for a good file is its name; a file at the top that is below *)
(* its own end is not looked for, but it came twice.                       *)
Right(f) == Len(f) > 1 \/ listings = 1 => found' = Mapper!Answer(f, f, TRUE)

LEMMA TextIsRight ==
  ASSUME FindInv, NEW f \in Asked, Good(f), Mapper!FindText(f) PROVE Right(f)
<1>1. mapping = "read"
  BY DEF Mapper!FindText, Mapper!Ask
<1>2. PICK l \in leaves : Mapper!Stop(f) > 0 /\ l.path = Mapper!Up(f, Mapper!Stop(f)) /\ found' = Mapper!Answer(f, l.file, TRUE)
  BY DEF Mapper!FindText
<1>3. AtItsPlace(f)
  BY <1>1, <1>2, GoodIsThere DEF FindInv, BelowItsEnd
<1>4. PICK m \in leaves : m.path = Mapper!Up(f, Mapper!Stop(f)) /\ m.file = f
  BY <1>3 DEF AtItsPlace
<1>5. l = m
  BY <1>2, <1>4, LeafFacts, PrefixOrder DEF FindInv, TreeInv, Apart
<1> QED BY <1>2, <1>4, <1>5 DEF Right

LEMMA BestIsRight ==
  ASSUME FindInv, NEW f \in Asked, Good(f), Mapper!FindBest(f)
  PROVE  Right(f) /\ failures' = failures
<1> DEFINE i == Mapper!Stop(f)
           top == Mapper!Up(f, IF i = 0 THEN Len(f) ELSE i - 1)
           best == Mapper!Best(f, {l.file : l \in {m \in leaves : Mapper!IsPrefix(top, m.path)}})
           alone == i = 1 \/ Len(f) = 1
<1>1. mapping = "read"
  BY DEF Mapper!FindBest, Mapper!Ask
<1>2. /\ ~ (i > 0 /\ Mapper!IsText(Mapper!Up(f, i)))
      /\ found' = IF alone \/ best = {} THEN Mapper!Answer(f, f, FALSE)
                  ELSE Mapper!Answer(f, CHOOSE g \in best : TRUE, TRUE)
      /\ failures' = IF ~alone /\ best = {} THEN failures \cup {f} ELSE failures
  BY DEF Mapper!FindBest
<1>3. f \in Paths /\ Len(f) \in Nat /\ Len(f) # 0
  BY ListedFacts, FileFacts DEF Good
<1>4. ~AtItsPlace(f)
  BY <1>2 DEF AtItsPlace, Mapper!IsText
<1>5. BelowItsEnd(f)
  BY <1>1, <1>4, GoodIsThere DEF FindInv
<1>6. i = 0 /\ top = f
  BY <1>3, <1>5, UpFull DEF BelowItsEnd
<1>7. best = Mapper!Best(f, {f})
  BY <1>5, <1>6 DEF BelowItsEnd
<1>8. Mapper!Best(f, {f}) = {f}
  BY DEF Mapper!Best
<1>9. best # {} /\ (CHOOSE g \in best : TRUE) = f
  <2>1. best = {f}
    BY <1>7, <1>8
  <2> HIDE DEF best
  <2> QED BY <2>1
<1> HIDE DEF best, top
<1>10. failures' = failures
  BY <1>2, <1>9
<1>11. Right(f)
  <2>0. \A k \in Nat : k > 1 => k # 1
    OBVIOUS
  <2> SUFFICES ASSUME Len(f) # 1 PROVE found' = Mapper!Answer(f, f, TRUE)
    BY <1>3, <1>5, <2>0 DEF Right, BelowItsEnd
  <2>1. ~alone
    <3>1. i # 1
      BY <1>6
    <3> HIDE DEF i
    <3> QED BY <3>1, Zenon
  <2> HIDE DEF alone
  <2> QED BY <1>2, <1>9, <2>1
<1> QED BY <1>10, <1>11

(* What find says of any file.                                             *)
LEMMA AnswerTypes ==
  ASSUME FindInv, NEW f \in Asked, Mapper!FindRefused(f) \/ Mapper!FindText(f) \/ Mapper!FindBest(f)
  PROVE  /\ found'.asked = f /\ found'.name \in Asked \cup Mapper!Listed
         /\ failures' \subseteq failures \cup {f}
<1>1. CASE Mapper!FindRefused(f)
  BY <1>1 DEF Mapper!FindRefused, Mapper!Answer
<1>2. CASE Mapper!FindText(f)
  <2>1. PICK l \in leaves : found' = Mapper!Answer(f, l.file, TRUE)
    BY <1>2 DEF Mapper!FindText
  <2>2. l.file \in Mapper!Listed
    BY LeafFacts DEF FindInv, TreeInv
  <2> QED BY <1>2, <2>1, <2>2 DEF Mapper!FindText, Mapper!Answer
<1>3. CASE Mapper!FindBest(f)
  <2> DEFINE i == Mapper!Stop(f)
             top == Mapper!Up(f, IF i = 0 THEN Len(f) ELSE i - 1)
             best == Mapper!Best(f, {l.file : l \in {m \in leaves : Mapper!IsPrefix(top, m.path)}})
             one == CHOOSE g \in best : TRUE
             alone == i = 1 \/ Len(f) = 1
  <2>0. found' = IF alone \/ best = {} THEN Mapper!Answer(f, f, FALSE) ELSE Mapper!Answer(f, one, TRUE)
    BY <1>3 DEF Mapper!FindBest
  <2>1. found' = Mapper!Answer(f, f, FALSE) \/ (best # {} /\ found' = Mapper!Answer(f, one, TRUE))
    BY <2>0
  <2>2. failures' \subseteq failures \cup {f}
    BY <1>3 DEF Mapper!FindBest
  <2>3. best \subseteq {l.file : l \in leaves}
    BY DEF Mapper!Best
  <2>4. best \subseteq Mapper!Listed
    BY <2>3, LeafFacts DEF FindInv, TreeInv
  <2>5. best # {} => one \in Mapper!Listed
    BY <2>4
  <2> HIDE DEF best, one
  <2> QED BY <2>1, <2>2, <2>5 DEF Mapper!Answer
<1> QED BY <1>1, <1>2, <1>3

LEMMA FindStep ==
  ASSUME FindInv, NEW f \in Asked, Mapper!FindRefused(f) \/ Mapper!FindText(f) \/ Mapper!FindBest(f)
  PROVE  FindInv'
<1>1. TreeInv' /\ listings' = listings
  BY TreeStays DEF FindInv, Mapper!FindRefused, Mapper!FindText, Mapper!FindBest, Mapper!Ask
<1>2. found'.asked = f /\ found'.name \in Asked \cup Mapper!Listed /\ failures' \subseteq failures \cup {f}
  BY AnswerTypes
<1>3. ASSUME Good(f) PROVE failures' = failures /\ (f \in Refused \/ Right(f))
  <2>1. CASE Mapper!FindRefused(f)
    BY <1>3, <2>1 DEF Mapper!FindRefused, FindInv
  <2>2. CASE Mapper!FindText(f)
    BY <1>3, <2>2, TextIsRight DEF Mapper!FindText
  <2>3. CASE Mapper!FindBest(f)
    BY <1>3, <2>3, BestIsRight
  <2> QED BY <2>1, <2>2, <2>3
<1>4. Mapper!SourceIsFound'
  <2> SUFFICES ASSUME f \in Mapper!Listed \ Refused, ~Mapper!EndsAnother(f, Mapper!Listed), Len(f) > 1 \/ listings = 1
               PROVE  found'.name = f /\ found'.is_firefox
    BY <1>1, <1>2 DEF Mapper!SourceIsFound, Mapper!Listed, Mapper!EndsAnother
  <2>1. found' = Mapper!Answer(f, f, TRUE)
    BY <1>3 DEF Good, Right
  <2> QED BY <2>1 DEF Mapper!Answer
<1>5. \A g \in failures' : ~Good(g)'
  BY <1>2, <1>3 DEF FindInv, Good, Mapper!Listed, Mapper!EndsAnother
<1>6. failures' \subseteq Asked
  BY <1>2 DEF FindInv
<1> QED BY <1>1, <1>2, <1>4, <1>5, <1>6 DEF FindInv, Mapper!Listed

LEMMA MapperInit == Mapper!Init => FindInv
<1> SUFFICES ASSUME Mapper!Init PROVE FindInv
  OBVIOUS
<1>1. TreeInv
  BY ListedFacts DEF Mapper!Init, TreeInv, LeavesOK, Apart, AllPresent, Present, Once
<1>2. Mapper!SourceIsFound
  BY ListedFacts DEF Mapper!Init, Mapper!Nothing, Mapper!SourceIsFound
<1> QED BY <1>1, <1>2 DEF Mapper!Init, Mapper!Nothing, FindInv

LEMMA MapperStep == FindInv /\ [Mapper!Next]_mapVars => FindInv'
<1> SUFFICES ASSUME FindInv, [Mapper!Next]_mapVars PROVE FindInv'
  OBVIOUS
<1>1. CASE \E f \in Asked : Mapper!FindRefused(f) \/ Mapper!FindText(f) \/ Mapper!FindBest(f)
  BY <1>1, FindStep
<1>2. ASSUME UNCHANGED <<failures, found>>, listings' \in {listings, 2} PROVE FindInv'
  <2>1. TreeInv'
    BY TreeStep DEF FindInv
  <2>2. Mapper!SourceIsFound'
    BY <1>2 DEF FindInv, Mapper!SourceIsFound, Mapper!Listed, Mapper!EndsAnother
  <2> QED BY <1>2, <2>1, <2>2 DEF FindInv, Good, Mapper!Listed, Mapper!EndsAnother
<1>3. CASE \E f \in Files : Mapper!NextFile(f)
  BY <1>2, <1>3 DEF Mapper!NextFile
<1>4. CASE Mapper!Add \/ Mapper!ListingRead
  BY <1>2, <1>4 DEF Mapper!Add, Mapper!ListingRead
<1>5. CASE Mapper!ListingFails
  BY <1>2, <1>5 DEF Mapper!ListingFails
<1>6. CASE UNCHANGED mapVars
  BY <1>2, <1>6 DEF mapVars
<1> QED BY <1>1, <1>3, <1>4, <1>5, <1>6 DEF Mapper!Next

(* file_mapper.py: the tree holds listed files only, and find answers with *)
(* what was asked or with a listed file.                                   *)
THEOREM MapperTypes == Mapper!Spec => []Mapper!FileMapperTypeOK
<1>1. FindInv => Mapper!FileMapperTypeOK
  BY LeafFacts DEF FindInv, TreeInv, Mapper!FileMapperTypeOK
<1> QED BY <1>1, MapperInit, MapperStep, PTL DEF Mapper!Spec, Mapper!mapVars, mapVars

(* file_mapper.py 106-216: whatever _add has moved, and however often a    *)
(* listing broke off, a source file is found under its own name, unless    *)
(* another one ends with its path, or it is at the top and came twice.     *)
THEOREM SourceFilesAreFound == Mapper!Spec => []SourceIsFound
<1>1. FindInv => SourceIsFound
  BY DEF FindInv, SourceIsFound
<1> QED BY <1>1, MapperInit, MapperStep, PTL DEF Mapper!Spec, Mapper!mapVars, mapVars

-----------------------------------------------------------------------------
(* Coverage.  The records that were made, whether they have their TUIDs or *)
(* still wait for them, are those of the files read so far: of an lcov     *)
(* artifact without the file that is being read.  The objects of a jsdcov  *)
(* artifact are kept together until its end.                               *)

FileLines ==
  [file : Sources, covered : SUBSET CodeLines, uncovered : SUBSET CodeLines]

(* The TUIDs of a record are of its own lines.                             *)
FileRecords ==
  {t \in [file : Sources, covered : SUBSET CodeLines, uncovered : SUBSET CodeLines,
          tuid_covered : SUBSET (Sources \X CodeLines),
          tuid_uncovered : SUBSET (Sources \X CodeLines)] : Cover!OwnTuids(t)}

MadeRows == Cover!Plain(output) \o batch

Complete == IF current = {} THEN input ELSE Cover!Front(input)

KeptPlaces(parts) == {i \in DOMAIN parts : Cover!Kept(parts[i])}

Named == {input[i].file : i \in DOMAIN input}

Gathered == {Cover!Of(f, Cover!All(f, "covered"), Cover!All(f, "uncovered")) : f \in Named}

Aggregated ==
  {Cover!Of(f, Cover!All(f, "covered"), Cover!All(f, "uncovered") \ Cover!All(f, "covered"))
     : f \in Named}

CoverShape ==
  /\ input \in Seq(FileLines) /\ batch \in Seq(FileLines)
  /\ output \in Seq(FileRecords) /\ current \in SUBSET FileLines

CurrentInv ==
  /\ artifact \in Cover!Lcov /\ current # {} =>
       input # << >> /\ current = {Cover!Last(input)}
  /\ artifact \notin Cover!Lcov \cup {"jsdcov"} => current = {}
  /\ reading \in {"end", "written"} => current = {}
  /\ reading = "written" => batch = << >>
  /\ reading = "header" => artifact = "jsdcov"

OrderInv ==
  reading \in {"open", "end", "written"} /\ ~cut /\ artifact # "jsdcov" =>
    Cover!AreThose(MadeRows, Complete, KeptPlaces(Complete))

AggregateInv ==
  artifact = "jsdcov" =>
    /\ reading \in {"header", "open"} => output = << >> /\ batch = << >> /\ current = Gathered
    /\ reading \in {"end", "written"} =>
         Cover!ToSet(MadeRows) = Aggregated /\ Cover!IsInjective(MadeRows)

CoverInv == CoverShape /\ CurrentInv /\ OrderInv /\ AggregateInv

(* A finite set as a sequence.                                             *)
LEMMA SequenceOfSet ==
  ASSUME NEW S, IsFiniteSet(S), NEW q, q = Cover!SetToSeq(S)
  PROVE  /\ Cardinality(S) \in Nat
         /\ q \in [1 .. Cardinality(S) -> S] /\ Cover!IsInjective(q)
         /\ {q[i] : i \in DOMAIN q} = S
<1> DEFINE n == Cardinality(S)
<1>1. n \in Nat /\ ExistsBijection(1 .. n, S)
  BY FS_CardinalityType
<1>2. PICK f \in Bijection(1 .. n, S) : TRUE
  BY <1>1 DEF ExistsBijection
<1>3. f \in [1 .. n -> S] /\ Cover!IsInjective(f)
  BY <1>2 DEF Bijection, Injection, IsInjective, Cover!IsInjective
<1>4. Cover!Cardinality(S) = n
  BY DEF Cover!Cardinality, Cardinality
<1>5. q = CHOOSE g \in [1 .. n -> S] : Cover!IsInjective(g)
  BY <1>4 DEF Cover!SetToSeq
<1>6. q \in [1 .. n -> S] /\ Cover!IsInjective(q)
  BY <1>3, <1>5
<1>7. q \in Injection(1 .. n, S)
  BY <1>6 DEF Injection, IsInjective, Cover!IsInjective
<1>8. Cardinality(1 .. n) = Cardinality(S)
  BY <1>1, FS_Interval
<1>9. q \in Surjection(1 .. n, S)
  BY <1>7, <1>8, FS_Injection
<1>10. {q[i] : i \in DOMAIN q} = S
  BY <1>6, <1>9 DEF Surjection
<1> QED
  BY <1>1, <1>6, <1>10

LEMMA SequenceOfNone == Cover!SetToSeq({}) = << >>
<1>1. IsFiniteSet({}) /\ Cardinality({}) = 0
  BY FS_EmptySet
<1>2. Cover!SetToSeq({}) \in [1 .. Cardinality({}) -> {}]
  BY <1>1, SequenceOfSet
<1> QED
  BY <1>1, <1>2

LEMMA SequenceOfOne ==
  ASSUME NEW s PROVE Cover!SetToSeq({s}) = <<s>>
<1>1. IsFiniteSet({s}) /\ Cardinality({s}) = 1
  BY FS_Singleton
<1> DEFINE q == Cover!SetToSeq({s})
<1>2. q \in [1 .. 1 -> {s}]
  BY <1>1, SequenceOfSet
<1> HIDE DEF q
<1>3. q = [i \in 1 .. 1 |-> s]
  BY <1>2
<1>4. q = <<s>>
  BY <1>3
<1> QED BY <1>4 DEF q

(* One more file, whose record was made, or left out.                      *)
LEMMA OneMore ==
  ASSUME NEW R, NEW made \in Seq(R), NEW parts \in Seq(R), NEW places,
         Cover!AreThose(made, parts, places), NEW s \in R
  PROVE  /\ Cover!AreThose(made, Append(parts, s), places)
         /\ Cover!AreThose(Append(made, s), Append(parts, s), places \cup {Len(parts) + 1})
<1> DEFINE m == Len(made)
           n == Len(parts)
           more == Append(parts, s)
           longer == Append(made, s)
<1>1. m \in Nat /\ n \in Nat /\ DOMAIN made = 1 .. m /\ DOMAIN parts = 1 .. n
  OBVIOUS
<1>2. DOMAIN more = 1 .. n + 1 /\ DOMAIN longer = 1 .. m + 1
  OBVIOUS
<1>3. /\ \A i \in 1 .. n : more[i] = parts[i]
      /\ more[n + 1] = s
      /\ \A i \in 1 .. m : longer[i] = made[i]
      /\ longer[m + 1] = s
  OBVIOUS
<1>4. PICK g \in [DOMAIN made -> DOMAIN parts] :
        /\ \A k \in DOMAIN made : made[k] = parts[g[k]]
        /\ \A j, k \in DOMAIN made : j < k => g[j] < g[k]
        /\ {g[k] : k \in DOMAIN made} = places
  BY DEF Cover!AreThose
<1> HIDE DEF m, n, more, longer
<1>5. g \in [1 .. m -> 1 .. n]
  BY <1>1, <1>4
<1>6. Cover!AreThose(made, more, places)
  <2>1. g \in [DOMAIN made -> DOMAIN more]
    BY <1>1, <1>2, <1>5
  <2>2. \A k \in DOMAIN made : made[k] = more[g[k]]
    BY <1>1, <1>3, <1>4, <1>5
  <2> QED
    BY <1>4, <2>1, <2>2 DEF Cover!AreThose
<1>7. Cover!AreThose(longer, more, places \cup {n + 1})
  <2> DEFINE h == [k \in 1 .. m + 1 |-> IF k = m + 1 THEN n + 1 ELSE g[k]]
  <2>1. \A k \in 1 .. m : h[k] = g[k] /\ k \in 1 .. m + 1
    BY <1>1
  <2>2. h[m + 1] = n + 1 /\ m + 1 \in 1 .. m + 1 /\ DOMAIN h = 1 .. m + 1
    BY <1>1
  <2>3. \A k \in 1 .. m + 1 : k \in 1 .. m \/ k = m + 1
    BY <1>1
  <2> HIDE DEF h
  <2>4. h \in [DOMAIN longer -> DOMAIN more]
    <3>1. \A k \in 1 .. m + 1 : h[k] \in 1 .. n + 1
      BY <1>1, <1>5, <2>1, <2>2, <2>3
    <3>2. h = [k \in 1 .. m + 1 |-> h[k]]
      BY DEF h
    <3> QED BY <1>2, <3>1, <3>2
  <2>5. \A k \in DOMAIN longer : longer[k] = more[h[k]]
    <3> SUFFICES ASSUME NEW k \in 1 .. m + 1 PROVE longer[k] = more[h[k]]
      BY <1>2
    <3>1. CASE k \in 1 .. m
      <4>1. made[k] = parts[g[k]] /\ g[k] \in 1 .. n
        BY <3>1, <1>1, <1>4, <1>5
      <4> QED BY <3>1, <4>1, <1>3, <2>1
    <3>2. CASE k = m + 1
      BY <3>2, <1>3, <2>2
    <3> QED BY <3>1, <3>2, <2>3
  <2>6. \A j, k \in DOMAIN longer : j < k => h[j] < h[k]
    <3> SUFFICES ASSUME NEW j \in 1 .. m + 1, NEW k \in 1 .. m + 1, j < k PROVE h[j] < h[k]
      BY <1>2
    <3>1. j \in 1 .. m
      BY <1>1
    <3>2. h[j] = g[j] /\ g[j] \in 1 .. n
      BY <3>1, <2>1, <1>5
    <3>3. CASE k \in 1 .. m
      BY <3>1, <3>2, <3>3, <1>1, <1>4, <2>1
    <3>4. CASE k = m + 1
      BY <3>2, <3>4, <1>1, <2>2
    <3> QED BY <3>3, <3>4, <2>3
  <2>7. {h[k] : k \in DOMAIN longer} = places \cup {n + 1}
    <3>1. \A p \in places : \E k \in 1 .. m + 1 : h[k] = p
      BY <1>1, <1>4, <2>1
    <3>2. \A k \in 1 .. m + 1 : h[k] \in places \cup {n + 1}
      <4> SUFFICES ASSUME NEW k \in 1 .. m + 1 PROVE h[k] \in places \cup {n + 1}
        OBVIOUS
      <4>1. CASE k \in 1 .. m
        BY <4>1, <1>1, <1>4, <2>1
      <4>2. CASE k = m + 1
        BY <4>2, <2>2
      <4> QED BY <4>1, <4>2, <2>3
    <3> QED BY <1>2, <2>2, <3>1, <3>2
  <2> QED
    BY <2>4, <2>5, <2>6, <2>7 DEF Cover!AreThose
<1> QED
  BY <1>6, <1>7 DEF m, n, more, longer

LEMMA PlacesKept ==
  ASSUME NEW R, NEW parts \in Seq(R), NEW s
  PROVE  KeptPlaces(Append(parts, s)) =
           IF Cover!Kept(s) THEN KeptPlaces(parts) \cup {Len(parts) + 1} ELSE KeptPlaces(parts)
<1> DEFINE n == Len(parts)
           more == Append(parts, s)
<1>1. /\ n \in Nat /\ DOMAIN parts = 1 .. n /\ DOMAIN more = 1 .. n + 1
      /\ \A i \in 1 .. n : more[i] = parts[i]
      /\ more[n + 1] = s
  OBVIOUS
<1>2. KeptPlaces(more) = {i \in 1 .. n + 1 : Cover!Kept(more[i])}
  BY <1>1 DEF KeptPlaces
<1>3. KeptPlaces(parts) = {i \in 1 .. n : Cover!Kept(parts[i])}
  BY <1>1 DEF KeptPlaces
<1> HIDE DEF n, more
<1>4. \A i \in 1 .. n + 1 : i \in 1 .. n \/ i = n + 1
  BY <1>1
<1>5. n + 1 \in 1 .. n + 1 /\ \A i \in 1 .. n : i \in 1 .. n + 1
  BY <1>1
<1>6. \A i \in 1 .. n : Cover!Kept(more[i]) <=> Cover!Kept(parts[i])
  BY <1>1
<1>7. CASE Cover!Kept(s)
  <2>1. KeptPlaces(more) = KeptPlaces(parts) \cup {n + 1}
    BY <1>1, <1>2, <1>3, <1>4, <1>5, <1>6, <1>7
  <2> QED BY <2>1, <1>7 DEF n, more
<1>8. CASE ~Cover!Kept(s)
  <2>1. KeptPlaces(more) = KeptPlaces(parts)
    BY <1>1, <1>2, <1>3, <1>4, <1>5, <1>6, <1>8
  <2> QED BY <2>1, <1>8 DEF n, more
<1> QED
  BY <1>7, <1>8

(* The places of an artifact that goes on.                                 *)
LEMMA PlacesStay ==
  ASSUME artifact' = artifact, NEW parts PROVE KeptPlaces(parts)' = KeptPlaces(parts)
BY DEF KeptPlaces, Cover!Kept

(* The last file of a sequence that is not empty.                          *)
LEMMA LastFile ==
  ASSUME NEW R, NEW q \in Seq(R), q # << >>
  PROVE  /\ Cover!Front(q) \in Seq(R) /\ Cover!Last(q) \in R
         /\ q = Append(Cover!Front(q), Cover!Last(q))
<1>1. Len(q) \in Nat \ {0}
  OBVIOUS
<1>2. Cover!Last(q) \in R
  BY <1>1 DEF Cover!Last
<1>3. Cover!Front(q) \in Seq(R) /\ Len(Cover!Front(q)) = Len(q) - 1
  <2>1. Cover!Front(q) = SubSeq(q, 1, Len(q) - 1)
    BY DEF Cover!Front
  <2>2. SubSeq(q, 1, Len(q) - 1) \in Seq(R)
    <3>1. \A i \in 1 .. Len(q) - 1 : q[i] \in R
      BY <1>1
    <3>2. 1 \in Int /\ Len(q) - 1 \in Int
      BY <1>1
    <3> QED BY <3>1, <3>2
  <2>3. Len(SubSeq(q, 1, Len(q) - 1)) = Len(q) - 1
    <3>1. \A k \in 0 .. Len(q) : Len(SubSeq(q, 1, k)) = k
      OBVIOUS
    <3>2. Len(q) - 1 \in 0 .. Len(q)
      BY <1>1
    <3> QED BY <3>1, <3>2
  <2> QED BY <2>1, <2>2, <2>3
<1>4. \A i \in 1 .. Len(q) - 1 : Cover!Front(q)[i] = q[i]
  <2> SUFFICES ASSUME NEW i \in 1 .. Len(q) - 1 PROVE SubSeq(q, 1, Len(q) - 1)[i] = q[i]
    BY DEF Cover!Front
  <2>1. i \in Nat /\ 1 <= i /\ i <= Len(q) - 1
    BY <1>1
  <2> QED BY <1>1, <2>1
<1>5. Len(Append(Cover!Front(q), Cover!Last(q))) = Len(q)
  BY <1>1, <1>2, <1>3
<1>6. \A i \in 1 .. Len(q) : Append(Cover!Front(q), Cover!Last(q))[i] = q[i]
  BY <1>1, <1>2, <1>3, <1>4 DEF Cover!Last
<1>7. q = Append(Cover!Front(q), Cover!Last(q))
  <2> DEFINE r == Append(Cover!Front(q), Cover!Last(q))
  <2>1. r \in Seq(R)
    BY <1>2, <1>3
  <2>2. Len(r) = Len(q) /\ \A i \in 1 .. Len(q) : r[i] = q[i]
    BY <1>5, <1>6
  <2> HIDE DEF r
  <2>3. r = q
    BY <2>1, <2>2
  <2> QED BY <2>3 DEF r
<1> QED
  BY <1>2, <1>3, <1>7

LEMMA FrontOfAppend ==
  ASSUME NEW R, NEW q \in Seq(R), NEW s \in R
  PROVE  /\ Append(q, s) \in Seq(R) /\ Append(q, s) # << >>
         /\ Cover!Front(Append(q, s)) = q /\ Cover!Last(Append(q, s)) = s
<1> DEFINE r == Append(q, s)
<1>1. r \in Seq(R) /\ Len(r) = Len(q) + 1 /\ Len(q) \in Nat /\ r[Len(q) + 1] = s
  OBVIOUS
<1>2. \A i \in 1 .. Len(q) : r[i] = q[i]
  OBVIOUS
<1> HIDE DEF r
<1>3. r # << >>
  BY <1>1
<1>4. Cover!Last(r) = s
  BY <1>1 DEF Cover!Last
<1>5. Cover!Front(r) = q
  <2>1. Cover!Front(r) \in Seq(R) /\ Len(Cover!Front(r)) = Len(q)
    BY <1>1 DEF Cover!Front
  <2>2. \A i \in 1 .. Len(q) : Cover!Front(r)[i] = r[i]
    BY <1>1 DEF Cover!Front
  <2> QED BY <2>1, <2>2, <1>2
<1> QED
  BY <1>1, <1>3, <1>4, <1>5 DEF r

LEMMA PlainIsLines ==
  ASSUME NEW rows \in Seq(FileRecords)
  PROVE  /\ Cover!Plain(rows) \in Seq(FileLines)
         /\ Len(Cover!Plain(rows)) = Len(rows)
         /\ \A i \in 1 .. Len(rows) :
              Cover!Plain(rows)[i] =
                Cover!Of(rows[i].file, rows[i].covered, rows[i].uncovered)
<1>1. \A i \in 1 .. Len(rows) : rows[i] \in FileRecords
  <2> HIDE DEF FileRecords
  <2> QED OBVIOUS
<1>2. \A i \in 1 .. Len(rows) :
        Cover!Of(rows[i].file, rows[i].covered, rows[i].uncovered) \in FileLines
  BY <1>1 DEF Cover!Of, FileLines, FileRecords
<1>3. DOMAIN rows = 1 .. Len(rows) /\ Len(rows) \in Nat
  OBVIOUS
<1>4. Cover!Plain(rows) =
        [i \in 1 .. Len(rows) |->
           Cover!Of(rows[i].file, rows[i].covered, rows[i].uncovered)]
  BY <1>3 DEF Cover!Plain
<1>5. Cover!Plain(rows) \in [1 .. Len(rows) -> FileLines]
  BY <1>2, <1>4
<1>6. Cover!Plain(rows) \in Seq(FileLines) /\ Len(Cover!Plain(rows)) = Len(rows)
  BY <1>3, <1>5
<1> QED
  BY <1>4, <1>6

(* The TUIDs add nothing to what is said of the lines.                     *)
LEMMA TuidsAreOwn ==
  ASSUME NEW s \in FileLines, NEW lines \in SUBSET CodeLines,
         NEW given \in SUBSET (Sources \X CodeLines)
  PROVE  Cover!Tuids(s, lines, given) \subseteq {s.file} \X lines
BY DEF Cover!Tuids

LEMMA AnnotatedIs ==
  ASSUME NEW i \in DOMAIN batch, batch[i] \in FileLines,
         NEW given \in SUBSET (Sources \X CodeLines), NEW lists
  PROVE  LET t == Cover!Annotated(i, given, lists)
         IN  /\ t \in FileRecords
             /\ Cover!Of(t.file, t.covered, t.uncovered) = batch[i]
<1> DEFINE s == batch[i]
           t == Cover!Annotated(i, given, lists)
           tc == IF lists >= 2 * i - 1 THEN Cover!Tuids(s, s.covered, given) ELSE {}
           tu == IF lists >= 2 * i THEN Cover!Tuids(s, s.uncovered, given) ELSE {}
<1>1. /\ s.file \in Sources /\ s.covered \in SUBSET CodeLines /\ s.uncovered \in SUBSET CodeLines
      /\ s = Cover!Of(s.file, s.covered, s.uncovered)
  BY DEF FileLines, Cover!Of
<1>2. /\ Cover!Tuids(s, s.covered, given) \subseteq {s.file} \X s.covered
      /\ Cover!Tuids(s, s.uncovered, given) \subseteq {s.file} \X s.uncovered
  BY <1>1, TuidsAreOwn
<1>3. t = [file |-> s.file, covered |-> s.covered, uncovered |-> s.uncovered,
           tuid_covered |-> tc, tuid_uncovered |-> tu]
  BY DEF Cover!Annotated
<1>4. /\ tc \subseteq {s.file} \X s.covered /\ tc \in SUBSET (Sources \X CodeLines)
      /\ tu \subseteq {s.file} \X s.uncovered /\ tu \in SUBSET (Sources \X CodeLines)
  <2>1. tc \subseteq {s.file} \X s.covered /\ tu \subseteq {s.file} \X s.uncovered
    BY <1>2
  <2>2. /\ {s.file} \X s.covered \subseteq Sources \X CodeLines
        /\ {s.file} \X s.uncovered \subseteq Sources \X CodeLines
    BY <1>1
  <2> HIDE DEF tc, tu
  <2> QED
    BY <2>1, <2>2
<1> HIDE DEF s, t, tc, tu
<1>5. t \in FileRecords /\ Cover!Of(t.file, t.covered, t.uncovered) = s
  BY <1>1, <1>3, <1>4 DEF FileRecords, Cover!OwnTuids
<1> QED
  BY <1>5 DEF s, t

LEMMA FlushKeeps ==
  ASSUME CoverShape, NEW given \in SUBSET (Cover!Wanted \X CodeLines), NEW lists,
         Cover!Flush(given, lists), BatchLimit \in Nat \ {0}
  PROVE  batch' \in Seq(FileLines) /\ output' \in Seq(FileRecords) /\ MadeRows' = MadeRows
<1> DEFINE n == IF Len(batch) < BatchLimit THEN Len(batch) ELSE BatchLimit
           new == [i \in 1 .. n |-> Cover!Annotated(i, given, lists)]
           m == Len(output)
<1>1. /\ batch \in Seq(FileLines) /\ output \in Seq(FileRecords)
      /\ Len(batch) \in Nat /\ n \in 0 .. Len(batch) /\ n \in Nat /\ m \in Nat
  BY DEF CoverShape
<1>2. output' = output \o new /\ batch' = SubSeq(batch, n + 1, Len(batch))
  BY DEF Cover!Flush
<1>3. \A i \in 1 .. n : batch[i] \in FileLines
  BY <1>1
<1>4. \A i \in 1 .. n : /\ Cover!Annotated(i, given, lists) \in FileRecords
                       /\ Cover!Of(Cover!Annotated(i, given, lists).file,
                                   Cover!Annotated(i, given, lists).covered,
                                   Cover!Annotated(i, given, lists).uncovered) = batch[i]
  <2>1. given \in SUBSET (Sources \X CodeLines)
    <3>1. \A s \in Cover!ToSet(batch) : s.file \in Sources
      <4>1. \A i \in DOMAIN batch : batch[i] \in FileLines
        BY <1>1
      <4> QED
        BY <4>1 DEF FileLines, Cover!ToSet
    <3>2. Cover!Wanted \subseteq Sources
      BY <3>1 DEF Cover!Wanted
    <3> QED
      BY <3>2
  <2>2. \A i \in 1 .. n : i \in DOMAIN batch
    BY <1>1
  <2> QED
    BY <1>3, <2>1, <2>2, AnnotatedIs
<1>5. new \in [1 .. n -> FileRecords]
  BY <1>3, <1>4
<1>6. new \in Seq(FileRecords) /\ Len(new) = n
  BY <1>1, <1>5
<1>7. \A i \in 1 .. n : Cover!Of(new[i].file, new[i].covered, new[i].uncovered) = batch[i]
  BY <1>3, <1>4
<1> HIDE DEF n, new
<1>8. batch' \in Seq(FileLines) /\ Len(batch') = Len(batch) - n
  BY <1>1, <1>2
<1>9. \A i \in 1 .. Len(batch) - n : batch'[i] = batch[n + i]
  BY <1>1, <1>2
<1>10. output' \in Seq(FileRecords) /\ Len(output') = m + n
  <2>1. output \o new \in Seq(FileRecords)
    BY <1>1, <1>6
  <2>2. Len(output \o new) = m + n
    BY <1>1, <1>6
  <2> QED BY <2>1, <2>2, <1>2
<1>11. /\ \A i \in 1 .. m : output'[i] = output[i]
       /\ \A i \in m + 1 .. m + n : output'[i] = new[i - m]
  <2>1. \A i \in 1 .. m : (output \o new)[i] = output[i]
    BY <1>1, <1>6
  <2>2. \A i \in m + 1 .. m + n : (output \o new)[i] = new[i - m]
    BY <1>1, <1>6
  <2> QED BY <2>1, <2>2, <1>2
<1> DEFINE P == Cover!Plain(output)
           Q == Cover!Plain(output')
<1>12. /\ P \in Seq(FileLines) /\ Len(P) = m
       /\ \A i \in 1 .. m : P[i] = Cover!Of(output[i].file, output[i].covered, output[i].uncovered)
  BY <1>1, PlainIsLines
<1>13. /\ Q \in Seq(FileLines) /\ Len(Q) = m + n
       /\ \A i \in 1 .. m + n :
            Q[i] = Cover!Of(output'[i].file, output'[i].covered, output'[i].uncovered)
  BY <1>10, PlainIsLines
<1>14. Cover!Plain(output)' = Q
  BY DEF Cover!Plain, Cover!Of
<1> HIDE DEF P, Q, m
<1>15. \A i \in 1 .. m : Q[i] = P[i]
  BY <1>1, <1>11, <1>12, <1>13
<1>16. \A i \in m + 1 .. m + n : Q[i] = batch[i - m]
  <2> SUFFICES ASSUME NEW i \in m + 1 .. m + n PROVE Q[i] = batch[i - m]
    OBVIOUS
  <2>1. i \in 1 .. m + n /\ i - m \in 1 .. n
    BY <1>1
  <2>2. output'[i] = new[i - m]
    BY <1>11
  <2> QED BY <2>1, <2>2, <1>7, <1>13
<1>17. Q \o batch' = P \o batch
  <2>1. Q \o batch' \in Seq(FileLines) /\ Len(Q \o batch') = m + Len(batch)
    <3>1. Q \o batch' \in Seq(FileLines)
      BY <1>8, <1>13
    <3>2. Len(Q \o batch') = (m + n) + (Len(batch) - n)
      <4>1. Len(Q \o batch') = Len(Q) + Len(batch')
        BY <1>8, <1>13, ConcatProperties
      <4> QED
        BY <4>1, <1>8, <1>13
    <3>3. Len(batch) \in Int /\ m \in Int /\ n \in Int
      BY <1>1
    <3>4. (m + n) + (Len(batch) - n) = m + Len(batch)
      BY <3>3
    <3> QED BY <3>1, <3>2, <3>4
  <2>2. P \o batch \in Seq(FileLines) /\ Len(P \o batch) = m + Len(batch)
    BY <1>1, <1>12
  <2>3. \A i \in 1 .. m + Len(batch) : (Q \o batch')[i] = (P \o batch)[i]
    <3> SUFFICES ASSUME NEW i \in 1 .. m + Len(batch) PROVE (Q \o batch')[i] = (P \o batch)[i]
      OBVIOUS
    <3>1. CASE i <= m
      <4>1. i \in 1 .. m /\ i \in 1 .. m + n
        BY <1>1, <3>1
      <4>2. (Q \o batch')[i] = Q[i]
        BY <4>1, <1>8, <1>13
      <4>3. (P \o batch)[i] = P[i]
        BY <4>1, <1>1, <1>12
      <4> QED BY <4>1, <4>2, <4>3, <1>15
    <3>2. CASE i > m /\ i <= m + n
      <4>1. i \in m + 1 .. m + n /\ i \in 1 .. m + n
        BY <1>1, <3>2
      <4>2. (Q \o batch')[i] = Q[i]
        BY <4>1, <1>8, <1>13
      <4>3. (P \o batch)[i] = batch[i - m]
        BY <3>2, <1>1, <1>12
      <4> QED BY <4>1, <4>2, <4>3, <1>16
    <3>3. CASE i > m + n
      <4>1. i - (m + n) \in 1 .. Len(batch) - n /\ n + (i - (m + n)) = i - m
        BY <3>3, <1>1
      <4>2. (Q \o batch')[i] = batch'[i - (m + n)]
        <5>1. i \in 1 .. Len(Q) + Len(batch') /\ ~(i <= Len(Q)) /\ Len(Q) = m + n
          BY <3>3, <1>1, <1>8, <1>13
        <5>2. Q \in Seq(FileLines) /\ batch' \in Seq(FileLines)
          BY <1>8, <1>13
        <5> QED BY <5>1, <5>2, ConcatProperties
      <4>3. (P \o batch)[i] = batch[i - m]
        BY <3>3, <1>1, <1>12
      <4> QED BY <4>1, <4>2, <4>3, <1>9
    <3>4. i \in Int /\ m \in Int /\ m + n \in Int
      BY <1>1
    <3>5. i <= m \/ (i > m /\ i <= m + n) \/ i > m + n
      BY <3>4
    <3> QED BY <3>1, <3>2, <3>3, <3>5
  <2> QED BY <2>1, <2>2, <2>3
<1>18. MadeRows' = MadeRows
  BY <1>14, <1>17 DEF MadeRows, P
<1> QED
  BY <1>8, <1>10, <1>18

(* Files of an lcov artifact.                                              *)
LEMMA LcovKeeps ==
  ASSUME CoverInv, NEW R, R = FileLines, artifact \in Cover!Lcov, artifact' = artifact,
         reading' = reading, output' = output, cut' = cut, reading = "open",
         batch' = batch, NEW s \in FileLines, current' = {s}, NEW parts \in Seq(FileLines),
         input' = Append(parts, s), parts = Complete
  PROVE  CoverInv'
<1>1. input' \in Seq(FileLines) /\ input' # << >>
      /\ Cover!Front(input') = parts /\ Cover!Last(input') = s
  BY FrontOfAppend
<1>2. Complete' = parts
  <2>1. Complete' = IF current' = {} THEN input' ELSE Cover!Front(input')
    BY DEF Complete, Cover!Front
  <2> QED BY <1>1, <2>1
<1>3. MadeRows' = MadeRows
  BY DEF MadeRows, Cover!Plain, Cover!Of
<1>4. artifact # "jsdcov"
  BY DEF Cover!Lcov
<1>5. CoverShape'
  BY <1>1 DEF CoverInv, CoverShape
<1>6. CurrentInv'
  <2>1. Cover!Last(input)' = s
    BY <1>1 DEF Cover!Last
  <2> QED BY <1>1, <2>1 DEF CurrentInv, Cover!Lcov
<1>7. OrderInv'
  <2>1. KeptPlaces(Complete)' = KeptPlaces(Complete)
    BY <1>2 DEF KeptPlaces, Cover!Kept
  <2>2. ~cut => Cover!AreThose(MadeRows, Complete, KeptPlaces(Complete))
    BY <1>4 DEF CoverInv, OrderInv
  <2>3. Complete' = Complete
    BY <1>2
  <2>4. (~cut => Cover!AreThose(MadeRows, Complete, KeptPlaces(Complete)))'
    BY <1>3, <2>1, <2>2, <2>3 DEF Cover!AreThose
  <2> QED BY <2>4 DEF OrderInv
<1>8. AggregateInv'
  BY <1>4 DEF AggregateInv
<1> QED
  BY <1>5, <1>6, <1>7, <1>8 DEF CoverInv

LEMMA SourceFileKeeps ==
  ASSUME CoverInv, NEW file \in Sources, Cover!SourceFile(file) PROVE CoverInv'
<1> DEFINE s == Cover!Of(file, {}, {})
<1>1. s \in FileLines
  BY DEF FileLines, Cover!Of
<1>2. /\ artifact \in Cover!Lcov /\ artifact' = artifact /\ reading' = reading
      /\ output' = output /\ cut' = cut /\ reading = "open" /\ batch' = batch
      /\ current' = {s}
      /\ input' = IF current = {} THEN Append(input, s) ELSE Append(Cover!Front(input), s)
  BY DEF Cover!SourceFile, Cover!LcovLine, Cover!Consume
<1> HIDE DEF s
<1>3. Complete \in Seq(FileLines) /\ input' = Append(Complete, s)
  <2>1. input \in Seq(FileLines)
    BY DEF CoverInv, CoverShape
  <2>2. CASE current = {}
    BY <1>2, <2>1, <2>2 DEF Complete
  <2>3. CASE current # {}
    <3>1. input # << >>
      BY <1>2, <2>3 DEF CoverInv, CurrentInv
    <3> QED BY <1>2, <2>1, <2>3, <3>1, LastFile DEF Complete
  <2> QED BY <2>2, <2>3
<1> QED
  BY <1>1, <1>2, <1>3, LcovKeeps

LEMMA LineDataKeeps ==
  ASSUME CoverInv, NEW ln \in CodeLines, NEW hit \in BOOLEAN, Cover!LineData(ln, hit)
  PROVE  CoverInv'
<1> DEFINE t == Cover!Last(input)
           s == Cover!With(t, ln, hit)
<1>1. /\ artifact \in Cover!Lcov /\ artifact' = artifact /\ reading' = reading
      /\ output' = output /\ cut' = cut /\ reading = "open" /\ batch' = batch
      /\ current # {} /\ current' = {Cover!With(u, ln, hit) : u \in current}
      /\ input' = Append(Cover!Front(input), s)
  BY DEF Cover!LineData, Cover!LcovLine, Cover!Consume
<1>2. input \in Seq(FileLines) /\ input # << >> /\ current = {t}
  BY <1>1 DEF CoverInv, CoverShape, CurrentInv
<1>3. t \in FileLines /\ Cover!Front(input) \in Seq(FileLines)
  BY <1>2, LastFile
<1> HIDE DEF t
<1>4. s \in FileLines
  <2>1. \A u \in FileLines : Cover!With(u, ln, hit) \in FileLines
    BY DEF FileLines, Cover!With
  <2> QED BY <1>3, <2>1
<1>5. current' = {s}
  BY <1>1, <1>2
<1> HIDE DEF s
<1>6. Complete = Cover!Front(input)
  BY <1>1 DEF Complete
<1> QED
  BY <1>1, <1>3, <1>4, <1>5, <1>6, LcovKeeps

(* A step that changes nothing of what was read and what was made.         *)
LEMMA SameFiles ==
  ASSUME CoverInv, artifact' = artifact, input' = input, output' = output, batch' = batch,
         current' = current, cut' = cut, reading' = reading
  PROVE  CoverInv'
<1>1. MadeRows' = MadeRows /\ Complete' = Complete
  BY DEF MadeRows, Complete, Cover!Plain, Cover!Of, Cover!Front
<1>2. KeptPlaces(Complete)' = KeptPlaces(Complete)
  BY <1>1 DEF KeptPlaces, Cover!Kept
<1>3. OrderInv'
  BY <1>1, <1>2 DEF CoverInv, OrderInv, Cover!AreThose
<1>4. Gathered' = Gathered /\ Aggregated' = Aggregated
  BY DEF Gathered, Aggregated, Named, Cover!Of, Cover!All
<1>5. AggregateInv'
  BY <1>1, <1>4 DEF CoverInv, AggregateInv, Cover!ToSet, Cover!IsInjective
<1>6. CoverShape' /\ CurrentInv'
  BY DEF CoverInv, CoverShape, CurrentInv, Cover!Last
<1> QED
  BY <1>3, <1>5, <1>6 DEF CoverInv

LEMMA EndOfRecordKeeps ==
  ASSUME CoverInv, Cover!EndOfRecord PROVE CoverInv'
<1> DEFINE s == Cover!Last(input)
           parts == Cover!Front(input)
<1>1. /\ artifact \in Cover!Lcov /\ artifact' = artifact /\ reading' = reading
      /\ output' = output /\ cut' = cut /\ reading = "open" /\ input' = input
      /\ current # {} /\ current' = {}
      /\ batch' = batch \o Cover!SetToSeq({t \in current : Cover!Fits(t)})
  BY DEF Cover!EndOfRecord, Cover!LcovLine, Cover!Consume
<1>2. input \in Seq(FileLines) /\ input # << >> /\ current = {s}
  BY <1>1 DEF CoverInv, CoverShape, CurrentInv
<1>3. s \in FileLines /\ parts \in Seq(FileLines) /\ input = Append(parts, s)
  BY <1>2, LastFile
<1>4. Complete = parts /\ Complete' = input
  BY <1>1 DEF Complete
<1> HIDE DEF s, parts
<1>5. artifact # "jsdcov"
  BY <1>1 DEF Cover!Lcov
<1>6. Cover!Kept(s) <=> Cover!Fits(s)
  BY <1>1 DEF Cover!Kept
<1>7. /\ batch \in Seq(FileLines) /\ Cover!Plain(output) \in Seq(FileLines)
      /\ MadeRows \in Seq(FileLines)
  <2>1. batch \in Seq(FileLines) /\ Cover!Plain(output) \in Seq(FileLines)
    BY PlainIsLines DEF CoverInv, CoverShape
  <2> QED BY <2>1 DEF MadeRows
<1>8. Cover!Plain(output)' = Cover!Plain(output)
  BY <1>1 DEF Cover!Plain, Cover!Of
<1>9. KeptPlaces(Complete)' = KeptPlaces(input)
  BY <1>1, <1>4 DEF KeptPlaces, Cover!Kept
<1>10. ~cut => Cover!AreThose(MadeRows, parts, KeptPlaces(parts))
  BY <1>1, <1>4, <1>5 DEF CoverInv, OrderInv
<1>11. batch' \in Seq(FileLines) /\ (~cut => Cover!AreThose(MadeRows', input, KeptPlaces(input)))
  <2>1. CASE Cover!Fits(s)
    <3>1. {t \in current : Cover!Fits(t)} = {s}
      BY <1>2, <2>1
    <3>2. batch' = batch \o <<s>>
      BY <1>1, <3>1, SequenceOfOne
    <3>3. batch' = Append(batch, s)
      BY <1>3, <1>7, <3>2
    <3>4. MadeRows' = Append(MadeRows, s)
      BY <1>3, <1>7, <1>8, <3>3 DEF MadeRows
    <3>5. KeptPlaces(input) = KeptPlaces(parts) \cup {Len(parts) + 1}
      BY <1>3, <1>6, <2>1, PlacesKept
    <3>6. ~cut => Cover!AreThose(Append(MadeRows, s), Append(parts, s), KeptPlaces(parts) \cup {Len(parts) + 1})
      BY <1>3, <1>7, <1>10, OneMore
    <3> QED
      BY <1>3, <1>7, <3>3, <3>4, <3>5, <3>6
  <2>2. CASE ~Cover!Fits(s)
    <3>1. {t \in current : Cover!Fits(t)} = {}
      BY <1>2, <2>2
    <3>2. batch' = batch
      <4>1. batch \o << >> = batch
        BY <1>7
      <4>2. batch' = batch \o << >>
        BY <1>1, <3>1, SequenceOfNone
      <4> QED BY <4>1, <4>2
    <3>3. MadeRows' = MadeRows
      BY <1>8, <3>2 DEF MadeRows
    <3>4. KeptPlaces(input) = KeptPlaces(parts)
      BY <1>3, <1>6, <2>2, PlacesKept
    <3>5. ~cut => Cover!AreThose(MadeRows, Append(parts, s), KeptPlaces(parts))
      BY <1>3, <1>7, <1>10, OneMore
    <3> QED
      BY <1>3, <1>7, <3>2, <3>3, <3>4, <3>5
  <2> QED BY <2>1, <2>2
<1>12. CoverShape'
  BY <1>1, <1>11 DEF CoverInv, CoverShape
<1>13. CurrentInv'
  BY <1>1 DEF CurrentInv
<1>14. OrderInv'
  <2>1. Complete' = input
    BY <1>4
  <2>2. (~cut => Cover!AreThose(MadeRows, Complete, KeptPlaces(Complete)))'
    BY <1>1, <1>9, <1>11, <2>1 DEF Cover!AreThose
  <2> QED BY <2>2 DEF OrderInv
<1>15. AggregateInv'
  BY <1>1, <1>5 DEF AggregateInv
<1> QED
  BY <1>12, <1>13, <1>14, <1>15 DEF CoverInv

LEMMA PerTestFileKeeps ==
  ASSUME CoverInv, Cover!CoverageAssumption, NEW s \in FileLines, Cover!PerTestFile(s)
  PROVE  CoverInv'
<1>1. /\ artifact = "per-test" /\ artifact' = artifact /\ reading' = reading
      /\ output' = output /\ cut' = cut /\ reading = "open" /\ current' = current
      /\ input' = Append(input, s)
      /\ batch' = IF Cardinality(s.covered \cup s.uncovered) > LineLimit THEN batch
                  ELSE Append(batch, s)
  BY DEF Cover!PerTestFile, Cover!Consume, Cover!Cardinality, Cardinality
<1>2. artifact \notin Cover!Lcov
  BY <1>1 DEF Cover!Lcov
<1>3. current = {}
  BY <1>1, <1>2 DEF CoverInv, CurrentInv
<1>4. /\ batch \in Seq(FileLines) /\ Cover!Plain(output) \in Seq(FileLines)
      /\ MadeRows \in Seq(FileLines) /\ input \in Seq(FileLines)
  <2>1. /\ batch \in Seq(FileLines) /\ Cover!Plain(output) \in Seq(FileLines)
        /\ input \in Seq(FileLines)
    BY PlainIsLines DEF CoverInv, CoverShape
  <2> QED BY <2>1 DEF MadeRows
<1>5. Complete = input /\ Complete' = input'
  BY <1>1, <1>3 DEF Complete
<1>6. Cover!Plain(output)' = Cover!Plain(output)
  BY <1>1 DEF Cover!Plain, Cover!Of
<1>7. KeptPlaces(Complete)' = KeptPlaces(input')
  BY <1>1, <1>5 DEF KeptPlaces, Cover!Kept
<1>8. Cover!Kept(s) <=> Cardinality(s.covered \cup s.uncovered) <= LineLimit
  BY <1>2 DEF Cover!Kept, Cover!Cardinality, Cardinality
<1>9. ~cut => Cover!AreThose(MadeRows, input, KeptPlaces(input))
  BY <1>1, <1>5 DEF CoverInv, OrderInv
<1>10. ~Cover!Kept(s) <=> Cardinality(s.covered \cup s.uncovered) > LineLimit
  <2>1. IsFiniteSet(CodeLines) /\ LineLimit \in Nat
    BY DEF Cover!CoverageAssumption, Cover!IsFiniteSet, IsFiniteSet
  <2>2. s.covered \cup s.uncovered \subseteq CodeLines
    BY DEF FileLines
  <2>3. Cardinality(s.covered \cup s.uncovered) \in Nat
    BY <2>1, <2>2, FS_Subset, FS_CardinalityType
  <2> QED BY <1>8, <2>1, <2>3
<1>11. batch' \in Seq(FileLines) /\ (~cut => Cover!AreThose(MadeRows', input', KeptPlaces(input')))
  <2>1. CASE Cover!Kept(s) /\ batch' = Append(batch, s)
    <3>1. MadeRows' = Append(MadeRows, s)
      BY <1>4, <1>6, <2>1 DEF MadeRows
    <3>2. KeptPlaces(input') = KeptPlaces(input) \cup {Len(input) + 1}
      BY <1>1, <1>4, <2>1, PlacesKept
    <3>3. ~cut => Cover!AreThose(Append(MadeRows, s), Append(input, s), KeptPlaces(input) \cup {Len(input) + 1})
      BY <1>4, <1>9, OneMore
    <3> QED BY <1>1, <1>4, <2>1, <3>1, <3>2, <3>3
  <2>2. CASE ~Cover!Kept(s) /\ batch' = batch
    <3>1. MadeRows' = MadeRows
      BY <1>6, <2>2 DEF MadeRows
    <3>2. KeptPlaces(input') = KeptPlaces(input)
      BY <1>1, <1>4, <2>2, PlacesKept
    <3>3. ~cut => Cover!AreThose(MadeRows, Append(input, s), KeptPlaces(input))
      BY <1>4, <1>9, OneMore
    <3> QED BY <1>1, <1>4, <2>2, <3>1, <3>2, <3>3
  <2>3. (Cover!Kept(s) /\ batch' = Append(batch, s)) \/ (~Cover!Kept(s) /\ batch' = batch)
    BY <1>1, <1>8, <1>10
  <2> QED BY <2>1, <2>2, <2>3
<1>12. CoverShape'
  BY <1>1, <1>3, <1>4, <1>11 DEF CoverInv, CoverShape
<1>13. CurrentInv'
  BY <1>1, <1>2, <1>3 DEF CurrentInv, Cover!Lcov
<1>14. OrderInv'
  <2>1. (~cut => Cover!AreThose(MadeRows, Complete, KeptPlaces(Complete)))'
    BY <1>1, <1>5, <1>7, <1>11 DEF Cover!AreThose
  <2> QED BY <2>1 DEF OrderInv
<1>15. AggregateInv'
  BY <1>1 DEF AggregateInv
<1> QED
  BY <1>12, <1>13, <1>14, <1>15 DEF CoverInv

(* The lines of a source file, with one more object of it.                 *)
LEMMA AllGrows ==
  ASSUME input \in Seq(FileLines), NEW s \in FileLines, input' = Append(input, s)
  PROVE  /\ Named' = Named \cup {s.file}
         /\ \A f, field : f # s.file => Cover!All(f, field)' = Cover!All(f, field)
         /\ \A field : Cover!All(s.file, field)' = Cover!All(s.file, field) \cup s[field]
<1> DEFINE n == Len(input)
<1>1. n \in Nat /\ DOMAIN input = 1 .. n /\ DOMAIN (input') = 1 .. n + 1
  OBVIOUS
<1>2. (\A i \in 1 .. n : input'[i] = input[i]) /\ input'[n + 1] = s
  OBVIOUS
<1> HIDE DEF n
<1>3. n + 1 \in 1 .. n + 1 /\ \A i \in 1 .. n + 1 : i \in 1 .. n \/ i = n + 1
  BY <1>1
<1>4. \A i \in 1 .. n : i \in 1 .. n + 1
  BY <1>1
<1>5. Named' = {input'[i].file : i \in 1 .. n + 1} /\ Named = {input[i].file : i \in 1 .. n}
  BY <1>1 DEF Named
<1>6. Named' = Named \cup {s.file}
  BY <1>2, <1>3, <1>4, <1>5
<1>7. \A f, field :
        /\ Cover!All(f, field)' = UNION {input'[i][field] : i \in {j \in 1 .. n + 1 : input'[j].file = f}}
        /\ Cover!All(f, field) = UNION {input[i][field] : i \in {j \in 1 .. n : input[j].file = f}}
  BY <1>1 DEF Cover!All
<1>8. ASSUME NEW f, NEW field, f # s.file PROVE Cover!All(f, field)' = Cover!All(f, field)
  <2>1. {j \in 1 .. n + 1 : input'[j].file = f} = {j \in 1 .. n : input[j].file = f}
    BY <1>2, <1>3, <1>4, <1>8
  <2>2. \A i \in {j \in 1 .. n : input[j].file = f} : input'[i][field] = input[i][field]
    BY <1>2
  <2> DEFINE J == {j \in 1 .. n : input[j].file = f}
  <2>3. {input'[i][field] : i \in J} = {input[i][field] : i \in J}
    BY <2>2
  <2>4. {input'[i][field] : i \in {j \in 1 .. n + 1 : input'[j].file = f}} = {input'[i][field] : i \in J}
    BY <2>1
  <2> HIDE DEF J
  <2>5. {input[i][field] : i \in {j \in 1 .. n : input[j].file = f}} = {input[i][field] : i \in J}
    BY DEF J
  <2> QED BY <1>7, <2>3, <2>4, <2>5
<1>9. ASSUME NEW field
      PROVE  Cover!All(s.file, field)' = Cover!All(s.file, field) \cup s[field]
  <2> DEFINE J == {j \in 1 .. n : input[j].file = s.file}
  <2>1. {j \in 1 .. n + 1 : input'[j].file = s.file} = J \cup {n + 1}
    BY <1>2, <1>3, <1>4
  <2>2. \A i \in J : input'[i][field] = input[i][field]
    BY <1>2
  <2>3. Cover!All(s.file, field) = UNION {input[i][field] : i \in J}
    BY <1>7
  <2>4. Cover!All(s.file, field)' = UNION {input'[i][field] : i \in J \cup {n + 1}}
    BY <1>7, <2>1
  <2> HIDE DEF J
  <2>5. UNION {input'[i][field] : i \in J \cup {n + 1}} =
          (UNION {input[i][field] : i \in J}) \cup s[field]
    BY <1>2, <2>2
  <2> QED BY <2>3, <2>4, <2>5
<1> QED
  BY <1>6, <1>8, <1>9

LEMMA AllOfNone ==
  ASSUME NEW f, NEW field, f \notin Named PROVE Cover!All(f, field) = {}
BY DEF Cover!All, Named

LEMMA AllAreLines ==
  ASSUME input \in Seq(FileLines)
  PROVE  /\ Named \subseteq Sources
         /\ \A f : Cover!All(f, "covered") \subseteq CodeLines /\ Cover!All(f, "uncovered") \subseteq CodeLines
<1>1. \A i \in DOMAIN input : input[i] \in FileLines
  OBVIOUS
<1>2. \A i \in DOMAIN input : /\ input[i].file \in Sources
                              /\ input[i].covered \subseteq CodeLines
                              /\ input[i].uncovered \subseteq CodeLines
  BY <1>1 DEF FileLines
<1> QED
  BY <1>2 DEF Named, Cover!All

LEMMA JsdcovObjectKeeps ==
  ASSUME CoverInv, NEW s \in FileLines, Cover!JsdcovObject(s) PROVE CoverInv'
<1> DEFINE same == {t \in current : t.file = s.file}
           cover == UNION {t.covered : t \in same \cup {s}}
           uncover == UNION {t.uncovered : t \in same \cup {s}}
<1>1. /\ artifact = "jsdcov" /\ artifact' = artifact /\ reading' = reading
      /\ output' = output /\ cut' = cut /\ reading = "open" /\ batch' = batch
      /\ input' = Append(input, s)
  BY DEF Cover!JsdcovObject, Cover!Consume
<1>2. current' = (current \ same) \cup {Cover!Of(s.file, cover, uncover)}
  BY DEF Cover!JsdcovObject
<1>3. output = << >> /\ batch = << >> /\ current = Gathered
  BY <1>1 DEF CoverInv, AggregateInv
<1>4. input \in Seq(FileLines)
  BY DEF CoverInv, CoverShape
<1>5. \A t \in current : /\ t.file \in Named
                         /\ t = Cover!Of(t.file, Cover!All(t.file, "covered"), Cover!All(t.file, "uncovered"))
                         /\ t.covered = Cover!All(t.file, "covered")
                         /\ t.uncovered = Cover!All(t.file, "uncovered")
  BY <1>3 DEF Gathered, Cover!Of
<1>6. s.file \in Named =>
        Cover!Of(s.file, Cover!All(s.file, "covered"), Cover!All(s.file, "uncovered")) \in same
  BY <1>3 DEF Gathered, Cover!Of
<1>7. cover = Cover!All(s.file, "covered") \cup s.covered
  <2>1. \A t \in same : t.covered = Cover!All(s.file, "covered")
    BY <1>5
  <2>2. CASE s.file \in Named
    <3>1. PICK t \in same : TRUE
      BY <1>6, <2>2
    <3> HIDE DEF same
    <3> QED BY <2>1, <3>1
  <2>3. CASE s.file \notin Named
    <3>1. Cover!All(s.file, "covered") = {}
      BY <2>3, AllOfNone
    <3>2. same = {}
      BY <1>5, <2>3
    <3> HIDE DEF same
    <3> QED BY <3>1, <3>2
  <2> QED BY <2>2, <2>3
<1>8. uncover = Cover!All(s.file, "uncovered") \cup s.uncovered
  <2>1. \A t \in same : t.uncovered = Cover!All(s.file, "uncovered")
    BY <1>5
  <2>2. CASE s.file \in Named
    <3>1. PICK t \in same : TRUE
      BY <1>6, <2>2
    <3> HIDE DEF same
    <3> QED BY <2>1, <3>1
  <2>3. CASE s.file \notin Named
    <3>1. Cover!All(s.file, "uncovered") = {}
      BY <2>3, AllOfNone
    <3>2. same = {}
      BY <1>5, <2>3
    <3> HIDE DEF same
    <3> QED BY <3>1, <3>2
  <2> QED BY <2>2, <2>3
<1>9. /\ Named' = Named \cup {s.file}
      /\ \A f, field : f # s.file => Cover!All(f, field)' = Cover!All(f, field)
      /\ \A field : Cover!All(s.file, field)' = Cover!All(s.file, field) \cup s[field]
  BY <1>1, <1>4, AllGrows
<1>10. cover = Cover!All(s.file, "covered")' /\ uncover = Cover!All(s.file, "uncovered")'
  BY <1>7, <1>8, <1>9
<1> HIDE DEF cover, uncover
<1> DEFINE new(f) == Cover!Of(f, Cover!All(f, "covered")', Cover!All(f, "uncovered")')
           was(f) == Cover!Of(f, Cover!All(f, "covered"), Cover!All(f, "uncovered"))
<1>11. Gathered' = {new(f) : f \in Named \cup {s.file}}
  <2>1. Gathered' = {new(f) : f \in Named'}
    BY DEF Gathered, Cover!Of
  <2> QED BY <1>9, <2>1
<1>12. \A f \in Named : f # s.file => new(f) = was(f)
  BY <1>9
<1>13. current \ same = {was(f) : f \in Named \ {s.file}}
  <2>1. current = {was(f) : f \in Named}
    BY <1>3 DEF Gathered
  <2>2. \A f : was(f).file = f
    BY DEF Cover!Of
  <2> HIDE DEF was
  <2> QED BY <2>1, <2>2
<1>14. new(s.file) = Cover!Of(s.file, cover, uncover)
  BY <1>10
<1> HIDE DEF new, was, same
<1>15. current' = Gathered'
  BY <1>2, <1>11, <1>12, <1>13, <1>14
<1>16. input' \in Seq(FileLines)
  BY <1>1, <1>4
<1>17. current' \subseteq FileLines
  <2>1. \A f : new(f) = Cover!Of(f, Cover!All(f, "covered")', Cover!All(f, "uncovered")')
    BY DEF new
  <2>2. \A f : Cover!All(f, "covered")' \subseteq CodeLines /\ Cover!All(f, "uncovered")' \subseteq CodeLines
    <3>1. /\ \A f : Cover!All(f, "covered") \subseteq CodeLines
          /\ \A f : Cover!All(f, "uncovered") \subseteq CodeLines
      BY <1>4, AllAreLines
    <3>2. s.covered \subseteq CodeLines /\ s.uncovered \subseteq CodeLines
      BY DEF FileLines
    <3> QED BY <1>9, <3>1, <3>2
  <2>3. Named \cup {s.file} \subseteq Sources
    BY <1>4, AllAreLines DEF FileLines
  <2>4. \A f \in Sources : new(f) \in FileLines
    BY <2>1, <2>2 DEF FileLines, Cover!Of
  <2> QED BY <1>11, <1>15, <2>3, <2>4
<1>18. CoverShape'
  BY <1>1, <1>16, <1>17 DEF CoverInv, CoverShape
<1>19. CurrentInv'
  BY <1>1 DEF CurrentInv, Cover!Lcov
<1>20. OrderInv'
  BY <1>1 DEF OrderInv
<1>21. AggregateInv'
  BY <1>1, <1>3, <1>15 DEF AggregateInv
<1> QED
  BY <1>18, <1>19, <1>20, <1>21 DEF CoverInv

(* The gathered lines of the files, one record for each of them.           *)
LEMMA RecordsOfGathered ==
  ASSUME input \in Seq(FileLines), current = Gathered
  PROVE  /\ {Cover!Aggregate(t) : t \in current} = Aggregated
         /\ Aggregated \subseteq FileLines /\ IsFiniteSet(Aggregated)
<1> DEFINE rec(f) == Cover!Of(f, Cover!All(f, "covered"),
                              Cover!All(f, "uncovered") \ Cover!All(f, "covered"))
           was(f) == Cover!Of(f, Cover!All(f, "covered"), Cover!All(f, "uncovered"))
<1>1. \A f : Cover!Aggregate(was(f)) = rec(f)
  <2>1. ASSUME NEW f, NEW c, NEW u
        PROVE  Cover!Aggregate(Cover!Of(f, c, u)) = Cover!Of(f, c, u \ c)
    <3> DEFINE t == Cover!Of(f, c, u)
    <3>1. t.uncovered = u /\ t.covered = c
      BY DEF Cover!Of
    <3>2. Cover!Aggregate(t) = [t EXCEPT !.uncovered = t.uncovered \ t.covered]
      BY DEF Cover!Aggregate
    <3>3. Cover!Aggregate(t) = [t EXCEPT !.uncovered = u \ c]
      BY <3>1, <3>2
    <3>4. [t EXCEPT !.uncovered = u \ c] = Cover!Of(f, c, u \ c)
      <4>1. \A a, b, d, e : [[file |-> a, covered |-> b, uncovered |-> d] EXCEPT !.uncovered = e]
                             = [file |-> a, covered |-> b, uncovered |-> e]
        OBVIOUS
      <4>2. t = [file |-> f, covered |-> c, uncovered |-> u]
        BY DEF Cover!Of
      <4> HIDE DEF t
      <4> QED BY <4>1, <4>2 DEF Cover!Of
    <3> QED BY <3>3, <3>4
  <2> QED BY <2>1
<1>2. current = {was(f) : f \in Named}
  BY DEF Gathered
<1>3. Aggregated = {rec(f) : f \in Named}
  BY DEF Aggregated
<1>4. Aggregated \subseteq FileLines
  <2>1. /\ Named \subseteq Sources
        /\ \A f : Cover!All(f, "covered") \subseteq CodeLines /\ Cover!All(f, "uncovered") \subseteq CodeLines
    BY AllAreLines
  <2>2. \A f \in Sources : rec(f) \in FileLines
    BY <2>1 DEF FileLines, Cover!Of
  <2> HIDE DEF rec
  <2> QED BY <1>3, <2>1, <2>2
<1> HIDE DEF rec, was
<1>5. {Cover!Aggregate(t) : t \in current} = Aggregated
  BY <1>1, <1>2, <1>3
<1>6. IsFiniteSet(Aggregated)
  <2> DEFINE n == Len(input)
             h == [i \in 1 .. n |-> rec(input[i].file)]
  <2>1. n \in Nat /\ DOMAIN input = 1 .. n
    OBVIOUS
  <2>2. Named = {input[i].file : i \in 1 .. n}
    BY <2>1 DEF Named
  <2>3. Aggregated = {h[i] : i \in 1 .. n}
    BY <1>3, <2>2
  <2>4. h \in Surjection(1 .. n, Aggregated)
    BY <2>3 DEF Surjection
  <2> QED
    BY <2>1, <2>4, FS_Interval, FS_Surjection
<1> QED
  BY <1>4, <1>5, <1>6

LEMMA EndOfArtifactKeeps ==
  ASSUME CoverInv, Cover!EndOfArtifact PROVE CoverInv'
<1>1. /\ artifact' = artifact /\ reading = "open" /\ reading' = "end"
      /\ output' = output /\ cut' = cut /\ current' = {}
      /\ input' = IF artifact \in Cover!Lcov /\ current # {} THEN Cover!Front(input) ELSE input
      /\ batch' = IF artifact = "jsdcov"
                  THEN Cover!SetToSeq({Cover!Aggregate(t) : t \in current}) ELSE batch
  BY DEF Cover!EndOfArtifact
<1>2. input \in Seq(FileLines) /\ batch \in Seq(FileLines) /\ output \in Seq(FileRecords)
  BY DEF CoverInv, CoverShape
<1>3. CurrentInv'
  BY <1>1 DEF CurrentInv
<1>4. CASE artifact = "jsdcov"
  <2>1. output = << >> /\ current = Gathered
    BY <1>1, <1>4 DEF CoverInv, AggregateInv
  <2>2. input' = input
    BY <1>1, <1>4 DEF Cover!Lcov
  <2>3. /\ {Cover!Aggregate(t) : t \in current} = Aggregated
        /\ Aggregated \subseteq FileLines /\ IsFiniteSet(Aggregated)
    BY <1>2, <2>1, RecordsOfGathered
  <2>4. batch' = Cover!SetToSeq(Aggregated)
    BY <1>1, <1>4, <2>3
  <2>5. /\ Cardinality(Aggregated) \in Nat /\ batch' \in [1 .. Cardinality(Aggregated) -> Aggregated]
        /\ Cover!IsInjective(batch') /\ {batch'[i] : i \in DOMAIN (batch')} = Aggregated
    BY <2>3, <2>4, SequenceOfSet
  <2>6. batch' \in Seq(FileLines)
    BY <2>3, <2>5
  <2>7. MadeRows' = batch'
    <3>1. Cover!Plain(output)' = << >>
      BY <1>1, <2>1 DEF Cover!Plain
    <3>2. << >> \o batch' = batch'
      BY <2>6
    <3> QED BY <3>1, <3>2 DEF MadeRows
  <2>8. Aggregated' = Aggregated
    BY <2>2 DEF Aggregated, Named, Cover!Of, Cover!All
  <2>9. CoverShape'
    BY <1>1, <1>2, <2>2, <2>6 DEF CoverShape
  <2>10. AggregateInv'
    <3>1. Cover!ToSet(MadeRows)' = Aggregated
      BY <2>5, <2>7 DEF Cover!ToSet
    <3>2. Cover!IsInjective(MadeRows)'
      BY <2>5, <2>7 DEF Cover!IsInjective
    <3> QED BY <1>1, <2>8, <3>1, <3>2 DEF AggregateInv
  <2>11. OrderInv'
    BY <1>1, <1>4 DEF OrderInv
  <2> QED BY <1>3, <2>9, <2>10, <2>11 DEF CoverInv
<1>5. CASE artifact # "jsdcov"
  <2>1. batch' = batch
    BY <1>1, <1>5
  <2>2. MadeRows' = MadeRows
    BY <1>1, <2>1 DEF MadeRows, Cover!Plain, Cover!Of
  <2>3. input' = Complete /\ Complete' = Complete /\ Complete \in Seq(FileLines)
    <3>1. Complete' = input'
      BY <1>1 DEF Complete
    <3>2. CASE current = {}
      BY <1>1, <1>2, <3>1, <3>2 DEF Complete
    <3>3. CASE current # {}
      <4>1. artifact \in Cover!Lcov
        BY <1>5, <3>3 DEF CoverInv, CurrentInv
      <4>2. input # << >>
        BY <3>3, <4>1 DEF CoverInv, CurrentInv
      <4> QED BY <1>1, <1>2, <3>1, <3>3, <4>1, <4>2, LastFile DEF Complete
    <3> QED BY <3>2, <3>3
  <2>4. KeptPlaces(Complete)' = KeptPlaces(Complete)
    BY <1>1, <2>3 DEF KeptPlaces, Cover!Kept
  <2>5. OrderInv'
    BY <1>1, <1>5, <2>2, <2>3, <2>4 DEF CoverInv, OrderInv, Cover!AreThose
  <2>6. CoverShape'
    BY <1>1, <1>2, <2>1, <2>3 DEF CoverShape
  <2>7. AggregateInv'
    BY <1>1, <1>5 DEF AggregateInv
  <2> QED BY <1>3, <2>5, <2>6, <2>7 DEF CoverInv
<1> QED
  BY <1>4, <1>5

LEMMA FlushStepKeeps ==
  ASSUME CoverInv, Cover!CoverageAssumption,
         NEW given \in SUBSET (Cover!Wanted \X CodeLines), NEW lists, Cover!Flush(given, lists)
  PROVE  CoverInv'
<1>1. BatchLimit \in Nat \ {0}
  BY DEF Cover!CoverageAssumption
<1>2. /\ artifact' = artifact /\ reading' = reading /\ current' = current
      /\ input' = input /\ cut' = cut /\ Len(batch) > 0
  BY DEF Cover!Flush, Cover!Ready
<1>3. batch' \in Seq(FileLines) /\ output' \in Seq(FileRecords) /\ MadeRows' = MadeRows
  BY <1>1, FlushKeeps DEF CoverInv
<1>4. reading # "written" /\ ~(artifact = "jsdcov" /\ reading \in {"header", "open"})
  <2>1. batch # << >>
    BY <1>2
  <2> QED BY <2>1 DEF CoverInv, CurrentInv, AggregateInv
<1>5. Complete' = Complete
  BY <1>2 DEF Complete, Cover!Front
<1>6. KeptPlaces(Complete)' = KeptPlaces(Complete)
  BY <1>2, <1>5 DEF KeptPlaces, Cover!Kept
<1>7. Aggregated' = Aggregated
  BY <1>2 DEF Aggregated, Named, Cover!Of, Cover!All
<1>8. CoverShape'
  BY <1>2, <1>3 DEF CoverInv, CoverShape
<1>9. CurrentInv'
  BY <1>2, <1>4 DEF CoverInv, CurrentInv, Cover!Last
<1>10. OrderInv'
  BY <1>2, <1>3, <1>5, <1>6 DEF CoverInv, OrderInv, Cover!AreThose
<1>11. AggregateInv'
  <2>1. CASE artifact = "jsdcov" /\ reading \in {"end", "written"}
    <3>1. Cover!ToSet(MadeRows) = Aggregated /\ Cover!IsInjective(MadeRows)
      BY <2>1 DEF CoverInv, AggregateInv
    <3>2. Cover!ToSet(MadeRows)' = Aggregated' /\ Cover!IsInjective(MadeRows)'
      BY <3>1, <1>3, <1>7 DEF Cover!ToSet, Cover!IsInjective
    <3> QED BY <1>2, <1>4, <3>2 DEF AggregateInv
  <2>2. CASE ~(artifact = "jsdcov" /\ reading \in {"end", "written"})
    BY <2>2, <1>2, <1>4 DEF AggregateInv
  <2> QED BY <2>1, <2>2
<1> QED
  BY <1>8, <1>9, <1>10, <1>11 DEF CoverInv

LEMMA OpenKeeps ==
  ASSUME NEW kind \in Cover!Lcov \cup {"per-test", "jsdcov"}, Cover!Open(kind)
  PROVE  CoverInv'
<1>1. /\ artifact' = kind /\ reading' = (IF kind = "jsdcov" THEN "header" ELSE "open")
      /\ current' = {} /\ batch' = << >> /\ output' = << >> /\ input' = << >>
  BY DEF Cover!Open
<1>2. CoverShape'
  BY <1>1 DEF CoverShape
<1>3. CurrentInv'
  BY <1>1 DEF CurrentInv
<1>4. MadeRows' = << >>
  BY <1>1 DEF MadeRows, Cover!Plain
<1>5. OrderInv'
  <2>1. Complete' = << >>
    BY <1>1 DEF Complete
  <2>2. KeptPlaces(Complete)' = {}
    BY <2>1 DEF KeptPlaces
  <2>3. Cover!AreThose(<< >>, << >>, {})
    <3>1. << >> \in [DOMAIN << >> -> DOMAIN << >>] /\ {<< >>[k] : k \in DOMAIN << >>} = {}
      OBVIOUS
    <3> QED BY <3>1 DEF Cover!AreThose
  <2>4. Cover!AreThose(MadeRows', Complete', KeptPlaces(Complete)')
    BY <1>4, <2>1, <2>2, <2>3
  <2> QED BY <2>4 DEF OrderInv, Cover!AreThose
<1>6. AggregateInv'
  <2>1. Gathered' = {}
    BY <1>1 DEF Gathered, Named
  <2> QED BY <1>1, <2>1 DEF AggregateInv
<1> QED
  BY <1>2, <1>3, <1>5, <1>6 DEF CoverInv

(* Nothing is written any more, or only part of it.                        *)
LEMMA EndsKeep ==
  ASSUME CoverInv, artifact' = artifact, input' = input, output' = output, batch' = batch,
         \/ Cover!Fail
         \/ Cover!StopShort
         \/ Cover!VersionObject
         \/ Cover!Write
  PROVE  CoverInv'
<1>1. MadeRows' = MadeRows
  BY DEF MadeRows, Cover!Plain, Cover!Of
<1>2. Gathered' = Gathered /\ Aggregated' = Aggregated
  BY DEF Gathered, Aggregated, Named, Cover!Of, Cover!All
<1>3. Cover!Last(input)' = Cover!Last(input)
  BY DEF Cover!Last
<1>4. CASE Cover!Fail
  <2>1. current' = current /\ reading' \in {"given up", "again"}
    BY <1>4 DEF Cover!Fail
  <2> QED BY <2>1, <1>3 DEF CoverInv, CoverShape, CurrentInv, OrderInv, AggregateInv
<1>5. CASE Cover!StopShort
  <2>1. current' = {} /\ cut' = TRUE /\ reading' = "end" /\ artifact # "jsdcov"
    BY <1>5 DEF Cover!StopShort, Cover!Lcov
  <2> QED BY <2>1 DEF CoverInv, CoverShape, CurrentInv, OrderInv, AggregateInv
<1>6. CASE Cover!VersionObject
  <2>1. /\ reading = "header" /\ reading' = "open" /\ current' = current /\ cut' = cut
    BY <1>6 DEF Cover!VersionObject
  <2>2. CASE artifact = "jsdcov"
    BY <2>1, <2>2, <1>2, <1>3 DEF CoverInv, CoverShape, CurrentInv, OrderInv, AggregateInv
  <2>3. artifact = "jsdcov"
    BY <2>1 DEF CoverInv, CurrentInv
  <2> QED BY <2>2, <2>3
<1>7. CASE Cover!Write
  <2>1. /\ reading = "end" /\ reading' = "written" /\ current' = current /\ cut' = cut
        /\ batch = << >>
    BY <1>7 DEF Cover!Write
  <2>2. current = {}
    BY <2>1 DEF CoverInv, CurrentInv
  <2>3. Complete' = Complete
    BY <2>1 DEF Complete, Cover!Front
  <2>4. KeptPlaces(Complete)' = KeptPlaces(Complete)
    BY <2>3 DEF KeptPlaces, Cover!Kept
  <2>5. OrderInv'
    BY <1>1, <2>1, <2>3, <2>4 DEF CoverInv, OrderInv, Cover!AreThose
  <2>6. AggregateInv'
    BY <1>1, <1>2, <2>1 DEF CoverInv, AggregateInv, Cover!ToSet, Cover!IsInjective
  <2> QED BY <2>1, <2>2, <2>5, <2>6 DEF CoverInv, CoverShape, CurrentInv
<1> QED
  BY <1>4, <1>5, <1>6, <1>7

LEMMA CoverStarts == Cover!Init => CoverInv
<1> SUFFICES ASSUME Cover!Init PROVE CoverInv
  OBVIOUS
<1>1. /\ artifact = "none" /\ reading = "idle" /\ current = {} /\ batch = << >>
      /\ output = << >> /\ input = << >>
  BY DEF Cover!Init
<1> QED
  BY <1>1 DEF CoverInv, CoverShape, CurrentInv, OrderInv, AggregateInv

LEMMA CoverKeeps ==
  ASSUME CoverInv, Cover!CoverageAssumption, [Cover!Next]_covVars PROVE CoverInv'
<1>1. CASE UNCHANGED covVars
  BY <1>1, SameFiles DEF covVars
<1>2. ASSUME NEW kind \in Cover!Lcov \cup {"per-test", "jsdcov"}, Cover!Open(kind)
      PROVE  CoverInv'
  BY <1>2, OpenKeeps
<1>3. ASSUME NEW file \in Sources, Cover!SourceFile(file) PROVE CoverInv'
  BY <1>3, SourceFileKeeps
<1>4. ASSUME NEW ln \in CodeLines, NEW hit \in BOOLEAN, Cover!LineData(ln, hit) PROVE CoverInv'
  BY <1>4, LineDataKeeps
<1>5. CASE Cover!OtherCommand \/ Cover!PerTestFileFails
  BY <1>5, SameFiles DEF Cover!OtherCommand, Cover!PerTestFileFails, Cover!LcovLine, Cover!Consume
<1>6. CASE Cover!EndOfRecord
  BY <1>6, EndOfRecordKeeps
<1>7. CASE Cover!Fail \/ Cover!StopShort \/ Cover!VersionObject \/ Cover!Write
  BY <1>7, EndsKeep
     DEF Cover!Fail, Cover!StopShort, Cover!VersionObject, Cover!Write
<1>8. ASSUME NEW s \in Cover!Apart, Cover!PerTestFile(s) \/ Cover!JsdcovObject(s)
      PROVE  CoverInv'
  <2>1. s \in FileLines
    BY DEF Cover!Apart, FileLines
  <2> QED BY <1>8, <2>1, PerTestFileKeeps, JsdcovObjectKeeps
<1>9. CASE Cover!EndOfArtifact
  BY <1>9, EndOfArtifactKeeps
<1>10. ASSUME NEW given \in SUBSET (Cover!Wanted \X CodeLines), NEW lists, Cover!Flush(given, lists)
       PROVE  CoverInv'
  BY <1>10, FlushStepKeeps
<1> QED
  BY <1>1, <1>2, <1>3, <1>4, <1>5, <1>6, <1>7, <1>8, <1>9, <1>10 DEF Cover!Next

LEMMA CoverIsInvariant == Cover!Spec => []CoverInv
<1>1. Cover!CoverageAssumption
  BY ImportsAssumption
<1>2. Cover!Init => CoverInv
  BY CoverStarts
<1>3. CoverInv /\ [Cover!Next]_covVars => CoverInv'
  BY <1>1, CoverKeeps
<1> QED
  BY <1>2, <1>3, PTL DEF Cover!Spec, Cover!covVars, covVars

(* parse_lcov.py 31-150, coverage_util.py 28-93, jsdcov_to_es.py 31-221    *)
(* and per_test_to_es.py 29-212: an object that is written whole has the   *)
(* records of the files in the artifact, in their order, but for those     *)
(* with too many lines and those of per-test coverage that were warned of; *)
(* that of jsdcov has one for each file, with every line that any of the   *)
(* tests covered.  The TUIDs of a record are of its file and its lines,    *)
(* whatever part of the files the client has and wherever the lists end.   *)
THEOREM CoverageIsTrue == Cover!Spec => []Cover!CoverageIsOfArtifact
<1>1. CoverInv => \A i \in DOMAIN output : Cover!OwnTuids(output[i])
  <2> SUFFICES ASSUME CoverInv, NEW i \in DOMAIN output PROVE Cover!OwnTuids(output[i])
    OBVIOUS
  <2>1. output[i] \in FileRecords
    BY ElementOfSeq DEF CoverInv, CoverShape
  <2> QED
    BY <2>1 DEF FileRecords
<1>2. CoverInv => Cover!CoverageIsOfArtifact
  <2> SUFFICES ASSUME CoverInv, reading = "written", ~cut
               PROVE  IF artifact # "jsdcov"
                      THEN Cover!AreThose(Cover!Plain(output), input, KeptPlaces(input))
                      ELSE /\ Cover!ToSet(Cover!Plain(output)) = Aggregated
                           /\ Cover!IsInjective(Cover!Plain(output))
    BY <1>1 DEF Cover!CoverageIsOfArtifact, KeptPlaces, Aggregated, Named
  <2>1. current = {} /\ batch = << >>
    BY DEF CoverInv, CurrentInv
  <2>2. Complete = input
    BY <2>1 DEF Complete
  <2>3. MadeRows = Cover!Plain(output)
    <3>1. Cover!Plain(output) \in Seq(FileLines)
      BY PlainIsLines DEF CoverInv, CoverShape
    <3>2. Cover!Plain(output) \o << >> = Cover!Plain(output)
      BY <3>1
    <3> QED BY <2>1, <3>2 DEF MadeRows
  <2>4. CASE artifact # "jsdcov"
    <3>1. Cover!AreThose(Cover!Plain(output), input, KeptPlaces(input))
      BY <2>2, <2>3, <2>4 DEF CoverInv, OrderInv
    <3> QED BY <2>4, <3>1
  <2>5. CASE artifact = "jsdcov"
    <3>1. /\ Cover!ToSet(Cover!Plain(output)) = Aggregated
          /\ Cover!IsInjective(Cover!Plain(output))
      BY <2>3, <2>5 DEF CoverInv, AggregateInv
    <3> QED BY <2>5, <3>1
  <2> QED BY <2>4, <2>5
<1> QED
  BY <1>2, CoverIsInvariant, PTL

(* The records that wait.                                                  *)

Readings == {"idle", "open", "header", "end", "written", "given up", "again"}

FewRows == Len(batch) <= BatchLimit \/ (artifact = "jsdcov" /\ reading \in {"end", "again"})

WaitInv == reading \in Readings /\ FewRows

LEMMA Limits == BatchLimit \in Nat /\ BatchLimit > 0
  BY ImportsAssumption DEF Cover!CoverageAssumption

LEMMA WaitStarts == Cover!Init => WaitInv
<1> SUFFICES ASSUME Cover!Init PROVE WaitInv
  OBVIOUS
<1>1. Len(<< >>) = 0
  OBVIOUS
<1> QED
  BY <1>1, Limits DEF Cover!Init, WaitInv, Readings, FewRows

(* At most one record is added while an artifact is read.                  *)
LEMMA RowAdded ==
  ASSUME CoverInv, Cover!Consume, NEW more \in {<< >>} \cup {<<s>> : s \in FileLines},
         batch' = batch \o more
  PROVE  FewRows'
<1>1. batch \in Seq(FileLines) /\ Len(batch) < BatchLimit /\ BatchLimit \in Nat
  BY Limits DEF CoverInv, CoverShape, Cover!Consume
<1>2. more \in Seq(FileLines) /\ Len(more) <= 1
  <2>1. CASE more = << >>
    BY <2>1, EmptySeq
  <2>2. ASSUME NEW s \in FileLines, more = <<s>> PROVE more \in Seq(FileLines) /\ Len(more) <= 1
    BY <2>2
  <2> QED
    BY <2>1, <2>2
<1>3. Len(batch') = Len(batch) + Len(more)
  BY <1>1, <1>2
<1>4. Len(batch) \in Nat /\ Len(more) \in Nat
  BY <1>1, <1>2
<1> QED
  BY <1>1, <1>2, <1>3, <1>4 DEF FewRows

LEMMA WaitReads ==
  ASSUME CoverInv, WaitInv, Cover!Consume,
         \/ batch' = batch
         \/ \E s \in FileLines : batch' = batch \o <<s>>
         \/ batch' = batch \o << >>
  PROVE  WaitInv'
<1>1. reading' \in Readings
  BY DEF Cover!Consume, WaitInv
<1>2. batch = batch \o << >>
  BY DEF CoverInv, CoverShape
<1>3. FewRows'
  BY <1>2, RowAdded
<1> QED
  BY <1>1, <1>3 DEF WaitInv

LEMMA EndOfRecordWaits ==
  ASSUME CoverInv, WaitInv, Cover!EndOfRecord PROVE WaitInv'
<1>1. Cover!Consume /\ artifact \in Cover!Lcov /\ current # {}
  BY DEF Cover!EndOfRecord, Cover!LcovLine
<1>2. current = {Cover!Last(input)}
  BY <1>1 DEF CoverInv, CurrentInv
<1>3. PICK s \in FileLines : current = {s}
  BY <1>2 DEF CoverInv, CoverShape
<1> DEFINE kept == {x \in current : Cover!Fits(x)}
<1>4. kept = {} \/ kept = {s}
  BY <1>3
<1>5. batch' = batch \o Cover!SetToSeq(kept)
  BY DEF Cover!EndOfRecord
<1> HIDE DEF kept
<1>6. batch' = batch \o << >> \/ batch' = batch \o <<s>>
  BY <1>4, <1>5, SequenceOfNone, SequenceOfOne
<1> QED
  BY <1>1, <1>6, WaitReads

LEMMA PerTestWaits ==
  ASSUME CoverInv, WaitInv, NEW s \in FileLines, Cover!PerTestFile(s) PROVE WaitInv'
<1>1. Append(batch, s) = batch \o <<s>>
  BY DEF CoverInv, CoverShape
<1>2. Cover!Consume /\ (batch' = batch \/ batch' = Append(batch, s))
  BY DEF Cover!PerTestFile
<1> QED
  BY <1>1, <1>2, WaitReads

(* Records that have waited go, and no other comes.                        *)
LEMMA FlushLeaves ==
  ASSUME CoverInv, FewRows, NEW given, NEW lists, Cover!Flush(given, lists) PROVE FewRows'
<1> DEFINE n == IF Len(batch) < BatchLimit THEN Len(batch) ELSE BatchLimit
<1>1. batch \in Seq(FileLines) /\ Len(batch) \in Nat /\ BatchLimit \in Nat
  BY Limits DEF CoverInv, CoverShape
<1>2. n \in Nat /\ n <= Len(batch)
  BY <1>1
<1>3. batch' = SubSeq(batch, n + 1, Len(batch)) /\ UNCHANGED <<artifact, reading>>
  BY DEF Cover!Flush
<1>4. artifact' = artifact /\ reading' = reading
  BY <1>3
<1> HIDE DEF n
<1>5. Len(batch') <= Len(batch) /\ Len(batch') \in Nat
  BY <1>1, <1>2, <1>3, SubSeqProperties
<1>6. Len(batch) <= BatchLimit => Len(batch') <= BatchLimit
  BY <1>1, <1>5
<1> QED
  BY <1>4, <1>6 DEF FewRows

LEMMA WaitKeeps ==
  ASSUME CoverInv, WaitInv, [Cover!Next]_covVars PROVE WaitInv'
<1>1. CASE UNCHANGED covVars
  BY <1>1 DEF covVars, WaitInv, FewRows
<1>2. ASSUME NEW kind \in Cover!Lcov \cup {"per-test", "jsdcov"}, Cover!Open(kind)
      PROVE  WaitInv'
  <2>1. Len(batch') = 0 /\ reading' \in {"header", "open"}
    BY <1>2 DEF Cover!Open
  <2>2. FewRows'
    BY <2>1, Limits DEF FewRows
  <2> QED
    BY <2>1, <2>2 DEF WaitInv, Readings
<1>3. ASSUME \/ \E file \in Sources : Cover!SourceFile(file)
             \/ \E ln \in CodeLines, hit \in BOOLEAN : Cover!LineData(ln, hit)
             \/ Cover!OtherCommand \/ Cover!PerTestFileFails
             \/ \E s \in Cover!Apart : Cover!JsdcovObject(s)
      PROVE  WaitInv'
  <2>1. Cover!Consume /\ batch' = batch
    BY <1>3 DEF Cover!SourceFile, Cover!LineData, Cover!OtherCommand, Cover!PerTestFileFails,
           Cover!JsdcovObject, Cover!LcovLine
  <2> QED
    BY <2>1, WaitReads
<1>4. CASE Cover!EndOfRecord
  BY <1>4, EndOfRecordWaits
<1>5. ASSUME NEW s \in Cover!Apart, Cover!PerTestFile(s) PROVE WaitInv'
  <2>1. s \in FileLines
    BY DEF Cover!Apart, FileLines
  <2> QED
    BY <1>5, <2>1, PerTestWaits
<1>6. CASE Cover!Fail
  <2>1. /\ reading \in {"open", "header", "end"} /\ UNCHANGED <<artifact, batch>>
       
        /\ reading' = IF artifact \in Cover!Lcov THEN "given up" ELSE "again"
    BY <1>6 DEF Cover!Fail
  <2>2. reading' \in Readings
    BY <2>1 DEF WaitInv, Readings
  <2>3. artifact = "jsdcov" => reading' = "again"
    BY <2>1 DEF Cover!Lcov
  <2>4. FewRows'
    BY <2>1, <2>3 DEF WaitInv, FewRows
  <2> QED
    BY <2>2, <2>4 DEF WaitInv
<1>7. CASE Cover!StopShort \/ Cover!VersionObject
  <2>1. /\ reading \in {"open", "header"} /\ reading' \in {"open", "end"}
        /\ UNCHANGED <<artifact, batch>>
    BY <1>7 DEF Cover!StopShort, Cover!VersionObject
  <2> QED
    BY <2>1 DEF WaitInv, FewRows, Readings
<1>8. CASE Cover!Write
  <2>1. batch' = << >> /\ reading' = "written"
    BY <1>8 DEF Cover!Write
  <2>2. Len(batch') = 0
    BY <2>1
  <2>3. FewRows'
    BY <2>2, Limits DEF FewRows
  <2> QED
    BY <2>1, <2>3 DEF WaitInv, Readings
<1>9. CASE Cover!EndOfArtifact
  <2>1. /\ Len(batch) < BatchLimit /\ reading' = "end" /\ artifact' = artifact
        /\ (artifact # "jsdcov" => batch' = batch)
    BY <1>9 DEF Cover!EndOfArtifact
  <2>2. Len(batch) \in Nat /\ BatchLimit \in Nat
    BY Limits DEF CoverInv, CoverShape
  <2>3. FewRows'
    BY <2>1, <2>2 DEF FewRows
  <2>4. reading' \in Readings
    BY <2>1 DEF WaitInv, Readings
  <2> QED
    BY <2>3, <2>4 DEF WaitInv
<1>10. ASSUME NEW given, NEW lists, Cover!Flush(given, lists) PROVE WaitInv'
  <2>1. FewRows' /\ reading' = reading
    BY <1>10, FlushLeaves DEF WaitInv, Cover!Flush
  <2> QED
    BY <2>1 DEF WaitInv
<1> QED
  BY <1>1, <1>2, <1>3, <1>4, <1>5, <1>6, <1>7, <1>8, <1>9, <1>10 DEF Cover!Next

(* coverage_util.py 28-93: only the records of a jsdcov artifact wait in a *)
(* batch that is larger than the client is asked for.                      *)
THEOREM CoverTypes == Cover!Spec => []Cover!CoverageTypeOK
<1>1. WaitInv => Cover!CoverageTypeOK
  BY DEF WaitInv, Readings, FewRows, Cover!CoverageTypeOK
<1>2. CoverInv /\ WaitInv /\ [Cover!Next]_covVars => WaitInv'
  BY WaitKeeps
<1> QED
  BY <1>1, <1>2, WaitStarts, CoverIsInvariant, PTL DEF Cover!Spec, Cover!covVars, covVars

-----------------------------------------------------------------------------
(* The client of the TUID service.  What a thread has in its hands is of   *)
(* the files it asked for, and stored but for what it is about to insert;  *)
(* no count of bad requests is larger than that of the failures.           *)

Stations == {"rest", "query", "push", "check", "ask", "insert", "found", "count", "store", "decide"}

TuidLookups ==
  [at : Stations, asked : SUBSET TuidFiles, had : SUBSET TuidFiles, got : SUBSET TuidFiles,
   count : Nat, gateway : BOOLEAN]

TuidTypes ==
  /\ enabled \in BOOLEAN /\ broken \in BOOLEAN
  /\ bad_requests \in Nat /\ faults \in Nat
  /\ lookup \in [Callers -> TuidLookups]

(* What the thread has: of what it asked for, and stored.                  *)
HoldsStored(l, rows) ==
  /\ l.had \subseteq l.got /\ l.had \subseteq rows /\ l.got \subseteq l.asked
  /\ l.at # "insert" => l.got \subseteq rows

CountsRight ==
  /\ bad_requests <= faults
  /\ \A c \in Callers : lookup[c].at = "store" => lookup[c].count + 1 <= faults

TuidInv ==
  /\ TuidTypes
  /\ \A c \in Callers : HoldsStored(lookup[c], tuid_db)
  /\ Tuid!GivenIsStored
  /\ CountsRight
  /\ Tuid!SwitchedOffRightly

LEMMA TuidLimit == MaxBadRequests \in Nat \ {0}
  BY ImportsAssumption DEF Tuid!TuidAssumption

LEMMA TuidStarts == Tuid!Init => TuidInv
<1> SUFFICES ASSUME Tuid!Init PROVE TuidInv
  OBVIOUS
<1>1. Tuid!Resting \in TuidLookups /\ HoldsStored(Tuid!Resting, tuid_db) /\ Tuid!Resting.at = "rest"
  BY DEF Tuid!Resting, TuidLookups, Stations, HoldsStored
<1>2. \A c \in Callers : lookup[c] = Tuid!Resting
  BY DEF Tuid!Init
<1>3. TuidTypes
  BY <1>1 DEF Tuid!Init, TuidTypes
<1>4. Tuid!GivenIsStored
  BY DEF Tuid!Init, Tuid!GivenIsStored
<1>5. CountsRight
  BY <1>1, <1>2 DEF Tuid!Init, CountsRight
<1>6. Tuid!SwitchedOffRightly
  BY TuidLimit DEF Tuid!Init, Tuid!SwitchedOffRightly
<1> QED
  BY <1>1, <1>2, <1>3, <1>4, <1>5, <1>6 DEF TuidInv

(* A thread whose place is changed, and what it has.                       *)
LEMMA Placed ==
  ASSUME NEW l \in TuidLookups, NEW at \in Stations
  PROVE  LET m == [l EXCEPT !.at = at]
         IN  /\ m \in TuidLookups /\ m.at = at
             /\ m.asked = l.asked /\ m.had = l.had /\ m.got = l.got /\ m.count = l.count
<1> DEFINE m == [l EXCEPT !.at = at]
<1>1. m = [at |-> at, asked |-> l.asked, had |-> l.had, got |-> l.got, count |-> l.count,
           gateway |-> l.gateway]
  BY DEF TuidLookups
<1>2. /\ l.asked \in SUBSET TuidFiles /\ l.had \in SUBSET TuidFiles /\ l.got \in SUBSET TuidFiles
      /\ l.count \in Nat /\ l.gateway \in BOOLEAN
  BY DEF TuidLookups
<1> HIDE DEF m
<1> QED
  BY <1>1, <1>2 DEF TuidLookups, m

(* A thread goes on: only its place in `lookup` changes.                   *)
LEMMA TuidGoes ==
  ASSUME TuidInv, NEW c \in Callers, NEW l \in TuidLookups,
         lookup' = [lookup EXCEPT ![c] = l],
         tuid_db \subseteq tuid_db', HoldsStored(l, tuid_db'),
         answers' \subseteq answers \cup
           {[asked |-> lookup[c].asked, had |-> lookup[c].had, got |-> lookup[c].got]},
         answers' # answers => lookup[c].at # "insert"
  PROVE  /\ lookup' \in [Callers -> TuidLookups]
         /\ \A d \in Callers : lookup'[d] = IF d = c THEN l ELSE lookup[d]
         /\ (\A d \in Callers : HoldsStored(lookup[d], tuid_db))'
         /\ Tuid!GivenIsStored'
<1>1. lookup \in [Callers -> TuidLookups]
  BY DEF TuidInv, TuidTypes
<1>2. \A d \in Callers : lookup'[d] = IF d = c THEN l ELSE lookup[d]
  BY <1>1
<1>3. (\A d \in Callers : HoldsStored(lookup[d], tuid_db))'
  <2> SUFFICES ASSUME NEW d \in Callers PROVE HoldsStored(lookup[d], tuid_db)'
    OBVIOUS
  <2>1. CASE d = c
    BY <1>2, <2>1 DEF HoldsStored
  <2>2. CASE d # c
    BY <1>2, <2>2 DEF TuidInv, HoldsStored
  <2> QED
    BY <2>1, <2>2
<1>4. Tuid!GivenIsStored'
  <2> SUFFICES ASSUME NEW a \in answers'
               PROVE  a.had \subseteq a.got /\ a.got \subseteq a.asked \cap tuid_db'
    BY DEF Tuid!GivenIsStored
  <2>1. CASE a \in answers
    BY <2>1 DEF TuidInv, Tuid!GivenIsStored
  <2>2. CASE a \notin answers
    <3>1. a = [asked |-> lookup[c].asked, had |-> lookup[c].had, got |-> lookup[c].got]
      BY <2>2
    <3>2. HoldsStored(lookup[c], tuid_db) /\ lookup[c].at # "insert"
      BY <2>2 DEF TuidInv
    <3> QED
      BY <3>1, <3>2 DEF HoldsStored
  <2> QED
    BY <2>1, <2>2
<1> QED
  BY <1>1, <1>2, <1>3, <1>4

(* A step of a thread that touches neither the count nor the switch.       *)
LEMMA TuidQuiet ==
  ASSUME TuidInv, NEW c \in Callers, NEW l \in TuidLookups,
         lookup' = [lookup EXCEPT ![c] = l], l.at # "store", lookup[c].at # "decide",
         tuid_db \subseteq tuid_db', HoldsStored(l, tuid_db'),
         answers' \subseteq answers \cup
           {[asked |-> lookup[c].asked, had |-> lookup[c].had, got |-> lookup[c].got]},
         answers' # answers => lookup[c].at # "insert",
         enabled' = enabled, bad_requests' = bad_requests, faults' = faults, broken' = broken
  PROVE  TuidInv'
<1>1. /\ lookup' \in [Callers -> TuidLookups]
      /\ \A d \in Callers : lookup'[d] = IF d = c THEN l ELSE lookup[d]
      /\ (\A d \in Callers : HoldsStored(lookup[d], tuid_db))'
      /\ Tuid!GivenIsStored'
  BY TuidGoes
<1>2. TuidTypes'
  BY <1>1 DEF TuidInv, TuidTypes
<1>3. CountsRight'
  BY <1>1 DEF TuidInv, CountsRight
<1>4. Tuid!SwitchedOffRightly'
  <2>1. \A d \in Callers : lookup[d].at = "decide" => lookup'[d].at = "decide"
    BY <1>1
  <2> QED
    BY <2>1 DEF TuidInv, Tuid!SwitchedOffRightly
<1> QED
  BY <1>1, <1>2, <1>3, <1>4 DEF TuidInv

LEMMA TuidStep ==
  ASSUME TuidInv, [Tuid!Next]_tuidVars PROVE TuidInv'
<1> USE DEF Stations
<1>1. CASE UNCHANGED tuidVars
  BY <1>1 DEF tuidVars, TuidInv, TuidTypes, HoldsStored, CountsRight, Tuid!GivenIsStored,
              Tuid!SwitchedOffRightly
<1> SUFFICES ASSUME NEW c \in Callers,
                    \/ \E files_ \in SUBSET TuidFiles : Tuid!GetTuids(c, files_) \/ Tuid!Ask(c, files_)
                    \/ Tuid!Query(c) \/ Tuid!QueryFails(c) \/ Tuid!MarkupFails(c)
                    \/ Tuid!Push(c) \/ Tuid!Disabled(c)
                    \/ Tuid!Enabled(c) \/ Tuid!Insert(c) \/ Tuid!Found(c)
                    \/ \E gateway \in BOOLEAN : Tuid!Fails(c, gateway)
                    \/ Tuid!Count(c) \/ Tuid!Store(c) \/ Tuid!Decide(c)
             PROVE  TuidInv'
  BY <1>1 DEF Tuid!Next
<1> DEFINE k == lookup[c]
<1>2. /\ k \in TuidLookups /\ HoldsStored(k, tuid_db)
      /\ k.at \in Stations /\ k.asked \subseteq TuidFiles /\ k.had \subseteq TuidFiles
      /\ k.got \subseteq TuidFiles /\ k.count \in Nat /\ k.gateway \in BOOLEAN
  BY DEF TuidInv, TuidTypes, TuidLookups
<1>3. Tuid!Resting \in TuidLookups /\ HoldsStored(Tuid!Resting, tuid_db') /\ Tuid!Resting.at = "rest"
  BY DEF Tuid!Resting, TuidLookups, HoldsStored
<1>4. ASSUME NEW files_ \in SUBSET TuidFiles, Tuid!GetTuids(c, files_) PROVE TuidInv'
  <2> DEFINE l == [[Tuid!Resting EXCEPT !.asked = files_] EXCEPT !.at = "query"]
  <2>1. l \in TuidLookups /\ l.at = "query" /\ HoldsStored(l, tuid_db')
    BY DEF Tuid!Resting, TuidLookups, HoldsStored
  <2> QED
    BY <1>4, <2>1, TuidQuiet DEF Tuid!GetTuids, Tuid!Goto
<1>5. ASSUME NEW known \in SUBSET TuidFiles, Tuid!Ask(c, known) PROVE TuidInv'
  <2> DEFINE at == IF known = {} THEN "found" ELSE "insert"
             l == [[k EXCEPT !.got = k.had \cup known] EXCEPT !.at = at]
  <2>1. /\ lookup' = [lookup EXCEPT ![c] = l] /\ k.at = "ask" /\ known \subseteq k.asked
        /\ UNCHANGED <<enabled, bad_requests, tuid_db, faults, broken, answers>>
    BY <1>5 DEF Tuid!Ask, Tuid!Goto, Tuid!Remaining
  <2>2. at \in Stations /\ at # "store" /\ (at = "insert" \/ known = {})
    OBVIOUS
  <2>3. k.had \cup known \in SUBSET TuidFiles
    BY <1>2
  <2>4. /\ l \in TuidLookups /\ l.at = at /\ l.asked = k.asked /\ l.had = k.had
        /\ l.got = k.had \cup known
    <3> DEFINE m == [k EXCEPT !.got = k.had \cup known]
    <3>1. m = [at |-> k.at, asked |-> k.asked, had |-> k.had, got |-> k.had \cup known,
               count |-> k.count, gateway |-> k.gateway]
      BY <1>2 DEF TuidLookups
    <3>2. m \in TuidLookups
      BY <1>2, <3>1, <2>2, <2>3 DEF TuidLookups
    <3> HIDE DEF m
    <3>3. [m EXCEPT !.at = at] = [at |-> at, asked |-> k.asked, had |-> k.had, got |-> k.had \cup known,
               count |-> k.count, gateway |-> k.gateway]
      BY <3>1
    <3> QED
      BY <1>2, <2>2, <2>3, <3>3 DEF l, TuidLookups
  <2> HIDE DEF l, at
  <2>5. HoldsStored(l, tuid_db')
    BY <1>2, <2>1, <2>2, <2>4 DEF HoldsStored
  <2> QED
    BY <2>1, <2>2, <2>4, <2>5, TuidQuiet
<1>6. CASE Tuid!Query(c)
  <2> DEFINE rows == k.asked \cap tuid_db
             at == IF k.asked \subseteq rows THEN "found" ELSE IF Recorded THEN "push" ELSE "check"
             l == [[k EXCEPT !.had = rows, !.got = rows] EXCEPT !.at = at]
  <2>1. /\ lookup' = [lookup EXCEPT ![c] = l] /\ k.at = "query"
        /\ UNCHANGED <<enabled, bad_requests, tuid_db, faults, broken, answers>>
    BY <1>6 DEF Tuid!Query, Tuid!Goto
  <2>2. at \in Stations /\ at # "store" /\ rows \in SUBSET TuidFiles
    BY <1>2
  <2>3. l \in TuidLookups /\ l.at = at /\ l.asked = k.asked /\ l.had = rows /\ l.got = rows
    <3> HIDE DEF rows, at
    <3> DEFINE h == [k EXCEPT !.had = rows]
               m == [h EXCEPT !.got = rows]
    <3>0. h = [at |-> k.at, asked |-> k.asked, had |-> rows, got |-> k.got,
               count |-> k.count, gateway |-> k.gateway]
      BY <1>2 DEF TuidLookups
    <3> HIDE DEF h
    <3>1. m = [at |-> k.at, asked |-> k.asked, had |-> rows, got |-> rows,
               count |-> k.count, gateway |-> k.gateway]
      BY <3>0
    <3>2. m \in TuidLookups
      BY <1>2, <3>1, <2>2 DEF TuidLookups
    <3> HIDE DEF m
    <3>3. [m EXCEPT !.at = at] = [at |-> at, asked |-> k.asked, had |-> rows, got |-> rows,
               count |-> k.count, gateway |-> k.gateway]
      BY <3>1
    <3> QED
      BY <1>2, <2>2, <3>3 DEF l, h, rows, TuidLookups
  <2> HIDE DEF l, at
  <2>4. HoldsStored(l, tuid_db')
    BY <2>1, <2>3 DEF HoldsStored
  <2> QED
    BY <2>1, <2>2, <2>3, <2>4, TuidQuiet
<1>7. CASE Tuid!QueryFails(c)
  <2> DEFINE l == [Tuid!Resting EXCEPT !.at = "rest"]
  <2>1. l = Tuid!Resting
    BY DEF Tuid!Resting
  <2>2. lookup' = [lookup EXCEPT ![c] = Tuid!Resting] /\ tuid_db' = tuid_db /\ answers' = answers
        /\ enabled' = FALSE /\ broken' = TRUE /\ bad_requests' = bad_requests /\ faults' = faults
    BY <1>7, <2>1 DEF Tuid!QueryFails, Tuid!Goto
  <2>3. /\ lookup' \in [Callers -> TuidLookups]
        /\ \A d \in Callers : lookup'[d] = IF d = c THEN Tuid!Resting ELSE lookup[d]
        /\ (\A d \in Callers : HoldsStored(lookup[d], tuid_db))'
        /\ Tuid!GivenIsStored'
    BY <1>3, <2>2, TuidGoes
  <2>4. TuidTypes'
    BY <2>2, <2>3 DEF TuidInv, TuidTypes
  <2>5. CountsRight'
    BY <1>3, <2>2, <2>3 DEF TuidInv, CountsRight
  <2>6. Tuid!SwitchedOffRightly'
    BY <2>2 DEF Tuid!SwitchedOffRightly
  <2> QED
    BY <2>3, <2>4, <2>5, <2>6 DEF TuidInv
<1>16. CASE Tuid!MarkupFails(c)
  <2>1. /\ UNCHANGED <<bad_requests, tuid_db, lookup, faults, answers>>
        /\ enabled' = FALSE /\ broken' = TRUE
    BY <1>16 DEF Tuid!MarkupFails
  <2>2. TuidTypes' /\ CountsRight'
    BY <2>1 DEF TuidInv, TuidTypes, CountsRight
  <2>3. (\A d \in Callers : HoldsStored(lookup[d], tuid_db))' /\ Tuid!GivenIsStored'
    BY <2>1 DEF TuidInv, HoldsStored, Tuid!GivenIsStored
  <2>4. Tuid!SwitchedOffRightly'
    BY <2>1 DEF Tuid!SwitchedOffRightly
  <2> QED
    BY <2>2, <2>3, <2>4 DEF TuidInv
<1>8. CASE Tuid!Push(c) \/ Tuid!Enabled(c)
  <2> PICK at \in {"check", "ask"} : /\ lookup' = [lookup EXCEPT ![c] = [k EXCEPT !.at = at]]
                                     /\ k.at \in {"push", "check"}
                                     /\ UNCHANGED <<enabled, bad_requests, tuid_db, faults, broken, answers>>
    BY <1>8 DEF Tuid!Push, Tuid!Enabled, Tuid!Goto
  <2> DEFINE l == [k EXCEPT !.at = at]
  <2>1. l \in TuidLookups /\ l.at = at /\ l.asked = k.asked /\ l.had = k.had /\ l.got = k.got
    <3>1. l = [at |-> at, asked |-> k.asked, had |-> k.had, got |-> k.got, count |-> k.count,
               gateway |-> k.gateway]
      BY <1>2 DEF TuidLookups
    <3> HIDE DEF l
    <3> QED
      BY <1>2, <3>1 DEF TuidLookups
  <2>2. lookup' = [lookup EXCEPT ![c] = l]
    OBVIOUS
  <2> HIDE DEF l
  <2>3. HoldsStored(l, tuid_db')
    BY <1>2, <2>1 DEF HoldsStored
  <2> QED
    BY <2>1, <2>2, <2>3, TuidQuiet
<1>9. CASE Tuid!Disabled(c)
  BY <1>3, <1>9, TuidQuiet DEF Tuid!Disabled, Tuid!Return
<1>10. CASE Tuid!Insert(c)
  <2> DEFINE l == [k EXCEPT !.at = "found"]
  <2>1. /\ lookup' = [lookup EXCEPT ![c] = l] /\ k.at = "insert"
        /\ tuid_db' = tuid_db \cup (k.got \ k.had)
        /\ UNCHANGED <<enabled, bad_requests, faults, broken, answers>>
    BY <1>10 DEF Tuid!Insert, Tuid!Goto
  <2>2. l \in TuidLookups /\ l.at = "found" /\ l.asked = k.asked /\ l.had = k.had /\ l.got = k.got
    BY <1>2, Placed
  <2> HIDE DEF l
  <2>3. HoldsStored(l, tuid_db')
    BY <1>2, <2>1, <2>2 DEF HoldsStored
  <2> QED
    BY <2>1, <2>2, <2>3, TuidQuiet
<1>11. CASE Tuid!Found(c)
  <2>1. /\ lookup' = [lookup EXCEPT ![c] = Tuid!Resting] /\ tuid_db' = tuid_db /\ k.at = "found"
        /\ answers' = answers \cup {[asked |-> k.asked, had |-> k.had, got |-> k.got]}
        /\ bad_requests' = 0 /\ enabled' = enabled /\ faults' = faults /\ broken' = broken
    BY <1>11 DEF Tuid!Found, Tuid!Return
  <2>2. /\ lookup' \in [Callers -> TuidLookups]
        /\ \A d \in Callers : lookup'[d] = IF d = c THEN Tuid!Resting ELSE lookup[d]
        /\ (\A d \in Callers : HoldsStored(lookup[d], tuid_db))'
        /\ Tuid!GivenIsStored'
    BY <1>3, <2>1, TuidGoes
  <2>3. TuidTypes'
    BY <2>1, <2>2 DEF TuidInv, TuidTypes
  <2>4. CountsRight'
    BY <1>3, <2>1, <2>2 DEF TuidInv, TuidTypes, CountsRight
  <2>5. Tuid!SwitchedOffRightly'
    BY <2>1, TuidLimit DEF TuidInv, Tuid!SwitchedOffRightly
  <2> QED
    BY <2>2, <2>3, <2>4, <2>5 DEF TuidInv
<1>12. ASSUME NEW gateway \in BOOLEAN, Tuid!Fails(c, gateway) PROVE TuidInv'
  <2> DEFINE l == [[k EXCEPT !.got = k.had, !.gateway = gateway] EXCEPT !.at = "count"]
  <2>1. /\ lookup' = [lookup EXCEPT ![c] = l] /\ k.at \in {"push", "ask", "insert"}
        /\ UNCHANGED <<enabled, bad_requests, tuid_db, faults, broken, answers>>
    BY <1>12 DEF Tuid!Fails, Tuid!Goto
  <2>2. l \in TuidLookups /\ l.at = "count" /\ l.asked = k.asked /\ l.had = k.had /\ l.got = k.had
    <3> DEFINE h == [k EXCEPT !.got = k.had]
               m == [h EXCEPT !.gateway = gateway]
    <3>0. h = [at |-> k.at, asked |-> k.asked, had |-> k.had, got |-> k.had,
               count |-> k.count, gateway |-> k.gateway]
      BY <1>2 DEF TuidLookups
    <3> HIDE DEF h
    <3>1. m = [at |-> k.at, asked |-> k.asked, had |-> k.had, got |-> k.had,
               count |-> k.count, gateway |-> gateway]
      BY <3>0
    <3>2. m \in TuidLookups
      BY <1>2, <3>1 DEF TuidLookups
    <3> HIDE DEF m
    <3>3. [m EXCEPT !.at = "count"] = [at |-> "count", asked |-> k.asked, had |-> k.had, got |-> k.had,
               count |-> k.count, gateway |-> gateway]
      BY <3>1
    <3> QED
      BY <1>2, <3>3 DEF l, h, TuidLookups
  <2> HIDE DEF l
  <2>3. HoldsStored(l, tuid_db')
    BY <1>2, <2>1, <2>2 DEF HoldsStored
  <2> QED
    BY <2>1, <2>2, <2>3, TuidQuiet
<1>13. CASE Tuid!Count(c)
  <2> DEFINE l == [[k EXCEPT !.count = bad_requests] EXCEPT !.at = "store"]
  <2>1. /\ lookup' = [lookup EXCEPT ![c] = l] /\ tuid_db' = tuid_db /\ k.at = "count"
        /\ answers' = answers /\ faults' = faults + 1
        /\ bad_requests' = bad_requests /\ enabled' = enabled /\ broken' = broken
    BY <1>13 DEF Tuid!Count, Tuid!Goto
  <2>2. bad_requests \in Nat /\ faults \in Nat /\ bad_requests <= faults
    BY DEF TuidInv, TuidTypes, CountsRight
  <2>3. /\ l \in TuidLookups /\ l.at = "store" /\ l.count = bad_requests
        /\ l.asked = k.asked /\ l.had = k.had /\ l.got = k.got
    <3> DEFINE m == [k EXCEPT !.count = bad_requests]
    <3>1. m = [at |-> k.at, asked |-> k.asked, had |-> k.had, got |-> k.got,
               count |-> bad_requests, gateway |-> k.gateway]
      BY <1>2 DEF TuidLookups
    <3>2. m \in TuidLookups
      BY <1>2, <3>1, <2>2 DEF TuidLookups
    <3> HIDE DEF m
    <3>3. [m EXCEPT !.at = "store"] = [at |-> "store", asked |-> k.asked, had |-> k.had, got |-> k.got,
               count |-> bad_requests, gateway |-> k.gateway]
      BY <3>1
    <3> QED
      BY <1>2, <2>2, <3>3 DEF l, TuidLookups
  <2> HIDE DEF l
  <2>0. HoldsStored(l, tuid_db')
    BY <1>2, <2>1, <2>3 DEF HoldsStored
  <2>4. /\ lookup' \in [Callers -> TuidLookups]
        /\ \A d \in Callers : lookup'[d] = IF d = c THEN l ELSE lookup[d]
        /\ (\A d \in Callers : HoldsStored(lookup[d], tuid_db))'
        /\ Tuid!GivenIsStored'
    BY <2>1, <2>3, <2>0, TuidGoes
  <2>5. TuidTypes'
    BY <2>1, <2>2, <2>4 DEF TuidInv, TuidTypes
  <2>6. CountsRight'
    <3>1. \A d \in Callers : lookup[d].count \in Nat
      BY DEF TuidInv, TuidTypes, TuidLookups
    <3> QED
      BY <2>1, <2>2, <2>3, <2>4, <3>1 DEF TuidInv, CountsRight
  <2>7. Tuid!SwitchedOffRightly'
    <3>1. \A d \in Callers : lookup[d].at = "decide" => lookup'[d].at = "decide"
      BY <2>1, <2>4
    <3> QED
      BY <2>1, <2>2, <3>1, TuidLimit DEF TuidInv, Tuid!SwitchedOffRightly
  <2> QED
    BY <2>4, <2>5, <2>6, <2>7 DEF TuidInv
<1>14. CASE Tuid!Store(c)
  <2> DEFINE l == [k EXCEPT !.at = "decide"]
  <2>1. /\ lookup' = [lookup EXCEPT ![c] = l] /\ tuid_db' = tuid_db /\ k.at = "store"
        /\ answers' = answers /\ faults' = faults
        /\ bad_requests' = k.count + 1 /\ enabled' = enabled /\ broken' = broken
    BY <1>14 DEF Tuid!Store, Tuid!Goto
  <2>2. k.count \in Nat /\ k.count + 1 <= faults
    BY <1>2, <2>1 DEF TuidInv, CountsRight
  <2>3. l \in TuidLookups /\ l.at = "decide" /\ l.asked = k.asked /\ l.had = k.had /\ l.got = k.got
    BY <1>2, Placed
  <2> HIDE DEF l
  <2>0. HoldsStored(l, tuid_db')
    BY <1>2, <2>1, <2>3 DEF HoldsStored
  <2>4. /\ lookup' \in [Callers -> TuidLookups]
        /\ \A d \in Callers : lookup'[d] = IF d = c THEN l ELSE lookup[d]
        /\ (\A d \in Callers : HoldsStored(lookup[d], tuid_db))'
        /\ Tuid!GivenIsStored'
    BY <2>1, <2>3, <2>0, TuidGoes
  <2>5. TuidTypes'
    BY <2>1, <2>2, <2>4 DEF TuidInv, TuidTypes
  <2>6. CountsRight'
    BY <2>1, <2>2, <2>3, <2>4 DEF TuidInv, CountsRight
  <2>7. Tuid!SwitchedOffRightly'
    BY <2>1, <2>3, <2>4 DEF TuidInv, Tuid!SwitchedOffRightly
  <2> QED
    BY <2>4, <2>5, <2>6, <2>7 DEF TuidInv
<1>15. CASE Tuid!Decide(c)
  <2>1. /\ lookup' = [lookup EXCEPT ![c] = Tuid!Resting] /\ tuid_db' = tuid_db /\ k.at = "decide"
        /\ answers' = answers \cup {[asked |-> k.asked, had |-> k.had, got |-> k.got]}
        /\ bad_requests' = bad_requests /\ faults' = faults
    BY <1>15 DEF Tuid!Decide, Tuid!Return
  <2>2. /\ enabled' = (enabled /\ ~k.gateway /\ bad_requests < MaxBadRequests)
        /\ broken' = (broken \/ (enabled /\ k.gateway))
    BY <1>15 DEF Tuid!Decide
  <2>3. /\ lookup' \in [Callers -> TuidLookups]
        /\ \A d \in Callers : lookup'[d] = IF d = c THEN Tuid!Resting ELSE lookup[d]
        /\ (\A d \in Callers : HoldsStored(lookup[d], tuid_db))'
        /\ Tuid!GivenIsStored'
    BY <1>3, <2>1, TuidGoes
  <2>4. TuidTypes'
    <3>1. enabled' \in BOOLEAN /\ broken' \in BOOLEAN
      BY <2>2, Zenon
    <3> QED
      BY <2>1, <2>3, <3>1 DEF TuidInv, TuidTypes
  <2>5. CountsRight'
    BY <1>3, <2>1, <2>3 DEF TuidInv, CountsRight
  <2>6. Tuid!SwitchedOffRightly'
    <3> DEFINE over == bad_requests >= MaxBadRequests
               many == faults >= MaxBadRequests
    <3>1. bad_requests \in Nat /\ faults \in Nat /\ bad_requests <= faults
      BY DEF TuidInv, TuidTypes, CountsRight
    <3>2. (over => many) /\ (over <=> ~(bad_requests < MaxBadRequests))
      BY <3>1, TuidLimit
    <3>3. ~enabled => broken \/ many
      BY DEF TuidInv, Tuid!SwitchedOffRightly
    <3>4. (faults' >= MaxBadRequests <=> many) /\ (bad_requests' >= MaxBadRequests <=> over)
      BY <2>1
    <3> HIDE DEF over, many
    <3>5. (~enabled' => broken' \/ many) /\ ~(enabled' /\ over)
      BY <2>2, <3>2, <3>3, Zenon
    <3> QED
      BY <3>4, <3>5, Zenon DEF Tuid!SwitchedOffRightly
  <2> QED
    BY <2>3, <2>4, <2>5, <2>6 DEF TuidInv
<1> QED
  BY <1>4, <1>5, <1>6, <1>7, <1>8, <1>9, <1>10, <1>11, <1>12, <1>13, <1>14, <1>15,
     <1>16

(* vendor/tuid/client.py 66-149: however the threads overlap and whatever  *)
(* fails, a caller is given what is stored of the files it asked for, all  *)
(* that was stored when it began among it; and the client is switched off  *)
(* only by a failure of the database, the gateway or a markup, or after as *)
(* many counted failures as it bears, and always when the count comes to   *)
(* that (coverage_util.py 80-82 switches it off from outside).             *)
THEOREM ClientIsRight == Tuid!Spec => [](Tuid!GivenIsStored /\ Tuid!SwitchedOffRightly)
<1>1. Tuid!Init => TuidInv
  BY TuidStarts
<1>2. TuidInv /\ [Tuid!Next]_tuidVars => TuidInv'
  BY TuidStep
<1>3. TuidInv => Tuid!GivenIsStored /\ Tuid!SwitchedOffRightly
  BY DEF TuidInv
<1> QED
  BY <1>1, <1>2, <1>3, PTL DEF Tuid!Spec, Tuid!tuidVars, tuidVars

-----------------------------------------------------------------------------
(* Backfill.  The scan goes down through the prefixes, and has found every *)
(* missing number whose prefix is above the one that comes next; so all of *)
(* them, when it ends because it is below the range, or at the prefix "0". *)

LEMMA FillFacts ==
  /\ IsFiniteSet(Numbers) /\ Numbers \subseteq Nat /\ Low \in Nat
  /\ Base \in Nat \ {0} /\ Limit \in Nat \ {0} /\ Window \in Nat \ {0} /\ MaxDigits \in Nat \ {0}
  /\ \A d \in 0 .. Limit : Base^d \in Nat \ {0}
  /\ Limit < Base^Limit /\ Limit < Base^MaxDigits
<1>1. Fill!BackfillAssumption
  BY ImportsAssumption
<1>2. Fill!IsFiniteSet(Numbers) => IsFiniteSet(Numbers)
  BY DEF Fill!IsFiniteSet, IsFiniteSet
<1> QED
  BY <1>1, <1>2 DEF Fill!BackfillAssumption

(* A finite set of numbers has a bound, and a largest.                     *)
LEMMA FiniteIsBounded ==
  ASSUME NEW S, S \subseteq Nat, IsFiniteSet(S)
  PROVE  \E u \in Nat : \A y \in S : y <= u
<1> DEFINE n == Cardinality(S)
<1>1. n \in Nat /\ ExistsBijection(1 .. n, S)
  BY FS_CardinalityType
<1>2. PICK f \in Bijection(1 .. n, S) : TRUE
  BY <1>1 DEF ExistsBijection
<1>3. f \in [1 .. n -> S] /\ \A y \in S : \E i \in 1 .. n : f[i] = y
  BY <1>2 DEF Bijection, Surjection
<1> HIDE DEF n
<1> DEFINE Bound(k) == \E u \in Nat : \A i \in 1 .. k : i <= n => f[i] <= u
           F == {k \in Nat : ~Bound(k)}
<1>4. F = {}
  <2> SUFFICES ASSUME F # {} PROVE FALSE
    OBVIOUS
  <2>1. F \subseteq Nat
    OBVIOUS
  <2> HIDE DEF F
  <2>2. PICK k \in F : \A j \in F : k <= j
    BY <2>1, Least
  <2>3. k \in Nat /\ ~Bound(k)
    BY <2>2 DEF F
  <2>4. Bound(0)
    OBVIOUS
  <2> HIDE DEF Bound
  <2>5. k # 0
    BY <2>3, <2>4
  <2>6. k - 1 \in Nat /\ ~(k <= k - 1)
    BY <2>3, <2>5
  <2>7. Bound(k - 1)
    <3>1. k - 1 \notin F
      BY <2>2, <2>6
    <3> QED BY <2>6, <3>1 DEF F
  <2> USE DEF Bound
  <2>8. PICK u \in Nat : \A i \in 1 .. k - 1 : i <= n => f[i] <= u
    BY <2>7
  <2>9. CASE k <= n
    <3> HIDE DEF Bound
    <3>1. f[k] \in Nat
      <4>1. k \in 1 .. n
        BY <1>1, <2>3, <2>5, <2>9
      <4> QED BY <1>3, <4>1
    <3>2. \A i \in 1 .. k : i <= n => f[i] \in Nat
      <4>1. \A i \in 1 .. k : i <= n => i \in 1 .. n
        BY <1>1, <2>3
      <4> QED BY <1>3, <4>1
    <3> USE DEF Bound
    <3>3. \A i \in 1 .. k : i <= n => f[i] <= u + f[k]
      <4> SUFFICES ASSUME NEW i \in 1 .. k, i <= n PROVE f[i] <= u + f[k]
        OBVIOUS
      <4>1. CASE i = k
        BY <3>1, <4>1
      <4>2. CASE i # k
        <5>1. i \in 1 .. k - 1
          BY <2>3, <4>2
        <5>2. f[i] <= u /\ f[i] \in Nat
          BY <2>8, <3>2, <5>1
        <5> QED BY <3>1, <5>2
      <4> QED BY <4>1, <4>2
    <3>4. u + f[k] \in Nat
      BY <3>1
    <3>5. Bound(k)
      BY <3>3, <3>4
    <3> QED BY <2>3, <3>5
  <2>10. CASE ~(k <= n)
    <3>1. \A i \in 1 .. k : i <= n => f[i] <= u
      <4> SUFFICES ASSUME NEW i \in 1 .. k, i <= n PROVE f[i] <= u
        OBVIOUS
      <4>1. i \in 1 .. k - 1
        BY <1>1, <2>3, <2>10
      <4> QED BY <2>8, <4>1
    <3>2. Bound(k)
      BY <3>1
    <3> QED BY <2>3, <3>2
  <2> QED BY <2>9, <2>10
<1>5. Bound(n)
  BY <1>1, <1>4
<1> QED
  <2>1. PICK u \in Nat : \A i \in 1 .. n : i <= n => f[i] <= u
    BY <1>5
  <2>2. \A i \in 1 .. n : i <= n
    BY <1>1
  <2> QED BY <1>3, <2>1, <2>2

LEMMA Largest ==
  ASSUME NEW S, S \subseteq Nat, IsFiniteSet(S), S # {}
  PROVE  Fill!Max(S) \in S /\ \A y \in S : y <= Fill!Max(S)
<1>1. PICK u \in Nat : \A y \in S : y <= u
  BY FiniteIsBounded
<1> DEFINE F == {u - y : y \in S}
<1>2. F \subseteq Nat /\ F # {}
  <2>1. \A y \in S : u - y \in Nat
    BY <1>1
  <2> QED BY <2>1
<1>3. PICK i \in F : \A j \in F : i <= j
  <2> HIDE DEF F
  <2> QED BY <1>2, Least
<1>4. PICK x \in S : i = u - x
  BY <1>3
<1>5. \A y \in S : u - x <= u - y
  BY <1>3, <1>4
<1>6. \A y \in S : x >= y
  BY <1>1, <1>5
<1>7. Fill!Max(S) \in S /\ \A y \in S : Fill!Max(S) >= y
  BY <1>6 DEF Fill!Max
<1> QED
  BY <1>7

(* The place of a number among those of a sequence, the largest first.     *)
LEMMA DownwardsHasAll ==
  ASSUME NEW s \in Seq(Nat)
  PROVE  /\ Fill!Downwards(s) \in Seq(Nat) /\ Len(Fill!Downwards(s)) = Len(s)
         /\ \A i \in 1 .. Len(s) : \E k \in 1 .. Len(s) : Fill!Downwards(s)[k] = s[i]
<1> DEFINE n == Len(s)
           D == 1 .. n
           Upto(i) == {j \in D : s[j] > s[i] \/ (s[j] = s[i] /\ j <= i)}
<1>1. n \in Nat /\ DOMAIN s = D /\ \A i \in D : s[i] \in Nat
  OBVIOUS
<1>2. IsFiniteSet(D) /\ Cardinality(D) = n
  <2> HIDE DEF n
  <2>1. n \in Nat /\ 1 \in Int /\ n \in Int
    BY <1>1
  <2>2. IsFiniteSet(1 .. n) /\ Cardinality(1 .. n) = IF 1 > n THEN 0 ELSE n - 1 + 1
    BY <2>1, FS_Interval
  <2>3. (IF 1 > n THEN 0 ELSE n - 1 + 1) = n
    BY <2>1
  <2> QED
    BY <2>2, <2>3
<1> HIDE DEF n
<1>3. ASSUME NEW i \in D
      PROVE  /\ IsFiniteSet(Upto(i)) /\ Cardinality(Upto(i)) \in 1 .. n
             /\ Fill!Place(s, i) = Cardinality(Upto(i))
  <2>1. Upto(i) \in SUBSET D /\ i \in Upto(i)
    BY <1>1
  <2> HIDE DEF Upto
  <2>2. IsFiniteSet(Upto(i)) /\ Cardinality(Upto(i)) <= n
    BY <1>2, <2>1, FS_Subset
  <2>3. Cardinality(Upto(i)) \in Nat
    BY <2>2, FS_CardinalityType
  <2>4. Cardinality(Upto(i)) # 0
    BY <2>1, <2>2, FS_EmptySet
  <2>5. Fill!Place(s, i) = Cardinality(Upto(i))
    BY <1>1 DEF Fill!Place, Upto, Fill!Cardinality, Cardinality
  <2> QED BY <1>1, <2>2, <2>3, <2>4, <2>5
<1>4. ASSUME NEW i \in D, NEW k \in D, s[i] > s[k] \/ (s[i] = s[k] /\ i < k)
      PROVE  Cardinality(Upto(i)) < Cardinality(Upto(k))
  <2>1. k \notin Upto(i) /\ k \in Upto(k)
    BY <1>1, <1>4
  <2>2. Upto(i) \in SUBSET Upto(k)
    <3> SUFFICES ASSUME NEW j \in Upto(i) PROVE j \in Upto(k)
      OBVIOUS
    <3>1. j \in D /\ s[j] \in Nat /\ s[i] \in Nat /\ s[k] \in Nat
      BY <1>1
    <3>2. s[j] > s[i] \/ (s[j] = s[i] /\ j <= i)
      OBVIOUS
    <3>3. i \in Nat /\ j \in Nat /\ k \in Nat
      BY <1>1, <3>1
    <3>4. s[j] > s[k] \/ (s[j] = s[k] /\ j <= k)
      BY <1>4, <3>1, <3>2, <3>3
    <3> QED BY <3>1, <3>4
  <2>3. /\ IsFiniteSet(Upto(k)) /\ Cardinality(Upto(k)) \in 1 .. n
        /\ Cardinality(Upto(i)) \in 1 .. n
    BY <1>3
  <2> HIDE DEF Upto
  <2>4. Cardinality(Upto(i)) <= Cardinality(Upto(k))
    BY <2>2, <2>3, FS_Subset
  <2>5. Cardinality(Upto(i)) # Cardinality(Upto(k))
    BY <2>1, <2>2, <2>3, FS_Subset
  <2> QED BY <1>1, <2>3, <2>4, <2>5
<1>5. ASSUME NEW i \in D, NEW k \in D, Fill!Place(s, i) = Fill!Place(s, k)
      PROVE  i = k
  <2>1. Cardinality(Upto(i)) = Cardinality(Upto(k)) /\ Cardinality(Upto(i)) \in 1 .. n
    BY <1>3, <1>5
  <2>2. /\ ~(s[i] > s[k] \/ (s[i] = s[k] /\ i < k))
        /\ ~(s[k] > s[i] \/ (s[k] = s[i] /\ k < i))
    <3> HIDE DEF Upto
    <3> QED BY <1>1, <1>4, <2>1
  <2>3. s[i] \in Nat /\ s[k] \in Nat /\ i \in Nat /\ k \in Nat
    BY <1>1
  <2> QED BY <2>2, <2>3
<1> HIDE DEF Upto
<1> DEFINE place == [i \in D |-> Fill!Place(s, i)]
<1>6. place \in Injection(D, D)
  <2>1. place \in [D -> D]
    BY <1>3
  <2>2. \A i, k \in D : place[i] = place[k] => i = k
    BY <1>5
  <2> QED BY <2>1, <2>2 DEF Injection, IsInjective
<1>7. place \in Surjection(D, D)
  BY <1>2, <1>6, FS_Injection
<1>8. \A k \in D : \E i \in D : Fill!Place(s, i) = k
  BY <1>7 DEF Surjection
<1> DEFINE at_place(k) == CHOOSE i \in D : Fill!Place(s, i) = k
<1>9. \A k \in D : at_place(k) \in D /\ Fill!Place(s, at_place(k)) = k
  BY <1>8
<1>10. Fill!Downwards(s) = [k \in D |-> s[at_place(k)]]
  BY <1>1 DEF Fill!Downwards
<1> HIDE DEF at_place, place
<1>11. Fill!Downwards(s) \in [1 .. n -> Nat]
  BY <1>1, <1>9, <1>10
<1>12. Fill!Downwards(s) \in Seq(Nat) /\ Len(Fill!Downwards(s)) = n
  BY <1>1, <1>11
<1>13. \A i \in D : \E k \in D : Fill!Downwards(s)[k] = s[i]
  <2> SUFFICES ASSUME NEW i \in D PROVE \E k \in D : Fill!Downwards(s)[k] = s[i]
    OBVIOUS
  <2>1. Fill!Place(s, i) \in D
    BY <1>3
  <2>2. at_place(Fill!Place(s, i)) = i
    BY <1>5, <1>9, <2>1
  <2> QED BY <1>10, <2>1, <2>2
<1> QED
  BY <1>12, <1>13 DEF n

(* Numbers of the range, and the digits that the prefixes are cut by.      *)
LEMMA RangeIs ==
  ASSUME indexed \subseteq Numbers, \A n \in indexed : n >= Low
  PROVE  \E top \in Nat : Fill!InRange = Low .. top /\ top \notin indexed /\ Low <= top
<1>1. CASE indexed = {}
  <2>1. Fill!InRange = Low .. (Low + Window - 1)
    BY <1>1 DEF Fill!InRange
  <2>2. Low + Window - 1 \in Nat /\ Low <= Low + Window - 1
    BY FillFacts
  <2> QED BY <1>1, <2>1, <2>2
<1>2. CASE indexed # {}
  <2>1. indexed \subseteq Nat /\ IsFiniteSet(indexed)
    BY FillFacts, FS_Subset
  <2>2. Fill!Max(indexed) \in indexed /\ \A y \in indexed : y <= Fill!Max(indexed)
    BY <1>2, <2>1, Largest
  <2> DEFINE x == Fill!Max(indexed)
  <2>3. Fill!InRange = Low .. (x + Limit)
    BY <1>2 DEF Fill!InRange
  <2> HIDE DEF x
  <2>4. x \in Nat /\ x >= Low /\ Limit \in Nat \ {0} /\ Low \in Nat
    BY <2>1, <2>2, FillFacts DEF x
  <2>5. x + Limit \in Nat /\ Low <= x + Limit
    BY <2>4
  <2>6. x + Limit \notin indexed
    BY <2>2, <2>4 DEF x
  <2> QED BY <2>3, <2>5, <2>6
<1> QED
  BY <1>1, <1>2

Absent == {n \in stored : n \in Fill!InRange /\ n \notin indexed}

TopMissing == Fill!Max(Fill!InRange \ indexed)

LEMMA TopMissingIs ==
  ASSUME indexed \subseteq Numbers, \A n \in indexed : n >= Low
  PROVE  TopMissing \in Nat /\ \A n \in Absent : n \in Nat /\ n <= TopMissing
<1>1. PICK top \in Nat : Fill!InRange = Low .. top /\ top \notin indexed /\ Low <= top
  BY RangeIs
<1> DEFINE S == Fill!InRange \ indexed
<1>2. Low .. top \subseteq Nat /\ IsFiniteSet(Low .. top) /\ top \in Low .. top
  BY <1>1, FillFacts, FS_Interval
<1>3. S \subseteq Nat /\ IsFiniteSet(S) /\ S # {}
  BY <1>1, <1>2, FS_Subset
<1>4. TopMissing = Fill!Max(S) /\ \A n \in Absent : n \in S
  BY DEF TopMissing, Absent
<1> HIDE DEF S
<1> QED
  BY <1>3, <1>4, Largest

Block == Base^Fill!ExtraDigits

LEMMA ExtraDigitsAre ==
  ASSUME indexed \subseteq Numbers, \A n \in indexed : n >= Low
  PROVE  Fill!ExtraDigits \in 0 .. MaxDigits /\ Block \in Nat \ {0}
<1> DEFINE S == {Limit} \cup {Fill!Max(indexed) - Low : i \in indexed}
           L == Fill!Span
<1>1. S \subseteq Nat
  <2>1. CASE indexed = {}
    <3>1. S = {Limit}
      BY <2>1
    <3> QED BY <3>1, FillFacts
  <2>2. CASE indexed # {}
    <3>1. indexed \subseteq Nat /\ IsFiniteSet(indexed)
      BY FillFacts, FS_Subset
    <3>2. Fill!Max(indexed) \in indexed
      BY <2>2, <3>1, Largest
    <3>3. Fill!Max(indexed) - Low \in Nat
      <4>1. Fill!Max(indexed) \in Nat /\ Fill!Max(indexed) >= Low
        BY <3>1, <3>2
      <4>2. Low \in Nat
        BY FillFacts
      <4>3. \A m, l \in Nat : m >= l => m - l \in Nat
        OBVIOUS
      <4> QED BY <4>1, <4>2, <4>3
    <3> QED BY <3>3, FillFacts
  <2> QED BY <2>1, <2>2
<1>2. L = Fill!Min(S)
  BY DEF Fill!Span
<1>3. L \in Nat /\ L <= Limit
  <2>1. Limit \in S
    OBVIOUS
  <2> HIDE DEF S
  <2>2. \E i \in S : \A j \in S : i <= j
    BY <1>1, <2>1, Least
  <2>3. Fill!Min(S) \in S /\ \A j \in S : Fill!Min(S) <= j
    BY <2>2 DEF Fill!Min
  <2> QED BY <1>1, <1>2, <2>1, <2>3
<1> HIDE DEF L, S
<1> DEFINE enough(d) == Fill!Enough(d)
           F == {d \in 1 .. Limit : enough(d)}
<1>4. \A d \in 1 .. Limit : L < Base^d => enough(d)
  <2>1. \A d \in 1 .. Limit : Base^d \in Nat
    BY FillFacts
  <2> QED
    BY <1>3, <2>1 DEF Fill!Enough, L
<1> HIDE DEF enough
<1>5. F \subseteq Nat /\ Limit \in F
  <2>1. Limit \in 1 .. Limit /\ Base^Limit \in Nat /\ Limit < Base^Limit
    BY FillFacts
  <2>2. L < Base^Limit
    BY <1>3, <2>1
  <2> QED BY <1>4, <2>1, <2>2
<1>6. PICK d \in F : \A j \in F : d <= j
  <2> HIDE DEF F
  <2> QED BY <1>5, Least
<1>7. d \in 1 .. Limit /\ enough(d) /\ \A e \in 1 .. (d - 1) : ~enough(e)
  <2> SUFFICES ASSUME NEW e \in 1 .. (d - 1) PROVE ~enough(e)
    OBVIOUS
  <2>1. e \in 1 .. Limit /\ ~(d <= e)
    BY <1>6, FillFacts
  <2> QED BY <1>6, <2>1
<1> DEFINE E == Fill!ExtraDigits
<1>8. E \in 1 .. Limit /\ \A e \in 1 .. (E - 1) : ~enough(e)
  <2>1. E = CHOOSE x \in 1 .. Limit : enough(x) /\ \A e \in 1 .. (x - 1) : ~enough(e)
    BY DEF Fill!ExtraDigits, enough
  <2> HIDE DEF E
  <2> QED BY <1>7, <2>1
<1> HIDE DEF E
<1>9. E <= MaxDigits
  <2> SUFFICES ASSUME ~(E <= MaxDigits) PROVE FALSE
    OBVIOUS
  <2>1. E \in Int /\ MaxDigits \in Nat \ {0}
    BY <1>8, FillFacts
  <2>2. MaxDigits \in 1 .. (E - 1) /\ MaxDigits \in 1 .. Limit
    <3>1. E \in Nat /\ E <= Limit /\ Limit \in Nat /\ MaxDigits \in Nat \ {0}
      BY <1>8, FillFacts
    <3>2. MaxDigits < E
      BY <2>1
    <3> QED BY <3>1, <3>2
  <2>3. Base^MaxDigits \in Nat /\ Limit < Base^MaxDigits
    <3>1. MaxDigits \in 0 .. Limit
      BY <2>2
    <3> QED BY <3>1, FillFacts
  <2>4. L < Base^MaxDigits
    BY <1>3, <2>3, FillFacts
  <2> QED BY <1>4, <1>8, <2>2, <2>4
<1>10. Base^E \in Nat \ {0}
  BY <1>8, FillFacts
<1>11. E \in 0 .. MaxDigits
  BY <1>8, <1>9, FillFacts
<1> QED
  BY <1>10, <1>11 DEF E, Block

(* Quotients by what the prefixes are cut by.                              *)
LEMMA Quotients ==
  ASSUME NEW b \in Nat \ {0}, NEW n \in Nat
  PROVE  /\ n \div b \in Int
         /\ \A m \in Nat : n <= m => n \div b <= m \div b
         /\ n >= b => n \div b >= 1
         /\ \A q \in Int : n >= (q + 1) * b => n \div b >= q + 1
<1>1. /\ n \div b \in Int /\ n % b \in Int
      /\ n = b * (n \div b) + (n % b) /\ 0 <= n % b /\ n % b < b
  BY QuotientIs
<1> DEFINE x == n \div b
<1>2. b * x <= n /\ n < b * x + b /\ x \in Int /\ b * x \in Int
  BY <1>1
<1> HIDE DEF x
<1>3. ASSUME NEW m \in Nat, n <= m PROVE x <= m \div b
  <2>1. /\ m \div b \in Int /\ m % b \in Int
        /\ m = b * (m \div b) + (m % b) /\ 0 <= m % b /\ m % b < b
    BY QuotientIs
  <2> DEFINE y == m \div b
  <2>2. m < b * y + b /\ y \in Int /\ b * y \in Int
    BY <2>1
  <2> HIDE DEF y
  <2>3. b * x < b * y + b
    BY <1>2, <1>3, <2>2
  <2>4. x <= y
    BY <1>2, <2>2, <2>3, MultiplesApart
  <2> QED BY <2>4 DEF y
<1>4. ASSUME NEW q \in Int, n >= (q + 1) * b PROVE x >= q + 1
  <2>1. (q + 1) * b = b * (q + 1) /\ b * (q + 1) \in Int
    OBVIOUS
  <2>2. b * (q + 1) < b * x + b
    BY <1>2, <1>4, <2>1
  <2>3. q + 1 \in Int
    OBVIOUS
  <2>4. q + 1 <= x
    BY <1>2, <2>2, <2>3, MultiplesApart
  <2> QED BY <1>2, <2>4
<1>5. ASSUME n >= b PROVE x >= 1
  <2>1. (0 + 1) * b = b
    OBVIOUS
  <2>2. n >= (0 + 1) * b
    BY <1>5, <2>1
  <2> QED BY <1>4, <2>2
<1> QED
  BY <1>2, <1>3, <1>4, <1>5 DEF x

Long == {n \in Absent : n >= Block}

GotOf(n) == \E i \in DOMAIN in_s3 : in_s3[i] = n

FillShape ==
  /\ stored \subseteq Numbers /\ indexed \subseteq Numbers /\ \A n \in indexed : n >= Low
  /\ in_s3 \in Seq(Nat) /\ requested \in Seq(Nat) /\ prefix \in Int

ScanInv ==
  /\ scan \in {"scan", "sort"} =>
       prefix >= -1 /\ \A n \in Long : n \div Block > prefix => GotOf(n)
  /\ scan = "sort" => prefix = -1
  /\ scan \in {"queue", "done"} /\ Len(in_s3) < Limit => \A n \in Long : GotOf(n)

QueueInv ==
  /\ scan \in {"check", "scan", "sort"} => requested = << >>
  /\ scan \in {"queue", "done"} =>
       Len(requested) <= Len(in_s3) /\ \A i \in DOMAIN requested : requested[i] = in_s3[i]
  /\ scan = "done" => Len(requested) = Len(in_s3)

FillInv == FillShape /\ ScanInv /\ QueueInv

LEMMA LongAre ==
  ASSUME FillShape
  PROVE  /\ Block \in Nat \ {0} /\ Fill!ExtraDigits \in 0 .. MaxDigits
         /\ \A n \in Long : /\ n \in Nat /\ n \div Block \in Int /\ n \div Block >= 1
                            /\ n >= Low /\ n \in Absent
<1>1. Block \in Nat \ {0} /\ Fill!ExtraDigits \in 0 .. MaxDigits
  BY ExtraDigitsAre DEF FillShape
<1>2. PICK top \in Nat : Fill!InRange = Low .. top
  BY RangeIs DEF FillShape
<1>3. \A n \in Absent : n \in Nat /\ n >= Low
  BY <1>2, FillFacts DEF Absent
<1>4. ASSUME NEW n \in Long
      PROVE  /\ n \in Nat /\ n \div Block \in Int /\ n \div Block >= 1
             /\ n >= Low /\ n \in Absent
  <2>1. n \in Absent /\ n >= Block /\ n \in Nat /\ n >= Low
    BY <1>3 DEF Long
  <2> QED BY <1>1, <2>1, Quotients
<1> QED
  BY <1>1, <1>4

LEMMA SameNumbers ==
  ASSUME stored' = stored, indexed' = indexed
  PROVE  Long' = Long /\ Block' = Block /\ Absent' = Absent
BY DEF Long, Block, Absent, Fill!InRange, Fill!ExtraDigits, Fill!Enough, Fill!Span

LEMMA CheckKeeps ==
  ASSUME FillInv, Fill!Check PROVE FillInv'
<1>1. /\ stored' = stored /\ indexed' = indexed /\ in_s3' = in_s3 /\ requested' = requested
      /\ scan = "check"
  BY DEF Fill!Check
<1>2. requested = << >> /\ FillShape
  BY <1>1 DEF FillInv, QueueInv
<1>3. CASE scan' = "error" /\ prefix' = prefix
  BY <1>1, <1>3 DEF FillInv, FillShape, ScanInv, QueueInv
<1>4. CASE scan' = "scan" /\ prefix' = Fill!FirstPrefix(TopMissing)
  <2> DEFINE q == TopMissing \div Block
  <2>1. TopMissing \in Nat /\ \A n \in Absent : n \in Nat /\ n <= TopMissing
    BY <1>2, TopMissingIs DEF FillShape
  <2>2. Block \in Nat \ {0} /\ \A n \in Long : n \in Nat /\ n \div Block \in Int /\ n \div Block >= 1 /\ n \in Absent
    BY <1>2, LongAre
  <2>3. q \in Int
    BY <2>1, <2>2, Quotients
  <2>4. \A n \in Long : n \div Block <= q
    BY <2>1, <2>2, Quotients
  <2>5. q >= 0
    <3>1. TopMissing >= (-1 + 1) * Block
      BY <2>1, <2>2
    <3>2. TopMissing \div Block >= -1 + 1
      BY <2>1, <2>2, <3>1, Quotients
    <3> QED BY <3>2
  <2>6. prefix' = IF q = 0 THEN -1 ELSE q
    BY <1>4 DEF Fill!FirstPrefix, Fill!NoPrefix, Block
  <2> HIDE DEF q
  <2>7. prefix' \in Int /\ prefix' >= -1
    BY <2>3, <2>5, <2>6
  <2>8. \A n \in Long : ~(n \div Block > prefix')
    <3> SUFFICES ASSUME NEW n \in Long PROVE ~(n \div Block > prefix')
      OBVIOUS
    <3>1. n \div Block \in Int /\ n \div Block >= 1 /\ n \div Block <= q
      BY <2>2, <2>4
    <3> QED BY <2>3, <2>6, <3>1
  <2>9. Long' = Long /\ Block' = Block
    BY <1>1, SameNumbers
  <2>10. FillShape'
    BY <1>1, <1>2, <2>7 DEF FillShape
  <2>11. ScanInv'
    BY <1>4, <2>7, <2>8, <2>9 DEF ScanInv
  <2>12. QueueInv'
    BY <1>1, <1>2, <1>4 DEF QueueInv
  <2> QED BY <2>10, <2>11, <2>12 DEF FillInv
<1> QED
  BY <1>3, <1>4 DEF Fill!Check, TopMissing

LEMMA ScanKeeps ==
  ASSUME FillInv, Fill!Scan PROVE FillInv'
<1> DEFINE S == Fill!Missing(prefix)
           more == Fill!SetToSeq(S)
<1>1. /\ stored' = stored /\ indexed' = indexed /\ requested' = requested
      /\ scan = "scan" /\ prefix # 0 /\ in_s3' = in_s3 \o more
      /\ IF prefix = -1 THEN scan' = "sort" /\ prefix' = prefix
                        ELSE scan' = "scan" /\ prefix' = prefix - 1
  BY DEF Fill!Scan, Fill!More, Fill!NoPrefix
<1>2. /\ requested = << >> /\ FillShape /\ prefix \in Int /\ prefix >= -1
      /\ \A n \in Long : n \div Block > prefix => GotOf(n)
  BY <1>1 DEF FillInv, QueueInv, ScanInv, FillShape
<1>3. IsFiniteSet(S) /\ S \subseteq Nat
  <2>1. PICK top \in Nat : Fill!InRange = Low .. top
    BY <1>2, RangeIs DEF FillShape
  <2>2. IsFiniteSet(Low .. top) /\ Low .. top \subseteq Nat
    BY FillFacts, FS_Interval
  <2>3. S \subseteq Low .. top
    BY <2>1 DEF Fill!Missing
  <2> QED BY <2>2, <2>3, FS_Subset
<1>4. more = Cover!SetToSeq(S)
  BY DEF Fill!SetToSeq, Cover!SetToSeq, Fill!Cardinality, Cover!Cardinality,
         Fill!IsInjective, Cover!IsInjective
<1> HIDE DEF S, more
<1>5. /\ Cardinality(S) \in Nat /\ more \in [1 .. Cardinality(S) -> S]
      /\ {more[i] : i \in DOMAIN more} = S
  BY <1>3, <1>4, SequenceOfSet
<1>6. more \in Seq(Nat) /\ in_s3 \in Seq(Nat)
  <2>1. more \in [1 .. Cardinality(S) -> Nat]
    BY <1>3, <1>5
  <2>2. more \in Seq(Nat)
    BY <1>5, <2>1
  <2> QED BY <1>2, <2>2 DEF FillShape
<1>7. in_s3' \in Seq(Nat)
  BY <1>1, <1>6
<1>8. \A n : GotOf(n) \/ n \in S => GotOf(n)'
  <2> SUFFICES ASSUME NEW n, GotOf(n) \/ n \in S
               PROVE  \E k \in DOMAIN (in_s3') : in_s3'[k] = n
    BY DEF GotOf
  <2> DEFINE a == Len(in_s3)
             b == Len(more)
  <2>1. a \in Nat /\ b \in Nat /\ DOMAIN in_s3 = 1 .. a /\ DOMAIN more = 1 .. b
    BY <1>6
  <2>2. DOMAIN (in_s3') = 1 .. a + b
    BY <1>1, <1>6
  <2>3. /\ \A i \in 1 .. a : in_s3'[i] = in_s3[i]
        /\ \A i \in 1 .. b : in_s3'[a + i] = more[i]
    BY <1>1, <1>6
  <2> HIDE DEF a, b
  <2>4. CASE GotOf(n)
    <3>1. PICK i \in 1 .. a : in_s3[i] = n
      BY <2>1, <2>4 DEF GotOf
    <3>2. i \in 1 .. a + b
      BY <2>1
    <3> QED BY <2>2, <2>3, <3>1, <3>2
  <2>5. CASE n \in S
    <3>1. PICK i \in 1 .. b : more[i] = n
      BY <1>5, <2>1, <2>5
    <3>2. a + i \in 1 .. a + b
      BY <2>1
    <3> QED BY <2>2, <2>3, <3>1, <3>2
  <2> QED BY <2>4, <2>5
<1>9. \A n \in Long : n \div Block = prefix => n \in S
  <2> SUFFICES ASSUME NEW n \in Long, n \div Block = prefix PROVE n \in S
    OBVIOUS
  <2>1. n \in Absent /\ Fill!ExtraDigits \in 0 .. MaxDigits
    BY <1>2, LongAre
  <2>2. Fill!BeginsWith(n, prefix)
    BY <2>1 DEF Fill!BeginsWith, Block
  <2> QED BY <2>1, <2>2 DEF S, Fill!Missing, Absent
<1>10. Long' = Long /\ Block' = Block
  BY <1>1, SameNumbers
<1>11. /\ prefix' \in Int /\ prefix' >= -1 /\ scan' \in {"scan", "sort"}
       /\ (scan' = "sort" => prefix' = -1)
       /\ prefix' = prefix \/ prefix' = prefix - 1
  BY <1>1, <1>2
<1>12. \A n \in Long : n \div Block > prefix' => GotOf(n)'
  <2> SUFFICES ASSUME NEW n \in Long, n \div Block > prefix' PROVE GotOf(n)'
    OBVIOUS
  <2>1. n \div Block \in Int
    BY <1>2, LongAre
  <2>2. n \div Block > prefix \/ n \div Block = prefix
    BY <1>2, <1>11, <2>1
  <2>3. GotOf(n) \/ n \in S
    BY <1>2, <1>9, <2>2
  <2> QED BY <1>8, <2>3
<1>13. FillShape'
  BY <1>1, <1>2, <1>7, <1>11 DEF FillShape
<1>14. ScanInv'
  BY <1>10, <1>11, <1>12 DEF ScanInv
<1>15. QueueInv'
  BY <1>1, <1>2, <1>11 DEF QueueInv
<1> QED
  BY <1>13, <1>14, <1>15 DEF FillInv

LEMMA SelectKeeps ==
  ASSUME FillInv, Fill!Select PROVE FillInv'
<1> DEFINE down == Fill!Downwards(in_s3)
           size == Fill!Min({Len(in_s3), Limit})
<1>1. /\ stored' = stored /\ indexed' = indexed /\ requested' = requested /\ prefix' = prefix
      /\ scan' = "queue" /\ in_s3' = SubSeq(down, 1, size)
      /\ scan = "sort" \/ (scan = "scan" /\ ~Fill!More)
  BY DEF Fill!Select
<1>2. /\ requested = << >> /\ FillShape /\ prefix \in Int /\ prefix >= -1
      /\ in_s3 \in Seq(Nat) /\ Len(in_s3) \in Nat
      /\ \A n \in Long : n \div Block > prefix => GotOf(n)
  BY <1>1 DEF FillInv, QueueInv, ScanInv, FillShape
<1>3. /\ down \in Seq(Nat) /\ Len(down) = Len(in_s3)
      /\ \A i \in 1 .. Len(in_s3) : \E k \in 1 .. Len(in_s3) : down[k] = in_s3[i]
  BY <1>2, DownwardsHasAll
<1>4. size = IF Len(in_s3) <= Limit THEN Len(in_s3) ELSE Limit
  <2>1. {Len(in_s3), Limit} \subseteq Nat
    BY <1>2, FillFacts
  <2>2. Fill!Min({Len(in_s3), Limit}) \in {Len(in_s3), Limit}
        /\ \A j \in {Len(in_s3), Limit} : Fill!Min({Len(in_s3), Limit}) <= j
    <3> DEFINE F == {Len(in_s3), Limit}
    <3>1. F # {}
      OBVIOUS
    <3> HIDE DEF F
    <3>2. \E i \in F : \A j \in F : i <= j
      BY <2>1, <3>1, Least DEF F
    <3>3. Fill!Min(F) \in F /\ \A j \in F : Fill!Min(F) <= j
      BY <3>2 DEF Fill!Min
    <3> QED BY <3>3 DEF F
  <2> QED BY <1>2, <2>2, FillFacts
<1>5. size \in Nat /\ size <= Len(in_s3)
  BY <1>2, <1>4, FillFacts
<1> HIDE DEF down, size
<1>6. in_s3' \in Seq(Nat) /\ Len(in_s3') = size
  <2>1. size \in 0 .. Len(down)
    BY <1>3, <1>5
  <2>2. \A k \in 0 .. Len(down) : SubSeq(down, 1, k) \in Seq(Nat) /\ Len(SubSeq(down, 1, k)) = k
    BY <1>3
  <2> QED BY <1>1, <2>1, <2>2
<1>7. Long' = Long /\ Block' = Block
  BY <1>1, SameNumbers
<1>8. ASSUME size < Limit, NEW n \in Long PROVE GotOf(n)'
  <2>1. size = Len(in_s3) /\ Len(in_s3) < Limit
    BY <1>2, <1>4, <1>8, FillFacts
  <2>2. /\ Block \in Nat \ {0} /\ n \in Nat /\ n \div Block \in Int /\ n \div Block >= 1 /\ n >= Low
    BY <1>2, LongAre
  <2>3. n \div Block > prefix
    <3>1. CASE scan = "sort"
      <4>1. prefix = -1
        BY <3>1 DEF FillInv, ScanInv
      <4> QED BY <2>2, <4>1
    <3>2. CASE ~Fill!More
      <4>1. prefix = 0 \/ ~(Low <= Fill!PrefixMax(prefix))
        BY <2>1, <3>2 DEF Fill!More
      <4>2. CASE prefix = 0 \/ prefix = -1
        BY <2>2, <4>2
      <4>3. CASE prefix # -1 /\ ~(Low <= Fill!PrefixMax(prefix))
        <5>1. Fill!PrefixMax(prefix) = (prefix + 1) * Block - 1
          BY <4>3 DEF Fill!PrefixMax, Fill!NoPrefix, Block
        <5>2. (prefix + 1) * Block \in Int
          BY <1>2, <2>2
        <5>3. n >= (prefix + 1) * Block
          BY <2>2, <4>3, <5>1, <5>2, FillFacts
        <5>4. n \div Block >= prefix + 1
          BY <1>2, <2>2, <5>3, Quotients
        <5>5. \A x, y \in Int : x >= y + 1 => x > y
          OBVIOUS
        <5> QED BY <1>2, <2>2, <5>4, <5>5
      <4> QED BY <4>1, <4>2, <4>3
    <3> QED BY <1>1, <3>1, <3>2
  <2>4. PICK i \in 1 .. Len(in_s3) : in_s3[i] = n
    BY <1>2, <2>3 DEF GotOf
  <2>5. PICK k \in 1 .. Len(in_s3) : down[k] = n
    BY <1>3, <2>4
  <2>6. DOMAIN (in_s3') = 1 .. Len(in_s3)
    BY <1>6, <2>1
  <2>7. in_s3'[k] = down[k]
    <3>1. SubSeq(down, 1, Len(in_s3)) = down
      BY <1>3, SubSeqFull
    <3> QED BY <1>1, <2>1, <3>1
  <2> QED BY <2>5, <2>6, <2>7 DEF GotOf
<1>9. FillShape'
  BY <1>1, <1>2, <1>6 DEF FillShape
<1>10. ScanInv'
  BY <1>1, <1>6, <1>7, <1>8 DEF ScanInv
<1>11. QueueInv'
  <2>1. requested' = << >> /\ Len(requested') = 0 /\ DOMAIN (requested') = {}
    BY <1>1, <1>2
  <2> QED BY <1>1, <1>5, <1>6, <2>1 DEF QueueInv
<1> QED
  BY <1>9, <1>10, <1>11 DEF FillInv

LEMMA QueueKeeps ==
  ASSUME FillInv, Fill!QueueKeys \/ Fill!QueueFails \/ Fill!Done PROVE FillInv'
<1>1. /\ stored' = stored /\ indexed' = indexed /\ prefix' = prefix /\ in_s3' = in_s3
      /\ scan = "queue"
  BY DEF Fill!QueueKeys, Fill!QueueFails, Fill!Done
<1>2. /\ FillShape /\ in_s3 \in Seq(Nat) /\ requested \in Seq(Nat)
      /\ Len(requested) <= Len(in_s3) /\ \A i \in DOMAIN requested : requested[i] = in_s3[i]
      /\ (Len(in_s3) < Limit => \A n \in Long : GotOf(n))
  BY <1>1 DEF FillInv, FillShape, ScanInv, QueueInv
<1>3. Long' = Long /\ \A n : GotOf(n)' = GotOf(n)
  BY <1>1, SameNumbers DEF GotOf
<1>4. CASE Fill!QueueKeys
  <2> DEFINE k == Len(requested)
  <2>1. scan' = scan /\ k < Len(in_s3) /\ requested' = Append(requested, in_s3[k + 1])
    BY <1>4 DEF Fill!QueueKeys
  <2>2. k \in Nat /\ Len(in_s3) \in Nat /\ in_s3[k + 1] \in Nat
    BY <1>2, <2>1
  <2>3. requested' \in Seq(Nat) /\ Len(requested') = k + 1
    BY <1>2, <2>1, <2>2
  <2>4. \A i \in DOMAIN (requested') : requested'[i] = in_s3'[i]
    <3> SUFFICES ASSUME NEW i \in 1 .. k + 1 PROVE requested'[i] = in_s3[i]
      BY <1>1, <2>3
    <3>1. CASE i = k + 1
      BY <1>2, <2>1, <2>2, <3>1
    <3>2. CASE i # k + 1
      <4>1. i \in 1 .. k /\ i \in DOMAIN requested
        BY <1>2, <2>2, <3>2
      <4> QED BY <1>2, <2>1, <2>2, <4>1
    <3> QED BY <3>1, <3>2
  <2>5. FillShape'
    BY <1>1, <1>2, <2>3 DEF FillShape
  <2>6. ScanInv'
    BY <1>1, <1>2, <1>3, <2>1 DEF ScanInv
  <2>7. QueueInv'
    BY <1>1, <2>1, <2>2, <2>3, <2>4 DEF QueueInv
  <2> QED BY <2>5, <2>6, <2>7 DEF FillInv
<1>5. CASE Fill!QueueFails
  <2>1. scan' = "error" /\ requested' = requested
    BY <1>5 DEF Fill!QueueFails
  <2> QED BY <1>1, <1>2, <2>1 DEF FillInv, FillShape, ScanInv, QueueInv
<1>6. CASE Fill!Done
  <2>1. scan' = "done" /\ requested' = requested /\ Len(requested) = Len(in_s3)
    BY <1>6 DEF Fill!Done
  <2>2. FillShape'
    BY <1>1, <1>2, <2>1 DEF FillShape
  <2>3. ScanInv'
    BY <1>1, <1>2, <1>3, <2>1 DEF ScanInv
  <2>4. QueueInv'
    BY <1>1, <1>2, <2>1 DEF QueueInv
  <2> QED BY <2>2, <2>3, <2>4 DEF FillInv
<1> QED
  BY <1>4, <1>5, <1>6

(* backfill.py 18-166: a backfill that ends and has queued less than its   *)
(* limit has queued every missing number of the range, but for those with  *)
(* no more than the extra digits.                                          *)
THEOREM BackfillLeavesNothing == Fill!Spec => []BackfillIsComplete
<1>1. Fill!BackfillInit => FillInv
  <2> SUFFICES ASSUME Fill!BackfillInit PROVE FillInv
    OBVIOUS
  <2>1. /\ stored \subseteq Numbers /\ indexed \subseteq Numbers /\ \A n \in indexed : n >= Low
        /\ scan = "check" /\ prefix = -1 /\ in_s3 = << >> /\ requested = << >>
    BY DEF Fill!BackfillInit, Fill!NoPrefix
  <2> QED BY <2>1 DEF FillInv, FillShape, ScanInv, QueueInv
<1>2. FillInv /\ [Fill!Next]_fillVars => FillInv'
  <2> SUFFICES ASSUME FillInv, [Fill!Next]_fillVars PROVE FillInv'
    OBVIOUS
  <2>1. CASE UNCHANGED fillVars
    <3>1. /\ stored' = stored /\ indexed' = indexed /\ scan' = scan /\ prefix' = prefix
          /\ in_s3' = in_s3 /\ requested' = requested
      BY <2>1 DEF fillVars
    <3>2. Long' = Long /\ Block' = Block /\ \A n : GotOf(n)' = GotOf(n)
      BY <3>1, SameNumbers DEF GotOf
    <3> QED BY <3>1, <3>2 DEF FillInv, FillShape, ScanInv, QueueInv
  <2> QED
    BY <2>1, CheckKeeps, ScanKeeps, SelectKeeps, QueueKeeps DEF Fill!Next
<1>3. FillInv => BackfillIsComplete
  <2> SUFFICES ASSUME FillInv, scan = "done", Len(in_s3) < Limit,
                      NEW n \in stored \cap Fill!InRange, n \notin indexed,
                      ~(n < Base^Fill!ExtraDigits)
               PROVE  Fill!Contains(requested, n)
    BY DEF BackfillIsComplete, Fill!BackfillIsComplete
  <2>1. /\ FillShape /\ in_s3 \in Seq(Nat) /\ requested \in Seq(Nat)
        /\ Len(requested) = Len(in_s3) /\ \A i \in DOMAIN requested : requested[i] = in_s3[i]
        /\ \A l \in Long : GotOf(l)
    BY DEF FillInv, FillShape, ScanInv, QueueInv
  <2>2. n \in Absent /\ n \in Nat
    BY <2>1, TopMissingIs DEF FillShape, Absent
  <2>3. n \in Long
    <3>1. Block \in Nat
      BY <2>1, ExtraDigitsAre DEF FillShape
    <3>2. n >= Block
      BY <2>2, <3>1 DEF Block
    <3> QED BY <2>2, <3>2 DEF Long
  <2>4. PICK i \in DOMAIN in_s3 : in_s3[i] = n
    BY <2>1, <2>3 DEF GotOf
  <2>5. i \in 1 .. Len(requested) /\ requested[i] = n
    BY <2>1, <2>4
  <2> QED BY <2>5 DEF Fill!Contains
<1> QED
  BY <1>1, <1>2, <1>3, PTL DEF Fill!Spec, Fill!fillVars, fillVars

-----------------------------------------------------------------------------
(* AutoBackfill.  The groups that are still to be looked at are apart, and *)
(* a number is in one of them, or was queued, or was never missing.  A     *)
(* group is divided into groups that are apart and leave nothing out.      *)

Group == [number : Nat, whole : BOOLEAN]

(* Groups that keys are divided into: not the root, and no names without a *)
(* first digit.                                                            *)
RealGroup(g) == g \in Group /\ (~g.whole => g.number > 0)

LEMMA Products ==
  ASSUME NEW a \in Nat, NEW b \in Nat, NEW p \in Nat \ {0}
  PROVE  /\ a * p \in Nat /\ (a + 1) * p = a * p + p
         /\ a <= b => a * p <= b * p
         /\ a > 0 => a * p >= p /\ a * p >= a
<1>1. a * p \in Nat /\ (a + 1) * p = a * p + p
  OBVIOUS
<1>2. \A d \in Nat : d * p >= 0
  OBVIOUS
<1>3. ASSUME a <= b PROVE a * p <= b * p
  <2>1. (b - a) * p >= 0 /\ (b - a) * p = b * p - a * p
    BY <1>2, <1>3
  <2> QED
    BY <2>1
<1>4. ASSUME a > 0 PROVE a * p >= p /\ a * p >= a
  <2>1. (a - 1) * p >= 0 /\ (a - 1) * p = a * p - p
    BY <1>2, <1>4
  <2>2. a * (p - 1) >= 0 /\ a * (p - 1) = a * p - a
    OBVIOUS
  <2> QED
    BY <2>1, <2>2
<1> QED
  BY <1>1, <1>3, <1>4

LEMMA ObjectFacts ==
  ASSUME NEW n \in ObjectIds
  PROVE  /\ n \in Nat /\ 0 < n /\ n < 10^MaxLength
         /\ MaxLength \in Nat \ {0}
         /\ \E d \in 1 .. MaxLength : 10^(d - 1) <= n /\ n < 10^d
<1>1. MaxLength \in Nat \ {0} /\ n \in Nat
  BY ImportsAssumption DEF AutoFill!AutoAssumption
<1>2. PICK d \in 1 .. MaxLength : 10^(d - 1) <= n /\ n < 10^d
  BY ImportsAssumption DEF AutoFill!AutoAssumption, AutoFill!HasDigits
<1>3. 10^(d - 1) \in Nat \ {0}
  <2>1. d - 1 \in 0 .. MaxLength
    BY <1>1
  <2> QED
    BY <2>1, ImportsAssumption DEF AutoFill!AutoAssumption, AutoFill!PowersOfTen
<1>4. 10^d <= 10^MaxLength /\ 10^d \in Nat \ {0} /\ 10^MaxLength \in Nat \ {0}
  <2>1. d \in 0 .. MaxLength /\ MaxLength \in 0 .. MaxLength
    BY <1>1
  <2>2. 10^d \in Nat \ {0} /\ 10^MaxLength \in Nat \ {0} /\ (d < MaxLength => 10 * 10^d <= 10^MaxLength)
    BY <2>1, ImportsAssumption DEF AutoFill!AutoAssumption, AutoFill!PowersOfTen
  <2>3. d < MaxLength \/ d = MaxLength
    BY <1>1
  <2> DEFINE x == 10^d
             y == 10^MaxLength
  <2>4. x \in Nat /\ y \in Nat /\ (10 * x <= y \/ x = y)
    BY <2>2, <2>3
  <2> HIDE DEF x, y
  <2>5. x <= y
    BY <2>4
  <2> QED
    BY <2>2, <2>5 DEF x, y
<1> QED
  <2> DEFINE x == 10^d
             y == 10^MaxLength
             z == 10^(d - 1)
  <2>1. x \in Nat /\ y \in Nat /\ z \in Nat \ {0} /\ z <= n /\ n < x /\ x <= y
    BY <1>2, <1>3, <1>4
  <2> HIDE DEF x, y, z
  <2>2. 0 < n /\ n < y
    BY <1>1, <2>1
  <2> QED
    BY <1>1, <1>2, <2>2 DEF y

(* The powers of ten, as a function.                                       *)
Ten == [d \in 0 .. MaxLength |-> 10^d]

LEMMA TenFacts ==
  /\ MaxLength \in Nat \ {0}
  /\ Ten \in [0 .. MaxLength -> Nat \ {0}]
  /\ Ten[0] = 1
  /\ \A d \in 1 .. MaxLength : Ten[d] = 10 * Ten[d - 1]
  /\ \A d, e \in 0 .. MaxLength : d < e => 10 * Ten[d] <= Ten[e]
  /\ \A n \in ObjectIds : /\ n \in Nat /\ 0 < n /\ n < Ten[MaxLength]
                          /\ \E d \in 1 .. MaxLength : Ten[d - 1] <= n /\ n < Ten[d]
<1>1. MaxLength \in Nat \ {0} /\ AutoFill!PowersOfTen
  BY ImportsAssumption DEF AutoFill!AutoAssumption
<1>2. 0 \in 0 .. MaxLength /\ MaxLength \in 0 .. MaxLength
      /\ \A d \in 1 .. MaxLength : d \in 0 .. MaxLength /\ d - 1 \in 0 .. MaxLength
  BY <1>1
<1> QED
  BY <1>1, <1>2, ObjectFacts DEF Ten, AutoFill!PowersOfTen

(* n is k and d more digits.                                               *)
Starts(n, k, d) == k * Ten[d] <= n /\ n < k * Ten[d] + Ten[d]

LEMMA InGroupIs ==
  ASSUME NEW n \in ObjectIds, NEW g \in Group
  PROVE  /\ g.whole => (AutoFill!InGroup(n, g) <=> n = g.number)
         /\ ~g.whole => (AutoFill!InGroup(n, g) <=> \E d \in 0 .. MaxLength : Starts(n, g.number, d))
         /\ ~g.whole /\ g.number = 0 => AutoFill!InGroup(n, g)
<1>1. g.number \in Nat
  BY DEF Group
<1>2. ASSUME NEW d \in 0 .. MaxLength PROVE AutoFill!Begins(n, g.number, d) <=> Starts(n, g.number, d)
  <2>1. Ten[d] = 10^d /\ Ten[d] \in Nat \ {0}
    BY TenFacts DEF Ten
  <2>2. (g.number + 1) * Ten[d] = g.number * Ten[d] + Ten[d]
    BY <1>1, <2>1, Products
  <2> QED
    BY <2>1, <2>2 DEF AutoFill!Begins, Starts
<1>3. g.whole => (AutoFill!InGroup(n, g) <=> n = g.number)
  BY DEF AutoFill!InGroup
<1>4. ~g.whole => (AutoFill!InGroup(n, g) <=> \E d \in 0 .. MaxLength : Starts(n, g.number, d))
  BY <1>2 DEF AutoFill!InGroup
<1>5. ASSUME g.number = 0 PROVE Starts(n, g.number, MaxLength) /\ MaxLength \in 0 .. MaxLength
  <2>1. Ten[MaxLength] \in Nat /\ n \in Nat /\ n < Ten[MaxLength] /\ MaxLength \in 0 .. MaxLength
    BY TenFacts
  <2> QED
    BY <1>5, <2>1 DEF Starts
<1> QED
  BY <1>3, <1>4, <1>5

(* What a group is divided into.                                           *)
LEMMA LongerIs ==
  ASSUME NEW m \in Nat, NEW h
  PROVE  h \in AutoFill!Longer([number |-> m, whole |-> FALSE]) \ {AutoFill!Root} <=>
           /\ RealGroup(h)
           /\ IF h.whole THEN h.number = m ELSE h.number \in 10 * m .. 10 * m + 9
<1> DEFINE g == [number |-> m, whole |-> FALSE]
<1>1. h \in AutoFill!Longer(g) <=>
        \/ \E d \in 0 .. 9 : h = [number |-> m * 10 + d, whole |-> FALSE]
        \/ h = [number |-> m, whole |-> TRUE]
  BY DEF AutoFill!Longer
<1>2. ASSUME NEW d \in 0 .. 9, h = [number |-> m * 10 + d, whole |-> FALSE], h # AutoFill!Root
      PROVE  RealGroup(h) /\ ~h.whole /\ h.number \in 10 * m .. 10 * m + 9
  <2> DEFINE k == m * 10 + d
  <2>1. k \in Nat /\ k \in 10 * m .. 10 * m + 9
    OBVIOUS
  <2> HIDE DEF k
  <2>2. h = [number |-> k, whole |-> FALSE]
    BY <1>2 DEF k
  <2>3. k # 0
    BY <1>2, <2>2 DEF AutoFill!Root
  <2> QED
    BY <2>1, <2>2, <2>3 DEF RealGroup, Group
<1>3. ASSUME h = [number |-> m, whole |-> TRUE]
      PROVE  RealGroup(h) /\ h.whole /\ h.number = m /\ h # AutoFill!Root
  BY <1>3 DEF RealGroup, Group, AutoFill!Root
<1>4. ASSUME RealGroup(h), h.whole, h.number = m PROVE h = [number |-> m, whole |-> TRUE]
  BY <1>4 DEF RealGroup, Group
<1>5. ASSUME RealGroup(h), ~h.whole, h.number \in 10 * m .. 10 * m + 9
      PROVE  h # AutoFill!Root /\ \E d \in 0 .. 9 : h = [number |-> m * 10 + d, whole |-> FALSE]
  <2>1. h # AutoFill!Root
    BY <1>5 DEF RealGroup, AutoFill!Root
  <2>2. PICK d \in 0 .. 9 : h.number = m * 10 + d
    <3>1. h.number - 10 * m \in 0 .. 9 /\ h.number = m * 10 + (h.number - 10 * m)
      BY <1>5
    <3> QED
      BY <3>1
  <2>3. h = [number |-> m * 10 + d, whole |-> FALSE]
    BY <1>5, <2>2 DEF RealGroup, Group
  <2> QED
    BY <2>1, <2>3
<1> QED
  BY <1>1, <1>2, <1>3, <1>4, <1>5

(* A number that begins with m is m, or begins with one more digit.        *)
LEMMA NextDigit ==
  ASSUME NEW n \in ObjectIds, NEW m \in Nat \ {0}, NEW d \in 0 .. MaxLength, Starts(n, m, d), n # m
  PROVE  \E k \in 10 * m .. 10 * m + 9 : k > 0 /\ \E e \in 0 .. MaxLength : Starts(n, k, e)
<1>1. n \in Nat /\ Ten[0] = 1 /\ MaxLength \in Nat
  BY TenFacts
<1>2. d # 0
  BY <1>1 DEF Starts
<1>3. d \in 1 .. MaxLength /\ d - 1 \in 0 .. MaxLength
  BY <1>1, <1>2
<1>4. Ten[d] = 10 * Ten[d - 1] /\ Ten[d - 1] \in Nat \ {0}
  BY <1>3, TenFacts
<1> DEFINE p == Ten[d - 1]
           q == 10 * m
           x == q * p
<1>5. p \in Nat \ {0} /\ x \in Nat /\ x = m * Ten[d] /\ Ten[d] = 10 * p /\ x <= n /\ n < x + 10 * p
  <2>1. p \in Nat \ {0} /\ Ten[d] = 10 * p
    BY <1>4
  <2> HIDE DEF p
  <2>2. m * (10 * p) = (10 * m) * p /\ (10 * m) * p \in Nat
    BY <2>1
  <2> QED
    BY <2>1, <2>2 DEF Starts
<1>6. PICK j \in 0 .. 9 : x + j * p <= n /\ n < x + j * p + p
  <2> HIDE DEF p, x
  <2>1. \/ x + 0 * p <= n /\ n < x + 0 * p + p
        \/ x + 1 * p <= n /\ n < x + 1 * p + p
        \/ x + 2 * p <= n /\ n < x + 2 * p + p
        \/ x + 3 * p <= n /\ n < x + 3 * p + p
        \/ x + 4 * p <= n /\ n < x + 4 * p + p
        \/ x + 5 * p <= n /\ n < x + 5 * p + p
        \/ x + 6 * p <= n /\ n < x + 6 * p + p
        \/ x + 7 * p <= n /\ n < x + 7 * p + p
        \/ x + 8 * p <= n /\ n < x + 8 * p + p
        \/ x + 9 * p <= n /\ n < x + 9 * p + p
    BY <1>1, <1>5
  <2> QED
    BY <2>1
<1>7. (q + j) * p = x + j * p
  <2> HIDE DEF p
  <2> QED
    BY <1>5
<1>8. Starts(n, q + j, d - 1)
  BY <1>6, <1>7 DEF Starts
<1> QED
  BY <1>3, <1>8

(* Every number begins with a digit.                                       *)
LEMMA FirstDigit ==
  ASSUME NEW n \in ObjectIds
  PROVE  \E k \in 0 .. 9 : k > 0 /\ \E e \in 0 .. MaxLength : Starts(n, k, e)
<1>1. PICK d \in 1 .. MaxLength : Ten[d - 1] <= n /\ n < Ten[d]
  BY TenFacts
<1>2. n \in Nat /\ MaxLength \in Nat /\ d - 1 \in 0 .. MaxLength
  BY TenFacts
<1>3. Ten[d] = 10 * Ten[d - 1] /\ Ten[d - 1] \in Nat \ {0}
  BY <1>2, TenFacts
<1> DEFINE p == Ten[d - 1]
<1>4. p \in Nat \ {0} /\ p <= n /\ n < 10 * p
  BY <1>1, <1>3
<1>5. \E k \in 1 .. 9 : k * p <= n /\ n < k * p + p
  <2> HIDE DEF p
  <2>1. \/ 1 * p <= n /\ n < 1 * p + p
        \/ 2 * p <= n /\ n < 2 * p + p
        \/ 3 * p <= n /\ n < 3 * p + p
        \/ 4 * p <= n /\ n < 4 * p + p
        \/ 5 * p <= n /\ n < 5 * p + p
        \/ 6 * p <= n /\ n < 6 * p + p
        \/ 7 * p <= n /\ n < 7 * p + p
        \/ 8 * p <= n /\ n < 8 * p + p
        \/ 9 * p <= n /\ n < 9 * p + p
    BY <1>2, <1>4
  <2> QED
    BY <2>1
<1> QED
  BY <1>2, <1>5 DEF Starts

(* What begins with one more digit begins with m.                          *)
LEMMA LessDigits ==
  ASSUME NEW n \in ObjectIds, NEW m \in Nat \ {0}, NEW k \in 10 * m .. 10 * m + 9,
         NEW d \in 0 .. MaxLength, Starts(n, k, d)
  PROVE  \E e \in 0 .. MaxLength : Starts(n, m, e)
<1>1. n \in Nat /\ MaxLength \in Nat /\ n < Ten[MaxLength] /\ Ten[d] \in Nat \ {0}
  BY TenFacts
<1>2. k \in Nat /\ k > 0 /\ k * Ten[d] >= Ten[d]
  BY <1>1, Products
<1>3. d # MaxLength
  BY <1>1, <1>2 DEF Starts
<1>4. d + 1 \in 1 .. MaxLength /\ d + 1 \in 0 .. MaxLength
  BY <1>1, <1>3
<1>5. Ten[d + 1] = 10 * Ten[d]
  BY <1>4, TenFacts
<1> DEFINE p == Ten[d]
<1>6. p \in Nat \ {0} /\ k * p <= n /\ n < k * p + p
  BY <1>1 DEF Starts
<1>7. (10 * m) * p <= k * p /\ k * p <= (10 * m + 9) * p
  <2> HIDE DEF p
  <2> QED
    BY <1>2, <1>6, Products
<1>8. m * (10 * p) = (10 * m) * p /\ (10 * m + 9) * p = (10 * m) * p + 9 * p
      /\ (10 * m) * p \in Nat /\ k * p \in Nat
  <2> HIDE DEF p
  <2> QED
    BY <1>2, <1>6
<1>9. m * (10 * p) <= n /\ n < m * (10 * p) + 10 * p
  <2> HIDE DEF p
  <2> DEFINE x == (10 * m) * p
             y == k * p
             z == m * (10 * p)
             w == (10 * m + 9) * p
  <2>1. x \in Nat /\ y \in Nat /\ z = x /\ w = x + 9 * p /\ x <= y /\ y <= w /\ y <= n /\ n < y + p
    BY <1>6, <1>7, <1>8
  <2> HIDE DEF x, y, z, w
  <2>2. z <= n /\ n < z + 10 * p
    BY <1>1, <1>6, <2>1
  <2> QED
    BY <2>2 DEF z
<1> QED
  BY <1>4, <1>5, <1>9 DEF Starts

(* Of the numbers with one more digit than m, n begins with one.           *)
LEMMA OneDigit ==
  ASSUME NEW n \in ObjectIds, NEW m \in Nat, NEW k \in 10 * m .. 10 * m + 9,
         NEW j \in 10 * m .. 10 * m + 9, k > 0, j > 0,
         NEW d \in 0 .. MaxLength, NEW e \in 0 .. MaxLength, Starts(n, k, d), Starts(n, j, e)
  PROVE  ~(d < e) /\ k <= j
<1>1. n \in Nat /\ Ten[d] \in Nat \ {0} /\ Ten[e] \in Nat \ {0} /\ MaxLength \in Nat
      /\ (d < e => 10 * Ten[d] <= Ten[e]) /\ (e < d => 10 * Ten[e] <= Ten[d])
  BY TenFacts
<1>2. ASSUME NEW a \in 10 * m .. 10 * m + 9, NEW b \in 10 * m .. 10 * m + 9, a > 0, b > 0,
             NEW p \in Nat \ {0}, NEW q \in Nat \ {0}, 10 * p <= q,
             b * q <= n, n < a * p + p
      PROVE  FALSE
  <2>1. b * (10 * p) <= b * q
    <3>1. \A c \in Nat : b * c >= 0
      BY <1>2
    <3>2. b * (q - 10 * p) >= 0 /\ b * (q - 10 * p) = b * q - b * (10 * p)
      BY <1>2, <3>1
    <3> QED
      BY <1>2, <3>2
  <2>2. a + 1 <= 10 * b
    BY <1>2
  <2>3. (a + 1) * p <= (10 * b) * p /\ (a + 1) * p = a * p + p
    BY <1>2, <2>2, Products
  <2>4. (10 * b) * p = b * (10 * p)
    BY <1>2
  <2> DEFINE u == b * q
             v == a * p + p
             w == b * (10 * p)
  <2>5. u \in Nat /\ v \in Nat /\ w \in Nat /\ w <= u /\ v <= w /\ u <= n /\ n < v
    BY <1>2, <2>1, <2>3, <2>4
  <2> HIDE DEF u, v, w
  <2> QED
    BY <1>1, <2>5
<1>3. ~(d < e)
  BY <1>1, <1>2 DEF Starts
<1>4. ~(e < d)
  BY <1>1, <1>2 DEF Starts
<1>5. d = e
  BY <1>1, <1>3, <1>4
<1>6. ASSUME j + 1 <= k PROVE FALSE
  <2>1. (j + 1) * Ten[d] <= k * Ten[d] /\ (j + 1) * Ten[d] = j * Ten[d] + Ten[d]
    BY <1>1, <1>6, Products
  <2> DEFINE u == j * Ten[d] + Ten[d]
             v == k * Ten[d]
  <2>2. u \in Nat /\ v \in Nat /\ u <= v /\ v <= n /\ n < u
    BY <1>1, <1>5, <2>1 DEF Starts
  <2> HIDE DEF u, v
  <2> QED
    BY <1>1, <2>2
<1> QED
  BY <1>3, <1>6

(* No number begins with itself and one more digit.                        *)
LEMMA NotLonger ==
  ASSUME NEW n \in ObjectIds, NEW k \in 10 * n .. 10 * n + 9, NEW d \in 0 .. MaxLength
  PROVE  ~Starts(n, k, d)
<1>1. n \in Nat /\ 0 < n /\ Ten[d] \in Nat \ {0}
  BY TenFacts
<1>2. k > 0 /\ k \in Nat /\ k > n
  BY <1>1
<1>3. k * Ten[d] >= k /\ k * Ten[d] \in Nat
  BY <1>1, <1>2, Products
<1> QED
  BY <1>1, <1>2, <1>3 DEF Starts

LEMMA DividedGroup ==
  ASSUME NEW m \in Nat, NEW n \in ObjectIds
  PROVE  LET g == [number |-> m, whole |-> FALSE]
             H == AutoFill!Longer(g) \ {AutoFill!Root}
         IN  /\ AutoFill!InGroup(n, g) => \E h \in H : AutoFill!InGroup(n, h)
             /\ \A h \in H : AutoFill!InGroup(n, h) => AutoFill!InGroup(n, g)
             /\ \A h, k \in H : AutoFill!InGroup(n, h) /\ AutoFill!InGroup(n, k) => h = k
<1> DEFINE g == [number |-> m, whole |-> FALSE]
           H == AutoFill!Longer(g) \ {AutoFill!Root}
           Prefix(k) == \E d \in 0 .. MaxLength : Starts(n, k, d)
<1>1. n \in Nat /\ 0 < n
  BY TenFacts
<1>2. g \in Group /\ ~g.whole /\ g.number = m
  BY DEF Group
<1>3. AutoFill!InGroup(n, g) <=> Prefix(m) \/ m = 0
  BY <1>2, InGroupIs
<1>4. ASSUME NEW h, RealGroup(h)
      PROVE  /\ h.whole => (AutoFill!InGroup(n, h) <=> n = h.number)
             /\ ~h.whole => (AutoFill!InGroup(n, h) <=> Prefix(h.number))
  BY <1>4, InGroupIs DEF RealGroup
<1>5. ASSUME NEW h PROVE h \in H <=> /\ RealGroup(h)
                                     /\ IF h.whole THEN h.number = m ELSE h.number \in 10 * m .. 10 * m + 9
  BY LongerIs
<1> HIDE DEF g, H, Prefix
<1>6. ASSUME Prefix(m) \/ m = 0 PROVE \E h \in H : AutoFill!InGroup(n, h)
  <2>1. CASE m = n
    <3> DEFINE h == [number |-> n, whole |-> TRUE]
    <3>1. RealGroup(h) /\ h.whole /\ h.number = n
      BY <1>1 DEF RealGroup, Group
    <3> QED
      BY <1>4, <1>5, <2>1, <3>1
  <2>2. CASE m # n
    <3>1. \E k \in 10 * m .. 10 * m + 9 : k > 0 /\ Prefix(k)
      <4>1. CASE m = 0
        <5>1. 10 * m .. 10 * m + 9 = 0 .. 9
          BY <4>1
        <5> QED
          BY <5>1, FirstDigit DEF Prefix
      <4>2. CASE m # 0
        BY <1>6, <2>2, <4>2, NextDigit DEF Prefix
      <4> QED
        BY <4>1, <4>2
    <3>2. PICK k \in 10 * m .. 10 * m + 9 : k > 0 /\ Prefix(k)
      BY <3>1
    <3> DEFINE h == [number |-> k, whole |-> FALSE]
    <3>3. RealGroup(h) /\ ~h.whole /\ h.number = k
      BY <3>2 DEF RealGroup, Group
    <3> QED
      BY <1>4, <1>5, <3>2, <3>3
  <2> QED
    BY <2>1, <2>2
<1>7. ASSUME NEW h \in H, AutoFill!InGroup(n, h) PROVE Prefix(m) \/ m = 0
  <2>1. CASE h.whole
    <3>1. n = m
      BY <1>4, <1>5, <1>7, <2>1
    <3>2. Starts(n, n, 0) /\ 0 \in 0 .. MaxLength
      <4>1. Ten[0] = 1 /\ MaxLength \in Nat
        BY TenFacts
      <4> QED
        BY <1>1, <4>1 DEF Starts
    <3> QED
      BY <3>1, <3>2 DEF Prefix
  <2>2. CASE ~h.whole
    <3>1. h.number \in 10 * m .. 10 * m + 9 /\ Prefix(h.number)
      BY <1>4, <1>5, <1>7, <2>2
    <3>2. CASE m # 0
      BY <3>1, <3>2, LessDigits DEF Prefix
    <3> QED
      BY <3>2
  <2> QED
    BY <2>1, <2>2
<1>8. ASSUME NEW h \in H, NEW k \in H, AutoFill!InGroup(n, h), AutoFill!InGroup(n, k) PROVE h = k
  <2>1. RealGroup(h) /\ RealGroup(k)
    BY <1>5
  <2>2. h.whole = k.whole /\ h.number = k.number
    <3>1. h.whole /\ k.whole => h.number = k.number
      BY <1>5
    <3>2. ASSUME h.whole, ~k.whole PROVE FALSE
      <4>1. m = n /\ k.number \in 10 * m .. 10 * m + 9 /\ Prefix(k.number)
        BY <1>4, <1>5, <1>8, <3>2
      <4> QED
        BY <4>1, NotLonger DEF Prefix
    <3>3. ASSUME ~h.whole, k.whole PROVE FALSE
      <4>1. m = n /\ h.number \in 10 * m .. 10 * m + 9 /\ Prefix(h.number)
        BY <1>4, <1>5, <1>8, <3>3
      <4> QED
        BY <4>1, NotLonger DEF Prefix
    <3>4. ASSUME ~h.whole, ~k.whole PROVE h.number = k.number
      <4>1. /\ h.number \in 10 * m .. 10 * m + 9 /\ Prefix(h.number) /\ h.number > 0
            /\ k.number \in 10 * m .. 10 * m + 9 /\ Prefix(k.number) /\ k.number > 0
        BY <1>4, <1>5, <1>8, <3>4 DEF RealGroup
      <4>2. PICK d \in 0 .. MaxLength, e \in 0 .. MaxLength : Starts(n, h.number, d) /\ Starts(n, k.number, e)
        BY <4>1 DEF Prefix
      <4>3. h.number <= k.number /\ k.number <= h.number
        BY <4>1, <4>2, OneDigit
      <4> QED
        BY <4>1, <4>3
    <3> QED
      BY <2>1, <3>1, <3>2, <3>3, <3>4 DEF RealGroup, Group
  <2> QED
    BY <2>1, <2>2 DEF RealGroup, Group
<1> QED
  BY <1>3, <1>6, <1>7, <1>8 DEF H, g

LEMMA SameCardinality == ASSUME NEW S PROVE AutoFill!Cardinality(S) = Cardinality(S)
  BY DEF AutoFill!Cardinality, Cardinality

(* A name that ends is that of one object.                                 *)
LEMMA CountFacts ==
  ASSUME files \subseteq ObjectIds, NEW h \in Group
  PROVE  /\ AutoFill!Count(h) \in Nat
         /\ \A n \in AutoFill!Valid : AutoFill!InGroup(n, h) => AutoFill!Count(h) > 0
         /\ h.whole => AutoFill!Count(h) <= 1
<1> DEFINE S == {n \in AutoFill!Valid : AutoFill!InGroup(n, h)}
<1>1. AutoFill!Valid \subseteq ObjectIds
  BY DEF AutoFill!Valid
<1>2. S \in SUBSET Nat /\ Ten[MaxLength] \in Nat /\ \A n \in S : n <= Ten[MaxLength]
  <2>1. S \subseteq ObjectIds
    BY <1>1
  <2>2. Ten[MaxLength] \in Nat /\ \A n \in ObjectIds : n \in Nat /\ n <= Ten[MaxLength]
    <3>1. MaxLength \in 0 .. MaxLength
      BY TenFacts
    <3>2. Ten[MaxLength] \in Nat
      BY <3>1, TenFacts
    <3> QED
      BY <3>2, TenFacts
  <2> HIDE DEF S
  <2> QED
    BY <2>1, <2>2
<1>3. IsFiniteSet(S) /\ Cardinality(S) \in Nat
  <2> DEFINE m == Ten[MaxLength]
  <2>1. m \in Nat /\ \A n \in S : n <= m
    BY <1>2
  <2> HIDE DEF S, m
  <2>2. IsFiniteSet(S)
    BY ONLY <1>2, <2>1, FS_BoundedSetOfNaturals
  <2>3. Cardinality(S) \in Nat
    BY ONLY <2>2, FS_CardinalityType
  <2> QED
    BY ONLY <2>2, <2>3
<1>4. AutoFill!Count(h) = Cardinality(S)
  BY SameCardinality DEF AutoFill!Count
<1>5. ASSUME NEW n \in AutoFill!Valid, AutoFill!InGroup(n, h) PROVE Cardinality(S) > 0
  BY <1>3, <1>5, FS_EmptySet
<1>6. ASSUME h.whole PROVE Cardinality(S) <= 1
  <2>1. S \subseteq {h.number}
    BY <1>1, <1>6, InGroupIs
  <2>2. IsFiniteSet({h.number}) /\ Cardinality({h.number}) = 1
    BY FS_Singleton
  <2>3. Cardinality(S) <= Cardinality({h.number})
    BY <2>1, <2>2, FS_Subset
  <2> QED
    BY <2>2, <2>3
<1> QED
  BY <1>3, <1>4, <1>5, <1>6

LEMMA GroupsOf ==
  ASSUME NEW m \in Nat, NEW e
  PROVE  LET g == [number |-> m, whole |-> FALSE]
         IN  e \in AutoFill!Groups(g) <=>
               \E h \in AutoFill!Longer(g) \ {AutoFill!Root} :
                 e = [group |-> h, size |-> AutoFill!Count(h)] /\ AutoFill!Count(h) > 0
<1> DEFINE g == [number |-> m, whole |-> FALSE]
           H == AutoFill!Longer(g) \ {AutoFill!Root}
           C(h) == AutoFill!Count(h)
<1>1. AutoFill!Groups(g) = {s \in {[group |-> h, size |-> C(h)] : h \in H} : s.size > 0}
  BY DEF AutoFill!Groups
<1> HIDE DEF g, H, C
<1>2. e \in AutoFill!Groups(g) <=> \E h \in H : e = [group |-> h, size |-> C(h)] /\ C(h) > 0
  BY <1>1
<1> QED
  BY <1>2 DEF g, H, C

(* The agenda: a sequence of levels, each a set of groups still to look at. *)
Entry == [group : Group, size : Nat]

IsLevel(L) == L \subseteq Entry /\ \A s \in L : RealGroup(s.group) /\ (s.group.whole => s.size <= 1)

IsAgenda(A) == A \in Seq(SUBSET Entry) /\ \A i \in DOMAIN A : IsLevel(A[i])

WaitsIn(A, n) == \E i \in DOMAIN A : \E s \in A[i] : AutoFill!InGroup(n, s.group)

(* No number is in two groups of the agenda.                               *)
ApartIn(A) ==
  \A i, j \in DOMAIN A : \A s \in A[i], t \in A[j], n \in ObjectIds :
    AutoFill!InGroup(n, s.group) /\ AutoFill!InGroup(n, t.group) => i = j /\ s = t

AutoTypes ==
  /\ objects \subseteq ObjectIds /\ files \subseteq ObjectIds
  /\ annotated \subseteq BadKeys
  /\ added \in [ObjectIds -> Nat]
  /\ IsAgenda(agenda)

QueuedOnce == \A n \in ObjectIds : added[n] = 0 \/ (added[n] = 1 /\ ~WaitsIn(agenda, n))

NothingLeft ==
  ~capped => \A n \in files \ documents : n \in BadKeys \/ added[n] = 1 \/ WaitsIn(agenda, n)

AutoInv ==
  /\ AutoTypes
  /\ activity = "topup" => ~capped /\ \A n \in ObjectIds : added[n] = 0
  /\ activity = "fill" => ApartIn(agenda) /\ QueuedOnce /\ NothingLeft

(* The groups of a division, as entries of the agenda.                     *)
LEMMA GroupsFacts ==
  ASSUME AutoTypes, NEW m \in Nat
  PROVE  LET g == [number |-> m, whole |-> FALSE]
             G == AutoFill!Groups(g)
         IN  /\ IsLevel(G)
             /\ \A n \in AutoFill!Valid :
                  AutoFill!InGroup(n, g) => \E e \in G : AutoFill!InGroup(n, e.group)
             /\ \A e \in G, n \in ObjectIds : AutoFill!InGroup(n, e.group) => AutoFill!InGroup(n, g)
             /\ \A e, f \in G, n \in ObjectIds :
                  AutoFill!InGroup(n, e.group) /\ AutoFill!InGroup(n, f.group) => e = f
<1> DEFINE g == [number |-> m, whole |-> FALSE]
           H == AutoFill!Longer(g) \ {AutoFill!Root}
           G == AutoFill!Groups(g)
<1>1. \A h \in H : h \in Group /\ RealGroup(h)
  BY LongerIs DEF RealGroup
<1>2. files \subseteq ObjectIds /\ AutoFill!Valid \subseteq ObjectIds
  BY DEF AutoTypes, AutoFill!Valid
<1>3. \A e : e \in G <=> \E h \in H : e = [group |-> h, size |-> AutoFill!Count(h)] /\ AutoFill!Count(h) > 0
  BY <1>2, GroupsOf
<1>4. \A n \in ObjectIds :
        /\ AutoFill!InGroup(n, g) => \E h \in H : AutoFill!InGroup(n, h)
        /\ \A h \in H : AutoFill!InGroup(n, h) => AutoFill!InGroup(n, g)
        /\ \A h, k \in H : AutoFill!InGroup(n, h) /\ AutoFill!InGroup(n, k) => h = k
  BY DividedGroup
<1> HIDE DEF g, H, G
<1>5. ASSUME NEW e \in G
      PROVE  /\ e.group \in H /\ e.group \in Group /\ RealGroup(e.group)
             /\ e = [group |-> e.group, size |-> AutoFill!Count(e.group)]
             /\ e \in [group : Group, size : Nat]
             /\ e.group.whole => e.size <= 1
  <2>1. PICK h \in H : e = [group |-> h, size |-> AutoFill!Count(h)]
    BY <1>3
  <2>2. h \in Group /\ RealGroup(h) /\ AutoFill!Count(h) \in Nat /\ (h.whole => AutoFill!Count(h) <= 1)
    BY <1>1, <1>2, CountFacts
  <2> QED
    BY <2>1, <2>2
<1>6. ASSUME NEW n \in AutoFill!Valid, AutoFill!InGroup(n, g)
      PROVE  \E e \in G : AutoFill!InGroup(n, e.group)
  <2>1. PICK h \in H : AutoFill!InGroup(n, h)
    BY <1>2, <1>4, <1>6
  <2>2. AutoFill!Count(h) > 0
    BY <1>1, <1>2, <2>1, CountFacts
  <2>3. [group |-> h, size |-> AutoFill!Count(h)] \in G
    BY <1>3, <2>2
  <2> QED
    BY <2>1, <2>3
<1>7. \A e \in G, n \in ObjectIds : AutoFill!InGroup(n, e.group) => AutoFill!InGroup(n, g)
  BY <1>4, <1>5
<1>8. ASSUME NEW e \in G, NEW f \in G, NEW n \in ObjectIds,
             AutoFill!InGroup(n, e.group), AutoFill!InGroup(n, f.group)
      PROVE  e = f
  <2>1. e.group = f.group
    BY <1>4, <1>5, <1>8
  <2> QED
    BY <1>5, <2>1
<1> QED
  BY <1>5, <1>6, <1>7, <1>8 DEF g, G, IsLevel, Entry

LEMMA DropEntry ==
  ASSUME NEW A, IsAgenda(A), A # <<>>, NEW s \in Head(A)
  PROVE  LET B == <<Head(A) \ {s}>> \o Tail(A)
         IN  /\ IsAgenda(B) /\ (ApartIn(A) => ApartIn(B))
             /\ \A n : WaitsIn(A, n) <=> AutoFill!InGroup(n, s.group) \/ WaitsIn(B, n)
             /\ ApartIn(A) => \A n \in ObjectIds :
                                AutoFill!InGroup(n, s.group) => ~WaitsIn(B, n)
<1> DEFINE X == Head(A) \ {s}
           B == <<X>> \o Tail(A)
<1>1. /\ A \in Seq(SUBSET Entry) /\ Len(A) \in Nat /\ Len(A) > 0 /\ 1 \in DOMAIN A
      /\ DOMAIN A = 1 .. Len(A) /\ Head(A) = A[1] /\ A[1] \subseteq Entry
  BY EmptySeq, ElementOfSeq DEF IsAgenda
<1>2. /\ <<X>> \in Seq(SUBSET Entry) /\ Len(<<X>>) = 1 /\ <<X>>[1] = X
      /\ Tail(A) \in Seq(SUBSET Entry) /\ Len(Tail(A)) = Len(A) - 1
      /\ \A i \in 1 .. Len(A) - 1 : Tail(A)[i] = A[i + 1]
  BY <1>1
<1>3. /\ B \in Seq(SUBSET Entry) /\ Len(B) = Len(A) /\ DOMAIN B = DOMAIN A /\ B[1] = X
      /\ \A i \in DOMAIN A : i # 1 => B[i] = A[i]
  <2> HIDE DEF X
  <2> QED
    BY <1>1, <1>2, ConcatProperties
<1> HIDE DEF B
<1>4. IsAgenda(B)
  <2>1. ASSUME NEW i \in DOMAIN B PROVE IsLevel(B[i])
    <3>1. B[i] \subseteq A[i] /\ IsLevel(A[i])
      BY <1>1, <1>3 DEF IsAgenda
    <3> QED
      BY <3>1 DEF IsLevel
  <2> QED
    BY <1>3, <2>1 DEF IsAgenda
<1>5. \A i \in DOMAIN A : \A t : t \in B[i] <=> t \in A[i] /\ (i # 1 \/ t # s)
  BY <1>1, <1>3
<1>6. DOMAIN B = DOMAIN A /\ 1 \in DOMAIN A /\ s \in A[1]
  BY <1>1, <1>3
<1>7. ApartIn(A) => ApartIn(B)
  BY <1>5, <1>6 DEF ApartIn
<1>8. \A n : WaitsIn(A, n) <=> AutoFill!InGroup(n, s.group) \/ WaitsIn(B, n)
  BY <1>5, <1>6 DEF WaitsIn
<1>9. ApartIn(A) => \A n \in ObjectIds : AutoFill!InGroup(n, s.group) => ~WaitsIn(B, n)
  BY <1>5, <1>6 DEF ApartIn, WaitsIn
<1> QED
  BY <1>4, <1>7, <1>8, <1>9 DEF B

LEMMA PushLevel ==
  ASSUME NEW A, IsAgenda(A), NEW G, IsLevel(G)
  PROVE  LET B == <<G>> \o A
         IN  /\ IsAgenda(B)
             /\ \A n : WaitsIn(B, n) <=> WaitsIn(A, n) \/ \E e \in G : AutoFill!InGroup(n, e.group)
             /\ /\ ApartIn(A)
                /\ \A e, f \in G, n \in ObjectIds :
                      AutoFill!InGroup(n, e.group) /\ AutoFill!InGroup(n, f.group) => e = f
                /\ \A e \in G, n \in ObjectIds : AutoFill!InGroup(n, e.group) => ~WaitsIn(A, n)
                => ApartIn(B)
<1> DEFINE B == <<G>> \o A
<1>1. A \in Seq(SUBSET Entry) /\ Len(A) \in Nat /\ DOMAIN A = 1 .. Len(A)
  BY DEF IsAgenda
<1>2. <<G>> \in Seq(SUBSET Entry) /\ Len(<<G>>) = 1 /\ <<G>>[1] = G
  BY DEF IsLevel
<1>3. /\ B \in Seq(SUBSET Entry) /\ Len(B) = Len(A) + 1 /\ DOMAIN B = 1 .. Len(A) + 1
      /\ B[1] = G /\ \A i \in DOMAIN B : i # 1 => B[i] = A[i - 1]
  BY <1>1, <1>2, ConcatProperties
<1> HIDE DEF B
<1>4. \A i \in DOMAIN B : i = 1 \/ (i - 1 \in DOMAIN A /\ i # 1)
  BY <1>1, <1>3
<1>5. \A i \in DOMAIN A : i + 1 \in DOMAIN B /\ i + 1 # 1 /\ B[i + 1] = A[i]
  BY <1>1, <1>3
<1>6. IsAgenda(B)
  BY <1>3, <1>4 DEF IsAgenda
<1>7. ASSUME NEW n
      PROVE  WaitsIn(B, n) <=> WaitsIn(A, n) \/ \E e \in G : AutoFill!InGroup(n, e.group)
  <2>1. 1 \in DOMAIN B
    BY <1>1, <1>3
  <2> QED
    BY <1>3, <1>4, <1>5, <2>1 DEF WaitsIn
<1>8. ASSUME ApartIn(A),
             \A e, f \in G, n \in ObjectIds :
               AutoFill!InGroup(n, e.group) /\ AutoFill!InGroup(n, f.group) => e = f,
             \A e \in G, n \in ObjectIds : AutoFill!InGroup(n, e.group) => ~WaitsIn(A, n)
      PROVE  ApartIn(B)
  <2> SUFFICES ASSUME NEW i \in DOMAIN B, NEW j \in DOMAIN B, NEW s \in B[i], NEW t \in B[j],
                      NEW n \in ObjectIds, AutoFill!InGroup(n, s.group), AutoFill!InGroup(n, t.group)
               PROVE  i = j /\ s = t
    BY DEF ApartIn
  <2>1. CASE i = 1 /\ j = 1
    BY <1>3, <1>8, <2>1
  <2>2. CASE i = 1 /\ j # 1
    BY <1>3, <1>4, <1>8, <2>2 DEF WaitsIn
  <2>3. CASE i # 1 /\ j = 1
    BY <1>3, <1>4, <1>8, <2>3 DEF WaitsIn
  <2>4. CASE i # 1 /\ j # 1
    <3>1. i - 1 \in DOMAIN A /\ j - 1 \in DOMAIN A /\ s \in A[i - 1] /\ t \in A[j - 1]
      BY <1>3, <1>4, <2>4
    <3>2. i - 1 = j - 1 /\ s = t
      BY <1>8, <3>1 DEF ApartIn
    <3> QED
      BY <1>3, <1>1, <3>2
  <2> QED
    BY <2>1, <2>2, <2>3, <2>4
<1> QED
  BY <1>6, <1>7, <1>8 DEF B

LEMMA PopLevel ==
  ASSUME NEW A, IsAgenda(A), A # <<>>, Head(A) = {}
  PROVE  LET B == Tail(A)
         IN  /\ IsAgenda(B) /\ (ApartIn(A) => ApartIn(B))
             /\ \A n : WaitsIn(B, n) <=> WaitsIn(A, n)
<1> DEFINE B == Tail(A)
<1>1. /\ A \in Seq(SUBSET Entry) /\ Len(A) \in Nat /\ Len(A) > 0
      /\ DOMAIN A = 1 .. Len(A) /\ A[1] = {}
  BY EmptySeq, ElementOfSeq DEF IsAgenda
<1>2. /\ B \in Seq(SUBSET Entry) /\ DOMAIN B = 1 .. Len(A) - 1
      /\ \A i \in DOMAIN B : B[i] = A[i + 1]
  BY <1>1
<1> HIDE DEF B
<1>3. \A i \in DOMAIN B : i \in Nat /\ i + 1 \in DOMAIN A /\ B[i] = A[i + 1]
  BY <1>1, <1>2
<1>4. \A i \in DOMAIN A : A[i] = {} \/ (i - 1 \in DOMAIN B /\ B[i - 1] = A[i])
  BY <1>1, <1>2
<1>5. IsAgenda(B)
  BY <1>2, <1>3 DEF IsAgenda
<1>6. \A n : WaitsIn(B, n) <=> WaitsIn(A, n)
  BY <1>3, <1>4 DEF WaitsIn
<1>7. ApartIn(A) => ApartIn(B)
  BY <1>3 DEF ApartIn
<1> QED
  BY <1>5, <1>6, <1>7 DEF B

LEMMA AutoStarts == AutoFill!AutoInit => AutoInv
<1> SUFFICES ASSUME AutoFill!AutoInit PROVE AutoInv
  OBVIOUS
<1>1. IsAgenda(<<>>)
  BY DEF IsAgenda
<1>2. AutoTypes
  BY <1>1 DEF AutoFill!AutoInit, AutoTypes
<1> QED
  BY <1>2 DEF AutoFill!AutoInit, AutoInv

(* The first groups of a run hold every number.                            *)
LEMMA AutoBegins ==
  ASSUME AutoInv, AutoFill!UpToDate PROVE AutoInv'
<1>1. /\ agenda' = <<AutoFill!Groups(AutoFill!Root)>> /\ activity = "topup" /\ activity' = "fill"
      /\ UNCHANGED <<objects, files, annotated, documents, added, capped>>
  BY DEF AutoFill!UpToDate
<1>2. AutoTypes /\ ~capped /\ \A n \in ObjectIds : added[n] = 0
  BY <1>1 DEF AutoInv
<1> DEFINE G == AutoFill!Groups(AutoFill!Root)
<1>3. AutoFill!Root = [number |-> 0, whole |-> FALSE] /\ 0 \in Nat
  BY DEF AutoFill!Root
<1>4. /\ IsLevel(G)
      /\ \A n \in AutoFill!Valid :
           AutoFill!InGroup(n, AutoFill!Root) => \E g \in G : AutoFill!InGroup(n, g.group)
      /\ \A g, h \in G, n \in ObjectIds :
           AutoFill!InGroup(n, g.group) /\ AutoFill!InGroup(n, h.group) => g = h
  BY <1>2, <1>3, GroupsFacts
<1>5. \A n \in ObjectIds : AutoFill!InGroup(n, AutoFill!Root)
  BY <1>3, InGroupIs, Zenon DEF Group
<1> HIDE DEF G
<1> DEFINE E == <<>>
<1>6. IsAgenda(E) /\ ApartIn(E) /\ \A n : ~WaitsIn(E, n)
  BY DEF IsAgenda, ApartIn, WaitsIn
<1>7. <<G>> \o E = <<G>>
  BY <1>4 DEF IsLevel
<1> HIDE DEF E
<1>8. /\ IsAgenda(<<G>>) /\ ApartIn(<<G>>)
      /\ \A n : WaitsIn(<<G>>, n) <=> \E g \in G : AutoFill!InGroup(n, g.group)
  <2>1. LET B == <<G>> \o E
        IN  /\ IsAgenda(B) /\ ApartIn(B)
            /\ \A n : WaitsIn(B, n) <=> WaitsIn(E, n) \/ \E g \in G : AutoFill!InGroup(n, g.group)
    BY <1>4, <1>6, PushLevel
  <2> QED
    BY <1>6, <1>7, <2>1
<1>9. agenda' = <<G>>
  BY <1>1 DEF G
<1>10. AutoTypes'
  BY <1>1, <1>2, <1>8, <1>9 DEF AutoTypes
<1>11. QueuedOnce'
  BY <1>1, <1>2 DEF QueuedOnce
<1>12. NothingLeft'
  <2> SUFFICES ASSUME NEW n \in files \ documents, n \notin BadKeys PROVE WaitsIn(<<G>>, n)
    BY <1>1, <1>9 DEF NothingLeft
  <2>1. n \in AutoFill!Valid /\ n \in ObjectIds
    BY <1>2 DEF AutoTypes, AutoFill!Valid
  <2> QED
    BY <1>4, <1>5, <1>8, <2>1
<1> QED
  BY <1>1, <1>8, <1>9, <1>10, <1>11, <1>12 DEF AutoInv

(* A group that is compared: its holes are queued, and it leaves.          *)
LEMMA AutoCompares ==
  ASSUME AutoInv, agenda # <<>>, NEW s \in Head(agenda), AutoFill!Fill(s) PROVE AutoInv'
<1> DEFINE sent == ({n \in AutoFill!Valid : AutoFill!InGroup(n, s.group)} \ documents) \ BadKeys
           B == <<Head(agenda) \ {s}>> \o Tail(agenda)
<1>1. /\ activity = "fill" /\ activity' = "fill" /\ agenda' = B
      /\ UNCHANGED <<objects, files, documents, capped>>
      /\ added' = [n \in ObjectIds |-> IF n \in sent THEN added[n] + 1 ELSE added[n]]
      /\ annotated' \subseteq annotated \cup BadKeys
  BY DEF AutoFill!Fill, AutoFill!FillHoles
<1>2. AutoTypes /\ ApartIn(agenda) /\ QueuedOnce /\ NothingLeft /\ IsAgenda(agenda)
  BY <1>1 DEF AutoInv, AutoTypes
<1>3. /\ IsAgenda(B) /\ ApartIn(B)
      /\ \A n : WaitsIn(agenda, n) <=> AutoFill!InGroup(n, s.group) \/ WaitsIn(B, n)
      /\ \A n \in ObjectIds : AutoFill!InGroup(n, s.group) => ~WaitsIn(B, n)
  BY <1>2, DropEntry
<1>4. \A n \in ObjectIds : n \in sent => AutoFill!InGroup(n, s.group)
  OBVIOUS
<1>5. \A n \in files \ documents :
        n \notin BadKeys /\ AutoFill!InGroup(n, s.group) => n \in sent /\ n \in ObjectIds
  BY <1>2 DEF AutoTypes, AutoFill!Valid
<1> HIDE DEF sent, B
<1>6. \A n \in ObjectIds : added[n] \in Nat /\ added'[n] = IF n \in sent THEN added[n] + 1 ELSE added[n]
  BY <1>1, <1>2 DEF AutoTypes
<1>7. AutoTypes'
  <2>1. added' \in [ObjectIds -> Nat]
    BY <1>1, <1>6
  <2> QED
    BY <1>1, <1>2, <1>3, <2>1 DEF AutoTypes
<1>8. QueuedOnce'
  <2> SUFFICES ASSUME NEW n \in ObjectIds
               PROVE  added'[n] = 0 \/ (added'[n] = 1 /\ ~WaitsIn(B, n))
    BY <1>1 DEF QueuedOnce
  <2>1. CASE n \in sent
    <3>1. added[n] = 0 /\ ~WaitsIn(B, n)
      BY <1>2, <1>3, <1>4, <2>1 DEF QueuedOnce
    <3> QED
      BY <1>6, <2>1, <3>1
  <2>2. CASE n \notin sent
    BY <1>2, <1>3, <1>6, <2>2 DEF QueuedOnce
  <2> QED
    BY <2>1, <2>2
<1>9. NothingLeft'
  <2> SUFFICES ASSUME ~capped, NEW n \in files \ documents, n \notin BadKeys
               PROVE  added'[n] = 1 \/ WaitsIn(B, n)
    BY <1>1 DEF NothingLeft
  <2>1. n \in ObjectIds /\ (added[n] = 1 \/ WaitsIn(agenda, n))
    BY <1>2 DEF NothingLeft, AutoTypes
  <2>2. CASE AutoFill!InGroup(n, s.group)
    <3>1. n \in sent /\ added[n] = 0
      BY <1>2, <1>3, <1>5, <2>1, <2>2 DEF QueuedOnce
    <3> QED
      BY <1>6, <2>1, <3>1
  <2>3. CASE ~AutoFill!InGroup(n, s.group)
    BY <1>3, <1>4, <1>6, <2>1, <2>3
  <2> QED
    BY <2>2, <2>3
<1> QED
  BY <1>1, <1>3, <1>7, <1>8, <1>9 DEF AutoInv

(* A group that is too large gives way to the groups it is divided into.   *)
LEMMA AutoDivides ==
  ASSUME AutoInv, agenda # <<>>, NEW s \in Head(agenda), AutoFill!Decimate(s) PROVE AutoInv'
<1> DEFINE G == AutoFill!Groups(s.group)
           D == <<Head(agenda) \ {s}>> \o Tail(agenda)
<1>1. /\ activity = "fill" /\ activity' = "fill" /\ ~AutoFill!Small(s.size)
      /\ UNCHANGED <<objects, files, annotated, documents, added>>
      /\ \/ agenda' = D /\ capped'
         \/ agenda' = <<G, Head(agenda) \ {s}>> \o Tail(agenda) /\ capped' = capped
  BY Zenon DEF AutoFill!Decimate
<1>2. AutoTypes /\ ApartIn(agenda) /\ QueuedOnce /\ NothingLeft /\ IsAgenda(agenda)
  BY <1>1 DEF AutoInv, AutoTypes
<1>3. /\ IsAgenda(D) /\ ApartIn(D)
      /\ \A n : WaitsIn(agenda, n) <=> AutoFill!InGroup(n, s.group) \/ WaitsIn(D, n)
      /\ \A n \in ObjectIds : AutoFill!InGroup(n, s.group) => ~WaitsIn(D, n)
  BY <1>2, DropEntry
<1>4. PICK m \in Nat : s.group = [number |-> m, whole |-> FALSE]
  <2>1. /\ agenda \in Seq(SUBSET Entry) /\ 1 \in DOMAIN agenda /\ Head(agenda) = agenda[1]
        /\ IsLevel(agenda[1])
    BY <1>2, EmptySeq DEF IsAgenda
  <2>2. RealGroup(s.group) /\ (s.group.whole => s.size <= 1) /\ s.size \in Nat
    BY <2>1 DEF IsLevel, Entry
  <2>3. ~s.group.whole
    BY <1>1, <2>2, ImportsAssumption DEF AutoFill!Small, AutoFill!AutoAssumption
  <2> QED
    BY <2>2, <2>3, Zenon DEF RealGroup, Group
<1>5. /\ IsLevel(G)
      /\ \A n \in AutoFill!Valid :
           AutoFill!InGroup(n, s.group) => \E g \in G : AutoFill!InGroup(n, g.group)
      /\ \A g \in G, n \in ObjectIds : AutoFill!InGroup(n, g.group) => AutoFill!InGroup(n, s.group)
      /\ \A g, h \in G, n \in ObjectIds :
           AutoFill!InGroup(n, g.group) /\ AutoFill!InGroup(n, h.group) => g = h
  <2> DEFINE g0 == [number |-> m, whole |-> FALSE]
  <2>1. LET F == AutoFill!Groups(g0)
        IN  /\ IsLevel(F)
            /\ \A n \in AutoFill!Valid :
                 AutoFill!InGroup(n, g0) => \E g \in F : AutoFill!InGroup(n, g.group)
            /\ \A g \in F, n \in ObjectIds : AutoFill!InGroup(n, g.group) => AutoFill!InGroup(n, g0)
            /\ \A g, h \in F, n \in ObjectIds :
                 AutoFill!InGroup(n, g.group) /\ AutoFill!InGroup(n, h.group) => g = h
    BY <1>2, GroupsFacts
  <2>2. s.group = g0
    BY <1>4
  <2> HIDE DEF g0
  <2> QED
    BY <2>1, <2>2
<1>6. <<G, Head(agenda) \ {s}>> \o Tail(agenda) = <<G>> \o D
  <2>1. /\ agenda \in Seq(SUBSET Entry) /\ Head(agenda) \subseteq Entry
        /\ Tail(agenda) \in Seq(SUBSET Entry) /\ G \subseteq Entry
    BY <1>2, <1>5, HeadTailProperties DEF IsAgenda, IsLevel
  <2> DEFINE X == Head(agenda) \ {s}
             T == Tail(agenda)
  <2>2. X \in SUBSET Entry /\ G \in SUBSET Entry /\ T \in Seq(SUBSET Entry)
    BY <2>1
  <2> HIDE DEF X, T, G
  <2>3. <<G, X>> = <<G>> \o <<X>> /\ <<G>> \in Seq(SUBSET Entry) /\ <<X>> \in Seq(SUBSET Entry)
    BY <2>2
  <2>4. <<G, X>> \o T = <<G>> \o (<<X>> \o T)
    BY <2>2, <2>3, ConcatAssociative
  <2> QED
    BY <2>4, Zenon DEF X, T
<1> DEFINE B == <<G>> \o D
<1> HIDE DEF G, D
<1>7. /\ IsAgenda(B) /\ ApartIn(B)
      /\ \A n : WaitsIn(B, n) <=> WaitsIn(D, n) \/ \E g \in G : AutoFill!InGroup(n, g.group)
  BY <1>3, <1>5, PushLevel
<1> HIDE DEF B
<1>8. CASE agenda' = D /\ capped'
  <2>1. AutoTypes'
    BY <1>1, <1>2, <1>3, <1>8 DEF AutoTypes
  <2>2. QueuedOnce' /\ NothingLeft'
    BY <1>1, <1>2, <1>3, <1>8 DEF QueuedOnce, NothingLeft
  <2> QED
    BY <1>1, <1>3, <1>8, <2>1, <2>2 DEF AutoInv
<1>9. CASE agenda' = B /\ capped' = capped
  <2>1. AutoTypes'
    BY <1>1, <1>2, <1>7, <1>9 DEF AutoTypes
  <2>2. \A n \in ObjectIds : WaitsIn(B, n) => WaitsIn(agenda, n)
    BY <1>3, <1>5, <1>7
  <2>3. QueuedOnce'
    BY <1>1, <1>2, <1>9, <2>2 DEF QueuedOnce
  <2>4. NothingLeft'
    <3> SUFFICES ASSUME ~capped, NEW n \in files \ documents, n \notin BadKeys
                 PROVE  added[n] = 1 \/ WaitsIn(B, n)
      BY <1>1, <1>9 DEF NothingLeft
    <3>1. n \in AutoFill!Valid /\ (added[n] = 1 \/ WaitsIn(agenda, n))
      BY <1>2 DEF NothingLeft, AutoTypes, AutoFill!Valid
    <3> QED
      BY <1>3, <1>5, <1>7, <3>1
  <2> QED
    BY <1>1, <1>7, <1>9, <2>1, <2>3, <2>4 DEF AutoInv
<1> QED
  BY <1>1, <1>6, <1>8, <1>9 DEF B

LEMMA AutoStep ==
  ASSUME AutoInv, [AutoFill!Next]_autoVars PROVE AutoInv'
<1>1. ASSUME NEW n \in ObjectIds, AutoFill!NewObject(n) PROVE AutoInv'
  BY <1>1 DEF AutoFill!NewObject, AutoInv, AutoTypes
<1>2. ASSUME NEW n \in ObjectIds, AutoFill!Index(n) PROVE AutoInv'
  BY <1>2 DEF AutoFill!Index, AutoInv, AutoTypes, QueuedOnce, NothingLeft
<1>3. CASE AutoFill!StartRun
  BY <1>3 DEF AutoFill!StartRun, AutoInv, AutoTypes
<1>4. CASE AutoFill!TakePage
  <2>1. /\ activity = "topup" /\ files' \subseteq files \cup objects
        /\ objects' \subseteq objects
        /\ UNCHANGED <<annotated, activity, agenda, capped, added>>
    BY <1>4 DEF AutoFill!TakePage, AutoFill!Page, AutoFill!Listed
  <2> QED
    BY <2>1 DEF AutoInv, AutoTypes
<1>5. CASE AutoFill!UpToDate
  BY <1>5, AutoBegins
<1>6. ASSUME agenda # <<>>, NEW s \in Head(agenda), AutoFill!Fill(s) PROVE AutoInv'
  BY <1>6, AutoCompares
<1>7. ASSUME agenda # <<>>, NEW s \in Head(agenda), AutoFill!Decimate(s) PROVE AutoInv'
  BY <1>7, AutoDivides
<1>8. CASE AutoFill!LevelDone
  <2>1. /\ agenda # <<>> /\ Head(agenda) = {} /\ agenda' = Tail(agenda) /\ activity = "fill"
        /\ UNCHANGED <<objects, files, annotated, documents, activity, added, capped>>
    BY <1>8 DEF AutoFill!LevelDone
  <2>2. /\ IsAgenda(Tail(agenda)) /\ (ApartIn(agenda) => ApartIn(Tail(agenda)))
        /\ \A n : WaitsIn(Tail(agenda), n) <=> WaitsIn(agenda, n)
    BY <2>1, PopLevel DEF AutoInv, AutoTypes
  <2> QED
    BY <2>1, <2>2 DEF AutoInv, AutoTypes, QueuedOnce, NothingLeft
<1>9. CASE AutoFill!EndRun
  BY <1>9 DEF AutoFill!EndRun, AutoInv, AutoTypes
<1>10. CASE AutoFill!RunFails
  <2>1. IsAgenda(<<>>)
    BY DEF IsAgenda
  <2> QED
    BY <1>10, <2>1 DEF AutoFill!RunFails, AutoInv, AutoTypes
<1>11. CASE UNCHANGED autoVars
  BY <1>11 DEF autoVars, AutoInv, AutoTypes, QueuedOnce, NothingLeft
<1> QED
  BY <1>1, <1>2, <1>3, <1>4, <1>5, <1>6, <1>7, <1>8, <1>9, <1>10, <1>11 DEF AutoFill!Next

(* auto_backfill: however the numbers are divided into groups by their     *)
(* digits, and whatever becomes a document meanwhile, a run queues each of *)
(* the holes of its table once, unless it was cut off by MAX_SIZE          *)
(* (auto_backfill.py 75-104).                                              *)
THEOREM EachHoleIsQueuedOnce == AutoFill!Spec => []HolesAreFilledOnce
<1>1. AutoFill!AutoInit => AutoInv
  BY AutoStarts
<1>2. AutoInv /\ [AutoFill!Next]_autoVars => AutoInv'
  BY AutoStep
<1>3. AutoInv => HolesAreFilledOnce
  <2> SUFFICES ASSUME AutoInv, activity = "fill"
               PROVE  /\ \A n \in ObjectIds : added[n] <= 1
                      /\ agenda = <<>> /\ ~capped =>
                           \A n \in files \ documents : n \in BadKeys \/ added[n] = 1
    BY DEF HolesAreFilledOnce, AutoFill!HolesAreFilledOnce
  <2>1. \A n \in ObjectIds : added[n] <= 1
    BY DEF AutoInv, QueuedOnce
  <2>2. \A n : ~WaitsIn(<<>>, n)
    BY DEF WaitsIn
  <2> QED
    BY <2>1, <2>2 DEF AutoInv, NothingLeft
<1> QED
  BY <1>1, <1>2, <1>3, PTL DEF AutoFill!Spec, AutoFill!autoVars, autoVars

==============================================================================
