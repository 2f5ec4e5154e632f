----------------------------- MODULE FileMapper -----------------------------
(***************************************************************************)
(* From the name of a file in a coverage artifact to the source file       *)
(* (activedata_etl/imports/file_mapper.py).  A listing of the source files *)
(* is put in a tree of path components, the last one first; when two files *)
(* meet, the older is moved down the tree.  A file is the sequence of its  *)
(* components, the last one first, and the tree the set of its leaves.     *)
(***************************************************************************)
EXTENDS Naturals, Sequences, SequencesExt, FiniteSets

CONSTANTS
  Files,        (* the source files of the listing                         *)
  Asked,        (* the files of the artifacts, source files or not         *)
  Excluded,     (* the directories that are not listed                     *)
  SuiteWords,   (* the words that a suite adds to those of a file          *)
  Refused,      (* files of KNOWN_FAILURES                                 *)
  MaxFinds      (* bound on the calls of find                              *)

(* A file has a name, and no component of it is ".", which _add puts       *)
(* behind one that ends where another goes on.                             *)
FileMapperAssumption ==
  \A f \in Files : f # << >> /\ f \in Seq(ToSet(f) \ {"."})

VARIABLES
  leaves,       (* lookup: [path, file]                                    *)
  adding,       (* the file that _add is about, or << >>                   *)
  mapping,      (* "reading", "read", "none"                               *)
  listing,      (* the files that are still to be read                     *)
  failures,     (* known_failures                                          *)
  found,        (* the last answer: [asked, name, is_firefox]              *)
  listings,     (* history: the listings tried                             *)
  finds         (* history: the calls of find                              *)

mapVars == <<leaves, adding, mapping, listing, failures, found, listings, finds>>

Nothing == [asked |-> << >>, name |-> << >>, is_firefox |-> FALSE]

Init ==
  /\ leaves = {} /\ adding = << >> /\ mapping = "reading" /\ listing = Files
  /\ failures = {} /\ found = Nothing
  /\ listings = 1 /\ finds = 0

Up(file, i) == SubSeq(file, 1, i)

IsText(path) == \E l \in leaves : l.path = path

IsTree(path) == \E l \in leaves : IsStrictPrefix(path, l.path)

(* Where the way of a file down the tree ends, or 0 if it never does.      *)
Stop(file) ==
  LET off == {i \in 1 .. Len(file) : ~IsTree(Up(file, i))}
  IN IF off = {} THEN 0 ELSE CHOOSE i \in off : \A j \in off : i <= j

-----------------------------------------------------------------------------
(* __init__ reads one listing after the other until one was read.          *)

(* Mutant: nothing is excluded.                                            *)
NextFileAll(file) ==
  /\ adding = << >>
  /\ mapping = "reading" /\ file \in listing
  /\ listing' = listing \ {file}
  /\ adding' = file
  /\ UNCHANGED <<leaves, mapping, failures, found, listings, finds>>

NextFile(file) ==
  /\ adding = << >>
  /\ mapping = "reading" /\ file \in listing
  /\ listing' = listing \ {file}
  /\ adding' = IF Last(file) \in Excluded THEN << >> ELSE file
  /\ UNCHANGED <<leaves, mapping, failures, found, listings, finds>>

ListingRead ==
  /\ adding = << >> /\ mapping = "reading" /\ listing = {}
  /\ mapping' = "read"
  /\ UNCHANGED <<leaves, adding, listing, failures, found, listings, finds>>

(* What was read stays in the tree.                                        *)
ListingFails ==
  /\ adding = << >> /\ mapping = "reading"
  /\ IF listings = 1
     THEN listings' = 2 /\ listing' = Files /\ UNCHANGED mapping
     ELSE mapping' = "none" /\ UNCHANGED <<listing, listings>>
  /\ UNCHANGED <<leaves, adding, failures, found, finds>>

(* Mutant: the older file is not put back.                                 *)
AddForgets ==
  /\ adding # << >>
  /\ LET i == Stop(adding)
         path == Up(adding, i)
         below == IF i = Len(adding) THEN Append(path, ".") ELSE Up(adding, i + 1)
     IN  leaves' = IF i = 0 THEN leaves
                   ELSE IF IsText(path)
                     THEN {l \in leaves : l.path # path} \cup {[path |-> below, file |-> adding]}
                     ELSE leaves \cup {[path |-> path, file |-> adding]}
  /\ adding' = << >>
  /\ UNCHANGED <<mapping, listing, failures, found, listings, finds>>

(* _add: a file whose way never ends is not put in the tree; one that      *)
(* meets a file takes its place with one component more, and then the      *)
(* other is added.                                                         *)
Add ==
  /\ adding # << >>
  /\ LET i == Stop(adding)
         path == Up(adding, i)
         met == {l \in leaves : i > 0 /\ l.path = path}
         below == IF i = Len(adding) THEN Append(path, ".") ELSE Up(adding, i + 1)
     IN  /\ leaves' = CASE i = 0 -> leaves
                        [] i > 0 /\ met = {} -> leaves \cup {[path |-> path, file |-> adding]}
                        [] OTHER -> (leaves \ met) \cup {[path |-> below, file |-> adding]}
         /\ adding' = IF met = {} THEN << >> ELSE (CHOOSE l \in met : TRUE).file
  /\ UNCHANGED <<mapping, listing, failures, found, listings, finds>>

-----------------------------------------------------------------------------
(* find.                                                                   *)

Words(file) == ToSet(file)

(* Files are compared by the words they share, relative to all their words.*)
Better(asked, f, g) ==
  LET w == Words(asked) \cup SuiteWords
      Shared(h) == Cardinality(w \cap Words(h))
      All(h) == Cardinality(w \cup Words(h))
  IN Shared(f) * All(g) > Shared(g) * All(f)

Best(asked, candidates) ==
  {f \in candidates : \A g \in candidates \ {f} : Better(asked, f, g)}

Answer(asked, name, is_firefox) ==
  [asked |-> asked, name |-> name, is_firefox |-> is_firefox]

Ask(asked) ==
  /\ mapping = "read"
  /\ finds < MaxFinds /\ finds' = finds + 1
  /\ UNCHANGED <<leaves, adding, mapping, listing, listings>>

(* A file that never was, or once could not be, resolved.                  *)
FindRefused(asked) ==
  /\ Ask(asked)
  /\ asked \in Refused \cup failures
  /\ found' = Answer(asked, asked, FALSE)
  /\ UNCHANGED failures

(* The way ends at a file, which need not be the one that was asked for.   *)
FindText(asked) ==
  /\ Ask(asked)
  /\ asked \notin Refused \cup failures
  /\ \E l \in leaves :
       /\ Stop(asked) > 0 /\ l.path = Up(asked, Stop(asked))
       /\ found' = Answer(asked, l.file, TRUE)
  /\ UNCHANGED failures

(* The way ends elsewhere: below that there are candidates, unless it      *)
(* never went further than the name of the file.                           *)
FindBest(asked) ==
  /\ Ask(asked)
  /\ asked \notin Refused \cup failures
  /\ LET i == Stop(asked)
         top == Up(asked, IF i = 0 THEN Len(asked) ELSE i - 1)
         best == Best(asked, {l.file : l \in {m \in leaves : IsPrefix(top, m.path)}})
         alone == i = 1 \/ Len(asked) = 1
     IN  /\ ~ (i > 0 /\ IsText(Up(asked, i)))
         /\ found' = IF alone \/ best = {} THEN Answer(asked, asked, FALSE)
                     ELSE Answer(asked, CHOOSE f \in best : TRUE, TRUE)
         /\ failures' = IF ~alone /\ best = {} THEN failures \cup {asked} ELSE failures

Next ==
  \/ \E file \in Files : NextFile(file)
  \/ Add \/ ListingRead \/ ListingFails
  \/ \E asked \in Asked : FindRefused(asked) \/ FindText(asked) \/ FindBest(asked)

Spec == Init /\ [][Next]_mapVars

-----------------------------------------------------------------------------
(* Properties.                                                             *)

Listed == {f \in Files : Last(f) \notin Excluded}

EndsAnother(f, files) == \E g \in files : IsStrictPrefix(f, g)

FileMapperTypeOK ==
  /\ {l.file : l \in leaves} \subseteq Listed
  /\ adding \in Listed \cup {<< >>}
  /\ failures \subseteq Asked
  /\ found.name \in Asked \cup Listed \cup {<< >>}

(* A source file is found under its own name, wherever the others have     *)
(* moved it: unless another one ends with its path, or it is at the top of *)
(* the tree and was listed twice.                                          *)
SourceIsFound ==
  /\ found.asked \in Listed \ Refused
  /\ ~EndsAnother(found.asked, Listed)
  /\ Len(found.asked) > 1 \/ listings = 1
  => found.name = found.asked /\ found.is_firefox
==============================================================================
