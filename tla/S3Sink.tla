------------------------------- MODULE S3Sink -------------------------------
(***************************************************************************)
(* Documents are added to an object that may exist                         *)
(* (activedata_etl/sinks/s3_bucket.py, S3Bucket._extend): it is read, its  *)
(* documents are merged with the new, and the whole is written.  Several   *)
(* threads may do so at once.                                              *)
(***************************************************************************)
EXTENDS Naturals, FiniteSets

CONSTANTS
  Writers,      (* threads that extend                                     *)
  DocIds,       (* etl.id of the documents                                 *)
  MaxExtends    (* bound on the calls                                      *)

VARIABLES
  object,       (* the object: etl.id -> the call that made it; 0 is none  *)
  extending,    (* of each writer: [step, docs, read, call]                *)
  extends,      (* history: the number of calls                            *)
  promised,     (* history: what calls that returned have written          *)
  overlapped,   (* history: a call began before another had ended          *)
  unread        (* history: an object could not be read                    *)

sinkVars == <<object, extending, extends, promised, overlapped, unread>>

Empty == [d \in DocIds |-> 0]
Resting == [step |-> "rest", docs |-> {}, read |-> Empty, call |-> 0]

Init ==
  /\ object = Empty /\ promised = Empty
  /\ extending = [w \in Writers |-> Resting]
  /\ extends = 0 /\ overlapped = FALSE /\ unread = FALSE

(* extend calls _extend with the documents of one object.                  *)
Extend(w, docs) ==
  /\ extending[w].step = "rest" /\ extends < MaxExtends
  /\ extends' = extends + 1
  /\ extending' = [extending EXCEPT ![w] =
       [step |-> "read", docs |-> docs, read |-> Empty, call |-> extends + 1]]
  /\ overlapped' = (overlapped \/ \E v \in Writers : extending[v].step # "rest")
  /\ UNCHANGED <<object, promised, unread>>

(* get_meta and read_lines.                                                *)
Read(w) ==
  /\ extending[w].step = "read"
  /\ extending' = [extending EXCEPT ![w].step = "write", ![w].read = object]
  /\ UNCHANGED <<object, extends, promised, overlapped, unread>>

(* "problem looking at existing records": they are as good as gone.        *)
ReadFails(w) ==
  /\ extending[w].step = "read" /\ object # Empty
  /\ extending' = [extending EXCEPT ![w].step = "write"]
  /\ unread' = TRUE
  /\ UNCHANGED <<object, extends, promised, overlapped>>

(* Mutant: the documents that were there before are not kept.              *)
MergedNone(e) == [d \in DocIds |-> IF d \in e.docs THEN e.call ELSE 0]

(* documents | residual                                                    *)
Merged(e) == [d \in DocIds |-> IF d \in e.docs THEN e.call ELSE e.read[d]]

(* overwrite                                                               *)
WriteOver(w) ==
  /\ extending[w].step = "read"
  /\ object' = MergedNone(extending[w])
  /\ promised' = object'
  /\ extending' = [extending EXCEPT ![w] = Resting]
  /\ UNCHANGED <<extends, overlapped, unread>>

Write(w) ==
  /\ extending[w].step = "write"
  /\ object' = Merged(extending[w])
  /\ promised' = [d \in DocIds |-> IF d \in extending[w].docs THEN extending[w].call ELSE promised[d]]
  /\ extending' = [extending EXCEPT ![w] = Resting]
  /\ UNCHANGED <<extends, overlapped, unread>>

(* The write fails, and the caller is told.                                *)
WriteFails(w) ==
  /\ extending[w].step = "write"
  /\ extending' = [extending EXCEPT ![w] = Resting]
  /\ UNCHANGED <<object, extends, promised, overlapped, unread>>

Next ==
  \E w \in Writers :
    \/ \E docs \in SUBSET DocIds \ {{}} : Extend(w, docs)
    \/ Read(w) \/ ReadFails(w) \/ WriteOver(w) \/ Write(w) \/ WriteFails(w)

Spec == Init /\ [][Next]_sinkVars

-----------------------------------------------------------------------------
(* Properties.                                                             *)

SinkTypeOK ==
  /\ object \in [DocIds -> 0 .. MaxExtends]
  /\ \A w \in Writers : extending[w].step \in {"rest", "read", "write"}
  /\ extends \in 0 .. MaxExtends

(* A document that extend has written stays until a newer one takes its    *)
(* place: as long as no two calls overlap, and every object can be read.   *)
ExtendKeeps == overlapped \/ unread \/ object = promised
==============================================================================
