----------------------------- MODULE BuildbotDay -----------------------------
(***************************************************************************)
(* One day of buildbot logs on its way to S3                               *)
(* (activedata_etl/buildbot_json_logs.py, parse_day).  The day is cut into *)
(* blocks.  Block 0 is kept for the end: a day whose block 0 is in the     *)
(* bucket is not done again.  The other blocks are uploaded by threads of  *)
(* their own, which nobody joins: they die with the process.               *)
(***************************************************************************)
EXTENDS Naturals, FiniteSets

CONSTANTS
  Last,         (* the number of the day's last block                      *)
  Slots,        (* the literal 20: above it no upload is started           *)
  ForceSettings, (* what the setting `force` may be                        *)
  MaxFaults     (* bound on failed calls and on processes that die         *)

Blocks == 0 .. Last
Uploads == 1 .. Last

ASSUME DayAssumption ==
  /\ Last \in Nat
  /\ Slots \in Nat
  /\ ForceSettings \subseteq BOOLEAN
  /\ MaxFaults \in Nat

VARIABLES
  pc,           (* where parse_day is                                      *)
  block,        (* group_number                                            *)
  at,           (* where each upload is                                    *)
  threads,      (* the set of that name                                    *)
  stored,       (* the blocks in the bucket                                *)
  notified,     (* the blocks the notify queue was told of                 *)
  faults

vars == <<pc, block, at, threads, stored, notified, faults>>

TypeOK ==
  /\ pc \in {"check", "chunk", "wait", "add", "first", "notify", "confirm", "end"}
  /\ block \in Nat
  /\ at \in [Uploads -> {"none", "write", "notify", "remove", "over"}]
  /\ threads \subseteq Uploads
  /\ stored \subseteq Blocks
  /\ notified \subseteq Blocks
  /\ faults \in 0 .. MaxFaults

Fault ==
  /\ faults < MaxFaults
  /\ faults' = faults + 1

Goto(p) == pc' = p

-----------------------------------------------------------------------------
(* parse_day.                                                              *)

(* Mutant: any block makes the day done.                                   *)
CheckAnyBlock ==
  /\ FALSE \in ForceSettings
  /\ Goto(IF stored # {} THEN "end" ELSE "chunk")
  /\ UNCHANGED <<stored, faults>>

CheckDone ==
  /\ FALSE \in ForceSettings
  /\ Goto(IF 0 \in stored THEN "end" ELSE "chunk")
  /\ UNCHANGED <<stored, faults>>

(* delete_key() is allowed to fail.                                        *)
Redo ==
  /\ TRUE \in ForceSettings
  /\ Goto("chunk")
  /\ \/ stored' = stored \ {0} /\ UNCHANGED faults
     \/ Fault /\ UNCHANGED stored

(* Was this day done?                                                      *)
Check ==
  /\ pc = "check"
  /\ CheckDone \/ Redo
  /\ UNCHANGED <<block, at, threads, notified>>

(* Mutant: one block more than there are.                                  *)
ChunkTooMany ==
  /\ pc = "chunk"
  /\ Goto(IF block = 0 THEN "chunk" ELSE IF block <= Last + 1 THEN "wait" ELSE "first")
  /\ block' = IF block = 0 THEN 1 ELSE block
  /\ UNCHANGED <<at, threads, stored, notified, faults>>

(* The next 100 tasks; block 0 is put aside.                               *)
Chunk ==
  /\ pc = "chunk"
  /\ Goto(IF block = 0 THEN "chunk" ELSE IF block <= Last THEN "wait" ELSE "first")
  /\ block' = IF block = 0 THEN 1 ELSE block
  /\ UNCHANGED <<at, threads, stored, notified, faults>>

(* Mutant: an upload is started without a look at the others.              *)
StartAnyUpload ==
  /\ pc = "wait"
  /\ at' = [at EXCEPT ![block] = "write"]
  /\ Goto("add")
  /\ UNCHANGED <<block, threads, stored, notified, faults>>

(* Thread.run.                                                             *)
StartUpload ==
  /\ pc = "wait"
  /\ Cardinality(threads) <= Slots
  /\ at' = [at EXCEPT ![block] = "write"]
  /\ Goto("add")
  /\ UNCHANGED <<block, threads, stored, notified, faults>>

(* threads.add(thread), after the thread was started.                      *)
AddThread ==
  /\ pc = "add"
  /\ threads' = threads \cup {block}
  /\ block' = block + 1
  /\ Goto("chunk")
  /\ UNCHANGED <<at, stored, notified, faults>>

WriteFirst ==
  /\ pc = "first"
  /\ stored' = stored \cup {0}
  /\ Goto("notify")
  /\ UNCHANGED <<block, at, threads, notified, faults>>

NotifyFirst ==
  /\ pc = "notify"
  /\ notified' = notified \cup {0}
  /\ Goto("confirm")
  /\ UNCHANGED <<block, at, threads, stored, faults>>

Confirm ==
  /\ pc = "confirm"
  /\ Goto("end")
  /\ UNCHANGED <<block, at, threads, stored, notified, faults>>

(* A call of parse_day raises, perhaps after it did its work, and          *)
(* parse_to_s3 goes on to another day.                                     *)
MainFails ==
  /\ pc \in {"check", "chunk", "first", "notify", "confirm"}
  /\ Fault
  /\ Goto("end")
  /\ stored' \in {stored, IF pc = "first" THEN stored \cup {0} ELSE stored}
  /\ notified' \in {notified, IF pc = "notify" THEN notified \cup {0} ELSE notified}
  /\ UNCHANGED <<block, at, threads>>

-----------------------------------------------------------------------------
(* upload.                                                                 *)

At(b, p) == at' = [at EXCEPT ![b] = p]

(* Mutant: the consumers are told before the block is there.               *)
WriteAfterNotify(b) ==
  /\ at[b] = "write"
  /\ At(b, "notify")
  /\ UNCHANGED <<pc, block, threads, stored, notified, faults>>

Write(b) ==
  /\ at[b] = "write"
  /\ stored' = stored \cup {b}
  /\ At(b, "notify")
  /\ UNCHANGED <<pc, block, threads, notified, faults>>

Notify(b) ==
  /\ at[b] = "notify"
  /\ notified' = notified \cup {b}
  /\ At(b, "remove")
  /\ UNCHANGED <<pc, block, threads, stored, faults>>

UploadFails(b) ==
  /\ at[b] \in {"write", "notify"}
  /\ Fault
  /\ At(b, "remove")
  /\ stored' \in {stored, IF at[b] = "write" THEN stored \cup {b} ELSE stored}
  /\ notified' \in {notified, IF at[b] = "notify" THEN notified \cup {b} ELSE notified}
  /\ UNCHANGED <<pc, block, threads>>

(* threads.remove() raises if the thread has not been added yet.           *)
Remove(b) ==
  /\ at[b] = "remove"
  /\ threads' = threads \ {b}
  /\ At(b, "over")
  /\ UNCHANGED <<pc, block, stored, notified, faults>>

-----------------------------------------------------------------------------
(* The process dies, or ends and takes the uploads with it; the next one   *)
(* looks at the day again.                                                 *)
NextProcess ==
  /\ \/ pc = "end" /\ UNCHANGED faults
     \/ Fault
  /\ Goto("check")
  /\ block' = 0
  /\ at' = [b \in Uploads |-> "none"]
  /\ threads' = {}
  /\ UNCHANGED <<stored, notified>>

Init ==
  /\ pc = "check"
  /\ block = 0
  /\ at = [b \in Uploads |-> "none"]
  /\ threads = {}
  /\ stored = {}
  /\ notified = {}
  /\ faults = 0

Main == Check \/ Chunk \/ StartUpload \/ AddThread \/ WriteFirst \/ NotifyFirst \/ Confirm
Upload(b) == Write(b) \/ Notify(b) \/ Remove(b)

Next ==
  \/ Main \/ MainFails \/ NextProcess
  \/ \E b \in Uploads : Upload(b) \/ UploadFails(b)

Spec == Init /\ [][Next]_vars
Fairness ==
  /\ WF_vars(Main)
  /\ \A b \in Uploads : WF_vars(Upload(b))
  /\ WF_vars(pc = "end" /\ NextProcess)
FairSpec == Spec /\ Fairness

-----------------------------------------------------------------------------
(* Properties.                                                             *)

(* buildbot_json_logs.py:126: block 0 is written last.                     *)
FirstBlockLast == 0 \in stored => stored = Blocks

(* A consumer that is told of a block finds it in the bucket.              *)
ToldAfterStored == [][notified' \ notified \subseteq stored']_vars

(* Uploads that are over and still in the set.                             *)
Leaked == {b \in threads : at[b] = "over"}
Running == {b \in Uploads : at[b] \in {"write", "notify", "remove"}}

(* The limit on uploads holds: one more than Slots, and every thread that  *)
(* was added too late costs one of them for good.                          *)
UploadsAreBounded == Cardinality(Running) + Cardinality(Leaked) <= Slots + 1

(* Only such threads can keep a day from getting its block 0.              *)
DayIsMarked == <>(0 \in stored) \/ <>[](Cardinality(Leaked) > Slots)
=============================================================================
