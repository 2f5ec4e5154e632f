--------------------------- MODULE ServicesProofs ---------------------------
(***************************************************************************)
(* Theorems of the services that MCServices puts side by side: the         *)
(* buildbot loader, the S3 sink, the copying of a queue, the logger of     *)
(* Firefox tests, and what MoQueueProofs says of the queue, as theorems of *)
(* the composition.                                                        *)
(***************************************************************************)
EXTENDS MCServices, FiniteSetTheorems, WellFoundedInduction, TLAPS

Q == INSTANCE MoQueueProofs

-----------------------------------------------------------------------------
(* BuildbotDay.                                                            *)

(* Block numbers are in range where they are used.                         *)
BlockOK ==
  /\ pc \in {"wait", "add"} => block \in Uploads
  /\ pc = "check" => block = 0

(* parse_day and upload have stored what they are about to announce.       *)
StoredOK ==
  /\ pc = "notify" => 0 \in stored
  /\ \A b \in Uploads : at[b] = "notify" => b \in stored

DayInv == TypeOK /\ BlockOK /\ StoredOK

(* Block 0 and the uploads are blocks.                                     *)
LEMMA BlockFacts ==
  /\ 0 \in Blocks
  /\ Uploads \subseteq Blocks
  /\ 0 \notin Uploads
  BY DayAssumption DEF Blocks, Uploads

(* A fault keeps the count of faults in range.                             *)
LEMMA FaultType == ASSUME faults \in 0 .. MaxFaults, Fault PROVE faults' \in 0 .. MaxFaults
  BY DayAssumption DEF Fault

(* The first process has stored nothing and is about to announce nothing.  *)
LEMMA DayInit == Init => DayInv
  BY DayAssumption DEF Init, DayInv, TypeOK, BlockOK, StoredOK, Uploads, Blocks

(* Every step keeps types and ranges, and stores before it announces.      *)
LEMMA DayStep == DayInv /\ [Next]_vars => DayInv'
<1> SUFFICES ASSUME DayInv, [Next]_vars PROVE DayInv'
  OBVIOUS
<1> USE DayAssumption, BlockFacts DEF DayInv, TypeOK, BlockOK, StoredOK
<1>1. CASE Check
  <2>1. CASE CheckDone
    BY <1>1, <2>1 DEF Check, CheckDone, Goto
  <2>2. CASE Redo
    <3>1. pc = "check" /\ pc' = "chunk" /\ UNCHANGED <<block, at, threads, notified>>
      BY <1>1, <2>2 DEF Check, Redo, Goto
    <3>2. stored' \subseteq Blocks /\ \A b \in Uploads : b \in stored => b \in stored'
      BY <2>2 DEF Redo
    <3>3. faults' \in 0 .. MaxFaults
      BY <2>2, FaultType DEF Redo
    <3> QED
      BY <3>1, <3>2, <3>3
  <2> QED
    BY <1>1, <2>1, <2>2 DEF Check
<1>2. CASE Chunk
  BY <1>2 DEF Chunk, Goto, Uploads
<1>3. CASE StartUpload
  BY <1>3 DEF StartUpload, Goto
<1>4. CASE AddThread
  BY <1>4 DEF AddThread, Goto, Uploads
<1>5. CASE WriteFirst
  BY <1>5 DEF WriteFirst, Goto
<1>6. CASE NotifyFirst
  BY <1>6 DEF NotifyFirst, Goto
<1>7. CASE Confirm
  BY <1>7 DEF Confirm, Goto
<1>8. CASE MainFails
  <2>1. pc' = "end" /\ UNCHANGED <<block, at, threads>>
    BY <1>8 DEF MainFails, Goto
  <2>2. stored \subseteq stored' /\ stored' \subseteq Blocks /\ notified' \subseteq Blocks
    BY <1>8 DEF MainFails
  <2>3. faults' \in 0 .. MaxFaults
    BY <1>8, FaultType DEF MainFails
  <2> QED
    BY <2>1, <2>2, <2>3
<1>9. CASE NextProcess
  <2>1. faults' \in 0 .. MaxFaults
    BY <1>9, FaultType DEF NextProcess
  <2> QED
    BY <1>9, <2>1 DEF NextProcess, Goto
<1>10. ASSUME NEW b \in Uploads, Upload(b) PROVE DayInv'
  <2>1. CASE Write(b)
    BY <2>1 DEF Write, At
  <2>2. CASE Notify(b)
    BY <2>2 DEF Notify, At
  <2>3. CASE Remove(b)
    BY <2>3 DEF Remove, At
  <2> QED
    BY <1>10, <2>1, <2>2, <2>3 DEF Upload
<1>11. ASSUME NEW b \in Uploads, UploadFails(b) PROVE DayInv'
  <2>1. stored \subseteq stored' /\ stored' \subseteq Blocks /\ notified' \subseteq Blocks
    BY <1>11 DEF UploadFails
  <2>2. faults' \in 0 .. MaxFaults
    BY <1>11, FaultType DEF UploadFails
  <2>3. at' = [at EXCEPT ![b] = "remove"] /\ UNCHANGED <<pc, block, threads>>
    BY <1>11 DEF UploadFails, At
  <2> QED
    BY <2>1, <2>2, <2>3
<1>12. CASE UNCHANGED vars
  BY <1>12 DEF vars
<1> QED
  BY <1>1, <1>2, <1>3, <1>4, <1>5, <1>6, <1>7, <1>8, <1>9, <1>10, <1>11, <1>12 DEF Next, Main

(* What is announced in a step is stored by then.                          *)
LEMMA ToldStep == DayInv /\ [Next]_vars => notified' \ notified \subseteq stored'
<1> SUFFICES ASSUME DayInv, [Next]_vars PROVE notified' \ notified \subseteq stored'
  OBVIOUS
<1> USE DEF DayInv, StoredOK
<1>1. CASE Check \/ Chunk \/ StartUpload \/ AddThread \/ WriteFirst \/ Confirm
  BY <1>1 DEF Check, Chunk, StartUpload, AddThread, WriteFirst, Confirm
<1>2. CASE NotifyFirst
  BY <1>2 DEF NotifyFirst
<1>3. CASE MainFails
  BY <1>3 DEF MainFails
<1>4. CASE NextProcess
  BY <1>4 DEF NextProcess
<1>5. ASSUME NEW b \in Uploads, Upload(b) \/ UploadFails(b) PROVE notified' \ notified \subseteq stored'
  BY <1>5 DEF Upload, Write, Notify, Remove, UploadFails
<1>6. CASE UNCHANGED vars
  BY <1>6 DEF vars
<1> QED
  BY <1>1, <1>2, <1>3, <1>4, <1>5, <1>6 DEF Next, Main

(* The types and ranges of parse_day hold throughout, and it has stored    *)
(* what it is about to announce.                                           *)
THEOREM DaySafety == Spec => []DayInv
  BY DayInit, DayStep, PTL DEF Spec

(* A consumer that is told of a block finds it in the bucket, whatever     *)
(* fails and whenever the process dies (buildbot_json_logs.py:134-135).    *)
THEOREM AnnouncedIsStored == Spec => ToldAfterStored
<1>1. DayInv /\ [Next]_vars => [notified' \ notified \subseteq stored']_vars
  BY ToldStep
<1> QED
  BY <1>1, DaySafety, PTL DEF Spec, ToldAfterStored
-----------------------------------------------------------------------------
(* parse_day waits for a free slot; a running upload is in the set, or is  *)
(* the one that was started and not yet added.                             *)
Started == IF pc = "add" THEN {block} ELSE {}

SlotsOK ==
  /\ Cardinality(threads) <= Slots + 1
  /\ pc = "add" => Cardinality(threads) <= Slots
  /\ Running \subseteq threads \cup Started

(* The set of the threads is finite, and one step adds or removes one.     *)
LEMMA ThreadsFacts ==
  ASSUME TypeOK
  PROVE  /\ IsFiniteSet(threads)
         /\ Cardinality(threads) \in Nat
         /\ \A b : Cardinality(threads \cup {b}) <= Cardinality(threads) + 1
         /\ \A b : Cardinality(threads \ {b}) <= Cardinality(threads)
<1>1. IsFiniteSet(Uploads)
  BY DayAssumption, FS_Interval DEF Uploads
<1>2. IsFiniteSet(threads)
  BY <1>1, FS_Subset DEF TypeOK
<1>3. Cardinality(threads) \in Nat
  BY <1>2, FS_CardinalityType
<1>4. ASSUME NEW b PROVE Cardinality(threads \cup {b}) <= Cardinality(threads) + 1
  BY <1>2, <1>3, FS_AddElement
<1>5. ASSUME NEW b PROVE Cardinality(threads \ {b}) <= Cardinality(threads)
  BY <1>2, <1>3, FS_RemoveElement
<1> QED
  BY <1>2, <1>3, <1>4, <1>5

(* At first nothing runs.                                                  *)
LEMMA SlotsInit == Init => SlotsOK
  BY DayAssumption, FS_EmptySet DEF Init, SlotsOK, Running, Started

(* Every step keeps the uploads within the slots.                          *)
LEMMA SlotsStep == DayInv /\ SlotsOK /\ [Next]_vars => SlotsOK'
<1> SUFFICES ASSUME DayInv, SlotsOK, [Next]_vars PROVE SlotsOK'
  OBVIOUS
<1> USE DEF SlotsOK, Running, Started
<1>0. TypeOK /\ BlockOK
  BY DEF DayInv
<1>1. CASE Check \/ Chunk \/ WriteFirst \/ NotifyFirst \/ Confirm
  <2>1. UNCHANGED <<at, threads>> /\ pc # "add" /\ pc' # "add"
    BY <1>1 DEF Check, CheckDone, Redo, Chunk, WriteFirst, NotifyFirst, Confirm, Goto
  <2> QED
    BY <2>1
<1>2. CASE StartUpload
  <2>1. /\ Cardinality(threads) <= Slots
        /\ pc = "wait" /\ pc' = "add" /\ UNCHANGED <<block, threads>>
    BY <1>2 DEF StartUpload, Goto
  <2>2. \A b \in Uploads : b # block => at'[b] = at[b]
    BY <1>0, <1>2 DEF StartUpload, TypeOK
  <2> QED
    BY <2>1, <2>2
<1>3. CASE AddThread
  <2>1. /\ pc = "add" /\ pc' = "chunk" /\ at' = at
        /\ threads' = threads \cup {block}
    BY <1>3 DEF AddThread, Goto
  <2>2. IsFiniteSet(threads')
    BY <1>0, <2>1, ThreadsFacts, FS_AddElement
  <2>3. Cardinality(threads') \in Nat
    BY <2>2, FS_CardinalityType
  <2>4. Cardinality(threads') <= Cardinality(threads) + 1
    BY <1>0, <2>1, ThreadsFacts
  <2>5. Cardinality(threads') <= Slots + 1
    BY <1>0, <2>1, <2>3, <2>4, ThreadsFacts, DayAssumption
  <2> QED
    BY <2>1, <2>5
<1>4. CASE MainFails
  <2>1. UNCHANGED <<at, threads>> /\ pc # "add" /\ pc' # "add"
    BY <1>4 DEF MainFails, Goto
  <2> QED
    BY <2>1
<1>5. CASE NextProcess
  <2>1. pc' = "check" /\ threads' = {} /\ at' = [b \in Uploads |-> "none"]
    BY <1>5 DEF NextProcess, Goto
  <2> QED
    BY <2>1, FS_EmptySet, DayAssumption
<1>6. ASSUME NEW b \in Uploads, Write(b) \/ Notify(b) \/ UploadFails(b) PROVE SlotsOK'
  <2>1. UNCHANGED <<pc, block, threads>>
    BY <1>6 DEF Write, Notify, UploadFails
  <2>2. at[b] \in {"write", "notify", "remove"}
    BY <1>6 DEF Write, Notify, UploadFails
  <2>3. \A c \in Uploads : c # b => at'[c] = at[c]
    BY <1>0, <1>6 DEF Write, Notify, UploadFails, At, TypeOK
  <2> QED
    BY <2>1, <2>2, <2>3
<1>7. ASSUME NEW b \in Uploads, Remove(b) PROVE SlotsOK'
  <2>1. threads' = threads \ {b} /\ UNCHANGED <<pc, block>>
    BY <1>7 DEF Remove
  <2>2. at'[b] = "over" /\ \A c \in Uploads : c # b => at'[c] = at[c]
    BY <1>0, <1>7 DEF Remove, At, TypeOK
  <2>3. Cardinality(threads') <= Cardinality(threads)
    BY <1>0, <2>1, ThreadsFacts
  <2>4. Cardinality(threads) \in Nat /\ Cardinality(threads') \in Nat
    <3>1. IsFiniteSet(threads')
      BY <1>0, <2>1, ThreadsFacts, FS_RemoveElement
    <3> QED
      BY <1>0, <3>1, ThreadsFacts, FS_CardinalityType
  <2> QED
    BY <2>1, <2>2, <2>3, <2>4, DayAssumption
<1>8. CASE UNCHANGED vars
  BY <1>8 DEF vars
<1> QED
  BY <1>1, <1>2, <1>3, <1>4, <1>5, <1>6, <1>7, <1>8 DEF Next, Main, Upload

(* Running and leaked threads are different members of a set that has at   *)
(* most one member more than there are slots.                              *)
LEMMA SlotsBound == DayInv /\ SlotsOK => UploadsAreBounded
<1> SUFFICES ASSUME DayInv, SlotsOK PROVE UploadsAreBounded
  OBVIOUS
<1>0. TypeOK
  BY DEF DayInv
<1> DEFINE S == threads \cup Started
<1>1. IsFiniteSet(S) /\ Cardinality(S) \in Nat /\ Cardinality(S) <= Slots + 1
  <2>1. CASE pc = "add"
    <3>1. S = threads \cup {block}
      BY <2>1 DEF Started
    <3>2. IsFiniteSet(S)
      BY <1>0, <3>1, ThreadsFacts, FS_AddElement
    <3>3. Cardinality(S) \in Nat
      BY <3>2, FS_CardinalityType
    <3>4. Cardinality(S) <= Cardinality(threads) + 1
      BY <1>0, <3>1, ThreadsFacts
    <3> QED
      BY <1>0, <2>1, <3>2, <3>3, <3>4, ThreadsFacts, DayAssumption DEF SlotsOK
  <2>2. CASE pc # "add"
    <3>1. S = threads
      BY <2>2 DEF Started
    <3> QED
      BY <1>0, <3>1, ThreadsFacts DEF SlotsOK
  <2> QED
    BY <2>1, <2>2
<1>2. Running \subseteq S /\ Leaked \subseteq S /\ Running \cap Leaked = {}
  BY DEF SlotsOK, Running, Leaked
<1> HIDE DEF S
<1>3. IsFiniteSet(Running) /\ IsFiniteSet(Leaked)
  BY <1>1, <1>2, FS_Subset
<1>4. Cardinality(Running \cup Leaked) = Cardinality(Running) + Cardinality(Leaked)
  <2>1. Cardinality(Running) \in Nat /\ Cardinality(Leaked) \in Nat
    BY <1>3, FS_CardinalityType
  <2>2. Cardinality(Running \cap Leaked) = 0
    BY <1>2, FS_EmptySet
  <2>3. Cardinality(Running \cup Leaked)
          = Cardinality(Running) + Cardinality(Leaked) - Cardinality(Running \cap Leaked)
    BY <1>3, FS_Union
  <2> QED
    BY <2>1, <2>2, <2>3
<1>5. Cardinality(Running \cup Leaked) <= Cardinality(S)
  BY <1>1, <1>2, FS_Subset
<1>6. Cardinality(Running) + Cardinality(Leaked) \in Nat
  BY <1>3, FS_CardinalityType
<1> QED
  BY <1>1, <1>4, <1>5, <1>6, DayAssumption DEF UploadsAreBounded

(* The limit of 20 uploads is kept to one more (buildbot_json_logs.py:144),*)
(* however the threads, their removals and the failures interleave; a      *)
(* thread that is added after it ended counts as one of them.              *)
THEOREM UploadsStayBounded == Spec => []UploadsAreBounded
<1>1. Init => DayInv /\ SlotsOK
  BY DayInit, SlotsInit
<1>2. (DayInv /\ SlotsOK) /\ [Next]_vars => (DayInv /\ SlotsOK)'
  BY DayStep, SlotsStep
<1>3. DayInv /\ SlotsOK => UploadsAreBounded
  BY SlotsBound
<1> QED
  BY <1>1, <1>2, <1>3, PTL DEF Spec

-----------------------------------------------------------------------------
(* The composition.                                                        *)

(* A step of the composition is a step of each service, or leaves it.      *)
LEMMA ServiceSteps ==
  ASSUME [ServicesNext]_allVars
  PROVE  /\ [Next]_vars /\ [Queue!Next]_queueVars /\ [Sink!Next]_sinkVars
         /\ [Copier!Next]_copyVars /\ [Logger!Next]_loggerVars
<1>1. CASE which = "day" /\ Next /\ UNCHANGED <<which, queueVars, sinkVars, copyVars, loggerVars>>
  BY <1>1
<1>2. CASE which = "queue" /\ Queue!Next /\ UNCHANGED <<which, vars, sinkVars, copyVars, loggerVars>>
  BY <1>2
<1>3. CASE which = "sink" /\ Sink!Next /\ UNCHANGED <<which, vars, queueVars, copyVars, loggerVars>>
  BY <1>3
<1>4. CASE which = "copier" /\ Copier!Next /\ UNCHANGED <<which, vars, queueVars, sinkVars, loggerVars>>
  BY <1>4
<1>5. CASE which = "logger" /\ Logger!Next /\ UNCHANGED <<which, vars, queueVars, sinkVars, copyVars>>
  BY <1>5
<1>6. CASE UNCHANGED allVars
  BY <1>6 DEF allVars
<1> QED
  BY <1>1, <1>2, <1>3, <1>4, <1>5, <1>6 DEF ServicesNext

-----------------------------------------------------------------------------
(* S3Sink.  As long as no two calls overlap, a call that has read the      *)
(* object still has what is in it when it writes.                          *)

Call == [step : {"rest", "read", "write"}, docs : SUBSET DocIds,
         read : [DocIds -> 0 .. MaxExtends], call : 0 .. MaxExtends]

SinkTypes ==
  /\ object \in [DocIds -> 0 .. MaxExtends]
  /\ promised \in [DocIds -> 0 .. MaxExtends]
  /\ extending \in [Writers -> Call]
  /\ extends \in 0 .. MaxExtends

OneAtATime ==
  overlapped \/ \A v, w \in Writers :
    extending[v].step # "rest" /\ extending[w].step # "rest" => v = w

ReadIsCurrent ==
  overlapped \/ unread \/
    /\ \A w \in Writers : extending[w].step = "write" => extending[w].read = object
    /\ object = promised

SinkInv == SinkTypes /\ OneAtATime /\ ReadIsCurrent

LEMMA SinkInit == Sink!Init => SinkInv
  BY ServicesAssumption
  DEF Sink!Init, SinkInv, SinkTypes, OneAtATime, ReadIsCurrent, Call, Sink!Resting, Sink!Empty

LEMMA SinkStep ==
  ASSUME SinkInv, [Sink!Next]_sinkVars PROVE SinkInv'
<1> USE ServicesAssumption DEF SinkInv, SinkTypes, OneAtATime, ReadIsCurrent
<1>1. ASSUME NEW w \in Writers, NEW docs \in SUBSET DocIds, Sink!Extend(w, docs) PROVE SinkInv'
  <2>1. extending' \in [Writers -> Call]
    BY <1>1 DEF Sink!Extend, Sink!Empty, Call
  <2>2. extending'[w].step = "read" /\ \A v \in Writers \ {w} : extending'[v] = extending[v]
    BY <1>1 DEF Sink!Extend
  <2>3. OneAtATime'
    BY <1>1, <2>2 DEF Sink!Extend
  <2>4. ReadIsCurrent'
    BY <1>1, <2>2 DEF Sink!Extend
  <2> QED
    BY <1>1, <2>1, <2>3, <2>4 DEF Sink!Extend
<1>2. ASSUME NEW w \in Writers, Sink!Read(w) PROVE SinkInv'
  <2>1. extending' \in [Writers -> Call]
    <3>1. extending' = [extending EXCEPT ![w] = [extending[w] EXCEPT !.step = "write", !.read = object]]
      BY <1>2 DEF Sink!Read
    <3>2. ASSUME NEW e \in Call PROVE [e EXCEPT !.step = "write", !.read = object] \in Call
      BY DEF Call
    <3> QED
      BY <3>1, <3>2
  <2>2. extending'[w].read = object /\ \A v \in Writers \ {w} : extending'[v] = extending[v]
    BY <1>2 DEF Sink!Read, Call
  <2> QED
    BY <1>2, <2>1, <2>2 DEF Sink!Read
<1>3. ASSUME NEW w \in Writers, Sink!ReadFails(w) PROVE SinkInv'
  <2>1. extending' \in [Writers -> Call]
    <3>1. extending' = [extending EXCEPT ![w] = [extending[w] EXCEPT !.step = "write"]]
      BY <1>3 DEF Sink!ReadFails
    <3>2. ASSUME NEW e \in Call PROVE [e EXCEPT !.step = "write"] \in Call
      BY DEF Call
    <3> QED
      BY <3>1, <3>2
  <2>2. \A v \in Writers \ {w} : extending'[v] = extending[v]
    BY <1>3 DEF Sink!ReadFails
  <2> QED
    BY <1>3, <2>1, <2>2 DEF Sink!ReadFails
<1>4. ASSUME NEW w \in Writers, extending' = [extending EXCEPT ![w] = Sink!Resting]
      PROVE  /\ extending' \in [Writers -> Call]
             /\ extending'[w].step = "rest"
             /\ \A v \in Writers \ {w} : extending'[v] = extending[v]
  BY <1>4 DEF Call, Sink!Resting, Sink!Empty
<1>5. ASSUME NEW w \in Writers, Sink!WriteOver(w) PROVE SinkInv'
  <2>1. object' \in [DocIds -> 0 .. MaxExtends]
    BY <1>5 DEF Sink!WriteOver, Sink!MergedNone, Call
  <2> QED
    BY <1>4, <1>5, <2>1 DEF Sink!WriteOver
<1>6. ASSUME NEW w \in Writers, Sink!Write(w) PROVE SinkInv'
  <2>1. object' \in [DocIds -> 0 .. MaxExtends] /\ promised' \in [DocIds -> 0 .. MaxExtends]
    BY <1>6 DEF Sink!Write, Sink!Merged, Call
  <2>2. overlapped \/ unread \/ object' = promised'
    BY <1>6 DEF Sink!Write, Sink!Merged
  <2> QED
    BY <1>4, <1>6, <2>1, <2>2 DEF Sink!Write
<1>7. ASSUME NEW w \in Writers, Sink!WriteFails(w) PROVE SinkInv'
  BY <1>4, <1>7 DEF Sink!WriteFails
<1>8. CASE UNCHANGED sinkVars
  BY <1>8 DEF sinkVars
<1> QED
  BY <1>1, <1>2, <1>3, <1>5, <1>6, <1>7, <1>8 DEF Sink!Next

(* S3Bucket: documents that a call has put in an object stay there until a *)
(* newer version takes their place, for any number of writers, documents   *)
(* and calls, unless two calls overlap or a read fails (s3_bucket.py       *)
(* 92-118).                                                                *)
THEOREM ExtendKeepsDocuments == ServicesSpec => []ExtendKeeps
<1>1. ServicesInit => SinkInv
  BY SinkInit DEF ServicesInit
<1>2. SinkInv /\ [ServicesNext]_allVars => SinkInv'
  BY SinkStep, ServiceSteps
<1>3. SinkInv => ExtendKeeps
  BY DEF SinkInv, ReadIsCurrent, ExtendKeeps, Sink!ExtendKeeps
<1> QED
  BY <1>1, <1>2, <1>3, PTL DEF ServicesSpec

-----------------------------------------------------------------------------
(* CopyQueue.  What a process has taken is copied, but for the message it  *)
(* is about to add; and a message it has not taken is still in the source. *)

CopierInv ==
  /\ mail \subseteq Mail /\ hidden \subseteq Mail /\ held \subseteq Mail
  /\ copied \in [Mail -> Nat]
  /\ copier \in {<<"off">>, <<"pop">>} \cup {<<"add", m>> : m \in Mail}
  /\ copier = <<"off">> => held = {}
  /\ \A m \in held : copied[m] > 0 \/ copier = <<"add", m>>
  /\ \A m \in Mail \ (mail \cup hidden) : copied[m] > 0

LEMMA CopierStep ==
  ASSUME CopierInv, [Copier!Next]_copyVars PROVE CopierInv'
<1> USE DEF CopierInv
<1>1. CASE Copier!Begin
  BY <1>1 DEF Copier!Begin
<1>2. ASSUME NEW m \in Mail, Copier!Pop(m) PROVE CopierInv'
  BY <1>2 DEF Copier!Pop
<1>3. CASE Copier!AddCopy
  <2>1. PICK m \in Mail : copier = <<"add", m>>
    BY <1>3 DEF Copier!AddCopy
  <2>2. copied' = [copied EXCEPT ![m] = @ + 1]
    BY <1>3, <2>1 DEF Copier!AddCopy
  <2>3. copied' \in [Mail -> Nat] /\ copied'[m] > 0 /\ \A n \in Mail : copied[n] > 0 => copied'[n] > 0
    BY <2>2
  <2>4. \A n \in held : copier = <<"add", n>> => n = m
    BY <2>1
  <2> QED
    BY <1>3, <2>3, <2>4 DEF Copier!AddCopy
<1>4. CASE Copier!Commit
  BY <1>4 DEF Copier!Commit
<1>5. CASE Copier!Fails
  BY <1>5 DEF Copier!Fails
<1>6. ASSUME NEW m \in Mail, Copier!Visible(m) PROVE CopierInv'
  BY <1>6 DEF Copier!Visible
<1>7. CASE UNCHANGED copyVars
  BY <1>7 DEF copyVars
<1> QED
  BY <1>1, <1>2, <1>3, <1>4, <1>5, <1>6, <1>7 DEF Copier!Next

(* copy_queue: a message that has left the source is in the destination,   *)
(* for any messages and any number of processes, wherever they fail and    *)
(* whatever the queue shows again (copy_queue.py 26-31).                   *)
THEOREM CopiedBeforeItLeaves == ServicesSpec => []CopiedBeforeDeleted
<1>1. ServicesInit => CopierInv
  BY DEF ServicesInit, Copier!CopyInit, CopierInv
<1>2. CopierInv /\ [ServicesNext]_allVars => CopierInv'
  BY CopierStep, ServiceSteps
<1>3. CopierInv => CopiedBeforeDeleted
  BY DEF CopierInv, CopiedBeforeDeleted, Copier!CopiedBeforeDeleted
<1> QED
  BY <1>1, <1>2, <1>3, PTL DEF ServicesSpec

-----------------------------------------------------------------------------
(* FxTestLogger.  A key is given to one file only, and stays below the     *)
(* next one; so a copy never takes the place of another file's.  A file    *)
(* whose copy is not up to date is on the way to be copied (Due), unless   *)
(* a process was killed.                                                   *)

Keyed == {f \in LogFiles : rows[f].key # 0}

LoggerTypes ==
  /\ version \in [LogFiles -> Nat]
  /\ rows \in [LogFiles -> [seen : Nat, key : Nat]]
  /\ \A f \in LogFiles : rows[f].seen <= version[f]
  /\ logger \in {"off", "scan", "copy", "notify", "mark"}
  /\ dirty \subseteq LogFiles /\ data \subseteq LogFiles
  /\ \A f \in dirty \cup data : rows[f].seen > 0
  /\ file \in LogFiles \cup {Nobody}
  /\ logger \in {"notify", "mark"} => file \in LogFiles /\ rows[file].seen > 0
  /\ \A f \in LogFiles : rows[f].key # 0 => rows[f].seen > 0
  /\ next_key \in Nat
  /\ killed \in Nat
  /\ \A c \in copies : c \in [key : Nat, file : LogFiles, version : Nat] /\ c.version <= version[c.file]

KeysApart ==
  /\ \A f, g \in LogFiles : rows[f].key # 0 /\ rows[f].key = rows[g].key => f = g
  /\ \A f \in LogFiles : rows[f].key <= Cardinality(Keyed)
  /\ next_key # 0 => next_key <= Cardinality(Keyed) + 1 /\ \A f \in LogFiles : rows[f].key < next_key

Holds(f, k) == \E c \in copies : c.key = k /\ c.file = f
HoldsSeen(f, k) == \E c \in copies : c.key = k /\ c.file = f /\ c.version >= rows[f].seen

CopiesStored ==
  /\ \A f \in Keyed : Holds(f, rows[f].key)
  /\ logger \in {"notify", "mark"} => HoldsSeen(file, Logger!Key(file))
  /\ \A k \in told : \E c \in copies : c.key = k

Due(f) ==
  \/ logger = "scan" /\ (rows[f].key = 0 \/ f \in dirty)
  \/ logger \in {"copy", "notify", "mark"} /\ f \in data
  \/ logger \in {"notify", "mark"} /\ file = f

NothingForgotten ==
  killed = 0 => \A f \in LogFiles :
    rows[f].seen > 0 => (f \in Keyed /\ HoldsSeen(f, rows[f].key)) \/ Due(f)

LoggerInv == LoggerTypes /\ KeysApart /\ CopiesStored /\ NothingForgotten

(* Max of numbers that have a bound.                                       *)
LEMMA MaxOfBounded ==
  ASSUME NEW n \in Nat, NEW S \in SUBSET (0 .. n), S # {}
  PROVE  Logger!Max(S) \in S /\ \A x \in S : x <= Logger!Max(S)
<1> DEFINE F == {n - x : x \in S}
<1>1. F \subseteq Nat /\ F # {}
  OBVIOUS
<1>2. PICK i \in F : \A j \in F : <<j, i>> \notin OpToRel(<, Nat)
  BY <1>1, NatLessThanWellFounded, WFMin
<1>3. PICK x \in S : i = n - x
  OBVIOUS
<1>4. ASSUME NEW y \in S PROVE x >= y
  <2>1. n - y \in F /\ n - y \in Nat /\ n - x \in Nat
    OBVIOUS
  <2>2. ~(n - y < n - x)
    BY <1>1, <1>2, <1>3, <2>1 DEF OpToRel
  <2> QED
    BY <2>1, <2>2
<1>5. \E m \in S : \A y \in S : m >= y
  BY <1>4
<1> QED
  BY <1>5 DEF Logger!Max

(* The number of keys that are taken is a number.                          *)
LEMMA KeyedFacts == IsFiniteSet(Keyed) /\ Cardinality(Keyed) \in Nat
  BY ServicesAssumption, FS_Subset, FS_CardinalityType DEF Keyed

(* The next key is nobody's, and the keys stay without a gap.              *)
LEMMA NextKeyFacts ==
  ASSUME LoggerTypes, KeysApart, LogFiles # {}
  PROVE  /\ Logger!NextKey \in Nat \ {0}
         /\ Logger!NextKey <= Cardinality(Keyed) + 1
         /\ \A f \in LogFiles : rows[f].key < Logger!NextKey
<1> DEFINE S == {rows[f].key : f \in LogFiles}
<1>1. S \in SUBSET (0 .. Cardinality(Keyed)) /\ S # {}
  BY KeyedFacts DEF LoggerTypes, KeysApart
<1>2. Logger!Max(S) \in S /\ \A x \in S : x <= Logger!Max(S)
  BY <1>1, MaxOfBounded, KeyedFacts
<1>3. Logger!NextKey = IF next_key > 0 THEN next_key ELSE 1 + Logger!Max(S)
  BY DEF Logger!NextKey
<1>4. next_key \in Nat /\ \A f \in LogFiles : rows[f].key \in S
  BY DEF LoggerTypes
<1> HIDE DEF S
<1>5. CASE next_key > 0
  BY <1>3, <1>4, <1>5 DEF KeysApart
<1>6. CASE next_key = 0
  <2>1. PICK m \in S : Logger!NextKey = 1 + m /\ \A x \in S : x <= m
    BY <1>2, <1>3, <1>6
  <2>2. m \in 0 .. Cardinality(Keyed)
    BY <1>1
  <2>3. \A f \in LogFiles : rows[f].key \in 0 .. Cardinality(Keyed) /\ rows[f].key <= m
    BY <1>1, <1>4, <2>1
  <2> QED
    BY <2>1, <2>2, <2>3, KeyedFacts
<1> QED
  BY <1>4, <1>5, <1>6

(* A file's key is no other file's.                                        *)
LEMMA KeyFacts ==
  ASSUME LoggerTypes, KeysApart, NEW f \in LogFiles
  PROVE  /\ Logger!Key(f) \in Nat \ {0}
         /\ rows[f].key # 0 => Logger!Key(f) = rows[f].key
         /\ \A g \in LogFiles \ {f} : rows[g].key # Logger!Key(f)
         /\ rows[f].key = 0 => Logger!Key(f) = Logger!NextKey
<1>1. \A g \in LogFiles : rows[g].key \in Nat
  BY DEF LoggerTypes
<1> QED
  BY <1>1, NextKeyFacts DEF Logger!Key, Logger!NoKey, KeysApart

LEMMA LoggerInit == Logger!Init => LoggerInv
  BY KeyedFacts
  DEF Logger!Init, Logger!NoKey, LoggerInv, LoggerTypes, KeysApart, CopiesStored, NothingForgotten,
      Keyed, Holds, HoldsSeen, Due

(* Steps that leave the database and the copies as they are.               *)
LEMMA LoggerQuiet ==
  ASSUME LoggerInv, UNCHANGED <<version, rows, copies, told>>,
         LoggerTypes', next_key' \in {0, next_key},
         logger' \in {"notify", "mark"} => logger \in {"notify", "mark"} /\ UNCHANGED <<file, next_key>>,
         killed' = 0 => killed = 0 /\ \A f \in LogFiles : Due(f) => Due(f)' \/ (f \in Keyed /\ HoldsSeen(f, rows[f].key))
  PROVE  LoggerInv'
<1>1. KeysApart'
  BY DEF LoggerInv, KeysApart, Keyed
<1>2. logger' \in {"notify", "mark"} => Logger!Key(file)' = Logger!Key(file)
  BY DEF Logger!Key, Logger!NextKey, Logger!NoKey
<1>3. CopiesStored'
  BY <1>2 DEF LoggerInv, CopiesStored, Keyed, Holds, HoldsSeen
<1>4. NothingForgotten'
  BY DEF LoggerInv, NothingForgotten, Keyed, HoldsSeen
<1> QED
  BY <1>1, <1>3, <1>4 DEF LoggerInv

LEMMA LoggerStep ==
  ASSUME LoggerInv, [Logger!Next]_loggerVars PROVE LoggerInv'
<1> USE DEF LoggerInv
<1>1. ASSUME NEW f \in LogFiles, Logger!Upload(f) PROVE LoggerInv'
  <2>1. LoggerTypes'
    <3>1. version' \in [LogFiles -> Nat] /\ \A g \in LogFiles : version[g] <= version'[g]
      BY <1>1 DEF Logger!Upload, LoggerTypes
    <3>2. \A g \in LogFiles : rows[g].seen \in Nat /\ version[g] \in Nat /\ version'[g] \in Nat
      BY <3>1 DEF LoggerTypes
    <3>3. \A g \in LogFiles : rows[g].seen <= version'[g]
      BY <3>1, <3>2 DEF LoggerTypes
    <3>4. \A c \in copies : c.file \in LogFiles /\ c.version \in Nat /\ c.version <= version'[c.file]
      BY <3>1, <3>2 DEF LoggerTypes
    <3> QED
      BY <1>1, <3>1, <3>3, <3>4 DEF Logger!Upload, LoggerTypes
  <2>2. KeysApart'
    BY <1>1 DEF Logger!Upload, KeysApart, Keyed
  <2>3. Logger!Key(file)' = Logger!Key(file)
    BY <1>1 DEF Logger!Upload, Logger!Key, Logger!NextKey, Logger!NoKey
  <2>4. CopiesStored' /\ NothingForgotten'
    BY <1>1, <2>3 DEF Logger!Upload, CopiesStored, NothingForgotten, Keyed, Holds, HoldsSeen, Due
  <2> QED
    BY <2>1, <2>2, <2>4
<1>2. CASE Logger!Start
  <2>1. LoggerTypes'
    BY <1>2 DEF Logger!Start, Logger!bucket, LoggerTypes
  <2> QED
    BY <1>2, <2>1, LoggerQuiet DEF Logger!Start, Logger!bucket, Due
<1>3. CASE Logger!Selected
  <2>1. LoggerTypes'
    BY <1>3 DEF Logger!Selected, Logger!Select, Logger!Known, Logger!bucket, LoggerTypes
  <2>2. \A f \in LogFiles : rows[f].seen > 0 /\ Due(f) => Due(f)'
    BY <1>3 DEF Logger!Selected, Logger!Select, Logger!Known, Logger!NoKey, Due
  <2>3. KeysApart' /\ CopiesStored'
    BY <1>3 DEF Logger!Selected, Logger!bucket, KeysApart, Keyed, CopiesStored, Holds
  <2>4. NothingForgotten'
    BY <1>3, <2>2 DEF Logger!Selected, Logger!bucket, NothingForgotten, Keyed, HoldsSeen
  <2> QED
    BY <2>1, <2>3, <2>4
<1>4. CASE Logger!Finish
  <2>1. LoggerTypes'
    BY <1>4 DEF Logger!Finish, Logger!bucket, LoggerTypes
  <2>2. \A f \in LogFiles : ~Due(f)
    BY <1>4 DEF Logger!Finish, Due
  <2> QED
    BY <1>4, <2>1, <2>2, LoggerQuiet DEF Logger!Finish, Logger!bucket
<1>5. CASE Logger!Kill
  <2>1. LoggerTypes'
    BY <1>5 DEF Logger!Kill, Logger!bucket, LoggerTypes
  <2>2. killed' # 0
    BY <1>5 DEF Logger!Kill, LoggerTypes
  <2> QED
    BY <1>5, <2>1, <2>2, LoggerQuiet DEF Logger!Kill, Logger!bucket
<1>6. ASSUME NEW f \in LogFiles, Logger!Scan(f) PROVE LoggerInv'
  <2>1. /\ rows' = [rows EXCEPT ![f].seen = version[f]]
        /\ rows' \in [LogFiles -> [seen : Nat, key : Nat]]
        /\ \A g \in LogFiles : rows'[g].key = rows[g].key
        /\ \A g \in LogFiles \ {f} : rows'[g] = rows[g]
        /\ rows'[f].seen = version[f]
    BY <1>6 DEF Logger!Scan, LoggerTypes
  <2>2. logger = "scan" /\ version[f] > 0 /\ UNCHANGED <<version, copies, told, logger, data, file, next_key, killed>>
    BY <1>6 DEF Logger!Scan, Logger!bucket
  <2>3. dirty' = IF rows[f].seen > 0 /\ rows[f].seen # version[f] THEN dirty \cup {f} ELSE dirty
    BY <1>6 DEF Logger!Scan, Logger!Known
  <2>4. LoggerTypes'
    BY <2>1, <2>2, <2>3 DEF LoggerTypes
  <2>5. KeysApart' /\ Keyed' = Keyed
    <3>1. Keyed' = Keyed
      BY <2>1 DEF Keyed
    <3> QED
      BY <2>1, <2>2, <3>1 DEF KeysApart
  <2>6. CopiesStored'
    BY <2>1, <2>2, <2>5 DEF CopiesStored, Holds, Keyed
  <2>7. NothingForgotten'
    <3>1. SUFFICES ASSUME NEW g \in LogFiles, killed = 0, rows'[g].seen > 0
                   PROVE  (g \in Keyed /\ HoldsSeen(g, rows[g].key)') \/ Due(g)'
      BY <2>1, <2>2, <2>5 DEF NothingForgotten, HoldsSeen
    <3>2. CASE rows[g] = rows'[g]
      BY <2>1, <2>2, <2>3, <3>1, <3>2 DEF NothingForgotten, Due, HoldsSeen
    <3>3. CASE rows[g] # rows'[g]
      <4>1. g = f /\ (rows[f].seen = 0 \/ f \in dirty')
        BY <2>1, <2>2, <2>3, <3>3 DEF LoggerTypes
      <4>2. CASE rows[f].key = 0
        BY <2>1, <2>2, <4>1, <4>2 DEF Due
      <4>3. CASE rows[f].seen # 0
        BY <2>1, <2>2, <4>1, <4>3 DEF Due
      <4>4. rows[f].key # 0 => rows[f].seen # 0
        BY DEF LoggerTypes
      <4> QED
        BY <4>2, <4>3, <4>4
    <3> QED
      BY <3>2, <3>3
  <2> QED
    BY <2>4, <2>5, <2>6, <2>7
<1>7. ASSUME NEW f \in LogFiles, Logger!Copy(f) PROVE LoggerInv'
  <2> DEFINE k == Logger!Key(f)
             c == [key |-> k, file |-> f, version |-> version[f]]
  <2>1. /\ logger = "copy" /\ f \in data
        /\ logger' = "notify" /\ file' = f /\ data' = data \ {f}
        /\ copies' = {d \in copies : d.key # k} \cup {c}
        /\ UNCHANGED <<version, told, rows, scanned, dirty, next_key, killed>>
    BY <1>7 DEF Logger!Copy
  <2>2. k \in Nat \ {0} /\ \A g \in LogFiles \ {f} : rows[g].key # k
    BY KeyFacts
  <2>3. rows[f].key # 0 => k = rows[f].key
    BY KeyFacts
  <2>4. Logger!Key(file)' = k
    BY <2>1 DEF Logger!Key, Logger!NextKey, Logger!NoKey
  <2> HIDE DEF k
  <2>5. c \in [key : Nat, file : LogFiles, version : Nat] /\ c.version = version[f] /\ c.key = k /\ c.file = f
    BY <2>2 DEF LoggerTypes
  <2> HIDE DEF c
  <2>6. LoggerTypes'
    BY <2>1, <2>5 DEF LoggerTypes
  <2>7. KeysApart'
    BY <2>1 DEF KeysApart, Keyed
  <2>8. c.version >= rows[f].seen
    BY <2>5 DEF LoggerTypes
  <2>9. \A d \in copies : d.key # k => d \in copies'
    BY <2>1
  <2>10. CopiesStored'
    <3>1. ASSUME NEW g \in Keyed PROVE Holds(g, rows[g].key)'
      <4>1. CASE g = f
        BY <2>1, <2>3, <2>5, <3>1, <4>1 DEF Holds, Keyed
      <4>2. CASE g # f
        BY <2>1, <2>2, <2>9, <3>1, <4>2 DEF CopiesStored, Holds, Keyed
      <4> QED
        BY <4>1, <4>2
    <3>2. \E d \in copies' : d.key = k /\ d.file = f /\ d.version >= rows'[f].seen
      BY <2>1, <2>5, <2>8
    <3>3. \A n \in told : \E d \in copies' : d.key = n
      BY <2>1, <2>5 DEF CopiesStored
    <3> QED
      BY <2>1, <2>4, <3>1, <3>2, <3>3 DEF CopiesStored, Keyed, HoldsSeen
  <2>11. NothingForgotten'
    <3>1. ASSUME NEW g \in LogFiles, g # f, Due(g) PROVE Due(g)'
      BY <2>1, <3>1 DEF Due
    <3>2. Due(f)'
      BY <2>1 DEF Due
    <3>3. ASSUME NEW g \in Keyed, g # f, HoldsSeen(g, rows[g].key) PROVE HoldsSeen(g, rows[g].key)'
      BY <2>1, <2>2, <2>9, <3>3 DEF HoldsSeen, Keyed
    <3> QED
      BY <2>1, <3>1, <3>2, <3>3 DEF NothingForgotten, Keyed
  <2> QED
    BY <2>6, <2>7, <2>10, <2>11
<1>8. CASE Logger!Notify
  <2>1. LoggerTypes'
    BY <1>8 DEF Logger!Notify, LoggerTypes
  <2>2. Logger!Key(file)' = Logger!Key(file)
    BY <1>8 DEF Logger!Notify, Logger!Key, Logger!NextKey, Logger!NoKey
  <2>3. KeysApart'
    BY <1>8 DEF Logger!Notify, KeysApart, Keyed
  <2>4. CopiesStored'
    BY <1>8, <2>2 DEF Logger!Notify, CopiesStored, Keyed, Holds, HoldsSeen
  <2>5. NothingForgotten'
    BY <1>8 DEF Logger!Notify, NothingForgotten, Keyed, HoldsSeen, Due
  <2> QED
    BY <2>1, <2>3, <2>4, <2>5
<1>9. CASE Logger!Mark
  <2>0. PICK f \in LogFiles : f = file
    BY <1>9 DEF Logger!Mark, LoggerTypes
  <2> DEFINE k == Logger!Key(f)
  <2>1. /\ logger = "mark" /\ logger' = "copy"
        /\ rows' = [rows EXCEPT ![f].key = k]
        /\ next_key' = IF rows[f].key = 0 THEN Logger!NextKey + 1 ELSE next_key
        /\ file' = Nobody
        /\ UNCHANGED <<version, copies, told, scanned, dirty, data, killed>>
    BY <1>9, <2>0 DEF Logger!Mark, Logger!bucket, Logger!NoKey
  <2>2. rows[f].seen > 0 /\ HoldsSeen(f, k)
    BY <2>0, <2>1 DEF LoggerTypes, CopiesStored
  <2>3. /\ k \in Nat \ {0} /\ \A g \in LogFiles \ {f} : rows[g].key # k
        /\ rows[f].key # 0 => k = rows[f].key
        /\ rows[f].key = 0 => k = Logger!NextKey
    BY <2>2, KeyFacts
  <2>4. /\ Logger!NextKey \in Nat \ {0}
        /\ Logger!NextKey <= Cardinality(Keyed) + 1
        /\ \A g \in LogFiles : rows[g].key < Logger!NextKey
    BY <2>2, NextKeyFacts
  <2> HIDE DEF k
  <2>5. /\ rows' \in [LogFiles -> [seen : Nat, key : Nat]]
        /\ \A g \in LogFiles : rows'[g].seen = rows[g].seen
        /\ \A g \in LogFiles \ {f} : rows'[g] = rows[g]
        /\ rows'[f].key = k
    BY <2>1, <2>2, <2>3 DEF LoggerTypes
  <2>6. next_key' \in Nat
    BY <2>1, <2>4 DEF LoggerTypes
  <2>7. LoggerTypes'
    BY <2>1, <2>2, <2>5, <2>6 DEF LoggerTypes
  <2>8. Keyed' = Keyed \cup {f}
    BY <2>2, <2>3, <2>5 DEF Keyed
  <2>9. KeysApart'
    <3>1. CASE rows[f].key # 0
      <4>1. rows' = rows
        BY <2>1, <2>3, <3>1 DEF LoggerTypes
      <4> QED
        BY <2>1, <3>1, <4>1 DEF KeysApart, Keyed
    <3>2. CASE rows[f].key = 0
      <4>1. Cardinality(Keyed') = Cardinality(Keyed) + 1
        BY <2>8, <3>2, KeyedFacts, FS_AddElement DEF Keyed
      <4>2. \A g \in LogFiles : rows[g].key \in Nat /\ rows'[g].key \in Nat
        BY <2>5 DEF LoggerTypes
      <4>3. \A g, h \in LogFiles : rows'[g].key # 0 /\ rows'[g].key = rows'[h].key => g = h
        BY <2>3, <2>5 DEF KeysApart
      <4>4. \A g \in LogFiles : rows'[g].key <= k
        BY <2>3, <2>4, <2>5, <3>2, <4>2
      <4>5. next_key' = k + 1 /\ k <= Cardinality(Keyed) + 1
        BY <2>1, <2>3, <2>4, <3>2
      <4> QED
        BY <2>3, <4>1, <4>2, <4>3, <4>4, <4>5, KeyedFacts DEF KeysApart
    <3> QED
      BY <3>1, <3>2
  <2>10. CopiesStored'
    BY <2>1, <2>2, <2>5, <2>8 DEF CopiesStored, Holds, HoldsSeen
  <2>11. NothingForgotten'
    <3>1. HoldsSeen(f, rows[f].key)'
      BY <2>1, <2>2, <2>5 DEF HoldsSeen
    <3>2. ASSUME NEW g \in LogFiles, g # f, Due(g) PROVE Due(g)'
      BY <2>0, <2>1, <3>2 DEF Due
    <3>3. ASSUME NEW g \in LogFiles, g # f, HoldsSeen(g, rows[g].key) PROVE HoldsSeen(g, rows[g].key)'
      BY <2>1, <2>5, <3>3 DEF HoldsSeen
    <3> QED
      BY <2>1, <2>2, <2>5, <2>8, <3>1, <3>2, <3>3 DEF NothingForgotten
  <2> QED
    BY <2>7, <2>9, <2>10, <2>11
<1>10. CASE UNCHANGED loggerVars
  <2>1. LoggerTypes'
    BY <1>10 DEF loggerVars, LoggerTypes
  <2> QED
    BY <1>10, <2>1, LoggerQuiet DEF loggerVars, Due
<1> QED
  BY <1>1, <1>2, <1>3, <1>4, <1>5, <1>6, <1>7, <1>8, <1>9, <1>10 DEF Logger!Next, Logger!Run

(* fx_test_logger: the key that the database has for a file holds that     *)
(* file, wherever a process was killed; and without kills a file that was  *)
(* seen in its newest version is there in that version between two runs    *)
(* (fx_test_logger.py 48-105).                                             *)
THEOREM LoggerCopiesAreRight == ServicesSpec => []CopiesAreRight
<1>1. ServicesInit => LoggerInv
  BY LoggerInit DEF ServicesInit
<1>2. LoggerInv /\ [ServicesNext]_allVars => LoggerInv'
  BY LoggerStep, ServiceSteps
<1>3. LoggerInv => CopiesAreRight
  <2> SUFFICES ASSUME LoggerInv PROVE CopiesAreRight
    OBVIOUS
  <2>1. Logger!KeyHoldsItsFile
    BY DEF LoggerInv, CopiesStored, Keyed, Holds, Logger!KeyHoldsItsFile, Logger!NoKey
  <2>2. ASSUME NEW f \in LogFiles, logger = "off", killed = 0, Logger!Known(f), rows[f].seen = version[f]
        PROVE  \E c \in copies : c.file = f /\ c.version = version[f]
    <3>1. PICK c \in copies : c.file = f /\ c.version >= rows[f].seen
      BY <2>2 DEF LoggerInv, NothingForgotten, Due, HoldsSeen, Logger!Known
    <3>2. c.version \in Nat /\ version[f] \in Nat /\ c.version <= version[f]
      BY <3>1 DEF LoggerInv, LoggerTypes
    <3> QED
      BY <2>2, <3>1, <3>2
  <2> QED
    BY <2>1, <2>2 DEF CopiesAreRight, Logger!CopyIsFresh
<1> QED
  BY <1>1, <1>2, <1>3, PTL DEF ServicesSpec

-----------------------------------------------------------------------------
(* MoQueue.  The queue of MCServices and that of MoQueueProofs are one.    *)

LEMMA SameQueue ==
  /\ Queue!Init <=> Q!Init
  /\ Queue!Next <=> Q!Next
  /\ Queue!TypeOK <=> Q!TypeOK
  /\ Queue!NobodySleeps <=> Q!NobodySleeps
  /\ Queue!QueueAssumption <=> Q!QueueAssumption
  /\ queueVars = Q!vars
<1>1. Queue!Init <=> Q!Init
  BY DEF Queue!Init, Q!Init, Queue!Threads, Q!Threads
<1>2. Queue!TypeOK <=> Q!TypeOK
  BY DEF Queue!TypeOK, Q!TypeOK, Queue!Threads, Q!Threads, Queue!Items, Q!Items
<1>3. Queue!NobodySleeps <=> Q!NobodySleeps
  BY DEF Queue!NobodySleeps, Queue!NoSleeper, Queue!StopIsLast, Queue!AwakeConsumer, Queue!Elements,
         Q!NobodySleeps, Q!NoSleeper, Q!StopIsLast, Q!AwakeConsumer, Q!Elements
<1>4. Queue!QueueAssumption <=> Q!QueueAssumption
  BY DEF Queue!QueueAssumption, Q!QueueAssumption, Queue!Items, Q!Items
<1>5. Queue!Next <=> Q!Next
  BY DEF Queue!Next, Queue!Add, Queue!AddAgain, Queue!Nap, Queue!TimeOut, Queue!TryAdd,
         Queue!Full, Queue!Item, Queue!Wait, Queue!Leave, Queue!Exit, Queue!Others,
         Queue!Place, Queue!Elements, Queue!Close, Queue!Pop, Queue!PopAgain,
         Queue!PopClosed, Queue!PopNone, Queue!TryPop, Queue!Return,
         Q!Next, Q!Add, Q!AddAgain, Q!Nap, Q!TimeOut, Q!TryAdd, Q!Full, Q!Item, Q!Wait,
         Q!Leave, Q!Exit, Q!Others, Q!Place, Q!Elements, Q!Close, Q!Pop, Q!PopAgain,
         Q!PopClosed, Q!PopNone, Q!TryPop, Q!Return
<1> QED
  BY <1>1, <1>2, <1>3, <1>4, <1>5 DEF queueVars, Q!vars

LEMMA QueueInit == ServicesInit => Q!ChannelInv /\ Q!TypeOK
  BY SameQueue, ServicesAssumption, Q!ChannelInit DEF ServicesInit

LEMMA QueueInvStep ==
  ASSUME Q!ChannelInv, Q!TypeOK, [ServicesNext]_allVars PROVE Q!ChannelInv' /\ Q!TypeOK'
<1>1. [Q!Next]_Q!vars
  BY SameQueue, ServiceSteps DEF queueVars, Q!vars
<1> QED
  BY <1>1, SameQueue, ServicesAssumption, Q!QueueStep, Q!TypeStep

(* The variables of all five services have their types, the queue's lists  *)
(* of waiters included (queues.py, lock.py, buildbot_json_logs.py,         *)
(* s3_bucket.py, fx_test_logger.py).                                       *)
THEOREM ServicesTypes == ServicesSpec => []ServicesTypeOK
<1>1. ServicesInit => DayInv /\ Q!ChannelInv /\ Q!TypeOK /\ SinkInv /\ LoggerInv
  BY DayInit, QueueInit, SinkInit, LoggerInit DEF ServicesInit
<1>2. DayInv /\ Q!ChannelInv /\ Q!TypeOK /\ SinkInv /\ LoggerInv /\ [ServicesNext]_allVars
        => (DayInv /\ Q!ChannelInv /\ Q!TypeOK /\ SinkInv /\ LoggerInv)'
  BY DayStep, QueueInvStep, SinkStep, LoggerStep, ServiceSteps
<1>3. DayInv /\ Q!TypeOK /\ SinkInv /\ LoggerInv => ServicesTypeOK
  <2> SUFFICES ASSUME DayInv, Q!TypeOK, SinkInv, LoggerInv PROVE ServicesTypeOK
    OBVIOUS
  <2>1. TypeOK /\ Queue!TypeOK
    BY SameQueue DEF DayInv
  <2>2. Sink!SinkTypeOK
    BY DEF SinkInv, SinkTypes, Call, Sink!SinkTypeOK
  <2>3. Logger!LoggerTypeOK
    <3>1. Cardinality(Keyed) <= Cardinality(LogFiles) /\ Cardinality(LogFiles) \in Nat
      BY ServicesAssumption, FS_Subset, FS_CardinalityType DEF Keyed
    <3>2. Logger!Cardinality(LogFiles) = Cardinality(LogFiles)
      BY DEF Logger!Cardinality, Cardinality
    <3>3. \A f \in LogFiles :
            rows[f].seen \in 0 .. version[f] /\ rows[f].key \in 0 .. Logger!Cardinality(LogFiles)
      BY <3>1, <3>2, KeyedFacts DEF LoggerInv, LoggerTypes, KeysApart
    <3>4. told \subseteq {c.key : c \in copies}
      BY DEF LoggerInv, CopiesStored
    <3>5. dirty \cup data \subseteq {f \in LogFiles : Logger!Known(f)}
      BY DEF LoggerInv, LoggerTypes, Logger!Known
    <3> QED
      BY <3>3, <3>4, <3>5 DEF LoggerInv, LoggerTypes, Logger!LoggerTypeOK
  <2> QED
    BY <2>1, <2>2, <2>3 DEF ServicesTypeOK
<1> QED
  BY <1>1, <1>2, <1>3, PTL DEF ServicesSpec

(* mo_threads.Queue among the services, with one producer and some         *)
(* consumers: nobody sleeps in pop() beside an item that no consumer was   *)
(* woken for, and no item stays behind the last stop (queues.py 78-83,     *)
(* 180-201, lock.py 73-114).                                               *)
THEOREM NobodySleepsWithOneProducer ==
  ASSUME \A p, q \in Producers : p = q, Consumers # {}
  PROVE  ServicesSpec => []NobodySleeps
<1>1. Q!Setting
  BY SameQueue, ServicesAssumption DEF Q!Setting, Q!OneProducer
<1>2. ServicesInit => Q!ChannelInv /\ Q!WakeInv
  BY <1>1, SameQueue, Q!WakeInit DEF ServicesInit
<1>3. [ServicesNext]_allVars => [Q!Next]_Q!vars
  BY SameQueue, ServiceSteps DEF queueVars, Q!vars
<1>4. Q!ChannelInv /\ Q!WakeInv /\ [Q!Next]_Q!vars => (Q!ChannelInv /\ Q!WakeInv)'
  BY <1>1, SameQueue, ServicesAssumption, Q!QueueStep, Q!WakeStep
<1>5. Q!WakeInv => NobodySleeps
  BY SameQueue DEF Q!WakeInv, NobodySleeps
<1> QED
  BY <1>2, <1>3, <1>4, <1>5, PTL DEF ServicesSpec

(* mo_threads.Queue among the services implements Channel, whatever        *)
(* number of producers and consumers it has (queues.py 49-201).            *)
THEOREM QueueAmongServices == ServicesSpec => QueueIsChannel
<1>1. ServicesInit => Q!Init
  BY SameQueue DEF ServicesInit
<1>2. [ServicesNext]_allVars => [Q!Next]_Q!vars
  BY SameQueue, ServiceSteps DEF queueVars, Q!vars
<1>3. ServicesSpec => Q!Spec
  BY <1>1, <1>2, PTL DEF ServicesSpec, Q!Spec
<1>4. Q!Spec => Q!QueueIsChannel
  BY SameQueue, ServicesAssumption, Q!QueueImplementsChannel
<1>5. Q!Promise!Init => Queue!Promise!Init
  BY DEF Q!Promise!Init, Queue!Promise!Init
<1>6. [Q!Promise!Next]_Q!Promise!channelVars => [Queue!Promise!Next]_Queue!Promise!channelVars
  BY DEF Q!Promise!Next, Q!Promise!Put, Q!Promise!Shut, Q!Promise!Take, Q!Promise!InChannel,
         Q!Promise!channelVars, Q!Items, Q!InOrder,
         Queue!Promise!Next, Queue!Promise!Put, Queue!Promise!Shut, Queue!Promise!Take,
         Queue!Promise!InChannel, Queue!Promise!channelVars, Queue!Items, Queue!InOrder
<1> QED
  BY <1>3, <1>4, <1>5, <1>6, PTL
  DEF QueueIsChannel, Queue!QueueIsChannel, Q!QueueIsChannel, Queue!Promise!Spec, Q!Promise!Spec

(* mo_threads.Queue among the services, with one producer: pop() returns   *)
(* None beside an item only if that was promised to another consumer       *)
(* (queues.py 184).                                                        *)
THEOREM NoneMeansEmptyWithOneProducer ==
  ASSUME \A p, q \in Producers : p = q, Consumers # {}
  PROVE  ServicesSpec => NoneMeansEmpty
<1>1. Q!Setting
  BY SameQueue, ServicesAssumption DEF Q!Setting, Q!OneProducer
<1>2. ServicesInit => Q!Init
  BY SameQueue DEF ServicesInit
<1>3. [ServicesNext]_allVars => [Q!Next]_Q!vars
  BY SameQueue, ServiceSteps DEF queueVars, Q!vars
<1>4. Q!Spec => Q!NoneMeansEmpty
  BY <1>1, Q!OneProducerMeansEmpty
<1>5. ASSUME [\A c \in Consumers : Q!ReturnsNone(c) =>
                queue = << >> \/ \E d \in Consumers \ {c} : d \in signalled]_Q!vars
      PROVE  [\A c \in Consumers : Queue!ReturnsNone(c) =>
                queue = << >> \/ \E d \in Consumers \ {c} : d \in signalled]_Queue!vars
  BY <1>5 DEF Q!ReturnsNone, Queue!ReturnsNone, Q!vars, Queue!vars
<1> QED
  BY <1>2, <1>3, <1>4, <1>5, PTL
  DEF ServicesSpec, Q!Spec, NoneMeansEmpty, Queue!NoneMeansEmpty, Q!NoneMeansEmpty

=============================================================================
