---------------------------- MODULE MoQueueProofs ----------------------------
(***************************************************************************)
(* Theorems of MoQueue, for every number of consumers and items, every     *)
(* limit, with and without timeouts: it implements Channel, with any       *)
(* number of producers; and with one producer it wakes who has to be.      *)
(*                                                                         *)
(* A step that adds an item has to add one that was never in before, and   *)
(* none of whose successors was: so what is or was in the queue has        *)
(* numbers that its producer has counted already (Counted), and who waits  *)
(* for room still has an item to add (Waiters).                            *)
(***************************************************************************)
EXTENDS MoQueue, SequenceTheorems, TLAPS

QueueTypes ==
  /\ queue \in Seq(Items \cup {Stop})
  /\ st \in [Threads -> {"idle", "wait", "gone"}]
  /\ sent \in [Producers -> 0 .. Load]
  /\ popped \subseteq Items

Counted == \A i \in Items : i \in popped \cup Elements(queue) => i[2] <= sent[i[1]]

Waiters == \A p \in Producers : st[p] = "wait" => sent[p] < Load

ChannelInv == QueueTypes /\ Counted /\ Waiters

(* What the steps of a producer have in common (queues.py 76-94, 148-170). *)
LEMMA TryAddStep ==
  ASSUME QueueAssumption, ChannelInv, NEW p \in Producers, sent[p] < Load, TryAdd(p),
         UNCHANGED <<closed, popped>>
  PROVE  /\ ChannelInv'
         /\ Promise!Next \/ UNCHANGED <<queue, closed, popped>>
<1> USE DEF ChannelInv, QueueAssumption
<1>1. CASE Full /\ Wait(p) /\ UNCHANGED <<queue, sent>>
  BY <1>1 DEF QueueTypes, Counted, Waiters, Wait, Threads, Elements
<1>2. CASE /\ ~Full
           /\ queue' = IF closed THEN queue ELSE Append(queue, Item(p))
           /\ sent' = [sent EXCEPT ![p] = @ + 1]
           /\ Leave(p, "idle")
  <2>1. st' = [st EXCEPT ![p] = "idle"]
    BY <1>2 DEF Leave
  <2>2. Item(p) \in Items /\ Item(p)[1] = p /\ Item(p)[2] = sent[p] + 1
    BY DEF Item, Items, QueueTypes
  <2>3. sent' \in [Producers -> 0 .. Load] /\ sent'[p] = sent[p] + 1
        /\ \A q \in Producers \ {p} : sent'[q] = sent[q]
    BY <1>2 DEF QueueTypes
  <2>4. queue' \in Seq(Items \cup {Stop}) /\ Elements(queue') \subseteq Elements(queue) \cup {Item(p)}
    BY <1>2, <2>2 DEF QueueTypes, Elements
  <2>5. QueueTypes'
    BY <2>1, <2>3, <2>4 DEF QueueTypes, Threads
  <2>6. Counted'
    <3>1. SUFFICES ASSUME NEW i \in Items, i \in popped \cup Elements(queue')
                   PROVE  i[2] <= sent'[i[1]]
      BY DEF Counted, Elements
    <3>2. i[1] \in Producers /\ i[2] \in Nat
      BY DEF Items
    <3>3. CASE i = Item(p)
      BY <3>3, <2>2, <2>3 DEF QueueTypes
    <3>4. CASE i # Item(p)
      <4>1. i[2] <= sent[i[1]]
        BY <3>1, <3>4, <2>4 DEF Counted
      <4>2. sent[i[1]] <= sent'[i[1]] /\ sent[i[1]] \in Nat /\ sent'[i[1]] \in Nat
        BY <2>3, <3>2 DEF QueueTypes
      <4> QED BY <4>1, <4>2, <3>2
    <3> QED BY <3>3, <3>4
  <2>7. Waiters'
    BY <2>1, <2>3 DEF Waiters, QueueTypes, Threads
  <2>8. CASE closed
    BY <2>5, <2>6, <2>7, <2>8, <1>2
  <2>9. CASE ~closed
    <3>1. ~closed /\ Len(queue) < Limit
      BY <1>2, <2>9 DEF Full, QueueTypes
    <3>2. \A j \in popped \cup Elements(queue) : j # Item(p) /\ <<Item(p), j>> \notin InOrder
      <4>1. SUFFICES ASSUME NEW j \in popped \cup Elements(queue), j \in Items
                     PROVE  j # Item(p) /\ ~(j[1] = p /\ sent[p] + 1 < j[2])
        BY <2>2 DEF InOrder
      <4>2. j[2] <= sent[j[1]] /\ j[2] \in Nat
        BY <4>1 DEF Counted, Items
      <4> QED BY <4>2, <2>2 DEF QueueTypes
    <3>3. Promise!Put(Item(p))
      BY <3>1, <3>2, <2>9, <1>2 DEF Promise!Put, Promise!InChannel, Elements
    <3> QED BY <3>3, <2>2, <2>5, <2>6, <2>7 DEF Promise!Next
  <2> QED BY <2>8, <2>9
<1> QED BY <1>1, <1>2 DEF TryAdd

(* What the steps of a consumer have in common (queues.py 180-201).        *)
LEMMA TryPopStep ==
  ASSUME QueueAssumption, ChannelInv, NEW c \in Consumers, TryPop(c), UNCHANGED <<closed, sent>>
  PROVE  /\ ChannelInv'
         /\ Promise!Next \/ UNCHANGED <<queue, closed, popped>>
<1> USE DEF ChannelInv, QueueAssumption
<1>0. c \in Threads /\ c \notin Producers
  BY DEF Threads
<1>1. CASE queue = << >> /\ Wait(c) /\ UNCHANGED <<queue, answer, popped>>
  BY <1>0, <1>1 DEF QueueTypes, Counted, Waiters, Wait, Threads, Elements
<1>2. CASE /\ queue # << >>
           /\ queue' = Tail(queue)
           /\ Return(c, IF Head(queue) = Stop THEN "stop" ELSE "item")
           /\ popped' = popped \cup ({Head(queue)} \ {Stop})
  <2>1. PICK s \in {"idle", "gone"} : st' = [st EXCEPT ![c] = s]
    BY <1>2 DEF Return, Leave
  <2>2. Head(queue) \in Items \cup {Stop} /\ Head(queue) \in Elements(queue)
    BY <1>2 DEF QueueTypes, Elements
  <2>3. queue' \in Seq(Items \cup {Stop}) /\ Elements(queue') \subseteq Elements(queue)
    BY <1>2 DEF QueueTypes, Elements
  <2>4. QueueTypes'
    BY <1>2, <1>0, <2>1, <2>2, <2>3 DEF QueueTypes
  <2>5. Counted'
    BY <1>2, <2>2, <2>3 DEF Counted, Elements
  <2>6. Waiters'
    BY <1>0, <2>1 DEF Waiters, QueueTypes, Threads
  <2>7. Promise!Take
    BY <1>2 DEF Promise!Take
  <2> QED BY <2>4, <2>5, <2>6, <2>7 DEF Promise!Next
<1> QED BY <1>1, <1>2 DEF TryPop

(* No step does anything to the channel that the channel does not allow.   *)
LEMMA QueueStep ==
  ASSUME QueueAssumption, ChannelInv, [Next]_vars
  PROVE  /\ ChannelInv'
         /\ [Promise!Next]_<<queue, closed, popped>>
<1> USE DEF ChannelInv, QueueAssumption
<1>1. CASE \E p \in Producers : Add(p) \/ AddAgain(p) \/ Nap(p)
  <2>1. PICK p \in Producers : Add(p) \/ AddAgain(p) \/ Nap(p)
    BY <1>1
  <2>2. sent[p] < Load /\ TryAdd(p) /\ UNCHANGED <<closed, popped>>
    BY <2>1 DEF Add, AddAgain, Nap, Waiters
  <2> QED BY <2>2, TryAddStep
<1>2. ASSUME NEW p \in Producers, TimeOut(p) PROVE ChannelInv' /\ UNCHANGED <<queue, closed, popped>>
  <2>1. /\ st' = [st EXCEPT ![p] = "idle"]
        /\ sent' = [sent EXCEPT ![p] = @ + 1]
        /\ sent[p] < Load
        /\ UNCHANGED <<queue, closed, popped>>
    BY <1>2 DEF TimeOut, Leave, Waiters
  <2>2. QueueTypes'
    BY <2>1 DEF QueueTypes, Threads
  <2>3. \A q \in Producers : sent[q] \in Nat /\ sent'[q] \in Nat /\ sent[q] <= sent'[q]
    BY <2>1 DEF QueueTypes
  <2>4. Counted'
    <3>1. SUFFICES ASSUME NEW i \in Items, i \in popped \cup Elements(queue)
                   PROVE  i[2] <= sent'[i[1]]
      BY <2>1 DEF Counted, Elements
    <3>2. i[1] \in Producers /\ i[2] \in Nat /\ i[2] <= sent[i[1]]
      BY <3>1 DEF Counted, Items
    <3> QED BY <3>2, <2>3
  <2>5. Waiters'
    BY <2>1 DEF Waiters, QueueTypes, Threads
  <2> QED BY <2>1, <2>2, <2>4, <2>5
<1>3. CASE \E c \in Consumers : Pop(c) \/ PopAgain(c)
  BY <1>3, TryPopStep DEF Pop, PopAgain
<1>4. ASSUME NEW c \in Consumers, PopClosed(c) \/ PopNone(c)
      PROVE  ChannelInv' /\ UNCHANGED <<queue, closed, popped>>
  <2>1. PICK s \in {"idle", "gone"} :
          st' = [st EXCEPT ![c] = s] /\ UNCHANGED <<queue, closed, sent, popped>>
    BY <1>4 DEF PopClosed, PopNone, Return, Leave
  <2>2. c \in Threads /\ c \notin Producers
    BY DEF Threads
  <2> QED BY <2>1, <2>2 DEF QueueTypes, Counted, Waiters, Threads, Elements
<1>5. CASE Close
  <2>1. queue' \in Seq(Items \cup {Stop}) /\ Elements(queue') = Elements(queue) \cup {Stop}
    BY <1>5 DEF Close, QueueTypes, Elements
  <2>2. ChannelInv'
    BY <1>5, <2>1 DEF Close, QueueTypes, Counted, Waiters, Elements
  <2>3. Promise!Shut
    BY <1>5 DEF Close, Promise!Shut
  <2> QED BY <2>2, <2>3 DEF Promise!Next
<1>6. CASE UNCHANGED vars
  BY <1>6 DEF vars, QueueTypes, Counted, Waiters, Elements
<1> QED BY <1>1, <1>2, <1>3, <1>4, <1>5, <1>6 DEF Next

(* mo_threads.Queue is a bounded FIFO channel that can be shut: each item  *)
(* comes out once, those of a producer in the order in which it adds them, *)
(* never more than the limit are inside, and none gets behind the stop.    *)
THEOREM QueueImplementsChannel ==
  ASSUME QueueAssumption PROVE Spec => QueueIsChannel
<1>1. Init => ChannelInv /\ Promise!Init
  <2> SUFFICES ASSUME Init PROVE ChannelInv /\ Promise!Init
    OBVIOUS
  <2>1. QueueTypes
    BY DEF Init, QueueTypes, QueueAssumption
  <2>2. Counted
    BY DEF Init, Counted, Elements
  <2>3. Waiters
    BY DEF Init, Waiters, Threads
  <2> QED BY <2>1, <2>2, <2>3 DEF ChannelInv, Init, Promise!Init
<1>2. ChannelInv /\ [Next]_vars => ChannelInv' /\ [Promise!Next]_<<queue, closed, popped>>
  BY QueueStep
<1> QED BY <1>1, <1>2, PTL DEF Spec, QueueIsChannel, Promise!Spec, Promise!channelVars

-----------------------------------------------------------------------------
(* Types.  The list of waiters holds threads, whoever leaves it.           *)

LEMMA OthersType ==
  ASSUME waiting \in Seq(Threads), NEW t PROVE Others(t) \in Seq(Threads)
<1>1. CASE t \in Elements(waiting)
  <2> DEFINE i == Place(t)
  <2>1. i \in 1 .. Len(waiting)
    BY <1>1 DEF Place, Elements
  <2> HIDE DEF i
  <2>2. SubSeq(waiting, 1, i - 1) \in Seq(Threads) /\ SubSeq(waiting, i + 1, Len(waiting)) \in Seq(Threads)
    BY <2>1, SubSeqProperties
  <2>3. Others(t) = SubSeq(waiting, 1, i - 1) \o SubSeq(waiting, i + 1, Len(waiting))
    BY <1>1 DEF Others, i
  <2> QED
    BY <2>2, <2>3, ConcatProperties
<1>2. CASE t \notin Elements(waiting)
  BY <1>2 DEF Others
<1> QED
  BY <1>1, <1>2

LEMMA FrontType ==
  ASSUME NEW w \in Seq(Threads), w # << >>
  PROVE  SubSeq(w, 1, Len(w) - 1) \in Seq(Threads) /\ w[Len(w)] \in Threads
<1>1. Len(w) \in Nat /\ Len(w) >= 1
  BY EmptySeq
<1> QED
  BY <1>1, SubSeqProperties

LEMMA LockTypes ==
  ASSUME waiting \in Seq(Threads), signalled \subseteq Threads, NEW t \in Threads, Exit(t) \/ Wait(t)
  PROVE  waiting' \in Seq(Threads) /\ signalled' \subseteq Threads
<1> DEFINE w == Others(t)
<1>1. w \in Seq(Threads)
  BY OthersType
<1>2. CASE Wait(t)
  <2>1. <<t>> \in Seq(Threads)
    OBVIOUS
  <2>2. waiting' = <<t>> \o w /\ signalled' = signalled \ {t}
    BY <1>2 DEF Wait
  <2> QED
    BY <1>1, <2>1, <2>2, ConcatProperties
<1>3. CASE Exit(t)
  <2>1. IF w = << >> THEN waiting' = w /\ signalled' = signalled \ {t}
        ELSE waiting' = SubSeq(w, 1, Len(w) - 1) /\ signalled' = (signalled \ {t}) \cup {w[Len(w)]}
    BY <1>3 DEF Exit
  <2> HIDE DEF w
  <2>2. w # << >> => SubSeq(w, 1, Len(w) - 1) \in Seq(Threads) /\ w[Len(w)] \in Threads
    BY <1>1, FrontType
  <2> QED
    BY <1>1, <2>1, <2>2
<1> QED
  BY <1>2, <1>3

LEMMA TypeStep ==
  ASSUME QueueAssumption, ChannelInv, TypeOK, [Next]_vars PROVE TypeOK'
<1> DEFINE Answered == answer' \in [Consumers -> {"item", "none", "stop"}]
           WaitsOK == waiting' \in Seq(Threads) /\ signalled' \subseteq Threads
<1>1. Producers \subseteq Threads /\ Consumers \subseteq Threads
  BY DEF Threads
<1>2. ASSUME NEW p \in Producers, Add(p) \/ AddAgain(p) \/ Nap(p) \/ TimeOut(p)
      PROVE  Answered /\ WaitsOK /\ closed' = closed
  <2>1. Exit(p) \/ Wait(p)
    BY <1>2 DEF Add, AddAgain, Nap, TimeOut, TryAdd, Leave
  <2>2. answer' = answer /\ closed' = closed
    BY <1>2 DEF Add, AddAgain, Nap, TimeOut
  <2> QED
    BY <1>1, <2>1, <2>2, LockTypes DEF TypeOK
<1>3. ASSUME NEW c \in Consumers, Pop(c) \/ PopAgain(c) \/ PopClosed(c) \/ PopNone(c)
      PROVE  Answered /\ WaitsOK /\ closed' = closed
  <2>1. Exit(c) \/ Wait(c)
    BY <1>3 DEF Pop, PopAgain, PopClosed, PopNone, TryPop, Return, Leave
  <2>2. closed' = closed /\ \/ answer' = answer
                            \/ \E a \in {"item", "none", "stop"} : answer' = [answer EXCEPT ![c] = a]
    BY <1>3 DEF Pop, PopAgain, PopClosed, PopNone, TryPop, Return
  <2>3. Answered
    BY <2>2 DEF TypeOK
  <2> QED
    BY <1>1, <2>1, <2>2, <2>3, LockTypes DEF TypeOK
<1>4. ASSUME Close PROVE Answered /\ WaitsOK /\ closed' \in BOOLEAN
  <2>1. waiting # << >> => SubSeq(waiting, 1, Len(waiting) - 1) \in Seq(Threads) /\ waiting[Len(waiting)] \in Threads
    BY FrontType DEF TypeOK
  <2>2. WaitsOK
    BY <1>4, <2>1 DEF Close, TypeOK
  <2> QED
    BY <1>4, <2>2 DEF Close, TypeOK
<1>6. QueueTypes'
  BY QueueStep DEF ChannelInv
<1>7. Answered /\ WaitsOK /\ closed' \in BOOLEAN
  <2>1. closed \in BOOLEAN
    BY DEF TypeOK
  <2>2. CASE Close
    BY <1>4, <2>2
  <2>3. CASE UNCHANGED vars
    BY <2>3 DEF vars, TypeOK
  <2> QED
    BY <1>2, <1>3, <2>1, <2>2, <2>3 DEF Next
<1> QED
  BY <1>6, <1>7 DEF TypeOK, QueueTypes

LEMMA ChannelInit == ASSUME QueueAssumption, Init PROVE ChannelInv /\ TypeOK
<1>1. QueueTypes
  BY DEF Init, QueueTypes, QueueAssumption
<1>2. Counted /\ Waiters
  BY DEF Init, Counted, Waiters, Threads, Elements
<1>3. waiting \in Seq(Threads) /\ signalled \subseteq Threads /\ closed \in BOOLEAN
  BY EmptySeq DEF Init
<1>4. answer \in [Consumers -> {"item", "none", "stop"}]
  BY DEF Init
<1> QED
  BY <1>1, <1>2, <1>3, <1>4 DEF ChannelInv, TypeOK, QueueTypes

(* mo_threads.Queue, mo_threads.Lock: the types of their variables.        *)
THEOREM QueueTypeSafety == ASSUME QueueAssumption PROVE Spec => []TypeOK
<1>1. Init => ChannelInv /\ TypeOK
  BY ChannelInit
<1>2. ChannelInv /\ TypeOK /\ [Next]_vars => (ChannelInv /\ TypeOK)'
  BY QueueStep, TypeStep
<1> QED
  BY <1>1, <1>2, PTL DEF Spec

-----------------------------------------------------------------------------
(* Who is woken.  The oldest waiter is, whatever it waits for; with one    *)
(* producer that is never the wrong one.                                   *)

WaitTypes == waiting \in Seq(Threads) /\ signalled \subseteq Threads

Distinct == \A i, j \in DOMAIN waiting : waiting[i] = waiting[j] => i = j

Asleep == \A t \in Threads : st[t] = "wait" <=> t \in Elements(waiting) \cup signalled

StopLast == \A i \in DOMAIN queue : queue[i] = Stop => i = Len(queue) /\ closed

GoneClosed == \A c \in Consumers : st[c] = "gone" => closed

(* A consumer that went to sleep after the producer found the queue empty, *)
(* and since then nothing was added but the stop.                          *)
Newer ==
  \A i, j \in DOMAIN waiting :
    i < j /\ waiting[i] \in Consumers /\ waiting[j] \in Producers => Elements(queue) \subseteq {Stop}

WakeInv ==
  WaitTypes /\ Distinct /\ Asleep /\ StopLast /\ GoneClosed /\ Newer /\ NobodySleeps

Answers == answer \in [Consumers -> {"item", "none", "stop"}]

OneProducer == \A p, q \in Producers : p = q

(* How the waiters of later stand in the order of those of now.            *)
Keeps(w) ==
  \A i, j \in DOMAIN w : i < j =>
    \E a, b \in DOMAIN waiting : a < b /\ w[i] = waiting[a] /\ w[j] = waiting[b]

LEMMA OthersOf ==
  ASSUME WaitTypes, Distinct, NEW t
  PROVE  /\ Others(t) \in Seq(Threads)
         /\ Elements(Others(t)) = Elements(waiting) \ {t}
         /\ Keeps(Others(t))
<1>1. waiting \in Seq(Threads) /\ Len(waiting) \in Nat /\ DOMAIN waiting = 1 .. Len(waiting)
  BY DEF WaitTypes
<1>2. CASE t \notin Elements(waiting)
  BY <1>1, <1>2 DEF Others, Keeps
<1>3. CASE t \in Elements(waiting)
  <2> DEFINE n == Len(waiting)
             k == Place(t)
             w == Others(t)
  <2>1. k \in 1 .. n /\ waiting[k] = t
    BY <1>1, <1>3 DEF Place, Elements
  <2>2. w = SubSeq(waiting, 1, k - 1) \o SubSeq(waiting, k + 1, n)
    BY <1>3 DEF Others
  <2> HIDE DEF k, w
  <2> DEFINE front == SubSeq(waiting, 1, k - 1)
             back == SubSeq(waiting, k + 1, n)
  <2>3. /\ front \in Seq(Threads) /\ Len(front) = k - 1 /\ \A i \in 1 .. k - 1 : front[i] = waiting[i]
        /\ back \in Seq(Threads) /\ Len(back) = n - k /\ \A i \in 1 .. n - k : back[i] = waiting[i + k]
    <3>1. front \in Seq(Threads) /\ Len(front) = k - 1 /\ \A i \in 1 .. k - 1 : front[i] = waiting[i]
      <4>1. 1 \in Int /\ k - 1 \in Int /\ \A i \in 1 .. k - 1 : waiting[i] \in Threads
        BY <1>1, <2>1
      <4> QED
        BY <1>1, <2>1, <4>1, SubSeqProperties
    <3>2. back \in Seq(Threads) /\ Len(back) = n - k /\ \A i \in 1 .. n - k : back[i] = waiting[i + k]
      <4>1. k + 1 \in Int /\ n \in Int /\ \A i \in k + 1 .. n : waiting[i] \in Threads
        BY <1>1, <2>1
      <4>2. /\ back \in Seq(Threads)
            /\ Len(back) = IF k + 1 <= n THEN n - (k + 1) + 1 ELSE 0
            /\ \A i \in 1 .. n - (k + 1) + 1 : back[i] = waiting[k + 1 + i - 1]
        BY <4>1, SubSeqProperties
      <4> HIDE DEF n, back
      <4>3. n \in Nat /\ k \in 1 .. n
        BY <1>1, <2>1 DEF n
      <4>4. Len(back) = n - k
        BY <4>2, <4>3
      <4>5. \A i \in 1 .. n - k : i \in 1 .. n - (k + 1) + 1 /\ k + 1 + i - 1 = i + k
        BY <4>3
      <4> QED
        BY <4>2, <4>4, <4>5
    <3> QED
      BY <3>1, <3>2
  <2>4. w = front \o back
    BY <2>2
  <2> HIDE DEF front, back
  <2>5. /\ w \in Seq(Threads) /\ Len(w) = k - 1 + (n - k)
         /\ \A i \in 1 .. k - 1 + (n - k) : w[i] = IF i <= k - 1 THEN front[i] ELSE back[i - (k - 1)]
    <3>1. /\ front \o back \in Seq(Threads)
          /\ Len(front \o back) = Len(front) + Len(back)
          /\ \A i \in 1 .. Len(front) + Len(back) :
               (front \o back)[i] = IF i <= Len(front) THEN front[i] ELSE back[i - Len(front)]
      BY <2>3, ConcatProperties
    <3>2. Len(front) = k - 1 /\ Len(back) = n - k
      BY <2>3
    <3> QED
      BY <2>4, <3>1, <3>2, Zenon
  <2>6. w \in Seq(Threads) /\ Len(w) = n - 1 /\ DOMAIN w = 1 .. n - 1
    <3>1. k - 1 + (n - k) = n - 1
      BY <1>1, <2>1
    <3> QED
      BY <2>5, <3>1
  <2>7. \A i \in 1 .. n - 1 : w[i] = waiting[IF i < k THEN i ELSE i + 1]
    <3>1. \A i \in 1 .. n - 1 : w[i] = IF i <= k - 1 THEN front[i] ELSE back[i - (k - 1)]
      BY <1>1, <2>1, <2>5
    <3>2. \A i \in 1 .. n - 1 : i > k - 1 => i - (k - 1) \in 1 .. n - k /\ i - (k - 1) + k = i + 1
      BY <1>1, <2>1
    <3> QED
      BY <1>1, <2>1, <2>3, <3>1, <3>2
  <2>8. Keeps(w)
    <3>1. SUFFICES ASSUME NEW i \in 1 .. n - 1, NEW j \in 1 .. n - 1, i < j
                   PROVE  \E a, b \in DOMAIN waiting : a < b /\ w[i] = waiting[a] /\ w[j] = waiting[b]
      BY <2>6 DEF Keeps
    <3> DEFINE a == IF i < k THEN i ELSE i + 1
               b == IF j < k THEN j ELSE j + 1
    <3>2. a \in 1 .. n /\ b \in 1 .. n /\ a < b
      BY <1>1, <2>1, <3>1
    <3> QED
      BY <1>1, <2>7, <3>2
  <2>9. Elements(w) = Elements(waiting) \ {t}
    <3>1. ASSUME NEW i \in 1 .. n - 1 PROVE w[i] \in Elements(waiting) /\ w[i] # t
      <4> DEFINE a == IF i < k THEN i ELSE i + 1
      <4>1. a \in 1 .. n /\ a # k
        BY <1>1, <2>1
      <4>2. w[i] = waiting[a]
        BY <2>7
      <4> HIDE DEF a
      <4> QED
        BY <1>1, <2>1, <4>1, <4>2 DEF Distinct, Elements
    <3>2. ASSUME NEW a \in 1 .. n, waiting[a] # t PROVE waiting[a] \in Elements(w)
      <4> DEFINE i == IF a < k THEN a ELSE a - 1
      <4>1. i \in 1 .. n - 1 /\ w[i] = waiting[a]
        BY <1>1, <2>1, <2>7, <3>2
      <4> QED
        BY <2>6, <4>1 DEF Elements
    <3> QED
      BY <1>1, <2>6, <3>1, <3>2 DEF Elements
  <2> QED
    BY <2>6, <2>8, <2>9 DEF w
<1> QED
  BY <1>2, <1>3

LEMMA KeptDistinct ==
  ASSUME WaitTypes, Distinct, NEW w \in Seq(Threads), Keeps(w)
  PROVE  \A i, j \in DOMAIN w : w[i] = w[j] => i = j
<1>1. ASSUME NEW i \in DOMAIN w, NEW j \in DOMAIN w, i < j PROVE w[i] # w[j]
  <2>1. PICK a \in DOMAIN waiting, b \in DOMAIN waiting : a < b /\ w[i] = waiting[a] /\ w[j] = waiting[b]
    BY <1>1 DEF Keeps
  <2> QED
    BY <2>1 DEF Distinct, WaitTypes
<1>2. \A i, j \in DOMAIN w : i \in Nat /\ j \in Nat
  OBVIOUS
<1> QED
  BY <1>1, <1>2

(* The end of a `with` (lock.py 73-79): one thread less sleeps, and it was *)
(* the one that slept longest.                                             *)
LEMMA ExitWakes ==
  ASSUME WaitTypes, Distinct, NEW t, Exit(t)
  PROVE  /\ WaitTypes' /\ Distinct' /\ Keeps(waiting')
         /\ Elements(waiting') \cup signalled' = (Elements(waiting) \cup signalled) \ {t}
         /\ signalled \ {t} \subseteq signalled'
         /\ Elements(waiting') \subseteq Elements(waiting) \ {t}
         /\ \/ waiting' = << >>
            \/ \E b \in DOMAIN waiting :
                 /\ waiting[b] \in signalled'
                 /\ \A v \in Elements(waiting') : \E a \in DOMAIN waiting : a < b /\ waiting[a] = v
         /\ Elements(waiting) \ {t} # {} => \E u \in Elements(waiting) \ {t} : u \in signalled'
<1> DEFINE w == Others(t)
<1>1. w \in Seq(Threads) /\ Elements(w) = Elements(waiting) \ {t} /\ Keeps(w)
  BY OthersOf
<1>2. Elements(waiting) \subseteq Threads
  BY DEF WaitTypes, Elements
<1> HIDE DEF w
<1>3. CASE w = << >>
  <2>1. waiting' = << >> /\ signalled' = signalled \ {t} /\ Elements(waiting) \ {t} = {}
    BY <1>1, <1>3 DEF Exit, w, Elements
  <2>2. Elements(waiting') = {}
    BY <2>1 DEF Elements
  <2>3. WaitTypes' /\ Distinct' /\ Keeps(waiting')
    BY <2>1 DEF WaitTypes, Distinct, Keeps
  <2> QED
    BY <2>1, <2>2, <2>3
<1>4. CASE w # << >>
  <2> DEFINE n == Len(w)
             u == w[n]
  <2>1. waiting' = SubSeq(w, 1, n - 1) /\ signalled' = (signalled \ {t}) \cup {u}
    BY <1>4 DEF Exit, w
  <2>2. n \in Nat \ {0} /\ DOMAIN w = 1 .. n /\ n \in DOMAIN w
    BY <1>1, <1>4
  <2>3. /\ waiting' \in Seq(Threads) /\ Len(waiting') = n - 1 /\ DOMAIN waiting' = 1 .. n - 1
        /\ \A i \in 1 .. n - 1 : waiting'[i] = w[i]
    BY <1>1, <2>1, <2>2
  <2>4. u \in Elements(w)
    BY <2>2 DEF Elements
  <2> HIDE DEF n, u
  <2>5. Elements(w) = Elements(waiting') \cup {u}
    BY <2>2, <2>3 DEF Elements, u
  <2>6. Keeps(waiting')
    BY <1>1, <2>2, <2>3 DEF Keeps
  <2>7. Distinct'
    BY <2>3, <2>6, KeptDistinct DEF Distinct
  <2>8. WaitTypes'
    BY <1>1, <1>2, <2>1, <2>3, <2>4 DEF WaitTypes
  <2>9. \E b \in DOMAIN waiting :
          /\ waiting[b] = u
          /\ \A v \in Elements(waiting') : \E a \in DOMAIN waiting : a < b /\ waiting[a] = v
    <3>1. PICK b \in DOMAIN waiting : waiting[b] = u
      BY <1>1, <2>4 DEF Elements
    <3>2. ASSUME NEW i \in 1 .. n - 1
          PROVE  \E a \in DOMAIN waiting : a < b /\ waiting[a] = waiting'[i]
      <4>1. i \in DOMAIN w /\ i < n
        BY <2>2
      <4>2. PICK a \in DOMAIN waiting, c \in DOMAIN waiting :
              a < c /\ w[i] = waiting[a] /\ w[n] = waiting[c]
        BY <1>1, <2>2, <4>1 DEF Keeps
      <4>3. c = b
        BY <3>1, <4>2 DEF Distinct, u
      <4> QED
        BY <2>3, <4>2, <4>3
    <3> QED
      BY <2>3, <3>1, <3>2 DEF Elements
  <2> QED
    BY <1>1, <2>1, <2>4, <2>5, <2>6, <2>7, <2>8, <2>9
<1> QED
  BY <1>3, <1>4

(* wait() puts a thread behind all others.                                 *)
LEMMA WaitSleeps ==
  ASSUME WaitTypes, Distinct, NEW t \in Threads, Wait(t)
  PROVE  /\ WaitTypes' /\ Distinct'
         /\ Elements(waiting') = Elements(waiting) \cup {t} /\ signalled' = signalled \ {t}
         /\ \A i, j \in DOMAIN waiting' : i < j =>
              \/ waiting'[i] = t
              \/ /\ waiting'[j] # t
                 /\ \E a, b \in DOMAIN waiting :
                      a < b /\ waiting'[i] = waiting[a] /\ waiting'[j] = waiting[b]
         /\ \A j \in DOMAIN waiting' : waiting'[j] = t => j = 1
<1> DEFINE w == Others(t)
<1>1. w \in Seq(Threads) /\ Elements(w) = Elements(waiting) \ {t} /\ Keeps(w)
  BY OthersOf
<1>2. \A i, j \in DOMAIN w : w[i] = w[j] => i = j
  BY <1>1, KeptDistinct
<1>3. waiting' = <<t>> \o w /\ signalled' = signalled \ {t}
  BY DEF Wait
<1> HIDE DEF w
<1>4. /\ waiting' \in Seq(Threads) /\ Len(waiting') = Len(w) + 1 /\ Len(w) \in Nat
      /\ DOMAIN waiting' = 1 .. Len(w) + 1 /\ DOMAIN w = 1 .. Len(w)
      /\ waiting'[1] = t
      /\ \A i \in 2 .. Len(w) + 1 : i - 1 \in DOMAIN w /\ waiting'[i] = w[i - 1]
      /\ \A i \in DOMAIN w : i + 1 \in DOMAIN waiting' /\ waiting'[i + 1] = w[i]
  BY <1>1, <1>3
<1>5. \A i \in DOMAIN w : w[i] # t
  BY <1>1 DEF Elements
<1>6. WaitTypes'
  BY <1>3, <1>4 DEF WaitTypes
<1>7. ASSUME NEW j \in DOMAIN waiting', waiting'[j] = t, j # 1 PROVE FALSE
  <2>1. j \in 2 .. Len(w) + 1
    BY <1>4, <1>7
  <2>2. j - 1 \in DOMAIN w /\ waiting'[j] = w[j - 1]
    BY <1>4, <2>1
  <2> QED
    BY <1>5, <1>7, <2>2
<1>8. Distinct'
  <2>1. SUFFICES ASSUME NEW i \in DOMAIN waiting', NEW j \in DOMAIN waiting', waiting'[i] = waiting'[j]
                 PROVE  i = j
    BY DEF Distinct
  <2>2. CASE i = 1 \/ j = 1
    BY <1>4, <1>7, <2>1, <2>2
  <2>3. CASE i # 1 /\ j # 1
    <3>1. i \in 2 .. Len(w) + 1 /\ j \in 2 .. Len(w) + 1
      BY <1>4, <2>3
    <3>2. i - 1 = j - 1
      BY <1>2, <1>4, <2>1, <3>1
    <3> QED
      BY <3>1, <3>2
  <2> QED
    BY <2>2, <2>3
<1>9. Elements(waiting') = Elements(waiting) \cup {t}
  <2>1. Elements(waiting') \subseteq Elements(w) \cup {t}
    <3>1. ASSUME NEW i \in DOMAIN waiting' PROVE waiting'[i] \in Elements(w) \cup {t}
      <4>1. CASE i = 1
        BY <1>4, <4>1
      <4>2. CASE i # 1
        BY <1>4, <4>2 DEF Elements
      <4> QED
        BY <4>1, <4>2
    <3> QED
      BY <3>1 DEF Elements
  <2>2. Elements(w) \cup {t} \subseteq Elements(waiting')
    BY <1>4 DEF Elements
  <2>3. t \in Elements(waiting) \/ t \notin Elements(waiting)
    OBVIOUS
  <2> QED
    BY <1>1, <2>1, <2>2
<1>10. ASSUME NEW i \in DOMAIN waiting', NEW j \in DOMAIN waiting', i < j
       PROVE  \/ waiting'[i] = t
              \/ /\ waiting'[j] # t
                 /\ \E a, b \in DOMAIN waiting :
                      a < b /\ waiting'[i] = waiting[a] /\ waiting'[j] = waiting[b]
  <2>1. CASE i = 1
    BY <1>4, <2>1
  <2>2. CASE i # 1
    <3>1. i - 1 \in DOMAIN w /\ j - 1 \in DOMAIN w /\ i - 1 < j - 1
          /\ waiting'[i] = w[i - 1] /\ waiting'[j] = w[j - 1]
      BY <1>4, <1>10, <2>2
    <3> QED
      BY <1>1, <1>5, <3>1 DEF Keeps
  <2> QED
    BY <2>1, <2>2
<1> QED
  BY <1>3, <1>6, <1>7, <1>8, <1>9, <1>10

Setting == QueueAssumption /\ OneProducer /\ Consumers # {}

(* What is left over of the invariant, when a thread has left the lock.    *)
LEMMA AsleepExit ==
  ASSUME WaitTypes, Distinct, Asleep, QueueTypes, NEW t \in Threads,
         NEW s \in {"idle", "gone"}, Leave(t, s)
  PROVE  Asleep'
<1>1. Elements(waiting') \cup signalled' = (Elements(waiting) \cup signalled) \ {t}
  BY ExitWakes DEF Leave
<1>2. st' = [st EXCEPT ![t] = s]
  BY DEF Leave
<1>3. \A u \in Threads : st'[u] = "wait" <=> u \in (Elements(waiting) \cup signalled) \ {t}
  BY <1>2 DEF Asleep, QueueTypes
<1>4. \A u \in Threads : st'[u] = "wait" <=> u \in Elements(waiting') \cup signalled'
  BY <1>1, <1>3
<1> QED
  BY <1>4 DEF Asleep, Elements

LEMMA AsleepWait ==
  ASSUME WaitTypes, Distinct, Asleep, QueueTypes, NEW t \in Threads, Wait(t)
  PROVE  Asleep'
<1>1. Elements(waiting') = Elements(waiting) \cup {t} /\ signalled' = signalled \ {t}
  BY WaitSleeps
<1>2. st' = [st EXCEPT ![t] = "wait"]
  BY DEF Wait
<1>3. \A u \in Threads : st'[u] = "wait" <=> u \in Elements(waiting) \cup signalled \cup {t}
  BY <1>2 DEF Asleep, QueueTypes
<1>4. \A u \in Threads : st'[u] = "wait" <=> u \in Elements(waiting') \cup signalled'
  BY <1>1, <1>3
<1> QED
  BY <1>4 DEF Asleep, Elements

(* The producer leaves the lock: if a consumer sleeps, one is woken.       *)
LEMMA ProducerLeaves ==
  ASSUME Setting, QueueTypes, WakeInv, NEW p \in Producers, Leave(p, "idle"),
         UNCHANGED closed
  PROVE  WaitTypes' /\ Distinct' /\ Asleep' /\ GoneClosed' /\ Newer' /\ NoSleeper'
<1> USE DEF WakeInv
<1>1. p \in Threads /\ p \notin Consumers
  BY DEF Threads, Setting, QueueAssumption
<1>2. /\ WaitTypes' /\ Distinct'
      /\ Elements(waiting') \subseteq Elements(waiting) \ {p}
      /\ Elements(waiting) \ {p} # {} => \E u \in Elements(waiting) \ {p} : u \in signalled'
  BY ExitWakes DEF Leave
<1>3. Elements(waiting) \subseteq Threads
  BY DEF WaitTypes, Elements
<1>4. Elements(waiting) \ {p} \subseteq Consumers
  BY <1>3 DEF Threads, Setting, OneProducer
<1>5. Asleep'
  BY <1>1, AsleepExit
<1>6. GoneClosed'
  BY <1>1 DEF GoneClosed, Leave, QueueTypes, Threads
<1>7. Newer'
  <2>1. \A j \in DOMAIN waiting' : waiting'[j] \in Consumers
    BY <1>2, <1>4 DEF Elements
  <2> QED
    BY <2>1 DEF Newer, Setting, QueueAssumption
<1>8. NoSleeper'
  <2>1. Elements(waiting') # {} => \E c \in Consumers : c \in signalled'
    BY <1>2, <1>4
  <2> QED
    BY <2>1 DEF NoSleeper, AwakeConsumer, Elements
<1> QED
  BY <1>2, <1>5, <1>6, <1>7, <1>8

LEMMA StopStays ==
  ASSUME Setting, QueueTypes, WakeInv, NEW p \in Producers,
         NEW s \in {"idle", "wait"}, st' = [st EXCEPT ![p] = s], closed => queue' = queue
  PROVE  StopIsLast'
<1>1. \A c \in Consumers : st'[c] = st[c]
  BY DEF QueueTypes, Threads, Setting, QueueAssumption
<1>2. (\A c \in Consumers : st[c] = "gone") => closed
  BY DEF WakeInv, GoneClosed, Setting
<1> QED
  BY <1>1, <1>2 DEF StopIsLast, WakeInv, NobodySleeps, Elements

LEMMA AddWakes ==
  ASSUME Setting, QueueTypes, WakeInv, NEW p \in Producers, sent[p] < Load, TryAdd(p),
         UNCHANGED closed
  PROVE  WakeInv'
<1> USE DEF WakeInv
<1>1. p \in Threads /\ p \notin Consumers
  BY DEF Threads, Setting, QueueAssumption
<1>2. CASE Full /\ Wait(p) /\ UNCHANGED <<queue, sent>>
  <2>1. /\ WaitTypes' /\ Distinct'
        /\ Elements(waiting') = Elements(waiting) \cup {p} /\ signalled' = signalled \ {p}
        /\ \A i, j \in DOMAIN waiting' : i < j =>
             \/ waiting'[i] = p
             \/ /\ waiting'[j] # p
                /\ \E a, b \in DOMAIN waiting :
                     a < b /\ waiting'[i] = waiting[a] /\ waiting'[j] = waiting[b]
    BY <1>1, <1>2, WaitSleeps
  <2>2. Asleep'
    BY <1>1, <1>2, AsleepWait
  <2>3. st' = [st EXCEPT ![p] = "wait"]
    BY <1>2 DEF Wait
  <2>4. StopLast' /\ GoneClosed'
    BY <1>1, <1>2, <2>3 DEF StopLast, GoneClosed, QueueTypes, Threads
  <2>5. Newer'
    BY <1>1, <2>1 DEF Newer, Setting, OneProducer
  <2>6. NoSleeper'
    BY <1>1, <1>2, <2>1 DEF NobodySleeps, NoSleeper, AwakeConsumer, Elements
  <2>7. StopIsLast'
    BY <1>2, <2>3, StopStays
  <2> QED
    BY <2>1, <2>2, <2>4, <2>5, <2>6, <2>7 DEF NobodySleeps
<1>3. CASE /\ ~Full
           /\ queue' = IF closed THEN queue ELSE Append(queue, Item(p))
           /\ sent' = [sent EXCEPT ![p] = @ + 1]
           /\ Leave(p, "idle")
  <2>1. WaitTypes' /\ Distinct' /\ Asleep' /\ GoneClosed' /\ Newer' /\ NoSleeper'
    BY <1>3, ProducerLeaves
  <2>2. StopLast'
    <3>1. CASE closed
      BY <1>3, <3>1 DEF StopLast
    <3>2. CASE ~closed
      <4>1. \A i \in DOMAIN queue : queue[i] # Stop
        BY <3>2 DEF StopLast
      <4>2. queue' = Append(queue, Item(p))
        BY <1>3, <3>2
      <4>3. /\ Len(queue') = Len(queue) + 1 /\ Len(queue) \in Nat /\ DOMAIN queue' = 1 .. Len(queue) + 1
            /\ DOMAIN queue = 1 .. Len(queue)
            /\ \A i \in DOMAIN queue : queue'[i] = queue[i]
            /\ queue'[Len(queue) + 1] = Item(p)
        BY <4>2 DEF QueueTypes
      <4>4. Item(p) # Stop
        BY DEF Item, Items, QueueTypes, Setting, QueueAssumption
      <4>5. ASSUME NEW i \in DOMAIN queue' PROVE queue'[i] # Stop
        <5>1. i \in DOMAIN queue \/ i = Len(queue) + 1
          BY <4>3
        <5> QED
          BY <5>1, <4>1, <4>3, <4>4
      <4> QED
        BY <4>5 DEF StopLast
    <3> QED
      BY <3>1, <3>2
  <2>3. StopIsLast'
    <3>1. st' = [st EXCEPT ![p] = "idle"] /\ closed => queue' = queue
      BY <1>3 DEF Leave
    <3> QED
      BY <1>3, <3>1, StopStays DEF Leave
  <2> QED
    BY <2>1, <2>2, <2>3 DEF NobodySleeps
<1> QED
  BY <1>2, <1>3 DEF TryAdd

(* A consumer leaves the lock.  If it is the producer that is woken, the   *)
(* consumers that still sleep came later (queues.py 180-201).              *)
LEMMA ConsumerLeaves ==
  ASSUME Setting, QueueTypes, WakeInv, NEW c \in Consumers, NEW s \in {"idle", "gone"}, Leave(c, s),
         Elements(queue') \subseteq Elements(queue)
  PROVE  WaitTypes' /\ Distinct' /\ Asleep' /\ Newer' /\ NoSleeper'
<1> USE DEF WakeInv
<1>1. c \in Threads
  BY DEF Threads
<1>2. /\ WaitTypes' /\ Distinct' /\ Keeps(waiting')
      /\ signalled \ {c} \subseteq signalled'
      /\ Elements(waiting') \subseteq Elements(waiting) \ {c}
      /\ \/ waiting' = << >>
         \/ \E b \in DOMAIN waiting :
              /\ waiting[b] \in signalled'
              /\ \A v \in Elements(waiting') : \E a \in DOMAIN waiting : a < b /\ waiting[a] = v
  BY ExitWakes DEF Leave
<1>3. Asleep'
  BY <1>1, AsleepExit
<1>4. Newer'
  <2>1. SUFFICES ASSUME NEW i \in DOMAIN waiting', NEW j \in DOMAIN waiting', i < j,
                        waiting'[i] \in Consumers, waiting'[j] \in Producers
                 PROVE  Elements(queue') \subseteq {Stop}
    BY DEF Newer, Elements
  <2>2. PICK a \in DOMAIN waiting, b \in DOMAIN waiting :
          a < b /\ waiting'[i] = waiting[a] /\ waiting'[j] = waiting[b]
    BY <1>2, <2>1 DEF Keeps
  <2>3. Elements(queue) \subseteq {Stop}
    BY <2>1, <2>2 DEF Newer
  <2> QED
    BY <2>3
<1>5. NoSleeper'
  <2>1. SUFFICES ASSUME NEW d \in Consumers, d \in Elements(waiting'), ~(Elements(queue') \subseteq {Stop})
                 PROVE  \E e \in Consumers : e \in signalled'
    BY DEF NoSleeper, AwakeConsumer, Elements
  <2>2. waiting' # << >>
    BY <2>1 DEF Elements
  <2>3. PICK b \in DOMAIN waiting :
          /\ waiting[b] \in signalled'
          /\ \A v \in Elements(waiting') : \E a \in DOMAIN waiting : a < b /\ waiting[a] = v
    BY <1>2, <2>2
  <2>4. PICK a \in DOMAIN waiting : a < b /\ waiting[a] = d
    BY <2>1, <2>3
  <2>5. waiting[b] \notin Producers
    BY <2>1, <2>4 DEF Newer
  <2>6. waiting[b] \in Threads
    BY DEF WaitTypes
  <2> QED
    BY <2>3, <2>5, <2>6 DEF Threads
<1> QED
  BY <1>2, <1>3, <1>4, <1>5

LEMMA PopWakes ==
  ASSUME Setting, QueueTypes, WakeInv, NEW c \in Consumers, TryPop(c), UNCHANGED closed
  PROVE  WakeInv'
<1> USE DEF WakeInv
<1>1. c \in Threads /\ c \notin Producers
  BY DEF Threads, Setting, QueueAssumption
<1>2. CASE queue = << >> /\ Wait(c) /\ UNCHANGED <<queue, answer, popped>>
  <2>1. WaitTypes' /\ Distinct'
    BY <1>1, <1>2, WaitSleeps
  <2>2. Asleep'
    BY <1>1, <1>2, AsleepWait
  <2>3. st' = [st EXCEPT ![c] = "wait"]
    BY <1>2 DEF Wait
  <2>4. StopLast' /\ GoneClosed'
    BY <1>1, <1>2, <2>3 DEF StopLast, GoneClosed, QueueTypes, Threads
  <2>5. Elements(queue') = {}
    BY <1>2 DEF Elements
  <2>6. Newer' /\ NoSleeper' /\ StopIsLast'
    BY <2>5 DEF Newer, NoSleeper, StopIsLast, Elements
  <2> QED
    BY <2>1, <2>2, <2>4, <2>6 DEF NobodySleeps
<1>3. CASE /\ queue # << >>
           /\ queue' = Tail(queue)
           /\ Return(c, IF Head(queue) = Stop THEN "stop" ELSE "item")
           /\ popped' = popped \cup ({Head(queue)} \ {Stop})
  <2>1. /\ Len(queue) \in Nat \ {0} /\ Head(queue) = queue[1] /\ DOMAIN queue = 1 .. Len(queue)
        /\ Len(queue') = Len(queue) - 1 /\ DOMAIN queue' = 1 .. Len(queue) - 1
        /\ \A i \in DOMAIN queue' : i + 1 \in DOMAIN queue /\ queue'[i] = queue[i + 1]
    BY <1>3 DEF QueueTypes
  <2>2. Elements(queue') \subseteq Elements(queue)
    BY <2>1 DEF Elements
  <2>3. StopLast'
    BY <2>1 DEF StopLast
  <2>4. PICK s \in {"idle", "gone"} :
          Leave(c, s) /\ (s = "gone" <=> Head(queue) = Stop)
    BY <1>3 DEF Return
  <2>5. st' = [st EXCEPT ![c] = s]
    BY <2>4 DEF Leave
  <2>6. s = "gone" => closed /\ Elements(queue') = {}
    BY <2>1, <2>4 DEF StopLast, Elements
  <2>7. GoneClosed'
    BY <1>1, <2>5, <2>6 DEF GoneClosed, QueueTypes
  <2>8. StopIsLast'
    BY <1>1, <2>5, <2>6 DEF StopIsLast, QueueTypes, Elements
  <2>9. WaitTypes' /\ Distinct' /\ Asleep' /\ Newer' /\ NoSleeper'
    BY <2>2, <2>4, ConsumerLeaves
  <2> QED
    BY <2>3, <2>7, <2>8, <2>9 DEF NobodySleeps
<1> QED
  BY <1>2, <1>3 DEF TryPop

(* A wait that is over without a wake-up passes none on that is needed.    *)
LEMMA GiveUpWakes ==
  ASSUME Setting, QueueTypes, WakeInv, NEW c \in Consumers, PopClosed(c) \/ PopNone(c)
  PROVE  WakeInv'
<1> USE DEF WakeInv
<1>1. c \in Threads
  BY DEF Threads
<1>2. UNCHANGED <<queue, closed>> /\ c \notin signalled /\ st[c] = "wait"
  BY DEF PopClosed, PopNone
<1>3. PICK s \in {"idle", "gone"} : Leave(c, s) /\ (s = "gone" => closed)
  BY DEF PopClosed, PopNone, Return
<1>4. st' = [st EXCEPT ![c] = s]
  BY <1>3 DEF Leave
<1>5. WaitTypes' /\ Distinct' /\ Asleep' /\ Newer' /\ NoSleeper'
  BY <1>2, <1>3, ConsumerLeaves
<1>6. StopLast'
  BY <1>2 DEF StopLast
<1>7. GoneClosed'
  BY <1>1, <1>2, <1>3, <1>4 DEF GoneClosed, QueueTypes
<1>8. StopIsLast'
  <2>1. SUFFICES ASSUME \A d \in Consumers : st'[d] = "gone"
                 PROVE  Elements(queue) \subseteq {Stop}
    BY <1>2 DEF StopIsLast, Elements
  <2>2. \A d \in Consumers : d \notin signalled
    <3>1. \A d \in Consumers \ {c} : st[d] = "gone"
      BY <1>4, <2>1 DEF QueueTypes, Threads
    <3> QED
      BY <1>2, <3>1 DEF Asleep, Threads
  <2>3. c \in Elements(waiting)
    BY <1>1, <1>2 DEF Asleep
  <2> QED
    BY <2>2, <2>3 DEF NobodySleeps, NoSleeper, AwakeConsumer
<1> QED
  BY <1>5, <1>6, <1>7, <1>8 DEF NobodySleeps

LEMMA CloseWakes ==
  ASSUME Setting, QueueTypes, WakeInv, Close
  PROVE  WakeInv'
<1> USE DEF WakeInv
<1>1. ~closed /\ closed' /\ queue' = Append(queue, Stop) /\ st' = st
  BY DEF Close
<1>2. /\ Len(queue) \in Nat /\ Len(queue') = Len(queue) + 1 /\ DOMAIN queue = 1 .. Len(queue)
      /\ DOMAIN queue' = 1 .. Len(queue) + 1
      /\ \A i \in DOMAIN queue : queue'[i] = queue[i]
  BY <1>1 DEF QueueTypes
<1>3. Elements(queue') \subseteq Elements(queue) \cup {Stop}
  BY <1>1 DEF QueueTypes, Elements
<1>4. StopLast'
  BY <1>1, <1>2 DEF StopLast
<1>5. GoneClosed' /\ StopIsLast'
  BY <1>1, <1>3 DEF GoneClosed, StopIsLast, NobodySleeps, Elements
<1>6. CASE waiting = << >>
  <2>1. UNCHANGED <<waiting, signalled>>
    BY <1>6 DEF Close
  <2> QED
    BY <1>1, <1>4, <1>5, <1>6, <2>1 DEF WaitTypes, Distinct, Asleep, Newer, NobodySleeps, NoSleeper, Elements
<1>7. CASE waiting # << >>
  <2> DEFINE n == Len(waiting)
             u == waiting[n]
  <2>1. waiting' = SubSeq(waiting, 1, n - 1) /\ signalled' = signalled \cup {u}
    BY <1>7 DEF Close
  <2>2. n \in Nat \ {0} /\ DOMAIN waiting = 1 .. n /\ n \in DOMAIN waiting /\ u \in Threads
    BY <1>7 DEF WaitTypes
  <2>3. /\ waiting' \in Seq(Threads) /\ DOMAIN waiting' = 1 .. n - 1
        /\ \A i \in 1 .. n - 1 : i \in DOMAIN waiting /\ waiting'[i] = waiting[i]
    BY <2>1, <2>2 DEF WaitTypes
  <2> HIDE DEF n, u
  <2>4. Elements(waiting) = Elements(waiting') \cup {u}
    BY <2>2, <2>3 DEF Elements, u
  <2>5. WaitTypes' /\ Distinct'
    BY <2>1, <2>2, <2>3 DEF WaitTypes, Distinct
  <2>6. Asleep'
    <3>1. Elements(waiting') \cup signalled' = Elements(waiting) \cup signalled
      BY <2>1, <2>4
    <3>2. \A t \in Threads : st'[t] = "wait" <=> t \in Elements(waiting') \cup signalled'
      BY <1>1, <3>1 DEF Asleep
    <3> QED
      BY <3>2 DEF Asleep, Elements
  <2>7. Newer'
    <3>1. SUFFICES ASSUME NEW i \in DOMAIN waiting', NEW j \in DOMAIN waiting', i < j,
                          waiting'[i] \in Consumers, waiting'[j] \in Producers
                   PROVE  Elements(queue) \subseteq {Stop}
      BY <1>3 DEF Newer, Elements
    <3> QED
      BY <2>3, <3>1 DEF Newer
  <2>8. NoSleeper'
    <3>1. SUFFICES ASSUME NEW c \in Consumers, c \in Elements(waiting'), ~(Elements(queue') \subseteq {Stop})
                   PROVE  \E d \in Consumers : d \in signalled'
      BY DEF NoSleeper, AwakeConsumer, Elements
    <3> QED
      BY <1>3, <2>1, <2>4, <3>1 DEF NobodySleeps, NoSleeper, AwakeConsumer
  <2> QED
    BY <1>4, <1>5, <2>5, <2>6, <2>7, <2>8 DEF NobodySleeps
<1> QED
  BY <1>6, <1>7

LEMMA WakeStep ==
  ASSUME Setting, ChannelInv, WakeInv, [Next]_vars
  PROVE  WakeInv'
<1> USE DEF ChannelInv
<1>1. CASE \E p \in Producers : Add(p) \/ AddAgain(p) \/ Nap(p)
  <2>1. PICK p \in Producers : sent[p] < Load /\ TryAdd(p) /\ UNCHANGED closed
    BY <1>1 DEF Add, AddAgain, Nap, Waiters
  <2> QED
    BY <2>1, AddWakes
<1>2. ASSUME NEW p \in Producers, TimeOut(p) PROVE WakeInv'
  <2>1. Leave(p, "idle") /\ UNCHANGED <<queue, closed>>
    BY <1>2 DEF TimeOut
  <2>2. WaitTypes' /\ Distinct' /\ Asleep' /\ GoneClosed' /\ Newer' /\ NoSleeper'
    BY <2>1, ProducerLeaves
  <2>3. StopIsLast'
    BY <2>1, StopStays DEF Leave
  <2>4. StopLast'
    BY <2>1 DEF StopLast, WakeInv
  <2> QED
    BY <2>2, <2>3, <2>4 DEF WakeInv, NobodySleeps
<1>3. CASE \E c \in Consumers : Pop(c) \/ PopAgain(c)
  BY <1>3, PopWakes DEF Pop, PopAgain
<1>4. CASE \E c \in Consumers : PopClosed(c) \/ PopNone(c)
  BY <1>4, GiveUpWakes
<1>5. CASE Close
  BY <1>5, CloseWakes
<1>6. CASE UNCHANGED vars
  BY <1>6 DEF vars, WakeInv, WaitTypes, Distinct, Asleep, StopLast, GoneClosed, Newer, NobodySleeps,
              NoSleeper, StopIsLast, AwakeConsumer, Elements
<1> QED
  BY <1>1, <1>2, <1>3, <1>4, <1>5, <1>6 DEF Next

LEMMA WakeInit == ASSUME Setting, Init PROVE ChannelInv /\ WakeInv
<1>1. QueueTypes
  BY DEF Init, QueueTypes, Setting, QueueAssumption
<1>2. Counted /\ Waiters
  BY DEF Init, Counted, Waiters, Threads, Elements
<1>3. WaitTypes /\ Distinct /\ StopLast /\ Newer
  BY DEF Init, WaitTypes, Distinct, StopLast, Newer
<1>4. Asleep /\ GoneClosed
  BY DEF Init, Asleep, GoneClosed, Elements, Threads
<1>5. NobodySleeps
  BY DEF Init, NobodySleeps, NoSleeper, StopIsLast, Elements
<1> QED
  BY <1>1, <1>2, <1>3, <1>4, <1>5 DEF ChannelInv, WakeInv

(* With one producer nobody sleeps in pop() beside an item that no         *)
(* consumer was woken for, and the last consumer that is told to stop      *)
(* leaves no item behind, for any number of consumers and any limit        *)
(* (queues.py 78-83, 180-201, lock.py 73-114).                             *)
THEOREM OneProducerWakesAll ==
  ASSUME Setting PROVE Spec => []NobodySleeps
<1>1. Init => ChannelInv /\ WakeInv
  BY WakeInit
<1>2. ChannelInv /\ WakeInv /\ [Next]_vars => (ChannelInv /\ WakeInv)'
  BY QueueStep, WakeStep DEF Setting
<1>3. WakeInv => NobodySleeps
  BY DEF WakeInv
<1> QED
  BY <1>1, <1>2, <1>3, PTL DEF Spec

(* With one producer pop() returns None beside an item only if that was    *)
(* promised to another consumer (queues.py 184).                           *)
THEOREM OneProducerMeansEmpty ==
  ASSUME Setting PROVE Spec => NoneMeansEmpty
<1> DEFINE OK ==
      \A c \in Consumers :
        ReturnsNone(c) => queue = << >> \/ \E d \in Consumers \ {c} : d \in signalled
<1>1. Init => ChannelInv /\ WakeInv
  BY WakeInit
<1>2. ChannelInv /\ WakeInv /\ [Next]_vars => (ChannelInv /\ WakeInv)'
  BY QueueStep, WakeStep DEF Setting
<1>3. ASSUME ChannelInv, WakeInv, Answers, [Next]_vars PROVE [OK]_vars
  <2>1. SUFFICES ASSUME NEW c \in Consumers, ReturnsNone(c), Next, queue # << >>
                 PROVE  \E d \in Consumers \ {c} : d \in signalled
    BY <1>3
  <2>2. c \in Threads /\ c \notin Producers
    BY DEF Threads, Setting, QueueAssumption
  <2>3. CASE PopNone(c)
    <3>1. c \in Elements(waiting) /\ c \notin signalled /\ ~closed
      BY <1>3, <2>2, <2>3 DEF PopNone, WakeInv, Asleep
    <3>2. ~(Elements(queue) \subseteq {Stop})
      <4>1. 1 \in DOMAIN queue
        BY <1>3, <2>1 DEF ChannelInv, QueueTypes
      <4>2. queue[1] # Stop /\ queue[1] \in Elements(queue)
        BY <1>3, <3>1, <4>1 DEF WakeInv, StopLast, Elements
      <4> QED
        BY <4>2
    <3> QED
      BY <1>3, <3>1, <3>2 DEF WakeInv, NobodySleeps, NoSleeper, AwakeConsumer
  <2>4. CASE ~PopNone(c)
    <3>1. ASSUME NEW t \in Threads, NEW s, st' = [st EXCEPT ![t] = s] PROVE t = c /\ s = "idle"
      BY <1>3, <2>1, <2>2, <3>1 DEF ReturnsNone, ChannelInv, QueueTypes
    <3>2. ASSUME NEW p \in Producers, Add(p) \/ AddAgain(p) \/ Nap(p) \/ TimeOut(p) PROVE FALSE
      <4>1. \E s : st' = [st EXCEPT ![p] = s]
        BY <3>2 DEF Add, AddAgain, Nap, TimeOut, TryAdd, Wait, Leave
      <4> QED
        BY <2>2, <3>1, <4>1 DEF Threads
    <3>3. ASSUME NEW d \in Consumers, Pop(d) \/ PopAgain(d) \/ PopClosed(d) \/ PopNone(d)
          PROVE  d = c
      <4>1. \E s : st' = [st EXCEPT ![d] = s]
        BY <3>3 DEF Pop, PopAgain, TryPop, PopClosed, PopNone, Return, Wait, Leave
      <4> QED
        BY <3>1, <4>1 DEF Threads
    <3>4. ~Close
      BY <2>1 DEF Close, ReturnsNone
    <3>5. ~Pop(c)
      BY <2>1 DEF Pop, ReturnsNone
    <3>6. ~PopClosed(c)
      BY <2>1, <1>3 DEF PopClosed, Return, ReturnsNone, Answers
    <3>7. ~PopAgain(c)
      <4>1. SUFFICES ASSUME TryPop(c) PROVE FALSE
        BY DEF PopAgain
      <4>2. ~Wait(c)
        BY <1>3, <2>1, <2>2 DEF Wait, ReturnsNone, ChannelInv, QueueTypes
      <4>3. \E a \in {"stop", "item"} : answer' = [answer EXCEPT ![c] = a]
        BY <4>1, <4>2 DEF TryPop, Return
      <4> QED
        BY <1>3, <2>1, <4>3 DEF ReturnsNone, Answers
    <3> QED
      BY <2>1, <2>4, <3>2, <3>3, <3>4, <3>5, <3>6, <3>7 DEF Next
  <2> QED
    BY <2>3, <2>4
<1>4. Init => Answers
  BY DEF Init, Answers
<1>5. Answers /\ [Next]_vars => Answers'
  BY DEF Answers, Next, vars, Add, AddAgain, Nap, TimeOut, Pop, PopAgain, TryPop, PopClosed, PopNone,
         Return, Close
<1> QED
  BY <1>1, <1>2, <1>3, <1>4, <1>5, PTL DEF Spec, NoneMeansEmpty
==============================================================================
