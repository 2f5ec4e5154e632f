------------------------------- MODULE MoQueue -------------------------------
(***************************************************************************)
(* mo_threads.Queue, the bounded queue between threads, on top of          *)
(* mo_threads.Lock (vendor/mo_threads/queues.py and lock.py).              *)
(*                                                                         *)
(* A thread holds the lock from the start of a call to its end, or to a    *)
(* wait(); so the steps of the model are the stretches between.  The end   *)
(* of a `with` block signals the oldest waiter, whatever it waits for;     *)
(* wait() lets go of the lock without signalling anybody.                  *)
(***************************************************************************)
EXTENDS Naturals, Sequences

CONSTANTS
  Producers,    (* threads that call add()                                 *)
  Consumers,    (* threads that call pop()                                 *)
  Load,         (* how many items each producer adds                       *)
  Limit,        (* max                                                     *)
  Silent,       (* silent: a producer waits for the timeout in one piece,  *)
                (* not 5 seconds at a time                                 *)
  HasTill,      (* pop() is called with a `till`                           *)
  Stop          (* THREAD_STOP                                             *)

Threads == Producers \cup Consumers
Items == Producers \X (1 .. Load)

QueueAssumption ==
  /\ Producers \cap Consumers = {}
  /\ Load \in Nat
  /\ Limit \in Nat \ {0}
  /\ Silent \in BOOLEAN
  /\ HasTill \in BOOLEAN
  /\ Stop \notin Items

VARIABLES
  queue,        (* the deque                                               *)
  closed,       (* the signal of that name                                 *)
  waiting,      (* Lock.waiting: the newest first                          *)
  signalled,    (* threads in wait() whose waiter was told to go           *)
  st,           (* where each thread is                                    *)
  sent,         (* how many items each producer has tried to add           *)
  answer,       (* what the last pop() of a consumer returned              *)
  popped        (* history: the items that were returned                   *)

vars == <<queue, closed, waiting, signalled, st, sent, answer, popped>>

Elements(s) == {s[i] : i \in DOMAIN s}

TypeOK ==
  /\ queue \in Seq(Items \cup {Stop})
  /\ closed \in BOOLEAN
  /\ waiting \in Seq(Threads)
  /\ signalled \subseteq Threads
  /\ st \in [Threads -> {"idle", "wait", "gone"}]
  /\ sent \in [Producers -> 0 .. Load]
  /\ answer \in [Consumers -> {"item", "none", "stop"}]
  /\ popped \subseteq Items

-----------------------------------------------------------------------------
(* Lock.                                                                   *)

Place(t) == CHOOSE i \in DOMAIN waiting : waiting[i] = t
Others(t) ==
  IF t \in Elements(waiting)
  THEN SubSeq(waiting, 1, Place(t) - 1) \o SubSeq(waiting, Place(t) + 1, Len(waiting))
  ELSE waiting

(* __exit__, seen by thread t: one waiter less.                            *)
Exit(t) ==
  LET w == Others(t)
  IN  IF w = << >>
      THEN waiting' = w /\ signalled' = signalled \ {t}
      ELSE /\ waiting' = SubSeq(w, 1, Len(w) - 1)
           /\ signalled' = (signalled \ {t}) \cup {w[Len(w)]}

(* wait(): a new waiter.                                                   *)
Wait(t) ==
  /\ waiting' = <<t>> \o Others(t)
  /\ signalled' = signalled \ {t}
  /\ st' = [st EXCEPT ![t] = "wait"]

Leave(t, p) == Exit(t) /\ st' = [st EXCEPT ![t] = p]

-----------------------------------------------------------------------------
(* add().                                                                  *)

Item(p) == <<p, sent[p] + 1>>
Full == ~closed /\ Len(queue) >= Limit

(* Mutants: add() leaves the lock without a signal; it counts twice.       *)
TryAddWithoutSignal(p) ==
  \/ Full /\ Wait(p) /\ UNCHANGED <<queue, sent>>
  \/ /\ ~Full
     /\ queue' = IF closed THEN queue ELSE Append(queue, Item(p))
     /\ sent' = [sent EXCEPT ![p] = @ + 1]
     /\ st' = [st EXCEPT ![p] = "idle"]
     /\ waiting' = Others(p)
     /\ signalled' = signalled \ {p}

TryAddTwice(p) ==
  /\ queue' = queue \o <<Item(p), Item(p)>>
  /\ sent' = [sent EXCEPT ![p] = @ + 2]
  /\ Leave(p, "idle")

(* _wait_for_queue_space() and what comes after it.                        *)
TryAdd(p) ==
  \/ Full /\ Wait(p) /\ UNCHANGED <<queue, sent>>
  \/ /\ ~Full
     /\ queue' = IF closed THEN queue ELSE Append(queue, Item(p))
     /\ sent' = [sent EXCEPT ![p] = @ + 1]
     /\ Leave(p, "idle")

Add(p) ==
  /\ st[p] = "idle"
  /\ sent[p] < Load
  /\ TryAdd(p)
  /\ UNCHANGED <<closed, answer, popped>>

(* Back from wait().                                                       *)
AddAgain(p) ==
  /\ st[p] = "wait"
  /\ p \in signalled
  /\ TryAdd(p)
  /\ UNCHANGED <<closed, answer, popped>>

(* 5 seconds are over.                                                     *)
Nap(p) ==
  /\ ~Silent
  /\ st[p] = "wait"
  /\ p \notin signalled
  /\ TryAdd(p)
  /\ UNCHANGED <<closed, answer, popped>>

(* THREAD_TIMEOUT is raised.                                               *)
TimeOut(p) ==
  /\ st[p] = "wait"
  /\ Full
  /\ sent' = [sent EXCEPT ![p] = @ + 1]
  /\ Leave(p, "idle")
  /\ UNCHANGED <<queue, closed, answer, popped>>

(* Mutant: the stop overtakes the items.                                   *)
CloseInFront ==
  /\ ~closed
  /\ closed' = TRUE
  /\ queue' = <<Stop>> \o queue
  /\ UNCHANGED <<waiting, signalled, st, sent, answer, popped>>

(* add(THREAD_STOP), from any thread at any time.                          *)
Close ==
  /\ ~closed
  /\ closed' = TRUE
  /\ queue' = Append(queue, Stop)
  /\ IF waiting = << >>
     THEN UNCHANGED <<waiting, signalled>>
     ELSE /\ waiting' = SubSeq(waiting, 1, Len(waiting) - 1)
          /\ signalled' = signalled \cup {waiting[Len(waiting)]}
  /\ UNCHANGED <<st, sent, answer, popped>>

-----------------------------------------------------------------------------
(* pop().                                                                  *)

Return(c, a) ==
  /\ answer' = [answer EXCEPT ![c] = a]
  /\ Leave(c, IF a = "stop" THEN "gone" ELSE "idle")

TryPop(c) ==
  \/ queue = << >> /\ Wait(c) /\ UNCHANGED <<queue, answer, popped>>
  \/ /\ queue # << >>
     /\ queue' = Tail(queue)
     /\ Return(c, IF Head(queue) = Stop THEN "stop" ELSE "item")
     /\ popped' = popped \cup ({Head(queue)} \ {Stop})

Pop(c) ==
  /\ st[c] = "idle"
  /\ TryPop(c)
  /\ UNCHANGED <<closed, sent>>

(* wait() returned True.                                                   *)
PopAgain(c) ==
  /\ st[c] = "wait"
  /\ c \in signalled
  /\ TryPop(c)
  /\ UNCHANGED <<closed, sent>>

(* It returned False: the queue is not looked at again.                    *)
PopClosed(c) ==
  /\ st[c] = "wait"
  /\ c \notin signalled
  /\ closed
  /\ Return(c, "stop")
  /\ UNCHANGED <<queue, closed, sent, popped>>

(* Mutant: `till` goes before the waiter.                                  *)
PopNoneAnyway(c) ==
  /\ HasTill
  /\ st[c] = "wait"
  /\ ~closed
  /\ Return(c, "none")
  /\ UNCHANGED <<queue, closed, sent, popped>>

PopNone(c) ==
  /\ HasTill
  /\ st[c] = "wait"
  /\ c \notin signalled
  /\ ~closed
  /\ Return(c, "none")
  /\ UNCHANGED <<queue, closed, sent, popped>>

-----------------------------------------------------------------------------
Init ==
  /\ queue = << >>
  /\ closed = FALSE
  /\ waiting = << >>
  /\ signalled = {}
  /\ st = [t \in Threads |-> "idle"]
  /\ sent = [p \in Producers |-> 0]
  /\ answer = [c \in Consumers |-> "item"]
  /\ popped = {}

Next ==
  \/ \E p \in Producers : Add(p) \/ AddAgain(p) \/ Nap(p) \/ TimeOut(p)
  \/ \E c \in Consumers : Pop(c) \/ PopAgain(c) \/ PopClosed(c) \/ PopNone(c)
  \/ Close

Spec == Init /\ [][Next]_vars

(* A thread that is not kept waiting goes on.  No timeout has to pass.     *)
Fairness ==
  /\ \A p \in Producers : WF_vars(AddAgain(p))
  /\ \A c \in Consumers : WF_vars(Pop(c)) /\ WF_vars(PopAgain(c)) /\ WF_vars(PopClosed(c))
FairSpec == Spec /\ Fairness

-----------------------------------------------------------------------------
(* The channel that this queue implements.                                 *)

(* Pairs of items of one producer, in the order in which it adds them.     *)
InOrder ==
  {pair \in Items \X Items : pair[1][1] = pair[2][1] /\ pair[1][2] < pair[2][2]}

Promise ==
  INSTANCE Channel WITH Earlier <- InOrder, Room <- Limit, StopSign <- Stop,
                        contents <- queue, shut <- closed, taken <- popped

(* The steps between two waits are those of a bounded FIFO channel: what   *)
(* each producer adds comes out once and in order, never more than the     *)
(* limit is in the queue, and nothing gets behind the stop                 *)
(* (queues.py 49-201).                                                     *)
QueueIsChannel == Promise!Spec

(* Properties.                                                             *)

AwakeConsumer == \E c \in Consumers : c \in signalled

(* Nobody sleeps in pop() beside an item that no consumer was woken for.   *)
(* (The stop itself wakes all of them, by `closed`.)                       *)
NoSleeper ==
  (\E c \in Consumers : c \in Elements(waiting)) /\ ~(Elements(queue) \subseteq {Stop}) =>
    AwakeConsumer

ReturnsNone(c) == st[c] = "wait" /\ st'[c] = "idle" /\ answer'[c] = "none"

(* queues.py:184: pop() returns None if the queue is still empty; or what  *)
(* is in it was promised to another consumer.                              *)
NoneMeansEmpty ==
  [][\A c \in Consumers :
       ReturnsNone(c) => queue = << >> \/ \E d \in Consumers \ {c} : d \in signalled]_vars

(* The last consumer to be told to stop leaves no item behind.             *)
StopIsLast ==
  (\A c \in Consumers : st[c] = "gone") => Elements(queue) \subseteq {Stop}

NobodySleeps == NoSleeper /\ StopIsLast

(* Without any timeout, what is in the queue is popped.                    *)
EveryItemPopped ==
  \A i \in Items : i \in Elements(queue) ~> i \in popped
=============================================================================
