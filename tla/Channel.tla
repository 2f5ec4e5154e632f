------------------------------- MODULE Channel -------------------------------
(***************************************************************************)
(* What mo_threads.Queue promises: a bounded FIFO channel that can be shut *)
(* (vendor/mo_threads/queues.py).  Nothing is said of locks, waiters and   *)
(* timeouts: MoQueue has them, and implements this.                        *)
(***************************************************************************)
EXTENDS Naturals, Sequences

CONSTANTS
  Items,        (* what can be put in                                      *)
  Earlier,      (* pairs of items: the first is put in before the second   *)
  Room,         (* how much fits                                           *)
  StopSign      (* THREAD_STOP                                             *)

VARIABLES
  contents,     (* what is in the channel                                  *)
  shut,         (* nothing can be put in any more                          *)
  taken         (* the items that came out                                 *)

channelVars == <<contents, shut, taken>>

InChannel == {contents[i] : i \in DOMAIN contents}

Init == contents = << >> /\ shut = FALSE /\ taken = {}

(* An item goes in at the end, once, if there is room for it, and none of  *)
(* those that have to come later went in before.                           *)
Put(i) ==
  /\ ~shut /\ Len(contents) < Room
  /\ i \notin taken \cup InChannel
  /\ \A j \in taken \cup InChannel : <<i, j>> \notin Earlier
  /\ contents' = Append(contents, i)
  /\ UNCHANGED <<shut, taken>>

(* The stop sign goes in last, room or not.                                *)
Shut ==
  /\ ~shut /\ shut' = TRUE
  /\ contents' = Append(contents, StopSign)
  /\ UNCHANGED taken

(* What went in first comes out.                                           *)
Take ==
  /\ contents # << >>
  /\ contents' = Tail(contents)
  /\ taken' = taken \cup ({Head(contents)} \ {StopSign})
  /\ UNCHANGED shut

Next == Shut \/ Take \/ \E i \in Items : Put(i)

Spec == Init /\ [][Next]_channelVars
==============================================================================
