----------------------------- MODULE MCRecords -----------------------------
(***************************************************************************)
(* What the ETL makes of blocks: the records of a transform, and those of  *)
(* Taskcluster.  The programs share nothing.                               *)
(***************************************************************************)
EXTENDS Integers, Sequences, FiniteSets

CONSTANTS
  Workers, BlockLines, MaxRecords, MaxTries, SourceIds,           (* Transforms *)
  TcTasks, TcKinds, Readers, TcLines, MaxChanges, MaxReads  (* TaskCluster *)

VARIABLES
  worker, block, source_id, mode, at, line, counter, next_id, keys, docs, store,
  old, announced, try, wrote, gap, clash,
  missing, changes, listed, seen, reader, tc_records, given_up, ended, reads, firsts

Blocks == INSTANCE Transforms WITH MaxLines <- BlockLines
(* What is left of the messages, and two lists of artifacts.               *)
LeftOfMessages == [k \in TcKinds |-> IF k = "started" THEN {"takenUntil"} ELSE {}]
ListsOfArtifacts == {<<"log">>, <<"log", "usage">>}

Cluster == INSTANCE TaskCluster WITH Left <- LeftOfMessages, Listings <- ListsOfArtifacts

ASSUME RecordsAssumption == Blocks!TransformsAssumption /\ Cluster!TcAssumption

blockVars == <<worker, block, source_id, mode, at, line, counter, next_id, keys, docs,
               store, old, announced, try, wrote, gap, clash>>
tcVars == <<missing, changes, listed, seen, reader, tc_records, given_up, ended, reads,
            firsts>>

-----------------------------------------------------------------------------
(* Properties.                                                             *)

(* A key that goes to the next stage has an object, and a block that was   *)
(* transformed is not dropped, unless a line gave nothing or a file was    *)
(* given up (etl.py 179-268).                                              *)
BlocksEndRight == Blocks!AnnouncedExists /\ Blocks!DroppedIsIncomplete

(* No two records of an attempt have one place in the destination, but for *)
(* the record of an old host (transforms/__init__.py 210-239).             *)
RecordsKeepApart == Blocks!RecordsKeepApart

(* The records of a process say of a task what was seen first, those of a  *)
(* block have one source, and no line goes unanswered                      *)
(* (pulse_block_to_task_cluster.py 50-221).                                *)
TaskRecordsAgree ==
  Cluster!FirstViewsStand /\ Cluster!OneSourceForABlock /\ Cluster!LinesAreAnswered
==============================================================================
