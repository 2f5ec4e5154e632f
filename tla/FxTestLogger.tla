---------------------------- MODULE FxTestLogger ----------------------------
(***************************************************************************)
(* The copying of test logs from a public bucket to the ETL's own          *)
(* (activedata_etl/fx_test_logger.py, loop): the bucket is compared with a *)
(* local database, and every file that is new or has changed is copied to  *)
(* the key that the database has for it.  The process ends when it is done *)
(* or fails anywhere, and is run again; one runs at a time.                *)
(***************************************************************************)
EXTENDS Naturals, FiniteSets, FiniteSetsExt

CONSTANTS
  LogFiles,     (* the files of the public bucket                          *)
  MaxVersion,   (* bound on the times a file is uploaded                   *)
  MaxKills,     (* bound on the failures of the process                    *)
  Nobody        (* no file                                                 *)

VARIABLES
  version,      (* the public bucket: 0 is no file                         *)
  rows,         (* content: the file's version that was seen, and its key  *)
  logger,       (* "off", "scan", "copy", "notify", "mark"                 *)
  scanned,      (* the files of the bucket that were compared              *)
  dirty,        (* files that were known and have changed                  *)
  data,         (* the files to copy                                       *)
  file,         (* the file that is being copied                           *)
  next_key,     (* maxi: the next key, 0 before it was asked for           *)
  copies,       (* destination: [key, file, version]                       *)
  told,         (* keys on the notify queue                                *)
  killed        (* history: the failures                                   *)

loggerVars == <<version, rows, logger, scanned, dirty, data, file, next_key, copies, told, killed>>

bucket == <<version, copies, told>>

(* Keys are numbered from 1 (from 0 in the code, and anew every day).      *)
NoKey == 0

Known(f) == rows[f].seen > 0

Init ==
  /\ version = [f \in LogFiles |-> 0]
  /\ rows = [f \in LogFiles |-> [seen |-> 0, key |-> NoKey]]
  /\ logger = "off"
  /\ scanned = {} /\ dirty = {} /\ data = {} /\ file = Nobody /\ next_key = 0
  /\ copies = {} /\ told = {} /\ killed = 0

Upload(f) ==
  /\ version[f] < MaxVersion
  /\ version' = [version EXCEPT ![f] = @ + 1]
  /\ UNCHANGED <<rows, logger, scanned, dirty, data, file, next_key, copies, told, killed>>

Start ==
  /\ logger = "off" /\ logger' = "scan"
  /\ scanned' = {} /\ dirty' = {} /\ data' = {} /\ file' = Nobody /\ next_key' = 0
  /\ UNCHANGED <<bucket, rows, killed>>

(* The timestamp of a known file is updated at once; that it is dirty is   *)
(* only in a local list.                                                   *)
Scan(f) ==
  /\ logger = "scan" /\ version[f] > 0 /\ f \notin scanned
  /\ scanned' = scanned \cup {f}
  /\ dirty' = IF Known(f) /\ rows[f].seen # version[f] THEN dirty \cup {f} ELSE dirty
  /\ rows' = [rows EXCEPT ![f].seen = version[f]]
  /\ UNCHANGED <<bucket, logger, data, file, next_key, killed>>

(* Mutant: files that changed are not copied again.                        *)
SelectNew == {f \in LogFiles : Known(f) /\ rows[f].key = NoKey}

Select == {f \in LogFiles : Known(f) /\ (rows[f].key = NoKey \/ f \in dirty)}

(* The bucket is listed: files that come later are left to the next run.   *)
Selected ==
  /\ logger = "scan"
  /\ logger' = "copy"
  /\ data' = Select
  /\ UNCHANGED <<bucket, rows, scanned, dirty, file, next_key, killed>>

(* Mutant: the highest key that is taken is given again.                   *)
NextKeyTaken ==
  IF next_key > 0 THEN next_key ELSE Max({rows[f].key : f \in LogFiles} \cup {1})

NextKey ==
  IF next_key > 0 THEN next_key ELSE 1 + Max({rows[f].key : f \in LogFiles})

Key(f) == IF rows[f].key = NoKey THEN NextKey ELSE rows[f].key

(* The file is copied as it is now, which may be newer than what was seen. *)
Copy(f) ==
  /\ logger = "copy" /\ f \in data
  /\ logger' = "notify" /\ file' = f /\ data' = data \ {f}
  /\ copies' = {c \in copies : c.key # Key(f)} \cup
                 {[key |-> Key(f), file |-> f, version |-> version[f]]}
  /\ UNCHANGED <<version, told, rows, scanned, dirty, next_key, killed>>

Notify ==
  /\ logger = "notify" /\ logger' = "mark"
  /\ told' = told \cup {Key(file)}
  /\ UNCHANGED <<version, copies, rows, scanned, dirty, data, file, next_key, killed>>

Mark ==
  /\ logger = "mark" /\ logger' = "copy"
  /\ rows' = [rows EXCEPT ![file].key = Key(file)]
  /\ next_key' = IF rows[file].key = NoKey THEN NextKey + 1 ELSE next_key
  /\ file' = Nobody
  /\ UNCHANGED <<bucket, scanned, dirty, data, killed>>

Finish ==
  /\ logger = "copy" /\ data = {}
  /\ logger' = "off"
  /\ UNCHANGED <<bucket, rows, scanned, dirty, data, file, next_key, killed>>

(* The process fails, or is killed.                                        *)
Kill ==
  /\ logger # "off" /\ killed < MaxKills
  /\ logger' = "off" /\ killed' = killed + 1
  /\ UNCHANGED <<bucket, rows, scanned, dirty, data, file, next_key>>

Run == Start \/ Selected \/ Notify \/ Mark \/ Finish \/ \E f \in LogFiles : Scan(f) \/ Copy(f)

Next == Run \/ Kill \/ \E f \in LogFiles : Upload(f)

Spec == Init /\ [][Next]_loggerVars

-----------------------------------------------------------------------------
(* Properties.                                                             *)

LoggerTypeOK ==
  /\ logger \in {"off", "scan", "copy", "notify", "mark"}
  /\ \A f \in LogFiles : rows[f].seen \in 0 .. version[f] /\ rows[f].key \in 0 .. Cardinality(LogFiles)
  /\ dirty \cup data \subseteq scanned \cup {f \in LogFiles : Known(f)}
  /\ file \in LogFiles \cup {Nobody}
  /\ told \subseteq {c.key : c \in copies}

(* The key that the database has for a file holds that file and no other,  *)
(* although a key is used before the database has it, and so may be used   *)
(* again after a failure.                                                  *)
KeyHoldsItsFile ==
  \A f \in LogFiles : rows[f].key # NoKey =>
    \E c \in copies : c.key = rows[f].key /\ c.file = f

(* Between runs that did not fail, a file that was copied and has not      *)
(* changed since it was seen is copied in its newest version.  (A run that *)
(* fails forgets which files are dirty, and their copies stay old.)        *)
CopyIsFresh ==
  logger = "off" /\ killed = 0 =>
    \A f \in LogFiles : Known(f) /\ rows[f].seen = version[f] =>
      \E c \in copies : c.file = f /\ c.version = version[f]
==============================================================================
