----------------------------- MODULE MCImports -----------------------------
(***************************************************************************)
(* What reads what others have stored: the file mapper, the coverage ETL,  *)
(* the client of the TUID service and the two backfills.  The programs     *)
(* share nothing.                                                          *)
(***************************************************************************)
EXTENDS Integers, Sequences, FiniteSets

CONSTANTS
  Files, Asked, Excluded, SuiteWords, Refused, MaxFinds,          (* FileMapper *)
  Sources, Firefox, CodeLines, LineLimit, BatchLimit, MaxInput, MaxArtifacts,  (* Coverage *)
  Callers, TuidFiles, MaxBadRequests, Recorded, MaxLookups,      (* TuidClient *)
  Base, Numbers, MaxDigits, Low, Limit, Window, RoundedDown,        (* Backfill *)
  ObjectIds, MaxLength, BadKeys, Retired, MaxSize, PageSize, MaxBad, MaxRuns   (* AutoBackfill *)

VARIABLES
  leaves, adding, mapping, listing, failures, found, listings, finds,
  artifact, reading, current, batch, output, input, consumed, cut, artifacts,
  enabled, bad_requests, tuid_db, lookup, faults, broken, lookups, answers,
  stored, indexed, scan, prefix, in_s3, requested,
  objects, files, annotated, documents, activity, largest, marker, badCount,
  agenda, total, capped, added, rounds

Mapper == INSTANCE FileMapper
Cover == INSTANCE Coverage
Tuid == INSTANCE TuidClient
Fill == INSTANCE Backfill
AutoFill == INSTANCE AutoBackfill

ASSUME ImportsAssumption ==
  /\ Mapper!FileMapperAssumption /\ Cover!CoverageAssumption /\ Tuid!TuidAssumption
  /\ Fill!BackfillAssumption /\ AutoFill!AutoAssumption

mapVars == <<leaves, adding, mapping, listing, failures, found, listings, finds>>
covVars == <<artifact, reading, current, batch, output, input, consumed, cut, artifacts>>
tuidVars == <<enabled, bad_requests, tuid_db, lookup, faults, broken, lookups, answers>>
fillVars == <<stored, indexed, scan, prefix, in_s3, requested>>
autoVars == <<objects, files, annotated, documents, activity, largest, marker, badCount,
              agenda, total, capped, added, rounds>>

-----------------------------------------------------------------------------
(* Properties.                                                             *)

(* Every source file is found under its own name (file_mapper.py 106-216). *)
SourceIsFound == Mapper!SourceIsFound

(* The coverage rows of an artifact are of its own lines, and the TUIDs    *)
(* they get are stored; the client of the service is off for a reason      *)
(* (coverage_util.py 28-93, vendor/tuid/client.py 66-149).                 *)
CoverageIsOfArtifact ==
  Cover!CoverageIsOfArtifact /\ Tuid!GivenIsStored /\ Tuid!SwitchedOffRightly

(* A backfill below its limit has queued what is missing (backfill.py).    *)
BackfillIsComplete == Fill!BackfillIsComplete

(* A run of the automatic backfill queues each hole once                   *)
(* (auto_backfill.py 56-132).                                              *)
HolesAreFilledOnce == AutoFill!HolesAreFilledOnce
==============================================================================
