---------------------------- MODULE BypassPolicy ----------------------------
(***************************************************************************)
(* The pure decisions of IngestionManager: which recorded checksums make a *)
(* shapefile "changed", which job statuses admit an operation, and which   *)
(* validation errors may be bypassed                                       *)
(* (src/ingestion/models/ingestionManager.ts).                             *)
(*                                                                         *)
(* A checksum is the content of one file of a shapefile; different files   *)
(* are taken to have different contents, so a checksum list is the set of  *)
(* its checksum values (checksumExists compares values only).              *)
(***************************************************************************)

CONSTANTS
    ErrorTypes,       \* keys of errorsSummary.errorsCount
    ThresholdTypes    \* keys of errorsSummary.thresholds

ASSUME PolicyAssumption == "resolution" \in ThresholdTypes /\ ThresholdTypes \subseteq ErrorTypes

(* errorsSummary of the validation task: the error types whose count is    *)
(* positive, and the threshold types that exceeded their threshold.        *)
Summary == [counted : SUBSET ErrorTypes, exceeded : SUBSET ThresholdTypes]

Blocking  == {"PENDING", "IN_PROGRESS", "FAILED", "SUSPENDED"}  \* validateNoParallelJobs
Retryable == {"FAILED", "SUSPENDED"}                            \* isJobRetryable
Unabortable == {"COMPLETED", "ABORTED"}                         \* isJobAbortable
Statuses == Blocking \cup Unabortable \cup {"EXPIRED"}

-----------------------------------------------------------------------------
(* Checksums *)

checksumExists(existing, c) == c \in existing

isChecksumChanged(existing, new) == \E c \in new : ~checksumExists(existing, c)

ReplacedChecksums(existing, new) == new  \* mutant: the earlier checksums are dropped

buildUpdatedChecksums(existing, new) ==
    existing \cup {c \in new : ~checksumExists(existing, c)}

-----------------------------------------------------------------------------
(* The loop of canBypassValidationTask: an error type that occurs is       *)
(* acceptable when the caller allows it, or when it has a threshold that   *)
(* was not exceeded.                                                       *)

AcceptableNoKey(e, s, allowed) == e \in allowed \/ e \notin s.exceeded  \* mutant: no isKeyOf

Acceptable(e, s, allowed) == e \in allowed \/ (e \in ThresholdTypes /\ e \notin s.exceeded)

Bypassable(s, allowed) ==
    /\ "resolution" \notin s.exceeded
    /\ \A e \in s.counted : Acceptable(e, s, allowed)
=============================================================================
