----------------------------- MODULE MCIngestion -----------------------------
(* Small instances of IngestionManager for TLC.                            *)
EXTENDS IngestionProperties, TLC

(* The outcomes of a validation run: clean, a resolution error within or   *)
(* above its threshold, and an error type that may never be let pass.      *)
Clean == [counted |-> {}, exceeded |-> {}]
WithinThreshold == [counted |-> {"resolution"}, exceeded |-> {}]
Unbypassable == [counted |-> {"resolution", "geometryValidity"}, exceeded |-> {}]
ResolutionExceeded == [counted |-> {"resolution"}, exceeded |-> {"resolution"}]

MCSummaries == {Clean, WithinThreshold, Unbypassable, ResolutionExceeded}
FewSummaries == {Clean, WithinThreshold}
OnlyClean == {Clean}
MCErrorTypes == {"resolution", "smallHoles", "geometryValidity"}
MCThresholdTypes == {"resolution", "smallHoles"}
MCAllowedLists == {{"resolution"}}

(* Which operations each slot serves: any, one request at a time; any but  *)
(* a bypass, which OnlyClean leaves nothing to do; or two slots, of which  *)
(* one may abort or bypass what the other is working on; or two slots that *)
(* both admit jobs, of which one may abort a job.                          *)
OneAtATime == [h \in Handlers |-> {"new", "update", "retry", "bypass", "abort"}]
NoBypass == [h \in Handlers |-> {"new", "update", "retry", "abort"}]
Overlaps == [h \in Handlers |-> IF h = "A" THEN {"new", "retry", "bypass"} ELSE {"bypass", "abort"}]
Admissions == [h \in Handlers |-> IF h = "A" THEN {"new", "update"} ELSE {"new", "update", "abort"}]

JobSymmetry == Permutations(Jobs)
=============================================================================
