--------------------------- MODULE MCViewerStream ---------------------------
(* Model values for ViewerStream.  Geometries and rates are told apart and   *)
(* nothing else, so they may be permuted.  The liveness run takes one of the *)
(* disturbances at a time.                                                    *)
EXTENDS ViewerStream, TLC

CONSTANTS small, large, low, high

Alike == Permutations(Geometry) \cup Permutations(Rate)

Allow(c, f, l) == [changes |-> c, faults |-> f, losses |-> l]
SafetyBudgets == {Allow(1, 1, 0), Allow(0, 2, 0), Allow(0, 0, 1)}
LivenessBudgets == {Allow(1, 0, 0), Allow(0, 1, 0), Allow(0, 0, 1)}
=============================================================================
