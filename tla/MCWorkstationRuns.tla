------------------------- MODULE MCWorkstationRuns -------------------------
(* Small instances of WorkstationRuns. *)
EXTENDS WorkstationRuns, TLC

RunSymmetry == Permutations(Run)

Bound(manual, slots, edits, faults) ==
    [manual |-> manual, slots |-> slots, edits |-> edits, faults |-> faults]

SafetyBudget == Bound(2, 1, 1, 1)
LiveBudget == Bound(1, 1, 0, 1)
=============================================================================
