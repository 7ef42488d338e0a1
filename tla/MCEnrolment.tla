---------------------------- MODULE MCEnrolment ----------------------------
(* Small instances of Enrolment for TLC. *)
EXTENDS Enrolment, TLC

Symmetry ==
    Permutations(Machine) \cup Permutations(Folder) \cup Permutations(Name) \cup Permutations(Device)
=============================================================================
