-------------------------- MODULE MCFlatFileBackup --------------------------
(* Small instances of FlatFileBackup for TLC. *)
EXTENDS FlatFileBackup, TLC

\* The second version of one file is dated 1970.
LastOfOne == {[path |-> "q", version |-> 2]}
=============================================================================
