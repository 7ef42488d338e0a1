---------------------------- MODULE MCLocalFiles ----------------------------
(* Instances of LocalFiles for TLC.                                        *)
EXTENDS LocalFiles, TLC

RequestSymmetry == Permutations(Request) \cup Permutations(Entry) \cup Permutations(Password)
=============================================================================
