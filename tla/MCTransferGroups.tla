------------------------- MODULE MCTransferGroups -------------------------
(* Small instances of TransferGroups for TLC. *)
EXTENDS TransferGroups, TLC

\* Two files, the first of which may be replaced.
OneReplaced == {[path |-> "p", gen |-> 1], [path |-> "p", gen |-> 2],
                [path |-> "q", gen |-> 1]}
=============================================================================
