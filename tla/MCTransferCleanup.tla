------------------------- MODULE MCTransferCleanup -------------------------
(* Small instances of TransferCleanup for TLC. *)
EXTENDS TransferCleanup, TLC

\* A file, its next generation, and a file whose time stamp has digits below
\* the millisecond.
ThreeObjects == {[path |-> "p", gen |-> 1], [path |-> "p", gen |-> 2],
                 [path |-> "q", gen |-> 1]}
FineStamped  == {[path |-> "q", gen |-> 1]}
=============================================================================
