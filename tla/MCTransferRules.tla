-------------------------- MODULE MCTransferRules --------------------------
(* Small instances of TransferRules. *)
EXTENDS TransferRules

\* One file that is replaced once by a file of the same size.
SameSize ==
    {[path |-> "p", size |-> 1, stamp |-> 1],
     [path |-> "p", size |-> 1, stamp |-> 2]}

\* One file that is replaced once by a file of another size.
Resized ==
    {[path |-> "p", size |-> 1, stamp |-> 1],
     [path |-> "p", size |-> 2, stamp |-> 2]}

\* One file that is replaced, beside another file.
TwoFiles == Resized \cup {[path |-> "q", size |-> 1, stamp |-> 1]}
=============================================================================
