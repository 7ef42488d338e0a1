---------------------------- MODULE MCJobEngine ----------------------------
(* Instances of JobEngine for TLC. *)
EXTENDS JobEngine, TLC

Symmetry == Permutations(Job) \union Permutations(Key) \union
            Permutations(Agent) \union Permutations(Token) \union
            Permutations(Worker) \union Permutations(Sweeper)
=============================================================================
