---------------------------- MODULE MCRunOwnership ----------------------------
(* Instances of RunOwnership for TLC.  Worker ids and run ids are opaque: the *)
(* model compares them only for equality, so permuting them is sound.         *)
EXTENDS RunOwnership, TLC

(* Behaviours in which no worker lets a lease run: a counterexample that does *)
(* not depend on time is found among them.                                   *)
Prompt == \A r \in Runs : rows[r].status \in Active => rows[r].left = Lease

Symmetry == Permutations(Workers) \cup Permutations(Runs)
=============================================================================
