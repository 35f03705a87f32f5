------------------------------ MODULE MCThread ------------------------------
(* Thread instantiated for model checking. *)
EXTENDS Thread, TLC

\* The locks are interchangeable.
Symmetry == Permutations(Locks)

============================================================================
