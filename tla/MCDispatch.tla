----------------------------- MODULE MCDispatch -----------------------------
(* TLC's instances of Dispatch. *)
EXTENDS Dispatch, TLC

Symmetry == Permutations(Threads) \cup Permutations(Runners)
=============================================================================
