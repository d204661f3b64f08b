------------------------------ MODULE MCObjects ------------------------------
(* One object that every run and every push writes. *)
EXTENDS Objects

CONSTANTS d1, r1, p1, p2

OneFile == [w \in {r1, p1, p2} |-> d1]
=============================================================================
