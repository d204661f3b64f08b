---------------------------- MODULE FencedWriter ----------------------------
(***************************************************************************)
(* What the election and the fence of the controller promise together: the *)
(* installation has one writer at a time.  Terms are numbered, a term      *)
(* begins by taking the next number, and every committed transaction of a  *)
(* controller belongs to the term that is the latest when it commits.      *)
(***************************************************************************)
EXTENDS Naturals

VARIABLES
    latest,     \* the number of the latest term
    wrote       \* the term of the latest committed transaction, 0 before any

Init == latest = 0 /\ wrote = 0

NewTerm == latest' = latest + 1 /\ UNCHANGED wrote

Write == latest > 0 /\ wrote' = latest /\ UNCHANGED latest

Next == NewTerm \/ Write

Spec == Init /\ [][Next]_<<latest, wrote>>
=============================================================================
