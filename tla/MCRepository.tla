---------------------------- MODULE MCRepository ----------------------------
(* Three commits in a row, sent one at a time. *)
EXTENDS Repository, TLC

CONSTANTS c1, c2, c3

MCParents == [c \in {c1, c2, c3} |-> CASE c = c1 -> {} [] c = c2 -> {c1} [] c = c3 -> {c2}]
MCSendable == {{c1}, {c2}, {c3}}
MCMost == [b \in {"push", "change", "failure"} |->
             CASE b = "push" -> 3 [] b = "change" -> 2 [] OTHER -> 1]
MCBirthplaces == {<<"a", "w">>}
MCStorage == [n \in Namespaces |-> n]
Symmetry == Permutations(Pushes)
=============================================================================
