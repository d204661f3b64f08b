----------------------------- MODULE MCSchedule -----------------------------
(* A schedule that does not catch up and is late by its jitter, and one    *)
(* that catches up.                                                        *)
EXTENDS Schedule

Every(n) == {n * k : k \in 0..(2 * Horizon)}

Sparse == [at |-> Every(2), jitter |-> 1, catchUp |-> FALSE]
Dense == [at |-> Every(1), jitter |-> 0, catchUp |-> TRUE]

\* One version keeps the other's schedule at another position, one is a library, one is refused.
MCDeclares == [a |-> <<Sparse>>, b |-> <<Dense, Sparse>>, l |-> <<>>, u |-> <<>>]
=============================================================================
