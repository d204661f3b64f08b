------------------------------- MODULE Lease -------------------------------
(***************************************************************************)
(* The election of the controller and the fence on its transactions:       *)
(* controller/elect.go (Lead, waitForTheLock, holdTheLock, Fenced) and     *)
(* db/controller.go (BeginTerm, Fence).                                    *)
(*                                                                         *)
(* The advisory lock belongs to one database session of a process, and     *)
(* nothing the term does goes through that session, so a process may lose  *)
(* the lock without noticing until its next poll.  Transactions run on     *)
(* other connections.  A transaction reads the term row FOR SHARE first    *)
(* and keeps that row lock until it ends, which makes BeginTerm wait.      *)
(***************************************************************************)
EXTENDS Naturals

CONSTANTS
    Procs,      \* the controller processes of the installation
    Conns,      \* pooled database connections, one transaction each
    NoProc,     \* nobody: the lock is free
    MaxFaults   \* how many crashes, cut sessions and failed polls happen

ASSUME LeaseAssumption == NoProc \notin Procs /\ MaxFaults \in Nat

VARIABLES
    token,      \* controller_term.token
    lock,       \* the process whose session holds the advisory lock
    pc,         \* where each process is in Lead
    term,       \* the token each process was given by BeginTerm
    tx,         \* the token an open fenced transaction carries, 0 if none
    last,       \* the token of the latest transaction that committed
    faults      \* how many faults have happened

vars == <<token, lock, pc, term, tx, last, faults>>

Places == {"standby", "elected", "leading"}

TypeOK ==
    /\ token \in Nat
    /\ lock \in Procs \cup {NoProc}
    /\ pc \in [Procs -> Places]
    /\ term \in [Procs -> Nat]
    /\ tx \in [Conns -> Nat]
    /\ last \in Nat
    /\ faults \in 0..MaxFaults

Init ==
    /\ token = 0
    /\ lock = NoProc
    /\ pc = [p \in Procs |-> "standby"]
    /\ term = [p \in Procs |-> 0]
    /\ tx = [c \in Conns |-> 0]
    /\ last = 0
    /\ faults = 0

Fault == faults < MaxFaults /\ faults' = faults + 1

\* Mutant: a process leaves with its session, and the lock, kept in the pool.
MutLeaveLocked(p) ==
    /\ pc' = [pc EXCEPT ![p] = "standby"]
    /\ term' = [term EXCEPT ![p] = 0]
    /\ lock' = lock

(***************************************************************************)
(* Leaving Lead: the deferred unlock, sent on the session, frees the lock  *)
(* where that session still holds it.  The process ends and its supervisor *)
(* starts it again as a standby.  A transaction it had open is left to the *)
(* database, which commits it or rolls it back.                            *)
(***************************************************************************)
Leave(p) ==
    /\ pc' = [pc EXCEPT ![p] = "standby"]
    /\ term' = [term EXCEPT ![p] = 0]
    /\ lock' = IF lock = p THEN NoProc ELSE lock

\* pg_try_advisory_lock answers true.
TryLock(p) ==
    /\ pc[p] = "standby"
    /\ lock = NoProc
    /\ lock' = p
    /\ pc' = [pc EXCEPT ![p] = "elected"]
    /\ UNCHANGED <<token, term, tx, last, faults>>

\* Mutant: the term row is not locked by open transactions.
MutBeginTermNoWait(p) ==
    /\ pc[p] = "elected"
    /\ token' = token + 1
    /\ term' = [term EXCEPT ![p] = token + 1]
    /\ pc' = [pc EXCEPT ![p] = "leading"]
    /\ UNCHANGED <<lock, tx, last, faults>>

\* Mutant: the token is read and not raised.
MutBeginTermNoRaise(p) ==
    /\ pc[p] = "elected"
    /\ \A c \in Conns : tx[c] = 0
    /\ term' = [term EXCEPT ![p] = token + 1]
    /\ pc' = [pc EXCEPT ![p] = "leading"]
    /\ UNCHANGED <<token, lock, tx, last, faults>>

\* The update waits for every transaction holding the term row FOR SHARE.
BeginTerm(p) ==
    /\ pc[p] = "elected"
    /\ \A c \in Conns : tx[c] = 0
    /\ token' = token + 1
    /\ term' = [term EXCEPT ![p] = token + 1]
    /\ pc' = [pc EXCEPT ![p] = "leading"]
    /\ UNCHANGED <<lock, tx, last, faults>>

\* The session is gone: the backend was terminated or the connection dropped.
SessionLost(p) ==
    /\ Fault
    /\ lock = p
    /\ lock' = NoProc
    /\ UNCHANGED <<token, pc, term, tx, last>>

\* holdTheLock finds the lock no longer held, and ends the term.
PollFindsLost(p) ==
    /\ pc[p] = "leading"
    /\ lock # p
    /\ Leave(p)
    /\ UNCHANGED <<token, tx, last, faults>>

\* The poll got no answer in time, which ends the term although the lock is held.
PollFails(p) ==
    /\ Fault
    /\ pc[p] = "leading"
    /\ lock = p
    /\ Leave(p)
    /\ UNCHANGED <<token, tx, last>>

\* The process dies; the database ends its session, which frees the lock.
Crash(p) ==
    /\ Fault
    /\ pc[p] # "standby"
    /\ Leave(p)
    /\ UNCHANGED <<token, tx, last>>

\* Mutant: the fence is not asked.
MutFenceUnasked(p, c) ==
    /\ pc[p] = "leading"
    /\ tx[c] = 0
    /\ tx' = [tx EXCEPT ![c] = term[p]]
    /\ UNCHANGED <<token, lock, pc, term, last, faults>>

\* Fenced begins a transaction whose fence finds its own token.
Fence(p, c) ==
    /\ pc[p] = "leading"
    /\ tx[c] = 0
    /\ token = term[p]
    /\ tx' = [tx EXCEPT ![c] = term[p]]
    /\ UNCHANGED <<token, lock, pc, term, last, faults>>

\* The fence finds another token: ErrFenced ends the term and the program.
Fenced(p) ==
    /\ pc[p] = "leading"
    /\ token # term[p]
    /\ Leave(p)
    /\ UNCHANGED <<token, tx, last, faults>>

\* A COMMIT that was sent arrives, whether or not its process is still there.
Commit(c) ==
    /\ tx[c] # 0
    /\ last' = tx[c]
    /\ tx' = [tx EXCEPT ![c] = 0]
    /\ UNCHANGED <<token, lock, pc, term, faults>>

Rollback(c) ==
    /\ tx[c] # 0
    /\ tx' = [tx EXCEPT ![c] = 0]
    /\ UNCHANGED <<token, lock, pc, term, last, faults>>

Next ==
    \/ \E p \in Procs :
        \/ TryLock(p) \/ BeginTerm(p)
        \/ SessionLost(p) \/ PollFindsLost(p) \/ PollFails(p) \/ Crash(p)
        \/ Fenced(p)
        \/ \E c \in Conns : Fence(p, c)
    \/ \E c \in Conns : Commit(c) \/ Rollback(c)

(***************************************************************************)
(* A standby polls the lock and a leader polls its session for as long as  *)
(* they run, a process makes transactions for as long as it leads, and the *)
(* database ends every transaction.  BeginTerm waits on a row lock, which  *)
(* PostgreSQL queues: later share locks wait behind the waiting update, so *)
(* transactions cannot overtake it for ever, hence SF.                     *)
(***************************************************************************)
Fairness ==
    /\ \A p \in Procs :
        /\ WF_vars(PollFindsLost(p))
        /\ WF_vars(Fenced(p))
        /\ SF_vars(TryLock(p))
        /\ SF_vars(BeginTerm(p))
    /\ \A c \in Conns : WF_vars(Commit(c) \/ Rollback(c))

Spec == Init /\ [][Next]_vars /\ Fairness

----------------------------------------------------------------------------

(***************************************************************************)
(* OneTermWrites: every fenced transaction open at any moment carries the  *)
(* latest token, so no two terms ever have transactions open together.     *)
(* Fence compares the token and keeps the row FOR SHARE, and BeginTerm's   *)
(* update waits for it; without either a former holder's read or write     *)
(* would overlap its successor's.                                          *)
(***************************************************************************)
OneTermWrites == \A c \in Conns : tx[c] # 0 => tx[c] = token

(***************************************************************************)
(* Two processes may both believe they lead, but they never hold one term: *)
(* the token tells them apart.                                             *)
(***************************************************************************)
TermsDiffer ==
    \A p, q \in Procs :
        p # q /\ pc[p] = "leading" /\ pc[q] = "leading" => term[p] # term[q]

(***************************************************************************)
(* A committed transaction is never of an older term than one before it:   *)
(* "a former holder is refused rather than applied late".                  *)
(***************************************************************************)
NeverLate == [][last' >= last /\ last' <= token']_vars

(***************************************************************************)
(* Once faults stop, some process leads with the lock held and the latest  *)
(* token, for good: neither a lock lost between taking it and beginning    *)
(* the term, nor a process fenced while it holds the lock, leaves the      *)
(* installation without a controller.                                      *)
(***************************************************************************)
SomebodyLeads ==
    <>[](\E p \in Procs : pc[p] = "leading" /\ lock = p /\ term[p] = token)

\* The election and the fence implement the one-writer specification.
Abstract == INSTANCE FencedWriter WITH latest <- token, wrote <- last

OneWriter == Abstract!Spec
=============================================================================
