---------------------------- MODULE LeaseProofs ----------------------------
(***************************************************************************)
(* The election and the fence, for any number of controllers, connections  *)
(* and faults: one term writes at a time, and the whole implements         *)
(* FencedWriter.                                                           *)
(***************************************************************************)
EXTENDS Lease, TLAPS

\* What a leader's token is: one that was handed out, and to nobody else.
TermsHandedOut == \A p \in Procs : pc[p] = "leading" => term[p] > 0 /\ term[p] <= token

LastIsPast == last <= token

IInv == TypeOK /\ OneTermWrites /\ TermsHandedOut /\ TermsDiffer /\ LastIsPast

\* The initial state satisfies the inductive invariant.
LEMMA LeaseInit == Init => IInv
  BY LeaseAssumption DEF Init, IInv, TypeOK, OneTermWrites, TermsHandedOut,
     TermsDiffer, LastIsPast, Places

\* Every step of the election, of a transaction and of a fault preserves it.
LEMMA LeaseStep == IInv /\ [Next]_vars => IInv'
<1> SUFFICES ASSUME IInv, [Next]_vars PROVE IInv'
    OBVIOUS
<1> USE LeaseAssumption DEF IInv, TypeOK, OneTermWrites, TermsHandedOut,
        TermsDiffer, LastIsPast, Places
<1>1. ASSUME NEW p \in Procs, TryLock(p) PROVE IInv'
  BY <1>1 DEF TryLock
<1>2. ASSUME NEW p \in Procs, BeginTerm(p) PROVE IInv'
  <2>1. TypeOK' /\ OneTermWrites' /\ LastIsPast'
    BY <1>2 DEF BeginTerm
  <2>2. TermsHandedOut' /\ TermsDiffer'
    BY <1>2 DEF BeginTerm
  <2> QED
    BY <2>1, <2>2
<1>3. ASSUME NEW p \in Procs, SessionLost(p) PROVE IInv'
  BY <1>3 DEF SessionLost, Fault
<1>4. ASSUME NEW p \in Procs, PollFindsLost(p) PROVE IInv'
  BY <1>4 DEF PollFindsLost, Leave
<1>5. ASSUME NEW p \in Procs, PollFails(p) PROVE IInv'
  BY <1>5 DEF PollFails, Leave, Fault
<1>6. ASSUME NEW p \in Procs, Crash(p) PROVE IInv'
  BY <1>6 DEF Crash, Leave, Fault
<1>7. ASSUME NEW p \in Procs, Fenced(p) PROVE IInv'
  BY <1>7 DEF Fenced, Leave
<1>8. ASSUME NEW p \in Procs, NEW c \in Conns, Fence(p, c) PROVE IInv'
  BY <1>8 DEF Fence
<1>9. ASSUME NEW c \in Conns, Commit(c) PROVE IInv'
  BY <1>9 DEF Commit
<1>10. ASSUME NEW c \in Conns, Rollback(c) PROVE IInv'
  BY <1>10 DEF Rollback
<1>11. CASE UNCHANGED vars
  BY <1>11 DEF vars
<1> QED
  BY <1>1, <1>2, <1>3, <1>4, <1>5, <1>6, <1>7, <1>8, <1>9, <1>10, <1>11 DEF Next

\* The inductive invariant holds throughout.
LEMMA LeaseInductive == Spec => []IInv
  BY LeaseInit, LeaseStep, PTL DEF Spec

(***************************************************************************)
(* At any moment every open fenced transaction carries the latest token:   *)
(* Fence and BeginTerm exclude each other, whatever crashes.               *)
(***************************************************************************)
THEOREM OneTermWritesHolds == Spec => []OneTermWrites
<1>1. IInv => OneTermWrites
  BY DEF IInv
<1> QED
  BY <1>1, LeaseInductive, PTL

(***************************************************************************)
(* Two controllers that both believe they lead carry different tokens,     *)
(* which is what lets the fence refuse one of them.                        *)
(***************************************************************************)
THEOREM TermsDifferHolds == Spec => []TermsDiffer
<1>1. IInv => TermsDiffer
  BY DEF IInv
<1> QED
  BY <1>1, LeaseInductive, PTL

(***************************************************************************)
(* No transaction commits under an older term than one that committed      *)
(* before it.                                                              *)
(***************************************************************************)
THEOREM NeverLateHolds == Spec => NeverLate
<1>1. IInv /\ IInv' /\ [Next]_vars => [last' >= last /\ last' <= token']_vars
  <2> SUFFICES ASSUME IInv, IInv', Next PROVE last' >= last /\ last' <= token'
      OBVIOUS
  <2> USE DEF IInv, TypeOK, OneTermWrites, LastIsPast
  <2>1. ASSUME NEW c \in Conns, Commit(c) PROVE last' >= last
    BY <2>1 DEF Commit
  <2>2. CASE UNCHANGED last
    BY <2>2
  <2>3. (\E c \in Conns : Commit(c)) \/ UNCHANGED last
    BY DEF Next, TryLock, BeginTerm, SessionLost, PollFindsLost, PollFails,
           Crash, Fenced, Fence, Commit, Rollback
  <2> QED
    BY <2>1, <2>2, <2>3
<1> QED
  BY <1>1, LeaseInductive, PTL DEF Spec, NeverLate

(***************************************************************************)
(* The election and the fence implement one writer at a time: beginning a  *)
(* term maps to a new term, a commit to a write of the latest term, and    *)
(* every other step changes nothing the abstract specification sees.       *)
(***************************************************************************)
THEOREM LeaseImplementsOneWriter == Spec => OneWriter
<1>1. Init => Abstract!Init
  BY DEF Init, Abstract!Init
<1>2. IInv /\ [Next]_vars => [Abstract!Next]_<<token, last>>
  <2> SUFFICES ASSUME IInv, [Next]_vars PROVE [Abstract!Next]_<<token, last>>
      OBVIOUS
  <2> USE DEF IInv, TypeOK, OneTermWrites
  <2>1. ASSUME NEW p \in Procs, BeginTerm(p) PROVE Abstract!NewTerm
    BY <2>1 DEF BeginTerm, Abstract!NewTerm
  <2>2. ASSUME NEW c \in Conns, Commit(c) PROVE Abstract!Write
    BY <2>2 DEF Commit, Abstract!Write
  <2>3. \/ \E p \in Procs : BeginTerm(p)
        \/ \E c \in Conns : Commit(c)
        \/ UNCHANGED <<token, last>>
    BY DEF Next, vars, TryLock, SessionLost, PollFindsLost, PollFails,
           Crash, Fenced, Fence, Rollback
  <2> QED
    BY <2>1, <2>2, <2>3 DEF Abstract!Next
<1> QED
  BY <1>1, <1>2, LeaseInductive, PTL DEF Spec, OneWriter, Abstract!Spec
=============================================================================
