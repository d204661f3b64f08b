----------------------------- MODULE HostProofs -----------------------------
(***************************************************************************)
(* What the hosts and the rows say of one another.                         *)
(*                                                                         *)
(* First, what a host recorded of a key it ended stands.  The invariant it *)
(* needs, HostInv, is that a key held, bound or running has no ending      *)
(* recorded, since those are the keys a step lets go of, starts or writes  *)
(* the ending of.                                                          *)
(*                                                                         *)
(* Then, the rows follow the run's document, only move forwards, and read  *)
(* as work done only what their own host did.  The invariant, RowInv, says *)
(* what the rows and the document agree on, what a host's record and every *)
(* message may claim, which row a host's work is bound by, and what a pass *)
(* may hold, between the transaction it read in and the one it writes in,  *)
(* while the document has not moved.                                       *)
(***************************************************************************)
EXTENDS DispatchProofs, FiniteSetTheorems

\* The work that a host may let go of, start or end.
Held == {"held", "bound", "running"}

\* A key this host is busy with has not ended here.
HeldNotEnded ==
    \A r \in Runners, k \in Keys :
        work[r][k].at \in Held => disk[r][k].state \notin Endings

HostInv == TypeInv /\ HeldNotEnded

\* The action EndedKeyNotRerun says every step is.
EndedKept ==
    \A r \in Runners, k \in Keys :
        disk[r][k].state \in Endings =>
            /\ disk'[r][k] = disk[r][k]
            /\ ~box[r][k] => ~box'[r][k]

\* A step on one key of one host, of a key whose ending is not recorded.
LEMMA OneKey ==
    ASSUME HostInv, TypeInv', NEW r \in Runners, NEW k \in Keys,
           \A s \in Runners, j \in Keys : s # r \/ j # k =>
              work'[s][j] = work[s][j] /\ disk'[s][j] = disk[s][j] /\ box'[s][j] = box[s][j],
           disk[r][k].state \notin Endings,
           work'[r][k].at \in Held => disk'[r][k].state \notin Endings
    PROVE  HostInv' /\ EndedKept
<1>1. HeldNotEnded'
  BY DEF HostInv, HeldNotEnded
<1>2. EndedKept
  BY DEF EndedKept
<1> QED
  BY <1>1, <1>2 DEF HostInv

\* A step that only lets go of keys in memory.
LEMMA NoKey ==
    ASSUME HostInv, TypeInv', disk' = disk, box' = box,
           \A s \in Runners, j \in Keys : work'[s][j].at \in Held => work[s][j].at \in Held
    PROVE  HostInv' /\ EndedKept
  BY DEF HostInv, HeldNotEnded, EndedKept

\* The steps of a host on one key.
LEMMA HostOne ==
    ASSUME HostInv, TypeInv', NEW r \in Runners, NEW k \in Keys, HostStep(r, k) \/ HostFault(r, k)
    PROVE  HostInv' /\ EndedKept
<1> USE DEF run, clocks, bus, hosts
<1>0. /\ work \in [Runners -> [Keys -> Work]] /\ disk \in [Runners -> [Keys -> Entry]]
      /\ box \in [Runners -> [Keys -> BOOLEAN]] /\ work[r][k] \in Work
      /\ work[r][k].at \in Held => disk[r][k].state \notin Endings
  BY DEF HostInv, TypeInv, TypeOK, HeldNotEnded
<1>1. CASE RedeemUnheard(r, k)
  BY <1>1, NoKey DEF RedeemUnheard
<1>2. CASE RedeemRefused(r, k) \/ RedeemReport(r, k) \/ CarryFails(r, k)
  <2>1. /\ work[r][k].at \in {"held", "bound"}
        /\ work' = [work EXCEPT ![r][k] = NoWork] /\ disk' = [disk EXCEPT ![r][k] = NoEntry]
        /\ box' = box
    BY <1>2 DEF RedeemRefused, RedeemReport, CarryFails, Holding, Release
  <2>2. /\ \A s \in Runners, j \in Keys : s # r \/ j # k =>
              work'[s][j] = work[s][j] /\ disk'[s][j] = disk[s][j] /\ box'[s][j] = box[s][j]
        /\ work'[r][k] = NoWork
    BY <1>0, <2>1
  <2>3. disk[r][k].state \notin Endings /\ NoWork.at \notin Held
    BY <1>0, <2>1 DEF Held, NoWork
  <2> QED
    BY <2>2, <2>3, OneKey
<1>3. CASE Redeem(r, k)
  <2>1. /\ work[r][k].at = "held" /\ work' = [work EXCEPT ![r][k].at = "bound"]
        /\ disk' = disk /\ box' = box
    BY <1>3 DEF Redeem, Holding
  <2>2. /\ \A s \in Runners, j \in Keys : s # r \/ j # k =>
              work'[s][j] = work[s][j] /\ disk'[s][j] = disk[s][j] /\ box'[s][j] = box[s][j]
    BY <1>0, <2>1
  <2>3. disk[r][k].state \notin Endings
    BY <1>0, <2>1 DEF Held
  <2> QED
    BY <2>1, <2>2, <2>3, OneKey
<1>4. CASE Start(r, k)
  <2>1. /\ work[r][k].at = "bound" /\ work' = [work EXCEPT ![r][k].at = "running"]
        /\ disk' = disk /\ box' = [box EXCEPT ![r][k] = TRUE]
    BY <1>4 DEF Start
  <2>2. /\ \A s \in Runners, j \in Keys : s # r \/ j # k =>
              work'[s][j] = work[s][j] /\ disk'[s][j] = disk[s][j] /\ box'[s][j] = box[s][j]
    BY <1>0, <2>1
  <2>3. disk[r][k].state \notin Endings
    BY <1>0, <2>1 DEF Held
  <2> QED
    BY <2>1, <2>2, <2>3, OneKey
<1>5. ASSUME work[r][k].at \in Held, work' = [work EXCEPT ![r][k].at = "ended"],
             NEW e, disk' = [disk EXCEPT ![r][k] = e],
             box' \in {box, [box EXCEPT ![r][k] = FALSE]}
      PROVE  HostInv' /\ EndedKept
  <2>1. PICK w \in Work : w = work[r][k]
    BY <1>0
  <2>2. PICK v : v = [w EXCEPT !.at = "ended"]
    OBVIOUS
  <2>3. v.at = "ended"
    BY <2>2 DEF Work
  <2>4. work' = [work EXCEPT ![r][k] = v]
    BY <1>0, <1>5, <2>1, <2>2
  <2>5. /\ \A s \in Runners, j \in Keys : s # r \/ j # k =>
              work'[s][j] = work[s][j] /\ disk'[s][j] = disk[s][j] /\ box'[s][j] = box[s][j]
        /\ work'[r][k] = v
    BY <1>0, <1>5, <2>4
  <2>6. disk[r][k].state \notin Endings /\ v.at \notin Held
    BY <1>0, <1>5, <2>3 DEF Held
  <2> QED
    BY <2>5, <2>6, OneKey
<1>6. CASE StartCalledOff(r, k)
  BY <1>5, <1>6 DEF StartCalledOff, Held
<1>7. ASSUME NEW st, NEW c, RecordEnding(r, k, st, c) PROVE HostInv' /\ EndedKept
  BY <1>5, <1>7 DEF RecordEnding, Held
<1>8. CASE (\E st \in Outcomes \cup {"cancelled"} : ContainerEnds(r, k, st)) \/ ExitUnread(r, k)
  BY <1>7, <1>8 DEF ContainerEnds, ExitUnread
<1>9. CASE KeepResult(r, k)
  <2>1. work' = [work EXCEPT ![r][k] = NoWork] /\ disk' = disk /\ box' = box
    BY <1>9 DEF KeepResult
  <2>2. /\ \A s \in Runners, j \in Keys : s # r \/ j # k => work'[s][j] = work[s][j]
        /\ work'[r][k] = NoWork
    BY <1>0, <2>1
  <2>3. NoWork.at \notin Held
    BY DEF NoWork, Held
  <2> QED
    BY <2>1, <2>2, <2>3, NoKey
<1> QED
  BY <1>1, <1>2, <1>3, <1>4, <1>6, <1>8, <1>9 DEF HostStep, HostFault

\* Every step keeps the invariant, and every recorded ending.
LEMMA HostStepInv == HostInv /\ [Next]_vars => HostInv' /\ EndedKept
<1> SUFFICES ASSUME HostInv, [Next]_vars PROVE HostInv' /\ EndedKept
  OBVIOUS
<1> USE DEF run, clocks, bus, hosts
<1>0. TypeInv'
  BY TypeStep DEF HostInv
<1>a. ASSUME UNCHANGED <<work, disk, box>> PROVE HostInv' /\ EndedKept
  BY <1>0, <1>a, NoKey
<1>1. CASE UNCHANGED vars
  BY <1>1, <1>a DEF vars
<1>2. CASE NewTerm \/ RequestCancel \/ BackoffElapses \/ DeadlinePasses \/ RestAnswers
  BY <1>2, <1>a DEF NewTerm, RequestCancel, BackoffElapses, DeadlinePasses, RestAnswers
<1>3. ASSUME NEW t \in Threads, PassStep(t) \/ PassFault(t) PROVE HostInv' /\ EndedKept
  BY <1>3, <1>a DEF PassStep, PassFault, FencedOut, StaleOut, DecideRead, CancelRead, Save, Grant,
     Publish, RecordDispatch, Rewake, AnswerSave, AnswerOutbound, Abort, PublishFails
<1>4. ASSUME NEW m \in results, AnswerStep(m) PROVE HostInv' /\ EndedKept
  BY <1>4, <1>a DEF AnswerStep, AnswerRefused, AnswerReport, AnswerRead
<1>5. ASSUME NEW x \in Dispatches, SweepLost(x) \/ \E to \in Progresses : Progress(x, to)
      PROVE  HostInv' /\ EndedKept
  BY <1>5, <1>a DEF SweepLost, Progress
<1>6. ASSUME NEW x \in Dispatches, NEW r \in Runners, TakeEnded(r, x) PROVE HostInv' /\ EndedKept
  BY <1>6, <1>a DEF TakeEnded
<1>7. ASSUME NEW x \in Dispatches, NEW r \in Runners, Take(r, x) PROVE HostInv' /\ EndedKept
  <2>1. PICK k \in Keys : k = x[1]
    BY DEF Dispatches
  <2>2. /\ work' = [work EXCEPT ![r][k] = [at |-> "held", turn |-> x[2]]]
        /\ disk' = [disk EXCEPT ![r][k] = [state |-> "taken", coded |-> FALSE]]
        /\ box' = box /\ disk[r][k].state \notin Endings
    BY <1>7, <2>1 DEF Take
  <2>3. /\ \A s \in Runners, j \in Keys : s # r \/ j # k =>
              work'[s][j] = work[s][j] /\ disk'[s][j] = disk[s][j] /\ box'[s][j] = box[s][j]
        /\ disk'[r][k].state = "taken"
    BY <2>2 DEF HostInv, TypeInv, TypeOK
  <2>4. "taken" \notin Endings
    BY DEF Endings
  <2> QED
    BY <1>0, <2>2, <2>3, <2>4, OneKey
<1>8. ASSUME NEW r \in Runners, NEW k \in Keys, HostStep(r, k) \/ HostFault(r, k)
      PROVE  HostInv' /\ EndedKept
  BY <1>0, <1>8, HostOne
<1>9. ASSUME NEW r \in Runners, NEW m \in kept[r], Flush(r, m) PROVE HostInv' /\ EndedKept
  BY <1>9, <1>a DEF Flush
<1>10. ASSUME NEW r \in Runners, Restart(r) \/ Cut(r) \/ Heal(r) PROVE HostInv' /\ EndedKept
  BY <1>10, <1>a DEF Restart, Cut, Heal
<1>11. ASSUME NEW r \in Runners, Crash(r) PROVE HostInv' /\ EndedKept
  <2>1. disk' = disk /\ box' = box /\ work' = [work EXCEPT ![r] = [k \in Keys |-> NoWork]]
    BY <1>11 DEF Crash
  <2>2. ASSUME NEW s \in Runners, NEW j \in Keys, work'[s][j].at \in Held PROVE work[s][j].at \in Held
    BY <2>1, <2>2 DEF HostInv, TypeInv, TypeOK, NoWork, Held
  <2> QED
    BY <1>0, <2>1, <2>2, NoKey
<1> QED
  BY <1>1, <1>2, <1>3, <1>4, <1>5, <1>6, <1>7, <1>8, <1>9, <1>10, <1>11 DEF Next, TakeStep

\* No host holds anything at first.
LEMMA HostInit == Init => HostInv
<1> SUFFICES ASSUME Init PROVE HostInv
  OBVIOUS
<1>1. TypeInv
  BY TypeInit
<1>2. HeldNotEnded
  BY DEF Init, HeldNotEnded, NoWork, Held
<1> QED
  BY <1>1, <1>2 DEF HostInv

(***************************************************************************)
(* A host that recorded the ending of a key never starts a container of it *)
(* and never changes the record, through crashes, redeliveries and any     *)
(* number of requeues that come back to it (driver/record.go).             *)
(***************************************************************************)
THEOREM EndedKeyNotRerunHolds == Spec => EndedKeyNotRerun
<1>1. HostInv /\ [Next]_vars => HostInv'
  BY HostStepInv
<1>2. HostInv /\ [Next]_vars => [EndedKept]_vars
  BY HostStepInv
<1>3. Spec => [][EndedKept]_vars
  BY <1>1, <1>2, HostInit, PTL DEF Spec
<1> QED
  BY <1>3 DEF EndedKeyNotRerun, EndedKept

-----------------------------------------------------------------------------
(* The rows and the document. *)

\* A decision keeps what the document says of the task.
Keeping(d, e) ==
    e.task = d.task /\ (e.coded <=> d.coded) /\ (e.stopped <=> d.stopped) /\ Current(e) = Current(d)

\* Or says otherwise of a task that is not over: superseded, lost, to be handed out again.
Judging(d, e) ==
    /\ d.task \notin Over /\ ~e.coded
    /\ \/ Current(e) = Current(d) /\ e.task = "cancelled" /\ e.stopped
       \/ Current(e) = Current(d) /\ e.task = "lost" /\ ~e.stopped
       \/ /\ e.attempt = d.attempt /\ e.requeue = d.requeue + 1
          /\ (e.task = "pending" /\ ~e.stopped) \/ (e.task = "cancelled" /\ e.stopped)

\* A pass over the graph keeps the task, or supersedes it.
LEMMA NextDocJudges ==
    ASSUME NEW d \in Doc, NEW l \in BOOLEAN, NEW e, e = NextDoc(d, l)
    PROVE  /\ e \in Doc /\ Current(e) = Current(d) /\ (e.step = "pending" => d.step = "pending")
           /\ e.step = "pending" => e.state \in {d.state} \cup RunOver
           /\ \/ Keeping(d, e)
              \/ /\ d.task \notin Over /\ ~e.coded /\ e.task = "cancelled" /\ e.stopped
                 /\ e.step # "pending"
<1> DEFINE d1 == Begun(d)
           d2 == Settled(d1)
           d3 == Superseded(d2)
           d4 == Judged(d3)
           Same(x) == /\ x \in Doc /\ Current(x) = Current(d) /\ x.step # "pending"
                      /\ x.task = d.task /\ (x.coded <=> d.coded) /\ (x.stopped <=> d.stopped)
           Put(x) == /\ x \in Doc /\ d.task \notin Over /\ ~x.coded /\ x.task = "cancelled" /\ x.stopped
                     /\ x.step # "pending"
<1>0. e \in Doc /\ Current(e) = Current(d) /\ (e.step = "pending" => d.step = "pending")
  BY NextDocFacts
<1>1. Same(d1)
  BY ZenonT(30) DEF Begun, Doc, Current, RunOver
<1>2. Same(d2) /\ (d2.step = "running" => d2.task \notin Over)
  <2> HIDE DEF d1
  <2>1. CASE d1.step = "running" /\ d1.task \in Over
    <3>1. d2 = [d1 EXCEPT !.step = "ended"]
      BY <2>1 DEF Settled
    <3> QED BY <1>1, <3>1 DEF Doc, Current
  <2>2. CASE ~(d1.step = "running" /\ d1.task \in Over)
    <3>1. d2 = d1
      BY <2>2 DEF Settled
    <3> QED BY <1>1, <2>2, <3>1
  <2> QED BY <2>1, <2>2
<1>3. Same(d3) \/ Put(d3)
  <2> HIDE DEF d2
  <2>1. CASE d2.step = "running" /\ d2.rest = "first"
    <3>1. d3 = [d2 EXCEPT !.step = "ended", !.task = "cancelled", !.coded = FALSE,
                          !.stopped = TRUE, !.waiting = FALSE]
      BY <2>1 DEF Superseded
    <3>2. "cancelled" \in Over
      BY DEF Over, Endings
    <3> QED BY <1>2, <2>1, <3>1, <3>2 DEF Doc
  <2>2. CASE ~(d2.step = "running" /\ d2.rest = "first")
    BY <1>2, <2>2 DEF Superseded
  <2> QED BY <2>1, <2>2
<1>4. Same(d4) \/ Put(d4)
  <2> HIDE DEF d3
  <2>1. d4 = d3 \/ \E st \in RunOver : d4 = [d3 EXCEPT !.state = st]
    BY DEF Judged, RunOver
  <2>2. ASSUME NEW st \in RunOver, d4 = [d3 EXCEPT !.state = st] PROVE Same(d4) \/ Put(d4)
    <3>0. d3 \in Doc
      BY <1>3
    <3>1. /\ d4.task = d3.task /\ d4.coded = d3.coded /\ d4.stopped = d3.stopped /\ d4.step = d3.step
          /\ Current(d4) = Current(d3) /\ d4 \in Doc
      BY <2>2, <3>0 DEF Doc, Current
    <3> QED BY <1>3, <3>1
  <2> QED BY <1>3, <2>1, <2>2
<1> HIDE DEF d1, d2, d3, d4
<1>5. CASE e = d
  BY <1>0, <1>5 DEF Keeping
<1>6. CASE e = EndRun(d, "timed_out")
  BY <1>0, <1>6 DEF EndRun, Keeping, Doc, RunOver
<1>7. CASE e = [d4 EXCEPT !.seq = @ + 1]
  <2>1. e.task = d4.task /\ e.coded = d4.coded /\ e.stopped = d4.stopped /\ e.step = d4.step
    BY <1>4, <1>7 DEF Doc
  <2> QED BY <1>0, <1>4, <2>1 DEF Keeping
<1>8. e = d \/ e = EndRun(d, "timed_out") \/ e = [d4 EXCEPT !.seq = @ + 1]
  BY DEF NextDoc, d4, d3, d2, d1
<1> QED BY <1>5, <1>6, <1>7, <1>8

\* The loss of the dispatch a document is at, recorded.
LossRecorded(d) == Record(d, d.attempt, d.requeue, "lost", FALSE)

\* A loss heard ends the task as lost, or has it handed out again.
LEMMA LossJudges ==
    ASSUME NEW d \in Doc, d.stopped => d.task = "cancelled",
           NEW e, e = LossRecorded(d)
    PROVE  /\ e \in Doc /\ e.step = d.step
           /\ e = d \/ (Judging(d, e) /\ ~e.stopped /\ e.task \in {"pending", "lost"})
<1>0. /\ "lost" \in Over /\ "cancelled" \in Over /\ d.attempt \in Keys /\ d.requeue \in Turns
      /\ FALSE \in BOOLEAN
  BY DEF Over, Endings, Doc
<1>1. e \in Doc /\ e.step = d.step
  <2> PICK c \in BOOLEAN : c = FALSE
    OBVIOUS
  <2> PICK k \in Keys, q \in Turns, st \in Over : k = d.attempt /\ q = d.requeue /\ st = "lost"
    BY <1>0
  <2>1. e = Record(d, k, q, st, c)
    BY DEF LossRecorded
  <2> QED
    BY <2>1, RecordFacts
<1>2. CASE d.task \in Over
  BY <1>2 DEF LossRecorded, Record, StoppedExit
<1>3. CASE d.task \notin Over
  <2> DEFINE again == [d EXCEPT !.task = "pending", !.coded = FALSE, !.waiting = FALSE, !.seq = @ + 1]
  <2>0. ~d.stopped
    BY <1>0, <1>3
  <2>1. ~NextAttempt(d, "lost", FALSE)
    BY DEF NextAttempt
  <2>2. e = [again EXCEPT !.requeue = @ + 1] \/ e = [again EXCEPT !.task = "lost", !.coded = FALSE]
    BY <1>3, <2>1 DEF LossRecorded, Record
  <2>a. /\ again.attempt = d.attempt /\ again.requeue = d.requeue /\ again.task = "pending"
        /\ again.coded = FALSE /\ again.stopped = d.stopped
        /\ DOMAIN again = DOMAIN d /\ DOMAIN d = {"seq", "state", "step", "attempt", "requeue", "task",
                                                "coded", "stopped", "waiting", "rest"}
    BY DEF Doc
  <2> HIDE DEF again
  <2>3. CASE e = [again EXCEPT !.requeue = @ + 1]
    <3>1. /\ e.attempt = d.attempt /\ e.requeue = d.requeue + 1 /\ e.task = "pending"
          /\ ~e.coded /\ ~e.stopped
      BY <2>0, <2>3, <2>a
    <3>2. Judging(d, e)
      BY <1>3, <3>1 DEF Judging
    <3> QED BY <1>1, <3>1, <3>2
  <2>4. CASE e = [again EXCEPT !.task = "lost", !.coded = FALSE]
    <3>1. /\ e.attempt = d.attempt /\ e.requeue = d.requeue /\ e.task = "lost"
          /\ ~e.coded /\ ~e.stopped
      BY <2>0, <2>4, <2>a
    <3>2. Judging(d, e)
      BY <1>3, <3>1 DEF Judging, Current
    <3> QED BY <1>1, <3>1, <3>2
  <2> QED BY <2>2, <2>3, <2>4
<1> QED BY <1>1, <1>2, <1>3

\* What Decide and Cancel make of the document they read.
Decided(rs, d, e) ==
    \/ e = Cancel(d)
    \/ \E l \in BOOLEAN :
         \/ e = NextDoc(d, l)
         \/ /\ rs[Current(d)].state = "lost"
            /\ e = NextDoc(LossRecorded(d), l)

\* A decision keeps what the document says of the task, or judges it; a task that was not begun
\* is not judged as lost, for it has no row.
Judges(rs, d, e) ==
    /\ e \in Doc
    /\ Keeping(d, e) \/ Judging(d, e)
    /\ e.step = "pending" =>
         d.step = "pending" /\ Keeping(d, e) /\ e.state \in {d.state} \cup RunOver
    /\ e.task = "lost" /\ d.task # "lost" => rs[Current(d)].state = "lost"
    /\ d.stopped => e.stopped

LEMMA DecidedJudges ==
    ASSUME NEW rs, NEW d \in Doc, NEW e, Decided(rs, d, e), Reach(rs, d), d.stopped => d.task = "cancelled"
    PROVE  Judges(rs, d, e)
<1>0. "cancelled" \in Over /\ "lost" \in Over /\ "cancelled" # "lost" /\ "pending" \notin Over
  BY DEF Over, Endings
<1>1. CASE e = Cancel(d)
  <2>1. e \in Doc /\ Current(e) = Current(d) /\ (e.step = "pending" => d.step = "pending")
    BY <1>1, CancelFacts
  <2>2. e = d \/ e = EndRun(d, "cancelled")
    BY <1>1 DEF Cancel
  <2>3. Keeping(d, e) /\ e.state \in {d.state} \cup RunOver
    BY <2>1, <2>2 DEF EndRun, Keeping, Doc, RunOver
  <2> QED BY <2>1, <2>3 DEF Judges, Keeping
<1>2. ASSUME NEW l \in BOOLEAN, e = NextDoc(d, l) PROVE Judges(rs, d, e)
  <2>1. /\ e \in Doc /\ Current(e) = Current(d) /\ (e.step = "pending" => d.step = "pending")
        /\ e.step = "pending" => e.state \in {d.state} \cup RunOver
        /\ \/ Keeping(d, e)
           \/ d.task \notin Over /\ ~e.coded /\ e.task = "cancelled" /\ e.stopped /\ e.step # "pending"
    BY <1>2, NextDocJudges
  <2> QED BY <1>0, <2>1 DEF Judges, Keeping, Judging
<1>3. ASSUME NEW l \in BOOLEAN, rs[Current(d)].state = "lost", NEW f,
             f = LossRecorded(d), e = NextDoc(f, l)
      PROVE  Judges(rs, d, e)
  <2>1. f \in Doc /\ f.step = d.step /\ (f = d \/ (Judging(d, f) /\ ~f.stopped /\ f.task \in {"pending", "lost"}))
    BY <1>3, LossJudges
  <2>2. d.step # "pending"
    BY <1>3, CurrentType DEF Reach
  <2>3. /\ e \in Doc /\ Current(e) = Current(f) /\ (e.step = "pending" => f.step = "pending")
        /\ \/ Keeping(f, e)
           \/ f.task \notin Over /\ ~e.coded /\ e.task = "cancelled" /\ e.stopped /\ e.step # "pending"
    BY <1>3, <2>1, NextDocJudges
  <2>4. CASE f = d
    BY <1>0, <2>1, <2>2, <2>3, <2>4 DEF Judges, Keeping, Judging
  <2>5. CASE f # d
    <3>1. Judging(d, f) /\ ~f.stopped /\ f.task \in {"pending", "lost"}
      BY <2>1, <2>5
    <3>2. e.attempt = f.attempt /\ e.requeue = f.requeue
      BY <2>3 DEF Current
    <3>3. Judging(d, e)
      BY <1>0, <2>3, <3>1, <3>2 DEF Judging, Keeping
    <3>4. ~d.stopped
      BY <1>0, <3>1 DEF Judging
    <3> QED BY <1>3, <2>1, <2>2, <2>3, <3>3, <3>4 DEF Judges
  <2> QED BY <2>4, <2>5
<1> QED BY <1>1, <1>2, <1>3 DEF Decided

\* A result recorded.
Answered(d, m) == Record(d, m.row[1], m.row[2], m.state, m.coded)

\* An answer that is news ends the current dispatch, moves on to the next attempt, or is the code
\* of a container that was stopped.
AnswerJudged(d, m, e) ==
    \/ d.stopped /\ m.coded /\ d.task \in Over /\ e.task = d.task /\ e.coded /\ Current(e) = Current(d)
    \/ d.task \notin Over /\ e.task = m.state /\ (e.coded <=> m.coded) /\ Current(e) = Current(d)
    \/ d.task \notin Over /\ e.task = "pending" /\ ~e.coded /\ e.attempt = d.attempt + 1 /\ e.requeue = 0

LEMMA AnswerJudges ==
    ASSUME NEW d \in Doc, NEW m \in Msg, NEW e, e = Answered(d, m), e # d
    PROVE  /\ m.row = Current(d) /\ e \in Doc /\ e.step = d.step /\ e.state = d.state
           /\ (e.stopped <=> d.stopped) /\ AnswerJudged(d, m, e)
<1>0. /\ m.row \in Dispatches /\ m.row[1] \in Keys /\ m.row[2] \in Turns /\ m.row = <<m.row[1], m.row[2]>>
      /\ m.state \in Over /\ m.state # "lost" /\ m.coded \in BOOLEAN
  BY DispatchType DEF Msg, Over, Endings
<1>1. e \in Doc /\ e.step = d.step /\ e.state = d.state
  <2> PICK k \in Keys, q \in Turns, st \in Over, c \in BOOLEAN :
         k = m.row[1] /\ q = m.row[2] /\ st = m.state /\ c = m.coded
    BY <1>0
  <2>1. e = Record(d, k, q, st, c)
    BY DEF Answered
  <2> QED
    BY <2>1, RecordFacts
<1>2. m.row[1] = d.attempt
  BY DEF Answered, Record
<1>3. CASE d.task \in Over
  <2>1. e = StoppedExit(d, m.row[2], m.state, m.coded)
    BY <1>2, <1>3 DEF Answered, Record
  <2>2. /\ d.stopped /\ m.row[2] = d.requeue /\ m.coded
        /\ e = [d EXCEPT !.coded = TRUE, !.seq = @ + 1]
    BY <2>1 DEF StoppedExit
  <2>3. /\ e.task = d.task /\ e.coded /\ (e.stopped <=> d.stopped)
        /\ e.attempt = d.attempt /\ e.requeue = d.requeue
    BY <2>2 DEF Doc
  <2>4. m.row = Current(d) /\ Current(e) = Current(d)
    BY <1>0, <1>2, <2>2, <2>3 DEF Current
  <2> QED BY <1>1, <1>3, <2>2, <2>3, <2>4 DEF AnswerJudged
<1>4. CASE d.task \notin Over
  <2> DEFINE again == [d EXCEPT !.task = "pending", !.coded = FALSE, !.waiting = FALSE, !.seq = @ + 1]
  <2>0. m.row[2] = d.requeue
    BY <1>2, <1>4 DEF Answered, Record
  <2>1. m.row = Current(d)
    BY <1>0, <1>2, <2>0 DEF Current
  <2>2. ~Requeued(d, m.state)
    BY <1>0 DEF Requeued, Requeueable
  <2>3. \/ \E w \in BOOLEAN : e = [again EXCEPT !.attempt = @ + 1, !.requeue = 0, !.waiting = w]
        \/ e = [again EXCEPT !.task = m.state, !.coded = m.coded]
    <3>1. (Backoff /\ m.coded) \in BOOLEAN
      BY <1>0
    <3>2. CASE NextAttempt(d, m.state, m.coded)
      <4>1. e = [again EXCEPT !.attempt = @ + 1, !.requeue = 0, !.waiting = Backoff /\ m.coded]
        BY <1>2, <1>4, <2>0, <2>2, <3>2, Zenon DEF Answered, Record
      <4> QED BY <3>1, <4>1, Zenon
    <3>3. CASE ~NextAttempt(d, m.state, m.coded)
      BY <1>2, <1>4, <2>0, <2>2, <3>3, Zenon DEF Answered, Record
    <3> QED BY <3>2, <3>3, Zenon
  <2>4. /\ again.attempt = d.attempt /\ again.requeue = d.requeue /\ again.task = "pending"
        /\ ~again.coded /\ (again.stopped <=> d.stopped)
        /\ DOMAIN again = {"seq", "state", "step", "attempt", "requeue", "task",
                           "coded", "stopped", "waiting", "rest"}
    BY DEF Doc
  <2> HIDE DEF again
  <2>5. ASSUME NEW w \in BOOLEAN, e = [again EXCEPT !.attempt = @ + 1, !.requeue = 0, !.waiting = w]
        PROVE  AnswerJudged(d, m, e) /\ (e.stopped <=> d.stopped)
    <3>1. /\ e.attempt = d.attempt + 1 /\ e.requeue = 0 /\ e.task = "pending"
          /\ ~e.coded /\ (e.stopped <=> d.stopped)
      BY <2>4, <2>5
    <3> QED BY <1>4, <3>1 DEF AnswerJudged
  <2>6. ASSUME e = [again EXCEPT !.task = m.state, !.coded = m.coded]
        PROVE  AnswerJudged(d, m, e) /\ (e.stopped <=> d.stopped)
    <3>1. /\ e.attempt = d.attempt /\ e.requeue = d.requeue /\ e.task = m.state
          /\ (e.coded <=> m.coded) /\ (e.stopped <=> d.stopped)
      BY <2>4, <2>6
    <3>2. AnswerJudged(d, m, e)
      BY <1>4, <3>1 DEF AnswerJudged, Current
    <3> QED BY <3>1, <3>2
  <2>7. AnswerJudged(d, m, e) /\ (e.stopped <=> d.stopped)
    BY <2>3, <2>5, <2>6, Zenon
  <2> QED BY <1>1, <2>1, <2>7
<1> QED BY <1>3, <1>4

\* A row and what the document says of its dispatch.
TaskRowAgrees(row, d) ==
    /\ d.task = "pending" => row.state = "pending"
    /\ d.task = "dispatched" => row.state \in InFlight \cup {"lost"}
    /\ d.task \in Over => row.state = d.task \/ (row.state = "lost" /\ d.stopped /\ ~d.coded)
    /\ d.coded => row.coded

\* A row that moves by a decision: what is over stays, nothing is lost or succeeds by it.
Onwards(row, new) ==
    /\ row.state \in Over => new.state = row.state
    /\ new.state \in {"lost", "succeeded"} => new.state = row.state
    /\ row.state # "none" => new.state # "none"
    /\ new.coded <=> row.coded
    /\ new.runner = row.runner /\ (new.redeemed <=> row.redeemed)

\* What a write of a document or of a result makes of a row.
Wrote(row, st, e, w) == w = WriteTask(row, st, e.coded)

Moved(row, st, e, w) ==
    /\ w \in RowRecord /\ w.runner = row.runner /\ (w.redeemed <=> row.redeemed)
    /\ w.coded <=> row.coded \/ e.coded
    /\ Keeps(row, st, e.coded) => w.state = row.state
    /\ ~Keeps(row, st, e.coded) => w.state = st

LEMMA WroteMoves ==
    ASSUME NEW row \in RowRecord, NEW st \in {"none"} \cup Going \cup Over,
           NEW e \in Doc \cup Msg, NEW w, Wrote(row, st, e, w)
    PROVE  Moved(row, st, e, w)
<1> DEFINE state == IF Keeps(row, st, e.coded) THEN row.state ELSE st
           coded == row.coded \/ e.coded
<1>0. e.coded \in BOOLEAN
  BY DEF Doc, Msg
<1>1. state \in {"none"} \cup Going \cup Over /\ coded \in BOOLEAN
  BY DEF RowRecord
<1>2. w = [row EXCEPT !.state = state, !.coded = coded]
  BY DEF Wrote, WriteTask
<1>3. /\ Keeps(row, st, e.coded) => state = row.state
      /\ ~Keeps(row, st, e.coded) => state = st
      /\ coded <=> row.coded \/ e.coded
  OBVIOUS
<1> HIDE DEF state, coded
<1>4. w \in RowRecord /\ w.runner = row.runner /\ (w.redeemed <=> row.redeemed)
  BY <1>1, <1>2 DEF RowRecord
<1>5. w.state = state /\ (w.coded <=> coded)
  BY <1>1, <1>2 DEF RowRecord
<1> QED BY <1>3, <1>4, <1>5 DEF Moved

\* A decision about the dispatch a row is of.
LEMMA WriteAgrees ==
    ASSUME NEW row \in RowRecord, NEW d \in Doc, NEW e \in Doc, TaskRowAgrees(row, d),
           d.stopped => d.task = "cancelled", Current(e) = Current(d), Keeping(d, e) \/ Judging(d, e),
           e.task = "lost" /\ d.task # "lost" => row.state = "lost",
           NEW w, Wrote(row, e.task, e, w)
    PROVE  TaskRowAgrees(w, e) /\ Onwards(row, w)
<1> USE DEF Over, Endings, Going, InFlight
<1>0. /\ e.task \in {"none"} \cup Going \cup Over /\ e.coded \in BOOLEAN
      /\ d.task \in {"pending", "dispatched"} \cup Over /\ e.task \in {"pending", "dispatched"} \cup Over
      /\ d.requeue \in Nat /\ d.requeue = e.requeue
  BY DEF Doc, Turns, Current
<1>m. Moved(row, e.task, e, w)
  BY <1>0, WroteMoves
<1>1. /\ w.runner = row.runner /\ (w.redeemed <=> row.redeemed)
      /\ (w.coded <=> row.coded \/ e.coded)
      /\ Keeps(row, e.task, e.coded) => w.state = row.state
      /\ ~Keeps(row, e.task, e.coded) => w.state = e.task
  BY <1>0, <1>m DEF Moved
<1>2. CASE Keeping(d, e)
  <2>1. e.task = d.task /\ (e.coded <=> d.coded) /\ (e.stopped <=> d.stopped)
    BY <1>2 DEF Keeping
  <2>2. w.coded <=> row.coded
    BY <1>1, <2>1 DEF TaskRowAgrees
  <2>3. CASE e.task \in {"pending", "dispatched"}
    BY <1>1, <2>1, <2>2, <2>3 DEF TaskRowAgrees, Onwards, Keeps
  <2>4. CASE e.task \in Over /\ row.state = e.task
    BY <1>1, <2>1, <2>2, <2>4 DEF TaskRowAgrees, Onwards, Keeps
  <2>5. CASE e.task \in Over /\ row.state = "lost" /\ d.stopped /\ ~d.coded
    <3>1. Keeps(row, e.task, e.coded)
      BY <2>1, <2>5 DEF Keeps
    <3> QED BY <1>1, <2>1, <2>2, <2>5, <3>1 DEF TaskRowAgrees, Onwards
  <2> QED BY <1>0, <2>1, <2>3, <2>4, <2>5 DEF TaskRowAgrees
<1>3. CASE Judging(d, e)
  <2>1. d.task \in {"pending", "dispatched"} /\ ~e.coded /\ (w.coded <=> row.coded)
    BY <1>0, <1>1, <1>3 DEF Judging
  <2>2. row.state \in {"pending", "dispatched", "running", "publishing", "lost"}
    BY <2>1 DEF TaskRowAgrees
  <2>3. (e.task = "cancelled" /\ e.stopped) \/ (e.task = "lost" /\ ~e.stopped /\ row.state = "lost")
    BY <1>0, <1>3, <2>1 DEF Judging
  <2>4. w.state = IF row.state = "lost" THEN "lost" ELSE e.task
    BY <1>1, <2>1, <2>2, <2>3 DEF Keeps
  <2> QED BY <1>1, <2>1, <2>2, <2>3, <2>4 DEF TaskRowAgrees, Onwards
<1> QED BY <1>2, <1>3

\* A decision about a dispatch that has no row.
LEMMA WriteFirst ==
    ASSUME NEW row \in RowRecord, row.state = "none", NEW e \in Doc, ~e.coded,
           e.task = "pending" \/ (e.task = "cancelled" /\ e.stopped),
           NEW w, Wrote(row, e.task, e, w)
    PROVE  TaskRowAgrees(w, e) /\ Onwards(row, w)
<1> USE DEF Over, Endings, Going, InFlight
<1>0. e.task \in {"none"} \cup Going \cup Over /\ e.coded \in BOOLEAN
  BY DEF Doc
<1>m. Moved(row, e.task, e, w)
  BY <1>0, WroteMoves
<1>1. /\ w.runner = row.runner /\ (w.redeemed <=> row.redeemed)
      /\ (w.coded <=> row.coded \/ e.coded)
      /\ ~Keeps(row, e.task, e.coded) => w.state = e.task
  BY <1>0, <1>m DEF Moved
<1>2. ~Keeps(row, e.task, e.coded)
  BY DEF Keeps
<1> QED BY <1>1, <1>2 DEF TaskRowAgrees, Onwards

\* What the rows and the document say of each other.
Agree(rs, d) ==
    /\ d.stopped => d.task = "cancelled"
    /\ d.step = "pending" => d.task = "pending" /\ ~d.coded /\ d.state # "running"
    /\ \A x \in Dispatches : x[1] < d.attempt => rs[x].state \notin Going
    /\ d.state \notin RunOver /\ d.step # "pending" => TaskRowAgrees(rs[Current(d)], d)

\* A decision writes the row of its dispatch.
LEMMA WrittenRow ==
    ASSUME NEW rs \in RowMap, NEW e \in Doc, NEW rt, rt = Written(rs, e)
    PROVE  /\ \A x \in Dispatches : x # Current(e) \/ e.step = "pending" => rt[x] = rs[x]
           /\ e.step # "pending" => Wrote(rs[Current(e)], e.task, e, rt[Current(e)])
  BY CurrentType DEF Written, Wrote, RowMap

\* The rows a decision writes say what the document says, and only go onwards.
LEMMA DecisionWrites ==
    ASSUME NEW rs \in RowMap, NEW d \in Doc, d.state \notin RunOver, Reach(rs, d), Agree(rs, d),
           NEW e, Judges(rs, d, e), NEW rt, rt = Written(rs, e)
    PROVE  Agree(rt, e) /\ \A x \in Dispatches : Onwards(rs[x], rt[x])
<1>0. /\ e \in Doc /\ Current(d) \in Dispatches /\ Current(e) \in Dispatches
      /\ e.attempt = d.attempt /\ d.attempt \in Nat /\ Current(e)[1] = e.attempt
  BY CurrentType DEF Judges, Keeping, Judging, Current, Doc, Keys
<1>1. e.stopped => e.task = "cancelled"
  BY DEF Agree, Judges, Keeping, Judging
<1>2. e.step = "pending" => e.task = "pending" /\ ~e.coded /\ e.state # "running"
  BY DEF Agree, Judges, Keeping, RunOver
<1>3. /\ \A x \in Dispatches : x # Current(e) \/ e.step = "pending" => rt[x] = rs[x]
      /\ e.step # "pending" => Wrote(rs[Current(e)], e.task, e, rt[Current(e)])
  BY <1>0, WrittenRow
<1>4. \A x \in Dispatches : x[1] < e.attempt => rt[x].state \notin Going
  BY <1>0, <1>3 DEF Agree
<1>5. \A x \in Dispatches : rt[x] = rs[x] => Onwards(rs[x], rt[x])
  BY DEF Onwards
<1>6. CASE e.step = "pending"
  BY <1>1, <1>2, <1>3, <1>4, <1>5, <1>6 DEF Agree
<1>7. CASE e.step # "pending"
  <2> DEFINE row == rs[Current(e)]
             w == rt[Current(e)]
  <2>0. row \in RowRecord /\ Wrote(row, e.task, e, w)
    BY <1>0, <1>3, <1>7 DEF RowMap
  <2>1. TaskRowAgrees(w, e) /\ Onwards(row, w)
    <3> HIDE DEF w
    <3>1. CASE Current(e) = Current(d) /\ d.step # "pending"
      <4>1. TaskRowAgrees(row, d) /\ (d.stopped => d.task = "cancelled")
        BY <3>1 DEF Agree
      <4>2. (Keeping(d, e) \/ Judging(d, e)) /\ (e.task = "lost" /\ d.task # "lost" => row.state = "lost")
        BY <3>1 DEF Judges
      <4> HIDE DEF row
      <4> QED BY <1>0, <2>0, <3>1, <4>1, <4>2, WriteAgrees
    <3>2. CASE Current(e) # Current(d) \/ d.step = "pending"
      <4>1. row.state = "none"
        BY <1>0, <3>2 DEF Reach, Judges, Keeping, Judging, Current, Doc, Turns
      <4>2. ~e.coded /\ (e.task = "pending" \/ (e.task = "cancelled" /\ e.stopped))
        <5>1. CASE Keeping(d, e)
          BY <3>2, <5>1 DEF Keeping, Agree
        <5>2. CASE Judging(d, e)
          BY <3>2, <4>1, <5>2 DEF Judging, Judges, Agree, Over
        <5> QED BY <5>1, <5>2 DEF Judges
      <4> HIDE DEF row
      <4> QED BY <1>0, <2>0, <4>1, <4>2, WriteFirst
    <3> QED BY <3>1, <3>2
  <2> QED BY <1>1, <1>2, <1>3, <1>4, <1>5, <1>7, <2>1 DEF Agree
<1> QED BY <1>6, <1>7

\* The rows of a run that ends with it only go onwards.
LEMMA EndedWrites ==
    ASSUME NEW rs \in RowMap, NEW e \in Doc, Agree(rs, e), NEW rt, rt = Ended(rs, e)
    PROVE  Agree(rt, e) /\ \A x \in Dispatches : Onwards(rs[x], rt[x])
<1>1. CASE e.state \notin RunOver
  BY <1>1 DEF Ended, Onwards
<1>2. CASE e.state \in RunOver
  <2>1. PICK st \in {"timed_out", "cancelled"} : rt = EndTasks(rs, st)
    BY <1>2 DEF Ended
  <2>2. ASSUME NEW x \in Dispatches PROVE Onwards(rs[x], rt[x]) /\ rt[x].state \notin Going
    <3>0. rs[x] \in RowRecord /\ st \in Endings
      BY DEF RowMap, Endings
    <3>1. CASE rs[x].state \in Going
      <4>1. rt[x] = [rs[x] EXCEPT !.state = st]
        BY <2>1, <3>1 DEF EndTasks
      <4> QED BY <3>0, <3>1, <4>1 DEF Onwards, RowRecord, Going, InFlight, Over, Endings
    <3>2. CASE rs[x].state \notin Going
      BY <2>1, <3>2 DEF EndTasks, Onwards
    <3> QED BY <3>1, <3>2
  <2> QED BY <1>2, <2>2 DEF Agree
<1> QED BY <1>1, <1>2

\* Two writes that go onwards are one.
LEMMA OnwardsTwice ==
    ASSUME NEW a, NEW b, NEW c, Onwards(a, b), Onwards(b, c)
    PROVE  Onwards(a, c)
  BY DEF Onwards

\* The rows as a decision is saved.
LEMMA SaveWrites ==
    ASSUME NEW rs \in RowMap, NEW d \in Doc, d.state \notin RunOver, Reach(rs, d), Agree(rs, d),
           NEW e, Judges(rs, d, e), NEW rt, rt = Ended(Written(rs, e), e)
    PROVE  Agree(rt, e) /\ \A x \in Dispatches : Onwards(rs[x], rt[x])
<1> DEFINE ru == Written(rs, e)
<1>0. e \in Doc
  BY DEF Judges
<1>1. ru \in RowMap
  BY <1>0, WrittenType
<1>2. Agree(ru, e) /\ \A x \in Dispatches : Onwards(rs[x], ru[x])
  BY DecisionWrites
<1>3. Agree(rt, e) /\ \A x \in Dispatches : Onwards(ru[x], rt[x])
  <2> HIDE DEF ru
  <2>1. rt = Ended(ru, e)
    BY DEF ru
  <2> QED BY <1>0, <1>1, <1>2, <2>1, EndedWrites
<1> HIDE DEF ru
<1>4. ASSUME NEW x \in Dispatches PROVE Onwards(rs[x], rt[x])
  BY <1>2, <1>3, OnwardsTwice
<1> QED BY <1>3, <1>4

\* The dispatch of a pending task recorded, and its row stamped.
LEMMA RecordWrites ==
    ASSUME NEW rs \in RowMap, NEW d \in Doc, d.state = "running", d.task = "pending", Agree(rs, d),
           NEW e, e = RecordDispatched(d), NEW rt, rt = Published(Written(rs, e), e.attempt)
    PROVE  Agree(rt, e) /\ \A x \in Dispatches : Onwards(rs[x], rt[x])
<1> DEFINE ru == Written(rs, e)
<1>1. e = [d EXCEPT !.task = "dispatched", !.coded = FALSE, !.waiting = FALSE, !.seq = @ + 1]
  BY DEF RecordDispatched, Over, Endings
<1>2. /\ e \in Doc /\ e.task = "dispatched" /\ ~e.coded /\ (e.stopped <=> d.stopped)
      /\ e.step = d.step /\ e.state = d.state
      /\ e.attempt = d.attempt /\ e.requeue = d.requeue
  <2>1. e \in Doc
    BY RecordDispatchedFacts
  <2>2. DOMAIN d = {"seq", "state", "step", "attempt", "requeue", "task",
                    "coded", "stopped", "waiting", "rest"}
    BY DEF Doc
  <2> QED BY <1>1, <2>1, <2>2
<1>3. /\ \A x \in Dispatches : x # Current(e) => ru[x] = rs[x]
      /\ Wrote(rs[Current(e)], e.task, e, ru[Current(e)])
  <2> HIDE DEF ru
  <2>1. ru = Written(rs, e)
    BY DEF ru
  <2> QED BY <1>2, <2>1, WrittenRow DEF Agree
<1>4. ru \in RowMap
  BY <1>2, WrittenType
<1> HIDE DEF ru
<1>5. ASSUME NEW x \in Dispatches
      PROVE  /\ rt[x].state = ru[x].state /\ rt[x].runner = ru[x].runner
             /\ (rt[x].coded <=> ru[x].coded) /\ (rt[x].redeemed <=> ru[x].redeemed)
  <2>1. rt[x] = ru[x] \/ rt[x] = [ru[x] EXCEPT !.published = TRUE]
    BY DEF Published, ru
  <2> QED BY <1>4, <2>1 DEF RowMap, RowRecord
<1>6. /\ Current(e) = Current(d) /\ Current(d) \in Dispatches /\ rs[Current(d)] \in RowRecord
      /\ Current(d)[1] = d.attempt /\ d.attempt \in Nat
  BY <1>2, CurrentType DEF Current, RowMap, Doc, Keys
<1>7. rs[Current(d)].state = "pending" /\ ~d.stopped
  BY DEF Agree, TaskRowAgrees, RunOver
<1>8. ru[Current(d)].state = "dispatched" /\ Onwards(rs[Current(d)], ru[Current(d)])
  <2> DEFINE w == ru[Current(d)]
             row == rs[Current(d)]
  <2>0. row \in RowRecord /\ row.state = "pending" /\ Wrote(row, e.task, e, w)
    BY <1>3, <1>6, <1>7
  <2> HIDE DEF w, row
  <2>1. Moved(row, e.task, e, w)
    BY <1>2, <2>0, WroteMoves DEF Going, InFlight
  <2>2. ~Keeps(row, e.task, e.coded)
    BY <2>0 DEF Keeps
  <2>3. w.state = "dispatched" /\ Onwards(row, w)
    BY <1>2, <2>0, <2>1, <2>2 DEF Moved, Onwards, Over, Endings
  <2> QED BY <2>3 DEF w, row
<1>9. ASSUME NEW x \in Dispatches PROVE Onwards(rs[x], rt[x])
  <2>1. Onwards(rs[x], ru[x])
    BY <1>3, <1>6, <1>8 DEF Onwards
  <2> QED BY <1>5, <2>1 DEF Onwards
<1>10. TaskRowAgrees(rt[Current(e)], e)
  BY <1>2, <1>5, <1>6, <1>8 DEF TaskRowAgrees, InFlight, Over, Endings
<1>11. \A x \in Dispatches : x[1] < e.attempt => rt[x].state \notin Going
  BY <1>2, <1>3, <1>5, <1>6 DEF Agree
<1> QED BY <1>2, <1>7, <1>9, <1>10, <1>11 DEF Agree

\* A row that moves by an answer: a loss is overtaken by it, or by its code under a stop.
Heeds(row, new, d, m) ==
    /\ row.state \in Endings => new.state = row.state
    /\ row.state = "lost" => new.state \in {"lost", m.state} \/ (d.stopped /\ m.coded /\ new.coded)
    /\ new.state = "lost" => row.state = "lost"
    /\ new.state = "succeeded" => row.state = "succeeded" \/ m.state = "succeeded"
    /\ new.state # "none"
    /\ row.coded => new.coded
    /\ new.coded => row.coded \/ m.coded
    /\ new.redeemed <=> row.redeemed

\* What an answer makes of the row it is of, where the document stays at the dispatch.
LEMMA AnsweredAgrees ==
    ASSUME NEW row \in RowRecord, NEW d \in Doc, NEW m \in Msg, NEW e \in Doc,
           TaskRowAgrees(row, d), d.stopped => d.task = "cancelled", m.state = "cancelled" => d.stopped,
           e.stopped <=> d.stopped, Current(e) = Current(d), AnswerJudged(d, m, e),
           NEW w, Wrote(row, e.task, e, w)
    PROVE  /\ TaskRowAgrees(w, e) /\ Heeds(row, w, d, m) /\ w.runner = row.runner
           /\ e.stopped => e.task = "cancelled"
<1> USE DEF Over, Endings, Going, InFlight
<1>0. /\ e.task \in {"none"} \cup Going \cup Over /\ d.attempt \in Nat /\ e.attempt = d.attempt
      /\ d.task \in {"pending", "dispatched"} \cup Over
  BY DEF Doc, Keys, Current
<1>1. Moved(row, e.task, e, w)
  BY <1>0, WroteMoves
<1>2. ASSUME d.stopped, m.coded, d.task \in Over, e.task = d.task, e.coded
      PROVE  TaskRowAgrees(w, e) /\ Heeds(row, w, d, m) /\ (e.stopped => e.task = "cancelled")
  <2>1. e.task = "cancelled" /\ row.state \in {"cancelled", "lost"}
    BY <1>2 DEF TaskRowAgrees
  <2>2. ~Keeps(row, e.task, e.coded)
    BY <1>2, <2>1 DEF Keeps
  <2>3. w.state = "cancelled" /\ w.coded /\ (w.redeemed <=> row.redeemed) /\ w.runner = row.runner
    BY <1>1, <1>2, <2>1, <2>2 DEF Moved
  <2> QED BY <1>2, <2>1, <2>3 DEF TaskRowAgrees, Heeds
<1>3. ASSUME d.task \notin Over, e.task = m.state, e.coded <=> m.coded
      PROVE  TaskRowAgrees(w, e) /\ Heeds(row, w, d, m) /\ (e.stopped => e.task = "cancelled")
  <2>1. ~d.stopped /\ m.state \in {"succeeded", "failed", "timed_out"}
    BY <1>3 DEF Msg
  <2>2. ~Keeps(row, e.task, e.coded)
    BY <1>3, <2>1 DEF Keeps
  <2>3. /\ w.state = m.state /\ (w.coded <=> row.coded \/ m.coded)
        /\ (w.redeemed <=> row.redeemed) /\ w.runner = row.runner
    BY <1>1, <1>3, <2>2 DEF Moved
  <2>4. row.state \in {"pending", "dispatched", "running", "publishing", "lost"}
    BY <1>0, <1>3 DEF TaskRowAgrees
  <2> QED BY <1>3, <2>1, <2>3, <2>4 DEF TaskRowAgrees, Heeds
<1>4. ~(e.attempt = d.attempt + 1)
  BY <1>0
<1> QED BY <1>1, <1>2, <1>3, <1>4 DEF AnswerJudged, Moved

\* What it makes of the row where the document moves on to the next attempt.
LEMMA PassedHeeds ==
    ASSUME NEW row \in RowRecord, row.state \in {"pending", "lost"} \cup InFlight,
           NEW d, NEW m \in Msg, NEW w, Wrote(row, m.state, m, w)
    PROVE  /\ w \in RowRecord /\ w.state \notin Going
           /\ Heeds(row, w, d, m) /\ w.runner = row.runner
<1> USE DEF Over, Endings, Going, InFlight
<1>0. m.state \in {"none"} \cup Going \cup Over /\ m.state \in Endings
  BY DEF Msg
<1>1. Moved(row, m.state, m, w)
  BY <1>0, WroteMoves
<1>2. w.state \in {"lost", m.state} /\ (w.state = "lost" => row.state = "lost")
  BY <1>0, <1>1 DEF Moved, Keeps
<1>3. /\ w \in RowRecord /\ (w.coded <=> row.coded \/ m.coded)
      /\ (w.redeemed <=> row.redeemed) /\ w.runner = row.runner
  BY <1>1 DEF Moved
<1> QED BY <1>0, <1>2, <1>3 DEF Heeds

\* The rows an answer writes say what the document says; the row it is of heeds it.
LEMMA AnswerWrites ==
    ASSUME NEW rs \in RowMap, NEW d \in Doc, d.state \notin RunOver, Reach(rs, d), Agree(rs, d),
           NEW m \in Msg, rs[m.row].state # "none", m.state = "cancelled" => d.stopped,
           NEW e, e = Answered(d, m), e # d, NEW rt, rt = Passed(Written(rs, e), e, m)
    PROVE  /\ Agree(rt, e) /\ m.row = Current(d)
           /\ \A x \in Dispatches : x # m.row => Onwards(rs[x], rt[x])
           /\ Heeds(rs[m.row], rt[m.row], d, m) /\ rt[m.row].runner = rs[m.row].runner
<1>0. /\ m.row = Current(d) /\ e \in Doc /\ e.step = d.step /\ e.state = d.state
      /\ (e.stopped <=> d.stopped) /\ AnswerJudged(d, m, e)
  BY AnswerJudges
<1>1. /\ Current(d) \in Dispatches /\ Current(e) \in Dispatches /\ d.attempt \in Nat /\ e.attempt \in Nat
      /\ d.requeue \in Nat /\ e.requeue \in Nat /\ m.row[1] = d.attempt
      /\ Current(e)[1] = e.attempt /\ Current(e)[2] = e.requeue
  BY <1>0, CurrentType DEF Doc, Keys, Turns
<1> DEFINE row == rs[Current(d)]
           ru == Written(rs, e)
<1>2. d.step # "pending" /\ TaskRowAgrees(row, d) /\ row \in RowRecord
  BY <1>0, <1>1 DEF Reach, Agree, RowMap
<1>3. /\ \A x \in Dispatches : x # Current(e) => ru[x] = rs[x]
      /\ Wrote(rs[Current(e)], e.task, e, ru[Current(e)])
  <2> HIDE DEF ru
  <2>1. ru = Written(rs, e)
    BY DEF ru
  <2> QED BY <1>0, <1>2, <2>1, WrittenRow
<1>4. ru \in RowMap
  BY <1>0, WrittenType
<1>a. d.stopped => d.task = "cancelled"
  BY DEF Agree
<1>5. CASE Current(e) = Current(d)
  <2>0. rt = ru /\ e.attempt = d.attempt
    BY <1>0, <1>1, <1>5 DEF Passed
  <2> DEFINE w == ru[Current(d)]
  <2>1. Wrote(row, e.task, e, w)
    BY <1>3, <1>5
  <2> HIDE DEF row, w
  <2>2. /\ TaskRowAgrees(w, e) /\ Heeds(row, w, d, m) /\ w.runner = row.runner
        /\ e.stopped => e.task = "cancelled"
    BY <1>0, <1>2, <1>5, <1>a, <2>1, AnsweredAgrees
  <2> USE DEF row, w
  <2> HIDE DEF ru
  <2>3. \A x \in Dispatches : x # m.row => rt[x] = rs[x] /\ Onwards(rs[x], rt[x])
    BY <1>0, <1>3, <1>5, <2>0 DEF Onwards
  <2>4. Agree(rt, e)
    BY <1>0, <1>1, <1>2, <1>5, <2>0, <2>2, <2>3 DEF Agree
  <2> QED BY <1>0, <2>0, <2>2, <2>3, <2>4
<1>6. CASE Current(e) # Current(d)
  <2>0. /\ d.task \notin Over /\ e.task = "pending" /\ ~e.coded /\ e.attempt = d.attempt + 1 /\ e.requeue = 0
        /\ ~e.stopped
    BY <1>0, <1>6, <1>a DEF AnswerJudged, Over, Endings
  <2>1. Current(e) # m.row /\ e.attempt # m.row[1]
    BY <1>0, <1>1, <2>0
  <2>2. rs[Current(e)].state = "none" /\ rs[Current(e)] \in RowRecord
    BY <1>1, <2>0 DEF Reach, RowMap
  <2>3. TaskRowAgrees(ru[Current(e)], e) /\ Onwards(rs[Current(e)], ru[Current(e)])
    <3> DEFINE w == ru[Current(e)]
               first == rs[Current(e)]
    <3>1. Wrote(first, e.task, e, w) /\ first \in RowRecord /\ first.state = "none"
      BY <1>3, <2>2
    <3> HIDE DEF w, first
    <3>2. TaskRowAgrees(w, e) /\ Onwards(first, w)
      BY <1>0, <2>0, <3>1, WriteFirst
    <3> QED BY <3>2 DEF w, first
  <2> HIDE DEF ru
  <2>4. /\ \A x \in Dispatches : x # m.row => rt[x] = ru[x]
        /\ Wrote(ru[m.row], m.state, m, rt[m.row]) /\ ru[m.row] = row
    BY <1>0, <1>1, <1>3, <1>4, <1>6, <2>1 DEF Passed, Wrote, RowMap, ru
  <2>5. row.state \in {"pending", "lost"} \cup InFlight
    BY <1>2, <2>0 DEF TaskRowAgrees, Doc
  <2>6. /\ rt[m.row].state \notin Going
        /\ Heeds(row, rt[m.row], d, m) /\ rt[m.row].runner = row.runner
    <3> DEFINE w == rt[m.row]
    <3>1. Wrote(row, m.state, m, w)
      BY <2>4
    <3> HIDE DEF w, row
    <3>2. w.state \notin Going /\ Heeds(row, w, d, m) /\ w.runner = row.runner
      BY <1>2, <2>5, <3>1, PassedHeeds
    <3> QED BY <3>2 DEF w
  <2>7. ASSUME NEW x \in Dispatches, x # m.row PROVE Onwards(rs[x], rt[x])
    BY <1>3, <2>3, <2>4, <2>7 DEF Onwards
  <2>8. ASSUME NEW x \in Dispatches, x[1] < e.attempt PROVE rt[x].state \notin Going
    <3>0. x[1] \in Nat /\ x[2] \in Nat /\ x = <<x[1], x[2]>>
      BY DispatchType
    <3>1. CASE x = m.row
      BY <2>6, <3>1
    <3>2. CASE x # m.row
      <4>1. rt[x] = rs[x]
        BY <1>1, <1>3, <2>4, <2>8, <3>2
      <4>2. CASE x[1] < d.attempt
        BY <4>1, <4>2 DEF Agree
      <4>3. CASE x[1] = d.attempt
        <5>1. x[2] # d.requeue
          BY <1>0, <3>0, <3>2, <4>3 DEF Current
        <5> QED BY <1>1, <3>0, <4>1, <4>3, <5>1 DEF Reach, Going, InFlight
      <4> QED BY <1>1, <2>0, <2>8, <3>0, <4>2, <4>3
    <3> QED BY <3>1, <3>2
  <2>9. Agree(rt, e)
    BY <1>0, <1>1, <1>2, <2>0, <2>1, <2>3, <2>4, <2>8 DEF Agree
  <2> QED BY <1>0, <2>6, <2>7, <2>9
<1> QED BY <1>5, <1>6

-----------------------------------------------------------------------------
(* What the hosts keep, and what is carried between them and the rows. *)

HasRow(x) == rows[x].state # "none"

\* Whoever was told to stop was told so by the document.
StopAsked == doc.stopped \/ doc.state \in RunOver

\* A result is of a dispatch that has a row; a success or a code is of a container its host ran.
Honest(m) ==
    /\ HasRow(m.row)
    /\ m.state = "cancelled" => StopAsked
    /\ m.coded \/ m.state = "succeeded" =>
         /\ m.from \in ran[m.row[1]]
         /\ disk[m.from][m.row[1]].coded
         /\ m.state = "succeeded" => disk[m.from][m.row[1]].state = "succeeded"

\* And so is what a host recorded of a key.
RecordOf(r, k) ==
    /\ disk[r][k].coded => disk[r][k].state \in Endings /\ r \in ran[k]
    /\ disk[r][k].state = "succeeded" => disk[r][k].coded
    /\ disk[r][k].state = "cancelled" => StopAsked
    /\ work[r][k].at = "running" => r \in ran[k]

Records == \A r \in Runners, k \in Keys : RecordOf(r, k)

\* What is published, kept, owed or queued is of a dispatch that has a row.
Messages ==
    /\ \A m \in results : Honest(m)
    /\ \A r \in Runners : (\A m \in kept[r] : Honest(m)) /\ (\A x \in owed[r] : HasRow(x))
    /\ \A x \in queue : HasRow(x)

\* A host that started a container redeemed a dispatch of the key; a row that is lost was bound.
BindingOf(r, k) ==
    /\ work[r][k].at # "none" => HasRow(Taken(r, k))
    /\ work[r][k].at = "bound" => rows[Taken(r, k)].runner = r
    /\ r \in ran[k] => \E q \in Turns : HasRow(<<k, q>>) /\ rows[<<k, q>>].runner = r

Bindings ==
    /\ \A r \in Runners, k \in Keys : BindingOf(r, k)
    /\ \A x \in Dispatches : rows[x].state = "lost" => rows[x].runner # NoRunner

\* What a pass may carry between its transactions, while the document stays.
Carries(p) ==
    /\ p.at = "publish" => HasRow(p.row)
    /\ p.at = "save" /\ p.was = doc.seq => doc.state \notin RunOver /\ Decided(rows, doc, p.next)
    /\ p.at = "answer" /\ p.was = doc.seq =>
         /\ p.next = Answered(doc, p.msg) /\ p.next # doc
         /\ doc.state \notin RunOver /\ Honest(p.msg)
         /\ p.bind => ~doc.stopped /\ (Unreached(p.msg) \/ RedeemedBefore(rows, p.msg.row, p.msg.from))
         /\ ~p.bind => rows[p.msg.row].runner = p.msg.from
         /\ p.msg \in results \/ (p.bind /\ rows[p.msg.row].runner \notin {NoRunner, p.msg.from})

\* The inductive invariant.
RowInv ==
    /\ SafeInv /\ HeldNotEnded
    /\ Agree(rows, doc)
    /\ Records /\ Messages /\ Bindings
    /\ EndingFromItsHost
    /\ \A t \in Threads : Carries(pass[t])

\* The action RowsOnlyMoveForwards says every step is.
Forwards ==
    \A x \in Dispatches :
        /\ rows[x].runner # NoRunner => rows'[x].runner = rows[x].runner
        /\ rows[x].coded => rows'[x].coded
        /\ rows[x].state \in Endings => rows'[x].state = rows[x].state
        /\ rows[x].state = "lost" =>
            \/ rows'[x].state = "lost"
            \/ \E m \in results :
                /\ m.row = x /\ m.from = rows[x].runner
                /\ \/ m.state = rows'[x].state
                   \/ doc.stopped /\ m.coded /\ rows'[x].coded

\* What no step takes back of the rows and of what was asked.
Lasts ==
    /\ \A x \in Dispatches :
        /\ HasRow(x) => HasRow(x)'
        /\ rows[x].redeemed => rows'[x].redeemed
        /\ rows[x].runner # NoRunner => rows'[x].runner = rows[x].runner
        /\ rows'[x].state = "lost" => rows[x].state = "lost" \/ rows[x].runner # NoRunner
    /\ StopAsked => StopAsked'

\* Or of what the hosts have recorded.
Stays ==
    /\ \A k \in Keys : ran[k] \subseteq ran'[k]
    /\ \A r \in Runners, k \in Keys : disk[r][k].coded => disk'[r][k] = disk[r][k]

\* A step that leaves the document and the rows.
LEMMA QuietRows ==
    ASSUME RowInv, UNCHANGED <<doc, rows>>
    PROVE  Forwards /\ Lasts /\ Agree(rows', doc')
<1>1. Agree(rows, doc)
  BY DEF RowInv
<1> QED BY <1>1 DEF Forwards, Lasts, HasRow, StopAsked

\* A result that changes nothing leaves at most its code.
LEMMA ReportRows ==
    ASSUME RowInv, NEW m \in results, AnswerReport(m)
    PROVE  Forwards /\ Lasts /\ Agree(rows', doc')
<1>0. rows \in RowMap /\ m.row \in Dispatches /\ m.coded \in BOOLEAN
  BY DEF RowInv, SafeInv, TypeInv, TypeOK, RowMap, Msg
<1>1. doc' = doc
  BY DEF AnswerReport, run
<1>2. rows' = rows \/ rows' = [rows EXCEPT ![m.row].coded = @ \/ m.coded]
  BY DEF AnswerReport, StopReport
<1>3. ASSUME NEW x \in Dispatches
      PROVE  /\ rows'[x].state = rows[x].state /\ rows'[x].runner = rows[x].runner
             /\ (rows'[x].redeemed <=> rows[x].redeemed) /\ (rows[x].coded => rows'[x].coded)
  <2>1. rows[x] \in RowRecord
    BY <1>0 DEF RowMap
  <2>2. rows'[x] = rows[x] \/ (rows'[x] = [rows[x] EXCEPT !.coded = @ \/ m.coded])
    BY <1>0, <1>2 DEF RowMap
  <2> QED BY <2>1, <2>2 DEF RowRecord
<1>4. Agree(rows', doc)
  <2>1. Agree(rows, doc) /\ Current(doc) \in Dispatches
    BY CurrentType DEF RowInv, SafeInv, TypeInv, TypeOK
  <2> QED BY <1>3, <2>1 DEF Agree, TaskRowAgrees
<1> QED BY <1>1, <1>3, <1>4 DEF Forwards, Lasts, HasRow, StopAsked

\* The sweep, progress and a redemption move one row.
LEMMA OneRow ==
    ASSUME RowInv,
           \/ \E x \in Dispatches : SweepLost(x) \/ \E to \in Progresses : Progress(x, to)
           \/ \E r \in Runners, k \in Keys : Redeem(r, k) \/ RedeemUnheard(r, k)
    PROVE  Forwards /\ Lasts /\ Agree(rows', doc')
<1>0. rows \in RowMap /\ Agree(rows, doc) /\ doc \in Doc /\ Current(doc) \in Dispatches
  BY CurrentType DEF RowInv, SafeInv, TypeInv, TypeOK, RowMap
<1> USE DEF InFlight, Going, Over, Endings
<1>1. ASSUME NEW x \in Dispatches, NEW st \in {"lost", "running", "publishing"},
             rows' = [rows EXCEPT ![x].state = st], doc' = doc,
             rows[x].state \in InFlight, st = "lost" => rows[x].runner # NoRunner,
             st # "lost" => doc.state \notin RunOver
      PROVE  Forwards /\ Lasts /\ Agree(rows', doc')
  <2>1. /\ \A y \in Dispatches : y # x => rows'[y] = rows[y]
        /\ rows'[x] = [rows[x] EXCEPT !.state = st]
    BY <1>0, <1>1 DEF RowMap
  <2>2. rows[x] \in RowRecord
    BY <1>0 DEF RowMap
  <2>3. /\ rows'[x].state = st /\ rows'[x].runner = rows[x].runner
        /\ (rows'[x].redeemed <=> rows[x].redeemed) /\ (rows'[x].coded <=> rows[x].coded)
    BY <2>1, <2>2 DEF RowRecord
  <2>4. Forwards
    BY <1>1, <2>1, <2>3 DEF Forwards
  <2>5. Lasts
    BY <1>1, <2>1, <2>3 DEF Lasts, HasRow, StopAsked
  <2>6. ASSUME NEW y \in Dispatches, y[1] < doc.attempt PROVE rows'[y].state \notin Going
    <3>1. rows[y].state \notin Going
      BY <1>0, <2>6 DEF Agree
    <3> QED BY <1>1, <2>1, <3>1
  <2>7. ASSUME doc.state \notin RunOver, doc.step # "pending" PROVE TaskRowAgrees(rows'[Current(doc)], doc)
    <3>1. TaskRowAgrees(rows[Current(doc)], doc)
      BY <1>0, <2>7 DEF Agree
    <3>2. CASE x = Current(doc)
      <4>1. doc.task = "dispatched"
        BY <1>0, <1>1, <3>1, <3>2 DEF TaskRowAgrees, Doc
      <4> QED BY <1>1, <2>3, <3>1, <3>2, <4>1 DEF TaskRowAgrees
    <3> QED BY <1>0, <2>1, <3>1, <3>2
  <2> QED BY <1>0, <1>1, <2>4, <2>5, <2>6, <2>7 DEF Agree
<1>2. ASSUME NEW x \in Dispatches, NEW r \in Runners,
             rows' = RedeemedRows(r, x), doc' = doc, ~Refused(r, x)
      PROVE  Forwards /\ Lasts /\ Agree(rows', doc')
  <2>0. rows[x] \in RowRecord /\ rows[x].runner \in {NoRunner, r} /\ rows[x].state \notin Over
    BY <1>0, <1>2 DEF RowMap, Refused
  <2>1. /\ \A y \in Dispatches : y # x => rows'[y] = rows[y]
        /\ rows'[x] = [rows[x] EXCEPT !.runner = r, !.redeemed = TRUE]
    BY <1>0, <1>2 DEF RedeemedRows, RowMap
  <2>2. /\ rows'[x].state = rows[x].state /\ rows'[x].runner = r
        /\ rows'[x].redeemed /\ (rows'[x].coded <=> rows[x].coded)
    BY <2>0, <2>1 DEF RowRecord
  <2>3. Forwards
    BY <2>0, <2>1, <2>2 DEF Forwards
  <2>4. Lasts
    BY <1>2, <2>0, <2>1, <2>2 DEF Lasts, HasRow, StopAsked
  <2>5. \A y \in Dispatches : rows'[y].state = rows[y].state /\ (rows'[y].coded <=> rows[y].coded)
    BY <2>1, <2>2
  <2> QED BY <1>0, <1>2, <2>3, <2>4, <2>5 DEF Agree, TaskRowAgrees
<1>3. ASSUME NEW x \in Dispatches, SweepLost(x) PROVE Forwards /\ Lasts /\ Agree(rows', doc')
  BY <1>1, <1>3 DEF SweepLost, HeldRow
<1>4. ASSUME NEW x \in Dispatches, NEW to \in Progresses, Progress(x, to)
      PROVE  Forwards /\ Lasts /\ Agree(rows', doc')
  <2>1. to \in {"running", "publishing"} /\ rows[x].state \in InFlight /\ doc' = doc
    BY <1>4, DispatchAssumption DEF Progress, run
  <2> QED BY <1>1, <1>4, <2>1 DEF Progress
<1>5. ASSUME NEW r \in Runners, NEW k \in Keys, Redeem(r, k) \/ RedeemUnheard(r, k)
      PROVE  Forwards /\ Lasts /\ Agree(rows', doc')
  <2>1. Taken(r, k) \in Dispatches
    BY TakenType DEF RowInv, SafeInv, TypeInv
  <2>2. rows' = RedeemedRows(r, Taken(r, k)) /\ doc' = doc /\ ~Refused(r, Taken(r, k))
    BY <1>5 DEF Redeem, RedeemUnheard, run
  <2> QED BY <1>2, <2>1, <2>2
<1> QED BY <1>3, <1>4, <1>5

\* Rows that only go onwards go forwards and last.
LEMMA OnwardsForwards ==
    ASSUME \A x \in Dispatches : Onwards(rows[x], rows'[x]), StopAsked => StopAsked'
    PROVE  Forwards /\ Lasts
<1>1. Forwards
  BY DEF Forwards, Onwards, Over
<1>2. Lasts
  BY DEF Lasts, Onwards, HasRow
<1> QED BY <1>1, <1>2

\* The steps that write a document, but for an answer.
LEMMA DecisionOnwards ==
    ASSUME RowInv, RestAnswers \/ \E t \in Threads : Save(t) \/ RecordDispatch(t)
    PROVE  /\ Agree(rows', doc') /\ (StopAsked => StopAsked')
           /\ \A x \in Dispatches : Onwards(rows[x], rows'[x])
<1> DEFINE Goal == /\ Agree(rows', doc') /\ (StopAsked => StopAsked')
                   /\ \A x \in Dispatches : Onwards(rows[x], rows'[x])
<1>0. rows \in RowMap /\ Agree(rows, doc) /\ doc \in Doc /\ Reach(rows, doc)
  BY DEF RowInv, SafeInv, TypeInv, TypeOK, RowMap
<1>1. ASSUME NEW t \in Threads, Save(t) PROVE Goal
  <2> DEFINE e == pass[t].next
  <2>1. /\ pass[t].at = "save" /\ pass[t].was = doc.seq
        /\ doc' = e /\ rows' = Ended(Written(rows, e), e)
    BY <1>1, ZenonT(30) DEF Save
  <2>2. doc.state \notin RunOver /\ Decided(rows, doc, e)
    BY <2>1 DEF RowInv, Carries
  <2> HIDE DEF e
  <2>3. Judges(rows, doc, e)
    BY <1>0, <2>2, DecidedJudges DEF Agree
  <2>4. Agree(rows', e) /\ \A x \in Dispatches : Onwards(rows[x], rows'[x])
    BY <1>0, <2>1, <2>2, <2>3, SaveWrites
  <2>5. StopAsked => StopAsked'
    BY <2>1, <2>2, <2>3 DEF StopAsked, Judges
  <2> QED BY <2>1, <2>4, <2>5
<1>2. ASSUME NEW t \in Threads, RecordDispatch(t) PROVE Goal
  <2> DEFINE e == RecordDispatched(doc)
  <2>1. pass[t].at = "record" /\ doc.seq = pass[t].was
    BY <1>2 DEF RecordDispatch
  <2>2. pass[t].next = doc /\ doc.task = "pending" /\ doc.state = "running"
    BY <2>1 DEF RowInv, SafeInv, PassSafe
  <2>3. doc' = e /\ rows' = Published(Written(rows, e), e.attempt)
    BY <1>2, <2>2 DEF RecordDispatch
  <2>4. Agree(rows', e) /\ \A x \in Dispatches : Onwards(rows[x], rows'[x])
    BY <1>0, <2>2, <2>3, RecordWrites
  <2>5. ~StopAsked
    BY <1>0, <2>2 DEF StopAsked, Agree, RunOver
  <2> QED BY <2>3, <2>4, <2>5
<1>3. ASSUME RestAnswers PROVE Goal
  <2>1. doc.state \notin RunOver /\ rows' = Written(rows, doc)
    BY <1>3 DEF RestAnswers
  <2>2. Judges(rows, doc, doc)
    BY <1>0 DEF Judges, Keeping
  <2>3. Agree(rows', doc) /\ \A x \in Dispatches : Onwards(rows[x], rows'[x])
    BY <1>0, <2>1, <2>2, DecisionWrites
  <2>4. PICK rest \in {"first", "over"} : doc' = [doc EXCEPT !.rest = rest, !.seq = @ + 1]
    BY <1>3 DEF RestAnswers
  <2>5. /\ doc'.state = doc.state /\ doc'.step = doc.step /\ doc'.task = doc.task
        /\ (doc'.coded <=> doc.coded) /\ (doc'.stopped <=> doc.stopped)
        /\ doc'.attempt = doc.attempt /\ Current(doc') = Current(doc)
    BY <1>0, <2>4 DEF Doc, Current
  <2>6. Agree(rows', doc')
    BY <2>3, <2>5 DEF Agree, TaskRowAgrees
  <2> QED BY <2>3, <2>5, <2>6 DEF StopAsked
<1> QED BY <1>1, <1>2, <1>3

LEMMA DecisionRows ==
    ASSUME RowInv, RestAnswers \/ \E t \in Threads : Save(t) \/ RecordDispatch(t)
    PROVE  Forwards /\ Lasts /\ Agree(rows', doc')
  BY DecisionOnwards, OnwardsForwards

\* What a pass that answers carries, as it writes.
LEMMA AnswerCarries ==
    ASSUME RowInv, NEW t \in Threads, AnswerSave(t), NEW p, p = pass[t]
    PROVE  /\ p.msg \in Msg /\ p.next = Answered(doc, p.msg) /\ p.next # doc
           /\ doc.state \notin RunOver /\ Honest(p.msg) /\ p.msg \in results
           /\ p.msg.state = "cancelled" => doc.stopped
           /\ p.bind => Unreached(p.msg) \/ RedeemedBefore(rows, p.msg.row, p.msg.from)
           /\ rows[p.msg.row].runner \in {NoRunner, p.msg.from}
           /\ ~p.bind => rows[p.msg.row].runner = p.msg.from
           /\ doc' = p.next
           /\ rows' = Bound(Passed(Written(rows, p.next), p.next, p.msg), p)
<1>1. /\ p.at = "answer" /\ p.was = doc.seq /\ doc' = p.next
      /\ p.bind => rows[p.msg.row].runner \in {NoRunner, p.msg.from}
      /\ rows' = Bound(Passed(Written(rows, p.next), p.next, p.msg), p)
  BY DEF AnswerSave
<1>2. p.msg \in Msg
  BY <1>1 DEF RowInv, SafeInv, PassSafe, AnswerSafe
<1>3. Carries(p)
  BY DEF RowInv
<1>4. /\ p.next = Answered(doc, p.msg) /\ p.next # doc /\ doc.state \notin RunOver /\ Honest(p.msg)
      /\ p.bind => Unreached(p.msg) \/ RedeemedBefore(rows, p.msg.row, p.msg.from)
      /\ ~p.bind => rows[p.msg.row].runner = p.msg.from
      /\ p.msg \in results
  BY <1>1, <1>3 DEF Carries
<1>5. p.msg.state = "cancelled" => doc.stopped
  BY <1>4 DEF Honest, StopAsked
<1> QED BY <1>1, <1>2, <1>4, <1>5

\* The row an answer is of, once written and bound; the other rows go onwards.
LEMMA AnswerMoves ==
    ASSUME RowInv, NEW t \in Threads, AnswerSave(t), NEW p, p = pass[t]
    PROVE  /\ Agree(rows', doc')
           /\ \A x \in Dispatches : x # p.msg.row => Onwards(rows[x], rows'[x])
           /\ Heeds(rows[p.msg.row], rows'[p.msg.row], doc, p.msg)
           /\ rows'[p.msg.row].runner =
                IF p.bind THEN p.msg.from ELSE rows[p.msg.row].runner
           /\ (doc'.stopped <=> doc.stopped) /\ doc'.state = doc.state
<1>0. /\ p.msg \in Msg /\ p.next = Answered(doc, p.msg) /\ p.next # doc
      /\ doc.state \notin RunOver /\ rows[p.msg.row].state # "none"
      /\ p.msg.state = "cancelled" => doc.stopped
      /\ doc' = p.next
      /\ rows' = Bound(Passed(Written(rows, p.next), p.next, p.msg), p)
  BY AnswerCarries DEF Honest, HasRow
<1>1. rows \in RowMap /\ Agree(rows, doc) /\ doc \in Doc /\ Reach(rows, doc) /\ p \in Pass
  BY DEF RowInv, SafeInv, TypeInv, TypeOK, RowMap
<1> DEFINE m == p.msg
           e == p.next
           rt == Passed(Written(rows, e), e, m)
<1>2. m \in Msg /\ m.row \in Dispatches /\ m.row[1] \in Keys /\ m.row[2] \in Turns
  BY <1>0, DispatchType DEF Msg
<1>3. rt \in RowMap
  <2>1. e \in Doc /\ Written(rows, e) \in RowMap
    BY <1>1, WrittenType DEF Pass
  <2> DEFINE ru == Written(rows, e)
  <2> HIDE DEF ru, e, m
  <2>2. rt = ru \/ rt = [ru EXCEPT ![m.row] = WriteTask(ru[m.row], m.state, m.coded)]
    BY DEF Passed, ru
  <2>3. WriteTask(ru[m.row], m.state, m.coded) \in RowRecord
    <3> DEFINE row == ru[m.row]
    <3>1. row \in RowRecord /\ m.state \in Over
      BY <1>2, <2>1 DEF ru, RowMap, Msg, Over, Endings
    <3> HIDE DEF row
    <3> DEFINE w == WriteTask(row, m.state, m.coded)
    <3>2. Wrote(row, m.state, m, w)
      BY DEF Wrote
    <3> HIDE DEF w
    <3>3. Moved(row, m.state, m, w)
      BY <1>2, <3>1, <3>2, WroteMoves
    <3> QED BY <3>3 DEF Moved, w, row
  <2> QED BY <1>2, <2>1, <2>2, <2>3 DEF RowMap, ru
<1>4. /\ Agree(rt, e) /\ \A x \in Dispatches : x # m.row => Onwards(rows[x], rt[x])
      /\ Heeds(rows[m.row], rt[m.row], doc, m) /\ rt[m.row].runner = rows[m.row].runner
  <2> HIDE DEF m, e, rt
  <2>1. /\ m \in Msg /\ e = Answered(doc, m) /\ e # doc /\ doc.state \notin RunOver
        /\ rows[m.row].state # "none" /\ (m.state = "cancelled" => doc.stopped)
        /\ rt = Passed(Written(rows, e), e, m)
    BY <1>0 DEF m, e, rt
  <2> QED BY <1>1, <2>1, AnswerWrites
<1>5. (e.stopped <=> doc.stopped) /\ e.state = doc.state
  <2> HIDE DEF m, e, rt
  <2>1. m \in Msg /\ e = Answered(doc, m) /\ e # doc
    BY <1>0 DEF m, e
  <2> QED BY <1>1, <2>1, AnswerJudges
<1>6. rows' = IF p.bind THEN [rt EXCEPT ![m.row].runner = m.from] ELSE rt
  BY <1>0 DEF Bound
<1> HIDE DEF rt, m, e
<1>7. /\ \A x \in Dispatches : x # m.row => rows'[x] = rt[x]
      /\ rows'[m.row] = [rt[m.row] EXCEPT !.runner = IF p.bind THEN m.from ELSE rt[m.row].runner]
  <2>1. rt[m.row] = [rt[m.row] EXCEPT !.runner = rt[m.row].runner]
    BY <1>2, <1>3 DEF RowMap, RowRecord
  <2> QED BY <1>2, <1>3, <1>6, <2>1 DEF RowMap
<1>8. rt[m.row] \in RowRecord /\ rt[m.row].runner = rows[m.row].runner
  BY <1>2, <1>3, <1>4 DEF RowMap
<1>9. /\ rows'[m.row].state = rt[m.row].state /\ (rows'[m.row].coded <=> rt[m.row].coded)
      /\ (rows'[m.row].redeemed <=> rt[m.row].redeemed)
      /\ rows'[m.row].runner = IF p.bind THEN m.from ELSE rows[m.row].runner
  BY <1>7, <1>8 DEF RowRecord
<1>10. Agree(rows', e)
  <2>1. \A x \in Dispatches : rows'[x].state = rt[x].state /\ (rows'[x].coded <=> rt[x].coded)
    BY <1>7, <1>9
  <2>2. Current(e) \in Dispatches
    BY <1>1, CurrentType DEF Pass, e
  <2> QED BY <1>4, <2>1, <2>2 DEF Agree, TaskRowAgrees
<1>11. \A x \in Dispatches : x # m.row => Onwards(rows[x], rows'[x])
  BY <1>4, <1>7
<1>12. Heeds(rows[m.row], rows'[m.row], doc, m)
  BY <1>4, <1>9 DEF Heeds
<1> QED BY <1>0, <1>5, <1>9, <1>10, <1>11, <1>12 DEF m, e

\* The step that writes an answer.
LEMMA AnswerRows ==
    ASSUME RowInv, NEW t \in Threads, AnswerSave(t)
    PROVE  Forwards /\ Lasts /\ Agree(rows', doc')
<1>0. PICK p : p = pass[t]
  OBVIOUS
<1> DEFINE m == p.msg
           x == m.row
<1>1. /\ m \in results /\ rows[x].runner \in {NoRunner, m.from}
      /\ ~p.bind => rows[x].runner = m.from
  BY <1>0, AnswerCarries
<1>2. /\ Agree(rows', doc')
      /\ \A y \in Dispatches : y # x => Onwards(rows[y], rows'[y])
      /\ Heeds(rows[x], rows'[x], doc, m)
      /\ rows'[x].runner = IF p.bind THEN m.from ELSE rows[x].runner
      /\ (doc'.stopped <=> doc.stopped) /\ doc'.state = doc.state
  BY <1>0, AnswerMoves
<1> HIDE DEF m
<1>3. \A y \in Dispatches : rows[y].state = "lost" => rows[y].runner # NoRunner
  BY DEF RowInv, Bindings
<1>4. Forwards
  <2>1. ASSUME NEW y \in Dispatches, y # x
        PROVE  /\ rows[y].runner # NoRunner => rows'[y].runner = rows[y].runner
               /\ rows[y].coded => rows'[y].coded
               /\ rows[y].state \in Over => rows'[y].state = rows[y].state
    BY <1>2, <2>1 DEF Onwards
  <2>2. /\ rows[x].runner # NoRunner => rows'[x].runner = rows[x].runner
        /\ rows[x].coded => rows'[x].coded
        /\ rows[x].state \in Endings => rows'[x].state = rows[x].state
    BY <1>1, <1>2 DEF Heeds
  <2>3. ASSUME x \in Dispatches, rows[x].state = "lost"
        PROVE  \/ rows'[x].state = "lost"
               \/ /\ m \in results /\ m.from = rows[x].runner
                  /\ m.state = rows'[x].state \/ (doc.stopped /\ m.coded /\ rows'[x].coded)
    BY <1>1, <1>2, <1>3, <2>3 DEF Heeds
  <2> QED BY <2>1, <2>2, <2>3 DEF Forwards, Over
<1>5. Lasts
  <2>1. StopAsked => StopAsked'
    BY <1>2 DEF StopAsked
  <2>2. ASSUME NEW y \in Dispatches, y # x
        PROVE  /\ HasRow(y) => HasRow(y)'
               /\ rows[y].redeemed => rows'[y].redeemed
               /\ rows[y].runner # NoRunner => rows'[y].runner = rows[y].runner
               /\ rows'[y].state = "lost" => rows[y].state = "lost"
    BY <1>2, <2>2 DEF Onwards, HasRow
  <2>3. /\ HasRow(x) => HasRow(x)'
        /\ rows[x].redeemed => rows'[x].redeemed
        /\ rows[x].runner # NoRunner => rows'[x].runner = rows[x].runner
        /\ rows'[x].state = "lost" => rows[x].state = "lost"
    BY <1>1, <1>2 DEF Heeds, HasRow
  <2> QED BY <2>1, <2>2, <2>3 DEF Lasts
<1> QED BY <1>2, <1>4, <1>5

\* The steps that leave the document and the rows.
Quiet ==
    \/ NewTerm \/ RequestCancel \/ BackoffElapses \/ DeadlinePasses
    \/ \E t \in Threads :
        \/ FencedOut(t) \/ StaleOut(t) \/ DecideRead(t) \/ CancelRead(t) \/ Grant(t) \/ Publish(t)
        \/ Rewake(t) \/ AnswerOutbound(t) \/ Abort(t) \/ PublishFails(t)
        \/ \E m \in results : AnswerRead(t, m)
    \/ \E m \in results : AnswerRefused(m)
    \/ \E r \in Runners :
        \/ \E x \in Dispatches : TakeStep(r, x)
        \/ \E k \in Keys :
            \/ RedeemRefused(r, k) \/ Start(r, k) \/ StartCalledOff(r, k) \/ KeepResult(r, k)
            \/ \E st \in Outcomes \cup {"cancelled"} : ContainerEnds(r, k, st)
            \/ RedeemReport(r, k) \/ CarryFails(r, k) \/ ExitUnread(r, k)
        \/ \E m \in kept[r] : Flush(r, m)
        \/ Crash(r) \/ Restart(r) \/ Cut(r) \/ Heal(r)

\* The steps that do not.
Loud ==
    \/ RestAnswers
    \/ \E t \in Threads : Save(t) \/ RecordDispatch(t) \/ AnswerSave(t)
    \/ \E m \in results : AnswerReport(m)
    \/ \E x \in Dispatches : SweepLost(x) \/ \E to \in Progresses : Progress(x, to)
    \/ \E r \in Runners, k \in Keys : Redeem(r, k) \/ RedeemUnheard(r, k)

LEMMA QuietLeaves == Quiet => UNCHANGED <<doc, rows>>
<1> SUFFICES ASSUME Quiet PROVE UNCHANGED <<doc, rows>>
  OBVIOUS
<1> USE DEF run
<1>1. CASE NewTerm \/ RequestCancel \/ BackoffElapses \/ DeadlinePasses
  BY <1>1 DEF NewTerm, RequestCancel, BackoffElapses, DeadlinePasses
<1>2. ASSUME NEW t \in Threads,
             FencedOut(t) \/ StaleOut(t) \/ DecideRead(t) \/ CancelRead(t) \/ Grant(t) \/ Publish(t)
      PROVE  UNCHANGED <<doc, rows>>
  BY <1>2 DEF FencedOut, StaleOut, DecideRead, CancelRead, Grant, Publish
<1>3. ASSUME NEW t \in Threads,
             \/ Rewake(t) \/ AnswerOutbound(t) \/ Abort(t) \/ PublishFails(t)
             \/ \E m \in results : AnswerRead(t, m)
      PROVE  UNCHANGED <<doc, rows>>
  BY <1>3, ZenonT(30) DEF Rewake, AnswerOutbound, Abort, PublishFails, AnswerRead
<1>4. ASSUME NEW m \in results, AnswerRefused(m) PROVE UNCHANGED <<doc, rows>>
  BY <1>4 DEF AnswerRefused
<1>5. ASSUME NEW r \in Runners, NEW x \in Dispatches, TakeStep(r, x) PROVE UNCHANGED <<doc, rows>>
  BY <1>5 DEF TakeStep, TakeEnded, Take
<1>6. ASSUME NEW r \in Runners, NEW k \in Keys,
             RedeemRefused(r, k) \/ Start(r, k) \/ StartCalledOff(r, k) \/ KeepResult(r, k)
      PROVE  UNCHANGED <<doc, rows>>
  BY <1>6 DEF RedeemRefused, Start, StartCalledOff, KeepResult
<1>7. ASSUME NEW r \in Runners, NEW k \in Keys,
             \/ \E st \in Outcomes \cup {"cancelled"} : ContainerEnds(r, k, st)
             \/ RedeemReport(r, k) \/ CarryFails(r, k) \/ ExitUnread(r, k)
      PROVE  UNCHANGED <<doc, rows>>
  BY <1>7 DEF ContainerEnds, RecordEnding, RedeemReport, CarryFails, ExitUnread
<1>8. ASSUME NEW r \in Runners,
             (\E m \in kept[r] : Flush(r, m)) \/ Crash(r) \/ Restart(r) \/ Cut(r) \/ Heal(r)
      PROVE  UNCHANGED <<doc, rows>>
  BY <1>8 DEF Flush, Crash, Restart, Cut, Heal
<1> QED BY <1>1, <1>2, <1>3, <1>4, <1>5, <1>6, <1>7, <1>8 DEF Quiet

LEMMA QuietOrLoud == [Next]_vars => Quiet \/ Loud \/ UNCHANGED vars
  BY DEF Next, Quiet, Loud, PassStep, PassFault, AnswerStep, HostStep, HostFault

\* Every step moves the rows forwards, and keeps them and the document of one mind.
LEMMA RowsStep ==
    RowInv /\ [Next]_vars => Forwards /\ Lasts /\ Agree(rows', doc')
<1> SUFFICES ASSUME RowInv, [Next]_vars PROVE Forwards /\ Lasts /\ Agree(rows', doc')
  OBVIOUS
<1>1. CASE Quiet
  BY <1>1, QuietLeaves, QuietRows
<1>2. CASE UNCHANGED vars
  BY <1>2, QuietRows DEF vars, run
<1>3. CASE Loud
  BY <1>3, DecisionRows, AnswerRows, ReportRows, OneRow DEF Loud
<1> QED BY <1>1, <1>2, <1>3, QuietOrLoud

-----------------------------------------------------------------------------
(* The hosts. *)

\* What is fixed of the variables a host's step reads.
LEMMA HostTypes ==
    ASSUME RowInv
    PROVE  /\ TypeInv /\ HostInv /\ SafeInv
           /\ doc \in Doc /\ rows \in RowMap /\ pass \in [Threads -> Pass]
           /\ work \in [Runners -> [Keys -> Work]] /\ disk \in [Runners -> [Keys -> Entry]]
           /\ kept \in [Runners -> SUBSET Msg] /\ owed \in [Runners -> SUBSET Dispatches]
           /\ ran \in [Keys -> SUBSET Runners] /\ results \subseteq Msg /\ queue \subseteq Dispatches
  BY DEF RowInv, SafeInv, HostInv, TypeInv, TypeOK, RowMap

\* A result that was honest stays so.
LEMMA HonestLasts ==
    ASSUME Lasts, Stays, NEW m \in Msg, Honest(m)
    PROVE  Honest(m)'
<1>1. m.row \in Dispatches /\ m.row[1] \in Keys /\ m.from \in Runners
  BY DispatchType DEF Msg
<1>2. HasRow(m.row)' /\ (StopAsked => StopAsked')
  BY <1>1 DEF Lasts, Honest
<1>3. ASSUME m.coded \/ m.state = "succeeded"
      PROVE  /\ m.from \in ran'[m.row[1]]
             /\ disk'[m.from][m.row[1]] = disk[m.from][m.row[1]]
  BY <1>1, <1>3 DEF Stays, Honest
<1> QED BY <1>2, <1>3 DEF Honest

\* What a host recorded of a key and what it is bound to stand where the step leaves the key.
LEMMA KeyStands ==
    ASSUME RowInv, Lasts, Stays, NEW r \in Runners, NEW k \in Keys,
           work'[r][k] = work[r][k], disk'[r][k] = disk[r][k], r \in ran'[k] => r \in ran[k]
    PROVE  RecordOf(r, k)' /\ BindingOf(r, k)'
<1>1. RecordOf(r, k) /\ BindingOf(r, k)
  BY DEF RowInv, Records, Bindings
<1>2. RecordOf(r, k)'
  BY <1>1 DEF RecordOf, Lasts, Stays
<1>3. Taken(r, k) \in Dispatches /\ Taken(r, k)' = Taken(r, k) /\ r # NoRunner
  BY HostTypes, TakenType, ShardAssumption DEF TypeInv, Taken
<1>4. ASSUME NEW q \in Turns, HasRow(<<k, q>>), rows[<<k, q>>].runner = r
      PROVE  HasRow(<<k, q>>)' /\ rows'[<<k, q>>].runner = r
  <2>1. <<k, q>> \in Dispatches
    BY DEF Dispatches
  <2> QED BY <1>3, <1>4, <2>1 DEF Lasts
<1>5. work[r][k].at # "none" => HasRow(Taken(r, k))'
  BY <1>1, <1>3 DEF BindingOf, Lasts
<1>6. work[r][k].at = "bound" => rows'[Taken(r, k)].runner = r
  BY <1>1, <1>3 DEF BindingOf, Lasts
<1>7. r \in ran[k] => \E q \in Turns : HasRow(<<k, q>>)' /\ rows'[<<k, q>>].runner = r
  BY <1>1, <1>4 DEF BindingOf
<1> QED BY <1>2, <1>3, <1>5, <1>6, <1>7 DEF BindingOf

\* A step that is about one key of one host.
LEMMA OneKeyStands ==
    ASSUME RowInv, Lasts, Stays, NEW r \in Runners, NEW k \in Keys,
           \A s \in Runners, j \in Keys : s # r \/ j # k =>
              work'[s][j] = work[s][j] /\ disk'[s][j] = disk[s][j] /\ (s \in ran'[j] => s \in ran[j]),
           RecordOf(r, k)', BindingOf(r, k)'
    PROVE  Records' /\ Bindings'
<1>1. ASSUME NEW s \in Runners, NEW j \in Keys PROVE RecordOf(s, j)' /\ BindingOf(s, j)'
  <2>1. CASE s = r /\ j = k
    BY <2>1
  <2>2. CASE s # r \/ j # k
    BY <2>2, KeyStands
  <2> QED BY <2>1, <2>2
<1>2. ASSUME NEW x \in Dispatches, rows'[x].state = "lost" PROVE rows'[x].runner # NoRunner
  <2>1. rows[x].runner # NoRunner
    BY <1>2 DEF RowInv, Bindings, Lasts
  <2> QED BY <2>1 DEF Lasts
<1> QED BY <1>1, <1>2 DEF Records, Bindings

\* A step that leaves every key in the record, and starts none.
LEMMA NoKeyStands ==
    ASSUME RowInv, Lasts, Stays, disk' = disk, ran' = ran,
           \A s \in Runners, j \in Keys : work'[s][j] = work[s][j] \/ work'[s][j] = NoWork
    PROVE  Records' /\ Bindings'
<1>1. ASSUME NEW s \in Runners, NEW j \in Keys PROVE RecordOf(s, j)' /\ BindingOf(s, j)'
  <2>1. CASE work'[s][j] = work[s][j]
    BY <2>1, KeyStands
  <2>2. CASE work'[s][j] = NoWork
    <3>1. RecordOf(s, j) /\ (s \in ran[j] => \E q \in Turns : HasRow(<<j, q>>) /\ rows[<<j, q>>].runner = s)
      BY DEF RowInv, Records, Bindings, BindingOf
    <3>2. RecordOf(s, j)'
      BY <2>2, <3>1 DEF RecordOf, NoWork, Lasts
    <3>3. ASSUME NEW q \in Turns, HasRow(<<j, q>>), rows[<<j, q>>].runner = s
          PROVE  HasRow(<<j, q>>)' /\ rows'[<<j, q>>].runner = s
      <4>1. <<j, q>> \in Dispatches /\ s # NoRunner
        BY ShardAssumption DEF Dispatches
      <4> QED BY <3>3, <4>1 DEF Lasts
    <3>4. BindingOf(s, j)'
      <4>1. (work[s][j].at)' = "none"
        BY <2>2 DEF NoWork
      <4>2. s \in ran'[j] => \E q \in Turns : HasRow(<<j, q>>)' /\ rows'[<<j, q>>].runner = s
        BY <3>1, <3>3
      <4> QED BY <4>1, <4>2 DEF BindingOf
    <3> QED BY <3>2, <3>4
  <2> QED BY <2>1, <2>2
<1>2. ASSUME NEW x \in Dispatches, rows'[x].state = "lost" PROVE rows'[x].runner # NoRunner
  <2>1. rows[x].runner # NoRunner
    BY <1>2 DEF RowInv, Bindings, Lasts
  <2> QED BY <2>1 DEF Lasts
<1> QED BY <1>1, <1>2 DEF Records, Bindings

\* Messages old, or new and honest.
LEMMA MessagesStand ==
    ASSUME RowInv, Lasts, Stays,
           \A m \in results' : m \in results \/ (\E r \in Runners : m \in kept[r]) \/ Honest(m)',
           \A r \in Runners : /\ \A m \in kept'[r] : m \in kept[r] \/ Honest(m)'
                              /\ \A x \in owed'[r] : x \in owed[r] \/ HasRow(x)',
           \A x \in queue' : x \in queue \/ HasRow(x)'
    PROVE  Messages'
<1>0. /\ results \subseteq Msg /\ queue \subseteq Dispatches
      /\ \A r \in Runners : kept[r] \subseteq Msg /\ owed[r] \subseteq Dispatches
  BY HostTypes
<1>1. ASSUME NEW r \in Runners, NEW m \in kept[r] PROVE Honest(m)'
  BY <1>0, HonestLasts DEF RowInv, Messages
<1>2. ASSUME NEW m \in results PROVE Honest(m)'
  BY <1>0, HonestLasts DEF RowInv, Messages
<1>3. ASSUME NEW r \in Runners, NEW x \in owed[r] PROVE HasRow(x)'
  BY <1>0 DEF RowInv, Messages, Lasts
<1>4. ASSUME NEW x \in queue PROVE HasRow(x)'
  BY <1>0 DEF RowInv, Messages, Lasts
<1>5. /\ \A m \in results' : Honest(m)'
      /\ \A r \in Runners : (\A m \in kept'[r] : Honest(m)') /\ (\A x \in owed'[r] : HasRow(x)')
      /\ \A x \in queue' : HasRow(x)'
  BY <1>1, <1>2, <1>3, <1>4
<1> QED BY <1>5 DEF Messages

\* What a host says of a key it recorded the ending of.
LEMMA EndingHonest ==
    ASSUME RowInv, NEW r \in Runners, NEW x \in Dispatches, HasRow(x)
    PROVE  Honest(Ending(r, x))
<1>1. x[1] \in Keys
  BY DispatchType
<1>2. RecordOf(r, x[1])
  BY <1>1 DEF RowInv, Records
<1>3. disk[r][x[1]].coded \in BOOLEAN
  BY <1>1, HostTypes DEF Entry
<1> QED BY <1>2, <1>3 DEF RecordOf, Honest, Ending

\* What it says of a dispatch that reached no container.
LEMMA NotReachedHonest ==
    ASSUME NEW r \in Runners, NEW x \in Dispatches, HasRow(x), NEW st \in {"failed", "timed_out"}
    PROVE  Honest(NotReached(r, x, st))
  BY DEF Honest, NotReached

\* What is known of a key a step is about.
LEMMA KeyFacts ==
    ASSUME RowInv, Lasts, Stays, NEW r \in Runners, NEW k \in Keys
    PROVE  /\ Taken(r, k) \in Dispatches /\ Taken(r, k)[1] = k /\ r # NoRunner
           /\ work[r][k] \in Work /\ disk[r][k] \in Entry
           /\ RecordOf(r, k) /\ BindingOf(r, k)
           /\ \A x \in Dispatches :
                x = Taken(r, k) /\ work[r][k].at # "none" => HasRow(x) /\ HasRow(x)'
           /\ r \in ran[k] => \E q \in Turns : HasRow(<<k, q>>)' /\ rows'[<<k, q>>].runner = r
<1>1. Taken(r, k) \in Dispatches /\ Taken(r, k)[1] = k /\ r # NoRunner
  BY HostTypes, TakenType, ShardAssumption DEF TypeInv
<1>2. RecordOf(r, k) /\ BindingOf(r, k) /\ work[r][k] \in Work /\ disk[r][k] \in Entry
  BY HostTypes DEF RowInv, Records, Bindings
<1>3. ASSUME NEW q \in Turns, HasRow(<<k, q>>), rows[<<k, q>>].runner = r
      PROVE  HasRow(<<k, q>>)' /\ rows'[<<k, q>>].runner = r
  <2>1. <<k, q>> \in Dispatches
    BY DEF Dispatches
  <2> QED BY <1>1, <1>3, <2>1 DEF Lasts
<1>4. ASSUME NEW x \in Dispatches, x = Taken(r, k), work[r][k].at # "none"
      PROVE  HasRow(x) /\ HasRow(x)'
  BY <1>2, <1>4 DEF BindingOf, Lasts
<1> QED BY <1>1, <1>2, <1>3, <1>4 DEF BindingOf

\* The steps of a host on one key leave its records, its messages and its bindings in order.
LEMMA HostStands ==
    ASSUME RowInv, Lasts, Stays, NEW r \in Runners, NEW k \in Keys, HostStep(r, k) \/ HostFault(r, k)
    PROVE  Records' /\ Messages' /\ Bindings'
<1>0. PICK x \in Dispatches : x = Taken(r, k) /\ x[1] = k
  BY KeyFacts
<1> DEFINE here == work[r][k]
<1>1. /\ here \in Work /\ disk[r][k] \in Entry /\ RecordOf(r, k) /\ BindingOf(r, k) /\ r # NoRunner
      /\ here.at # "none" => HasRow(x) /\ HasRow(x)'
      /\ r \in ran[k] => \E q \in Turns : HasRow(<<k, q>>)' /\ rows'[<<k, q>>].runner = r
      /\ x = <<k, here.turn>>
  BY <1>0, KeyFacts DEF Taken
<1>2. /\ work \in [Runners -> [Keys -> Work]] /\ disk \in [Runners -> [Keys -> Entry]]
      /\ kept \in [Runners -> SUBSET Msg] /\ owed \in [Runners -> SUBSET Dispatches]
      /\ ran \in [Keys -> SUBSET Runners]
  BY HostTypes
<1>3. Honest(Ending(r, x)) \/ ~HasRow(x)
  BY EndingHonest
<1>a. ASSUME NEW m \in Msg, Honest(m) PROVE Honest(m)'
  BY <1>a, HonestLasts
\* The key is let go of.
<1>4. ASSUME Release(r, k), ran' = ran PROVE Records' /\ Bindings'
  <2>1. work'[r][k] = NoWork /\ disk'[r][k] = NoEntry
    BY <1>2, <1>4 DEF Release
  <2>2. \A s \in Runners, j \in Keys : s # r \/ j # k =>
           work'[s][j] = work[s][j] /\ disk'[s][j] = disk[s][j] /\ (s \in ran'[j] => s \in ran[j])
    BY <1>2, <1>4 DEF Release
  <2>3. RecordOf(r, k)' /\ BindingOf(r, k)'
    BY <1>1, <1>4, <2>1 DEF RecordOf, BindingOf, NoWork, NoEntry
  <2> QED BY <2>2, <2>3, OneKeyStands
\* A result of a dispatch that reached no container.
<1>5. ASSUME NEW st \in {"failed", "timed_out"}, here.at # "none"
      PROVE  /\ Honest(NotReached(r, x, st))'
             /\ \A s \in Runners : \A m \in Keep(r, NotReached(r, x, st))[s] :
                  m \in kept[s] \/ m = NotReached(r, x, st)
  <2>1. NotReached(r, x, st) \in Msg /\ Honest(NotReached(r, x, st))
    BY <1>1, <1>5, NotReachedType, NotReachedHonest
  <2>2. PICK n \in Msg : n = NotReached(r, x, st)
    BY <2>1
  <2>3. Honest(n)'
    BY <1>a, <2>1, <2>2
  <2> QED BY <1>2, <2>2, <2>3 DEF Keep
<1>6. ASSUME RedeemRefused(r, k) PROVE Records' /\ Messages' /\ Bindings'
  <2>1. Release(r, k) /\ UNCHANGED <<results, ran, kept, owed>> /\ queue' \subseteq queue
    BY <1>6 DEF RedeemRefused, Ack
  <2> QED BY <1>4, <2>1, MessagesStand
<1>7. ASSUME Redeem(r, k) PROVE Records' /\ Messages' /\ Bindings'
  <2>1. /\ work' = [work EXCEPT ![r][k].at = "bound"] /\ UNCHANGED <<results, ran, disk, kept, owed>>
        /\ queue' \subseteq queue /\ here.at = "held"
        /\ rows' = RedeemedRows(r, x)
    BY <1>0, <1>7 DEF Redeem, Holding, Ack
  <2>2. work'[r][k].at = "bound" /\ work'[r][k].turn = here.turn
    BY <1>1, <1>2, <2>1 DEF Work
  <2>3. \A s \in Runners, j \in Keys : s # r \/ j # k => work'[s][j] = work[s][j]
    BY <1>2, <2>1
  <2>4. Taken(r, k)' = x
    BY <1>1, <2>2 DEF Taken
  <2>5. rows'[x].runner = r
    <3>1. rows[x] \in RowRecord /\ rows \in RowMap
      BY HostTypes DEF RowMap
    <3> QED BY <2>1, <3>1 DEF RedeemedRows, RowMap, RowRecord
  <2>6. RecordOf(r, k)' /\ BindingOf(r, k)'
    BY <1>1, <2>1, <2>2, <2>4, <2>5 DEF RecordOf, BindingOf, Lasts
  <2> QED BY <2>1, <2>3, <2>6, OneKeyStands, MessagesStand
<1>8. ASSUME Start(r, k) PROVE Records' /\ Messages' /\ Bindings'
  <2>1. /\ work' = [work EXCEPT ![r][k].at = "running"] /\ UNCHANGED <<results, disk, kept, rows, queue>>
        /\ here.at = "bound" /\ ran' = [ran EXCEPT ![k] = @ \cup {r}]
        /\ owed' = [owed EXCEPT ![r] = @ \cup {x}]
    BY <1>0, <1>8 DEF Start, Owes, bus
  <2>2. work'[r][k].at = "running" /\ work'[r][k].turn = here.turn /\ r \in ran'[k]
    BY <1>1, <1>2, <2>1 DEF Work
  <2>3. \A s \in Runners, j \in Keys : s # r \/ j # k =>
           work'[s][j] = work[s][j] /\ (s \in ran'[j] => s \in ran[j])
    BY <1>2, <2>1
  <2>4. Taken(r, k)' = x
    BY <1>1, <2>2 DEF Taken
  <2>5. HasRow(<<k, here.turn>>)' /\ rows'[<<k, here.turn>>].runner = r /\ here.turn \in Turns
    BY <1>0, <1>1, <2>1 DEF BindingOf, Work
  <2>6. RecordOf(r, k)' /\ BindingOf(r, k)'
    BY <1>1, <2>1, <2>2, <2>4, <2>5 DEF RecordOf, BindingOf, Lasts
  <2>7. \A s \in Runners : \A y \in owed'[s] : y \in owed[s] \/ HasRow(y)'
    BY <1>1, <1>2, <2>1
  <2> QED BY <2>1, <2>3, <2>6, <2>7, OneKeyStands, MessagesStand
<1>9. ASSUME StartCalledOff(r, k) PROVE Records' /\ Messages' /\ Bindings'
  <2>1. /\ work' = [work EXCEPT ![r][k].at = "ended"] /\ UNCHANGED <<results, ran, kept, queue>>
        /\ here.at = "bound" /\ Told(k)
        /\ disk' = [disk EXCEPT ![r][k] = [state |-> "cancelled", coded |-> FALSE]]
        /\ owed' = [owed EXCEPT ![r] = @ \cup {x}]
    BY <1>0, <1>9 DEF StartCalledOff, Owes, bus
  <2>2. work'[r][k].at = "ended" /\ work'[r][k].turn = here.turn
    BY <1>1, <1>2, <2>1 DEF Work
  <2>3. \A s \in Runners, j \in Keys : s # r \/ j # k =>
           work'[s][j] = work[s][j] /\ disk'[s][j] = disk[s][j] /\ (s \in ran'[j] => s \in ran[j])
    BY <1>2, <2>1
  <2>4. Taken(r, k)' = x
    BY <1>1, <2>2 DEF Taken
  <2>5. StopAsked'
    BY <2>1 DEF Told, StopAsked, RunOver, Lasts
  <2>6. disk'[r][k].state = "cancelled" /\ ~disk'[r][k].coded
    BY <1>2, <2>1
  <2>7. RecordOf(r, k)' /\ BindingOf(r, k)'
    BY <1>1, <2>1, <2>2, <2>4, <2>5, <2>6 DEF RecordOf, BindingOf
  <2>8. \A s \in Runners : \A y \in owed'[s] : y \in owed[s] \/ HasRow(y)'
    BY <1>1, <1>2, <2>1
  <2> QED BY <2>1, <2>3, <2>7, <2>8, OneKeyStands, MessagesStand
<1>10. ASSUME NEW st \in Endings, NEW c \in BOOLEAN, RecordEnding(r, k, st, c),
              st = "cancelled" => StopAsked, st = "succeeded" => c
       PROVE  Records' /\ Messages' /\ Bindings'
  <2>1. /\ work' = [work EXCEPT ![r][k].at = "ended"] /\ UNCHANGED <<results, ran, kept, queue, owed>>
        /\ here.at = "running"
        /\ disk' = [disk EXCEPT ![r][k] = [state |-> st, coded |-> c]]
    BY <1>10 DEF RecordEnding, bus
  <2>2. work'[r][k].at = "ended" /\ work'[r][k].turn = here.turn
    BY <1>1, <1>2, <2>1 DEF Work
  <2>3. \A s \in Runners, j \in Keys : s # r \/ j # k =>
           work'[s][j] = work[s][j] /\ disk'[s][j] = disk[s][j] /\ (s \in ran'[j] => s \in ran[j])
    BY <1>2, <2>1
  <2>4. Taken(r, k)' = x
    BY <1>1, <2>2 DEF Taken
  <2>5. disk'[r][k].state = st /\ (disk'[r][k].coded <=> c)
    BY <1>2, <2>1
  <2>6. st = "cancelled" => StopAsked'
    BY <1>10 DEF Lasts
  <2>7. RecordOf(r, k)' /\ BindingOf(r, k)'
    BY <1>1, <1>10, <2>1, <2>2, <2>4, <2>5, <2>6 DEF RecordOf, BindingOf
  <2> QED BY <2>1, <2>3, <2>7, OneKeyStands, MessagesStand
<1>11. ASSUME NEW st, ContainerEnds(r, k, st) PROVE Records' /\ Messages' /\ Bindings'
  <2>1. st \in Endings /\ (st = "cancelled" => StopAsked) /\ RecordEnding(r, k, st, TRUE)
    BY <1>11, DispatchAssumption DEF ContainerEnds, Endings, Told, StopAsked, RunOver
  <2> QED BY <1>10, <2>1
<1>12. ASSUME ExitUnread(r, k) PROVE Records' /\ Messages' /\ Bindings'
  <2>1. "failed" \in Endings /\ RecordEnding(r, k, "failed", FALSE)
    BY <1>12 DEF ExitUnread, Endings
  <2> QED BY <1>10, <2>1
<1>13. ASSUME KeepResult(r, k) PROVE Records' /\ Messages' /\ Bindings'
  <2>1. /\ work' = [work EXCEPT ![r][k] = NoWork] /\ UNCHANGED <<results, ran, disk, queue>>
        /\ here.at = "ended" /\ kept' = Keep(r, Ending(r, x))
        /\ owed' = [owed EXCEPT ![r] = @ \ {x}]
    BY <1>0, <1>13 DEF KeepResult, bus
  <2>2. Ending(r, x) \in Msg
    BY <1>0, <2>1, HostTypes, EndingType DEF TypeInv, EndedRecorded
  <2>3. PICK n \in Msg : n = Ending(r, x)
    BY <2>2
  <2>4. Honest(n)'
    BY <1>1, <1>3, <1>a, <2>1, <2>3
  <2>5. \A s \in Runners : /\ \A m \in kept'[s] : m \in kept[s] \/ Honest(m)'
                          /\ \A y \in owed'[s] : y \in owed[s]
    BY <1>2, <2>1, <2>3, <2>4 DEF Keep
  <2>6. \A s \in Runners, j \in Keys : work'[s][j] = work[s][j] \/ work'[s][j] = NoWork
    BY <1>2, <2>1
  <2> QED BY <2>1, <2>5, <2>6, NoKeyStands, MessagesStand
<1>14. ASSUME RedeemUnheard(r, k) PROVE Records' /\ Messages' /\ Bindings'
  <2>1. UNCHANGED <<bus, hosts>>
    BY <1>14 DEF RedeemUnheard
  <2> QED BY <2>1, NoKeyStands, MessagesStand DEF bus, hosts
<1>15. ASSUME RedeemReport(r, k) PROVE Records' /\ Messages' /\ Bindings'
  <2>1. here.at = "held" /\ Release(r, k) /\ UNCHANGED <<ran, owed>>
    BY <1>15 DEF RedeemReport, Holding
  <2>2. PICK st \in {"failed", "timed_out"} :
          \/ /\ results' = results \cup {NotReached(r, x, st)}
             /\ queue' = queue \ {x} /\ UNCHANGED kept
          \/ kept' = Keep(r, NotReached(r, x, st)) /\ UNCHANGED <<results, queue>>
    BY <1>0, <1>15 DEF RedeemReport
  <2>3. /\ \A m \in results' : m \in results \/ Honest(m)'
        /\ \A s \in Runners : \A m \in kept'[s] : m \in kept[s] \/ Honest(m)'
        /\ queue' \subseteq queue
    BY <1>5, <2>1, <2>2
  <2> QED BY <1>4, <2>1, <2>3, MessagesStand
<1>16. ASSUME CarryFails(r, k) PROVE Records' /\ Messages' /\ Bindings'
  <2>1. here.at = "bound" /\ Release(r, k) /\ UNCHANGED <<ran, owed, results, queue>>
    BY <1>16 DEF CarryFails, bus
  <2>2. PICK st \in {"failed", "timed_out"} : kept' = Keep(r, NotReached(r, x, st))
    BY <1>0, <1>16 DEF CarryFails
  <2>3. \A s \in Runners : \A m \in kept'[s] : m \in kept[s] \/ Honest(m)'
    BY <1>5, <2>1, <2>2
  <2> QED BY <1>4, <2>1, <2>3, MessagesStand
<1> QED BY <1>6, <1>7, <1>8, <1>9, <1>11, <1>12, <1>13, <1>14, <1>15, <1>16 DEF HostStep, HostFault

\* So do what a host takes and publishes, its crashes and its restarts.
LEMMA AgentStands ==
    ASSUME RowInv, Lasts, Stays, NEW r \in Runners,
           \/ \E x \in Dispatches : TakeStep(r, x)
           \/ \E m \in kept[r] : Flush(r, m)
           \/ Crash(r) \/ Restart(r) \/ Cut(r) \/ Heal(r)
    PROVE  Records' /\ Messages' /\ Bindings'
<1>0. /\ work \in [Runners -> [Keys -> Work]] /\ disk \in [Runners -> [Keys -> Entry]]
      /\ kept \in [Runners -> SUBSET Msg] /\ owed \in [Runners -> SUBSET Dispatches]
      /\ ran \in [Keys -> SUBSET Runners] /\ queue \subseteq Dispatches
  BY HostTypes
<1>a. ASSUME NEW y \in Dispatches, HasRow(y), disk[r][y[1]].state \in Endings
      PROVE  \E n \in Msg : n = Ending(r, y) /\ Honest(n)'
  <2>1. Ending(r, y) \in Msg /\ Honest(Ending(r, y))
    BY <1>a, HostTypes, EndingType, EndingHonest DEF TypeInv
  <2>2. PICK n \in Msg : n = Ending(r, y)
    BY <2>1
  <2> QED BY <2>1, <2>2, HonestLasts
<1>1. ASSUME NEW x \in Dispatches, TakeEnded(r, x) PROVE Records' /\ Messages' /\ Bindings'
  <2>1. /\ x \in queue /\ disk[r][x[1]].state \in Endings /\ UNCHANGED hosts
        /\ results' = results \cup {Ending(r, x)} /\ queue' \subseteq queue
    BY <1>1 DEF TakeEnded, Ack
  <2>2. HasRow(x)
    BY <2>1 DEF RowInv, Messages
  <2>3. PICK n \in Msg : n = Ending(r, x) /\ Honest(n)'
    BY <1>a, <2>1, <2>2
  <2>4. \A m \in results' : m \in results \/ Honest(m)'
    BY <2>1, <2>3
  <2> QED BY <2>1, <2>4, NoKeyStands, MessagesStand DEF hosts
<1>2. ASSUME NEW x \in Dispatches, Take(r, x) PROVE Records' /\ Messages' /\ Bindings'
  <2>0. PICK k \in Keys, q \in Turns : k = x[1] /\ q = x[2] /\ x = <<k, q>>
    BY DispatchType
  <2>1. /\ x \in queue /\ UNCHANGED <<bus, owed, kept, ran>>
        /\ work' = [work EXCEPT ![r][k] = [at |-> "held", turn |-> q]]
        /\ disk' = [disk EXCEPT ![r][k] = [state |-> "taken", coded |-> FALSE]]
    BY <1>2, <2>0 DEF Take
  <2>2. HasRow(x)'
    BY <2>1 DEF RowInv, Messages, Lasts
  <2>3. work'[r][k] = [at |-> "held", turn |-> q] /\ disk'[r][k] = [state |-> "taken", coded |-> FALSE]
    BY <1>0, <2>1
  <2>4. \A s \in Runners, j \in Keys : s # r \/ j # k =>
           work'[s][j] = work[s][j] /\ disk'[s][j] = disk[s][j] /\ (s \in ran'[j] => s \in ran[j])
    BY <1>0, <2>1
  <2>5. Taken(r, k)' = x
    BY <2>0, <2>3 DEF Taken
  <2>6. r \in ran[k] => \E p \in Turns : HasRow(<<k, p>>)' /\ rows'[<<k, p>>].runner = r
    BY KeyFacts
  <2>7. RecordOf(r, k)' /\ BindingOf(r, k)'
    BY <2>1, <2>2, <2>3, <2>5, <2>6 DEF RecordOf, BindingOf, Endings
  <2> QED BY <2>1, <2>4, <2>7, OneKeyStands, MessagesStand DEF bus
<1>3. ASSUME NEW m \in kept[r], Flush(r, m) PROVE Records' /\ Messages' /\ Bindings'
  <2>1. /\ results' = results \cup {m} /\ \A s \in Runners : kept'[s] \subseteq kept[s]
        /\ UNCHANGED <<queue, owed, disk, work, ran>>
    BY <1>0, <1>3 DEF Flush
  <2> QED BY <1>3, <2>1, NoKeyStands, MessagesStand
<1>4. ASSUME Crash(r) PROVE Records' /\ Messages' /\ Bindings'
  <2>1. /\ UNCHANGED <<bus, disk, owed, kept, ran>>
        /\ work' = [work EXCEPT ![r] = [k \in Keys |-> NoWork]]
    BY <1>4 DEF Crash
  <2>2. \A s \in Runners, j \in Keys : work'[s][j] = work[s][j] \/ work'[s][j] = NoWork
    BY <1>0, <2>1
  <2> QED BY <2>1, <2>2, NoKeyStands, MessagesStand DEF bus
<1>5. ASSUME Restart(r) PROVE Records' /\ Messages' /\ Bindings'
  <2>1. /\ UNCHANGED <<bus, disk, work, ran>>
        /\ owed' = [owed EXCEPT ![r] = {}]
        /\ kept' = [kept EXCEPT ![r] =
              @ \cup {Ending(r, x) : x \in {y \in owed[r] :
                        disk[r][y[1]].state \in Endings /\ \A m \in @ : m.row # y}}]
    BY <1>5 DEF Restart
  <2>2. ASSUME NEW s \in Runners, NEW m \in kept'[s] PROVE m \in kept[s] \/ Honest(m)'
    <3>1. CASE m \in kept[s]
      BY <3>1
    <3>2. CASE m \notin kept[s]
      <4>1. PICK y \in owed[r] : m = Ending(r, y) /\ disk[r][y[1]].state \in Endings
        BY <1>0, <2>1, <2>2, <3>2
      <4>2. y \in Dispatches /\ HasRow(y)
        BY <1>0, <4>1 DEF RowInv, Messages
      <4> QED BY <1>a, <4>1, <4>2
    <3> QED BY <3>1, <3>2
  <2>3. \A s \in Runners : owed'[s] \subseteq owed[s]
    BY <1>0, <2>1
  <2> QED BY <2>1, <2>2, <2>3, NoKeyStands, MessagesStand DEF bus
<1>6. ASSUME Cut(r) \/ Heal(r) PROVE Records' /\ Messages' /\ Bindings'
  <2>1. UNCHANGED <<bus, work, disk, owed, kept, ran>>
    BY <1>6 DEF Cut, Heal
  <2> QED BY <2>1, NoKeyStands, MessagesStand DEF bus
<1> QED BY <1>1, <1>2, <1>3, <1>4, <1>5, <1>6 DEF TakeStep

\* What is no step of a host leaves the hosts, and at most publishes a dispatch that has a row.
LEMMA OthersStand ==
    ASSUME RowInv, Lasts, Stays, UNCHANGED hosts, results' \subseteq results,
           queue' \subseteq queue \/ \E t \in Threads : Publish(t)
    PROVE  Records' /\ Messages' /\ Bindings'
<1>1. ASSUME NEW t \in Threads, Publish(t), NEW x \in queue' PROVE x \in queue \/ HasRow(x)'
  <2>1. pass[t].at = "publish" /\ (queue' = queue \cup {pass[t].row} \/ queue' = queue)
    BY <1>1 DEF Publish
  <2>2. HasRow(pass[t].row) /\ UNCHANGED rows
    BY <1>1, <2>1 DEF RowInv, Carries, Publish
  <2> QED BY <1>1, <2>1, <2>2 DEF HasRow
<1>2. \A x \in queue' : x \in queue \/ HasRow(x)'
  BY <1>1
<1> QED BY <1>2, NoKeyStands, MessagesStand DEF hosts

\* The steps that are no host's.
Elsewhere ==
    \/ NewTerm \/ RequestCancel \/ BackoffElapses \/ DeadlinePasses \/ RestAnswers
    \/ \E t \in Threads : PassStep(t) \/ PassFault(t)
    \/ \E m \in results : AnswerStep(m)
    \/ \E x \in Dispatches : SweepLost(x) \/ \E to \in Progresses : Progress(x, to)

LEMMA ElsewhereLeaves ==
    Elsewhere => /\ UNCHANGED hosts /\ results' \subseteq results
                 /\ queue' \subseteq queue \/ \E t \in Threads : Publish(t)
<1> DEFINE Left == /\ UNCHANGED hosts /\ results' \subseteq results
                   /\ queue' \subseteq queue \/ \E t \in Threads : Publish(t)
<1> SUFFICES ASSUME Elsewhere PROVE Left
  OBVIOUS
<1> USE DEF bus
<1>1. CASE NewTerm \/ RequestCancel \/ BackoffElapses \/ DeadlinePasses \/ RestAnswers
  BY <1>1 DEF NewTerm, RequestCancel, BackoffElapses, DeadlinePasses, RestAnswers
<1>2. ASSUME NEW t \in Threads, PassStep(t) \/ PassFault(t) PROVE Left
  <2>1. CASE FencedOut(t) \/ StaleOut(t) \/ DecideRead(t) \/ CancelRead(t)
    BY <2>1 DEF FencedOut, StaleOut, DecideRead, CancelRead
  <2>2. CASE Save(t) \/ Grant(t) \/ RecordDispatch(t) \/ Rewake(t)
    BY <2>2 DEF Save, Grant, RecordDispatch, Rewake
  <2>3. CASE AnswerSave(t) \/ AnswerOutbound(t) \/ Abort(t) \/ PublishFails(t)
    BY <2>3 DEF AnswerSave, AnswerOutbound, Abort, PublishFails
  <2>4. ASSUME Publish(t) PROVE Left
    <3>1. UNCHANGED <<results, hosts>>
      BY <2>4 DEF Publish
    <3> QED BY <2>4, <3>1
  <2> QED BY <1>2, <2>1, <2>2, <2>3, <2>4 DEF PassStep, PassFault
<1>3. ASSUME NEW m \in results, AnswerStep(m) PROVE Left
  BY <1>3 DEF AnswerStep, AnswerRefused, AnswerReport, AnswerRead
<1>4. ASSUME NEW x \in Dispatches, SweepLost(x) \/ \E to \in Progresses : Progress(x, to) PROVE Left
  BY <1>4 DEF SweepLost, Progress
<1> QED BY <1>1, <1>2, <1>3, <1>4 DEF Elsewhere

\* The hosts that started a container of a key stay so.
LEMMA RanGrows ==
    ASSUME ran \in [Keys -> SUBSET Runners], [Next]_vars, NEW k \in Keys
    PROVE  ran[k] \subseteq ran'[k]
<1>1. CASE Elsewhere \/ UNCHANGED vars
  BY <1>1, ElsewhereLeaves DEF hosts, vars
<1>2. ASSUME NEW r \in Runners, NEW j \in Keys, HostStep(r, j) \/ HostFault(r, j)
      PROVE  ran[k] \subseteq ran'[k]
  <2>1. CASE Start(r, j)
    BY <2>1 DEF Start
  <2>2. CASE RedeemRefused(r, j) \/ Redeem(r, j) \/ StartCalledOff(r, j) \/ KeepResult(r, j)
    BY <2>2 DEF RedeemRefused, Redeem, StartCalledOff, KeepResult
  <2>3. CASE (\E st \in Outcomes \cup {"cancelled"} : ContainerEnds(r, j, st)) \/ ExitUnread(r, j)
    BY <2>3 DEF ContainerEnds, ExitUnread, RecordEnding
  <2>4. CASE RedeemUnheard(r, j) \/ RedeemReport(r, j) \/ CarryFails(r, j)
    BY <2>4 DEF RedeemUnheard, RedeemReport, CarryFails, hosts
  <2> QED BY <1>2, <2>1, <2>2, <2>3, <2>4 DEF HostStep, HostFault
<1>3. ASSUME NEW r \in Runners,
             \/ \E x \in Dispatches : TakeStep(r, x)
             \/ \E m \in kept[r] : Flush(r, m)
             \/ Crash(r) \/ Restart(r) \/ Cut(r) \/ Heal(r)
      PROVE  ran[k] \subseteq ran'[k]
  BY <1>3 DEF TakeStep, TakeEnded, Take, Flush, Crash, Restart, Cut, Heal, hosts
<1> QED BY <1>1, <1>2, <1>3 DEF Next, Elsewhere

\* And what a host recorded with a code.
LEMMA StaysStep == RowInv /\ [Next]_vars => Stays
<1> SUFFICES ASSUME RowInv, [Next]_vars PROVE Stays
  OBVIOUS
<1>1. EndedKept
  BY HostTypes, HostStepInv
<1>2. ASSUME NEW r \in Runners, NEW k \in Keys, disk[r][k].coded PROVE disk'[r][k] = disk[r][k]
  BY <1>1, <1>2 DEF RowInv, Records, RecordOf, EndedKept
<1>3. \A k \in Keys : ran[k] \subseteq ran'[k]
  BY HostTypes, RanGrows
<1> QED BY <1>2, <1>3 DEF Stays

\* Every step leaves the records, the messages and the bindings in order.
LEMMA StandStep == RowInv /\ [Next]_vars => Records' /\ Messages' /\ Bindings'
<1> SUFFICES ASSUME RowInv, [Next]_vars PROVE Records' /\ Messages' /\ Bindings'
  OBVIOUS
<1>0. Lasts /\ Stays
  BY RowsStep, StaysStep
<1>1. CASE Elsewhere
  BY <1>0, <1>1, ElsewhereLeaves, OthersStand
<1>2. CASE UNCHANGED vars
  BY <1>0, <1>2, OthersStand DEF vars, bus
<1>3. ASSUME NEW r \in Runners, NEW k \in Keys, HostStep(r, k) \/ HostFault(r, k)
      PROVE  Records' /\ Messages' /\ Bindings'
  BY <1>0, <1>3, HostStands
<1>4. ASSUME NEW r \in Runners,
             \/ \E x \in Dispatches : TakeStep(r, x)
             \/ \E m \in kept[r] : Flush(r, m)
             \/ Crash(r) \/ Restart(r) \/ Cut(r) \/ Heal(r)
      PROVE  Records' /\ Messages' /\ Bindings'
  BY <1>0, <1>4, AgentStands
<1> QED BY <1>1, <1>2, <1>3, <1>4 DEF Next, Elsewhere

-----------------------------------------------------------------------------
(* The endings of the rows, and what the passes carry. *)

EndingOf(x) ==
    rows[x].coded \/ rows[x].state = "succeeded" =>
        LET r == rows[x].runner IN
        /\ r \in ran[x[1]]
        /\ disk[r][x[1]].coded
        /\ rows[x].state = "succeeded" => disk[r][x[1]].state = "succeeded"

\* What a row says of its ending, where a step adds nothing to it.
LEMMA EndingStands ==
    ASSUME RowInv, Lasts, Stays, NEW x \in Dispatches,
           rows'[x].coded => rows[x].coded,
           rows'[x].state = "succeeded" => rows[x].state = "succeeded"
    PROVE  EndingOf(x)'
<1> SUFFICES ASSUME rows'[x].coded \/ rows'[x].state = "succeeded" PROVE EndingOf(x)'
  BY DEF EndingOf
<1>1. x[1] \in Keys /\ ran[x[1]] \subseteq Runners
  BY DispatchType, HostTypes
<1>2. EndingOf(x)
  BY DEF RowInv, EndingFromItsHost, EndingOf
<1>3. PICK r : r = rows[x].runner
  OBVIOUS
<1>4. /\ r \in Runners /\ r \in ran[x[1]] /\ disk[r][x[1]].coded
      /\ rows[x].state = "succeeded" => disk[r][x[1]].state = "succeeded"
  BY <1>1, <1>2, <1>3 DEF EndingOf
<1>5. rows'[x].runner = r /\ r \in ran'[x[1]] /\ disk'[r][x[1]] = disk[r][x[1]]
  BY <1>1, <1>3, <1>4, ShardAssumption DEF Lasts, Stays
<1> QED BY <1>4, <1>5 DEF EndingOf

\* Where it adds what a result says, of the host the row is bound to.
LEMMA EndingLands ==
    ASSUME RowInv, Lasts, Stays, NEW m \in Msg, Honest(m), NEW x, x = m.row,
           rows'[x].coded => rows[x].coded \/ m.coded,
           rows'[x].state = "succeeded" => rows[x].state = "succeeded" \/ m.state = "succeeded",
           m.coded \/ m.state = "succeeded" => rows'[x].runner = m.from
    PROVE  EndingOf(x)'
<1>1. x \in Dispatches /\ x[1] \in Keys /\ ran[x[1]] \subseteq Runners /\ m.from \in Runners
  BY DispatchType, HostTypes DEF Msg
<1>2. CASE ~(m.coded \/ m.state = "succeeded")
  BY <1>1, <1>2, EndingStands
<1>3. CASE m.coded \/ m.state = "succeeded"
  <2>1. /\ m.from \in ran[x[1]] /\ disk[m.from][x[1]].coded
        /\ m.state = "succeeded" => disk[m.from][x[1]].state = "succeeded"
    BY <1>3 DEF Honest
  <2>2. m.from \in ran'[x[1]] /\ disk'[m.from][x[1]] = disk[m.from][x[1]] /\ rows'[x].runner = m.from
    BY <1>1, <1>3, <2>1 DEF Stays
  <2>3. rows[x].state = "succeeded" => disk[m.from][x[1]].state = "succeeded"
    <3>1. EndingOf(x)
      BY <1>1 DEF RowInv, EndingFromItsHost, EndingOf
    <3> SUFFICES ASSUME rows[x].state = "succeeded" PROVE disk[m.from][x[1]].state = "succeeded"
      OBVIOUS
    <3>2. /\ rows[x].runner \in Runners
          /\ disk[rows[x].runner][x[1]].state = "succeeded"
      BY <1>1, <3>1 DEF EndingOf
    <3>3. rows[x].runner = m.from
      BY <1>1, <2>2, <3>2, ShardAssumption DEF Lasts
    <3> QED BY <3>2, <3>3
  <2> QED BY <2>1, <2>2, <2>3 DEF EndingOf
<1> QED BY <1>2, <1>3

\* Every step leaves on the rows only endings their hosts recorded.
LEMMA EndingStep == RowInv /\ [Next]_vars => EndingFromItsHost'
<1> SUFFICES ASSUME RowInv, [Next]_vars, NEW x \in Dispatches PROVE EndingOf(x)'
  BY DEF EndingFromItsHost, EndingOf
<1>0. Lasts /\ Stays /\ rows \in RowMap /\ rows[x] \in RowRecord
  BY RowsStep, StaysStep, HostTypes DEF RowMap
<1>1. CASE UNCHANGED rows
  BY <1>0, <1>1, EndingStands
<1>2. CASE Onwards(rows[x], rows'[x])
  BY <1>0, <1>2, EndingStands DEF Onwards
<1>3. ASSUME RestAnswers \/ \E t \in Threads : Save(t) \/ RecordDispatch(t)
      PROVE  EndingOf(x)'
  BY <1>2, <1>3, DecisionOnwards
<1>4. ASSUME NEW t \in Threads, AnswerSave(t) PROVE EndingOf(x)'
  <2>1. PICK p : p = pass[t]
    OBVIOUS
  <2>2. /\ p.msg \in Msg /\ Honest(p.msg)
        /\ p.bind => Unreached(p.msg) \/ RedeemedBefore(rows, p.msg.row, p.msg.from)
        /\ ~p.bind => rows[p.msg.row].runner = p.msg.from
    BY <1>4, <2>1, AnswerCarries
  <2>3. /\ \A y \in Dispatches : y # p.msg.row => Onwards(rows[y], rows'[y])
        /\ Heeds(rows[p.msg.row], rows'[p.msg.row], doc, p.msg)
        /\ rows'[p.msg.row].runner = IF p.bind THEN p.msg.from ELSE rows[p.msg.row].runner
    BY <1>4, <2>1, AnswerMoves
  <2>4. CASE x # p.msg.row
    BY <1>2, <2>3, <2>4
  <2>5. CASE x = p.msg.row
    <3>1. rows'[x].runner = p.msg.from
      BY <2>2, <2>3, <2>5
    <3> QED BY <1>0, <2>2, <2>3, <2>5, <3>1, EndingLands DEF Heeds
  <2> QED BY <2>4, <2>5
<1>5. ASSUME NEW m \in results, AnswerReport(m) PROVE EndingOf(x)'
  <2>0. m \in Msg /\ m.coded \in BOOLEAN /\ Honest(m)
    BY HostTypes DEF RowInv, Messages, Msg
  <2>1. CASE rows' = rows
    BY <1>1, <2>1
  <2>2. CASE rows' # rows
    <3>1. rows' = [rows EXCEPT ![m.row].coded = @ \/ m.coded] /\ rows[m.row].runner = m.from
      BY <1>5, <2>2 DEF AnswerReport, StopReport
    <3>2. CASE x # m.row
      <4>1. rows'[x] = rows[x]
        BY <1>0, <3>1, <3>2 DEF RowMap
      <4> QED BY <1>0, <4>1, EndingStands
    <3>3. CASE x = m.row
      <4>1. rows'[x] = [rows[x] EXCEPT !.coded = @ \/ m.coded]
        BY <1>0, <3>1, <3>3 DEF RowMap
      <4>2. /\ rows'[x].coded => rows[x].coded \/ m.coded
            /\ rows'[x].state = rows[x].state /\ rows'[x].runner = m.from
        BY <1>0, <2>0, <3>1, <3>3, <4>1 DEF RowRecord
      <4> QED BY <1>0, <2>0, <3>3, <4>2, EndingLands
    <3> QED BY <3>2, <3>3
  <2> QED BY <2>1, <2>2
<1>6. ASSUME NEW y \in Dispatches, SweepLost(y) \/ \E to \in Progresses : Progress(y, to)
      PROVE  EndingOf(x)'
  <2>1. PICK st \in {"lost", "running", "publishing"} : rows' = [rows EXCEPT ![y].state = st]
    BY <1>6, DispatchAssumption DEF SweepLost, Progress
  <2>2. rows'[x] = rows[x] \/ rows'[x] = [rows[x] EXCEPT !.state = st]
    BY <1>0, <2>1 DEF RowMap
  <2>3. (rows'[x].coded => rows[x].coded) /\ (rows'[x].state = "succeeded" => rows[x].state = "succeeded")
    BY <1>0, <2>2 DEF RowRecord
  <2> QED BY <1>0, <2>3, EndingStands
<1>7. ASSUME NEW r \in Runners, NEW k \in Keys, Redeem(r, k) \/ RedeemUnheard(r, k)
      PROVE  EndingOf(x)'
  <2>1. rows' = RedeemedRows(r, Taken(r, k))
    BY <1>7 DEF Redeem, RedeemUnheard
  <2>2. rows'[x] = rows[x] \/ rows'[x] = [rows[x] EXCEPT !.runner = r, !.redeemed = TRUE]
    BY <1>0, <2>1 DEF RowMap, RedeemedRows
  <2>3. (rows'[x].coded => rows[x].coded) /\ (rows'[x].state = "succeeded" => rows[x].state = "succeeded")
    BY <1>0, <2>2 DEF RowRecord
  <2> QED BY <1>0, <2>3, EndingStands
<1>8. CASE Loud
  BY <1>3, <1>4, <1>5, <1>6, <1>7, <1>8 DEF Loud
<1>9. CASE Quiet \/ UNCHANGED vars
  BY <1>1, <1>9, QuietLeaves DEF vars
<1> QED BY <1>8, <1>9, QuietOrLoud

\* The answer a pass carries is there, or somebody redeemed the dispatch meanwhile.
StillThere(p) ==
    p.at = "answer" /\ p.was = doc.seq =>
      p.msg \in results' \/ (p.bind /\ rows[p.msg.row].runner \notin {NoRunner, p.msg.from})

\* A step that leaves the document, the losses, and what the passes have heard.
Leaves ==
    /\ doc' = doc
    /\ \A x \in Dispatches : rows[x].state = "lost" => rows'[x].state = "lost"
    /\ \A t \in Threads : StillThere(pass[t])

\* What a pass carries stands where a step leaves that.
LEMMA CarriesStand ==
    ASSUME RowInv, Lasts, Stays, Leaves, NEW t \in Threads, NEW p, p = pass[t]
    PROVE  Carries(p)'
<1>0. /\ p \in Pass /\ Carries(p) /\ PassSafe(p, doc, rows) /\ StillThere(p)
      /\ doc \in Doc /\ doc' = doc
      /\ \A x \in Dispatches : rows[x].state = "lost" => rows'[x].state = "lost"
  BY HostTypes DEF RowInv, SafeInv, Leaves
<1>1. p.at = "publish" => HasRow(p.row)'
  BY <1>0 DEF Carries, Pass, Lasts
<1>2. ASSUME p.at = "save", p.was = doc.seq
      PROVE  doc.state \notin RunOver /\ Decided(rows', doc, p.next)
  <2>1. Current(doc) \in Dispatches
    BY <1>0, CurrentType
  <2>2. doc.state \notin RunOver /\ Decided(rows, doc, p.next)
    BY <1>0, <1>2 DEF Carries
  <2> QED BY <1>0, <2>1, <2>2 DEF Decided
<1>3. ASSUME p.at = "answer", p.was = doc.seq
      PROVE  /\ p.next = Answered(doc, p.msg) /\ p.next # doc
             /\ doc.state \notin RunOver /\ Honest(p.msg)'
             /\ p.bind => ~doc.stopped /\ (Unreached(p.msg) \/ RedeemedBefore(rows', p.msg.row, p.msg.from))
             /\ ~p.bind => rows'[p.msg.row].runner = p.msg.from
             /\ p.msg \in results' \/ (p.bind /\ rows'[p.msg.row].runner \notin {NoRunner, p.msg.from})
  <2>1. PICK m \in Msg : m = p.msg
    BY <1>0, <1>3 DEF PassSafe, AnswerSafe
  <2>2. m.row \in Dispatches /\ m.from \in Runners /\ m.from # NoRunner /\ m.row[1] \in Keys /\ m.row[2] \in Turns
    BY ShardAssumption, DispatchType DEF Msg
  <2>3. /\ p.next = Answered(doc, m) /\ p.next # doc /\ doc.state \notin RunOver /\ Honest(m)
        /\ p.bind => ~doc.stopped /\ (Unreached(m) \/ RedeemedBefore(rows, m.row, m.from))
        /\ ~p.bind => rows[m.row].runner = m.from
        /\ m \in results' \/ (p.bind /\ rows[m.row].runner \notin {NoRunner, m.from})
    BY <1>0, <1>3, <2>1 DEF Carries, StillThere
  <2>4. Honest(m)'
    BY <2>3, HonestLasts
  <2>5. RedeemedBefore(rows, m.row, m.from) => RedeemedBefore(rows', m.row, m.from)
    <3>1. \A q \in Turns : <<m.row[1], q>> \in Dispatches
      BY <2>2 DEF Dispatches
    <3> QED BY <2>2, <3>1 DEF RedeemedBefore, Lasts
  <2>6. rows[m.row].runner # NoRunner => rows'[m.row].runner = rows[m.row].runner
    BY <2>2 DEF Lasts
  <2> QED BY <2>1, <2>2, <2>3, <2>4, <2>5, <2>6
<1> QED BY <1>0, <1>1, <1>2, <1>3 DEF Carries

\* Or where it moves the document, which refuses it.
LEMMA CarriesMoved ==
    ASSUME RowInv, Lasts, doc'.seq > doc.seq, doc' \in Doc, NEW t \in Threads, NEW p, p = pass[t]
    PROVE  Carries(p)'
<1>0. /\ p \in Pass /\ Carries(p) /\ PassSafe(p, doc, rows) /\ doc.seq \in Nat /\ doc'.seq \in Nat
      /\ p.was \in Nat
  BY HostTypes DEF RowInv, SafeInv, Doc, Pass
<1>1. p.at = "publish" => HasRow(p.row)'
  BY <1>0 DEF Carries, Pass, Lasts
<1>2. p.at # "idle" => p.was # doc'.seq
  BY <1>0 DEF PassSafe
<1> QED BY <1>1, <1>2 DEF Carries

\* A pass that is no longer fresh carries the same.
LEMMA TouchedCarries ==
    ASSUME NEW p \in Pass, Carries(p)'
    PROVE  Carries([p EXCEPT !.fresh = FALSE])'
<1> PICK q : q = [p EXCEPT !.fresh = FALSE]
  OBVIOUS
<1>1. /\ q.at = p.at /\ q.row = p.row /\ q.was = p.was /\ q.next = p.next /\ q.msg = p.msg
      /\ q.bind = p.bind
  BY DEF Pass
<1>2. Carries(q)'
  BY <1>1 DEF Carries
<1> QED BY <1>2

\* A step of one pass, and at most a touch of the others.
LEMMA SlotCarries ==
    ASSUME RowInv, Lasts, Stays, TypeInv', Leaves \/ doc'.seq > doc.seq,
           NEW ps, ps = pass \/ ps = Touched(pass),
           \/ pass' = ps
           \/ \E t \in Threads : \E q : pass' = [ps EXCEPT ![t] = q] /\ Carries(q)'
    PROVE  (\A t \in Threads : Carries(pass[t]))'
<1>0. pass \in [Threads -> Pass] /\ doc' \in Doc
  BY HostTypes DEF TypeInv, TypeOK
<1>1. ASSUME NEW s \in Threads PROVE Carries(ps[s])'
  <2>0. PICK p \in Pass : p = pass[s]
    BY <1>0
  <2>1. Carries(p)'
    BY <1>0, <2>0, CarriesStand, CarriesMoved
  <2>2. ps[s] = p \/ ps[s] = [p EXCEPT !.fresh = FALSE]
    BY <1>0, <2>0, TouchedFacts
  <2>3. Carries([p EXCEPT !.fresh = FALSE])'
    BY <2>1, TouchedCarries
  <2> QED BY <2>1, <2>2, <2>3
<1>2. ASSUME NEW s \in Threads PROVE \E p : p = pass'[s] /\ Carries(p)'
  <2>1. ps \in [Threads -> Pass]
    BY <1>0, TouchedFacts
  <2>2. CASE pass' = ps
    BY <1>1, <2>2
  <2>3. ASSUME NEW t \in Threads, NEW q, pass' = [ps EXCEPT ![t] = q], Carries(q)'
        PROVE  \E p : p = pass'[s] /\ Carries(p)'
    <3>1. CASE s = t
      BY <2>1, <2>3, <3>1
    <3>2. CASE s # t
      <4>1. pass'[s] = ps[s]
        BY <2>1, <2>3, <3>2
      <4> QED BY <1>1, <4>1
    <3> QED BY <3>1, <3>2
  <2> QED BY <2>2, <2>3
<1> QED BY <1>2 DEF Carries

\* A step that takes no result leaves the passes what they have heard.
LEMMA LeavesResults ==
    ASSUME RowInv, doc' = doc, results \subseteq results',
           \A x \in Dispatches : rows[x].state = "lost" => rows'[x].state = "lost"
    PROVE  Leaves
<1>1. ASSUME NEW t \in Threads PROVE StillThere(pass[t])
  BY DEF RowInv, Carries, StillThere
<1> QED BY <1>1 DEF Leaves

\* A step that takes one, which no pass carries or whose dispatch was redeemed meanwhile.
LEMMA LeavesOthers ==
    ASSUME RowInv, doc' = doc, NEW m \in results, results' = results \ {m},
           \A x \in Dispatches : rows[x].state = "lost" => rows'[x].state = "lost",
           \A t \in Threads : pass[t].at = "answer" /\ pass[t].was = doc.seq /\ pass[t].msg = m =>
              pass[t].bind /\ rows[m.row].runner \notin {NoRunner, m.from}
    PROVE  Leaves
<1>1. ASSUME NEW t \in Threads PROVE StillThere(pass[t])
  BY DEF RowInv, Carries, StillThere
<1> QED BY <1>1 DEF Leaves

\* The steps that take a result without hearing it.
LEMMA LeavesRefused ==
    ASSUME RowInv, NEW m \in results,
           \/ AnswerRefused(m) \/ AnswerReport(m)
           \/ \E t \in Threads : AnswerOutbound(t) /\ pass[t].msg = m
    PROVE  Leaves
<1>0. doc' = doc /\ results' = results \ {m} /\ rows \in RowMap /\ m \in Msg
  BY HostTypes DEF AnswerRefused, AnswerReport, AnswerOutbound, run
<1>1. ASSUME NEW x \in Dispatches, rows[x].state = "lost" PROVE rows'[x].state = "lost"
  <2>1. CASE AnswerReport(m)
    <3>1. m.row \in Dispatches
      BY <1>0 DEF Msg
    <3>2. rows'[x] = rows[x] \/ rows'[x] = [rows[x] EXCEPT !.coded = @ \/ m.coded]
      BY <1>0, <2>1, <3>1 DEF AnswerReport, StopReport, RowMap
    <3>3. rows[x] \in RowRecord
      BY <1>0 DEF RowMap
    <3> QED BY <1>1, <3>2, <3>3 DEF RowRecord
  <2>2. CASE ~AnswerReport(m)
    BY <1>1, <2>2 DEF AnswerRefused, AnswerOutbound
  <2> QED BY <2>1, <2>2
<1>2. ASSUME NEW s \in Threads, pass[s].at = "answer", pass[s].was = doc.seq, pass[s].msg = m
      PROVE  pass[s].bind /\ rows[m.row].runner \notin {NoRunner, m.from}
  <2>1. /\ doc.state \notin RunOver /\ Answered(doc, m) # doc
        /\ pass[s].bind => ~doc.stopped /\ (Unreached(m) \/ RedeemedBefore(rows, m.row, m.from))
        /\ ~pass[s].bind => rows[m.row].runner = m.from
    BY <1>2 DEF RowInv, Carries
  <2>2. m.from # NoRunner
    BY <1>0, ShardAssumption DEF Msg
  <2>3. CASE AnswerRefused(m)
    BY <2>1, <2>2, <2>3 DEF AnswerRefused, Binds
  <2>4. CASE AnswerReport(m)
    <3>1. (doc.stopped /\ Binds(m)) \/ News(m) = doc
      BY <2>1, <2>4 DEF AnswerReport
    <3>2. News(m) # doc
      BY <2>1 DEF News, Answered
    <3>3. doc.stopped /\ rows[m.row].runner = NoRunner
      BY <3>1, <3>2 DEF Binds
    <3> QED BY <2>1, <2>2, <3>3
  <2>5. ASSUME NEW t \in Threads, AnswerOutbound(t), pass[t].msg = m
        PROVE  pass[s].bind /\ rows[m.row].runner \notin {NoRunner, m.from}
    BY <2>1, <2>2, <2>5 DEF AnswerOutbound
  <2> QED BY <2>3, <2>4, <2>5
<1> QED BY <1>0, <1>1, <1>2, LeavesOthers

\* What the passes that read carry away.
LEMMA ReadCarries ==
    ASSUME RowInv, Lasts, Stays, NEW t \in Threads,
           DecideRead(t) \/ CancelRead(t) \/ \E m \in results : AnswerRead(t, m)
    PROVE  \E q : pass' = [pass EXCEPT ![t] = q] /\ Carries(q)'
<1>0. doc' = doc /\ rows' = rows /\ results' = results
  BY ZenonT(30) DEF DecideRead, CancelRead, AnswerRead, run, bus
<1>1. ASSUME DecideRead(t) PROVE \E q : pass' = [pass EXCEPT ![t] = q] /\ Carries(q)'
  <2> DEFINE next == NextDoc(LossHeard(doc), late)
             p == [IdlePass EXCEPT !.term = token, !.was = doc.seq, !.next = next,
                                   !.wake = WakeOf(next, elapsed, late),
                                   !.start = Starts(next, elapsed), !.fresh = TRUE]
  <2>1. PICK at \in {"save", "grant", "rewake"} : pass' = [pass EXCEPT ![t] = [p EXCEPT !.at = at]]
    BY <1>1 DEF DecideRead
  <2>2. PICK q : q = [p EXCEPT !.at = at]
    OBVIOUS
  <2>3. q.at = at /\ q.was = doc.seq /\ q.next = next
    BY <2>2 DEF IdlePass
  <2>4. doc.state \notin RunOver
    BY <1>1 DEF DecideRead, Actionable
  <2>5. Decided(rows, doc, next)
    <3>1. late \in BOOLEAN
      BY DEF RowInv, SafeInv, TypeInv, TypeOK
    <3>2. LossHeard(doc) = doc \/ (rows[Current(doc)].state = "lost" /\ LossHeard(doc) = LossRecorded(doc))
      BY DEF LossHeard, LossRecorded, IsLoss
    <3> QED BY <3>1, <3>2 DEF Decided
  <2> HIDE DEF next, p
  <2>6. Carries(q)'
    BY <1>0, <2>3, <2>4, <2>5 DEF Carries
  <2> QED BY <2>1, <2>2, <2>6
<1>2. ASSUME CancelRead(t) PROVE \E q : pass' = [pass EXCEPT ![t] = q] /\ Carries(q)'
  <2>1. PICK q : /\ q = [IdlePass EXCEPT !.at = "save", !.term = token, !.was = doc.seq,
                                         !.next = Cancel(doc)]
                 /\ pass' = [pass EXCEPT ![t] = q]
    BY <1>2 DEF CancelRead
  <2>2. q.at = "save" /\ q.next = Cancel(doc)
    BY <2>1 DEF IdlePass
  <2>3. doc.state \notin RunOver
    BY <1>2 DEF CancelRead, Actionable
  <2>4. Carries(q)'
    BY <1>0, <2>2, <2>3 DEF Carries, Decided
  <2> QED BY <2>1, <2>4
<1>3. ASSUME NEW m \in results, AnswerRead(t, m)
      PROVE  \E q : pass' = [pass EXCEPT ![t] = q] /\ Carries(q)'
  <2>0. m \in Msg /\ Honest(m)
    BY HostTypes DEF RowInv, Messages
  <2>1. PICK q : /\ q = [IdlePass EXCEPT !.at = "answer", !.term = token, !.was = doc.seq,
                                         !.next = News(m), !.msg = m, !.bind = Binds(m)]
                 /\ pass' = [pass EXCEPT ![t] = q]
    BY <1>3, ZenonT(30) DEF AnswerRead
  <2>2. q.at = "answer" /\ q.was = doc.seq /\ q.next = News(m) /\ q.msg = m /\ (q.bind <=> Binds(m))
    BY <2>1 DEF IdlePass
  <2>3. /\ doc.state \notin RunOver /\ (rows[m.row].runner = m.from \/ Binds(m))
        /\ ~(doc.stopped /\ Binds(m)) /\ News(m) # doc
    BY <1>3, ZenonT(30) DEF AnswerRead
  <2>4. Honest(m)'
    BY <2>0, HonestLasts
  <2>5. /\ q.next = Answered(doc, m) /\ q.next # doc
        /\ q.bind => ~doc.stopped /\ (Unreached(m) \/ RedeemedBefore(rows, m.row, m.from))
        /\ ~q.bind => rows[m.row].runner = m.from
    BY <2>2, <2>3 DEF News, Answered, Binds
  <2>6. Carries(q)'
    BY <1>0, <2>2, <2>3, <2>4, <2>5 DEF Carries
  <2> QED BY <2>1, <2>6
<1> QED BY <1>1, <1>2, <1>3

\* A pass that carries neither a message to publish nor a decision nor an answer.
LEMMA EmptyCarries ==
    ASSUME NEW q, q.at \notin {"publish", "save", "answer"}
    PROVE  Carries(q)'
  BY DEF Carries

\* What a pass carries between its transactions.
LEMMA PassCarries ==
    ASSUME RowInv, Lasts, Stays, NEW t \in Threads,
           \/ Grant(t) \/ Publish(t) \/ PublishFails(t) \/ Rewake(t)
           \/ FencedOut(t) \/ StaleOut(t) \/ Abort(t) \/ AnswerOutbound(t)
    PROVE  \E ps, q : (ps = pass \/ ps = Touched(pass)) /\ pass' = [ps EXCEPT ![t] = q] /\ Carries(q)'
<1> DEFINE Goal == \E ps, q :
              (ps = pass \/ ps = Touched(pass)) /\ pass' = [ps EXCEPT ![t] = q] /\ Carries(q)'
<1>0. pass \in [Threads -> Pass] /\ pass[t] \in Pass
  BY HostTypes
<1>1. Carries(IdlePass)'
  BY EmptyCarries DEF IdlePass
<1>2. ASSUME NEW at \in {"idle", "rewake", "record"}, pass' = [pass EXCEPT ![t].at = at] PROVE Goal
  <2>1. PICK q : q = [pass[t] EXCEPT !.at = at]
    OBVIOUS
  <2>2. q.at = at
    BY <1>0, <2>1 DEF Pass
  <2>3. Carries(q)'
    BY <2>2, EmptyCarries
  <2> QED BY <1>0, <1>2, <2>1, <2>3
<1>3. ASSUME Grant(t) PROVE Goal
  <2>1. PICK x \in Dispatches : HasRow(x) /\ pass' = [pass EXCEPT ![t].at = "publish", ![t].row = x]
    BY <1>3 DEF Grant, IsTaskRow, HasRow
  <2>2. PICK q : q = [pass[t] EXCEPT !.at = "publish", !.row = x]
    OBVIOUS
  <2>3. q.at = "publish" /\ q.row = x
    BY <1>0, <2>2 DEF Pass
  <2>4. HasRow(x)'
    BY <2>1 DEF Lasts
  <2>5. Carries(q)'
    BY <2>3, <2>4 DEF Carries
  <2> QED BY <1>0, <2>1, <2>2, <2>5
<1>4. ASSUME Publish(t) PROVE Goal
  BY <1>2, <1>4 DEF Publish
<1>5. ASSUME PublishFails(t) PROVE Goal
  BY <1>1, <1>2, <1>5 DEF PublishFails, Idle
<1>6. ASSUME Rewake(t) PROVE Goal
  BY <1>1, <1>6 DEF Rewake, Idle
<1>7. ASSUME FencedOut(t) \/ StaleOut(t) \/ Abort(t) \/ AnswerOutbound(t) PROVE Goal
  BY <1>1, <1>7 DEF FencedOut, StaleOut, Abort, AnswerOutbound, Idle
<1> QED BY <1>3, <1>4, <1>5, <1>6, <1>7

\* The steps that move the document.
LEMMA MovesCarry ==
    ASSUME RowInv, TypeInv', Lasts, Stays,
           RestAnswers \/ \E t \in Threads : Save(t) \/ RecordDispatch(t) \/ AnswerSave(t)
    PROVE  (\A t \in Threads : Carries(pass[t]))'
<1>0. doc \in Doc /\ doc.seq \in Nat /\ pass \in [Threads -> Pass]
  BY HostTypes DEF Doc
<1>1. Carries(IdlePass)'
  BY EmptyCarries DEF IdlePass
<1>2. ASSUME RestAnswers PROVE doc'.seq > doc.seq /\ pass' = Touched(pass)
  BY <1>0, <1>2 DEF RestAnswers, Doc
<1>3. ASSUME NEW t \in Threads, Save(t)
      PROVE  /\ doc'.seq > doc.seq
             /\ \E q : pass' = [Touched(pass) EXCEPT ![t] = q] /\ Carries(q)'
  <2>1. pass[t].at = "save" /\ pass[t].was = doc.seq /\ doc' = pass[t].next
    BY <1>3, ZenonT(30) DEF Save
  <2>2. doc'.seq > doc.seq
    BY <2>1 DEF RowInv, SafeInv, PassSafe
  <2>3. PICK q : /\ pass' = [Touched(pass) EXCEPT ![t] = q]
                 /\ q = IdlePass \/ q = [pass[t] EXCEPT !.at = "grant", !.was = pass[t].next.seq, !.fresh = FALSE]
    BY <1>3, ZenonT(30) DEF Save
  <2>4. q.at \notin {"publish", "save", "answer"}
    <3>1. IdlePass.at = "idle"
      BY DEF IdlePass
    <3>2. "at" \in DOMAIN pass[t]
      BY <1>0 DEF Pass
    <3>3. PICK n : q = IdlePass \/ q = [pass[t] EXCEPT !.at = "grant", !.was = n, !.fresh = FALSE]
      BY <2>3, Zenon
    <3> QED BY <3>1, <3>2, <3>3
  <2>5. Carries(q)'
    BY <2>4, EmptyCarries
  <2> QED BY <2>2, <2>3, <2>5
<1>4. ASSUME NEW t \in Threads, RecordDispatch(t)
      PROVE  doc'.seq > doc.seq /\ pass' = [Touched(pass) EXCEPT ![t] = IdlePass]
  <2>1. pass[t].next = doc /\ doc.task = "pending"
    BY <1>4 DEF RowInv, SafeInv, PassSafe, RecordDispatch
  <2>2. doc' = RecordDispatched(doc) /\ pass' = [Touched(pass) EXCEPT ![t] = IdlePass]
    BY <1>4, <2>1 DEF RecordDispatch
  <2> QED BY <1>0, <2>1, <2>2 DEF RecordDispatched, Over, Endings, Doc
<1>5. ASSUME NEW t \in Threads, AnswerSave(t)
      PROVE  doc'.seq > doc.seq /\ pass' = [Touched(pass) EXCEPT ![t] = IdlePass]
  BY <1>5 DEF RowInv, SafeInv, PassSafe, AnswerSave
<1>6. CASE RestAnswers
  BY <1>2, <1>6, SlotCarries
<1>7. ASSUME NEW t \in Threads, Save(t) \/ RecordDispatch(t) \/ AnswerSave(t)
      PROVE  (\A s \in Threads : Carries(pass[s]))'
  <2>1. /\ doc'.seq > doc.seq
        /\ \E q : pass' = [Touched(pass) EXCEPT ![t] = q] /\ Carries(q)'
    BY <1>1, <1>3, <1>4, <1>5, <1>7
  <2> QED BY <2>1, SlotCarries
<1> QED BY <1>6, <1>7

\* What no step does to the results.
LEMMA HostsAdd ==
    ASSUME NEW r \in Runners,
           \/ \E k \in Keys : HostStep(r, k) \/ HostFault(r, k)
           \/ \E x \in Dispatches : TakeStep(r, x)
           \/ \E m \in kept[r] : Flush(r, m)
           \/ Crash(r) \/ Restart(r) \/ Cut(r) \/ Heal(r)
    PROVE  results \subseteq results' /\ pass' = pass /\ doc' = doc
<1> USE DEF run, bus, hosts
<1>1. ASSUME NEW k \in Keys, HostStep(r, k)
      PROVE  results \subseteq results' /\ pass' = pass /\ doc' = doc
  BY <1>1 DEF HostStep, RedeemRefused, Redeem, Start, StartCalledOff, ContainerEnds, RecordEnding, KeepResult
<1>2. ASSUME NEW k \in Keys, HostFault(r, k)
      PROVE  results \subseteq results' /\ pass' = pass /\ doc' = doc
  BY <1>2 DEF HostFault, RedeemUnheard, RedeemReport, CarryFails, ExitUnread, RecordEnding
<1>3. CASE (\E x \in Dispatches : TakeStep(r, x)) \/ \E m \in kept[r] : Flush(r, m)
  BY <1>3 DEF TakeStep, TakeEnded, Take, Flush
<1>4. CASE Crash(r) \/ Restart(r) \/ Cut(r) \/ Heal(r)
  BY <1>4 DEF Crash, Restart, Cut, Heal
<1> QED BY <1>1, <1>2, <1>3, <1>4

\* Every step leaves the passes carrying what they may.
LEMMA CarriesStep ==
    RowInv /\ TypeInv' /\ [Next]_vars => (\A t \in Threads : Carries(pass[t]))'
<1> SUFFICES ASSUME RowInv, TypeInv', [Next]_vars PROVE (\A t \in Threads : Carries(pass[t]))'
  OBVIOUS
<1>0. Lasts /\ Stays /\ rows \in RowMap
  BY RowsStep, StaysStep, HostTypes
<1>a. \A x \in Dispatches : rows[x].state = "lost" => x \in Dispatches /\ rows[x] \in RowRecord
  BY <1>0 DEF RowMap
<1>1. ASSUME doc' = doc, rows' = rows, results \subseteq results' PROVE Leaves
  BY <1>1, LeavesResults
<1>2. CASE UNCHANGED vars
  BY <1>0, <1>1, <1>2, SlotCarries DEF vars, run, bus
<1>3. CASE NewTerm \/ BackoffElapses \/ DeadlinePasses
  <2>1. doc' = doc /\ rows' = rows /\ results' = results /\ pass' = pass
    BY <1>3 DEF NewTerm, BackoffElapses, DeadlinePasses, run, bus
  <2> QED BY <1>0, <1>1, <2>1, SlotCarries
<1>4. CASE RequestCancel
  <2>1. doc' = doc /\ rows' = rows /\ results' = results /\ pass' = Touched(pass)
    BY <1>4 DEF RequestCancel, bus
  <2> QED BY <1>0, <1>1, <2>1, SlotCarries
<1>5. CASE RestAnswers \/ \E t \in Threads : Save(t) \/ RecordDispatch(t) \/ AnswerSave(t)
  BY <1>0, <1>5, MovesCarry
<1>6. ASSUME NEW t \in Threads, DecideRead(t) \/ CancelRead(t) \/ \E m \in results : AnswerRead(t, m)
      PROVE  (\A s \in Threads : Carries(pass[s]))'
  <2>1. doc' = doc /\ rows' = rows /\ results' = results
    BY <1>6, ZenonT(30) DEF DecideRead, CancelRead, AnswerRead, run, bus
  <2>2. \E q : pass' = [pass EXCEPT ![t] = q] /\ Carries(q)'
    BY <1>0, <1>6, ReadCarries
  <2> QED BY <1>0, <1>1, <2>1, <2>2, SlotCarries
<1>7. ASSUME NEW t \in Threads,
             \/ Grant(t) \/ Publish(t) \/ PublishFails(t) \/ Rewake(t)
             \/ FencedOut(t) \/ StaleOut(t) \/ Abort(t) \/ AnswerOutbound(t)
      PROVE  (\A s \in Threads : Carries(pass[s]))'
  <2>1. PICK ps, q : (ps = pass \/ ps = Touched(pass)) /\ pass' = [ps EXCEPT ![t] = q] /\ Carries(q)'
    BY <1>0, <1>7, PassCarries
  <2>2. Leaves
    <3>1. CASE Grant(t) \/ Publish(t) \/ PublishFails(t) \/ Rewake(t) \/ FencedOut(t) \/ StaleOut(t) \/ Abort(t)
      <4>1. doc' = doc /\ rows' = rows /\ results' = results
        BY <3>1 DEF Grant, Publish, PublishFails, Rewake, FencedOut, StaleOut, Abort, run, bus
      <4> QED BY <1>1, <4>1
    <3>2. CASE AnswerOutbound(t)
      <4>1. CASE pass[t].msg \in results
        BY <3>2, <4>1, LeavesRefused
      <4>2. CASE pass[t].msg \notin results
        <5>1. doc' = doc /\ rows' = rows /\ results \subseteq results'
          BY <3>2, <4>2 DEF AnswerOutbound, run
        <5> QED BY <1>1, <5>1
      <4> QED BY <4>1, <4>2
    <3> QED BY <1>7, <3>1, <3>2
  <2> QED BY <1>0, <2>1, <2>2, SlotCarries
<1>8. ASSUME NEW m \in results, AnswerRefused(m) \/ AnswerReport(m)
      PROVE  (\A s \in Threads : Carries(pass[s]))'
  <2>1. Leaves
    BY <1>8, LeavesRefused
  <2>2. pass' = pass
    BY <1>8 DEF AnswerRefused, AnswerReport
  <2> QED BY <1>0, <2>1, <2>2, SlotCarries
<1>9. ASSUME NEW y \in Dispatches, SweepLost(y) \/ \E to \in Progresses : Progress(y, to)
      PROVE  (\A s \in Threads : Carries(pass[s]))'
  <2>1. PICK st : rows' = [rows EXCEPT ![y].state = st] /\ (st = "lost" \/ rows[y].state # "lost")
    BY <1>9 DEF SweepLost, Progress
  <2>2. \A x \in Dispatches : rows[x].state = "lost" => rows'[x].state = "lost"
    BY <1>0, <2>1 DEF RowMap, RowRecord
  <2>3. doc' = doc /\ results' = results /\ (pass' = pass \/ pass' = Touched(pass))
    BY <1>9 DEF SweepLost, Progress, run, bus
  <2>4. Leaves
    BY <2>2, <2>3, LeavesResults
  <2> QED BY <1>0, <2>3, <2>4, SlotCarries
<1>10. ASSUME NEW r \in Runners,
           \/ \E k \in Keys : HostStep(r, k) \/ HostFault(r, k)
           \/ \E x \in Dispatches : TakeStep(r, x)
           \/ \E m \in kept[r] : Flush(r, m)
           \/ Crash(r) \/ Restart(r) \/ Cut(r) \/ Heal(r)
       PROVE  (\A s \in Threads : Carries(pass[s]))'
  <2>1. results \subseteq results' /\ pass' = pass /\ doc' = doc
    BY <1>10, HostsAdd
  <2>2. \A x \in Dispatches : rows[x].state = "lost" => rows'[x].state = "lost"
    <3>1. ASSUME NEW k \in Keys, Redeem(r, k) \/ RedeemUnheard(r, k), NEW x \in Dispatches
          PROVE  rows'[x].state = rows[x].state
      <4>1. rows' = RedeemedRows(r, Taken(r, k))
        BY <3>1 DEF Redeem, RedeemUnheard
      <4>2. rows'[x] = rows[x] \/ rows'[x] = [rows[x] EXCEPT !.runner = r, !.redeemed = TRUE]
        BY <1>0, <4>1 DEF RowMap, RedeemedRows
      <4> QED BY <1>0, <4>2 DEF RowMap, RowRecord
    <3>2. CASE \E k \in Keys : Redeem(r, k) \/ RedeemUnheard(r, k)
      BY <3>1, <3>2
    <3>3. CASE ~\E k \in Keys : Redeem(r, k) \/ RedeemUnheard(r, k)
      <4>1. Quiet
        BY <1>10, <3>3 DEF Quiet, HostStep, HostFault
      <4> QED BY <4>1, QuietLeaves
    <3> QED BY <3>2, <3>3
  <2>3. Leaves
    BY <2>1, <2>2, LeavesResults
  <2> QED BY <1>0, <2>1, <2>3, SlotCarries
<1>11. Next \/ UNCHANGED vars
  OBVIOUS
<1> QED BY <1>2, <1>3, <1>4, <1>5, <1>6, <1>7, <1>8, <1>9, <1>10, <1>11
        DEF Next, PassStep, PassFault, AnswerStep

\* At first there is no row, and nothing of any.
LEMMA RowInit == Init => RowInv
<1> SUFFICES ASSUME Init PROVE RowInv
  OBVIOUS
<1>1. SafeInv /\ HeldNotEnded
  BY SafeInit, HostInit DEF HostInv
<1>2. \A x \in Dispatches : rows[x] = NoRow
  BY DEF Init
<1>3. /\ NoRow.state = "none" /\ ~NoRow.coded /\ "none" \notin Going /\ "none" # "succeeded"
  BY DEF NoRow, Going, InFlight
<1>4. /\ ~doc.stopped /\ doc.step = "pending" /\ doc.task = "pending"
      /\ ~doc.coded /\ doc.state # "running"
  BY DEF Init, StartDoc
<1>5. Agree(rows, doc)
  BY <1>2, <1>3, <1>4 DEF Agree
<1>6. Records
  BY DEF Init, Records, RecordOf, NoEntry, NoWork
<1>7. Messages
  BY DEF Init, Messages
<1>8. Bindings
  BY <1>2, <1>3 DEF Init, Bindings, BindingOf, NoWork
<1>9. EndingFromItsHost
  BY <1>2, <1>3 DEF EndingFromItsHost
<1>10. \A t \in Threads : Carries(pass[t])
  BY DEF Init, IdlePass, Carries
<1> QED
  BY <1>1, <1>5, <1>6, <1>7, <1>8, <1>9, <1>10 DEF RowInv

\* Every step keeps the inductive invariant.
LEMMA RowStepInv == RowInv /\ [Next]_vars => RowInv'
<1> SUFFICES ASSUME RowInv, [Next]_vars PROVE RowInv'
  OBVIOUS
<1>1. SafeInv' /\ TypeInv'
  BY SafeStep, TypeStep, HostTypes
<1>2. HeldNotEnded'
  BY HostTypes, HostStepInv DEF HostInv
<1>3. Agree(rows, doc)'
  BY RowsStep
<1>4. Records' /\ Messages' /\ Bindings'
  BY StandStep
<1>5. EndingFromItsHost'
  BY EndingStep
<1>6. (\A t \in Threads : Carries(pass[t]))'
  BY <1>1, CarriesStep
<1> QED
  BY <1>1, <1>2, <1>3, <1>4, <1>5, <1>6 DEF RowInv

\* The inductive invariant holds throughout.
LEMMA RowAlways == Spec => []RowInv
  BY RowInit, RowStepInv, PTL DEF Spec

(***************************************************************************)
(* The rows say what the run's document says, after every decision,        *)
(* answer, loss and requeue in whatever order they are written: a task     *)
(* waiting has a pending row, one handed out a row in flight or lost, one  *)
(* that is over the row of its ending, and no other row is under way.      *)
(***************************************************************************)
THEOREM RowsFollowDocumentHolds == Spec => []RowsFollowDocument
<1>1. RowInv => RowsFollowDocument
  <2> SUFFICES ASSUME RowInv, doc.state \notin RunOver, doc.step # "pending"
               PROVE  /\ TaskRowAgrees(rows[Current(doc)], doc)
                      /\ \A x \in Dispatches : x # Current(doc) => rows[x].state \notin Going
    BY DEF RowsFollowDocument, TaskRowAgrees
  <2>1. doc \in Doc /\ Reach(rows, doc) /\ Agree(rows, doc)
    BY HostTypes DEF RowInv, SafeInv
  <2>2. doc.attempt \in Nat /\ doc.requeue \in Nat
    BY <2>1, CurrentType, DispatchType
  <2>3. TaskRowAgrees(rows[Current(doc)], doc)
    BY <2>1 DEF Agree
  <2>4. ASSUME NEW x \in Dispatches, x # Current(doc) PROVE rows[x].state \notin Going
    <3>0. x = <<x[1], x[2]>> /\ x[1] \in Nat /\ x[2] \in Nat
      BY DispatchType
    <3>1. CASE x[1] < doc.attempt
      BY <2>1, <3>1 DEF Agree
    <3>2. CASE x[1] >= doc.attempt
      <4>1. x[1] > doc.attempt \/ x[2] # doc.requeue
        BY <2>2, <2>4, <3>0, <3>2 DEF Current
      <4> QED BY <2>1, <2>2, <3>0, <3>2, <4>1 DEF Reach, Going, InFlight
    <3> QED BY <2>2, <3>0, <3>1, <3>2
  <2> QED BY <2>3, <2>4
<1> QED
  BY <1>1, RowAlways, PTL

(***************************************************************************)
(* A success or a code on a row is what the host bound to it recorded of a *)
(* container it started: no result of another host, repeated, late, or of  *)
(* a dispatch the host was never reached for, reads as work that was done. *)
(***************************************************************************)
THEOREM EndingFromItsHostHolds == Spec => []EndingFromItsHost
<1>1. RowInv => EndingFromItsHost
  BY DEF RowInv
<1> QED
  BY <1>1, RowAlways, PTL

(***************************************************************************)
(* No step gives a row's binding to another runner, takes a code back or   *)
(* changes an ending, but for a loss overtaken by a result of the runner   *)
(* that was bound to it.                                                   *)
(***************************************************************************)
THEOREM RowsOnlyMoveForwardsHolds == Spec => RowsOnlyMoveForwards
<1>1. RowInv /\ [Next]_vars => RowInv'
  BY RowStepInv
<1>2. RowInv /\ [Next]_vars => [Forwards]_vars
  BY RowsStep
<1>3. Spec => [][Forwards]_vars
  BY <1>1, <1>2, RowInit, PTL DEF Spec
<1> QED
  BY <1>3 DEF RowsOnlyMoveForwards, Forwards

\* As many runners were bound to a set of turns as it has members, at most.
LEMMA BoundTo ==
    ASSUME NEW S, IsFiniteSet(S), NEW f, NEW R, \A r \in R : \E q \in S : f[q] = r
    PROVE  IsFiniteSet(R) /\ Cardinality(R) <= Cardinality(S)
<1>1. PICK U : U = {q \in S : f[q] \in R}
  OBVIOUS
<1>2. IsFiniteSet(U) /\ Cardinality(U) <= Cardinality(S)
  BY <1>1, FS_Subset
<1>3. [q \in U |-> f[q]] \in Surjection(U, R)
  BY <1>1 DEF Surjection
<1>4. IsFiniteSet(R) /\ Cardinality(R) <= Cardinality(U)
  BY <1>2, <1>3, FS_Surjection
<1>5. Cardinality(R) \in Nat /\ Cardinality(U) \in Nat /\ Cardinality(S) \in Nat
  BY <1>2, <1>4, FS_CardinalityType
<1> QED
  BY <1>2, <1>4, <1>5

(***************************************************************************)
(* A key is started on one host more than dispatches of it were lost, at   *)
(* most, however often its messages are delivered and published again: a   *)
(* host starts what it redeemed a row for, the row keeps that runner, and  *)
(* only one row of a key is not lost.                                      *)
(***************************************************************************)
THEOREM AnotherHostOnlyAfterLossHolds == Spec => []AnotherHostOnlyAfterLoss
<1>1. RowInv => AnotherHostOnlyAfterLoss
  <2> SUFFICES ASSUME RowInv, NEW k \in Keys
               PROVE  Cardinality(ran[k]) <=
                         1 + Cardinality({q \in Turns : rows[<<k, q>>].state = "lost"})
    BY DEF AnotherHostOnlyAfterLoss
  <2>1. PICK L : L = {q \in Turns : rows[<<k, q>>].state = "lost"}
    OBVIOUS
  <2>2. PICK S : S = {q \in Turns : HasRow(<<k, q>>)}
    OBVIOUS
  <2>3. IsFiniteSet(Turns)
    BY ShardAssumption, FS_Interval DEF Turns
  <2>4. IsFiniteSet(L) /\ IsFiniteSet(S) /\ Cardinality(L) \in Nat /\ Cardinality(S) \in Nat
    BY <2>1, <2>2, <2>3, FS_Subset, FS_CardinalityType
  <2>5. \E q : S \subseteq L \cup {q}
    <3>1. CASE \E q \in S : q \notin L
      <4>1. PICK q \in S : q \notin L
        BY <3>1
      <4>2. ASSUME NEW p \in S, p \notin L PROVE p = q
        <5>1. <<k, p>> \in Dispatches /\ <<k, q>> \in Dispatches
          BY <2>2, <4>1, <4>2 DEF Dispatches
        <5> QED
          BY <2>1, <2>2, <4>1, <4>2, <5>1 DEF RowInv, SafeInv, OneLive, HasRow
      <4> QED BY <4>2
    <3> QED BY <3>1
  <2>6. Cardinality(S) <= 1 + Cardinality(L)
    <3>1. PICK q : S \subseteq L \cup {q}
      BY <2>5
    <3>2. IsFiniteSet(L \cup {q}) /\ Cardinality(L \cup {q}) <= 1 + Cardinality(L)
      <4>1. /\ IsFiniteSet(L \cup {q})
            /\ Cardinality(L \cup {q}) = IF q \in L THEN Cardinality(L) ELSE Cardinality(L) + 1
        BY <2>4, FS_AddElement, Zenon
      <4> QED BY <2>4, <4>1
    <3>3. Cardinality(S) <= Cardinality(L \cup {q})
      BY <3>1, <3>2, FS_Subset
    <3>4. Cardinality(L \cup {q}) \in Nat
      BY <3>2, FS_CardinalityType
    <3> QED BY <2>4, <3>2, <3>3, <3>4
  <2>7. ASSUME NEW r \in ran[k] PROVE \E q \in S : [p \in Turns |-> rows[<<k, p>>].runner][q] = r
    <3>1. r \in Runners /\ BindingOf(r, k)
      BY HostTypes DEF RowInv, Bindings
    <3> QED BY <2>2, <3>1 DEF BindingOf
  <2>8. IsFiniteSet(ran[k]) /\ Cardinality(ran[k]) <= Cardinality(S)
    BY <2>4, <2>7, BoundTo
  <2>9. Cardinality(ran[k]) \in Nat
    BY <2>8, FS_CardinalityType
  <2>10. Cardinality(ran[k]) <= 1 + Cardinality(L)
    BY <2>4, <2>6, <2>8, <2>9
  <2> QED
    BY <2>1, <2>10
<1> QED
  BY <1>1, RowAlways, PTL
=============================================================================
