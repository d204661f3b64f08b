--------------------------- MODULE DispatchProofs ---------------------------
(***************************************************************************)
(* Every variable of Dispatch stays in its type.  TypeOK is not inductive  *)
(* alone: a result is made of what a host recorded of a key, and is one    *)
(* only because a key whose container ended has its ending on disk.        *)
(*                                                                         *)
(* First, what the operators of Shard return, for every document and every *)
(* row: the facts that all proofs about Dispatch rest on.  Last, the three *)
(* promises of the rows that rest on the order of transactions.            *)
(***************************************************************************)
EXTENDS Dispatch, TLAPS

USE DEF Keys, Turns, Dispatches, Endings, Over, Going, InFlight, RunOver, Failures

\* The code of a shard that was stopped leaves it at its dispatch, in its run.
LEMMA StoppedExitFacts ==
    ASSUME NEW d \in Doc, NEW q \in Turns, NEW st \in Over, NEW c \in BOOLEAN,
           NEW e, e = StoppedExit(d, q, st, c)
    PROVE  /\ e \in Doc
           /\ e = d \/ e.seq = d.seq + 1
           /\ Current(e) = Current(d)
           /\ e.state = d.state /\ e.step = d.step
<1> PICK n \in Nat : n = d.seq + 1
  BY DEF Doc
<1> DEFINE f == [d EXCEPT !.coded = TRUE, !.seq = n]
<1>1. f \in Doc
  BY DEF Doc
<1>2. e \in {d, f}
  BY DEF StoppedExit
<1>3. f.seq = n /\ Current(f) = Current(d) /\ f.state = d.state /\ f.step = d.step
  BY DEF Doc, Current
<1> QED BY <1>1, <1>2, <1>3

\* What an ending does to the document: nothing; or the code of a stop, or the
\* verdict, on the dispatch the document is at; or the next requeue, where it
\* was lost; or the next attempt, where it failed.
LEMMA RecordFacts ==
    ASSUME NEW d \in Doc, NEW k \in Keys, NEW q \in Turns, NEW st \in Over,
           NEW c \in BOOLEAN, NEW e, e = Record(d, k, q, st, c)
    PROVE  /\ e \in Doc
           /\ e = d \/ (e.seq = d.seq + 1 /\ k = d.attempt)
           /\ e.state = d.state /\ e.step = d.step
           /\ \/ Current(e) = Current(d)
              \/ /\ st = "lost" /\ <<k, q>> = Current(d)
                 /\ e.attempt = d.attempt /\ e.requeue = d.requeue + 1
              \/ /\ st # "lost" /\ <<k, q>> = Current(d)
                 /\ e.attempt = d.attempt + 1 /\ e.requeue = 0
           /\ <<k, q>> = Current(d) /\ d.task \notin Over => e.seq = d.seq + 1
<1> PICK n \in Nat : n = d.seq + 1
  BY DEF Doc
<1>d. d.attempt \in Keys /\ d.requeue \in Turns /\ d.seq \in Nat
  BY DEF Doc
<1>0. CASE k # d.attempt \/ (d.task \notin Over /\ q # d.requeue)
  <2>1. e = d
    BY <1>0 DEF Record
  <2> QED
    BY <1>0, <2>1 DEF Current
<1>1. CASE k = d.attempt /\ d.task \in Over
  <2>1. e = StoppedExit(d, q, st, c)
    BY <1>1 DEF Record
  <2> QED
    BY <1>1, <2>1, StoppedExitFacts, SMTT(30)
<1> DEFINE again == [d EXCEPT !.task = "pending", !.coded = FALSE, !.waiting = FALSE, !.seq = n]
<1>2. CASE k = d.attempt /\ d.task \notin Over /\ q = d.requeue /\ Requeued(d, st)
  <2> PICK u \in Turns : u = d.requeue + 1
    BY <1>2, <1>d, ShardAssumption DEF Requeued
  <2> DEFINE f == [again EXCEPT !.requeue = u]
  <2>1. e = f
    BY <1>2 DEF Record
  <2>2. f \in Doc
    BY DEF Doc
  <2>3. f.seq = n /\ f.state = d.state /\ f.step = d.step /\ f.attempt = d.attempt /\ f.requeue = u
    BY DEF Doc
  <2>4. st = "lost"
    BY <1>2 DEF Requeued, Requeueable
  <2> QED
    BY <1>2, <1>d, <2>1, <2>2, <2>3, <2>4 DEF Current
<1>3. CASE k = d.attempt /\ d.task \notin Over /\ q = d.requeue /\ ~Requeued(d, st) /\ NextAttempt(d, st, c)
  <2> PICK a \in Keys : a = d.attempt + 1
    BY <1>3, <1>d, ShardAssumption DEF NextAttempt
  <2>0. (Backoff /\ c) \in BOOLEAN
    OBVIOUS
  <2> DEFINE f == [again EXCEPT !.attempt = a, !.requeue = 0, !.waiting = Backoff /\ c]
  <2>1. e = f
    BY <1>3 DEF Record
  <2>1a. ASSUME NEW g \in Doc, NEW u \in Turns, NEW w \in BOOLEAN
         PROVE  [g EXCEPT !.attempt = a, !.requeue = u, !.waiting = w] \in Doc
    BY DEF Doc
  <2>1b. again \in Doc
    BY DEF Doc
  <2>2. f \in Doc
    <3>1. 0 \in Turns
      BY ShardAssumption
    <3> HIDE DEF again
    <3> QED
      BY <2>0, <2>1a, <2>1b, <3>1, Zenon
  <2>3. f.seq = n /\ f.state = d.state /\ f.step = d.step /\ f.attempt = a /\ f.requeue = 0
    BY DEF Doc
  <2>4. st # "lost"
    BY <1>3 DEF NextAttempt
  <2> QED
    BY <1>3, <1>d, <2>1, <2>2, <2>3, <2>4 DEF Current
<1>4. CASE k = d.attempt /\ d.task \notin Over /\ q = d.requeue /\ ~Requeued(d, st) /\ ~NextAttempt(d, st, c)
  <2> DEFINE f == [again EXCEPT !.task = st, !.coded = c]
  <2>1. e = f
    BY <1>4 DEF Record
  <2>2. f \in Doc
    BY DEF Doc
  <2>3. f.seq = n /\ f.state = d.state /\ f.step = d.step /\ f.attempt = d.attempt /\ f.requeue = d.requeue
    BY DEF Doc
  <2> QED
    BY <1>4, <1>d, <2>1, <2>2, <2>3 DEF Current
<1> QED
  BY <1>0, <1>1, <1>2, <1>3, <1>4

\* Recording a dispatch leaves the document at the dispatch.
LEMMA RecordDispatchedFacts ==
    ASSUME NEW d \in Doc, NEW e, e = RecordDispatched(d)
    PROVE  /\ e \in Doc
           /\ e = d \/ e.seq = d.seq + 1
           /\ Current(e) = Current(d)
           /\ e.state = d.state /\ e.step = d.step
<1> PICK n \in Nat : n = d.seq + 1
  BY DEF Doc
<1> DEFINE f == [d EXCEPT !.task = "dispatched", !.coded = FALSE, !.waiting = FALSE, !.seq = n]
<1>1. f \in Doc
  BY DEF Doc
<1>2. e \in {d, f}
  BY DEF RecordDispatched
<1>3. f.seq = n /\ Current(f) = Current(d) /\ f.state = d.state /\ f.step = d.step
  BY DEF Doc, Current
<1> QED BY <1>1, <1>2, <1>3

\* A run that ends under its task moves the sequence and not the dispatch.
LEMMA EndRunFacts ==
    ASSUME NEW d \in Doc, NEW st \in RunOver, NEW e, e = EndRun(d, st)
    PROVE  /\ e \in Doc /\ e.seq = d.seq + 1
           /\ Current(e) = Current(d)
           /\ e.step = "pending" => d.step = "pending"
<1> PICK n \in Nat : n = d.seq + 1
  BY DEF Doc
<1> PICK s \in {"pending", "running", "ended"} :
        s = IF d.step = "running" THEN "ended" ELSE d.step
  BY DEF Doc
<1> DEFINE f == [d EXCEPT !.state = st, !.seq = n, !.step = s]
<1>1. f \in Doc
  BY DEF Doc
<1>2. e = f
  BY DEF EndRun
<1>3. f.seq = n /\ Current(f) = Current(d) /\ f.step = s
  BY DEF Doc, Current
<1> QED BY <1>1, <1>2, <1>3

\* A pass over the graph moves the sequence or nothing, and never the dispatch.
LEMMA NextDocFacts ==
    ASSUME NEW d \in Doc, NEW l \in BOOLEAN, NEW e, e = NextDoc(d, l)
    PROVE  /\ e \in Doc
           /\ e = d \/ e.seq = d.seq + 1
           /\ Current(e) = Current(d)
           /\ e.step = "pending" => d.step = "pending"
<1> DEFINE d1 == Begun(d)
           d2 == Settled(d1)
           d3 == Superseded(d2)
           d4 == Judged(d3)
           Same(x) == /\ x \in Doc /\ x.seq = d.seq
                      /\ Current(x) = Current(d)
                      /\ x.step = "pending" => d.step = "pending"
<1>1. Same(d1)
  BY DEF Begun, Doc, Current
<1> HIDE DEF d1
<1>2. Same(d2)
  BY <1>1 DEF Settled, Doc, Current
<1> HIDE DEF d2
<1>3. Same(d3)
  <2> DEFINE f == [d2 EXCEPT !.step = "ended", !.task = "cancelled", !.coded = FALSE,
                             !.stopped = TRUE, !.waiting = FALSE]
  <2>0. f \in Doc
    BY <1>2 DEF Doc
  <2>1. Same(f)
    BY <1>2, <2>0 DEF Doc, Current
  <2>2. d3 \in {d2, f}
    BY DEF Superseded
  <2> QED
    BY <1>2, <2>1, <2>2
<1> HIDE DEF d3
<1>4. Same(d4)
  BY <1>3 DEF Judged, Doc, Current
<1> HIDE DEF d4
<1> PICK n \in Nat : n = d.seq + 1
  BY DEF Doc
<1> DEFINE f == [d4 EXCEPT !.seq = n]
<1>5. f \in Doc /\ f.seq = n /\ Current(f) = Current(d4) /\ f.step = d4.step
  BY <1>4 DEF Doc, Current
<1>6. e \in {d, EndRun(d, "timed_out"), f}
  <2>1. f = [d4 EXCEPT !.seq = @ + 1]
    BY <1>4
  <2> HIDE DEF f
  <2> QED
    BY <2>1 DEF NextDoc, d4, d3, d2, d1
<1>7. CASE e = EndRun(d, "timed_out")
  BY <1>7, EndRunFacts
<1> QED
  BY <1>4, <1>5, <1>6, <1>7

\* Cancelling moves the sequence of a run that goes on, and not the dispatch.
LEMMA CancelFacts ==
    ASSUME NEW d \in Doc, NEW e, e = Cancel(d)
    PROVE  /\ e \in Doc
           /\ d.state \notin RunOver => e.seq = d.seq + 1
           /\ Current(e) = Current(d)
           /\ e.step = "pending" => d.step = "pending"
  BY EndRunFacts DEF Cancel

----------------------------------------------------------------------------
(* What the writes of the rows do. *)

RowMap == [Dispatches -> RowRecord]

\* A row written is lost only where it was lost, or was written so.
LEMMA WriteTaskFacts ==
    ASSUME NEW row \in RowRecord, NEW st \in {"none"} \cup Going \cup Over, NEW c \in BOOLEAN
    PROVE  /\ WriteTask(row, st, c) \in RowRecord
           /\ WriteTask(row, st, c).state \in {row.state, st}
           /\ row.state = "lost" /\ st \in Going => WriteTask(row, st, c).state = "lost"
<1> PICK s \in {row.state, st} : s = IF Keeps(row, st, c) THEN row.state ELSE st
  OBVIOUS
<1>1. (row.coded \/ c) \in BOOLEAN
  OBVIOUS
<1>2. s \in {"none"} \cup Going \cup Over
  BY DEF RowRecord
<1>3. ASSUME NEW b \in BOOLEAN
      PROVE  /\ [row EXCEPT !.state = s, !.coded = b] \in RowRecord
             /\ [row EXCEPT !.state = s, !.coded = b].state = s
  BY <1>2 DEF RowRecord
<1>4. WriteTask(row, st, c) = [row EXCEPT !.state = s, !.coded = row.coded \/ c]
  BY DEF WriteTask
<1>5. row.state = "lost" /\ st \in Going => s = "lost"
  BY DEF Keeps
<1> QED
  BY <1>1, <1>3, <1>4, <1>5, Zenon

\* A decision writes the row of its dispatch and no other, and keeps a loss
\* against a state that is still going.
LEMMA WrittenFacts ==
    ASSUME NEW rs \in RowMap, NEW d \in Doc, NEW x \in Dispatches
    PROVE  /\ Written(rs, d) \in RowMap
           /\ x # Current(d) \/ d.step = "pending" => Written(rs, d)[x] = rs[x]
           /\ x = Current(d) /\ d.step # "pending" =>
                /\ Written(rs, d)[x].state \in {rs[x].state, d.task}
                /\ rs[x].state = "lost" /\ d.task \in Going => Written(rs, d)[x].state = "lost"
<1>1. Current(d) \in Dispatches
  BY DEF Doc, Current
<1>2. rs[Current(d)] \in RowRecord /\ d.task \in {"none"} \cup Going \cup Over /\ d.coded \in BOOLEAN
  BY <1>1 DEF RowMap, Doc
<1> DEFINE y == Current(d)
           v == WriteTask(rs[y], d.task, d.coded)
<1>3. v \in RowRecord /\ v.state \in {rs[y].state, d.task}
      /\ (rs[y].state = "lost" /\ d.task \in Going => v.state = "lost")
  BY <1>2, WriteTaskFacts
<1>4. Written(rs, d) = IF d.step = "pending" THEN rs ELSE [rs EXCEPT ![y] = v]
  BY DEF Written
<1> HIDE DEF v, y
<1> QED
  BY <1>1, <1>3, <1>4 DEF RowMap, y

\* Ending a run's rows ends those that were going and leaves the others.
LEMMA EndTasksFacts ==
    ASSUME NEW rs \in RowMap, NEW st \in Endings
    PROVE  /\ EndTasks(rs, st) \in RowMap
           /\ \A x \in Dispatches : EndTasks(rs, st)[x].state =
                IF rs[x].state \in Going THEN st ELSE rs[x].state
  BY DEF EndTasks, RowMap, RowRecord

\* The stamp of a publication changes the state of no row.
LEMMA PublishedFacts ==
    ASSUME NEW rs \in RowMap, NEW k \in Keys
    PROVE  /\ Published(rs, k) \in RowMap
           /\ \A x \in Dispatches : Published(rs, k)[x].state = rs[x].state
<1>1. ASSUME NEW row \in RowRecord
      PROVE  /\ [row EXCEPT !.published = TRUE] \in RowRecord
             /\ [row EXCEPT !.published = TRUE].state = row.state
  BY DEF RowRecord
<1> HIDE DEF Dispatches
<1> QED
  BY <1>1 DEF Published, RowMap

HIDE DEF Keys, Turns, Dispatches, Endings, Over, Going, InFlight, RunOver, Failures

-----------------------------------------------------------------------------
\* The values a run, a row, a host and a pass begin with are of their types.
LEMMA Constants ==
    /\ 1 \in Keys /\ 0 \in Turns
    /\ StartDoc \in Doc /\ NoRow \in RowRecord /\ NoWork \in Work /\ NoEntry \in Entry
    /\ IdlePass \in Pass
<1>1. 1 \in Keys /\ 0 \in Turns
  BY ShardAssumption DEF Keys, Turns
<1>2. StartDoc \in Doc
  BY <1>1 DEF StartDoc, Doc
<1>3. NoRow \in RowRecord /\ NoWork \in Work /\ NoEntry \in Entry
  BY <1>1 DEF NoRow, RowRecord, NoWork, Work, NoEntry, Entry
<1>4. IdlePass \in Pass
  BY <1>1, <1>2 DEF IdlePass, Pass, Dispatches
<1> QED
  BY <1>1, <1>2, <1>3, <1>4

\* A key whose container has ended has its ending on disk.
EndedRecorded ==
    \A r \in Runners, k \in Keys :
        work[r][k].at = "ended" => disk[r][k].state \in Endings

\* The inductive invariant.
TypeInv == TypeOK /\ EndedRecorded

\* Nothing has happened, and every variable is in its type.
LEMMA TypeInit == Init => TypeInv
<1> SUFFICES ASSUME Init PROVE TypeInv
  OBVIOUS
<1> USE DEF Init
<1>1. /\ token \in Nat /\ doc \in Doc /\ wake \in {"none", "due", "clock"}
      /\ cancelAsked \in BOOLEAN /\ elapsed \in BOOLEAN /\ late \in BOOLEAN
      /\ sent \subseteq Dispatches /\ queue \subseteq Dispatches /\ results \subseteq Msg
  BY Constants
<1>1a. faults \in 0..MaxFaults
  BY DispatchAssumption
<1>2. rows \in [Dispatches -> RowRecord] /\ pass \in [Threads -> Pass]
  BY Constants
<1>3. /\ link \in [Runners -> {"up", "cut", "down"}]
      /\ work \in [Runners -> [Keys -> Work]]
      /\ disk \in [Runners -> [Keys -> Entry]]
      /\ box \in [Runners -> [Keys -> BOOLEAN]]
  BY Constants
<1>4. /\ owed \in [Runners -> SUBSET Dispatches]
      /\ kept \in [Runners -> SUBSET Msg]
      /\ ran \in [Keys -> SUBSET Runners]
  OBVIOUS
<1>5. EndedRecorded
  BY DEF EndedRecorded, NoWork
<1> QED
  BY <1>1, <1>1a, <1>2, <1>3, <1>4, <1>5 DEF TypeInv, TypeOK

\* Writing the runs row takes the freshness of every pass and nothing else.
LEMMA TouchedFacts ==
    ASSUME NEW ps \in [Threads -> Pass]
    PROVE  /\ Touched(ps) \in [Threads -> Pass]
           /\ \A t \in Threads : Touched(ps)[t] = [ps[t] EXCEPT !.fresh = FALSE]
<1>1. ASSUME NEW p \in Pass PROVE [p EXCEPT !.fresh = FALSE] \in Pass
  BY DEF Pass
<1> QED
  BY <1>1 DEF Touched

\* What a host says of a key it recorded the ending of is a result.
LEMMA EndingType ==
    ASSUME TypeOK, NEW r \in Runners, NEW x \in Dispatches, disk[r][x[1]].state \in Endings
    PROVE  Ending(r, x) \in Msg
<1>1. x[1] \in Keys
  BY DEF Dispatches
<1>2. disk[r][x[1]] \in Entry
  BY <1>1 DEF TypeOK
<1> QED
  BY <1>2 DEF Ending, Msg, Entry

\* What a host says of a dispatch that reached no container is a result.
LEMMA NotReachedType ==
    ASSUME NEW r \in Runners, NEW x \in Dispatches, NEW st \in {"failed", "timed_out"}
    PROVE  NotReached(r, x, st) \in Msg
  BY DEF NotReached, Msg, Endings

\* The dispatch a host took a key for is a dispatch of that key.
LEMMA TakenType ==
    ASSUME TypeOK, NEW r \in Runners, NEW k \in Keys
    PROVE  Taken(r, k) \in Dispatches /\ Taken(r, k)[1] = k
<1>1. work[r][k] \in Work
  BY DEF TypeOK
<1> QED
  BY <1>1 DEF Taken, Work, Dispatches

\* Keeping a result leaves results on the host's disk.
LEMMA KeepType ==
    ASSUME TypeOK, NEW r \in Runners, NEW m \in Msg
    PROVE  Keep(r, m) \in [Runners -> SUBSET Msg]
  BY DEF TypeOK, Keep

\* The faults, the clocks and the requests keep every variable in its type.
LEMMA TypeOutside ==
    ASSUME TypeInv,
           \/ NewTerm \/ RequestCancel \/ BackoffElapses \/ DeadlinePasses
           \/ \E r \in Runners : Cut(r) \/ Heal(r) \/ Crash(r) \/ Restart(r)
    PROVE  TypeInv'
<1> USE DispatchAssumption, Constants DEF TypeInv, TypeOK, EndedRecorded, Fault, run, clocks, bus, hosts
<1>1. CASE NewTerm
  BY <1>1 DEF NewTerm
<1>2. CASE RequestCancel
  BY <1>2, TouchedFacts DEF RequestCancel
<1>3. CASE BackoffElapses
  BY <1>3 DEF BackoffElapses
<1>4. CASE DeadlinePasses
  BY <1>4 DEF DeadlinePasses
<1>5. ASSUME NEW r \in Runners, Cut(r) PROVE TypeInv'
  BY <1>5 DEF Cut
<1>6. ASSUME NEW r \in Runners, Heal(r) PROVE TypeInv'
  BY <1>6 DEF Heal
<1>7. ASSUME NEW r \in Runners, Crash(r) PROVE TypeInv'
  BY <1>7 DEF Crash, NoWork
<1>8. ASSUME NEW r \in Runners, Restart(r) PROVE TypeInv'
  <2>1. kept' \in [Runners -> SUBSET Msg]
    <3>1. \A x \in owed[r] : disk[r][x[1]].state \in Endings => Ending(r, x) \in Msg
      BY EndingType
    <3> QED
      BY <1>8, <3>1 DEF Restart
  <2> QED
    BY <1>8, <2>1 DEF Restart
<1> QED
  BY <1>1, <1>2, <1>3, <1>4, <1>5, <1>6, <1>7, <1>8

\* So do the steps of a host.
LEMMA TypeHost ==
    ASSUME TypeInv, NEW r \in Runners, NEW k \in Keys, HostStep(r, k) \/ HostFault(r, k)
    PROVE  TypeInv'
<1> USE DispatchAssumption, Constants, TakenType
    DEF TypeInv, TypeOK, EndedRecorded, Fault, NoFault, run, clocks, bus, hosts, Ack, Release
<1> DEFINE x == Taken(r, k)
<1>0. x \in Dispatches /\ x[1] = k
  OBVIOUS
<1>1. CASE RedeemRefused(r, k)
  BY <1>1 DEF RedeemRefused, NoWork
<1>a. RedeemedRows(r, x) \in [Dispatches -> RowRecord]
  <2>1. ASSUME NEW row \in RowRecord
        PROVE  [row EXCEPT !.runner = r, !.redeemed = TRUE] \in RowRecord
    BY DEF RowRecord
  <2> QED
    BY <1>0, <2>1 DEF RedeemedRows
<1>2. CASE Redeem(r, k)
  <2>1. work' \in [Runners -> [Keys -> Work]] /\ EndedRecorded'
    <3> PICK w \in Work : w = work[r][k]
      OBVIOUS
    <3> DEFINE v == [w EXCEPT !.at = "bound"]
    <3>1. v \in Work /\ v.at = "bound"
      BY DEF Work
    <3>1a. disk' = disk
      BY <1>2 DEF Redeem
    <3>2. work' = [work EXCEPT ![r][k] = v]
      BY <1>2 DEF Redeem
    <3> HIDE DEF v
    <3>3. /\ work' \in [Runners -> [Keys -> Work]] /\ work'[r][k] = v
          /\ \A s \in Runners, j \in Keys : s # r \/ j # k => work'[s][j] = work[s][j]
      BY <3>1, <3>2
    <3> HIDE DEF TypeOK
    <3> QED
      BY <3>1, <3>1a, <3>3
  <2> QED
    BY <1>2, <1>a, <2>1 DEF Redeem
<1>3. CASE RedeemUnheard(r, k)
  BY <1>3, <1>a DEF RedeemUnheard
<1>4. CASE RedeemReport(r, k)
  BY <1>4, <1>0, NotReachedType, KeepType DEF RedeemReport, NoWork
<1>5. CASE CarryFails(r, k)
  BY <1>5, <1>0, NotReachedType, KeepType DEF CarryFails, NoWork
<1>6. CASE Start(r, k)
  <2>1. work' \in [Runners -> [Keys -> Work]] /\ EndedRecorded'
    <3> PICK w \in Work : w = work[r][k]
      OBVIOUS
    <3> DEFINE v == [w EXCEPT !.at = "running"]
    <3>1. v \in Work /\ v.at = "running"
      BY DEF Work
    <3>1a. disk' = disk
      BY <1>6 DEF Start
    <3>2. work' = [work EXCEPT ![r][k] = v]
      BY <1>6 DEF Start
    <3> HIDE DEF v
    <3>3. /\ work' \in [Runners -> [Keys -> Work]] /\ work'[r][k] = v
          /\ \A s \in Runners, j \in Keys : s # r \/ j # k => work'[s][j] = work[s][j]
      BY <3>1, <3>2
    <3> HIDE DEF TypeOK
    <3> QED
      BY <3>1, <3>1a, <3>3
  <2> QED
    BY <1>0, <1>6, <2>1 DEF Start, Owes
<1>b. ASSUME NEW st \in Endings, NEW c \in BOOLEAN,
             work' = [work EXCEPT ![r][k].at = "ended"],
             disk' = [disk EXCEPT ![r][k] = [state |-> st, coded |-> c]]
      PROVE  /\ work' \in [Runners -> [Keys -> Work]]
             /\ disk' \in [Runners -> [Keys -> Entry]]
             /\ EndedRecorded'
  <2> DEFINE e == [state |-> st, coded |-> c]
  <2>1. e \in Entry /\ e.state \in Endings
    BY DEF Entry
  <2>2. disk' = [disk EXCEPT ![r][k] = e]
    BY <1>b
  <2> HIDE DEF e
  <2>3. disk' \in [Runners -> [Keys -> Entry]] /\ disk'[r][k] = e
        /\ \A s \in Runners, j \in Keys : s # r \/ j # k => disk'[s][j] = disk[s][j]
    BY <2>1, <2>2
  <2>4. /\ work' \in [Runners -> [Keys -> Work]]
        /\ \A s \in Runners, j \in Keys : s # r \/ j # k => work'[s][j] = work[s][j]
    <3> PICK w \in Work : w = work[r][k]
      OBVIOUS
    <3> DEFINE v == [w EXCEPT !.at = "ended"]
    <3>1. v \in Work
      BY DEF Work
    <3>2. work' = [work EXCEPT ![r][k] = v]
      BY <1>b
    <3> HIDE DEF v
    <3> QED
      BY <3>1, <3>2
  <2>5. EndedRecorded'
    <3> HIDE DEF TypeOK
    <3> QED
      BY <2>1, <2>3, <2>4, SMTT(30)
  <2> QED
    BY <2>3, <2>4, <2>5
<1>7. CASE StartCalledOff(r, k)
  <2>1. /\ work' \in [Runners -> [Keys -> Work]]
        /\ disk' \in [Runners -> [Keys -> Entry]]
        /\ EndedRecorded'
    <3>1. "cancelled" \in Endings /\ FALSE \in BOOLEAN
      BY DEF Endings
    <3> QED
      BY <1>7, <1>b, <3>1 DEF StartCalledOff
  <2> QED
    BY <1>0, <1>7, <2>1 DEF StartCalledOff, Owes
<1>8. ASSUME NEW st \in Endings, NEW c \in BOOLEAN, RecordEnding(r, k, st, c), faults' \in 0..MaxFaults
      PROVE  TypeInv'
  <2>1. /\ work' \in [Runners -> [Keys -> Work]]
        /\ disk' \in [Runners -> [Keys -> Entry]]
        /\ EndedRecorded'
    BY <1>8, <1>b DEF RecordEnding
  <2> QED
    BY <1>8, <2>1 DEF RecordEnding
<1>9. CASE \E st \in Outcomes \cup {"cancelled"} : ContainerEnds(r, k, st)
  BY <1>8, <1>9 DEF ContainerEnds, Endings
<1>10. CASE ExitUnread(r, k)
  <2>1. "failed" \in Endings /\ FALSE \in BOOLEAN
    BY DEF Endings
  <2>2. RecordEnding(r, k, "failed", FALSE) /\ faults' \in 0..MaxFaults
    <3>1. faults' \in 0..MaxFaults
      BY <1>10 DEF ExitUnread
    <3> QED
      BY <1>10, <3>1, Zenon DEF ExitUnread
  <2> QED
    BY <1>8, <2>1, <2>2
<1>11. CASE KeepResult(r, k)
  <2>1. Ending(r, x) \in Msg
    BY <1>0, <1>11, EndingType DEF KeepResult
  <2> QED
    BY <1>0, <1>11, <2>1, KeepType DEF KeepResult, NoWork
<1> QED
  BY <1>1, <1>2, <1>3, <1>4, <1>5, <1>6, <1>7, <1>9, <1>10, <1>11 DEF HostStep, HostFault

\* The rows of a run that is over are over; those of a run going on stay.
LEMMA EndedFacts ==
    ASSUME NEW rs \in RowMap, NEW d \in Doc
    PROVE  /\ Ended(rs, d) \in RowMap
           /\ \A x \in Dispatches :
                /\ rs[x].state \notin Going => Ended(rs, d)[x].state = rs[x].state
                /\ rs[x].state \in Going => Ended(rs, d)[x].state \notin {"none", "lost"}
                /\ d.state \in RunOver => Ended(rs, d)[x].state \notin Going
           /\ d.state \notin RunOver => Ended(rs, d) = rs
<1> USE DEF Endings, Over, Going, InFlight, RunOver
<1> DEFINE st == IF d.state = "timed_out" THEN "timed_out" ELSE "cancelled"
<1>1. st \in Endings
  OBVIOUS
<1>2. /\ EndTasks(rs, st) \in RowMap
      /\ \A x \in Dispatches : EndTasks(rs, st)[x].state =
           IF rs[x].state \in Going THEN st ELSE rs[x].state
  BY <1>1, EndTasksFacts
<1>3. Ended(rs, d) = IF d.state \in RunOver THEN EndTasks(rs, st) ELSE rs
  BY DEF Ended
<1>4. CASE d.state \in RunOver
  <2> HIDE DEF st
  <2> QED BY <1>1, <1>2, <1>3, <1>4
<1>5. CASE d.state \notin RunOver
  BY <1>3, <1>5, SMTT(30)
<1> QED
  BY <1>4, <1>5

\* What a pass carries away from what it read.
LEMMA PassTypes ==
    /\ \A p \in Pass, at \in {"idle", "save", "grant", "publish", "record", "rewake", "answer"} :
         [p EXCEPT !.at = at] \in Pass
    /\ \A p \in Pass, x \in Dispatches : [p EXCEPT !.at = "publish", !.row = x] \in Pass
    /\ \A p \in Pass, n \in Nat : [p EXCEPT !.at = "grant", !.was = n, !.fresh = FALSE] \in Pass
    /\ \A p \in Pass, tm \in Nat, n \in Nat, d \in Doc, w \in {"none", "due", "clock"}, s \in BOOLEAN :
         [p EXCEPT !.term = tm, !.was = n, !.next = d, !.wake = w, !.start = s, !.fresh = TRUE] \in Pass
    /\ \A p \in Pass, tm \in Nat, n \in Nat, d \in Doc :
         [p EXCEPT !.at = "save", !.term = tm, !.was = n, !.next = d] \in Pass
    /\ \A p \in Pass, tm \in Nat, n \in Nat, d \in Doc, m \in Msg, b \in BOOLEAN :
         [p EXCEPT !.at = "answer", !.term = tm, !.was = n, !.next = d, !.msg = m, !.bind = b] \in Pass
<1>1. \A p \in Pass, at \in {"idle", "save", "grant", "publish", "record", "rewake", "answer"} :
         [p EXCEPT !.at = at] \in Pass
  BY DEF Pass
<1>2. \A p \in Pass, x \in Dispatches : [p EXCEPT !.at = "publish", !.row = x] \in Pass
  BY DEF Pass
<1>3. \A p \in Pass, n \in Nat : [p EXCEPT !.at = "grant", !.was = n, !.fresh = FALSE] \in Pass
  BY DEF Pass
<1>4. \A p \in Pass, tm \in Nat, n \in Nat, d \in Doc, w \in {"none", "due", "clock"}, s \in BOOLEAN :
         [p EXCEPT !.term = tm, !.was = n, !.next = d, !.wake = w, !.start = s, !.fresh = TRUE] \in Pass
  <2>1. \A p \in Pass, tm \in Nat, n \in Nat, d \in Doc :
          [p EXCEPT !.term = tm, !.was = n, !.next = d] \in Pass
    BY DEF Pass
  <2>2. \A p \in Pass, w \in {"none", "due", "clock"}, s \in BOOLEAN, f \in BOOLEAN :
          [p EXCEPT !.wake = w, !.start = s, !.fresh = f] \in Pass
    BY DEF Pass
  <2>3. \A p \in Pass, tm \in Nat, n \in Nat, d \in Doc, w \in {"none", "due", "clock"}, s \in BOOLEAN, f \in BOOLEAN :
          [p EXCEPT !.term = tm, !.was = n, !.next = d, !.wake = w, !.start = s, !.fresh = f]
            = [[p EXCEPT !.term = tm, !.was = n, !.next = d] EXCEPT !.wake = w, !.start = s, !.fresh = f]
    BY DEF Pass
  <2> QED
    BY <2>1, <2>2, <2>3
<1>5. \A p \in Pass, tm \in Nat, n \in Nat, d \in Doc :
         [p EXCEPT !.at = "save", !.term = tm, !.was = n, !.next = d] \in Pass
  BY DEF Pass
<1>6. \A p \in Pass, tm \in Nat, n \in Nat, d \in Doc, m \in Msg, b \in BOOLEAN :
         [p EXCEPT !.at = "answer", !.term = tm, !.was = n, !.next = d, !.msg = m, !.bind = b] \in Pass
  BY DEF Pass
<1> QED
  BY <1>1, <1>2, <1>3, <1>4, <1>5, <1>6

\* A loss heard is the next requeue or the verdict, or no news.
LEMMA LossHeardFacts ==
    ASSUME NEW d \in Doc, rows \in RowMap, NEW e, e = LossHeard(d)
    PROVE  /\ e \in Doc
           /\ e = d \/ e.seq = d.seq + 1
           /\ e.state = d.state /\ e.step = d.step
           /\ \/ Current(e) = Current(d)
              \/ /\ rows[Current(d)].state = "lost"
                 /\ e.attempt = d.attempt /\ e.requeue = d.requeue + 1
           /\ IsLoss(rows, Current(d)) /\ d.task \notin Over => e.seq = d.seq + 1
<1>1. d.attempt \in Keys /\ d.requeue \in Turns /\ "lost" \in Over /\ FALSE \in BOOLEAN
  BY DEF Doc, Over
<1>2. CASE ~IsLoss(rows, Current(d))
  BY <1>2 DEF LossHeard
<1>3. CASE IsLoss(rows, Current(d))
  <2> PICK c \in BOOLEAN : c = FALSE
    OBVIOUS
  <2> PICK k \in Keys, q \in Turns, st \in Over : k = d.attempt /\ q = d.requeue /\ st = "lost"
    BY <1>1
  <2>1. e = Record(d, k, q, st, c)
    BY <1>3 DEF LossHeard
  <2>2. /\ e \in Doc
        /\ e = d \/ (e.seq = d.seq + 1 /\ k = d.attempt)
        /\ e.state = d.state /\ e.step = d.step
        /\ \/ Current(e) = Current(d)
           \/ /\ st = "lost" /\ <<k, q>> = Current(d)
              /\ e.attempt = d.attempt /\ e.requeue = d.requeue + 1
           \/ /\ st # "lost" /\ <<k, q>> = Current(d)
              /\ e.attempt = d.attempt + 1 /\ e.requeue = 0
        /\ <<k, q>> = Current(d) /\ d.task \notin Over => e.seq = d.seq + 1
    BY <2>1, RecordFacts
  <2> QED
    BY <1>3, <2>2 DEF IsLoss, Current
<1> QED
  BY <1>2, <1>3

\* The rows stay rows as a decision is written.
LEMMA WrittenType ==
    ASSUME NEW rs \in RowMap, NEW d \in Doc
    PROVE  Written(rs, d) \in RowMap
<1>1. Current(d) \in Dispatches
  BY DEF Current, Doc, Dispatches
<1> QED
  BY <1>1, WrittenFacts

\* The rows an answer writes.
LEMMA AnswerRowsType ==
    ASSUME NEW rs \in RowMap, NEW p \in Pass
    PROVE  Bound(Passed(rs, p.next, p.msg), p) \in RowMap
<1>1. /\ p.msg.row \in Dispatches /\ p.msg.from \in Runners \cup {NoRunner}
      /\ p.msg.state \in Endings \cup {"none"} /\ p.msg.coded \in BOOLEAN
  <2>1. p.msg \in Msg \cup {NoMsg} /\ <<1, 0>> \in Dispatches
    BY Constants DEF Pass, Dispatches
  <2>2. CASE p.msg \in Msg
    BY <2>2 DEF Msg
  <2>3. CASE p.msg = NoMsg
    BY <2>1, <2>3 DEF NoMsg
  <2> QED
    BY <2>1, <2>2, <2>3
<1> PICK x \in Dispatches, r \in Runners \cup {NoRunner}, st \in Endings \cup {"none"}, c \in BOOLEAN :
        x = p.msg.row /\ r = p.msg.from /\ st = p.msg.state /\ c = p.msg.coded
  BY <1>1
<1> DEFINE v == WriteTask(rs[x], st, c)
<1>2. v \in RowRecord
  <2>1. rs[x] \in RowRecord /\ st \in {"none"} \cup Going \cup Over
    BY DEF RowMap, Over
  <2> QED
    BY <2>1, WriteTaskFacts
<1>3. Passed(rs, p.next, p.msg) \in {rs, [rs EXCEPT ![x] = v]}
  BY DEF Passed
<1> HIDE DEF v
<1>4. PICK ps \in RowMap : ps = Passed(rs, p.next, p.msg)
  BY <1>2, <1>3 DEF RowMap
<1>5. Bound(ps, p) \in {ps, [ps EXCEPT ![x].runner = r]}
  BY DEF Bound
<1>6. [ps EXCEPT ![x].runner = r] \in RowMap
  BY DEF RowMap, RowRecord
<1> QED
  BY <1>4, <1>5, <1>6

\* So do the steps of a pass, and its failures.
LEMMA TypePass ==
    ASSUME TypeInv, NEW t \in Threads, PassStep(t) \/ PassFault(t)
    PROVE  TypeInv'
<1> USE DEF TypeInv, Fault, NoFault, run, clocks, bus, hosts
<1>0. /\ doc \in Doc /\ rows \in RowMap /\ pass \in [Threads -> Pass] /\ token \in Nat
      /\ doc.seq \in Nat
      /\ late \in BOOLEAN /\ elapsed \in BOOLEAN
  BY DEF TypeOK, RowMap, Doc
<1>1. PICK p \in Pass : p = pass[t]
  BY <1>0
<1>2. \A q \in Pass : [pass EXCEPT ![t] = q] \in [Threads -> Pass]
  BY <1>0
<1>3. \A q \in Pass : [Touched(pass) EXCEPT ![t] = q] \in [Threads -> Pass]
  BY <1>0, TouchedFacts
<1>4. ASSUME pass' \in [Threads -> Pass], UNCHANGED <<token, run, clocks, rows, bus, hosts>>,
             faults' \in 0..MaxFaults
      PROVE  TypeInv'
  BY <1>4 DEF TypeOK, EndedRecorded
<1>5. faults \in 0..MaxFaults /\ (Fault => faults' \in 0..MaxFaults)
  BY DispatchAssumption DEF TypeOK
<1>6. CASE FencedOut(t) \/ StaleOut(t)
  BY <1>2, <1>4, <1>5, <1>6, Constants DEF FencedOut, StaleOut, Idle
<1>7. CASE Abort(t)
  BY <1>2, <1>4, <1>5, <1>7, Constants DEF Abort, Idle
<1>8. CASE DecideRead(t)
  <2> DEFINE next == NextDoc(LossHeard(doc), late)
             clock == WakeOf(next, elapsed, late)
             start == Starts(next, elapsed)
             q == [IdlePass EXCEPT !.term = token, !.was = doc.seq, !.next = next,
                                   !.wake = clock, !.start = start, !.fresh = TRUE]
  <2>1. next \in Doc
    <3>1. PICK d \in Doc : d = LossHeard(doc)
      BY <1>0, LossHeardFacts
    <3>2. NextDoc(d, late) \in Doc
      BY <1>0, NextDocFacts
    <3> QED
      BY <3>1, <3>2
  <2>2. clock \in {"none", "due", "clock"} /\ start \in BOOLEAN
    BY DEF WakeOf, Starts
  <2>3. q \in Pass
    <3> HIDE DEF next, clock, start
    <3> QED
      BY <1>0, <2>1, <2>2, Constants, PassTypes
  <2>4. pass' \in {[pass EXCEPT ![t] = [q EXCEPT !.at = "save"]],
                   [pass EXCEPT ![t] = [q EXCEPT !.at = "grant"]],
                   [pass EXCEPT ![t] = [q EXCEPT !.at = "rewake"]]}
    BY <1>8 DEF DecideRead
  <2> HIDE DEF q
  <2>5. pass' \in [Threads -> Pass]
    BY <1>2, <2>3, <2>4, PassTypes
  <2> QED
    BY <1>4, <1>5, <1>8, <2>5 DEF DecideRead
<1>9. CASE CancelRead(t)
  <2>1. Cancel(doc) \in Doc
    BY <1>0, CancelFacts
  <2>2. [IdlePass EXCEPT !.at = "save", !.term = token, !.was = doc.seq, !.next = Cancel(doc)] \in Pass
    BY <1>0, <2>1, Constants, PassTypes
  <2>3. pass' \in [Threads -> Pass]
    BY <1>2, <1>9, <2>2 DEF CancelRead
  <2> QED
    BY <1>4, <1>5, <1>9, <2>3 DEF CancelRead
<1>10. CASE Save(t)
  <2>1. p.next \in Doc /\ p.next.seq \in Nat /\ p.wake \in {"none", "due", "clock"}
    BY DEF Pass, Doc
  <2>2. rows' \in RowMap
    <3>1. PICK rs \in RowMap : rs = Written(rows, p.next)
      BY <1>0, <2>1, WrittenType
    <3> QED
      BY <1>1, <1>10, <2>1, <3>1, EndedFacts DEF Save
  <2>3. pass' \in [Threads -> Pass]
    <3>1. [p EXCEPT !.at = "grant", !.was = p.next.seq, !.fresh = FALSE] \in Pass
      BY <2>1, PassTypes
    <3> QED
      BY <1>1, <1>3, <1>10, <3>1, Constants DEF Save
  <2>4. doc' \in Doc /\ wake' \in {"none", "due", "clock"}
    BY <1>1, <1>10, <2>1 DEF Save
  <2> QED
    BY <1>10, <2>2, <2>3, <2>4 DEF Save, TypeOK, EndedRecorded, RowMap
<1>11. CASE Grant(t)
  <2>1. PICK x \in Dispatches : pass' = [pass EXCEPT ![t].at = "publish", ![t].row = x]
    BY <1>11 DEF Grant
  <2>2. pass' = [pass EXCEPT ![t] = [p EXCEPT !.at = "publish", !.row = x]]
    BY <1>0, <1>1, <2>1
  <2>3. pass' \in [Threads -> Pass]
    BY <1>2, <2>2, PassTypes
  <2> QED
    BY <1>4, <1>5, <1>11, <2>3 DEF Grant
<1>12. CASE Publish(t)
  <2>1. pass' = [pass EXCEPT ![t] = [p EXCEPT !.at = "record"]]
    BY <1>0, <1>1, <1>12 DEF Publish
  <2>2. pass' \in [Threads -> Pass]
    BY <1>2, <2>1, PassTypes
  <2>3. p.row \in Dispatches
    BY DEF Pass
  <2>4. sent' \subseteq Dispatches /\ queue' \subseteq Dispatches
    BY <1>1, <1>12, <2>3 DEF Publish, TypeOK
  <2> QED
    BY <1>12, <2>2, <2>4 DEF Publish, TypeOK, EndedRecorded
<1>13. CASE PublishFails(t)
  <2>1. pass' \in {[pass EXCEPT ![t].at = "rewake"], [pass EXCEPT ![t] = IdlePass]}
    BY <1>13 DEF PublishFails, Idle
  <2>2. [pass EXCEPT ![t].at = "rewake"] = [pass EXCEPT ![t] = [p EXCEPT !.at = "rewake"]]
    BY <1>0, <1>1
  <2>3. pass' \in [Threads -> Pass]
    BY <1>2, <2>1, <2>2, PassTypes, Constants
  <2> QED
    BY <1>4, <1>5, <1>13, <2>3 DEF PublishFails
<1>14. CASE RecordDispatch(t)
  <2>1. p.next \in Doc /\ p.wake \in {"none", "due", "clock"}
    BY DEF Pass, Doc
  <2>2. PICK d \in Doc : d = RecordDispatched(p.next)
    BY <2>1, RecordDispatchedFacts
  <2>3. rows' \in RowMap
    <3>1. PICK rs \in RowMap : rs = Written(rows, d)
      BY <1>0, WrittenType
    <3>2. d.attempt \in Keys
      BY DEF Doc
    <3> QED
      BY <1>1, <1>14, <2>2, <3>1, <3>2, PublishedFacts DEF RecordDispatch
  <2>4. pass' \in [Threads -> Pass]
    BY <1>3, <1>14, Constants DEF RecordDispatch
  <2>5. doc' \in Doc /\ wake' \in {"none", "due", "clock"}
    BY <1>1, <1>14, <2>1, <2>2 DEF RecordDispatch
  <2> QED
    BY <1>14, <2>3, <2>4, <2>5 DEF RecordDispatch, TypeOK, EndedRecorded, RowMap
<1>15. CASE Rewake(t)
  <2>1. p.wake \in {"none", "due", "clock"}
    BY DEF Pass
  <2>2. pass' \in [Threads -> Pass]
    BY <1>2, <1>3, <1>15, Constants DEF Rewake, Idle
  <2> QED
    BY <1>1, <1>15, <2>1, <2>2 DEF Rewake, TypeOK, EndedRecorded
<1>16. CASE AnswerSave(t)
  <2>1. p.next \in Doc
    BY DEF Pass
  <2>3. rows' \in RowMap
    <3>1. PICK rs \in RowMap : rs = Written(rows, p.next)
      BY <1>0, <2>1, WrittenType
    <3> QED
      BY <1>1, <1>16, <3>1, AnswerRowsType DEF AnswerSave
  <2>4. pass' \in [Threads -> Pass]
    BY <1>3, <1>16, Constants DEF AnswerSave
  <2>5. doc' \in Doc /\ wake' \in {"none", "due", "clock"} /\ elapsed' \in BOOLEAN
    BY <1>1, <1>16, <2>1 DEF AnswerSave
  <2>6. faults' \in 0..MaxFaults /\ results' \subseteq Msg
    BY <1>5, <1>16 DEF AnswerSave, TypeOK
  <2> QED
    BY <1>16, <2>3, <2>4, <2>5, <2>6 DEF AnswerSave, TypeOK, EndedRecorded, RowMap
<1>17. CASE AnswerOutbound(t)
  <2>1. pass' \in [Threads -> Pass]
    BY <1>2, <1>17, Constants DEF AnswerOutbound, Idle
  <2> QED
    BY <1>17, <2>1 DEF AnswerOutbound, TypeOK, EndedRecorded
<1> QED
  BY <1>6, <1>7, <1>8, <1>9, <1>10, <1>11, <1>12, <1>13, <1>14, <1>15, <1>16, <1>17
     DEF PassStep, PassFault

\* So do what is heard of results, the sweep, progress, and what a host takes
\* and publishes.
LEMMA TypeRest ==
    ASSUME TypeInv,
           \/ RestAnswers
           \/ \E m \in results : AnswerStep(m)
           \/ \E x \in Dispatches :
                \/ SweepLost(x)
                \/ \E to \in Progresses : Progress(x, to)
                \/ \E r \in Runners : TakeStep(r, x)
           \/ \E r \in Runners : \E m \in kept[r] : Flush(r, m)
    PROVE  TypeInv'
<1> USE DEF TypeInv, run, clocks, bus, hosts
<1>0. /\ doc \in Doc /\ rows \in RowMap /\ pass \in [Threads -> Pass] /\ token \in Nat
      /\ doc.seq \in Nat /\ results \subseteq Msg
      /\ Touched(pass) \in [Threads -> Pass]
  BY TouchedFacts DEF TypeOK, RowMap, Doc
<1>f. faults \in 0..MaxFaults /\ (Fault => faults' \in 0..MaxFaults) /\ (NoFault => faults' \in 0..MaxFaults)
  BY DispatchAssumption DEF TypeOK, Fault, NoFault
<1>1. CASE RestAnswers
  <2>1. rows' \in RowMap
    BY <1>0, <1>1, WrittenType DEF RestAnswers
  <2>2. PICK rest \in {"first", "over"} : doc' = [doc EXCEPT !.rest = rest, !.seq = @ + 1]
    BY <1>1 DEF RestAnswers
  <2> PICK n \in Nat : n = doc.seq + 1
    BY <1>0
  <2>3. doc' = [doc EXCEPT !.rest = rest, !.seq = n]
    BY <2>2
  <2>4. doc' \in Doc
    BY <1>0, <2>3 DEF Doc
  <2> QED
    BY <1>0, <1>1, <2>1, <2>4 DEF RestAnswers, TypeOK, EndedRecorded, RowMap
<1>2. ASSUME NEW m \in results, AnswerStep(m) PROVE TypeInv'
  <2>0. /\ m \in Msg /\ m.row \in Dispatches /\ m.row[1] \in Keys /\ m.row[2] \in Turns
        /\ m.state \in Over /\ m.coded \in BOOLEAN
    BY <1>0 DEF Msg, Dispatches, Over
  <2>1. CASE AnswerRefused(m)
    BY <2>1 DEF AnswerRefused, TypeOK, EndedRecorded
  <2>2. CASE AnswerReport(m)
    <3>1. StopReport(m) \in RowMap
      <4> PICK x \in Dispatches, c \in BOOLEAN : x = m.row /\ c = (rows[x].coded \/ m.coded)
        BY <2>0
      <4>1. StopReport(m) \in {rows, [rows EXCEPT ![x].coded = c]}
        BY DEF StopReport
      <4>2. [rows EXCEPT ![x].coded = c] \in RowMap
        BY <1>0 DEF RowMap, RowRecord
      <4> QED
        BY <1>0, <4>1, <4>2
    <3> QED
      BY <2>2, <3>1 DEF AnswerReport, TypeOK, EndedRecorded, RowMap
  <2>3. ASSUME NEW t \in Threads, AnswerRead(t, m) PROVE TypeInv'
    <3> DEFINE e == News(m)
    <3>1. e \in Doc
      BY <1>0, <2>0, RecordFacts DEF News
    <3>2. PICK b \in BOOLEAN : b = Binds(m)
      BY DEF Binds
    <3> HIDE DEF e
    <3>3. pass' = [pass EXCEPT ![t] =
             [IdlePass EXCEPT !.at = "answer", !.term = token, !.was = doc.seq,
                              !.next = e, !.msg = m, !.bind = b]]
      BY <2>3, <3>2 DEF AnswerRead, e
    <3>4. pass' \in [Threads -> Pass]
      <4>1. [IdlePass EXCEPT !.at = "answer", !.term = token, !.was = doc.seq,
                             !.next = e, !.msg = m, !.bind = b] \in Pass
        BY <1>0, <2>0, <3>1, PassTypes, Constants
      <4> QED
        BY <1>0, <3>3, <4>1
    <3> QED
      BY <2>3, <3>4 DEF AnswerRead, TypeOK, EndedRecorded
  <2> QED
    BY <1>2, <2>1, <2>2, <2>3 DEF AnswerStep
<1>3. ASSUME NEW x \in Dispatches, SweepLost(x) PROVE TypeInv'
  <2>1. [rows EXCEPT ![x].state = "lost"] \in RowMap
    BY <1>0 DEF RowMap, RowRecord, Over
  <2> QED
    BY <1>0, <1>3, <2>1 DEF SweepLost, TypeOK, EndedRecorded, RowMap
<1>4. ASSUME NEW x \in Dispatches, NEW to \in Progresses, Progress(x, to) PROVE TypeInv'
  <2>1. to \in Going
    BY DispatchAssumption DEF Going, InFlight
  <2>2. [rows EXCEPT ![x].state = to] \in RowMap
    BY <1>0, <2>1 DEF RowMap, RowRecord
  <2> QED
    BY <1>4, <2>2 DEF Progress, TypeOK, EndedRecorded, RowMap
<1>5. ASSUME NEW x \in Dispatches, NEW r \in Runners, TakeEnded(r, x) PROVE TypeInv'
  <2>1. Ending(r, x) \in Msg
    BY <1>5, EndingType DEF TakeEnded
  <2>2. faults' \in 0..MaxFaults
    BY <1>5, <1>f DEF TakeEnded, Ack
  <2> QED
    BY <1>5, <2>1, <2>2 DEF TakeEnded, Ack, TypeOK, EndedRecorded
<1>6. ASSUME NEW x \in Dispatches, NEW r \in Runners, Take(r, x) PROVE TypeInv'
  <2>0. x[1] \in Keys /\ x[2] \in Turns
    BY DEF Dispatches
  <2> DEFINE v == [at |-> "held", turn |-> x[2]]
             e == [state |-> "taken", coded |-> FALSE]
  <2>1. v \in Work /\ v.at = "held" /\ e \in Entry
    BY <2>0 DEF Work, Entry
  <2>2. PICK k \in Keys : work' = [work EXCEPT ![r][k] = v] /\ disk' = [disk EXCEPT ![r][k] = e]
    BY <1>6, <2>0 DEF Take
  <2> HIDE DEF v, e
  <2>3. work' \in [Runners -> [Keys -> Work]] /\ disk' \in [Runners -> [Keys -> Entry]]
    BY <2>1, <2>2 DEF TypeOK
  <2>4. /\ work'[r][k] = v
        /\ \A s \in Runners, j \in Keys : s # r \/ j # k =>
              work'[s][j] = work[s][j] /\ disk'[s][j] = disk[s][j]
    BY <2>1, <2>2 DEF TypeOK
  <2>5. EndedRecorded'
    BY <2>1, <2>4 DEF EndedRecorded
  <2> QED
    BY <1>6, <2>3, <2>5 DEF Take, TypeOK
<1>7. ASSUME NEW r \in Runners, NEW m \in kept[r], Flush(r, m) PROVE TypeInv'
  <2>1. m \in Msg
    BY DEF TypeOK
  <2>2. faults' \in 0..MaxFaults
    BY <1>7, <1>f DEF Flush
  <2>3. results' \subseteq Msg
    BY <1>0, <1>7, <2>1 DEF Flush
  <2>4. kept' \in [Runners -> SUBSET Msg]
    <3>1. kept' \in {kept, [kept EXCEPT ![r] = kept[r] \ {m}]}
      BY <1>7 DEF Flush
    <3>2. kept \in [Runners -> SUBSET Msg] /\ kept[r] \ {m} \in SUBSET Msg
      BY DEF TypeOK
    <3> QED
      BY <3>1, <3>2
  <2> QED
    BY <1>7, <2>2, <2>3, <2>4 DEF Flush, TypeOK, EndedRecorded
<1> QED
  BY <1>1, <1>2, <1>3, <1>4, <1>5, <1>6, <1>7 DEF TakeStep

\* Every step keeps every variable in its type.
LEMMA TypeStep == TypeInv /\ [Next]_vars => TypeInv'
<1> SUFFICES ASSUME TypeInv, [Next]_vars PROVE TypeInv'
  OBVIOUS
<1>1. CASE UNCHANGED vars
  BY <1>1 DEF vars, run, clocks, bus, hosts, TypeInv, TypeOK, EndedRecorded
<1>2. CASE Next
  BY <1>2, TypeOutside, TypeHost, TypePass, TypeRest, Zenon DEF Next
<1> QED
  BY <1>1, <1>2

(***************************************************************************)
(* Every variable stays in its type: no attempt is numbered beyond         *)
(* retry.max and no requeue beyond max_requeues (Record's two guards), no  *)
(* row takes a state the tasks table does not know, and what is on the bus *)
(* or kept on a host always names a dispatch and an ending, because a      *)
(* result is only ever made of an ending that was recorded.                *)
(***************************************************************************)
THEOREM DispatchTypeOK == Spec => []TypeOK
<1>1. TypeInv => TypeOK
  BY DEF TypeInv
<1> QED
  BY <1>1, TypeInit, TypeStep, PTL DEF Spec

-----------------------------------------------------------------------------
(***************************************************************************)
(* The three promises of the rows that rest on the order of transactions:  *)
(* one live dispatch of a key, no loss forgotten, nothing held by a run    *)
(* that has ended.  None is inductive: a pass reads in one transaction and *)
(* writes in another, so the invariant says what it may still carry.  If   *)
(* the document has not moved since it was read, what the pass carries is  *)
(* what could be decided now; if it has, the sequence refuses it.  Nothing *)
(* here uses the term: the sequence alone keeps the rows right.            *)
(***************************************************************************)

\* At most one row of a key is anything but lost.
OneLive(rs) ==
    \A x, y \in Dispatches :
        /\ rs[x].state \notin {"none", "lost"}
        /\ rs[y].state \notin {"none", "lost"}
        /\ x[1] = y[1]
        => x = y

\* A loss the evaluator has not heard.
Unheard(rs, d) ==
    /\ d.state \notin RunOver
    /\ rs[Current(d)].state = "lost"
    /\ d.task \notin Over

\* There are rows up to the dispatch the document is at; those requeued past
\* are lost.
Reach(rs, d) ==
    \A x \in Dispatches :
        /\ x[1] > d.attempt => rs[x].state = "none"
        /\ x[1] = d.attempt /\ x[2] > d.requeue => rs[x].state = "none"
        /\ x[1] = d.attempt /\ x[2] < d.requeue => rs[x].state \in {"none", "lost"}
        /\ x = Current(d) /\ d.step = "pending" => rs[x].state = "none"

\* A decision stays at its dispatch, or is the requeue of one that is lost.
SaveSafe(e, d, rs) ==
    /\ \/ Current(e) = Current(d)
       \/ /\ e.attempt = d.attempt /\ e.requeue = d.requeue + 1
          /\ rs[Current(d)].state = "lost"
    /\ e.step = "pending" => d.step = "pending"

\* An answer stays at its dispatch, or ends it and is the next attempt.
AnswerSafe(e, m, d) ==
    /\ m \in Msg /\ m.row[1] = d.attempt
    /\ \/ Current(e) = Current(d)
       \/ m.row = Current(d) /\ e.attempt = d.attempt + 1 /\ e.requeue = 0
    /\ e.state = d.state /\ d.state \notin RunOver /\ e.step = d.step

\* What a pass may carry between its transactions.
PassSafe(p, d, rs) ==
    /\ p.at # "idle" => p.was <= d.seq
    /\ p.at \in {"save", "answer"} => p.next.seq > p.was
    /\ p.at = "save" /\ p.start => p.next.task = "pending" /\ p.next.state = "running"
    /\ p.at = "save" /\ p.was = d.seq => SaveSafe(p.next, d, rs)
    /\ p.at = "answer" /\ p.was = d.seq => AnswerSafe(p.next, p.msg, d)
    /\ p.at \in {"grant", "publish", "record"} /\ p.was = d.seq =>
          p.next = d /\ d.task = "pending" /\ d.state = "running"
    /\ p.at \in {"grant", "publish", "rewake"} /\ p.fresh => ~Unheard(rs, d)

\* The inductive invariant.
SafeInv ==
    /\ TypeInv
    /\ Reach(rows, doc)
    /\ OneLive(rows)
    /\ LossNotForgotten
    /\ EndedRunHoldsNothing
    /\ \A t \in Threads : PassSafe(pass[t], doc, rows)

\* The same rows are there, and the same rows are lost.
SameLife(rs, rt) ==
    \A x \in Dispatches :
        /\ rs[x].state = "none" <=> rt[x].state = "none"
        /\ rs[x].state = "lost" <=> rt[x].state = "lost"

\* The dispatch a document is at is a dispatch.
LEMMA CurrentType ==
    ASSUME NEW d \in Doc
    PROVE  Current(d) \in Dispatches /\ Current(d)[1] = d.attempt /\ Current(d)[2] = d.requeue
  BY DEF Current, Doc, Dispatches

\* A dispatch is an attempt and a requeue.
LEMMA DispatchType ==
    ASSUME NEW x \in Dispatches
    PROVE  x[1] \in Keys /\ x[2] \in Turns /\ x = <<x[1], x[2]>> /\ x[1] \in Nat /\ x[2] \in Nat
  BY DEF Dispatches, Keys, Turns

\* What is said of rows here depends only on which there are and which are
\* lost.
LEMMA SameLifeFacts ==
    ASSUME NEW rs, NEW rt, SameLife(rs, rt), NEW d \in Doc
    PROVE  /\ Reach(rs, d) => Reach(rt, d)
           /\ OneLive(rs) => OneLive(rt)
           /\ Unheard(rt, d) => Unheard(rs, d)
<1>1. Reach(rs, d) => Reach(rt, d)
  BY DEF SameLife, Reach
<1>2. OneLive(rs) => OneLive(rt)
  BY DEF SameLife, OneLive
<1>3. Unheard(rt, d) => Unheard(rs, d)
  BY CurrentType DEF SameLife, Unheard
<1> QED
  BY <1>1, <1>2, <1>3

\* A decision that was safe stays so while the document stays.
LEMMA PassKept ==
    ASSUME NEW p \in Pass, NEW d \in Doc, NEW rs, NEW rt, PassSafe(p, d, rs),
           \A x \in Dispatches : rs[x].state = "lost" => rt[x].state = "lost",
           p.fresh => (Unheard(rt, d) => Unheard(rs, d))
    PROVE  PassSafe(p, d, rt)
<1>1. SaveSafe(p.next, d, rs) => SaveSafe(p.next, d, rt)
  BY CurrentType DEF SaveSafe
<1> QED
  BY <1>1 DEF PassSafe

\* And it is refused whole once the document has moved.
LEMMA PassMoved ==
    ASSUME NEW p \in Pass, NEW d \in Doc, NEW e \in Doc, NEW rs, NEW rt, PassSafe(p, d, rs),
           e.seq > d.seq, NEW q, q = [p EXCEPT !.fresh = FALSE]
    PROVE  PassSafe(q, e, rt)
<1>1. /\ q.at = p.at /\ q.was = p.was /\ q.next = p.next /\ q.start = p.start
      /\ q.fresh = FALSE
  BY DEF Pass
<1>2. p.was \in Nat /\ d.seq \in Nat /\ e.seq \in Nat
  BY DEF Pass, Doc
<1>3. q.at # "idle" => q.was <= e.seq /\ q.was # e.seq
  BY <1>1, <1>2 DEF PassSafe
<1>4. /\ q.at \in {"save", "answer"} => q.next.seq > q.was
      /\ q.at = "save" /\ q.start => q.next.task = "pending" /\ q.next.state = "running"
  BY <1>1 DEF PassSafe
<1> QED
  BY <1>1, <1>3, <1>4 DEF PassSafe

\* Writing a safe decision.
LEMMA WriteSafe ==
    ASSUME NEW rs \in RowMap, NEW d \in Doc, NEW e \in Doc, SaveSafe(e, d, rs),
           Reach(rs, d), OneLive(rs), NEW rt, rt = Written(rs, e)
    PROVE  Reach(rt, e) /\ OneLive(rt)
<1> DEFINE c == Current(e)
<1>0. /\ d.attempt \in Nat /\ d.requeue \in Nat /\ e.attempt \in Nat /\ e.requeue \in Nat
      /\ c \in Dispatches /\ c[1] = e.attempt /\ c[2] = e.requeue
      /\ Current(d) \in Dispatches /\ Current(d)[1] = d.attempt /\ Current(d)[2] = d.requeue
  BY CurrentType, DispatchType
<1>1. e.attempt = d.attempt /\ e.requeue \in {d.requeue, d.requeue + 1}
  BY <1>0 DEF SaveSafe, Current
<1>2. ASSUME NEW x \in Dispatches, x # c PROVE rt[x] = rs[x]
  BY <1>2, WrittenFacts
<1>3. ASSUME NEW x \in Dispatches, x[1] = e.attempt
      PROVE  /\ x[2] > e.requeue => rs[x].state = "none"
             /\ x[2] < e.requeue => rs[x].state \in {"none", "lost"}
  <2>1. x[2] \in Nat /\ x = <<x[1], x[2]>>
    BY DispatchType
  <2>2. CASE Current(e) = Current(d)
    BY <1>0, <1>3, <2>1, <2>2 DEF Reach
  <2>3. CASE e.requeue = d.requeue + 1 /\ rs[Current(d)].state = "lost"
    <3>1. x[2] = d.requeue => x = Current(d)
      BY <1>1, <1>3, <2>1 DEF Current
    <3>2. x[2] < e.requeue => x[2] < d.requeue \/ x[2] = d.requeue
      BY <1>0, <2>1, <2>3
    <3>3. x[2] > e.requeue => x[2] > d.requeue
      BY <1>0, <2>1, <2>3
    <3> QED
      BY <1>1, <1>3, <2>3, <3>1, <3>2, <3>3 DEF Reach
  <2> QED
    BY <2>2, <2>3 DEF SaveSafe
<1>4. e.step = "pending" => rt = rs /\ rs[c].state = "none"
  <2> SUFFICES ASSUME e.step = "pending" PROVE rt = rs /\ rs[c].state = "none"
    OBVIOUS
  <2>1. rt = rs
    BY DEF Written
  <2>2. d.step = "pending" /\ rs[Current(d)].state = "none"
    BY <1>0 DEF SaveSafe, Reach
  <2> QED
    BY <2>1, <2>2 DEF SaveSafe
<1>5. Reach(rt, e)
  <2> SUFFICES ASSUME NEW x \in Dispatches
               PROVE  /\ x[1] > e.attempt => rt[x].state = "none"
                      /\ x[1] = e.attempt /\ x[2] > e.requeue => rt[x].state = "none"
                      /\ x[1] = e.attempt /\ x[2] < e.requeue => rt[x].state \in {"none", "lost"}
                      /\ x = c /\ e.step = "pending" => rt[x].state = "none"
    BY DEF Reach
  <2>1. CASE x = c
    BY <1>0, <1>4, <2>1
  <2>2. CASE x # c
    BY <1>1, <1>2, <1>3, <2>2 DEF Reach
  <2> QED
    BY <2>1, <2>2
<1>6. OneLive(rt)
  <2> SUFFICES ASSUME NEW x \in Dispatches, NEW y \in Dispatches,
                      rt[x].state \notin {"none", "lost"}, rt[y].state \notin {"none", "lost"},
                      x[1] = y[1]
               PROVE  x = y
    BY DEF OneLive
  <2>1. ASSUME NEW z \in Dispatches, rt[z].state \notin {"none", "lost"}, z[1] = e.attempt
        PROVE  z = c
    <3>1. z[2] \in Nat /\ z = <<z[1], z[2]>>
      BY DispatchType
    <3>2. z # c => z[2] > e.requeue \/ z[2] < e.requeue
      BY <1>0, <2>1, <3>1 DEF Current
    <3> QED
      BY <1>2, <1>3, <2>1, <3>2
  <2>2. CASE x[1] = e.attempt
    BY <2>1, <2>2
  <2>3. CASE x[1] # e.attempt
    BY <1>0, <1>2, <2>3 DEF OneLive
  <2> QED
    BY <2>2, <2>3
<1> QED
  BY <1>5, <1>6

\* A pass that carries nothing is safe.
LEMMA IdleSafe ==
    ASSUME NEW d, NEW rs
    PROVE  PassSafe(IdlePass, d, rs)
  BY DEF PassSafe, IdlePass

\* A pass that is no longer fresh promises less.
LEMMA TouchedSafe ==
    ASSUME NEW p \in Pass, NEW d \in Doc, NEW rs, PassSafe(p, d, rs)
    PROVE  PassSafe([p EXCEPT !.fresh = FALSE], d, rs)
<1> DEFINE q == [p EXCEPT !.fresh = FALSE]
<1>1. /\ q.at = p.at /\ q.was = p.was /\ q.next = p.next /\ q.start = p.start
      /\ q.msg = p.msg /\ q.fresh = FALSE
  BY DEF Pass
<1> HIDE DEF q
<1> QED
  BY <1>1 DEF PassSafe, q

\* A step that leaves the document, the clock and the lives of the rows.
LEMMA SafeFrame ==
    ASSUME SafeInv, TypeInv', doc' = doc, wake' = wake, SameLife(rows, rows'),
           doc.state \in RunOver =>
             \A x \in Dispatches : rows'[x].state \in Going => rows[x].state \in Going,
           \A t \in Threads : PassSafe(pass'[t], doc, rows)
    PROVE  SafeInv'
<1>0. doc \in Doc /\ pass' \in [Threads -> Pass]
  BY DEF SafeInv, TypeInv, TypeOK
<1>1. Reach(rows', doc') /\ OneLive(rows')
  BY <1>0, SameLifeFacts DEF SafeInv
<1>2. LossNotForgotten'
  <2>1. Unheard(rows', doc) => Unheard(rows, doc)
    BY <1>0, SameLifeFacts
  <2> QED
    BY <2>1 DEF SafeInv, LossNotForgotten, Unheard
<1>3. EndedRunHoldsNothing'
  BY DEF SafeInv, EndedRunHoldsNothing
<1>4. ASSUME NEW t \in Threads PROVE PassSafe(pass'[t], doc', rows')
  <2>1. pass'[t] \in Pass
    BY <1>0
  <2>2. Unheard(rows', doc) => Unheard(rows, doc)
    BY <1>0, SameLifeFacts
  <2>3. \A x \in Dispatches : rows[x].state = "lost" => rows'[x].state = "lost"
    BY DEF SameLife
  <2> QED
    BY <1>0, <2>1, <2>2, <2>3, PassKept
<1> QED
  BY <1>1, <1>2, <1>3, <1>4 DEF SafeInv

\* A step of one pass that writes nothing.
LEMMA SafeSlot ==
    ASSUME SafeInv, TypeInv', UNCHANGED <<doc, wake, rows>>, NEW t \in Threads,
           NEW q, pass' = [pass EXCEPT ![t] = q], PassSafe(q, doc, rows)
    PROVE  SafeInv'
<1>1. SameLife(rows, rows')
  BY DEF SameLife
<1>2. \A u \in Threads : PassSafe(pass'[u], doc, rows)
  BY DEF SafeInv, TypeInv, TypeOK
<1> QED
  BY <1>1, <1>2, SafeFrame

\* A step that moves the document: what every other pass carries is refused.
LEMMA SafeMove ==
    ASSUME SafeInv, TypeInv', doc'.seq > doc.seq, Reach(rows', doc'), OneLive(rows'),
           LossNotForgotten', EndedRunHoldsNothing', NEW q,
           \/ pass' = Touched(pass)
           \/ /\ PassSafe(q, doc', rows')
              /\ \E t \in Threads : pass' = [Touched(pass) EXCEPT ![t] = q]
    PROVE  SafeInv'
<1>0. doc \in Doc /\ doc' \in Doc /\ pass \in [Threads -> Pass]
  BY DEF SafeInv, TypeInv, TypeOK
<1>1. /\ Touched(pass) \in [Threads -> Pass]
      /\ \A t \in Threads : Touched(pass)[t] = [pass[t] EXCEPT !.fresh = FALSE]
  BY <1>0, TouchedFacts
<1>2. ASSUME NEW t \in Threads PROVE PassSafe(Touched(pass)[t], doc', rows')
  <2>1. pass[t] \in Pass /\ PassSafe(pass[t], doc, rows)
    BY <1>0 DEF SafeInv
  <2> QED
    BY <1>0, <1>1, <2>1, PassMoved
<1>3. \A t \in Threads : PassSafe(pass'[t], doc', rows')
  BY <1>1, <1>2
<1> QED
  BY <1>3 DEF SafeInv

----------------------------------------------------------------------------

\* Nothing is written and nothing is carried at first.
LEMMA SafeInit == Init => SafeInv
<1> SUFFICES ASSUME Init PROVE SafeInv
  OBVIOUS
<1>1. TypeInv
  BY TypeInit
<1>2. \A x \in Dispatches : rows[x].state = "none"
  BY DEF Init, NoRow
<1>3. Reach(rows, doc) /\ OneLive(rows)
  BY <1>2 DEF Reach, OneLive
<1>4. LossNotForgotten /\ EndedRunHoldsNothing
  <2>1. doc \in Doc
    BY Constants DEF Init
  <2>2. rows[Current(doc)].state = "none"
    BY <1>2, <2>1, CurrentType
  <2> QED
    BY <1>2, <2>2 DEF LossNotForgotten, EndedRunHoldsNothing, Going, InFlight
<1>5. \A t \in Threads : PassSafe(pass[t], doc, rows)
  BY IdleSafe DEF Init
<1> QED
  BY <1>1, <1>3, <1>4, <1>5 DEF SafeInv

\* The clocks, the requests and the hosts leave the document and the lives of
\* the rows as they were.
LEMMA SafeOutside ==
    ASSUME SafeInv, TypeInv',
           \/ NewTerm \/ RequestCancel \/ BackoffElapses \/ DeadlinePasses
           \/ \E r \in Runners :
                \/ \E k \in Keys : HostStep(r, k) \/ HostFault(r, k)
                \/ \E m \in kept[r] : Flush(r, m)
                \/ Crash(r) \/ Restart(r) \/ Cut(r) \/ Heal(r)
                \/ \E x \in Dispatches : TakeStep(r, x)
           \/ \E m \in results : AnswerRefused(m) \/ AnswerReport(m)
           \/ \E x \in Dispatches, to \in Progresses : Progress(x, to)
    PROVE  SafeInv'
<1> USE DEF run, clocks, bus, hosts
<1>0. doc \in Doc /\ rows \in RowMap /\ pass \in [Threads -> Pass] /\ results \subseteq Msg
  BY DEF SafeInv, TypeInv, TypeOK, RowMap
<1>a. \A t \in Threads : PassSafe(pass[t], doc, rows)
  BY DEF SafeInv
<1>b. ASSUME UNCHANGED <<doc, wake, rows, pass>> PROVE SafeInv'
  <2>1. SameLife(rows, rows')
    BY <1>b DEF SameLife
  <2> QED
    BY <1>a, <1>b, <2>1, SafeFrame
<1>1. CASE NewTerm \/ BackoffElapses \/ DeadlinePasses
  BY <1>1, <1>b DEF NewTerm, BackoffElapses, DeadlinePasses
<1>2. CASE RequestCancel
  <2>1. \A t \in Threads : PassSafe(pass'[t], doc, rows)
    <3>1. pass' = Touched(pass)
      BY <1>2 DEF RequestCancel
    <3>2. ASSUME NEW t \in Threads PROVE PassSafe(pass'[t], doc, rows)
      <4>1. PICK p \in Pass : p = pass[t]
        BY <1>0
      <4>2. PassSafe([p EXCEPT !.fresh = FALSE], doc, rows)
        BY <1>0, <1>a, <4>1, TouchedSafe
      <4>3. pass'[t] = [p EXCEPT !.fresh = FALSE]
        BY <3>1, <4>1 DEF Touched
      <4> QED
        BY <4>2, <4>3
    <3> QED
      BY <3>2
  <2>2. SameLife(rows, rows') /\ UNCHANGED <<doc, wake, rows>>
    BY <1>2 DEF SameLife, RequestCancel
  <2> QED
    BY <2>1, <2>2, SafeFrame
<1>c. ASSUME NEW r \in Runners, NEW x \in Dispatches, rows' = RedeemedRows(r, x), UNCHANGED <<doc, wake, pass>>
      PROVE  SafeInv'
  <2>1. \A y \in Dispatches : rows'[y].state = rows[y].state
    BY <1>0, <1>c DEF RedeemedRows, RowMap, RowRecord
  <2>2. SameLife(rows, rows')
    BY <2>1 DEF SameLife
  <2> QED
    BY <1>a, <1>c, <2>1, <2>2, SafeFrame
<1>3. ASSUME NEW r \in Runners, NEW k \in Keys, HostStep(r, k) \/ HostFault(r, k) PROVE SafeInv'
  <2>1. CASE Redeem(r, k) \/ RedeemUnheard(r, k)
    <3>1. PICK x \in Dispatches : x = Taken(r, k)
      BY TakenType DEF SafeInv, TypeInv
    <3>2. rows' = RedeemedRows(r, x) /\ UNCHANGED <<doc, wake, pass>>
      BY <2>1, <3>1 DEF Redeem, RedeemUnheard
    <3> QED
      BY <1>c, <3>2
  <2>2. CASE ~(Redeem(r, k) \/ RedeemUnheard(r, k))
    <3>1. UNCHANGED <<doc, wake, rows, pass>>
      BY <1>3, <2>2 DEF HostStep, HostFault, RedeemRefused, Start, StartCalledOff, ContainerEnds,
         RecordEnding, KeepResult, RedeemReport, CarryFails, ExitUnread
    <3> QED
      BY <1>b, <3>1
  <2> QED
    BY <2>1, <2>2
<1>4. ASSUME NEW r \in Runners, Crash(r) \/ Restart(r) \/ Cut(r) \/ Heal(r) PROVE SafeInv'
  BY <1>4, <1>b DEF Crash, Restart, Cut, Heal
<1>5. ASSUME NEW r \in Runners, NEW m \in kept[r], Flush(r, m) PROVE SafeInv'
  BY <1>5, <1>b DEF Flush
<1>6. ASSUME NEW r \in Runners, NEW x \in Dispatches, TakeStep(r, x) PROVE SafeInv'
  BY <1>6, <1>b DEF TakeStep, Take, TakeEnded
<1>7. ASSUME NEW m \in results, AnswerRefused(m) PROVE SafeInv'
  BY <1>7, <1>b DEF AnswerRefused
<1>8. ASSUME NEW m \in results, AnswerReport(m) PROVE SafeInv'
  <2>0. m.row \in Dispatches
    BY <1>0 DEF Msg
  <2>1. \A y \in Dispatches : rows'[y].state = rows[y].state
    <3> PICK c : c = (rows[m.row].coded \/ m.coded)
      OBVIOUS
    <3>1. rows' \in {rows, [rows EXCEPT ![m.row].coded = c]}
      BY <1>8 DEF AnswerReport, StopReport
    <3> QED
      BY <1>0, <2>0, <3>1 DEF RowMap, RowRecord
  <2>2. SameLife(rows, rows')
    BY <2>1 DEF SameLife
  <2>3. UNCHANGED <<doc, wake, pass>>
    BY <1>8 DEF AnswerReport
  <2> QED
    BY <1>a, <2>1, <2>2, <2>3, SafeFrame
<1>9. ASSUME NEW x \in Dispatches, NEW to \in Progresses, Progress(x, to) PROVE SafeInv'
  <2>1. /\ \A y \in Dispatches : y # x => rows'[y].state = rows[y].state
        /\ rows'[x].state = to /\ rows[x].state \in {"dispatched", "running"}
    BY <1>0, <1>9 DEF Progress, RowMap, RowRecord
  <2>2. SameLife(rows, rows')
    BY <2>1, DispatchAssumption DEF SameLife
  <2>3. UNCHANGED <<doc, wake, pass>> /\ doc.state \notin RunOver
    BY <1>9 DEF Progress
  <2> QED
    BY <1>a, <2>2, <2>3, SafeFrame
<1> QED
  BY <1>1, <1>2, <1>3, <1>4, <1>5, <1>6, <1>7, <1>8, <1>9

\* The steps of a pass that read, and those that give up.
LEMMA SafeReads ==
    ASSUME SafeInv, TypeInv', NEW t \in Threads,
           \/ FencedOut(t) \/ Abort(t) \/ StaleOut(t)
           \/ DecideRead(t) \/ CancelRead(t) \/ AnswerOutbound(t)
           \/ \E m \in results : AnswerRead(t, m)
    PROVE  SafeInv'
<1> USE DEF run, clocks, bus, hosts
<1>0. /\ doc \in Doc /\ rows \in RowMap /\ pass \in [Threads -> Pass] /\ token \in Nat
      /\ doc.seq \in Nat /\ results \subseteq Msg /\ IdlePass \in Pass
      /\ late \in BOOLEAN /\ elapsed \in BOOLEAN
  BY Constants DEF SafeInv, TypeInv, TypeOK, RowMap, Doc
<1>1. CASE FencedOut(t) \/ Abort(t) \/ StaleOut(t) \/ AnswerOutbound(t)
  <2>1. pass' = [pass EXCEPT ![t] = IdlePass] /\ UNCHANGED <<doc, wake, rows>>
    BY <1>1 DEF FencedOut, Abort, StaleOut, AnswerOutbound, Idle
  <2> QED
    BY <2>1, IdleSafe, SafeSlot
<1>2. CASE DecideRead(t)
  <2> DEFINE next == NextDoc(LossHeard(doc), late)
             clock == WakeOf(next, elapsed, late)
             start == Starts(next, elapsed)
             q == [IdlePass EXCEPT !.term = token, !.was = doc.seq, !.next = next,
                                   !.wake = clock, !.start = start, !.fresh = TRUE]
  <2>0. PICK d \in Doc : d = LossHeard(doc)
    BY <1>0, LossHeardFacts
  <2>1. /\ d = doc \/ d.seq = doc.seq + 1
        /\ d.state = doc.state /\ d.step = doc.step
        /\ \/ Current(d) = Current(doc)
           \/ /\ rows[Current(doc)].state = "lost"
              /\ d.attempt = doc.attempt /\ d.requeue = doc.requeue + 1
        /\ IsLoss(rows, Current(doc)) /\ doc.task \notin Over => d.seq = doc.seq + 1
    BY <1>0, <2>0, LossHeardFacts
  <2>2. /\ next \in Doc
        /\ next = d \/ next.seq = d.seq + 1
        /\ Current(next) = Current(d)
        /\ next.step = "pending" => d.step = "pending"
    BY <1>0, <2>0, NextDocFacts
  <2>3. d.seq \in Nat /\ next.seq \in Nat
    BY <2>2 DEF Doc
  <2>4. SaveSafe(next, doc, rows)
    <3>1. next.attempt = d.attempt /\ next.requeue = d.requeue
      BY <2>2 DEF Current
    <3> HIDE DEF next
    <3> QED
      BY <2>1, <2>2, <3>1 DEF SaveSafe
  <2>5. start => next.task = "pending" /\ next.state = "running"
    BY DEF Starts
  <2>6. next.seq # doc.seq => next.seq > doc.seq
    <3> HIDE DEF next
    <3> QED
      BY <1>0, <2>1, <2>2, <2>3
  <2>7. next.seq = doc.seq => next = doc /\ ~Unheard(rows, doc)
    <3> HIDE DEF next
    <3>1. IsTaskRow(rows, Current(doc)) \/ rows[Current(doc)].state # "lost"
      <4>1. ASSUME NEW u \in Turns, rows[<<doc.attempt, u>>].state # "none" PROVE u <= doc.requeue
        <5>1. <<doc.attempt, u>> \in Dispatches /\ u \in Nat /\ doc.requeue \in Nat
          BY <1>0 DEF Doc, Dispatches, Turns
        <5> QED
          BY <4>1, <5>1 DEF SafeInv, Reach
      <4> QED
        BY <1>0, <4>1, CurrentType DEF IsTaskRow
    <3> QED
      BY <1>0, <2>1, <2>2, <2>3, <3>1 DEF Unheard, IsLoss
  <2>8. /\ q \in Pass /\ q.was = doc.seq /\ q.next = next /\ q.start = start /\ q.fresh = TRUE
    <3>1. clock \in {"none", "due", "clock"} /\ start \in BOOLEAN
      BY DEF WakeOf, Starts
    <3> HIDE DEF next, clock, start
    <3>1a. next \in Doc /\ token \in Nat /\ doc.seq \in Nat /\ IdlePass \in Pass
      BY <1>0, <2>2
    <3>2. q \in Pass
      BY <3>1, <3>1a, PassTypes
    <3> QED
      BY <1>0, <3>2 DEF Pass
  <2>9. \/ next.seq # doc.seq /\ pass' = [pass EXCEPT ![t] = [q EXCEPT !.at = "save"]]
        \/ next.seq = doc.seq /\ start /\ pass' = [pass EXCEPT ![t] = [q EXCEPT !.at = "grant"]]
        \/ next.seq = doc.seq /\ pass' = [pass EXCEPT ![t] = [q EXCEPT !.at = "rewake"]]
    BY <1>2 DEF DecideRead
  <2>10. UNCHANGED <<doc, wake, rows>>
    BY <1>2 DEF DecideRead
  <2> HIDE DEF next, clock, start, q
  <2>11. ASSUME NEW at \in {"save", "grant", "rewake"}, NEW z, z = [q EXCEPT !.at = at]
         PROVE  z.at = at /\ z.was = doc.seq /\ z.next = next /\ z.start = start /\ z.fresh = TRUE
    BY <2>8, <2>11 DEF Pass
  <2>12. CASE next.seq # doc.seq /\ pass' = [pass EXCEPT ![t] = [q EXCEPT !.at = "save"]]
    <3>1. PICK z : z = [q EXCEPT !.at = "save"]
      OBVIOUS
    <3>2. z.at = "save" /\ z.was = doc.seq /\ z.next = next /\ z.start = start /\ z.fresh = TRUE
      BY <2>11, <3>1
    <3>3. PassSafe(z, doc, rows)
      BY <1>0, <2>4, <2>5, <2>6, <2>12, <3>2 DEF PassSafe
    <3> QED
      BY <2>10, <2>12, <3>1, <3>3, SafeSlot
  <2>13. CASE next.seq = doc.seq /\ start /\ pass' = [pass EXCEPT ![t] = [q EXCEPT !.at = "grant"]]
    <3>1. PICK z : z = [q EXCEPT !.at = "grant"]
      OBVIOUS
    <3>2. z.at = "grant" /\ z.was = doc.seq /\ z.next = next /\ z.start = start /\ z.fresh = TRUE
      BY <2>11, <3>1
    <3>3. PassSafe(z, doc, rows)
      BY <1>0, <2>5, <2>7, <2>13, <3>2 DEF PassSafe
    <3> QED
      BY <2>10, <2>13, <3>1, <3>3, SafeSlot
  <2>14. CASE next.seq = doc.seq /\ pass' = [pass EXCEPT ![t] = [q EXCEPT !.at = "rewake"]]
    <3>1. PICK z : z = [q EXCEPT !.at = "rewake"]
      OBVIOUS
    <3>2. z.at = "rewake" /\ z.was = doc.seq /\ z.next = next /\ z.start = start /\ z.fresh = TRUE
      BY <2>11, <3>1
    <3>3. PassSafe(z, doc, rows)
      BY <1>0, <2>7, <2>14, <3>2 DEF PassSafe
    <3> QED
      BY <2>10, <2>14, <3>1, <3>3, SafeSlot
  <2> QED
    BY <2>9, <2>12, <2>13, <2>14
<1>3. CASE CancelRead(t)
  <2>1. PICK e \in Doc : e = Cancel(doc)
    BY <1>0, CancelFacts
  <2>2. /\ e.seq = doc.seq + 1 /\ Current(e) = Current(doc)
        /\ e.step = "pending" => doc.step = "pending"
    BY <1>0, <1>3, <2>1, CancelFacts DEF CancelRead, Actionable
  <2>3. PICK z : z = [IdlePass EXCEPT !.at = "save", !.term = token, !.was = doc.seq, !.next = e]
    OBVIOUS
  <2>4. z.at = "save" /\ z.was = doc.seq /\ z.next = e /\ z.start = FALSE /\ z.fresh = FALSE
    BY <2>3 DEF IdlePass
  <2>5. PassSafe(z, doc, rows)
    BY <1>0, <2>2, <2>4 DEF PassSafe, SaveSafe
  <2>6. pass' = [pass EXCEPT ![t] = z] /\ UNCHANGED <<doc, wake, rows>>
    BY <1>3, <2>1, <2>3 DEF CancelRead
  <2> QED
    BY <2>5, <2>6, SafeSlot
<1>4. ASSUME NEW m \in results, AnswerRead(t, m) PROVE SafeInv'
  <2>0. /\ m \in Msg /\ m.row \in Dispatches /\ m.row[1] \in Keys /\ m.row[2] \in Turns
        /\ m.row = <<m.row[1], m.row[2]>>
        /\ m.state \in Over /\ m.state # "lost" /\ m.coded \in BOOLEAN
    BY <1>0 DEF Msg, Dispatches, Over, Endings
  <2>1. PICK e : e = News(m)
    OBVIOUS
  <2>2. /\ e \in Doc
        /\ e = doc \/ (e.seq = doc.seq + 1 /\ m.row[1] = doc.attempt)
        /\ e.state = doc.state /\ e.step = doc.step
        /\ \/ Current(e) = Current(doc)
           \/ m.row = Current(doc) /\ e.attempt = doc.attempt + 1 /\ e.requeue = 0
    BY <1>0, <2>0, <2>1, RecordFacts DEF News
  <2>3. e # doc /\ doc.state \notin RunOver
    BY <1>4, <2>1 DEF AnswerRead
  <2>4. PICK z : z = [IdlePass EXCEPT !.at = "answer", !.term = token, !.was = doc.seq,
                                      !.next = e, !.msg = m, !.bind = Binds(m)]
    OBVIOUS
  <2>5. z.at = "answer" /\ z.was = doc.seq /\ z.next = e /\ z.msg = m /\ z.fresh = FALSE
    BY <2>4 DEF IdlePass
  <2>6. PassSafe(z, doc, rows)
    BY <1>0, <2>0, <2>2, <2>3, <2>5 DEF PassSafe, AnswerSafe
  <2>7. pass' = [pass EXCEPT ![t] = z] /\ UNCHANGED <<doc, wake, rows>>
    BY <1>4, <2>1, <2>4 DEF AnswerRead
  <2> QED
    BY <2>6, <2>7, SafeSlot
<1> QED
  BY <1>1, <1>2, <1>3, <1>4

\* The steps of a pass between its transactions.
LEMMA SafeCarries ==
    ASSUME SafeInv, TypeInv', NEW t \in Threads, Grant(t) \/ Publish(t) \/ PublishFails(t)
    PROVE  SafeInv'
<1> USE DEF run, clocks, bus, hosts
<1>0. pass \in [Threads -> Pass]
  BY DEF SafeInv, TypeInv, TypeOK
<1>1. PICK p \in Pass : p = pass[t]
  BY <1>0
<1>2. PassSafe(p, doc, rows)
  BY <1>1 DEF SafeInv
<1>3. UNCHANGED <<doc, wake, rows>>
  BY DEF Grant, Publish, PublishFails
<1>4. CASE Grant(t)
  <2>1. PICK x \in Dispatches : pass' = [pass EXCEPT ![t].at = "publish", ![t].row = x]
    BY <1>4 DEF Grant
  <2>2. PICK q : q = [p EXCEPT !.at = "publish", !.row = x]
    OBVIOUS
  <2>3. pass' = [pass EXCEPT ![t] = q]
    BY <1>0, <1>1, <2>1, <2>2
  <2>4. q.at = "publish" /\ q.was = p.was /\ q.next = p.next /\ q.fresh = p.fresh
    BY <2>2 DEF Pass
  <2>5. p.at = "grant"
    BY <1>1, <1>4 DEF Grant
  <2>6. PassSafe(q, doc, rows)
    BY <1>2, <2>4, <2>5 DEF PassSafe
  <2> QED
    BY <1>3, <2>3, <2>6, SafeSlot
<1>5. CASE Publish(t)
  <2>2. PICK q : q = [p EXCEPT !.at = "record"]
    OBVIOUS
  <2>3. pass' = [pass EXCEPT ![t] = q]
    BY <1>0, <1>1, <1>5, <2>2 DEF Publish
  <2>4. q.at = "record" /\ q.was = p.was /\ q.next = p.next /\ q.fresh = p.fresh
    BY <2>2 DEF Pass
  <2>5. p.at = "publish"
    BY <1>1, <1>5 DEF Publish
  <2>6. PassSafe(q, doc, rows)
    BY <1>2, <2>4, <2>5 DEF PassSafe
  <2> QED
    BY <1>3, <2>3, <2>6, SafeSlot
<1>6. CASE PublishFails(t)
  <2>1. p.at \in {"grant", "publish"}
    BY <1>1, <1>6 DEF PublishFails
  <2>2. CASE p.fresh
    <3>2. PICK q : q = [p EXCEPT !.at = "rewake"]
      OBVIOUS
    <3>3. pass' = [pass EXCEPT ![t] = q]
      BY <1>0, <1>1, <1>6, <2>2, <3>2 DEF PublishFails
    <3>4. q.at = "rewake" /\ q.was = p.was /\ q.next = p.next /\ q.fresh = p.fresh
      BY <3>2 DEF Pass
    <3>6. PassSafe(q, doc, rows)
      BY <1>2, <2>1, <3>4 DEF PassSafe
    <3> QED
      BY <1>3, <3>3, <3>6, SafeSlot
  <2>3. CASE ~p.fresh
    BY <1>1, <1>3, <1>6, <2>3, IdleSafe, SafeSlot DEF PublishFails, Idle
  <2> QED
    BY <2>2, <2>3
<1> QED
  BY <1>4, <1>5, <1>6

\* A decision written over a loss leaves the run due, or has heard the loss.
LEMMA HeardSafe ==
    ASSUME NEW rs \in RowMap, NEW d \in Doc, NEW e \in Doc, SaveSafe(e, d, rs), Reach(rs, d),
           HeardIn(rs, e)
    PROVE  ~Unheard(Written(rs, e), e)
<1>0. Current(e) \in Dispatches /\ Current(d) \in Dispatches
  BY CurrentType
<1>1. CASE e.step = "pending"
  <2>1. Written(rs, e) = rs /\ d.step = "pending" /\ rs[Current(d)].state = "none"
    BY <1>0, <1>1 DEF Written, SaveSafe, Reach
  <2> QED
    BY <2>1 DEF SaveSafe, Unheard
<1>2. CASE e.step # "pending"
  <2>1. Written(rs, e)[Current(e)].state \in {rs[Current(e)].state, e.task}
    BY <1>0, <1>2, WrittenFacts
  <2>2. rs[Current(e)].state = "lost" => e.task \in Over
    BY <1>2 DEF HeardIn, Heard, Over, Endings
  <2>3. "lost" \in Over
    BY DEF Over
  <2> QED
    BY <2>1, <2>2, <2>3 DEF Unheard
<1> QED
  BY <1>1, <1>2

\* The step that writes a decision.
LEMMA SafeSave ==
    ASSUME SafeInv, TypeInv', NEW t \in Threads, Save(t)
    PROVE  SafeInv'
<1>0. doc \in Doc /\ rows \in RowMap /\ pass \in [Threads -> Pass]
  BY DEF SafeInv, TypeInv, TypeOK, RowMap
<1>1. PICK p \in Pass : p = pass[t]
  BY <1>0
<1>2. PassSafe(p, doc, rows) /\ Reach(rows, doc) /\ OneLive(rows)
  BY <1>1 DEF SafeInv
<1>3. PICK e \in Doc : e = p.next
  BY DEF Pass
<1>4. /\ p.at = "save" /\ doc.seq = p.was
      /\ doc' = e /\ rows' = Ended(Written(rows, e), e)
      /\ wake' = IF HeardIn(rows, e) THEN p.wake ELSE "due"
      /\ pass' = [Touched(pass) EXCEPT ![t] =
                  IF p.start THEN [p EXCEPT !.at = "grant", !.was = e.seq, !.fresh = FALSE]
                  ELSE IdlePass]
  BY <1>1, <1>3 DEF Save
<1>5. SaveSafe(e, doc, rows) /\ e.seq > doc.seq
      /\ (p.start => e.task = "pending" /\ e.state = "running")
  BY <1>2, <1>3, <1>4 DEF PassSafe
<1>6. PICK rt \in RowMap : rt = Written(rows, e)
  BY <1>0, WrittenType
<1>7. Reach(rt, e) /\ OneLive(rt)
  BY <1>0, <1>2, <1>5, <1>6, WriteSafe
<1>8. /\ \A x \in Dispatches :
            /\ rt[x].state \notin Going => rows'[x].state = rt[x].state
            /\ rt[x].state \in Going => rows'[x].state \notin {"none", "lost"}
            /\ e.state \in RunOver => rows'[x].state \notin Going
      /\ e.state \notin RunOver => rows' = rt
  BY <1>4, <1>6, EndedFacts
<1>9. SameLife(rt, rows')
  BY <1>8 DEF SameLife, Going, InFlight
<1>10. Reach(rows', doc') /\ OneLive(rows')
  BY <1>4, <1>7, <1>9, SameLifeFacts
<1>11. LossNotForgotten'
  <2>1. Unheard(rows', e) => Unheard(rt, e)
    BY <1>9, SameLifeFacts
  <2>2. HeardIn(rows, e) => ~Unheard(rt, e)
    BY <1>0, <1>2, <1>5, <1>6, HeardSafe
  <2>3. Unheard(rows', doc') => wake' = "due"
    BY <1>4, <2>1, <2>2
  <2> QED
    BY <2>3 DEF LossNotForgotten, Unheard
<1>12. EndedRunHoldsNothing'
  BY <1>4, <1>8 DEF EndedRunHoldsNothing
<1>13. PICK q : q = IF p.start THEN [p EXCEPT !.at = "grant", !.was = e.seq, !.fresh = FALSE]
                    ELSE IdlePass
  OBVIOUS
<1>14. PassSafe(q, doc', rows')
  <2>1. CASE p.start
    <3>1. q.at = "grant" /\ q.was = e.seq /\ q.next = e /\ q.fresh = FALSE
      BY <1>3, <1>13, <2>1 DEF Pass
    <3>2. e.seq \in Nat
      BY DEF Doc
    <3> QED
      BY <1>4, <1>5, <2>1, <3>1, <3>2 DEF PassSafe
  <2>2. CASE ~p.start
    BY <1>13, <2>2, IdleSafe
  <2> QED
    BY <2>1, <2>2
<1> QED
  BY <1>4, <1>5, <1>10, <1>11, <1>12, <1>13, <1>14, SafeMove

\* The step that records a dispatch.
LEMMA SafeRecord ==
    ASSUME SafeInv, TypeInv', NEW t \in Threads, RecordDispatch(t)
    PROVE  SafeInv'
<1>0. doc \in Doc /\ rows \in RowMap /\ pass \in [Threads -> Pass] /\ doc.seq \in Nat
  BY DEF SafeInv, TypeInv, TypeOK, RowMap, Doc
<1>1. PICK p \in Pass : p = pass[t]
  BY <1>0
<1>2. PassSafe(p, doc, rows) /\ Reach(rows, doc) /\ OneLive(rows)
  BY <1>1 DEF SafeInv
<1>3. p.at = "record" /\ doc.seq = p.was
  BY <1>1 DEF RecordDispatch
<1>4. p.next = doc /\ doc.task = "pending" /\ doc.state = "running"
  BY <1>2, <1>3 DEF PassSafe
<1>5. PICK e \in Doc : e = RecordDispatched(doc)
  BY <1>0, RecordDispatchedFacts
<1>6. /\ doc' = e /\ rows' = Published(Written(rows, e), e.attempt)
      /\ wake' = IF HeardIn(rows, e) THEN p.wake ELSE "due"
      /\ pass' = [Touched(pass) EXCEPT ![t] = IdlePass]
  BY <1>1, <1>4, <1>5 DEF RecordDispatch
<1>7. /\ e.seq = doc.seq + 1 /\ Current(e) = Current(doc)
      /\ e.state = "running" /\ e.step = doc.step
  <2>1. e # doc
    <3>1. doc.task \notin Over
      BY <1>4 DEF Over, Endings
    <3> QED
      BY <1>0, <1>4, <1>5, <3>1 DEF RecordDispatched, Doc
  <2> QED
    BY <1>0, <1>4, <1>5, <2>1, RecordDispatchedFacts
<1>8. SaveSafe(e, doc, rows) /\ e.seq > doc.seq
  BY <1>0, <1>7 DEF SaveSafe
<1>9. PICK rt \in RowMap : rt = Written(rows, e)
  BY <1>0, WrittenType
<1>10. Reach(rt, e) /\ OneLive(rt)
  BY <1>0, <1>2, <1>8, <1>9, WriteSafe
<1>11. SameLife(rt, rows')
  <2>1. e.attempt \in Keys
    BY DEF Doc
  <2>2. \A x \in Dispatches : rows'[x].state = rt[x].state
    BY <1>6, <1>9, <2>1, PublishedFacts
  <2> QED
    BY <2>2 DEF SameLife
<1>12. Reach(rows', doc') /\ OneLive(rows')
  BY <1>6, <1>10, <1>11, SameLifeFacts
<1>13. LossNotForgotten'
  <2>1. Unheard(rows', e) => Unheard(rt, e)
    BY <1>11, SameLifeFacts
  <2>2. HeardIn(rows, e) => ~Unheard(rt, e)
    BY <1>0, <1>2, <1>8, <1>9, HeardSafe
  <2>3. Unheard(rows', doc') => wake' = "due"
    BY <1>6, <2>1, <2>2
  <2> QED
    BY <2>3 DEF LossNotForgotten, Unheard
<1>14. EndedRunHoldsNothing'
  BY <1>6, <1>7 DEF EndedRunHoldsNothing, RunOver
<1> QED
  BY <1>6, <1>8, <1>12, <1>13, <1>14, IdleSafe, SafeMove

\* Writing the answer that moved the shard to its next attempt.
LEMMA AdvanceSafe ==
    ASSUME NEW rs \in RowMap, NEW d \in Doc, NEW e \in Doc, Reach(rs, d), OneLive(rs),
           e.attempt = d.attempt + 1, e.requeue = 0, NEW rt,
           \A x \in Dispatches : x \notin {Current(d), Current(e)} => rt[x].state = rs[x].state,
           e.step = "pending" => rt[Current(e)].state = rs[Current(e)].state
    PROVE  Reach(rt, e) /\ OneLive(rt)
<1> DEFINE c == Current(e)
<1>0. /\ d.attempt \in Nat /\ d.requeue \in Nat /\ e.attempt \in Nat
      /\ c \in Dispatches /\ c[1] = e.attempt /\ c[2] = 0
      /\ Current(d) \in Dispatches /\ Current(d)[1] = d.attempt /\ Current(d)[2] = d.requeue
  BY CurrentType, DispatchType
<1>1. ASSUME NEW x \in Dispatches, x[1] > d.attempt PROVE rs[x].state = "none" /\ x # Current(d)
  <2>1. x # Current(d)
    BY <1>0, <1>1
  <2> QED
    BY <1>1, <2>1 DEF Reach
<1>2. ASSUME NEW x \in Dispatches, x[1] >= e.attempt, x # c PROVE rt[x].state = "none"
  <2>1. x[1] > d.attempt
    BY <1>0, <1>2, DispatchType
  <2> QED
    BY <1>1, <1>2, <2>1
<1>3. Reach(rt, e)
  <2> SUFFICES ASSUME NEW x \in Dispatches
               PROVE  /\ x[1] > e.attempt => rt[x].state = "none"
                      /\ x[1] = e.attempt /\ x[2] > e.requeue => rt[x].state = "none"
                      /\ x[1] = e.attempt /\ x[2] < e.requeue => rt[x].state \in {"none", "lost"}
                      /\ x = c /\ e.step = "pending" => rt[x].state = "none"
    BY DEF Reach
  <2>0. x[1] \in Nat /\ x[2] \in Nat
    BY DispatchType
  <2>1. CASE x = c
    <3>1. rs[x].state = "none"
      BY <1>0, <1>1, <2>1
    <3> QED
      BY <1>0, <2>1, <3>1
  <2>2. CASE x # c
    BY <1>0, <1>2, <2>0, <2>2
  <2> QED
    BY <2>1, <2>2
<1>4. OneLive(rt)
  <2> SUFFICES ASSUME NEW x \in Dispatches, NEW y \in Dispatches,
                      rt[x].state \notin {"none", "lost"}, rt[y].state \notin {"none", "lost"},
                      x[1] = y[1]
               PROVE  x = y
    BY DEF OneLive
  <2>0. x[1] \in Nat
    BY DispatchType
  <2>1. CASE x[1] >= e.attempt
    BY <1>2, <2>1
  <2>2. CASE x[1] = d.attempt
    <3>1. ASSUME NEW z \in Dispatches, rt[z].state \notin {"none", "lost"}, z[1] = d.attempt
          PROVE  z = Current(d)
      <4>1. z[2] \in Nat /\ z = <<z[1], z[2]>>
        BY DispatchType
      <4>2. z # Current(d) => z[2] > d.requeue \/ z[2] < d.requeue
        BY <1>0, <3>1, <4>1 DEF Current
      <4>3. z # c
        BY <1>0, <3>1
      <4> QED
        BY <3>1, <4>2, <4>3 DEF Reach
    <3> QED
      BY <2>2, <3>1
  <2>3. CASE x[1] # d.attempt /\ ~(x[1] >= e.attempt)
    <3>1. x \notin {Current(d), c} /\ y \notin {Current(d), c}
      BY <1>0, <2>0, <2>3
    <3> QED
      BY <3>1 DEF OneLive
  <2> QED
    BY <2>1, <2>2, <2>3
<1> QED
  BY <1>3, <1>4

\* The step that writes an answer.
LEMMA SafeAnswer ==
    ASSUME SafeInv, TypeInv', NEW t \in Threads, AnswerSave(t)
    PROVE  SafeInv'
<1>0. doc \in Doc /\ rows \in RowMap /\ pass \in [Threads -> Pass] /\ doc.attempt \in Nat
  BY CurrentType, DispatchType DEF SafeInv, TypeInv, TypeOK, RowMap
<1>1. PICK p \in Pass : p = pass[t]
  BY <1>0
<1>2. PassSafe(p, doc, rows) /\ Reach(rows, doc) /\ OneLive(rows)
  BY <1>1 DEF SafeInv
<1>3. PICK e \in Doc : e = p.next
  BY DEF Pass
<1>4. PICK m : m = p.msg
  OBVIOUS
<1>5. /\ p.at = "answer" /\ doc.seq = p.was
      /\ doc' = e /\ rows' = Bound(Passed(Written(rows, e), e, m), p)
      /\ wake' = "due"
      /\ pass' = [Touched(pass) EXCEPT ![t] = IdlePass]
  BY <1>1, <1>3, <1>4 DEF AnswerSave
<1>6. AnswerSafe(e, m, doc) /\ e.seq > doc.seq
  BY <1>2, <1>3, <1>4, <1>5 DEF PassSafe
<1>7. /\ m.row \in Dispatches /\ m.row[1] = doc.attempt /\ m.state \in Endings /\ m.coded \in BOOLEAN
  BY <1>6 DEF AnswerSafe, Msg
<1>8. PICK rt \in RowMap : rt = Written(rows, e)
  BY <1>0, WrittenType
<1>9. PICK ru \in RowMap : ru = Passed(rt, e, m)
  <2>1. PICK v \in RowRecord : v = WriteTask(rt[m.row], m.state, m.coded)
    <3>1. rt[m.row] \in RowRecord /\ m.state \in {"none"} \cup Going \cup Over
      BY <1>7 DEF RowMap, Over
    <3> QED
      BY <1>7, <3>1, WriteTaskFacts
  <2>2. Passed(rt, e, m) \in {rt, [rt EXCEPT ![m.row] = v]}
    BY <2>1 DEF Passed
  <2> QED
    BY <1>7, <2>1, <2>2 DEF RowMap
<1>10. SameLife(ru, rows')
  <2>1. \A x \in Dispatches : rows'[x].state = ru[x].state
    <3>1. rows' \in {ru, [ru EXCEPT ![m.row].runner = m.from]}
      BY <1>4, <1>5, <1>8, <1>9 DEF Bound
    <3> QED
      BY <1>7, <3>1 DEF RowMap, RowRecord
  <2> QED
    BY <2>1 DEF SameLife
<1>11. Reach(ru, e) /\ OneLive(ru)
  <2>1. CASE Current(e) = Current(doc)
    <3>1. SaveSafe(e, doc, rows)
      BY <1>6, <2>1 DEF SaveSafe, AnswerSafe
    <3>2. e.attempt = doc.attempt
      BY <2>1 DEF Current
    <3>3. ru = rt
      BY <1>7, <1>9, <3>2 DEF Passed
    <3> QED
      BY <1>0, <1>2, <1>8, <3>1, <3>3, WriteSafe
  <2>2. CASE m.row = Current(doc) /\ e.attempt = doc.attempt + 1 /\ e.requeue = 0
    <3>0. Current(doc) # Current(e) /\ Current(e) \in Dispatches
      BY <1>0, <2>2, CurrentType DEF Current
    <3>1. ASSUME NEW x \in Dispatches, x # m.row PROVE ru[x] = rt[x]
      BY <1>7, <1>9, <3>1 DEF Passed, RowMap
    <3>2. ASSUME NEW x \in Dispatches, x \notin {Current(doc), Current(e)}
          PROVE  ru[x].state = rows[x].state
      BY <1>0, <1>8, <2>2, <3>1, <3>2, WrittenFacts
    <3>3. e.step = "pending" => ru[Current(e)].state = rows[Current(e)].state
      <4>1. e.step = "pending" => rt = rows
        BY <1>8 DEF Written
      <4> QED
        BY <2>2, <3>0, <3>1, <4>1
    <3> QED
      BY <1>0, <1>2, <2>2, <3>2, <3>3, AdvanceSafe
  <2> QED
    BY <1>6, <2>1, <2>2 DEF AnswerSafe
<1>12. Reach(rows', doc') /\ OneLive(rows')
  BY <1>5, <1>10, <1>11, SameLifeFacts
<1>13. LossNotForgotten' /\ EndedRunHoldsNothing'
  BY <1>5, <1>6 DEF LossNotForgotten, EndedRunHoldsNothing, AnswerSafe
<1> QED
  BY <1>5, <1>6, <1>12, <1>13, IdleSafe, SafeMove

\* The rest of what writes the rows or the clock.
LEMMA SafeRest ==
    ASSUME SafeInv, TypeInv',
           RestAnswers \/ (\E x \in Dispatches : SweepLost(x)) \/ \E t \in Threads : Rewake(t)
    PROVE  SafeInv'
<1> USE DEF run, clocks, bus, hosts
<1>0. /\ doc \in Doc /\ rows \in RowMap /\ pass \in [Threads -> Pass] /\ doc.seq \in Nat
      /\ doc' \in Doc /\ pass' \in [Threads -> Pass]
      /\ Reach(rows, doc) /\ OneLive(rows)
  BY DEF SafeInv, TypeInv, TypeOK, RowMap, Doc
<1>a. \A t \in Threads : PassSafe(pass[t], doc, rows)
  BY DEF SafeInv
<1>1. CASE RestAnswers
  <2>1. PICK rest : doc' = [doc EXCEPT !.rest = rest, !.seq = @ + 1]
    BY <1>1 DEF RestAnswers
  <2>2. /\ doc'.seq = doc.seq + 1 /\ Current(doc') = Current(doc)
        /\ doc'.state = doc.state /\ doc'.step = doc.step /\ doc'.task = doc.task
        /\ doc'.attempt = doc.attempt /\ doc'.requeue = doc.requeue
    BY <1>0, <2>1 DEF Doc, Current
  <2>3. PICK rt \in RowMap : rt = Written(rows, doc) /\ rows' = rt
    BY <1>0, <1>1, WrittenType DEF RestAnswers
  <2>4. SaveSafe(doc, doc, rows)
    BY DEF SaveSafe
  <2>5. Reach(rt, doc) /\ OneLive(rt)
    BY <1>0, <2>3, <2>4, WriteSafe
  <2>6. Reach(rows', doc') /\ OneLive(rows')
    BY <2>2, <2>3, <2>5 DEF Reach
  <2>7. LossNotForgotten' /\ EndedRunHoldsNothing'
    <3>1. wake' = "due" /\ doc'.state \notin RunOver
      BY <1>1, <2>2 DEF RestAnswers
    <3> QED
      BY <3>1 DEF LossNotForgotten, EndedRunHoldsNothing
  <2>8. doc'.seq > doc.seq /\ pass' = Touched(pass)
    BY <1>0, <1>1, <2>2 DEF RestAnswers
  <2> QED
    BY <2>6, <2>7, <2>8, SafeMove
<1>2. ASSUME NEW x \in Dispatches, SweepLost(x) PROVE SafeInv'
  <2>1. /\ \A y \in Dispatches : y # x => rows'[y].state = rows[y].state
        /\ rows'[x].state = "lost" /\ rows[x].state \in InFlight
        /\ doc' = doc
    BY <1>0, <1>2 DEF SweepLost, HeldRow, RowMap, RowRecord
  <2>2. rows[x].state \notin {"none", "lost"}
    BY <2>1 DEF InFlight
  <2>3. Reach(rows', doc')
    BY <1>0, <2>1, <2>2 DEF Reach
  <2>4. OneLive(rows')
    BY <1>0, <2>1 DEF OneLive
  <2>5. LossNotForgotten'
    <3>1. doc.state \notin RunOver => wake' = "due"
      BY <1>2 DEF SweepLost
    <3> QED
      BY <2>1, <3>1 DEF LossNotForgotten
  <2>6. EndedRunHoldsNothing'
    <3>1. "lost" \notin Going
      BY DEF Going, InFlight
    <3> QED
      BY <2>1, <3>1 DEF SafeInv, EndedRunHoldsNothing
  <2>7. ASSUME NEW t \in Threads PROVE PassSafe(pass'[t], doc', rows')
    <3>1. \A y \in Dispatches : rows[y].state = "lost" => rows'[y].state = "lost"
      BY <2>1
    <3>2. CASE doc.state \in RunOver
      <4>1. ~Unheard(rows', doc) /\ pass' = pass
        BY <1>2, <3>2 DEF Unheard, SweepLost
      <4>2. pass[t] \in Pass
        BY <1>0
      <4> QED
        BY <1>0, <1>a, <2>1, <3>1, <4>1, <4>2, PassKept
    <3>3. CASE doc.state \notin RunOver
      <4>1. pass' = Touched(pass)
        BY <1>2, <3>3 DEF SweepLost
      <4>2. PICK p \in Pass : p = pass[t]
        BY <1>0
      <4>3. PICK q \in Pass : q = [p EXCEPT !.fresh = FALSE] /\ q = pass'[t]
        BY <1>0, <4>1, <4>2 DEF Touched
      <4>4. PassSafe(q, doc, rows) /\ q.fresh = FALSE
        BY <1>0, <1>a, <4>2, <4>3, TouchedSafe DEF Pass
      <4> QED
        BY <1>0, <2>1, <3>1, <4>3, <4>4, PassKept
    <3> QED
      BY <3>2, <3>3
  <2> QED
    BY <2>3, <2>4, <2>5, <2>6, <2>7 DEF SafeInv
<1>3. ASSUME NEW t \in Threads, Rewake(t) PROVE SafeInv'
  <2>1. PICK p \in Pass : p = pass[t] /\ p.at = "rewake"
    BY <1>0, <1>3 DEF Rewake
  <2>2. doc' = doc /\ rows' = rows
    BY <1>3 DEF Rewake
  <2>3. LossNotForgotten'
    <3>1. CASE p.fresh
      <4>1. ~Unheard(rows, doc)
        BY <1>a, <2>1, <3>1 DEF PassSafe
      <4> QED
        BY <2>2, <4>1 DEF LossNotForgotten, Unheard
    <3>2. CASE ~p.fresh
      <4>1. wake' = wake
        BY <1>3, <2>1, <3>2 DEF Rewake
      <4> QED
        BY <2>2, <4>1 DEF SafeInv, LossNotForgotten
    <3> QED
      BY <3>1, <3>2
  <2>4. EndedRunHoldsNothing'
    BY <2>2 DEF SafeInv, EndedRunHoldsNothing
  <2>5. ASSUME NEW u \in Threads PROVE PassSafe(pass'[u], doc, rows)
    <3>1. PICK q \in Pass : q = pass[u]
      BY <1>0
    <3>2. pass'[u] \in {IdlePass, q, [q EXCEPT !.fresh = FALSE]}
      <4>1. pass' \in {[pass EXCEPT ![t] = IdlePass], [Touched(pass) EXCEPT ![t] = IdlePass]}
        BY <1>3 DEF Rewake, Idle
      <4>2. Touched(pass) \in [Threads -> Pass] /\ Touched(pass)[u] = [q EXCEPT !.fresh = FALSE]
        BY <1>0, <3>1, TouchedFacts
      <4> QED
        BY <1>0, <3>1, <4>1, <4>2
    <3>3. PassSafe(q, doc, rows) /\ PassSafe([q EXCEPT !.fresh = FALSE], doc, rows)
      BY <1>0, <1>a, <3>1, TouchedSafe
    <3> QED
      BY <3>2, <3>3, IdleSafe
  <2> QED
    BY <1>0, <2>2, <2>3, <2>4, <2>5 DEF SafeInv
<1> QED
  BY <1>1, <1>2, <1>3

\* Every step keeps the inductive invariant.
LEMMA SafeStep == SafeInv /\ [Next]_vars => SafeInv'
<1> SUFFICES ASSUME SafeInv, [Next]_vars PROVE SafeInv'
  OBVIOUS
<1>0. TypeInv'
  BY TypeStep DEF SafeInv
<1>1. CASE UNCHANGED vars
  <2>1. UNCHANGED <<doc, wake, rows, pass>>
    BY <1>1 DEF vars, run
  <2>2. SameLife(rows, rows') /\ \A t \in Threads : PassSafe(pass'[t], doc, rows)
    BY <2>1 DEF SameLife, SafeInv
  <2> QED
    BY <1>0, <2>1, <2>2, SafeFrame
<1>2. CASE NewTerm \/ RequestCancel \/ BackoffElapses \/ DeadlinePasses
  BY <1>0, <1>2, SafeOutside
<1>3. CASE RestAnswers
  BY <1>0, <1>3, SafeRest
<1>4. ASSUME NEW t \in Threads, PassStep(t) \/ PassFault(t) PROVE SafeInv'
  BY <1>0, <1>4, SafeReads, SafeCarries, SafeSave, SafeRecord, SafeAnswer, SafeRest
     DEF PassStep, PassFault
<1>5. ASSUME NEW m \in results, AnswerStep(m) PROVE SafeInv'
  BY <1>0, <1>5, SafeOutside, SafeReads DEF AnswerStep
<1>6. ASSUME NEW x \in Dispatches,
             \/ SweepLost(x)
             \/ \E to \in Progresses : Progress(x, to)
             \/ \E r \in Runners : TakeStep(r, x)
      PROVE  SafeInv'
  BY <1>0, <1>6, SafeOutside, SafeRest
<1>7. ASSUME NEW r \in Runners,
             \/ \E k \in Keys : HostStep(r, k) \/ HostFault(r, k)
             \/ \E m \in kept[r] : Flush(r, m)
             \/ Crash(r) \/ Restart(r) \/ Cut(r) \/ Heal(r)
      PROVE  SafeInv'
  BY <1>0, <1>7, SafeOutside
<1> QED
  BY <1>1, <1>2, <1>3, <1>4, <1>5, <1>6, <1>7 DEF Next

\* The inductive invariant holds throughout.
LEMMA SafeAlways == Spec => []SafeInv
  BY SafeInit, SafeStep, PTL DEF Spec

(***************************************************************************)
(* At most one dispatch of a key is anything but lost, whatever the number *)
(* of runners, of passes at once, of terms, of requeues and of faults: the *)
(* uniqueness rule of the tasks table never refuses a decision.            *)
(***************************************************************************)
THEOREM OneLiveDispatchHolds == Spec => []OneLiveDispatch
<1>1. SafeInv => OneLiveDispatch
  <2> SUFFICES ASSUME SafeInv, NEW k \in Keys, NEW q1 \in Turns, NEW q2 \in Turns,
                      rows[<<k, q1>>].state \notin {"none", "lost"},
                      rows[<<k, q2>>].state \notin {"none", "lost"}
               PROVE  q1 = q2
    BY DEF OneLiveDispatch
  <2>1. <<k, q1>> \in Dispatches /\ <<k, q2>> \in Dispatches
    BY DEF Dispatches
  <2> QED
    BY <2>1 DEF SafeInv, OneLive
<1> QED
  BY <1>1, SafeAlways, PTL

(***************************************************************************)
(* A loss the evaluator has not heard leaves the run due: neither          *)
(* SaveDecision, the record of a dispatch nor Rewake puts a clock over it. *)
(***************************************************************************)
THEOREM LossNotForgottenHolds == Spec => []LossNotForgotten
<1>1. SafeInv => LossNotForgotten
  BY DEF SafeInv
<1> QED
  BY <1>1, SafeAlways, PTL

(***************************************************************************)
(* Once a run has ended none of its rows is pending or in flight: what     *)
(* SaveDecision ended in one transaction no answer, progress or dispatch   *)
(* that was under way makes going again.                                   *)
(***************************************************************************)
THEOREM EndedRunHoldsNothingHolds == Spec => []EndedRunHoldsNothing
<1>1. SafeInv => EndedRunHoldsNothing
  BY DEF SafeInv
<1> QED
  BY <1>1, SafeAlways, PTL
=============================================================================
