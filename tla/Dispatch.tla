------------------------------ MODULE Dispatch ------------------------------
(***************************************************************************)
(* The life of one task from the decision to hand it out to the recording  *)
(* of its ending: the controller's passes (controller/core.go, answer.go,  *)
(* cancel.go, progress.go) on the rows and the document (db/runs.go,       *)
(* db/grants.go, db/runners.go), the bus (bus/), and the runners with what *)
(* they keep on disk (runner/, driver/).                                   *)
(*                                                                         *)
(* A pass reads in one fenced transaction and writes in later ones; every  *)
(* transaction is one step.  What a pass carries between its transactions  *)
(* is pass[t].  Messages are sets: delivered in any order, to anyone, and  *)
(* again until acknowledged.                                               *)
(***************************************************************************)
EXTENDS Shard

CONSTANTS
    Threads,    \* goroutines making passes, of this term or of one before
    Outcomes,   \* how a container left alone may end
    Progresses, \* what a runner says of a task before its ending
    MayCancel,  \* whether somebody asks for the run to be cancelled
    MaxFaults   \* how many faults of any kind happen

ASSUME DispatchAssumption ==
    /\ Outcomes \subseteq {"succeeded", "failed", "timed_out"}
    /\ Progresses \subseteq {"running", "publishing"}
    /\ MayCancel \in BOOLEAN
    /\ MaxFaults \in Nat

VARIABLES
    token,      \* the fencing token of the term that holds
    doc,        \* runs.evaluation, seq and state: the evaluator's document
    wake,       \* runs.wake_at: "none", "due", or "clock" for the plan's instant
    cancelAsked,\* runs.cancel_requested_at
    elapsed,    \* the backoff of the attempt waited for has passed
    late,       \* the root timeout has passed
    rows,       \* the tasks rows of the key's dispatches
    sent,       \* the dispatches whose message the stream has had
    queue,      \* task messages not acknowledged
    results,    \* results not acknowledged
    pass,       \* the passes under way
    link,       \* a runner is up, cut off, or its agent is down
    work,       \* what each agent is doing with each key
    disk,       \* driver/record.go: what each host recorded of each key
    box,        \* whether the daemon has a container of the key
    owed,       \* dispatches each host owes a result to, on disk
    kept,       \* results each host has still to publish, on disk
    ran,        \* the hosts that ever started a container of a key
    faults

run     == <<doc, wake, cancelAsked>>
clocks  == <<elapsed, late>>
bus     == <<sent, queue, results>>
hosts   == <<link, work, disk, box, owed, kept, ran>>
vars    == <<token, run, clocks, rows, bus, pass, hosts, faults>>

Msg == [row : Dispatches, from : Runners, state : Endings, coded : BOOLEAN]

NoMsg == [row |-> <<1, 0>>, from |-> NoRunner, state |-> "none", coded |-> FALSE]

\* fresh: nothing has written the runs row since the pass read it (xmin).
Pass == [at : {"idle", "save", "grant", "publish", "record", "rewake", "answer"},
         term : Nat, was : Nat, next : Doc, wake : {"none", "due", "clock"},
         start : BOOLEAN, fresh : BOOLEAN, row : Dispatches,
         msg : Msg \cup {NoMsg}, bind : BOOLEAN]

IdlePass == [at |-> "idle", term |-> 0, was |-> 0, next |-> StartDoc,
             wake |-> "none", start |-> FALSE, fresh |-> FALSE,
             row |-> <<1, 0>>, msg |-> NoMsg, bind |-> FALSE]

Work == [at : {"none", "held", "bound", "running", "ended"}, turn : Turns]

NoWork == [at |-> "none", turn |-> 0]

Entry == [state : {"none", "taken"} \cup Endings, coded : BOOLEAN]

NoEntry == [state |-> "none", coded |-> FALSE]

TypeOK ==
    /\ token \in Nat
    /\ doc \in Doc
    /\ wake \in {"none", "due", "clock"}
    /\ cancelAsked \in BOOLEAN /\ elapsed \in BOOLEAN /\ late \in BOOLEAN
    /\ rows \in [Dispatches -> RowRecord]
    /\ sent \subseteq Dispatches /\ queue \subseteq Dispatches
    /\ results \subseteq Msg
    /\ pass \in [Threads -> Pass]
    /\ link \in [Runners -> {"up", "cut", "down"}]
    /\ work \in [Runners -> [Keys -> Work]]
    /\ disk \in [Runners -> [Keys -> Entry]]
    /\ box \in [Runners -> [Keys -> BOOLEAN]]
    /\ owed \in [Runners -> SUBSET Dispatches]
    /\ kept \in [Runners -> SUBSET Msg]
    /\ ran \in [Keys -> SUBSET Runners]
    /\ faults \in 0..MaxFaults

Init ==
    /\ token = 1
    /\ doc = StartDoc /\ wake = "none" /\ cancelAsked = FALSE
    /\ elapsed = FALSE /\ late = FALSE
    /\ rows = [x \in Dispatches |-> NoRow]
    /\ sent = {} /\ queue = {} /\ results = {}
    /\ pass = [t \in Threads |-> IdlePass]
    /\ link = [r \in Runners |-> "up"]
    /\ work = [r \in Runners |-> [k \in Keys |-> NoWork]]
    /\ disk = [r \in Runners |-> [k \in Keys |-> NoEntry]]
    /\ box = [r \in Runners |-> [k \in Keys |-> FALSE]]
    /\ owed = [r \in Runners |-> {}]
    /\ kept = [r \in Runners |-> {}]
    /\ ran = [k \in Keys |-> {}]
    /\ faults = 0

Fault == faults < MaxFaults /\ faults' = faults + 1

NoFault == faults' = faults

----------------------------------------------------------------------------
(* The term, and the passes of a term that is over. *)

\* Another process is elected.  Passes of the former term go on until fenced.
NewTerm ==
    /\ Fault
    /\ token' = token + 1
    /\ UNCHANGED <<run, clocks, rows, bus, pass, hosts>>

Idle(t) == pass' = [pass EXCEPT ![t] = IdlePass]

\* Steps that open a fenced transaction; a publication is not one.
InTerm(t) == pass[t].term = token

FencedOut(t) ==
    /\ pass[t].at \in {"save", "grant", "record", "rewake", "answer"}
    /\ ~InTerm(t)
    /\ Idle(t)
    /\ UNCHANGED <<token, run, clocks, rows, bus, hosts, faults>>

\* The process dies, or a transaction fails: what was committed stays.
Abort(t) ==
    /\ Fault
    /\ pass[t].at # "idle"
    /\ Idle(t)
    /\ UNCHANGED <<token, run, clocks, rows, bus, hosts>>

\* SaveDecision: refused whole where the run has moved since it was read.
StaleOut(t) ==
    /\ pass[t].at \in {"save", "record", "answer"}
    /\ InTerm(t)
    /\ doc.seq # pass[t].was
    /\ Idle(t)
    /\ UNCHANGED <<token, run, clocks, rows, bus, hosts, faults>>

\* The runs row is written: no other pass may put its clock over it.
Touched(ps) == [t \in Threads |-> [ps[t] EXCEPT !.fresh = FALSE]]

----------------------------------------------------------------------------
(* Decide and Cancel: read, evaluate, write, publish. *)

\* What the sweep comes for.
Actionable ==
    /\ doc.state \notin RunOver
    /\ \/ doc.seq = 0
       \/ wake = "due"
       \/ wake = "clock" /\ ((doc.waiting /\ elapsed) \/ late)
       \/ cancelAsked
       \/ \E x \in Dispatches : ~rows[x].published
                                /\ rows[x].state \in {"pending", "dispatched"}

\* The losses the sweep declared, heard before anything is decided.
LossHeard(d) ==
    IF IsLoss(rows, Current(d))
    THEN Record(d, d.attempt, d.requeue, "lost", FALSE) ELSE d

DecideRead(t) ==
    LET next == NextDoc(LossHeard(doc), late)
        clock == WakeOf(next, elapsed, late)
        start == Starts(next, elapsed)
        p == [IdlePass EXCEPT !.term = token, !.was = doc.seq, !.next = next,
                              !.wake = clock, !.start = start, !.fresh = TRUE]
    IN  /\ pass[t].at = "idle"
        /\ Actionable /\ ~cancelAsked
        /\ \/ next.seq # doc.seq /\ pass' = [pass EXCEPT ![t] = [p EXCEPT !.at = "save"]]
           \/ next.seq = doc.seq /\ start /\ pass' = [pass EXCEPT ![t] = [p EXCEPT !.at = "grant"]]
           \/ /\ next.seq = doc.seq /\ ~start /\ wake # clock
              /\ pass' = [pass EXCEPT ![t] = [p EXCEPT !.at = "rewake"]]
        /\ UNCHANGED <<token, run, clocks, rows, bus, hosts, faults>>

CancelRead(t) ==
    /\ pass[t].at = "idle"
    /\ Actionable /\ cancelAsked
    /\ pass' = [pass EXCEPT ![t] =
                  [IdlePass EXCEPT !.at = "save", !.term = token, !.was = doc.seq,
                                   !.next = Cancel(doc)]]
    /\ UNCHANGED <<token, run, clocks, rows, bus, hosts, faults>>

\* Mutant: a run's ending leaves its rows as they were.
MutEndedNot(rs, d) == rs

\* The rows of a run that has ended end with it, in the same transaction.
Ended(rs, d) ==
    IF d.state \in RunOver
    THEN EndTasks(rs, IF d.state = "timed_out" THEN "timed_out" ELSE "cancelled")
    ELSE rs

Save(t) ==
    LET p == pass[t] IN
    /\ p.at = "save" /\ InTerm(t)
    /\ doc.seq = p.was
    /\ doc' = p.next
    /\ rows' = Ended(Written(rows, p.next), p.next)
    /\ wake' = IF HeardIn(rows, p.next) THEN p.wake ELSE "due"
    /\ pass' = [Touched(pass) EXCEPT ![t] =
                  IF p.start THEN [p EXCEPT !.at = "grant", !.was = p.next.seq,
                                            !.fresh = FALSE]
                  ELSE IdlePass]
    /\ UNCHANGED <<token, cancelAsked, clocks, bus, hosts, faults>>

\* dispatchOf: the grant is issued on the latest row of the key.
Grant(t) ==
    LET p == pass[t] IN
    /\ p.at = "grant" /\ InTerm(t)
    /\ \E x \in Dispatches :
        /\ x[1] = p.next.attempt /\ IsTaskRow(rows, x)
        /\ pass' = [pass EXCEPT ![t].at = "publish", ![t].row = x]
    /\ UNCHANGED <<token, run, clocks, rows, bus, hosts, faults>>

\* The stream may drop a task_id it has had, and may have forgotten it.
Publish(t) ==
    LET p == pass[t] IN
    /\ p.at = "publish"
    /\ sent' = sent \cup {p.row}
    /\ \/ queue' = queue \cup {p.row}
       \/ p.row \in sent /\ queue' = queue
    /\ pass' = [pass EXCEPT ![t].at = "record"]
    /\ UNCHANGED <<token, run, clocks, rows, results, hosts, faults>>

\* Nothing went: the task stays pending, for the next pass.
PublishFails(t) ==
    LET p == pass[t] IN
    /\ Fault
    /\ p.at \in {"grant", "publish"}
    /\ IF p.fresh THEN pass' = [pass EXCEPT ![t].at = "rewake"] ELSE Idle(t)
    /\ UNCHANGED <<token, run, clocks, rows, bus, hosts>>

\* The dispatch is recorded once the message has gone, and stamped.
RecordDispatch(t) ==
    LET p == pass[t]
        next == RecordDispatched(p.next)
    IN  /\ p.at = "record" /\ InTerm(t)
        /\ doc.seq = p.was
        /\ doc' = next
        /\ rows' = Published(Written(rows, next), next.attempt)
        /\ wake' = IF HeardIn(rows, next) THEN p.wake ELSE "due"
        /\ pass' = [Touched(pass) EXCEPT ![t] = IdlePass]
        /\ UNCHANGED <<token, cancelAsked, clocks, bus, hosts, faults>>

\* Mutant: the clock is written whatever wrote the run since it was read.
MutRewakeUnversioned(t) ==
    LET p == pass[t] IN
    /\ p.at = "rewake" /\ InTerm(t)
    /\ wake' = p.wake
    /\ pass' = [Touched(pass) EXCEPT ![t] = IdlePass]
    /\ UNCHANGED <<token, doc, cancelAsked, clocks, rows, bus, hosts, faults>>

\* A pass that decided nothing writes its clock, over the row as it read it.
Rewake(t) ==
    LET p == pass[t] IN
    /\ p.at = "rewake" /\ InTerm(t)
    /\ IF p.fresh
       THEN /\ wake' = p.wake
            /\ pass' = [(IF wake = p.wake THEN pass ELSE Touched(pass))
                           EXCEPT ![t] = IdlePass]
       ELSE UNCHANGED wake /\ Idle(t)
    /\ UNCHANGED <<token, doc, cancelAsked, clocks, rows, bus, hosts, faults>>

----------------------------------------------------------------------------
(* Answer: what becomes of a result. *)

\* It is not a success, and nothing started, exited or published.
Unreached(m) == m.state # "succeeded" /\ ~m.coded

Binds(m) ==
    /\ rows[m.row].runner = NoRunner
    /\ Unreached(m) \/ RedeemedBefore(rows, m.row, m.from)

News(m) == Record(doc, m.row[1], m.row[2], m.state, m.coded)

\* A result from a runner that does not hold the dispatch is dropped.
AnswerRefused(m) ==
    /\ rows[m.row].runner # m.from /\ ~Binds(m)
    /\ results' = results \ {m}
    /\ UNCHANGED <<token, run, clocks, rows, sent, queue, pass, hosts, faults>>

\* The code lands on a row the controller stopped, once.
StopReport(m) ==
    IF rows[m.row].state \in {"cancelled", "timed_out"} /\ ~Binds(m)
    THEN [rows EXCEPT ![m.row].coded = @ \/ m.coded]
    ELSE rows

\* No news: a run or a task that is over takes at most the report of its stop.
AnswerReport(m) ==
    /\ rows[m.row].runner = m.from \/ Binds(m)
    /\ \/ doc.state \in RunOver
       \/ doc.stopped /\ Binds(m)
       \/ News(m) = doc
    /\ rows' = StopReport(m)
    /\ results' = results \ {m}
    /\ UNCHANGED <<token, run, clocks, sent, queue, pass, hosts, faults>>

\* Mutant: the holder is not asked for.
MutAnswerReadAnyone(t, m) ==
    /\ pass[t].at = "idle"
    /\ doc.state \notin RunOver
    /\ ~(doc.stopped /\ Binds(m))
    /\ News(m) # doc
    /\ pass' = [pass EXCEPT ![t] =
                  [IdlePass EXCEPT !.at = "answer", !.term = token, !.was = doc.seq,
                                   !.next = News(m), !.msg = m, !.bind = Binds(m)]]
    /\ UNCHANGED <<token, run, clocks, rows, bus, hosts, faults>>

AnswerRead(t, m) ==
    /\ pass[t].at = "idle"
    /\ doc.state \notin RunOver
    /\ rows[m.row].runner = m.from \/ Binds(m)
    /\ ~(doc.stopped /\ Binds(m))
    /\ News(m) # doc
    /\ pass' = [pass EXCEPT ![t] =
                  [IdlePass EXCEPT !.at = "answer", !.term = token, !.was = doc.seq,
                                   !.next = News(m), !.msg = m, !.bind = Binds(m)]]
    /\ UNCHANGED <<token, run, clocks, rows, bus, hosts, faults>>

\* Mutant: the row of the attempt the answer ended is left as it was.
MutPassedLeft(rs, d, m) == rs

\* passed: the row of the attempt the answer ended, where the shard moved on.
Passed(rs, d, m) ==
    IF d.attempt # m.row[1]
    THEN [rs EXCEPT ![m.row] = WriteTask(@, m.state, m.coded)]
    ELSE rs

\* BindUnredeemed: coalesce(runner, the reporting one).
Bound(rs, p) ==
    IF p.bind THEN [rs EXCEPT ![p.msg.row].runner = p.msg.from] ELSE rs

\* Mutant: the ending is written over a decision taken since.
MutAnswerSaveStale(t) ==
    LET p == pass[t] IN
    /\ p.at = "answer" /\ InTerm(t)
    /\ p.bind => rows[p.msg.row].runner \in {NoRunner, p.msg.from}
    /\ doc' = p.next
    /\ rows' = Bound(Passed(Written(rows, p.next), p.next, p.msg), p)
    /\ wake' = "due"
    /\ elapsed' = (elapsed /\ ~p.next.waiting)
    /\ NoFault /\ results' = results \ {p.msg}
    /\ pass' = [Touched(pass) EXCEPT ![t] = IdlePass]
    /\ UNCHANGED <<token, cancelAsked, late, sent, queue, hosts>>

\* Mutant: a runner that redeemed the dispatch meanwhile loses it.
MutAnswerSaveOverHolder(t) ==
    LET p == pass[t] IN
    /\ p.at = "answer" /\ InTerm(t)
    /\ doc.seq = p.was
    /\ doc' = p.next
    /\ rows' = Bound(Passed(Written(rows, p.next), p.next, p.msg), p)
    /\ wake' = "due"
    /\ elapsed' = (elapsed /\ ~p.next.waiting)
    /\ NoFault /\ results' = results \ {p.msg}
    /\ pass' = [Touched(pass) EXCEPT ![t] = IdlePass]
    /\ UNCHANGED <<token, cancelAsked, late, sent, queue, hosts>>

AnswerSave(t) ==
    LET p == pass[t] IN
    /\ p.at = "answer" /\ InTerm(t)
    /\ doc.seq = p.was
    /\ p.bind => rows[p.msg.row].runner \in {NoRunner, p.msg.from}
    /\ doc' = p.next
    /\ rows' = Bound(Passed(Written(rows, p.next), p.next, p.msg), p)
    /\ wake' = "due"
    /\ elapsed' = (elapsed /\ ~p.next.waiting)
    /\ \/ NoFault /\ results' = results \ {p.msg}
       \/ Fault /\ UNCHANGED results
    /\ pass' = [Touched(pass) EXCEPT ![t] = IdlePass]
    /\ UNCHANGED <<token, cancelAsked, late, sent, queue, hosts>>

\* The dispatch was redeemed since it was read: all of it is undone.
AnswerOutbound(t) ==
    LET p == pass[t] IN
    /\ p.at = "answer" /\ InTerm(t)
    /\ doc.seq = p.was
    /\ p.bind /\ rows[p.msg.row].runner \notin {NoRunner, p.msg.from}
    /\ results' = results \ {p.msg}
    /\ Idle(t)
    /\ UNCHANGED <<token, run, clocks, rows, sent, queue, hosts, faults>>

----------------------------------------------------------------------------
(* What else writes the rows: the sweep, progress, a request, the other    *)
(* steps of the run, and the clock.                                        *)

\* A key a heartbeat names: held, or with a result still to publish.
Names(r, k) ==
    /\ link[r] = "up"
    /\ work[r][k].at # "none" \/ \E m \in kept[r] : m.row[1] = k

\* Mutant: the loss is written and the run is not left due.
MutSweepLostUnwoken(x) ==
    /\ HeldRow(rows[x])
    /\ ~Names(rows[x].runner, x[1])
    /\ rows' = [rows EXCEPT ![x].state = "lost"]
    /\ UNCHANGED <<token, run, clocks, bus, pass, hosts, faults>>

\* Lost: three intervals without the holder naming the key.
SweepLost(x) ==
    /\ HeldRow(rows[x])
    /\ ~Names(rows[x].runner, x[1])
    /\ rows' = [rows EXCEPT ![x].state = "lost"]
    /\ IF doc.state \in RunOver THEN UNCHANGED <<wake, pass>>
       ELSE wake' = "due" /\ pass' = Touched(pass)
    /\ UNCHANGED <<token, doc, cancelAsked, clocks, bus, hosts, faults>>

\* Mutant: progress moves a dispatch that was declared lost.
MutProgressOverLoss(x, to) ==
    /\ rows[x].runner \in ran[x[1]]
    /\ doc.state \notin RunOver
    /\ rows[x].state \in {"dispatched", "running", "lost"} \ {to}
    /\ rows' = [rows EXCEPT ![x].state = to]
    /\ UNCHANGED <<token, run, clocks, bus, pass, hosts, faults>>

\* Only forwards, only from the holder, and not on the row of an ended run.
Progress(x, to) ==
    /\ rows[x].runner \in ran[x[1]]
    /\ doc.state \notin RunOver
    /\ rows[x].state \in (IF to = "running" THEN {"dispatched"}
                          ELSE {"dispatched", "running"})
    /\ rows' = [rows EXCEPT ![x].state = to]
    /\ UNCHANGED <<token, run, clocks, bus, pass, hosts, faults>>

RequestCancel ==
    /\ MayCancel /\ ~cancelAsked /\ doc.state \notin RunOver
    /\ cancelAsked' = TRUE
    /\ pass' = Touched(pass)
    /\ UNCHANGED <<token, doc, wake, clocks, rows, bus, hosts, faults>>

BackoffElapses ==
    /\ doc.waiting /\ ~elapsed /\ doc.state \notin RunOver
    /\ elapsed' = TRUE
    /\ UNCHANGED <<token, run, late, rows, bus, pass, hosts, faults>>

DeadlinePasses ==
    /\ HasDeadline /\ ~late /\ doc.seq > 0 /\ doc.state \notin RunOver
    /\ late' = TRUE
    /\ UNCHANGED <<token, run, elapsed, rows, bus, pass, hosts, faults>>

\* A result of another step, taken whole: it may lift this step's merge: first.
RestAnswers ==
    /\ doc.seq > 0 /\ doc.state \notin RunOver
    /\ \E rest \in {"first", "over"} :
        /\ \/ doc.rest = "going"
           \/ doc.rest = "first" /\ rest = "over" /\ doc.step = "ended"
        /\ doc' = [doc EXCEPT !.rest = rest, !.seq = @ + 1]
    /\ rows' = Written(rows, doc)
    /\ wake' = "due"
    /\ pass' = Touched(pass)
    /\ UNCHANGED <<token, cancelAsked, clocks, bus, hosts, faults>>

----------------------------------------------------------------------------
(* The runner: take, hold, redeem, acknowledge, run, record, report. *)

Ending(r, x) == [row |-> x, from |-> r, state |-> disk[r][x[1]].state,
                 coded |-> disk[r][x[1]].coded]

NotReached(r, x, st) == [row |-> x, from |-> r, state |-> st, coded |-> FALSE]

\* keep: one result per dispatch, the latest.
Keep(r, m) == [kept EXCEPT ![r] = {n \in @ : n.row # m.row} \cup {m}]

\* Acknowledged, or the acknowledgement is lost and the message comes round.
Ack(x) ==
    \/ NoFault /\ queue' = queue \ {x}
    \/ Fault /\ UNCHANGED queue

\* Release: let go of the key in memory and in the record.
Release(r, k) ==
    /\ work' = [work EXCEPT ![r][k] = NoWork]
    /\ disk' = [disk EXCEPT ![r][k] = NoEntry]

\* The stop of a task, from agentiik.stops or a heartbeat's answer.
Told(k) ==
    /\ k = doc.attempt
    /\ \/ doc.stopped
       \/ /\ doc.state \in {"cancelled", "timed_out"}
          /\ \/ doc.task = "dispatched"
             \/ \E q \in Turns : /\ rows[<<k, q>>].state \in {"cancelled", "timed_out"}
                                 /\ rows[<<k, q>>].runner # NoRunner

\* A key this host ended is answered from its record and never run again.
TakeEnded(r, x) ==
    /\ link[r] = "up" /\ x \in queue
    /\ disk[r][x[1]].state \in Endings
    /\ results' = results \cup {Ending(r, x)}
    /\ Ack(x)
    /\ UNCHANGED <<token, run, clocks, rows, sent, pass, hosts>>

\* Mutant: the record of endings is not read.
MutTakeUnread(r, x) ==
    /\ link[r] = "up" /\ x \in queue
    /\ work[r][x[1]].at = "none"
    /\ work' = [work EXCEPT ![r][x[1]] = [at |-> "held", turn |-> x[2]]]
    /\ disk' = [disk EXCEPT ![r][x[1]] = [state |-> "taken", coded |-> FALSE]]
    /\ UNCHANGED <<token, run, clocks, rows, bus, pass, link, box, owed, kept, ran, faults>>

\* Hold: refused to a key in flight here, whose message is left on the queue.
Take(r, x) ==
    /\ link[r] = "up" /\ x \in queue
    /\ disk[r][x[1]].state \notin Endings
    /\ work[r][x[1]].at = "none"
    /\ work' = [work EXCEPT ![r][x[1]] = [at |-> "held", turn |-> x[2]]]
    /\ disk' = [disk EXCEPT ![r][x[1]] = [state |-> "taken", coded |-> FALSE]]
    /\ UNCHANGED <<token, run, clocks, rows, bus, pass, link, box, owed, kept, ran, faults>>

Holding(r, k) == link[r] = "up" /\ work[r][k].at = "held"

Taken(r, k) == <<k, work[r][k].turn>>

\* Mutant: a dispatch another runner holds is redeemed again.
MutRefusedOver(r, x) == rows[x].state \in Over

\* ErrTaskHeld: another runner holds the dispatch, or it is over.
Refused(r, x) == rows[x].runner \notin {NoRunner, r} \/ rows[x].state \in Over

\* Mutant: a message refused with 409 is let go of and not acknowledged.
MutRedeemRefusedUnacked(r, k) ==
    /\ Holding(r, k) /\ Refused(r, Taken(r, k))
    /\ Release(r, k)
    /\ UNCHANGED <<token, run, clocks, rows, bus, pass, link, box, owed, kept, ran, faults>>

RedeemRefused(r, k) ==
    LET x == Taken(r, k) IN
    /\ Holding(r, k) /\ Refused(r, x)
    /\ Ack(x)
    /\ Release(r, k)
    /\ UNCHANGED <<token, run, clocks, rows, sent, results, pass, link, box, owed, kept, ran>>

RedeemedRows(r, x) == [rows EXCEPT ![x].runner = r, ![x].redeemed = TRUE]

Redeem(r, k) ==
    LET x == Taken(r, k) IN
    /\ Holding(r, k) /\ ~Refused(r, x)
    /\ rows' = RedeemedRows(r, x)
    /\ work' = [work EXCEPT ![r][k].at = "bound"]
    /\ Ack(x)
    /\ UNCHANGED <<token, run, clocks, sent, results, pass, link, disk, box, owed, kept, ran>>

\* The redemption bound the task and its answer was lost: it is asked again.
RedeemUnheard(r, k) ==
    LET x == Taken(r, k) IN
    /\ Fault
    /\ Holding(r, k) /\ ~Refused(r, x)
    /\ rows' = RedeemedRows(r, x)
    /\ UNCHANGED <<token, run, clocks, bus, pass, hosts>>

\* No answer by the deadline, or one no runner can act on: reported, unredeemed.
RedeemReport(r, k) ==
    LET x == Taken(r, k) IN
    /\ Fault
    /\ Holding(r, k)
    /\ \E st \in {"failed", "timed_out"} :
        \/ /\ results' = results \cup {NotReached(r, x, st)}
           /\ queue' = queue \ {x}
           /\ UNCHANGED kept
        \/ /\ kept' = Keep(r, NotReached(r, x, st))
           /\ UNCHANGED <<results, queue>>
    /\ Release(r, k)
    /\ UNCHANGED <<token, run, clocks, rows, sent, pass, link, box, owed, ran>>

\* Nothing was assembled, or no container could be made: the key is let go of.
CarryFails(r, k) ==
    /\ Fault
    /\ link[r] # "down" /\ work[r][k].at = "bound"
    /\ \E st \in {"failed", "timed_out"} :
        kept' = Keep(r, NotReached(r, Taken(r, k), st))
    /\ Release(r, k)
    /\ UNCHANGED <<token, run, clocks, rows, bus, pass, link, box, owed, ran>>

Owes(r, x) == owed' = [owed EXCEPT ![r] = @ \cup {x}]

\* A container is created and started, or the one left of the key is rejoined.
Start(r, k) ==
    /\ link[r] # "down" /\ work[r][k].at = "bound"
    /\ work' = [work EXCEPT ![r][k].at = "running"]
    /\ box' = [box EXCEPT ![r][k] = TRUE]
    /\ ran' = [ran EXCEPT ![k] = @ \cup {r}]
    /\ Owes(r, Taken(r, k))
    /\ UNCHANGED <<token, run, clocks, rows, bus, pass, link, disk, kept, faults>>

\* A stop landed before the container was started: it never is.
StartCalledOff(r, k) ==
    /\ link[r] # "down" /\ work[r][k].at = "bound"
    /\ Told(k) /\ ~box[r][k]
    /\ work' = [work EXCEPT ![r][k].at = "ended"]
    /\ disk' = [disk EXCEPT ![r][k] = [state |-> "cancelled", coded |-> FALSE]]
    /\ Owes(r, Taken(r, k))
    /\ UNCHANGED <<token, run, clocks, rows, bus, pass, link, box, kept, ran, faults>>

\* The ending is recorded before the container is removed.
RecordEnding(r, k, st, coded) ==
    /\ link[r] # "down" /\ work[r][k].at = "running"
    /\ disk' = [disk EXCEPT ![r][k] = [state |-> st, coded |-> coded]]
    /\ work' = [work EXCEPT ![r][k].at = "ended"]
    /\ box' = [box EXCEPT ![r][k] = FALSE]
    /\ UNCHANGED <<token, run, clocks, rows, bus, pass, link, owed, kept, ran>>

ContainerEnds(r, k, st) ==
    /\ st \in Outcomes \/ (st = "cancelled" /\ Told(k))
    /\ RecordEnding(r, k, st, TRUE)
    /\ NoFault

\* The container ended and its exit could not be read.
ExitUnread(r, k) == Fault /\ RecordEnding(r, k, "failed", FALSE)

\* Report, first half: kept on disk, no longer owed, named until published.
KeepResult(r, k) ==
    LET x == Taken(r, k) IN
    /\ link[r] # "down" /\ work[r][k].at = "ended"
    /\ kept' = Keep(r, Ending(r, x))
    /\ owed' = [owed EXCEPT ![r] = @ \ {x}]
    /\ work' = [work EXCEPT ![r][k] = NoWork]
    /\ UNCHANGED <<token, run, clocks, rows, bus, pass, link, disk, box, ran, faults>>

\* Report and Flush: published, and forgotten once the bus is known to have it.
Flush(r, m) ==
    /\ link[r] = "up" /\ m \in kept[r]
    /\ results' = results \cup {m}
    /\ \/ NoFault /\ kept' = [kept EXCEPT ![r] = @ \ {m}]
       \/ Fault /\ UNCHANGED kept
    /\ UNCHANGED <<token, run, clocks, rows, sent, queue, pass, link, work, disk, box, owed, ran>>

\* The agent dies; the daemon, its containers and the disk stay.
Crash(r) ==
    /\ Fault
    /\ link[r] # "down"
    /\ link' = [link EXCEPT ![r] = "down"]
    /\ work' = [work EXCEPT ![r] = [k \in Keys |-> NoWork]]
    /\ UNCHANGED <<token, run, clocks, rows, bus, pass, disk, box, owed, kept, ran>>

\* Recover: a result is kept for each dispatch owed one whose key has ended.
Restart(r) ==
    /\ link[r] = "down"
    /\ link' = [link EXCEPT ![r] = "up"]
    /\ kept' = [kept EXCEPT ![r] =
                  @ \cup {Ending(r, x) : x \in {y \in owed[r] :
                            disk[r][y[1]].state \in Endings /\ \A m \in @ : m.row # y}}]
    /\ owed' = [owed EXCEPT ![r] = {}]
    /\ UNCHANGED <<token, run, clocks, rows, bus, pass, work, disk, box, ran, faults>>

\* The host is cut off from the bus and the API, and works on.
Cut(r) ==
    /\ Fault
    /\ link[r] = "up"
    /\ link' = [link EXCEPT ![r] = "cut"]
    /\ UNCHANGED <<token, run, clocks, rows, bus, pass, work, disk, box, owed, kept, ran>>

Heal(r) ==
    /\ link[r] = "cut"
    /\ link' = [link EXCEPT ![r] = "up"]
    /\ UNCHANGED <<token, run, clocks, rows, bus, pass, work, disk, box, owed, kept, ran, faults>>

----------------------------------------------------------------------------

PassStep(t) ==
    \/ FencedOut(t) \/ StaleOut(t)
    \/ DecideRead(t) \/ CancelRead(t) \/ Save(t)
    \/ Grant(t) \/ Publish(t) \/ RecordDispatch(t) \/ Rewake(t)
    \/ AnswerSave(t) \/ AnswerOutbound(t)

PassFault(t) == Abort(t) \/ PublishFails(t)

AnswerStep(m) ==
    \/ AnswerRefused(m) \/ AnswerReport(m)
    \/ \E t \in Threads : AnswerRead(t, m)

HostStep(r, k) ==
    \/ RedeemRefused(r, k) \/ Redeem(r, k)
    \/ Start(r, k) \/ StartCalledOff(r, k)
    \/ \E st \in Outcomes \cup {"cancelled"} : ContainerEnds(r, k, st)
    \/ KeepResult(r, k)

HostFault(r, k) ==
    RedeemUnheard(r, k) \/ RedeemReport(r, k) \/ CarryFails(r, k) \/ ExitUnread(r, k)

TakeStep(r, x) == TakeEnded(r, x) \/ Take(r, x)

Next ==
    \/ NewTerm \/ RequestCancel \/ BackoffElapses \/ DeadlinePasses \/ RestAnswers
    \/ \E t \in Threads : PassStep(t) \/ PassFault(t)
    \/ \E m \in results : AnswerStep(m)
    \/ \E x \in Dispatches :
        \/ SweepLost(x)
        \/ \E to \in Progresses : Progress(x, to)
        \/ \E r \in Runners : TakeStep(r, x)
    \/ \E r \in Runners :
        \/ \E k \in Keys : HostStep(r, k) \/ HostFault(r, k)
        \/ \E m \in kept[r] : Flush(r, m)
        \/ Crash(r) \/ Restart(r) \/ Cut(r) \/ Heal(r)

Spec == Init /\ [][Next]_vars

(***************************************************************************)
(* The sweep and the consumers run for as long as there is a controller,   *)
(* every pass ends, a message not acknowledged is delivered again, a clock *)
(* comes round, a host carries on with what it holds, and a host that is   *)
(* down or cut off comes back.  Nothing is assumed of faults, of a request *)
(* to cancel, of a stop, or of which host takes a message.                 *)
(***************************************************************************)
Fairness ==
    /\ \A t \in Threads : WF_vars(PassStep(t))
    /\ WF_vars(\E m \in results : AnswerStep(m))
    /\ \A x \in Dispatches : WF_vars(SweepLost(x))
    /\ \A x \in Dispatches : WF_vars(\E r \in Runners : TakeStep(r, x))
    /\ \A r \in Runners, k \in Keys : WF_vars(HostStep(r, k))
    /\ \A r \in Runners : WF_vars(\E m \in kept[r] : Flush(r, m))
    /\ \A r \in Runners : WF_vars(Restart(r) \/ Heal(r))
    /\ WF_vars(BackoffElapses) /\ WF_vars(DeadlinePasses) /\ WF_vars(RestAnswers)

FairSpec == Spec /\ Fairness

----------------------------------------------------------------------------

(***************************************************************************)
(* At most one dispatch of a key is anything but lost.  The tasks table    *)
(* has a uniqueness rule saying so, and Redeem reads one row as an answer  *)
(* about the key because of it.  That no decision is ever refused by the   *)
(* rule rests on Record ignoring a dispatch requeued past, on the sequence *)
(* a pass is written against, and on a loss never being undone once heard. *)
(***************************************************************************)
OneLiveDispatch ==
    \A k \in Keys : \A q1, q2 \in Turns :
        /\ rows[<<k, q1>>].state \notin {"none", "lost"}
        /\ rows[<<k, q2>>].state \notin {"none", "lost"}
        => q1 = q2

(***************************************************************************)
(* A loss the evaluator has still to hear leaves the run due.  The sweep   *)
(* declares it between any two transactions of any pass, and each of those *)
(* passes goes on to write a clock: SaveDecision sees the row it may not   *)
(* write over, and Rewake the version it read.  Otherwise the run waits    *)
(* for ever on a task nobody runs.                                         *)
(***************************************************************************)
LossNotForgotten ==
    /\ doc.state \notin RunOver
    /\ rows[Current(doc)].state = "lost"
    /\ doc.task \notin Over
    => wake = "due"

(***************************************************************************)
(* The rows of a run that has ended hold nothing: none is in flight, to    *)
(* redeem a grant or to count against a quota, whichever pass, answer,     *)
(* progress or redemption was under way as the run ended.                  *)
(***************************************************************************)
EndedRunHoldsNothing ==
    doc.state \in RunOver => \A x \in Dispatches : rows[x].state \notin Going

(***************************************************************************)
(* What the rows say and what the document says of the current dispatch    *)
(* agree, but for a loss not heard yet and one kept under a stop; and the  *)
(* dispatches before it are over.                                          *)
(***************************************************************************)
RowsFollowDocument ==
    /\ doc.state \notin RunOver /\ doc.step # "pending"
    => LET row == rows[Current(doc)] IN
       /\ doc.task = "pending" => row.state = "pending"
       /\ doc.task = "dispatched" => row.state \in InFlight \cup {"lost"}
       /\ doc.task \in Over =>
            row.state = doc.task \/ (row.state = "lost" /\ doc.stopped)
       /\ doc.coded => row.coded
       /\ \A x \in Dispatches : x # Current(doc) => rows[x].state \notin Going

(***************************************************************************)
(* A row's binding is never given to another runner, a code is never       *)
(* taken back, and an ending never changes, but for a loss that a result   *)
(* of the very runner that went quiet overtakes, with its ending or with   *)
(* the code its stopped container left: neither a stop alone, a stale      *)
(* decision nor late progress erases the record that it went quiet.        *)
(***************************************************************************)
RowsOnlyMoveForwards ==
    [][\A x \in Dispatches :
        /\ rows[x].runner # NoRunner => rows'[x].runner = rows[x].runner
        /\ rows[x].coded => rows'[x].coded
        /\ rows[x].state \in Endings => rows'[x].state = rows[x].state
        /\ rows[x].state = "lost" =>
            \/ rows'[x].state = "lost"
            \/ \E m \in results :
                /\ m.row = x /\ m.from = rows[x].runner
                /\ \/ m.state = rows'[x].state
                   \/ doc.stopped /\ m.coded /\ rows'[x].coded]_vars

(***************************************************************************)
(* A key is started on a second host only for a dispatch that was lost:    *)
(* however often its message is delivered, republished or not              *)
(* acknowledged, the hosts that started a container of it are at most one  *)
(* more than its losses.                                                   *)
(***************************************************************************)
AnotherHostOnlyAfterLoss ==
    \A k \in Keys :
        Cardinality(ran[k]) <=
            1 + Cardinality({q \in Turns : rows[<<k, q>>].state = "lost"})

(***************************************************************************)
(* A success or an exit code on a row is what the host bound to it         *)
(* recorded of a container it started for the key: neither a result of a   *)
(* host that does not hold the dispatch, nor one bound to it by an ending  *)
(* with no container, ever reads as work that was done.                    *)
(***************************************************************************)
EndingFromItsHost ==
    \A x \in Dispatches :
        rows[x].coded \/ rows[x].state = "succeeded" =>
            LET r == rows[x].runner IN
            /\ r \in ran[x[1]]
            /\ disk[r][x[1]].coded
            /\ rows[x].state = "succeeded" => disk[r][x[1]].state = "succeeded"

(***************************************************************************)
(* A host never starts a container of a key it has recorded the ending of: *)
(* a requeue that comes back is answered from the record, across crashes.  *)
(***************************************************************************)
EndedKeyNotRerun ==
    [][\A r \in Runners, k \in Keys :
        disk[r][k].state \in Endings =>
            /\ disk'[r][k] = disk[r][k]
            /\ ~box[r][k] => ~box'[r][k]]_vars

(***************************************************************************)
(* Every run ends, and everything it sent is answered for: no message,     *)
(* result, owed dispatch or pass is left over, whatever was cut off,       *)
(* crashed, fenced, lost or delivered twice on the way.                    *)
(***************************************************************************)
RunEnds == <>(doc.state \in RunOver)

Drains ==
    <>[](/\ queue = {} /\ results = {}
         /\ \A r \in Runners : kept[r] = {} /\ owed[r] = {}
         /\ \A r \in Runners, k \in Keys : work[r][k] = NoWork)
=============================================================================
