------------------------------- MODULE Shard -------------------------------
(***************************************************************************)
(* One shard of one step, as the evaluator's document holds it             *)
(* (graph/evaluator.go, graph/retry.go, graph/verdict.go), and the rows of *)
(* its dispatches, as the decisions write them (db/runs.go).               *)
(*                                                                         *)
(* A dispatch is <<attempt, requeue>>: the attempt makes the idempotency   *)
(* key, a requeue after a loss keeps the key and is a row of its own.  The *)
(* other steps of the run are reduced to what they can do to this shard:   *)
(* they are under way ("going"), a merge: first lifted on another edge     *)
(* ("first"), or they have all ended ("over").                             *)
(***************************************************************************)
EXTENDS Naturals, FiniteSets

CONSTANTS
    MaxAttempts,    \* 1 + retry.max
    MaxRequeues,    \* the installation's max_requeues
    RetryOn,        \* the failures retry.on names
    Idempotent,     \* whether the step is idempotent
    Backoff,        \* whether a further attempt waits
    HasDeadline,    \* whether the run has a root timeout
    Siblings,       \* whether the run has other steps
    Runners,        \* the runners of the pool
    NoRunner        \* nobody

Failures == {"failed", "timed_out", "lost"}

ASSUME ShardAssumption ==
    /\ MaxAttempts \in Nat \ {0}
    /\ MaxRequeues \in Nat
    /\ RetryOn \subseteq Failures
    /\ Idempotent \in BOOLEAN /\ Backoff \in BOOLEAN
    /\ HasDeadline \in BOOLEAN /\ Siblings \in BOOLEAN
    /\ NoRunner \notin Runners

InFlight == {"dispatched", "running", "publishing"}
Going    == {"pending"} \cup InFlight
Endings  == {"succeeded", "failed", "timed_out", "cancelled"}
Over     == Endings \cup {"lost"}

Keys       == 1..MaxAttempts
Turns      == 0..MaxRequeues
Dispatches == Keys \X Turns

RunOver == {"succeeded", "failed", "cancelled", "timed_out"}

\* coded: a container started and the exit code it left is known.
Doc == [seq : Nat, state : {"queued", "running"} \cup RunOver,
        step : {"pending", "running", "ended"},
        attempt : Keys, requeue : Turns,
        task : {"pending", "dispatched"} \cup Over,
        coded : BOOLEAN, stopped : BOOLEAN, waiting : BOOLEAN,
        rest : {"going", "first", "over"}]

\* graph.Start: nothing decided, every step pending.
StartDoc ==
    [seq |-> 0, state |-> "queued", step |-> "pending", attempt |-> 1,
     requeue |-> 0, task |-> "pending", coded |-> FALSE, stopped |-> FALSE,
     waiting |-> FALSE, rest |-> IF Siblings THEN "going" ELSE "over"]

Current(d) == <<d.attempt, d.requeue>>

----------------------------------------------------------------------------
(* Record: what became of one dispatch, heard by the evaluator. *)

\* The file asks for a lost task to be handed out again.
Requeueable(st) == st = "lost" /\ Idempotent /\ "lost" \in RetryOn

\* Mutant: a key is handed out once more than max_requeues allows.
MutRequeuedOneMore(d, st) == Requeueable(st) /\ d.requeue <= MaxRequeues

Requeued(d, st) == Requeueable(st) /\ d.requeue < MaxRequeues

\* A failure the policy names; one that reached no container names no kind.
NextAttempt(d, st, coded) ==
    /\ st \in RetryOn \ {"lost"}
    /\ st = "failed" => coded
    /\ d.attempt < MaxAttempts

\* The exit code of a shard the evaluator stopped, taken once.
StoppedExit(d, q, st, coded) ==
    IF /\ d.stopped /\ ~d.coded
       /\ st # "lost" /\ q = d.requeue /\ coded
    THEN [d EXCEPT !.coded = TRUE, !.seq = @ + 1]
    ELSE d

\* The ending st of dispatch <<k, q>>; a judged or passed dispatch is no news.
Record(d, k, q, st, coded) ==
    LET again == [d EXCEPT !.task = "pending", !.coded = FALSE,
                           !.waiting = FALSE, !.seq = @ + 1]
    IN  CASE k # d.attempt -> d
          [] k = d.attempt /\ d.task \in Over -> StoppedExit(d, q, st, coded)
          [] k = d.attempt /\ d.task \notin Over /\ q # d.requeue -> d
          [] OTHER ->
               IF Requeued(d, st)
               THEN [again EXCEPT !.requeue = @ + 1]
               ELSE IF NextAttempt(d, st, coded)
               THEN [again EXCEPT !.attempt = @ + 1, !.requeue = 0,
                                  !.waiting = Backoff /\ coded]
               ELSE [again EXCEPT !.task = st, !.coded = coded]

\* The dispatch of the current task, recorded once its message has gone.
RecordDispatched(d) ==
    IF d.task \in Over THEN d
    ELSE [d EXCEPT !.task = "dispatched", !.coded = FALSE,
                   !.waiting = FALSE, !.seq = @ + 1]

----------------------------------------------------------------------------
(* Next: one pass over the graph. *)

Begun(d) ==
    IF d.step = "pending" THEN [d EXCEPT !.step = "running", !.state = "running"]
    ELSE d

Settled(d) ==
    IF d.step = "running" /\ d.task \in Over THEN [d EXCEPT !.step = "ended"]
    ELSE d

\* merge: first lifted on another edge: the step and its task end, stopped.
Superseded(d) ==
    IF d.step = "running" /\ d.rest = "first"
    THEN [d EXCEPT !.step = "ended", !.task = "cancelled", !.coded = FALSE,
                   !.stopped = TRUE, !.waiting = FALSE]
    ELSE d

\* A step that failed fails the run; a superseded one does not.
Judged(d) ==
    IF d.step = "ended" /\ d.rest = "over" /\ d.state = "running"
    THEN [d EXCEPT !.state = IF d.task \in {"succeeded", "cancelled"}
                             THEN "succeeded" ELSE "failed"]
    ELSE d

\* The run ends under its task: the step is cancelled, the shard stays as it was.
EndRun(d, st) ==
    [d EXCEPT !.state = st, !.seq = @ + 1,
              !.step = IF @ = "running" THEN "ended" ELSE @]

\* late: the root timeout has passed.
NextDoc(d, late) ==
    LET passed == Judged(Superseded(Settled(Begun(d))))
    IN  CASE d.state \in RunOver -> d
          [] d.state \notin RunOver /\ late -> EndRun(d, "timed_out")
          [] OTHER -> IF passed = d THEN d ELSE [passed EXCEPT !.seq = @ + 1]

Cancel(d) == IF d.state \in RunOver THEN d ELSE EndRun(d, "cancelled")

\* dispatch: the task that may be handed out now.
Starts(d, elapsed) ==
    /\ d.state = "running" /\ d.step = "running"
    /\ d.task = "pending" /\ (d.waiting => elapsed)

\* wake: the backoff's end or the root timeout, whichever is first.
WakeOf(d, elapsed, late) ==
    IF /\ d.state \notin RunOver
       /\ \/ d.task = "pending" /\ d.waiting /\ ~elapsed
          \/ HasDeadline /\ ~late
    THEN "clock" ELSE "none"

----------------------------------------------------------------------------
(* The rows of the dispatches. *)

RowRecord == [state : {"none"} \cup Going \cup Over,
              runner : Runners \cup {NoRunner},
              redeemed : BOOLEAN, published : BOOLEAN, coded : BOOLEAN]

NoRow == [state |-> "none", runner |-> NoRunner, redeemed |-> FALSE,
          published |-> FALSE, coded |-> FALSE]

\* A loss stands over what is behind it, and a dispatch only moves forwards.
Keeps(row, st, coded) ==
    \/ row.state = "lost" /\ (st \in Going \/ (st = "cancelled" /\ ~coded))
    \/ row.state \in {"running", "publishing"} /\ st \in {"pending", "dispatched"}

WriteTask(row, st, coded) ==
    [row EXCEPT !.state = IF Keeps(row, st, coded) THEN @ ELSE st,
                !.coded = @ \/ coded]

\* The row says what the decision said, or there is nothing left to hear.
Heard(row, st, coded) ==
    row.state = "lost" => (st = "lost" \/ (st = "cancelled" /\ ~coded))

\* project: the row of the shard's current dispatch, once its step has begun.
Written(rs, d) ==
    IF d.step = "pending" THEN rs
    ELSE [rs EXCEPT ![Current(d)] = WriteTask(@, d.task, d.coded)]

HeardIn(rs, d) == d.step = "pending" \/ Heard(rs[Current(d)], d.task, d.coded)

\* endTasks: every row still going ends as the run did.
EndTasks(rs, st) ==
    [x \in Dispatches |->
        IF rs[x].state \in Going THEN [rs[x] EXCEPT !.state = st] ELSE rs[x]]

\* Published: the stamp goes on every unstamped row of the key.
Published(rs, k) ==
    [x \in Dispatches |->
        IF x[1] = k /\ rs[x].state # "none"
        THEN [rs[x] EXCEPT !.published = TRUE] ELSE rs[x]]

\* TaskRow: the latest dispatch of a key that has a row.
IsTaskRow(rs, x) ==
    /\ rs[x].state # "none"
    /\ \A q \in Turns : rs[<<x[1], q>>].state # "none" => q <= x[2]

\* RedeemedBefore: runner r redeemed an earlier dispatch of x's key.
RedeemedBefore(rs, x, r) ==
    \E q \in Turns : /\ q < x[2]
                     /\ rs[<<x[1], q>>].runner = r /\ rs[<<x[1], q>>].redeemed

\* held: in flight and bound, the only kind of row Lost moves.
HeldRow(row) == row.state \in InFlight /\ row.runner # NoRunner

\* Losses: lost, and nothing has requeued it.
IsLoss(rs, x) == rs[x].state = "lost" /\ IsTaskRow(rs, x)
=============================================================================
