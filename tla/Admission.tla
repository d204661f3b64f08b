------------------------------ MODULE Admission ------------------------------
(***************************************************************************)
(* How runs come about and start: a trigger, or a step that calls a        *)
(* workflow, creates a run; the leading controller admits it when its      *)
(* concurrency group and its namespace's quota let it, hands its tasks     *)
(* out, and brings the ending of a called run back to its caller.          *)
(*                                                                         *)
(* The controller decides on two goroutines (cmd/agentiik-controller,      *)
(* lead): "watch", which hears notifications and sweeps, and "answers",    *)
(* which records a result and decides that run again.  One Decide is a     *)
(* sequence of transactions, one action each, so two passes interleave     *)
(* here as they do in the database.  All runs are of one namespace; a      *)
(* task's way through the fleet is Dispatch's and is one action here.      *)
(***************************************************************************)
EXTENDS Naturals, FiniteSets

CONSTANTS
    Workflows,          \* the workflows that may be run
    TasksOf,            \* workflow -> the number of its container tasks
    GroupOf,            \* workflow -> its concurrency group, NoGroup for none
    CancelInProgress,   \* the workflows whose run cancels the holder of its group
    CalleeOf,           \* workflow -> the workflow its call step calls, NoWorkflow for none
    NoWorkflow,
    Ceiling,            \* max_concurrent_tasks of the namespace
    MaxRuns,            \* max_runs_per_hour: the hour does not pass in a behaviour
    MaxCallDepth,       \* how deep a chain of calls may be
    MaxStarts,          \* bound: runs started from outside
    MaxUpsets           \* bound: cancellations, grants revoked, controllers that die

ASSUME AdmissionAssumption ==
    /\ TasksOf \in [Workflows -> Nat]
    /\ CancelInProgress \subseteq Workflows
    /\ CalleeOf \in [Workflows -> Workflows \cup {NoWorkflow}]
    /\ NoWorkflow \notin Workflows
    /\ {Ceiling, MaxRuns} \subseteq Nat \ {0}
    /\ {MaxCallDepth, MaxStarts, MaxUpsets} \subseteq Nat

Workers == {"watch", "answers"}
Ids     == 1 .. MaxRuns         \* in the order of creation
NoRun   == 0
NoGroup == ""                   \* concurrency_group of a run of no group

VARIABLES
    runs,       \* the runs table: Ids -> a row, NoRow before it is created
    out,        \* Ids -> the tasks whose message the bus took and that have not ended
    at,         \* Workers -> the pass the goroutine is in
    holds,      \* whether the principal of the runs holds workflow:run
    upsets      \* how many upsets there have been

vars == <<runs, out, at, holds, upsets>>

-----------------------------------------------------------------------------
(* Rows.                                                                   *)

InFlight == {"pending", "dispatched"}
Over     == {"succeeded", "failed", "cancelled"}
Live     == {"queued", "running"}

NoRow == [state |-> "absent"]

(* A row as CreateRun writes it: queued, nothing decided, and the document *)
(* the first pass will write: every task pending, and a call step that     *)
(* waits for all of them to succeed ("none" where the workflow calls none).*)
NewRow(wf, caller, depth) ==
    [ state     |-> "queued", wf |-> wf, seq |-> 0, group |-> NoGroup,
      cancelReq |-> FALSE, wake |-> FALSE, caller |-> caller, depth |-> depth,
      tasks     |-> [t \in 1 .. TasksOf[wf] |-> "pending"],
      published |-> {},
      call      |-> IF CalleeOf[wf] = NoWorkflow THEN "none" ELSE "waiting",
      called    |-> NoRun ]

Created == {r \in Ids : runs[r] # NoRow}
Ended(row) == row.state \in Over
Fresh == Cardinality(Created) + 1

(* CalledBy: the run a dispatch has called.  A caller has one call step,   *)
(* dispatched once, so the caller's run names the dispatch.                *)
CalledBy(r) == {c \in Created : runs[c].caller = r}

(* Slots: what the namespace may still hold.  A task counts once its       *)
(* message is stamped published and until its row ends.                    *)
OutOf(r) == {t \in runs[r].published : runs[r].tasks[t] \in InFlight}
Held     == UNION {{r} \X OutOf(r) : r \in Created}
\* Mutant: the tasks out are not taken off the ceiling.
MutSlotsAll == Ceiling
Slots == IF Cardinality(Held) >= Ceiling THEN 0 ELSE Ceiling - Cardinality(Held)

(* Holding and NextInLine: who holds a group, and who a free one lets in.  *)
\* Mutant: a group's holder is not looked for.
MutHoldingNobody(g) == {}
Holding(g)    == {r \in Created : runs[r].group = g /\ runs[r].state = "running"}
Queued(g)     == {r \in Created : runs[r].group = g /\ runs[r].state = "queued"}
\* Mutant: a free group lets in whoever asks.
MutNextInLineAny(r, queue) == TRUE
NextInLine(r, queue) == \A q \in queue : r <= q

(* Actionable: what a sweep finds.  A call's row is never stamped, so its  *)
(* caller is found on every sweep for as long as the call is in flight.    *)
Actionable ==
    {r \in Created :
        /\ runs[r].state \in Live
        /\ \/ runs[r].seq = 0
           \/ runs[r].wake
           \/ runs[r].cancelReq
           \/ \E t \in DOMAIN runs[r].tasks :
                 runs[r].tasks[t] \in InFlight /\ t \notin runs[r].published
           \/ runs[r].call = "dispatched"}

-----------------------------------------------------------------------------
(* Passes.  A goroutine names the run it is at, and from the moment it     *)
(* evaluates holds the document as it read it (doc), whether it changed    *)
(* it, the tasks it will hand out (start), and whether the row was written *)
(* since it was read (touched: the row's xmin differs).                    *)

Idle == [pc |-> "idle"]
To(pc, r) == [pc |-> pc, run |-> r]
Pass(pc, r, touched) ==
    [pc |-> pc, run |-> r, doc |-> runs[r], changed |-> FALSE, start |-> {}, touched |-> touched]

Busy(w, pc) == at[w].pc = pc

(* Every write to a row is seen by the passes that read it before.         *)
Deciding(w) == at[w].pc \in {"calls", "ask", "create", "quota", "save", "hand"}
Seen(p) == [p EXCEPT !.touched = TRUE]
Touch(written) ==
    [w \in Workers |-> IF Deciding(w) /\ at[w].run \in written THEN Seen(at[w]) ELSE at[w]]

Pending(doc) == {t \in DOMAIN doc.tasks : doc.tasks[t] = "pending"}
LeastOf(S, n) == {t \in S : Cardinality({s \in S : s < t}) < n}

(* The evaluator, on a document: whether the call step is reached, and the *)
(* verdict once nothing is left to do or to wait for.                      *)
Fates(doc)    == {doc.tasks[t] : t \in DOMAIN doc.tasks}
Reached(doc)  == doc.call = "waiting" /\ Fates(doc) \subseteq {"succeeded"}
Verdict(doc) ==
    IF Fates(doc) \cap InFlight # {} \/ doc.call = "dispatched" \/ Reached(doc) THEN "running"
    ELSE IF "failed" \in Fates(doc) \cup {doc.call} THEN "failed" ELSE "succeeded"

(* CancelCalled and WakeCaller, in the transaction that ends run r.        *)
Callees(r) == {c \in CalledBy(r) : runs[c].state \in Live /\ ~ runs[c].cancelReq}
Waking(r)  == IF runs[r].caller # NoRun /\ runs[runs[r].caller].state \in Live
              THEN {runs[r].caller} ELSE {}

AskedToCancel(row) == [row EXCEPT !.cancelReq = TRUE]
Woken(row)         == [row EXCEPT !.wake = TRUE]

(* A decision written over run r: its document, and where that ends the    *)
(* run, what it called is asked to cancel and who called it is woken.      *)
Written(r, row) ==
    [x \in Ids |->
        IF x = r THEN row
        ELSE IF ~ Ended(row) THEN runs[x]
        ELSE IF x \in Callees(r) THEN AskedToCancel(runs[x])
        ELSE IF x \in Waking(r) THEN Woken(runs[x])
        ELSE runs[x]]
Told(r, row) == IF Ended(row) THEN Callees(r) \cup Waking(r) ELSE {}

CancelRow(row) ==
    [row EXCEPT !.state = "cancelled", !.seq = @ + 1, !.wake = FALSE,
        !.tasks = [t \in DOMAIN row.tasks |->
                      IF row.tasks[t] \in InFlight THEN "cancelled" ELSE row.tasks[t]],
        !.call = IF @ \in {"waiting", "dispatched"} THEN "cancelled" ELSE @]

-----------------------------------------------------------------------------
(* What the API does.                                                      *)

(* Start, Prepare, Create: the run is created within the hour's quota and  *)
(* the controller notified in the same transaction.                        *)
Start(wf) ==
    /\ Cardinality({r \in Created : runs[r].caller = NoRun}) < MaxStarts
    /\ Fresh \in Ids
    /\ runs' = [runs EXCEPT ![Fresh] = NewRow(wf, NoRun, 0)]
    /\ UNCHANGED <<out, at, holds, upsets>>

RequestCancel(r) ==
    /\ upsets < MaxUpsets
    /\ r \in Created /\ runs[r].state \in Live /\ ~ runs[r].cancelReq
    /\ runs' = [runs EXCEPT ![r] = AskedToCancel(@)]
    /\ at' = Touch({r})
    /\ upsets' = upsets + 1
    /\ UNCHANGED <<out, holds>>

(* The principal's grant is revoked or expires.                            *)
Revoke ==
    /\ holds /\ upsets < MaxUpsets
    /\ holds' = FALSE
    /\ upsets' = upsets + 1
    /\ UNCHANGED <<runs, out, at>>

-----------------------------------------------------------------------------
(* The watch and the answers.                                              *)

(* Decide's first transaction, and what it leads to: nothing for a run     *)
(* that has ended, a cancellation for one asked to cancel or refused, the  *)
(* question of admission for one nothing has decided.                      *)
Reading(r) ==
    IF Ended(runs[r]) THEN Idle
    ELSE IF runs[r].cancelReq THEN To("cancel", r)
    ELSE IF runs[r].seq = 0 THEN To(IF holds THEN "admit" ELSE "refuse", r)
    ELSE Pass("calls", r, FALSE)

(* The watch decides a run that a sweep, a clock come round or a           *)
(* notification names.  Whatever is notified is actionable when it is, so  *)
(* what the sweep finds is all a pass may begin from; a notification only  *)
(* brings it forward, and one that is missed is not missed here.           *)
Swept(r) ==
    /\ Busy("watch", "idle")
    /\ r \in Actionable
    /\ at' = [at EXCEPT !["watch"] = Reading(r)]
    /\ UNCHANGED <<runs, out, holds, upsets>>

\* Mutant: a result is recorded and the run left as it was due.
MutAnswerAsleep(r, t, fate) ==
    /\ Busy("answers", "idle")
    /\ t \in out[r]
    /\ out' = [out EXCEPT ![r] = @ \ {t}]
    /\ IF Ended(runs[r]) \/ runs[r].tasks[t] \notin InFlight
       THEN UNCHANGED <<runs, at>>
       ELSE /\ runs' = [runs EXCEPT ![r].tasks[t] = fate, ![r].seq = @ + 1]
            /\ at' = [Touch({r}) EXCEPT !["answers"] = To("read", r)]
    /\ UNCHANGED <<holds, upsets>>

(* Answer: a task handed out ends, its result is recorded under the run's  *)
(* sequence, and the run is decided again by the same goroutine.  A result *)
(* for a run that has ended changes no row.                                *)
Answer(r, t, fate) ==
    /\ Busy("answers", "idle")
    /\ t \in out[r]
    /\ out' = [out EXCEPT ![r] = @ \ {t}]
    /\ IF Ended(runs[r]) \/ runs[r].tasks[t] \notin InFlight
       THEN UNCHANGED <<runs, at>>
       ELSE /\ runs' = [runs EXCEPT ![r].tasks[t] = fate, ![r].seq = @ + 1, ![r].wake = TRUE]
            /\ at' = [Touch({r}) EXCEPT !["answers"] = To("read", r)]
    /\ UNCHANGED <<holds, upsets>>

(* The controller dies and a new one leads: what its goroutines were doing *)
(* is gone.                                                                *)
Crash ==
    /\ upsets < MaxUpsets
    /\ at' = [w \in Workers |-> Idle]
    /\ upsets' = upsets + 1
    /\ UNCHANGED <<runs, out, holds>>

-----------------------------------------------------------------------------
(* Decide, one transaction an action.                                      *)

Goto(w, pass) == at' = [at EXCEPT ![w] = pass]

Read(w) ==
    /\ Busy(w, "read")
    /\ Goto(w, Reading(at[w].run))
    /\ UNCHANGED <<runs, out, holds, upsets>>

(* cancel: the run is read again and ended; a refusal leaves a run that    *)
(* something decided meanwhile.  Its two transactions succeed only where   *)
(* the sequence did not move between them, so they are one step.           *)
Cancel(w) ==
    /\ Busy(w, "cancel") \/ Busy(w, "refuse")
    /\ LET r == at[w].run IN
       IF Ended(runs[r]) \/ (Busy(w, "refuse") /\ runs[r].seq > 0)
       THEN /\ Goto(w, Idle)
            /\ UNCHANGED runs
       ELSE LET row == CancelRow(runs[r]) IN
            /\ runs' = Written(r, row)
            /\ at' = [Touch({r} \cup Told(r, row)) EXCEPT ![w] = Idle]
    /\ UNCHANGED <<out, holds, upsets>>

(* admitted: the group is stamped, its holder and its queue are read, and  *)
(* a run with cancel_in_progress cancels the holder and waits.             *)
Admitted(w) ==
    /\ Busy(w, "admit")
    /\ LET r     == at[w].run
           g     == GroupOf[runs[r].wf]
           queue == Queued(g) \cup {r}
       IN  /\ runs' = [runs EXCEPT ![r].group = g]
           /\ at' = [Touch({r}) EXCEPT ![w] =
                 IF g # NoGroup /\ Holding(g) # {}
                 THEN IF runs[r].wf \in CancelInProgress
                      THEN To("cancel", CHOOSE h \in Holding(g) : TRUE)
                      ELSE Idle
                 ELSE IF (g = NoGroup \/ NextInLine(r, queue)) /\ Slots > 0
                      THEN Pass("calls", r, TRUE)
                      ELSE Idle]
    /\ UNCHANGED <<out, holds, upsets>>

Dispatched(p, c) == [p EXCEPT !.pc = "quota", !.changed = TRUE,
                        !.doc.call = "dispatched", !.doc.called = c]
EndedCall(p, as) == [p EXCEPT !.pc = "quota", !.changed = TRUE, !.doc.call = as]

(* returned: the ending of the run a step called is recorded as the step's.*)
Returned(p) ==
    LET over == {c \in CalledBy(p.run) : Ended(runs[c])} IN
    IF over = {} THEN [p EXCEPT !.pc = "quota"]
    ELSE EndedCall(p, IF \E c \in over : runs[c].state = "succeeded"
                      THEN "succeeded" ELSE "failed")

(* call: a dispatch that has called a run already takes that run, and a    *)
(* call too deep fails the step.                                           *)
Call(p) ==
    IF CalledBy(p.run) # {} THEN Dispatched(p, CHOOSE c \in CalledBy(p.run) : TRUE)
    ELSE IF p.doc.depth + 1 > MaxCallDepth THEN EndedCall(p, "failed")
    ELSE [p EXCEPT !.pc = "ask"]

Calls(w) ==
    /\ Busy(w, "calls")
    /\ Goto(w, CASE at[w].doc.call = "dispatched" -> Returned(at[w])
                 [] Reached(at[w].doc)            -> Call(at[w])
                 [] OTHER                         -> [at[w] EXCEPT !.pc = "quota"])
    /\ UNCHANGED <<runs, out, holds, upsets>>

(* refusal: a principal that may not run the workflow fails the step.      *)
Ask(w) ==
    /\ Busy(w, "ask")
    /\ Goto(w, IF holds THEN [at[w] EXCEPT !.pc = "create"] ELSE EndedCall(at[w], "failed"))
    /\ UNCHANGED <<runs, out, holds, upsets>>

\* Mutant: one dispatch may call a second run.
MutCreateAgain(w) ==
    /\ Busy(w, "create")
    /\ Fresh \in Ids
    /\ runs' = [runs EXCEPT ![Fresh] =
                   NewRow(CalleeOf[at[w].doc.wf], at[w].run, at[w].doc.depth + 1)]
    /\ Goto(w, Dispatched(at[w], Fresh))
    /\ UNCHANGED <<out, holds, upsets>>

(* The called run is created in a transaction of its own.  The hour's      *)
(* quota is counted first, and past it the call fails, whoever filled it;  *)
(* the insert then finds that the dispatch has called a run already, and   *)
(* the call begins again.                                                  *)
Create(w) ==
    /\ Busy(w, "create")
    /\ LET p == at[w] IN
       IF Fresh \notin Ids
       THEN /\ Goto(w, EndedCall(p, "failed"))
            /\ UNCHANGED runs
       ELSE IF CalledBy(p.run) # {}
       THEN /\ Goto(w, [p EXCEPT !.pc = "calls"])
            /\ UNCHANGED runs
       ELSE /\ runs' = [runs EXCEPT ![Fresh] =
                           NewRow(CalleeOf[p.doc.wf], p.run, p.doc.depth + 1)]
            /\ Goto(w, Dispatched(p, Fresh))
    /\ UNCHANGED <<out, holds, upsets>>

(* withinTheQuota: what may still be handed out is counted now and used    *)
(* later.  A pass that decided nothing and hands nothing out takes the     *)
(* clock back (rewake), unless the row was written since it was read.      *)
WithinTheQuota(w) ==
    /\ Busy(w, "quota")
    /\ LET p       == at[w]
           r       == p.run
           verdict == Verdict(p.doc)
           changed == p.changed \/ verdict # p.doc.state
           go      == LeastOf(Pending(p.doc), Slots)
       IN  IF changed \/ go # {}
           THEN /\ Goto(w, [p EXCEPT !.doc.state = verdict, !.start = go,
                               !.pc = IF changed THEN "save" ELSE "hand"])
                /\ UNCHANGED runs
           ELSE IF p.touched \/ ~ p.doc.wake
           THEN Goto(w, Idle) /\ UNCHANGED runs
           ELSE /\ runs' = [runs EXCEPT ![r].wake = FALSE]
                /\ at' = [Touch({r}) EXCEPT ![w] = Idle]
    /\ UNCHANGED <<out, holds, upsets>>

(* The row as a decision writes it: the document over the row's own        *)
(* stamps, which no decision takes back.                                   *)
Saved(r, doc) ==
    [doc EXCEPT !.seq = runs[r].seq + 1, !.wake = FALSE,
        !.cancelReq = runs[r].cancelReq, !.group = runs[r].group,
        !.published = runs[r].published]

(* SaveDecision: refused where the run has moved since it was read.        *)
Save(w) ==
    /\ Busy(w, "save")
    /\ LET p == at[w]
           r == p.run
           row == Saved(r, p.doc)
       IN  IF runs[r].seq # p.doc.seq
           THEN /\ Goto(w, Idle)
                /\ UNCHANGED runs
           ELSE /\ runs' = Written(r, row)
                /\ at' = [Touch({r} \cup Told(r, row)) EXCEPT ![w] =
                             IF p.start = {} THEN Idle
                             ELSE [p EXCEPT !.pc = "hand", !.doc = row]]
    /\ UNCHANGED <<out, holds, upsets>>

(* hand, the record of the dispatches and their stamp: the messages have   *)
(* gone whether or not the record of them is refused as stale.             *)
Hand(w) ==
    /\ Busy(w, "hand")
    /\ LET p == at[w]
           r == p.run
           row == [Saved(r, p.doc) EXCEPT
                      !.tasks = [t \in DOMAIN p.doc.tasks |->
                                    IF t \in p.start THEN "dispatched" ELSE p.doc.tasks[t]],
                      !.published = @ \cup p.start]
       IN  /\ out' = [out EXCEPT ![r] = @ \cup p.start]
           /\ IF runs[r].seq # p.doc.seq
              THEN Goto(w, Idle) /\ UNCHANGED runs
              ELSE /\ runs' = [runs EXCEPT ![r] = row]
                   /\ at' = [Touch({r}) EXCEPT ![w] = Idle]
    /\ UNCHANGED <<holds, upsets>>

Decide(w) ==
    \/ Read(w) \/ Cancel(w) \/ Admitted(w) \/ Calls(w) \/ Ask(w) \/ Create(w)
    \/ WithinTheQuota(w) \/ Save(w) \/ Hand(w)

-----------------------------------------------------------------------------
Init ==
    /\ runs = [r \in Ids |-> NoRow]
    /\ out = [r \in Ids |-> {}]
    /\ at = [w \in Workers |-> Idle]
    /\ holds = TRUE
    /\ upsets = 0

Next ==
    \/ \E wf \in Workflows : Start(wf)
    \/ \E r \in Ids : RequestCancel(r) \/ Swept(r)
    \/ \E r \in Ids : \E t \in out[r], fate \in {"succeeded", "failed"} : Answer(r, t, fate)
    \/ \E w \in Workers : Decide(w)
    \/ Revoke \/ Crash

Spec == Init /\ [][Next]_vars

-----------------------------------------------------------------------------
(* Properties.                                                             *)

Row ==
    [ state : Live \cup Over, wf : Workflows, seq : Nat, group : {NoGroup} \cup {GroupOf[v] : v \in Workflows},
      cancelReq : BOOLEAN, wake : BOOLEAN, caller : Ids \cup {NoRun}, depth : Nat,
      tasks : UNION {[1 .. n -> InFlight \cup Over] : n \in Nat}, published : SUBSET Nat,
      call : {"none", "waiting", "dispatched"} \cup Over, called : Ids \cup {NoRun} ]

Turns  == [pc : {"read", "cancel", "refuse", "admit"}, run : Ids]
Passes == [ pc : {"calls", "ask", "create", "quota", "save", "hand"}, run : Ids, doc : Row,
            changed : BOOLEAN, start : SUBSET Nat, touched : BOOLEAN ]

TypeOK ==
    /\ runs \in [Ids -> Row \cup {NoRow}]
    /\ out \in [Ids -> SUBSET Nat]
    /\ at \in [Workers -> {Idle} \cup Turns \cup Passes]
    /\ holds \in BOOLEAN /\ upsets \in 0 .. MaxUpsets

(* A group holds one started run: whichever goroutine decides, whatever is *)
(* cancelled or dies, no two runs of one concurrency group run at once.    *)
OneHolder ==
    \A a, b \in Created :
        (/\ runs[a].state = "running" /\ runs[b].state = "running"
         /\ runs[a].group = runs[b].group /\ runs[a].group # NoGroup) => a = b

(* "The oldest queued run is the one that goes next" (db/runs.go, Holding):*)
(* a run starts only while no older run is known to queue for its group.   *)
OldestFirst ==
    [][\A r \in Created :
          (runs[r].state = "queued" /\ runs'[r].state = "running" /\ runs[r].group # NoGroup)
             => \A q \in Queued(runs[r].group) : r <= q]_vars

(* max_concurrent_tasks is counted by one transaction and used by a later  *)
(* one, on two goroutines: the namespace may hold more than its ceiling,   *)
(* and never more than twice it.                                           *)
OverrunBounded == Cardinality(Held) <= 2 * Ceiling

(* One dispatch of a call step starts one run, though two passes make the  *)
(* call or a controller dies between making and recording it; and a run    *)
(* succeeds only if the run it called did.                                 *)
CalledOnce ==
    \A r \in Created :
        /\ Cardinality(CalledBy(r)) <= 1
        /\ (runs[r].state = "succeeded" /\ CalleeOf[runs[r].wf] # NoWorkflow)
              => \E c \in CalledBy(r) : runs[c].state = "succeeded"

(* "The notification is a latency optimisation; the sweep is the           *)
(* correctness guarantee": a run that has not ended is one a sweep finds,  *)
(* or a task of it is out and its answer will come; no clock taken back,   *)
(* no crash and no refused decision strands it, and none needs the         *)
(* goroutine that is at it.                                                *)
NeverStranded ==
    \A r \in Created : runs[r].state \in Live => r \in Actionable \/ out[r] # {}

(* "A caller cancelled, or past its deadline, cancels the runs it called"  *)
(* (controller/call.go).                                                   *)
CalledFollowTheirCaller ==
    \A r \in Created : Ended(runs[r]) =>
        \A c \in CalledBy(r) : Ended(runs[c]) \/ runs[c].cancelReq
=============================================================================
