------------------------------- MODULE Graph -------------------------------
(***************************************************************************)
(* The evaluator over the steps of one run: barriers, merges, conditions,  *)
(* fan-out, fail_fast, the endings of steps and the verdict of the run.    *)
(*                                                                         *)
(* A step has one input port and one output port.  An envelope is how many *)
(* items it holds and when it was produced; what the items are is data.    *)
(* A pass is atomic (that two of them interleave is Dispatch's business),  *)
(* and so is an answer: Record, then Next.  Requeues and backoffs, which   *)
(* stay inside one shard, are Shard's.                                     *)
(***************************************************************************)
EXTENDS Integers, Sequences, FiniteSets, SequencesExt, FiniteSetsExt

CONSTANTS
  Flows,      \* the workflows to run: records, see FlowOK
  Counts,     \* how many items a container may publish
  MaxRounds   \* bound: rounds of one pass (PassesEnd shows it is enough)

Whens == {"succeeded", "failed", "skipped", "always"}
Merges == {"wait_all", "zip", "first"}

(***************************************************************************)
(* A workflow, as Build accepts it: order is topological and names a step  *)
(* once, needs[s] is the steps whose ports s takes, in the order written.  *)
(***************************************************************************)
FlowOK(f) ==
  /\ f.order \in Seq(DOMAIN f.needs)
  /\ DOMAIN f.needs = Range(f.order) /\ IsInjective(f.order)
  /\ \A i \in DOMAIN f.order :
       f.needs[f.order[i]] \in Seq({f.order[j] : j \in 1..(i - 1)})
  /\ \A s \in Range(f.order) :
       /\ f.merge[s] \in Merges /\ f.when[s] \in (SUBSET Whens) \ {{}}
       /\ f.fed[s] \in Nat \cup {-1}          \* items fed by inputs, or none
       /\ f.cond[s] \in {"none", "true", "false", "error"}
       /\ f.tries[s] \in Nat \ {0} /\ f.parallel[s] \in Nat
       /\ {f.fanOut[s], f.failFast[s], f.tolerated[s], f.builds[s]} \subseteq BOOLEAN
  /\ f.outputs \subseteq Range(f.order)

ASSUME GraphAssumption ==
  /\ Counts \subseteq Nat /\ MaxRounds \in Nat \ {0}
  /\ \A f \in Flows : FlowOK(f)

VARIABLES
  flow,       \* the workflow this run is of
  steps,      \* the evaluator's document: each step's verdict, shards and port
  run,        \* the run's state
  plan,       \* the tasks the last pass would start
  boxes,      \* the containers that were started and not yet reported
  told,       \* the tasks some pass named in a stop
  fate,       \* history: how each container ended
  clock       \* orders the moments at which envelopes are produced

vars == <<flow, steps, run, plan, boxes, told, fate, clock>>

Terminal == {"succeeded", "failed", "skipped", "cancelled"}
RunTerminal == {"succeeded", "failed", "cancelled", "timed_out"}
None == [n |-> -1, at |-> -1]

Names == Range(flow.order)
TaskOf(s, i, a) == <<s, i, a>>

-----------------------------------------------------------------------------
(* What a step, its shards and its port are.                               *)

NewShard == [task |-> "pending", attempt |-> 1, out |-> None]
NewStep == [verdict |-> "pending", shards |-> <<>>, port |-> None]

TaskOver(sh) == sh.task \in {"succeeded", "failed", "cancelled"}
HoldsARunner(sh) == sh.task = "dispatched"

InFlight(ss) == Cardinality({i \in DOMAIN ss.shards : HoldsARunner(ss.shards[i])})

SlotsFree(s, ss) ==
  IF flow.parallel[s] = 0 THEN Len(ss.shards)
  ELSE Max({flow.parallel[s] - InFlight(ss), 0})

StepVerdict(shards) ==
  LET seen == {shards[i].task : i \in DOMAIN shards} IN
  IF seen \cap {"pending", "dispatched"} # {} THEN "running"
  ELSE IF "failed" \in seen THEN "failed"
  ELSE IF "cancelled" \in seen THEN "cancelled" ELSE "succeeded"

(***************************************************************************)
(* The barrier.  An edge waits until its step is over; a step that ended   *)
(* without a port (a cancelled one) arrives as a batch of nothing.         *)
(***************************************************************************)
EdgeWaiting(st, u) == st[u].verdict \notin Terminal
EdgeProduced(st, u) == ~EdgeWaiting(st, u) /\ st[u].port # None
Held(st, u) == IF st[u].port # None THEN st[u].port ELSE [n |-> 0, at |-> clock]

(* The edge merge: first takes: of those that produced, the earliest, and  *)
(* of two at one moment the one written first.                             *)
Winner(st, edges) ==
  LET produced == {i \in DOMAIN edges : EdgeProduced(st, edges[i])}
      earliest == {i \in produced :
                     \A j \in produced : st[edges[i]].port.at <= st[edges[j]].port.at}
  IN  IF produced = {} THEN 1 ELSE Min(earliest)

(* Whether a step's port is satisfied, the upstream steps that arrive on   *)
(* it, and the edges given up.                                             *)
FirstOf(edges, w, ready) ==
  [ready |-> ready, from |-> <<edges[w]>>, dropped |-> {edges[i] : i \in DOMAIN edges \ {w}}]

SatisfyPort(st, s) ==
  LET edges == flow.needs[s]
      settled == \A i \in DOMAIN edges : ~EdgeWaiting(st, edges[i])
  IN  IF flow.merge[s] = "first" /\ edges # <<>>
      THEN FirstOf(edges, Winner(st, edges),
                   settled \/ \E i \in DOMAIN edges : EdgeProduced(st, edges[i]))
      ELSE [ready |-> settled, from |-> edges, dropped |-> {}]

\* Mutant: a step that was skipped or cancelled is admitted like one that succeeded.
MutAdmitsSucceeded(when, verdict) == "always" \in when \/ verdict # "failed"

Admits(when, verdict) == "always" \in when \/ verdict \in when

Total(ns) ==
  LET upTo[k \in 0..Len(ns)] == IF k = 0 THEN 0 ELSE upTo[k - 1] + ns[k]
  IN  upTo[Len(ns)]

(* Several envelopes as one: all the items, at the last of the moments.    *)
Concat(pieces) ==
  [n |-> Total([i \in DOMAIN pieces |-> pieces[i].n]),
   at |-> Max({pieces[i].at : i \in DOMAIN pieces})]

(* Items paired by rank; -2 is the refusal of differing lengths.           *)
ZipParts(parts) ==
  [n |-> IF \A i \in DOMAIN parts : parts[i].n = parts[1].n THEN parts[1].n ELSE -2,
   at |-> Max({parts[i].at : i \in DOMAIN parts})]

FirstPart(parts) ==
  parts[CHOOSE i \in DOMAIN parts :
          /\ \A j \in DOMAIN parts : parts[i].at <= parts[j].at
          /\ \A j \in 1..(i - 1) : parts[j].at > parts[i].at]

MergePort(s, parts) ==
  IF Len(parts) = 1 THEN parts[1]
  ELSE CASE flow.merge[s] = "zip" -> ZipParts(parts)
         [] flow.merge[s] = "first" -> FirstPart(parts)
         [] OTHER -> Concat(parts)

(* What a step's own inputs feed its port: resolved when the run starts.   *)
Fed(s) == IF flow.fed[s] < 0 THEN <<>> ELSE <<[n |-> flow.fed[s], at |-> 0]>>

(* What the step's if answers: true, false, or that it cannot be answered. *)
Condition(s) == flow.cond[s]

(* Whether the step's params resolve, so that its task can be built.       *)
Builds(s) == flow.builds[s]

(* Evaluator.read: the gate of a step, and what arrives when it lifts.     *)
Gate(st, s, p, in) ==
  [gate |-> IF ~p.ready THEN "wait"
            ELSE IF \E i \in DOMAIN p.from : ~Admits(flow.when[s], st[p.from[i]].verdict)
            THEN "skip"
            ELSE IF in.n = -2 THEN "refused" ELSE "start",
   in |-> in,
   dropped |-> p.dropped]

Arrival(s, parts) == IF parts = <<>> THEN None ELSE MergePort(s, parts)

Barrier(st, s, p) ==
  Gate(st, s, p, IF ~p.ready THEN None
                 ELSE Arrival(s, [i \in DOMAIN p.from |-> Held(st, p.from[i])] \o Fed(s)))

Read(st, s) == Barrier(st, s, SatisfyPort(st, s))

(* How many shards the step is divided into: one where it is not divided   *)
(* or takes nothing, one per item otherwise.                               *)
FanOut(s, in) == IF flow.fanOut[s] /\ in # None THEN in.n ELSE 1

-----------------------------------------------------------------------------
(* Steps begin and end.                                                    *)

(* publish: the items of the shards that published, or an empty envelope.  *)
Publish(shards) ==
  LET wrote == {i \in DOMAIN shards : shards[i].out # None}
  IN  IF wrote = {} THEN [n |-> 0, at |-> clock]
      ELSE [n |-> Total([i \in DOMAIN shards |-> IF i \in wrote THEN shards[i].out.n ELSE 0]),
            at |-> Max({shards[i].out.at : i \in wrote})]

End(st, s, verdict, shards) ==
  [st EXCEPT ![s] = [verdict |-> verdict, shards |-> shards, port |-> Publish(shards)]]

Consumers(u) == {c \in Names : u \in Range(flow.needs[c])}

\* Mutant: a step that lost under merge: first is never called off.
MutStillNeededAlways(st, u, consumer) == TRUE

StillNeeded(st, u, consumer) ==
  \/ u \in flow.outputs
  \/ \E c \in Consumers(u) \ {consumer} : st[c].verdict \notin Terminal

Superseded(st, s, dropped) ==
  {u \in dropped : st[u].verdict \notin Terminal /\ ~StillNeeded(st, u, s)}

CancelSteps(st, over) ==
  [u \in Names |-> IF u \in over THEN [st[u] EXCEPT !.verdict = "cancelled"] ELSE st[u]]

(* Where the barrier lifts, what lost is called off and the step begins.   *)
Lifted(st, s, width) ==
  IF Condition(s) = "error" THEN End(st, s, "failed", <<>>)
  ELSE IF Condition(s) = "false" THEN End(st, s, "skipped", <<>>)
  ELSE IF width = 0 THEN End(st, s, "succeeded", <<>>)
  ELSE [st EXCEPT ![s] = [NewStep EXCEPT !.verdict = "running",
                                         !.shards = [i \in 1..width |-> NewShard]]]

Begun(st, s, r) ==
  CASE r.gate = "wait" -> st
    [] r.gate = "skip" -> End(st, s, "skipped", <<>>)
    [] r.gate = "refused" -> End(st, s, "failed", <<>>)
    [] OTHER -> Lifted(CancelSteps(st, Superseded(st, s, r.dropped)), s, FanOut(s, r.in))

Begin(st, s) == Begun(st, s, Read(st, s))

Settle(st, s) ==
  LET v == StepVerdict(st[s].shards)
  IN  CASE v \notin Terminal -> st
        [] v = "cancelled" -> [st EXCEPT ![s].verdict = v]
        [] OTHER -> End(st, s, v, st[s].shards)

Advance(st, s) ==
  CASE st[s].verdict = "pending" -> Begin(st, s)
    [] st[s].verdict = "running" -> Settle(st, s)
    [] OTHER -> st

-----------------------------------------------------------------------------
(* A pass.                                                                 *)

(* advance, of every step in order: what one settles another may begin on. *)
Sweep(st) ==
  LET upTo[k \in 0..Len(flow.order)] ==
        IF k = 0 THEN st ELSE Advance(upTo[k - 1], flow.order[k])
  IN  upTo[Len(flow.order)]

(* The shards of a step that may start now, in order, within its slots.    *)
Startable(st, s) ==
  LET ss == st[s]
      due == {i \in DOMAIN ss.shards : ss.shards[i].task = "pending"}
  IN  IF ss.verdict # "running" THEN {}
      ELSE {i \in due : Cardinality({j \in due : j < i}) < SlotsFree(s, ss)}

(* shards: what a step would be divided into now is what it was divided    *)
(* into, or the pass fails and the run is left as it was.                  *)
Stands(st, s) ==
  \E r \in {Read(st, s)} : r.gate = "start" /\ FanOut(s, r.in) = Len(st[s].shards)

Stuck(st) == \E s \in Names : Startable(st, s) # {} /\ ~Stands(st, s)

Starts(st) ==
  UNION {{TaskOf(s, i, st[s].shards[i].attempt) : i \in Startable(st, s)} : s \in Names}

(* dispatch, where a task cannot be built: every pending shard of the step *)
(* is tried and fails in its turn, taking no slot.                         *)
Unbuilt(st) == {s \in Names : ~Builds(s) /\ Startable(st, s) # {}}

FailUnbuilt(st) ==
  [s \in Names |->
     IF s \notin Unbuilt(st) THEN st[s]
     ELSE [st[s] EXCEPT !.shards =
             [i \in DOMAIN @ |-> IF @[i].task = "pending" THEN [@[i] EXCEPT !.task = "failed"]
                                                          ELSE @[i]]]]

\* Mutant: a shard that is over is called off again, round after round.
MutCalledOffOver(st, s) ==
  LET shards == st[s].shards IN
  {i \in DOMAIN shards :
     \/ st[s].verdict = "cancelled"
     \/ /\ st[s].verdict = "running" /\ flow.failFast[s]
        /\ \E j \in DOMAIN shards : shards[j].task = "failed"}

(* The shards a rule calls off: those of a superseded step, and those left *)
(* of a step that fails fast.                                              *)
CalledOff(st, s) ==
  LET shards == st[s].shards IN
  {i \in DOMAIN shards :
     /\ ~TaskOver(shards[i])
     /\ \/ st[s].verdict = "cancelled"
        \/ /\ st[s].verdict = "running" /\ flow.failFast[s]
           /\ \E j \in DOMAIN shards : shards[j].task = "failed"}

Stopped(st) ==
  [s \in Names |->
     [st[s] EXCEPT !.shards =
        [i \in DOMAIN @ |-> IF i \in CalledOff(st, s)
                            THEN [@[i] EXCEPT !.task = "cancelled", !.out = None]
                            ELSE @[i]]]]

StopsOf(st) ==
  UNION {{TaskOf(s, i, st[s].shards[i].attempt) : i \in CalledOff(st, s)} : s \in Names}

\* Mutant: the pass is made once, whatever it ended.
MutRoundsOnce(st) ==
  LET a == Sweep(st)
      b == IF Unbuilt(a) # {} THEN FailUnbuilt(a) ELSE a
  IN  [st |-> Stopped(b), stops |-> StopsOf(b), done |-> TRUE, stuck |-> Stuck(a)]

(* One round, from b, whose steps advanced to a.                           *)
Round(b, a, stops) ==
  IF Stuck(a) THEN [b EXCEPT !.done = TRUE, !.stuck = TRUE]
  ELSE IF Unbuilt(a) # {} THEN [b EXCEPT !.st = FailUnbuilt(a)]
  ELSE [st |-> Stopped(a), stops |-> b.stops \cup stops, done |-> stops = {}, stuck |-> FALSE]

Advanced(b, a) == Round(b, a, StopsOf(a))

(* The rounds of a pass: every step in order, then what breaks, then what  *)
(* is called off, until a round ends nothing.                              *)
Rounds(st) ==
  LET round[k \in 0..MaxRounds] ==
        IF k = 0 THEN [st |-> st, stops |-> {}, done |-> FALSE, stuck |-> FALSE]
        ELSE LET b == round[k - 1] IN
             IF b.done THEN b ELSE Advanced(b, Sweep(b.st))
  IN  round[MaxRounds]

RunVerdict(st) ==
  IF \E s \in Names : st[s].verdict \notin Terminal THEN "running"
  ELSE IF \E s \in Names : st[s].verdict = "failed" /\ ~flow.tolerated[s]
       THEN "failed" ELSE "succeeded"

(* stopEverything and endSteps, of a run cancelled or past its deadline.   *)
StopEverything(st) ==
  UNION {{TaskOf(s, i, st[s].shards[i].attempt) :
            i \in {j \in DOMAIN st[s].shards : HoldsARunner(st[s].shards[j])}} : s \in Names}

EndSteps(st) ==
  [s \in Names |-> IF st[s].verdict = "running" THEN [st[s] EXCEPT !.verdict = "cancelled"]
                                                ELSE st[s]]

(* Next, from a document st.  It decides nothing where it fails.           *)
Pass(st) ==
  \E r \in {Rounds(st)} :
    /\ r.done /\ ~r.stuck
    /\ steps' = r.st
    /\ told' = told \cup r.stops
    /\ run' = RunVerdict(r.st)
    /\ plan' = Starts(r.st)

-----------------------------------------------------------------------------
(* Record, of a container's ending.                                        *)

Recorded(st, b) ==
  LET sh == st[b.step].shards[b.shard] IN
  IF sh.attempt # b.attempt \/ TaskOver(sh) THEN st
  ELSE [st EXCEPT ![b.step].shards[b.shard] =
          IF b.out # None THEN [sh EXCEPT !.task = "succeeded", !.out = b.out]
          ELSE IF sh.attempt < flow.tries[b.step]
               THEN [sh EXCEPT !.task = "pending", !.attempt = @ + 1]
               ELSE [sh EXCEPT !.task = "failed"]]

-----------------------------------------------------------------------------
(* The run.                                                                *)

Init ==
  /\ flow \in Flows
  /\ steps = [s \in Names |-> NewStep]
  /\ run = "queued"
  /\ plan = {} /\ boxes = {} /\ told = {} /\ fate = {} /\ clock = 1

Decide ==
  /\ run \notin RunTerminal
  /\ Pass(steps)
  /\ UNCHANGED <<flow, boxes, fate, clock>>

(* A task of the plan is handed out and its dispatch recorded.             *)
HandOut(t) ==
  /\ run = "running"
  /\ t \in plan
  /\ plan' = plan \ {t}
  /\ steps' = [steps EXCEPT ![t[1]].shards[t[2]].task = "dispatched"]
  /\ boxes' = boxes \cup {[step |-> t[1], shard |-> t[2], attempt |-> t[3],
                           over |-> FALSE, out |-> None]}
  /\ UNCHANGED <<flow, run, told, fate, clock>>

(* A container ends: it publishes n items, or it fails.                    *)
ContainerEnds(b, n) ==
  LET out == IF n < 0 THEN None ELSE [n |-> n, at |-> clock] IN
  /\ b \in boxes /\ ~b.over
  /\ boxes' = (boxes \ {b}) \cup {[b EXCEPT !.over = TRUE, !.out = out]}
  /\ fate' = fate \cup {[step |-> b.step, shard |-> b.shard, attempt |-> b.attempt, out |-> out]}
  /\ clock' = clock + 1
  /\ UNCHANGED <<flow, steps, run, plan, told>>

(* Its report is answered: recorded, and a pass made of what it changed.   *)
Answer(b) ==
  /\ b \in boxes /\ b.over
  /\ boxes' = boxes \ {b}
  /\ IF run \in RunTerminal
     THEN UNCHANGED <<steps, run, plan, told>>
     ELSE Pass(Recorded(steps, b))
  /\ UNCHANGED <<flow, fate, clock>>

(* The run is cancelled, or its deadline passes.                           *)
\* Mutant: the tasks of a run that is cut are not named in stops.
MutCutQuiet(state) ==
  /\ run \notin RunTerminal
  /\ run' = state
  /\ steps' = EndSteps(steps)
  /\ plan' = {}
  /\ UNCHANGED <<flow, boxes, fate, clock, told>>

Cut(state) ==
  /\ run \notin RunTerminal
  /\ run' = state
  /\ told' = told \cup StopEverything(steps)
  /\ steps' = EndSteps(steps)
  /\ plan' = {}
  /\ UNCHANGED <<flow, boxes, fate, clock>>

Cancel == flow.cuts /\ Cut("cancelled")
Deadline == flow.cuts /\ Cut("timed_out")

Next ==
  \/ Decide
  \/ \E t \in plan : HandOut(t)
  \/ \E b \in boxes : \E n \in Counts \cup {-1} : ContainerEnds(b, n)
  \/ \E b \in boxes : Answer(b)
  \/ Cancel \/ Deadline

Spec == Init /\ [][Next]_vars

-----------------------------------------------------------------------------
(* Properties.                                                             *)

(***************************************************************************)
(* What the graph says a step comes to once every container's fate is      *)
(* known: read once, in order, with no passes.                             *)
(***************************************************************************)
FateOf(s, i) ==
  LET own == {f \in fate : f.step = s /\ f.shard = i}
  IN  IF own = {} THEN None
      ELSE (CHOOSE f \in own : \A g \in own : g.attempt <= f.attempt).out

(* What arrives at a step, where its upstream steps mean m, and how many   *)
(* shards it makes.                                                        *)
Sizes(m, s) ==
  [i \in DOMAIN flow.needs[s] |-> m[flow.needs[s][i]].n]
    \o (IF flow.fed[s] < 0 THEN <<>> ELSE <<flow.fed[s]>>)

Uneven(s, sizes) == flow.merge[s] = "zip" /\ Cardinality(Range(sizes)) > 1

Width(s, sizes) ==
  IF ~flow.fanOut[s] \/ sizes = <<>> THEN 1
  ELSE IF flow.merge[s] = "zip" THEN sizes[1] ELSE Total(sizes)

(* What the shards of a step that runs come to.                            *)
Outcome(s, width) ==
  LET outs == [i \in 1..width |-> FateOf(s, i)] IN
  IF ~flow.builds[s] THEN [v |-> IF width = 0 THEN "succeeded" ELSE "failed", n |-> 0]
  ELSE [v |-> IF None \in Range(outs) THEN "failed" ELSE "succeeded",
        n |-> Total([i \in 1..width |-> IF outs[i] = None THEN 0 ELSE outs[i].n])]

MeaningOf(m, s) ==
  IF \E i \in DOMAIN flow.needs[s] :
       ~("always" \in flow.when[s] \/ m[flow.needs[s][i]].v \in flow.when[s])
  THEN [v |-> "skipped", n |-> 0]
  ELSE IF Uneven(s, Sizes(m, s)) \/ flow.cond[s] = "error" THEN [v |-> "failed", n |-> 0]
  ELSE IF flow.cond[s] = "false" THEN [v |-> "skipped", n |-> 0]
  ELSE Outcome(s, Width(s, Sizes(m, s)))

Meaning ==
  LET upTo[k \in 0..Len(flow.order)] ==
        IF k = 0 THEN [s \in {} |-> {}]
        ELSE LET s == flow.order[k] IN
             [t \in DOMAIN upTo[k - 1] \cup {s} |->
                IF t = s THEN MeaningOf(upTo[k - 1], s) ELSE upTo[k - 1][t]]
  IN  upTo[Len(flow.order)]

Deterministic ==
  \A s \in Names : flow.merge[s] # "first" /\ ~flow.failFast[s]

(***************************************************************************)
(* In whatever order containers end and reports arrive, a run that ends by *)
(* itself ends every step with the verdict and the items the graph means,  *)
(* where no rule of the graph is itself a race (merge: first, fail_fast).  *)
(***************************************************************************)
VerdictsFollowFates ==
  run \in {"succeeded", "failed"} /\ Deterministic =>
    LET m == Meaning IN
    /\ \A s \in Names : steps[s].verdict = m[s].v /\ steps[s].port.n = m[s].n
    /\ (run = "failed") <=> \E s \in Names : m[s].v = "failed" /\ ~flow.tolerated[s]

(***************************************************************************)
(* A run that is under way has something to wait for: a task about to be   *)
(* handed out, or a container whose report is still to be answered.  (A    *)
(* pass goes round again when a task cannot be built or is called off, or  *)
(* the run "would be left at running with nothing in the plan".)           *)
(***************************************************************************)
NothingLeftBehind ==
  run = "running" =>
    \/ plan # {}
    \/ \E b \in boxes : LET sh == steps[b.step].shards[b.shard] IN
                          HoldsARunner(sh) /\ sh.attempt = b.attempt

(***************************************************************************)
(* A container that nobody waits for any more (its shard or its run is     *)
(* over) and that is still going was named in a stop.                      *)
(***************************************************************************)
UnwantedAreTold ==
  \A b \in boxes :
    ~b.over /\ (run \in RunTerminal \/ TaskOver(steps[b.step].shards[b.shard]))
      => TaskOf(b.step, b.shard, b.attempt) \in told

(***************************************************************************)
(* Asking again changes nothing: a pass over a document that a pass left   *)
(* and nothing but dispatches was recorded into decides the same.  The     *)
(* sequence of the document moves only where this is not so.               *)
(***************************************************************************)
NextChangesNothing ==
  run = "running" =>
    \E r \in {Rounds(steps)} :
      r.done /\ (~r.stuck => r.st = steps /\ r.stops = {} /\ Starts(steps) = plan)

(***************************************************************************)
(* The documents a pass may be made of: the one kept, and the one that     *)
(* each report not answered yet would leave.                               *)
(***************************************************************************)
Documents ==
  IF run \in RunTerminal THEN {}
  ELSE {steps} \cup {Recorded(steps, b) : b \in {c \in boxes : c.over}}

(***************************************************************************)
(* A pass ends: going round because a task could not be built or was       *)
(* called off comes to a round with neither, or to one where the pass      *)
(* itself fails, within MaxRounds.                                         *)
(***************************************************************************)
PassesEnd == \A st \in Documents : Rounds(st).done

Ahead == {Sweep(st) : st \in Documents}

(***************************************************************************)
(* What the evaluator says of a running step it cannot divide again: its   *)
(* barrier no longer lifts, "which no history of this run can produce".    *)
(***************************************************************************)
BarrierStaysLifted ==
  \A st \in Ahead : \A s \in Names : Startable(st, s) # {} => Read(st, s).gate = "start"

(***************************************************************************)
(* A running step is divided, whenever it is asked, into the shards it was *)
(* divided into when it began: no report makes a pass fail, and with it    *)
(* every later pass over the run.                                          *)
(***************************************************************************)
DivisionStands == \A st \in Ahead : ~Stuck(st)
=============================================================================
