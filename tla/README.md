# Agentiik, in TLA+

TLA+ modules of the parts of Agentiik where several actors share state: the elected controller and
the rows it keeps in PostgreSQL, the evaluator of a run's graph, the task bus and the runners with
what they keep on disk, the admission of runs and the calls between them, the objects of the
artifact store, the git repositories of workflows, and their schedules. TLC checks them on small
instances (nine configurations that hold and three that show a disagreement between the code and
what it says of itself) and TLAPS proves thirty-four theorems about them for every value of their constants.

- [The system](#the-system): components, their state, what is hard about each
- [Modules](#modules): what each models and how it corresponds to the code
- [Runs](#runs): what TLC checks, the bounds, and why they are enough
- [Findings](#findings): where the code does not do what it says
- [Fairness](#fairness)
- [Proofs](#proofs): what is proved, from what, along which argument
- [What is left out](#what-is-left-out)
- [Plan](#plan)

To check everything by hand, in this directory:

```
tlc -workers 2 -config Lease.cfg MCLease
tlc -workers 2 -config Hosts.cfg MCDispatch             # likewise Endings, Recovers
tlc -workers 2 -config Graph.cfg MCGraph                # First finds a violation
tlc -workers 2 -config Admission.cfg MCAdmission        # Orphans finds a violation
tlc -workers 2 -config Objects.cfg MCObjects            # Untold finds a violation
tlc -workers 2 -config Repository.cfg MCRepository
tlc -workers 2 -config Schedules.cfg MCSchedule
tlapm LeaseProofs.tla                           # likewise the other *Proofs modules
```

## The system

A workflow is a graph of steps; a run is one execution of it. One controller at a time decides. It
keeps a run as a JSON document (the evaluator's state), a sequence number and a clock on the `runs`
row, and one row per dispatch in `tasks`. A pass reads a run, asks the evaluator what is next,
writes the decision, publishes task messages, and records that they have gone. Runners take
messages from a work queue, redeem a grant at the API, acknowledge the message, run a container,
record its ending, and publish a result, which the controller takes back as an answer.

| Component | Source | State | Operations | What is hard | Properties that make it correct |
| --- | --- | --- | --- | --- | --- |
| Election and fence | `controller/elect.go`, `db/controller.go` | the advisory lock (a session's), `controller_term.token`, each process's term | take the lock, begin a term, poll, fence, commit, leave | the lock is lost without the holder noticing; a transaction outlives its process | one term writes at a time, terms differ, no late commit, somebody leads |
| Controller passes | `controller/core.go`, `answer.go`, `cancel.go`, `progress.go` | nothing of its own between passes; what a pass carries between its transactions | Decide, Cancel, Answer, Progress, Rewake | Watch's pass and an answer run at once, a former term's pass goes on until fenced, a pass stops anywhere | a stale decision is refused whole, a loss is not forgotten |
| Run and task rows | `db/runs.go`, `grants.go`, `runners.go` | `runs`: evaluation, seq, state, wake_at, cancel_requested_at; `tasks`: state, runner, redeemed, published, exit code | SaveDecision, Rewake, Published, endTasks, StopReport, BindUnredeemed, Progress, Redeem, Lost | the sweep, a redemption and progress write rows that a pass is about to write | one live dispatch per key, rows only move forwards, an ended run holds nothing |
| Evaluator, one shard | `graph/evaluator.go`, `retry.go`, `verdict.go` | the document of the shard | Record, RecordDispatched, Next, Cancel | endings of dispatches requeued past or retried past; the two limits | rows and document agree |
| Evaluator, the graph | `graph/barrier.go`, `merge.go`, `fanout.go`, `expression.go` | every step's verdict, shards and port | a step is reached, skipped, fanned out, superseded, settled; the run's verdict | reports in any order; a step reached through another in the same pass; a barrier read again after the step began | verdicts are what the endings mean, a pass leaves nothing undone, what nobody wants is told to stop |
| Bus | `bus/take.go`, `bus/control/` | messages not acknowledged | publish, take, acknowledge | at least once, any order, lost acknowledgements, a duplicate dropped or not | nothing is left undelivered, nothing runs twice for it |
| Runner | `runner/loop.go`, `result.go`, `pending.go`, `heartbeat.go`, `stops.go` | keys held in memory; results kept and owed, on disk | take, redeem, carry, keep, flush, recover | crashes, cut networks, answers lost | a result is published for everything owed |
| Driver | `driver/record.go`, `driver.go`, `run.go` | the record of keys taken and ended, on disk; containers, in the daemon | hold, release, start or rejoin, end | the agent dies while the daemon goes on | a key that ended here is never run here again |
| Admission and quotas | `controller/admit.go`, `queue.go` | group of a run, slots of a namespace | admit, queue, supersede | slots counted in one transaction, taken in another | one holder of a group, oldest first, a bounded overrun |
| Calls | `controller/call.go`, `db/calls.go` | caller and called run | call, return, cancel what was called | endings crossing cancellations, a crash between the two runs' transactions, two passes making one call | one called run per call, it follows its caller |
| Watch | `controller/wake.go` | a notification channel, the next clock | notify, sweep | a notification missed while a pass runs | no run is stranded |
| Objects | `artifact/`, `api/objects.go`, `reading.go`, `db/artifacts.go`, `uploads.go`, `envelopes.go`, `purge.go`, `orphans.go` | bytes in a store; a row with a count and two marks of collection; uploads, references, holds | upload, record, retire, fetch with a budget, claim, delete, forget, adopt | two systems and no transaction over both; a claim, a late result and a push of the same bytes; bytes served and the record of it | counts agree with names, named bytes are there, unnamed ones leave |
| Git repositories | `db/refs.go`, `packs.go`, `move.go`, `rename.go`, `repo/store/`, `api/git_*.go`, `purge/move.go` | refs; rows of packs; their files; keys moves left | push, fetch, repack, collect, move, rename, delete | a push is judged in one transaction and lands in another; files and rows in two systems | refs name objects held, live packs have files, a fetch is served |
| Schedules | `trigger/arm.go`, `controller/schedule.go`, `arm.go`, `db/schedule.go`, `triggers.go` | a row per schedule: what it is due for, when it fires; the version armed | arm, read what is due, fire, skip, catch up | a failover or a push between the reading of a row and its firing; armings that race | each occurrence once, none skipped but in an outage, the head armed in the end |
| Webhooks, events, audit, access, API, secrets | `trigger/`, `audit/`, `access/`, `api/`, `secret/` | rows | | | not modelled |

The components meet in three places: the rows (every component but the driver reads or writes
them), the bus, and the API's redemption. The controller never calls a runner. A runner learns of a
stop from `agentiik.stops` or from the answer to a heartbeat, and the controller learns that a
runner is gone only from heartbeats that do not name a key.

`PROJECT.json` lists the components in full, the line each definition models, and under `hazards`
what in this code is hard to test, with the properties that would catch it going wrong.

## Modules

| Module | Models | Lines of its own |
| --- | --- | --- |
| `FencedWriter` | what the election and the fence promise: one writer at a time | abstract |
| `Lease` | the election, the term and the fence; implements `FencedWriter` | `controller/elect.go`, `db/controller.go` |
| `Shard` | one shard as the evaluator's document holds it, and the writing of its rows: pure operators | `graph/`, `db/runs.go` |
| `Dispatch` | one task from decision to recorded ending: passes, rows, bus, hosts | `controller/`, `db/`, `bus/`, `runner/`, `driver/` |
| `Graph` | the evaluator over whole workflows: barriers, merges, conditions, fan-out, verdicts | `graph/` |
| `Admission` | several runs: groups, quotas, calls, the two goroutines that decide | `controller/`, `db/runs.go`, `db/calls.go` |
| `Objects` | the artifact store, its references and its collection | `artifact/`, `api/`, `db/`, `purge/` |
| `Repository` | refs, packs and files of repositories; pushes, fetches, repacks, moves | `api/git_*.go`, `db/`, `repo/store/`, `purge/` |
| `Schedule` | schedules armed and fired | `trigger/`, `controller/`, `db/` |
| `MC...` | TLC's instances: symmetry, workflows, functions a `.cfg` cannot write | |
| `LeaseProofs` | theorems of `Lease` | |
| `DispatchProofs`, `HostProofs` | theorems of `Shard` and `Dispatch` | |
| `GraphProofs` | theorems of `Graph` | |
| `AdmissionProofs`, `ObjectsProofs`, `ScheduleProofs`, `RepositoryProofs` | theorems of those modules | |

### Lease

`token` is the row of `controller_term`, `lock` the process whose session holds the advisory lock,
`tx[c]` a fenced transaction open on a pooled connection. `TryLock`, `BeginTerm`, `PollFindsLost`,
`PollFails` and `Fenced` are the branches of Lead, waitForTheLock and holdTheLock; `SessionLost` and
`Crash` are what the database and the machine do. The point of the module is that nothing a term
does goes through the session that holds the lock: a leader may have lost it, and another have
begun, until the next poll. `Fence` compares the token and keeps the row `FOR SHARE` to the end of
the transaction, and `BeginTerm` updates that row, so it waits for every open transaction
(`\A c : tx[c] = 0`). A transaction whose process has gone is committed or rolled back by the
database whenever it likes.

### Shard

A dispatch is `<<attempt, requeue>>`. The attempt makes the idempotency key (the code's key is run,
step, shard and attempt); a requeue after a loss keeps the key and gets a row of its own. `Doc` is
what the evaluator's state says of the shard: the attempt and requeue it is at, its task's state,
whether it was stopped, whether it waits on a backoff, and the run's state and sequence. The
operators follow the code's functions: `Record` is Evaluator.Record with its order of early returns
(another attempt, a task that is over, a dispatch requeued past), `Requeued` and `NextAttempt` are
retry.go, `NextDoc` is Next, `Written`/`Keeps`/`Heard` are writeTask's upsert with its `case` on a
lost row, `EndTasks` is endTasks.

The other steps of the run are one value, `rest`: they go on, they have superseded this step
(`merge: first`), or they are over. That is all they can do to this shard.

### Dispatch

Every database transaction is one step; a publication is a step of its own. What a pass carries
from one transaction to the next is `pass[t]`: the sequence it read (`was`), the document it
decided (`next`), the clock it would write, and whether the row's version is still the one it read
(`fresh`, the code's `xmin`). A thread is a goroutine with a pass under way: Watch's, an answer's,
or one of a former term; `NewTerm` makes all of those under way former.

| Code | Actions |
| --- | --- |
| `Core.Decide` | `DecideRead`, `Save`, `Grant`, `Publish`, `RecordDispatch`, `Rewake`, `PublishFails` |
| `Core.Cancel` | `CancelRead`, `Save` |
| `Core.Answer` | `AnswerRefused`, `AnswerReport`, `AnswerRead`, `AnswerSave`, `AnswerOutbound` |
| `SaveDecision` refused, a fenced transaction refused, a process that dies | `StaleOut`, `FencedOut`, `Abort` |
| `db` Lost and the sweep | `SweepLost` |
| `Progress` | `Progress` |
| an answer to another step | `RestAnswers` |
| runner loop: take, hold, redeem, acknowledge | `Take`, `TakeEnded`, `Redeem`, `RedeemRefused`, `RedeemUnheard`, `RedeemReport` |
| driver: create or rejoin, stop, end | `Start`, `StartCalledOff`, `ContainerEnds`, `ExitUnread`, `CarryFails` |
| results: keep, publish, recover | `KeepResult`, `Flush`, `Restart` |
| the world | `Crash`, `Cut`, `Heal`, `BackoffElapses`, `DeadlinePasses`, `RequestCancel`, `NewTerm` |

Messages are sets. A task message stays in `queue` until acknowledged and any host may take it any
number of times; a result stays in `results` likewise. `sent` is what the stream has had: it may
drop a duplicate of such a message or, past its window, accept it.

On a host, `work` is memory and is lost in a `Crash`; `disk`, `owed`, `kept` are files and `box` is
the daemon's, and stay. `ran` is history, kept to state `AnotherHostOnlyAfterLoss`.

Every fault (a new term, an abort, a failed publication, a lost acknowledgement or answer, a crash,
a cut, an exit nobody could read) counts against `MaxFaults`, so that each run explores every
placement of that many faults and the runs with none of them.

### Graph

One run of a workflow of several steps. `steps` is the evaluator's document, `plan` the tasks the
last pass would start, `boxes` the containers, `told` the tasks named in a stop. A pass
(`Pass`, Evaluator.Next) goes round and round (`Rounds`): it advances every step in order
(`Advance`: the barrier, the verdict of a step whose shards are over, the upstream steps that
`merge: first` supersedes), fails what cannot be built, calls off what fail_fast stops, until a
round changes nothing. A barrier is `SatisfyPort` (which edges count), `Gate` (`when`, conditions)
and `MergePort` (`wait_all`, `zip`, `first`), and a running step's barrier is read again at every
dispatch, as the code does, to divide its input into the same shards.

An envelope is how many items it holds and when it was produced. A workflow is a constant
(`FlowOK` says which are well formed, as Build accepts them); `MCGraph` has five. `Meaning` reads a
workflow once, in order, given how every container ended: it is the reference that
`VerdictsFollowFates` compares the verdicts of all interleavings with, for workflows without a rule
that is itself a race.

### Admission

Runs of one namespace as rows, and the two goroutines of the leading controller that decide them
(`watch` and `answers`), each in a pass of several transactions: `Read`, `Cancel`, `Admitted`,
`Calls`, `Ask`, `Create`, `WithinTheQuota`, `Save`, `Hand`. A pass carries the document it read and the
sequence; `Save` is refused where the sequence has moved. Answer and Cancel are one step each: they
take effect only where nothing moved since they read, so a version of them split in two would end
in the same states. A notification is not kept: whatever is notified is found by the sweep as well
(`Actionable`), which is what `NeverStranded` says. A call's step comes after its run's container
tasks. The hour of max_runs_per_hour does not pass, so `MaxRuns` is that quota. A call looks for the
run it made (`Calls`), asks whether its principal may run the workflow (`Ask`), and creates
(`Create`): as in `CreateRun`, the hour is counted before the insert can find that the dispatch has
called a run already, which is what *refused* tells of, under the findings.

The quota is not exact, and the code says it is not meant to be: two passes may count the same free
slots, and each hands out as many. `OverrunBounded` says by how much: never more than the ceiling
over again. A caller and the run it calls that are in one concurrency group wait on each other for
ever, as configured.

### Objects

`store` is the bytes and `object` the row that counts what names them. A writer asks what the store
holds, declares the upload (which holds the row `FOR KEY SHARE`, so `Uploading` begins and commits
in two steps), writes the bytes, and reports; a decision records the reference (`Record`,
`RecordAgain` for one already there). The sweeper walks the store for orphans and adopts them,
claims rows at zero past the grace (`Claim`), and for each takes the row's lock, looks again,
removes the bytes and forgets the row (`LockClaimed`, `LookAgain`, `Remove`, `Confirm`); it may die
between any two and the store may refuse a deletion. A push skips a file the store holds, and is
told by `Save` to write again what a sweeper had claimed.

Instants are the ticks left until them, and one tick is at least as long as any transaction. A
result is heard only while its upload holds the object, as the bus's window is shorter. `dropped`
and `washed` are history: objects a push that died still owed, and objects whose claim a retired
reference took off (the finding below); `NamedHaveBytes` holds but for those two. An instance with
two sweepers was explored without a violation.

A transfer of a file with a budget reserves a fetch (`Reserve`), sends the bytes (`Complete`), and only
then, in a transaction of its own, spends the fetch (`Delivered`, whose hold may have lapsed by then:
the code spends it all the same) or gives it back (`Release`). The API may die before that transaction,
or it may fail, and its error is dropped: `NeverSettled`, at any moment of a transfer. What is left is a
hold until it lapses, and nothing tells a completed transfer from one that never was. `sent` counts what
completed; `lost`, history too, counts those of them that were not recorded while their hold stood. A
transfer completes before its hold lapses, since its writer is given a deadline of an hour and the hold
is five minutes longer. A file read through MCP (`api/collection_mcp.go`, up to 1 MiB) reserves in
the same way, counts once it is read, and has no such deadline; it is not told apart.

### Repository

`wf` says where each repository is, whether it is deleted and where it moves to; `packs` is the
rows of its packs (receiving, live, superseded, collecting), `files` the store, `moved` the keys
that moves left. A pack is the set of commits it holds, since its name is the checksum of its
bytes: the same objects sent twice are the same pack.

| Code | Actions |
| --- | --- |
| `receivePack`: `receive`, `connected`, `judge` | `Judge` (`Connected`, `Descends`, `Commands`) |
| `accept`: `Store.Put` (row, pack, index), then one transaction | `PushReceives`, `PushWrites`, `Land` (`UpdateRefs`, `PackLive`) |
| a refusal, or a process that dies | `GiveUp`, and the half-written branch of `PushWrites` |
| `uploadPack`: refs, packs, files | `UploadPack`, `ReadPacks`, `Fetched` |
| `Store.Repack` | `Repack`, `RepackReceives`, `RepackWrites`, `Repacked` |
| `collectPacks` | `CollectablePacks`, `Collect`, `PacksCollected` |
| `moves`, `movedGone` | `Copied`, `CompleteMove`, `MovedObjectsDue`, `MovedObjectsGone` |
| `PurgeDeleted` | `SupersedePacks`, `DeleteRow` |
| requests on workflows | `CreateWorkflow`, `RenameWorkflow`, `AskMove`, `DeleteWorkflow` |

Every transaction looks a workflow up by namespace and name (`Found`), as the code does. The steps
of a pass of the purger come in any order, since one that fails lets the next go on. A copy is one
step, whole or of some packs: the workflow is frozen by the move. A push or a fetch lasts less than
the grace (a day), `Lasts < Grace`: past it the code answers ErrNoPack. A push reads refs and packs
at one moment here; a fetch reads the refs first and the packs after, which is the order the code
argues for. There is one purger, the leader's; see `twice` below. `resent` is history, kept to name
the one exception `LivePacksHaveFiles` has.

### Schedule

One workflow that git hosts. `rows` is its rows of `triggers`, by position; `armed` the version
`workflows.armed` records; `head` the version its default branch is at, which a `Push` moves and
arms in one transaction, as at an instant the request read earlier. The leader's loop alternates
Core.Arm (`ArmReads`, `ArmWrites`: the head is read in one statement and the rows are replaced in
later ones, and nothing keeps a push out between) and Core.Fire (`FireReads`, then `FireOne` and its
variants, one fenced transaction per occurrence). Core.Arm's transaction holds the term, so
`Elect` waits for it. A row declared again keeps its state (`Again`, `Carried`), the k-th of one
declaration matching the k-th held.

A cron expression is the set of instants it matches, and an instant is some minutes: the leader
fires every second, so time does not pass while it leads and something is due (`Tick`). `past` is
history: how far a schedule's occurrences are answered for, and the last it ran. `passedBy` is
history too: a push replaced the rows while Core.Arm waited for them, so that it found none and
kept nothing (`overtaken` below); `EveryOccurrenceAnswered` is stated for the rest.

## Runs

| Run | Instance | Distinct states | Checks |
| --- | --- | --- | --- |
| lease | 3 processes, 2 connections, 3 faults | 29 256 | `OneTermWrites`, `TermsDiffer`, `NeverLate`, `SomebodyLeads`, `OneWriter` (refinement) |
| hosts | 2 hosts, 2 passes, 1 requeue, 1 fault | 334 519 | `TypeOK`, `AnotherHostOnlyAfterLoss`, `EndingFromItsHost`, `OneLiveDispatch`, `LossNotForgotten`, `RowsOnlyMoveForwards`, `EndedKeyNotRerun` |
| endings | 1 host, 1 pass, 2 attempts with backoff and 1 requeue each, deadline, cancellation, other steps, progress, 1 fault | 1 209 269 | `RowsFollowDocument`, `EndedRunHoldsNothing`, `RowsOnlyMoveForwards` |
| recovers | 2 hosts, 1 pass, cancellation, 1 fault, fairness | 39 954 | `RunEnds`, `Drains` |
| graph | 4 workflows of 3 to 5 steps | 77 228 | `VerdictsFollowFates`, `NothingLeftBehind`, `UnwantedAreTold`, `NextChangesNothing`, `DivisionStands`, `PassesEnd` |
| first | 1 workflow of 4 steps | violated | `BarrierStaysLifted` |
| admits | 2 runs started and 1 called, a ceiling of 1, 1 upset | 1 081 492 | `OneHolder`, `OldestFirst`, `OverrunBounded`, `CalledOnce`, `NeverStranded` |
| orphans | the same | violated | `CalledFollowTheirCaller` |
| objects | 1 object, 1 run, 1 push, 2 transfers, a file that may be fetched for 3 ticks, 1 sweeper that may die, fairness | 510 177 | `CountsAgree`, `NamedHaveBytes`, `LateResultFindsBytes`, `BudgetKept`, `StoreDrains` |
| untold | 1 object, 1 run, 1 push, 1 fetch | violated | `ReferencedAgainIsTold` |
| repository | 1 repository, 2 namespaces, 2 names, 3 commits, 1 ref, 2 pushes at a time and 3 in all, 1 fetch, 2 changes of the workflow, 1 failed step | 997 493 | `ObjectsHeld`, `LivePacksHaveFiles`, `FetchServed`, `UnforcedGoesForward` |
| schedules | 2 controllers, 2 schedules, 4 versions, 1 push, 5 instants, 1 lost lead or refusal, fairness | 486 523 | `FiredOnceInOrder`, `EveryOccurrenceAnswered`, `ArmedInTheEnd` |

What they show:

- **hosts**: a key runs on a second host only after a loss, whatever is delivered again; an ending
  or a code on a row is what the host bound to it recorded; a row's binding is never given away and
  an ending never changes, but for a loss overtaken by the very runner that went quiet. Two passes
  of one term or two, with an answer between their transactions, never write two live dispatches of
  a key, and never put a clock over a loss nobody has heard.
- **endings**: the endings of attempts and dispatches that were passed do not disturb the current
  one, and the row of an attempt that failed is ended by the answer that moved past it; the document
  and the rows say the same of the current dispatch, but for a loss not heard yet; however the run
  ends under its task, its rows end with it and stay so.
- **recovers**: the run always ends and everything is drained.
- **lease**: one term writes at a time, and once faults stop somebody leads for good.

- **graph**: verdicts depend on how containers ended and not on the order, a running run always has
  something to wait for, a pass asked again changes nothing, a running step is divided as it was when
  it began, and no pass goes round without end: 11 rounds (`MaxRounds`), one more than two for each of five steps,
  are enough (`PassesEndHolds`).
- **admits**: groups and calls are right however the two goroutines interleave and wherever the
  controller dies; the ceiling of tasks is overrun by at most itself.
- **objects**: no interleaving of the sweeper with writers loses bytes that something names, other
  than in the two ways named above, and nothing stays in the store for good unnamed.
  A file of one fetch is never served to two transfers that may both complete, and each delivery
  past the first answers for one that completed and was not recorded in its hold. Three ticks are
  time for three deliveries, each unrecorded: the bound counts them, and is met by them.
- **repository**: whatever a repack, a collection, a move, a rename or a deletion does between the
  transactions of a push or a fetch, refs name objects that live packs hold.
- **schedules**: a failover, a push or a firing that fails neither skips an occurrence nor runs one
  twice, and whatever armings raced, the head's schedules are armed in the end.

Why the bounds are enough to be interesting: one requeue is enough for a message, a result and a
host of the dispatch passed to meet the dispatch that followed; two attempts for the same of
attempts; two hosts for a second host to take what the first holds; two passes for every pair of
transactions to interleave. The workflows of the graph run are the smallest in which each rule
meets another (`MCGraph` says which). Three runs are enough for a holder, one who waits and one
called; a ceiling of one for two passes to count the last slot. One object is enough, since nothing
in the code relates two. Three pushes are enough for a repack of two packs to miss the third; two
changes for a move and the move back, or a move and a deletion. One ref is enough for the properties
of the repository run, which quantify over refs one by one; two take TLC past a few million states.
Five instants are enough for an outage longer than an occurrence may be late, with a schedule that
catches up over more than one batch and one that skips.
Every action fires in some passing run, and for every property there is a mutated definition
(named `Mut...`, before the one it mutates) with which TLC finds it violated under the same
configuration. The type invariants of `Lease`, `Objects`, `Repository` and `Schedule` hold on the same
instances and are left out of the runs, each of which has sharper things to ask. Deadlock is
checked in the lease run only: in the others a run that has ended and been drained, or bounds used
up, leave nothing to do. Larger instances (the hosts run with two faults, 5 824 711 states; three
faults on two hosts with one pass; versions that declare one schedule twice, 816 192 states) were
explored without a violation, and are not kept because of the time they take; so were two pushes in the
objects run, with two transfers and either a sweeper that dies (955 815) or a file that may be fetched
for two ticks (1 544 974).

A nuance met on the way: a dispatch that was stopped and then declared lost does take the ending
its own runner reports later, with its code. `RowsOnlyMoveForwards` is stated so.

## Findings

Three runs expect a violation, each of a sentence the code says of itself; `PROJECT.json` quotes them.

- `first` (`graph/evaluator.go:621`): under `merge: first` the winner is the earliest envelope of
  what has settled so far, chosen again at every dispatch. An edge that settles failed with an
  earlier envelope, after the consumer began on another, becomes the winner, `when` refuses it, and
  every pass over the run errs from then on.
- `orphans` (`controller/call.go:170`): a caller cancelled between the look for the run it called
  and that run's creation leaves a called run that nothing cancels.
- `untold` (`db/artifacts.go:211`): recording a retired reference again takes a collector's claim
  off the row, and the next push is not told to write the bytes.

Met while modelling, and described here without a run of their own:

- *refused* (`db/runs.go:177`): the runs of the hour are counted before the insert can answer that the
  dispatch has called a run already. Two passes of one caller, one of each goroutine, are both past the
  look for that run, and the hour has room for one: the first creates it, and the second is refused by
  the quota the first filled. It does not look again (`callRefusal`, `controller/call.go:230`), so the
  step fails, and where it is saved first the caller ends while the run it called is live, though "the
  step ends as the run did" (`controller/call.go:30`). In the instance of the orphans run, with no upset,
  TLC finds in 20 steps a run `r` whose `call` has `failed` and a member of `CalledBy(r)` that has not
  ended. What holds is `CalledOnce`: there is one such run.
- *uncounted* (`api/reading.go:442`): a response that completed is not counted where the transaction
  after it fails, or is never run because the API died; its hold lapses and "the last fetch is served
  once" (`api/reading.go:344`) no more: `sent[r] <= 1` is violated in the instance of the objects run,
  by two transfers, or by one twice. What holds is `BudgetKept`: this is the only way.
- *reused* (`api/git_receive.go:962`): a push is judged against the repository its name found, and
  lands in the one its name finds later. A rename and a creation in between leave a ref naming a
  commit the repository does not hold. `ObjectsHeld` is violated in the instance of `Repository`
  with two keys, one namespace, the names w and x, the refs main and f, one push at a time and no
  fetch; the repository run has one key.
- *jitter* (`controller/schedule.go:98`, "the occurrence of %s was missed while no controller led,
  and catch_up is false"): nothing bounds a jitter by its period. An occurrence that fires more than
  a period and ten minutes late leaves the next one already too late, and it is skipped as missed in
  an outage though a controller led throughout. `EveryOccurrenceAnswered` is violated with a
  schedule of every instant and a jitter of three, no push and no fault.
- *overtaken* (`controller/arm.go:34`; `api/git_receive.go:1011`, "so that no head is ever without its
  triggers or with another's"): Core.Arm reads the head and replaces the rows in one transaction
  that holds no lock on the workflow until then. A push that lands between leaves the older
  version's triggers armed until the pass a minute later (`ArmedInTheEnd` is what holds), and where
  Core.Arm was waiting for the rows the push replaced, it finds none of them and arms every schedule
  anew: one that was due and not fired yet loses that occurrence.
- *library* (`trigger/arm.go:134`): a library's head is recorded as armed with no version, so it is
  found unarmed, and disarmed again, at every pass. Harmless.
- *back* (`db/move.go:827`): the keys a move takes off `moved_objects` are computed from the
  namespaces' names, while files are kept under their storage names. With `Storage` not the
  identity (a namespace renamed since its creation), a workflow moved out and back within the grace
  keeps the rows, and `movedGone` deletes the files of its live packs: `LivePacksHaveFiles` fails.
  The instance of the repository run has namespaces that were never renamed.
- *resent* (`db/refs.go:424`): ReceivePack takes no row off `moved_objects`. A push interrupted by a
  move, sent again after the workflow moved back and within the grace, lands, and its files are
  deleted when the grace ends. The properties leave out such packs (`resent`).
- *twice* (`purge/purge.go:16`, "Nothing here would be wrong twice at once"): the purger is not
  fenced. A former leader paused inside Repack, Collect or a move may delete or replace what its
  successor has since decided anew. The repository run has one purger.
- *strays* (`db/refs.go:414`, "a file under git/ always has a row naming it"): a move that copied
  some packs, one of which is collected before the next attempt, leaves files no row names.

## Fairness

`Lease`: a standby goes on trying the lock and a leader goes on polling and making transactions
(both are loops in elect.go), and the database ends every transaction. `BeginTerm` and `TryLock`
are strongly fair: PostgreSQL queues a waiting update ahead of later share locks, and a standby's
poll meets a lock that is free for good. Nothing is assumed of faults.

`Dispatch` (`FairSpec`, the recovers run only): a pass takes its next step (no step of a pass waits
on anything but the database or the bus), the answer consumer takes some result, the sweep declares
what stays lost, a message not acknowledged is delivered to somebody, a host carries on with what
it holds, publishes what it kept and comes back when it is down or cut, and clocks come round. Each
is a loop or a redelivery in the code. Nothing is assumed of faults, of a request to cancel, of a
stop reaching a host, or of which host takes a message.

`Objects`: time passes, a declared upload commits, a run ends and its references expire, a sweeper
goes on with its pass and begins another (Purger.Run is a loop), and a deletion the store refuses is
not refused for ever (`RemoveAll` is strongly fair). Nothing is assumed of pushes, deaths, fetches
or reports.

`Schedule`: a standby takes a free lock, a controller that no longer leads finds out, and the
leader's loop goes on with its arming and its firing. Nothing is assumed of time, pushes or faults.

`Graph`, `Admission` and `Repository` state safety only. What keeps a run going there is stated as
an invariant (`NothingLeftBehind`, `NeverStranded`): there is always somebody whose turn it is.

## Proofs

The theorems hold for any number of processes, connections, runners, passes, attempts, requeues,
runs, workflows, steps, shards, objects, sweepers, schedules, commits, packs, pushes and faults. They rest on the named assumptions of the
modules only (`LeaseAssumption`, `ShardAssumption`, `DispatchAssumption`, `GraphAssumption`, `AdmissionAssumption`,
`ObjectsAssumption`, `ScheduleAssumption`, `RepositoryAssumption`): limits and periods are natural
numbers and those the code refuses as zero are positive, there are finitely many commits, a workflow is one Build accepts
(`FlowOK`), the functions that describe workflows, files and declarations have the
domains and ranges they are used with, "nobody" and "no row" are not one of those there are, a run
is not a push. TLC evaluates each on every run of its module.

| Theorem | Says |
| --- | --- |
| `LeaseProofs!OneTermWritesHolds` | every open fenced transaction carries the latest token |
| `LeaseProofs!TermsDifferHolds` | two that believe they lead hold different terms |
| `LeaseProofs!NeverLateHolds` | commits are in the order of terms |
| `LeaseProofs!LeaseImplementsOneWriter` | `Lease` implements `FencedWriter` |
| `DispatchProofs!DispatchTypeOK` | every variable stays in its type |
| `DispatchProofs!OneLiveDispatchHolds` | at most one dispatch of a key is not lost |
| `DispatchProofs!LossNotForgottenHolds` | a loss not heard leaves the run due |
| `DispatchProofs!EndedRunHoldsNothingHolds` | a run that ended has nothing in flight |
| `HostProofs!EndedKeyNotRerunHolds` | a recorded ending stands and its key is not started again |
| `HostProofs!RowsFollowDocumentHolds` | the rows say what the run's document says of its task |
| `HostProofs!RowsOnlyMoveForwardsHolds` | a binding, a code and an ending stand, but for a loss its own runner overtakes |
| `HostProofs!EndingFromItsHostHolds` | a success or a code is what the bound host recorded of its container |
| `HostProofs!AnotherHostOnlyAfterLossHolds` | a key starts on at most one host more than dispatches of it were lost |
| `GraphProofs!VerdictsFollowFatesHolds` | a run that ends by itself ends as the fates of its containers mean, in any order |
| `GraphProofs!NothingLeftBehindHolds` | a run under way has a task to hand out or a report to come |
| `GraphProofs!NextChangesNothingHolds` | a pass over what a pass left changes nothing |
| `GraphProofs!UnwantedAreToldHolds` | a container nobody waits for was named in a stop |
| `GraphProofs!DivisionStandsHolds` | a running step is divided as it was, where no step takes the first of several |
| `GraphProofs!PassesEndHolds` | a pass ends within two rounds for each step of the workflow and one more |
| `AdmissionProofs!OneHolderHolds` | a group holds one started run |
| `AdmissionProofs!OldestFirstHolds` | a step that starts a queued run starts the oldest of its group |
| `AdmissionProofs!NeverStrandedHolds` | a run that is not over is found by a sweep or has an answer to come |
| `AdmissionProofs!CalledOnceHolds` | a dispatch of a call starts one run and succeeds only with it, whichever of its passes the quota refuses |
| `AdmissionProofs!OverrunBoundedHolds` | a namespace has at most twice its ceiling of tasks out |
| `ObjectsProofs!CountsAgreeHolds` | an object's count is the number of what names it |
| `ObjectsProofs!NamedHaveBytesHolds` | what is named has its bytes, or a push owes them, but for the two exceptions |
| `ObjectsProofs!LateResultHolds` | a result heard within its upload's hold finds its bytes |
| `ObjectsProofs!BudgetKeptHolds` | a file of one fetch is served to one transfer at a time, and delivered once but for completed transfers not recorded in their hold |
| `ScheduleProofs!FiredOnceInOrderHolds` | each occurrence runs once, in order |
| `ScheduleProofs!EveryOccurrenceAnsweredHolds` | no occurrence is passed over but in an outage, under two hypotheses |
| `RepositoryProofs!UnforcedGoesForwardHolds` | a push not forced takes no ref off its history |
| `RepositoryProofs!ObjectsHeldHolds` | live packs hold every ref's history, where names lead to one repository |
| `RepositoryProofs!LivePacksHaveFilesHolds` | live packs have their files, there and where no namespace was renamed |
| `RepositoryProofs!FetchServedHolds` | what a fetch reads is whole and stays until it is done, under the same two hypotheses |

**Lease.** The invariant adds to the properties that a leader's term was handed out
(`0 < term <= token`) and that the last commit is not of the future. `BeginTerm` is the step that
matters: it raises the token only where no transaction is open, so those open stay of the latest.

**Types.** `TypeOK` of `Dispatch` is where the limits are: attempts and requeues are numbered within
`Keys` and `Turns`, which `Record`'s guards keep (`DispatchProofs!RecordFacts`). It is not inductive
alone: a host makes a result of what is on its disk, and it is a result only because a key whose
container ended has an ending recorded (`EndedRecorded`).

**The rows.** None of the three properties is inductive, because a pass reads in one transaction and
writes in another. `SafeInv` says what a pass may carry between them (`PassSafe`): its sequence is
not of the future; and if the run has not moved since it was read, then the decision it carries
stays at the current dispatch or is the requeue of one whose row is lost (`SaveSafe`), the answer
it carries ends the current dispatch or stays at it (`AnswerSafe`), the dispatch it is about to
record is the document's, pending, in a running run, and, where it is fresh, there is no loss
unheard. If the run has moved, the sequence refuses what it carries. `Reach` says which rows there
are: none beyond the document's dispatch, none but lost ones among those requeued past. The proof
of a step that writes (`SafeSave`, `SafeRecord`, `SafeAnswer`, `RestAnswers` in `SafeRest`) shows
that writing something safe gives safe rows (`WriteSafe`, `AdvanceSafe`), that a clock is written
only where the loss was heard (`HeardSafe`), and that every other pass has fallen behind
(`SafeMove`). All other steps keep which rows there are and which are lost (`SafeFrame`). The term
appears nowhere in this invariant: the fence keeps one writer, but the rows are right by the
sequence alone.

**Hosts.** `EndedKeyNotRerun` is an action property; its invariant is that a key held, bound or
running has no ending recorded here, since those are the keys a step lets go of, starts or ends.

**Rows and hosts.** The other four properties of the rows need all three of document, rows and hosts
in one invariant, `RowInv`, on top of `SafeInv` and the hosts' own. `Agree` relates the document and
the rows, and is `RowsFollowDocument` made inductive: a row under an earlier attempt is over or never
was, and a task that is over has the row of its ending, or a row that was lost after the run was
stopped and whose container left no code. `Honest` says what a result may claim, wherever it is (on
the bus, kept on a disk, or held by a pass): its dispatch has a row; it is cancelled only if the
document or a request asked for that; and a success or a code is of a container that its host ran
and recorded. `RecordOf` says the same of a host's records, `BindingOf` that whatever a host holds
bound, or ever started, it redeemed a row for. `Carries` is what a pass may hold while the
document has not moved since it read it: a decision is one the evaluator makes of these rows and this
document (`Decided`), an answer is what the evaluator makes of a result that is honest, and either
the row is bound to whoever reported it or the pass may bind it. Once the document moves, the
sequence refuses what the pass holds and `Carries` asks nothing.

The proof has three parts. The first is about data alone: what each decision and each result does to
a document (`DecidedJudges`, `AnswerJudges`), and what writing those does to a row
(`SaveWrites`, `AnswerWrites`, `RecordWrites`). The second takes the steps
that write a row one by one (`RowsStep`), and gives `Forwards`, the body of `RowsOnlyMoveForwards`,
with what no step takes back of the rows (`Lasts`). The third uses only `Lasts`, and `Stays` for the
disks, to show that all that was said of hosts, messages and passes goes on being true, so that only
what a step adds remains to be looked at (`StandStep`, `EndingStep`, `CarriesStep`).
`AnotherHostOnlyAfterLoss` is then counting: the hosts that started a key are among the runners of
its rows, and by `OneLive` at most one of those rows is not lost.

**The graph.** The theorems are for every workflow `FlowOK` admits and, but for `PassesEnd`, for
every bound on the rounds of a pass. What the code does by loops (a total, a sweep over the steps, the rounds of a pass) is
recursive functions in `Graph`, and a proof about one takes it as a sequence of values, each made of
the one before (`Iteration`, `SweepExists`, `RoundsExist`), and goes along it (`UpTo`).

`RunInv` is the invariant of the first three, and of `PassesEnd`. A document is `Shaped`: a step has no shards before it
begins and no port before it ends. Between a run's passes it is `Boxed`: the containers are those of the
shards handed out, one each, and one whose shard was called off was named in a stop. And where a run is
under way it is `Quiet`: each step that is not over waits for another or has a shard going, nothing is
left to call off and nothing that cannot be built is due. A round that ends nothing leaves a quiet
document (`RoundsFacts`), since its sweep goes in the order of the needs, so that no step it has
passed is moved by one it comes to (`SweepQuiet`); a pass over a quiet document changes nothing
(`RoundsStill`); and in a quiet document the first step in order that is not over waits for
nothing, so that it runs, with a shard that may start or one that is out (`NothingLeftBehind`).

`DivisionStands` has a hypothesis about the run's workflow, `NoFirst`: no step is merged by
`first`. With one it is false, unless other circumstances save it: that is the finding `first`. Its
invariant, `Divided`, says that a step that runs reads now what it was divided by: its needs
are over and have ports, and what is over stays (`DividesFacts`). Nothing is then ever superseded, so a
shard is called off only where a sibling failed.

`VerdictsFollowFates` compares what passes, reports, retries and containers in any order came to with
`Meaning`, which reads the graph once. Its hypothesis, `Deterministic`, is part of the property: no
`merge: first`, no fail_fast. The invariant, `Meant`, adds two parts to `Divided`. `Follows`: a step
that is over ended as what it reads now and its own shards say, which stays so because what it reads
is of steps that are over. `Known`: of each attempt of a shard there is at most one fate and none of
one to come (`Fated`), each shard came to what the fate of its last attempt says (`Heard`), and a
container not reported yet is of a shard that was handed out, at that attempt (`Reported`), so a
report is never of an attempt retried past. When all steps are over, going through them in order gives
`Meaning` (`StepMeans`, `MeaningSaid`): what a step reads is what its needs mean (`ReadMeans`: the
sizes of what arrives, whether they pair, how many shards they make), and what its shards published is
the sum over the fates of their last attempts (`OutcomeMeans`).

`PassesEnd` is what makes a pass of `Graph`, which goes round at most `MaxRounds` times, the code's,
which goes round until nothing moves. Its hypothesis is that `MaxRounds` is more than twice the number
of steps, as in the runs. Two sets of steps only ever shrink (`Left`): those that have not begun or
have a shard to start, and those that are not over. A sweep adds to neither; a round that fails what
cannot be built takes a step out of the first (`UnbuiltLeft`), since it fails every pending shard of
it; a round that calls something off takes one out of the second (`StoppedLeft`), since it calls off
every shard left of a step; and any other round is the last (`RoundLeft`, `RoundsEnd`). The other
theorems of `Graph` do not need this, since a pass that has not come to an end decides nothing there.

Proving these found a fault of the model: some CASE expressions (a verdict of shards, a gate, what
begins where a barrier lifts, `Meaning`) had guards that overlap. TLC takes the first that holds and
so checked what was meant, but TLA+ leaves open which; they are IF ... ELSE now, in the code's order.

**Admission.** `OneHolder` and `OldestFirst` are true of the rows alone, but a pass decides on what it
read. The invariant says, beside what one row agrees with (`RowAgrees`, `UnderWay`), what a pass may
be at (`TurnAgrees`, `PassInOrder`) and how what it carries relates to the row it read
(`PassAgrees`): while the sequence stands, the row is as it was read but for what requests and
clocks put on it, and nothing that is read again is needed to say so. Only Watch admits, and while
it does, nobody holds the group and nobody queues before the run (`Admitting`): a run enters a group
only through Watch's own pass, and one is created behind all there are. `NeverStranded` and
`CalledOnce` follow from it. `OverrunBounded` has an invariant of its own (`Bounded`): what is out
and what the two goroutines have counted on handing out are together at most twice the ceiling. It
is inductive because each counts on no more than the ceiling, and when one counts, all that is out
by then is counted too.

**Objects.** The hard one is `NamedHaveBytes`, since bytes and rows are in two systems. `Covered` is
what is inductive: a row nobody claimed has its bytes, or the debt of a push for them, or the debt
was lost in one of the two ways `dropped` and `washed` remember. A claim stands only on a row at zero
(`ClaimedAtZero`), a locked row is claimed and at zero with nobody recording on it (`LocksStand`), and
what a collector found unheld under the lock stays so until it has removed the bytes
(`LookedAtStands`). A writer or a walk that found no row, or one nobody may claim before time passes,
commits before time does (`NothingRipens`): that is where the grace enters. `BudgetKept` is
`OneFetch`: one transfer at a time holds the fetch of a file; while one may still complete, all that
completed before went unrecorded; and once one more has, the reference is retired or the hold of
that very transfer stands, so that no other can reserve. When such a hold lapses or is abandoned, `lost`
is raised in the same step, which restores the balance.

**Schedules.** `FiredOnceInOrder` needs that no two controllers believe they lead one term, that an
arming under way is of the latest term and that what ran had run before it began (`ArmingsFenced`),
and that a pass fires only what was due at the instant it goes by (`PassesFoundDue`): Fire compares
the row's occurrence with what it read, so a stale pass finds another and writes nothing.
`EveryOccurrenceAnsweredHolds` has two hypotheses. `JitterWithinPeriod`: a schedule that does not
catch up is late by no more than the time to its next occurrence; without it the property is false
(*jitter* above). `Lasts <= Missed`: a request or an arming is over before an occurrence is too
late; otherwise a pass overtaken by an arming of the same occurrence skips it by the instant it
read. Its invariant relates what a pass found to the rows by what a schedule is across versions (its
declaration and which of those alike it is, `Lineage`), and says that nobody has led beyond the
instant a schedule fires at, but one armed since (`NotOverdue`). Unlike the others it does not hold
after `passedBy` (*overtaken*), as the property says.

**Repositories.** `UnforcedGoesForward` needs that a push under way carries its judgement unchanged
(`JudgedOK`): what it compares the refs with is what it was judged not to leave. `ObjectsHeld` is about
histories, which are found by going round the parents as often as there are commits; what makes it
inductive is to say nothing of histories. `HeldInv` says that what the live packs of a repository hold
has its parents there and its refs there (`Whole`); `ReachWithin`, an induction over the rounds made
from a least counterexample, turns that into histories. Beside it stand the steps between two
transactions: what a push was judged by is still held when it lands (`StillConnected`), a repack's pack
holds all that the packs hold that it replaces and nothing that is not held (`CopiesHeld`), and what a
fetch wants stays held until it has read the packs (`WantsHeld`), so it lacks nothing then, the first
half of `FetchServed`. All three rest on one fact, that a repository which is there never lets go of
anything it holds (`HeldKept`): the collection takes only packs that are not live. The theorem has a
hypothesis, `OneRepository`: the names lead to one repository only. With two it is false, since a push
or a repack may go on in another repository that has come by the name since (*reused* above).

`LivePacksHaveFiles` and the other half of `FetchServed` are about files, which three clocks may delete:
a row's grace, the ledger's, and a claim of the collection. `StoreInv` says what each may reach. What is
stored (`Stored`) is more than the live packs: those replaced, too, while the workflow is there, since a
move copies both and a pack may be live again only by being received; and no file that a row stands for is
in the ledger (`Ledgered`), but of a pack received again. `Outlives(x, left)` says that for so many ticks
neither a row nor the ledger has the file `x` deleted: a push under way has it of what it writes and a
fetch of what it reads, for the ticks each may last, and what begins has it because `Lasts < Grace`. Every
step but a tick leaves it as it is (`OutlivesStep`), a tick takes one (`OutlivesTick`). What is left are
the intervals between two transactions of the purger: what it removes the files of is claimed (`Claims`),
a repack's pack is written before it is live (`RepackWritten`), and what a move carries is under the
target's keys before the rows are (`MoveCopied`), which holds because no push lands in a workflow that
moves. Becoming live is one of nine things a step may make of a row (`Became`, `RowStep`). The second
hypothesis, `NeverRenamed`, is used once, in `LedgerClear`: a move back takes the keys of the earlier
move off the ledger only if they begin with the name of the namespace (*back* above).

The invariants were checked by TLC first, on the runs' instances and, for `Objects`, with two
sweepers and with a grace of two ticks; for `Repository`, also with a grace of two ticks.

Only model-checked: what is stated under fairness,
`SomebodyLeads`, `RunEnds`, `Drains`, `StoreDrains`, `ArmedInTheEnd`, which TLAPS 1.4.5 does not
reach.

## What is left out

Of the components modelled:

- Results a runner publishes as `lost` (Answer's lose branch): no runner of this repository does.
- A runner drained or revoked, and the 403 and 422 answers to a redemption.
- In `Dispatch`, quotas, groups and calls, which hold back or replace a start (they are in
  `Admission`); pools and memoisation anywhere.
- In `Graph`, `merge: join`, fan-out by chunk and by matrix, params and templates, and the evaluation
  of conditions: a condition is true, false or an error.
- In `Admission`, other namespaces, the values a call passes, and the passing of the hour.
- In `Objects`, envelopes and a grant's inputs, logs, memoised results, the room of a namespace, the
  S3 store and the backfill of v0.2.
- In `Repository`, the hook's rules, protection and grants, the change of a default branch, the
  logs, runs and artifacts that a move carries, the cache of indexes.
- In `Schedule`, webhooks and events (so an arming refused for a path taken), tree pushes, the deletion
  and the move of the workflow, zones and the changes of their clocks, which shape the set of instants.
- The expiry of a grant, beyond a redemption that is refused or times out (`RedeemReport`).
- Keys of an earlier agent, which a restarted one names in its heartbeats for one window: the model
  does not name them, so the sweep may declare more lost than the code would.
- Lost's batches and `SKIP LOCKED`: one row at a time.
- The record of endings: its pruning by age, and a write that fails, which the code only logs.
- Stops are not messages: a host told of a stop may act on it at any later moment, or never.
- The other steps' answers are atomic (`RestAnswers`), so the passes that interleave are those over
  this shard.

Not modelled at all: parsing and validation of workflows, git's formats, the contents of containers,
identity and access, secrets, the audit chain, webhooks and events, the API's handlers beyond the
rows they write, the console and the command line. Most are sequential, or calls to services with no
protocol of their own. The repository has some 147 000 lines of implementation, of which the greater
part is such code; the modules are of the part where steps of several actors meet.

## Plan

1. Draining and revocation of runners; the earlier agent's keys in heartbeats; grants that expire.
2. An abstract specification of a key (handed out, running, ended) that `Dispatch` implements.
