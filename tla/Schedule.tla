------------------------------ MODULE Schedule ------------------------------
(***************************************************************************)
(* The schedules of one workflow that git hosts: armed by what moves the   *)
(* head of its default branch (a push, another branch named the default),  *)
(* by the leading controller where nobody armed it, and fired by the       *)
(* leading controller every second.  controller/schedule.go and arm.go,    *)
(* trigger/arm.go, db/schedule.go and db/triggers.go.                      *)
(*                                                                         *)
(* A cron expression is the set of instants it matches.  An instant stands *)
(* for some minutes: a leader fires what is due, and a transaction ends,   *)
(* well within one.                                                        *)
(***************************************************************************)
EXTENDS Naturals, Sequences, FiniteSets, FiniteSetsExt

CONSTANTS
  Commits,       \* the versions the default branch may be at
  NoCommit,      \* a branch unborn, a workflow that has armed nothing
  Declares,      \* what each version declares under on.schedule, by position
  Libraries,     \* the versions that are libraries
  Unarmable,     \* the versions the rules of this release refuse
  Controllers,
  NoOne,
  Missed,        \* how late an occurrence still fires
  CatchUpBatch,  \* how many occurrences of one schedule a pass fires
  Lasts,         \* bound: how many instants a request or an arming may take
  Horizon,       \* bound: the last instant
  MaxPushes,     \* bound: how often the head moves
  MaxUpsets      \* bound: leads lost, firings refused or failed

Schedules == UNION {{Declares[c][i] : i \in DOMAIN Declares[c]} : c \in Commits}

\* What on.schedule may say: when, by how much a firing may be late, whether what was missed is
\* made up.  An expression comes round again after the last instant.
IsSchedule(s) ==
  /\ s = [at |-> s.at, jitter |-> s.jitter, catchUp |-> s.catchUp]
  /\ s.at \subseteq Nat /\ s.jitter \in Nat /\ s.catchUp \in BOOLEAN
  /\ \E o \in s.at : o > Horizon

ASSUME ScheduleAssumption ==
  /\ NoCommit \notin Commits /\ NoOne \notin Controllers
  /\ Libraries \cup Unarmable \subseteq Commits
  /\ DOMAIN Declares = Commits
  /\ \A c \in Commits : Declares[c] \in Seq(Schedules)
  /\ \A c \in Libraries \cup Unarmable : Declares[c] = <<>>
  /\ \A s \in Schedules : IsSchedule(s)
  /\ {Missed, CatchUpBatch, Lasts, Horizon, MaxPushes, MaxUpsets} \subseteq Nat

VARIABLES
  now,      \* the instant
  head,     \* the version at the default branch's head
  armed,    \* workflows.armed
  rows,     \* the rows of triggers, by position
  past,     \* history: how far each row's occurrences are answered for, and the last it ran
  term,     \* the latest term begun
  holder,   \* who holds the election lock
  leads,    \* the term each controller believes it leads, 0 for none
  pass,     \* what each controller's loop is at
  lit,      \* history: up to which instant somebody last held the lock
  passedBy, \* history: an arming by the controller lost a race to a push, and kept no state
  pushes, upsets

vars == <<now, head, armed, rows, past, term, holder, leads, pass, lit, passedBy, pushes, upsets>>

Idle == [at |-> "rest"]

Init ==
  /\ now = 0
  /\ head \in Commits \cup {NoCommit}   \* pushed before triggers were armed, or not at all
  /\ armed = NoCommit /\ rows = <<>> /\ past = <<>>
  /\ term = 0 /\ holder = NoOne
  /\ leads = [c \in Controllers |-> 0]
  /\ pass = [c \in Controllers |-> Idle]
  /\ lit = 0 /\ passedBy = FALSE
  /\ pushes = 0 /\ upsets = 0

-----------------------------------------------------------------------------
(* Arming. *)

\* The first instant after `from` that the expression matches.
NextOccurrence(s, from) == Min({o \in s.at : o > from})

\* The declarations of a head: none where it is unborn, a library or refused.
Declared(h) == IF h = NoCommit THEN <<>> ELSE Declares[h]

\* What workflows.armed records of a head: a library is as good as none.
Recorded(h) == IF h \in Libraries THEN NoCommit ELSE h

\* Row j of those held is entry i declared again: the k-th of a declaration is the k-th held.
Again(old, ds, i, j) ==
  /\ old[j].decl = ds[i]
  /\ Cardinality({k \in 1..j : old[k].decl = ds[i]}) = Cardinality({k \in 1..i : ds[k] = ds[i]})

\* What becomes of entry i: the state of the row it is again, or a state of its own.
Carried(old, ds, i, state, fresh) ==
  IF \E j \in DOMAIN old : Again(old, ds, i, j)
  THEN state[CHOOSE j \in DOMAIN old : Again(old, ds, i, j)]
  ELSE fresh

\* The jitter of every entry, each drawn once.
Draws(ds) == {f \in [DOMAIN ds -> UNION {0..ds[i].jitter : i \in DOMAIN ds}] :
                \A i \in DOMAIN ds : f[i] <= ds[i].jitter}

\* Entry i newly armed: due for what comes next after `at`.
Entry(s, h, at, jitter) ==
  LET due == NextOccurrence(s, at) IN [decl |-> s, commit |-> h, due |-> due, fire |-> due + jitter]

\* Mutant: a row declared again is armed as if it were new.
MutArmAnew(old, h, at, draw) ==
  [i \in DOMAIN Declared(h) |-> Entry(Declared(h)[i], h, at, draw[i])]

\* The rows that replace the ones read: a row declared again keeps its state.
Arm(old, h, at, draw) ==
  LET ds == Declared(h) IN
  [i \in DOMAIN ds |->
     [Carried(old, ds, i, old, Entry(ds[i], h, at, draw[i])) EXCEPT !.commit = h]]

\* The replacement, in one transaction with the mark on the workflow.  What is remembered of a
\* schedule follows its declaration, whatever rows were read.
Replace(old, h, at) ==
  /\ \E draw \in Draws(Declared(h)) : rows' = Arm(old, h, at, draw)
  /\ past' = [i \in DOMAIN Declared(h) |->
                 Carried(rows, Declared(h), i, past, [settled |-> at, armedAt |-> now, ran |-> 0])]
  /\ armed' = Recorded(h)

\* A request that moves the head arms it in its own transaction, as at the instant the request
\* was read; a version that cannot be armed is refused.
Push(h, at) ==
  /\ pushes < MaxPushes
  /\ h \notin Unarmable
  /\ at <= now /\ now <= at + Lasts
  /\ pushes' = pushes + 1
  /\ head' = h
  /\ IF armed = h
     THEN UNCHANGED <<rows, past, armed, pass>>
     ELSE /\ Replace(rows, h, at)
          /\ pass' = [c \in Controllers |->
                        IF pass[c].at = "arm" THEN [pass[c] EXCEPT !.behind = TRUE] ELSE pass[c]]
  /\ UNCHANGED <<now, term, holder, leads, lit, passedBy, upsets>>

\* Mutant: a workflow that has armed something is taken to have armed its head.
MutUnarmedNever == armed = NoCommit /\ head # NoCommit

\* A head that is not what the workflow has armed.
Unarmed == armed # head

\* The controller's Arm finds the workflow and reads its head.  Its transaction holds the term.
ArmReads(c) ==
  /\ pass[c] = Idle /\ leads[c] # 0 /\ leads[c] = term
  /\ Unarmed
  /\ pass' = [pass EXCEPT ![c] = [at |-> "arm", head |-> head, now |-> now, behind |-> FALSE]]
  /\ UNCHANGED <<now, head, armed, rows, past, term, holder, leads, lit, passedBy, pushes, upsets>>

\* It replaces the rows by what that head declares.  Where a push replaced them meanwhile, the
\* statement that locks them may find none of what it waited for, and keep nothing.
ArmWrites(c) ==
  /\ pass[c].at = "arm"
  /\ \/ Replace(rows, pass[c].head, pass[c].now) /\ UNCHANGED passedBy
     \/ pass[c].behind /\ Replace(<<>>, pass[c].head, pass[c].now) /\ passedBy' = TRUE
  /\ pass' = [pass EXCEPT ![c] = Idle]
  /\ UNCHANGED <<now, head, term, holder, leads, lit, pushes, upsets>>

\* Or its inserts meet the rows the push inserted, and the transaction is rolled back.
ArmCollides(c) ==
  /\ pass[c].at = "arm" /\ pass[c].behind
  /\ pass' = [pass EXCEPT ![c] = Idle]
  /\ UNCHANGED <<now, head, armed, rows, past, term, holder, leads, lit, passedBy, pushes, upsets>>

-----------------------------------------------------------------------------
(* Firing. *)

\* The schedules due, each as its row is now.
DueSchedules ==
  {[position |-> i, row |-> rows[i]] : i \in {j \in DOMAIN rows : rows[j].fire <= now}}

\* The one a pass comes to next: the soonest first and then by position.
Soonest(due) ==
  {d \in due : \A e \in due \ {d} :
     \/ d.row.fire < e.row.fire
     \/ d.row.fire = e.row.fire /\ d.position < e.position}

\* A pass with schedule d at hand.
AtHand(d, due, at) == [at |-> "fire", now |-> at, hand |-> d, due |-> due \ {d}, fired |-> 0]

\* A pass reads what is due, and the instant it goes by.
FireReads(c) ==
  /\ pass[c] = Idle /\ leads[c] # 0 /\ leads[c] = term
  /\ \E d \in Soonest(DueSchedules) : pass' = [pass EXCEPT ![c] = AtHand(d, DueSchedules, now)]
  /\ UNCHANGED <<now, head, armed, rows, past, term, holder, leads, lit, passedBy, pushes, upsets>>

\* The pass goes on with the schedules after the one at hand.
OnToTheRest(c) ==
  \/ pass[c].due = {} /\ pass' = [pass EXCEPT ![c] = Idle]
  \/ \E d \in Soonest(pass[c].due) :
       pass' = [pass EXCEPT ![c] = AtHand(d, pass[c].due, pass[c].now)]

\* Mutant: the version that declared the row is not compared.
MutHeldAnyCommit(d) ==
  /\ d.position \in DOMAIN rows
  /\ rows[d.position].due = d.row.due

\* The row is still where the pass found it.
Held(d) ==
  /\ d.position \in DOMAIN rows
  /\ rows[d.position].commit = d.row.commit
  /\ rows[d.position].due = d.row.due

\* An occurrence come to too late is skipped where the schedule does not catch up.
Skips(d, at) == at > d.row.fire + Missed /\ ~d.row.decl.catchUp

\* From where the next occurrence is sought.
Onwards(d, at) == IF Skips(d, at) THEN Max({at - Missed, d.row.due}) ELSE d.row.due

\* What is known of a schedule once occurrence o ran, was refused or was skipped at `at`: a skip
\* answers for what it passes over only where nobody led since it was to fire.
Answered(p, d, outcome, at) ==
  LET o == d.row.due
      next == o = NextOccurrence(d.row.decl, p.settled)
      inOutage == lit <= Max({d.row.fire, p.armedAt}) IN
  [p EXCEPT !.ran = IF outcome = "run" THEN o ELSE @,
            !.settled = IF ~next THEN @
                        ELSE IF outcome # "skipped" THEN o
                        ELSE IF inOutage THEN Onwards(d, at) ELSE @]

\* The row once it waits for another occurrence.
MovedOn(row, due, jitter) == [row EXCEPT !.due = due, !.fire = due + jitter]

\* A firing: the run is started, or is not, and the row moves on, in one transaction.  The pass
\* goes on with the same schedule while it is due and its batch is not full.
Fired(c, outcome) ==
  LET d == pass[c].hand
      at == pass[c].now
      due == NextOccurrence(d.row.decl, Onwards(d, at)) IN
  \E jitter \in 0..d.row.decl.jitter :
    /\ rows' = [rows EXCEPT ![d.position] = MovedOn(@, due, jitter)]
    /\ past' = [past EXCEPT ![d.position] = Answered(@, d, outcome, at)]
    /\ IF due + jitter <= at /\ pass[c].fired + 1 < CatchUpBatch
       THEN pass' = [pass EXCEPT ![c].hand.row = MovedOn(@, due, jitter), ![c].fired = @ + 1]
       ELSE OnToTheRest(c)

Firing(c) == pass[c].at = "fire" /\ leads[c] = term

FireOne(c) ==
  /\ Firing(c)
  /\ LET d == pass[c].hand IN
     /\ Held(d)
     /\ Fired(c, IF Skips(d, pass[c].now) THEN "skipped" ELSE "run")
  /\ UNCHANGED <<now, head, armed, term, holder, leads, lit, passedBy, pushes, upsets>>

\* The version is gone, its inputs are refused, the quota is reached or the workflow is moving:
\* no run, and the row moves on all the same.
FireRefused(c) ==
  /\ Firing(c)
  /\ LET d == pass[c].hand IN
     /\ Held(d)
     /\ ~Skips(d, pass[c].now)
     /\ Fired(c, "refused")
  /\ upsets < MaxUpsets /\ upsets' = upsets + 1
  /\ UNCHANGED <<now, head, armed, term, holder, leads, lit, passedBy, pushes>>

\* The schedule moved on since it was read.
FireMoved(c) ==
  /\ Firing(c)
  /\ ~Held(pass[c].hand)
  /\ OnToTheRest(c)
  /\ UNCHANGED <<now, head, armed, rows, past, term, holder, leads, lit, passedBy, pushes, upsets>>

\* The transaction fails and is rolled back: the row is as it was, for a later pass.
FireFails(c) ==
  /\ Firing(c)
  /\ OnToTheRest(c)
  /\ upsets < MaxUpsets /\ upsets' = upsets + 1
  /\ UNCHANGED <<now, head, armed, rows, past, term, holder, leads, lit, passedBy, pushes>>

-----------------------------------------------------------------------------
(* Terms and time. *)

\* A standby takes the free lock and begins a term, once no fenced transaction is open.
Elect(c) ==
  /\ holder = NoOne /\ leads[c] = 0
  /\ \A o \in Controllers : pass[o].at # "arm"
  /\ holder' = c /\ term' = term + 1
  /\ leads' = [leads EXCEPT ![c] = term + 1]
  /\ UNCHANGED <<now, head, armed, rows, past, pass, lit, passedBy, pushes, upsets>>

\* The leader's session is lost: it does not know, and its passes go on.
LoseLock ==
  /\ holder # NoOne
  /\ upsets < MaxUpsets /\ upsets' = upsets + 1
  /\ holder' = NoOne
  /\ UNCHANGED <<now, head, armed, rows, past, term, leads, pass, lit, passedBy, pushes>>

\* A controller that no longer leads is refused by the fence, or sees that its session is gone;
\* an arming it has open is rolled back.
Deposed(c) ==
  /\ leads[c] # 0 /\ holder # c
  /\ leads' = [leads EXCEPT ![c] = 0]
  /\ pass' = [pass EXCEPT ![c] = Idle]
  /\ UNCHANGED <<now, head, armed, rows, past, term, holder, lit, passedBy, pushes, upsets>>

\* Time passes.  A leader fires what is due within the instant, and no arming outlasts Lasts.
Tick ==
  /\ now < Horizon
  /\ holder # NoOne => \A i \in DOMAIN rows : rows[i].fire > now
  /\ \A c \in Controllers : pass[c].at = "arm" => now < pass[c].now + Lasts
  /\ now' = now + 1
  /\ lit' = IF holder = NoOne THEN lit ELSE now + 1
  /\ UNCHANGED <<head, armed, rows, past, term, holder, leads, pass, passedBy, pushes, upsets>>

Next ==
  \/ \E h \in Commits, at \in 0..Horizon : Push(h, at)
  \/ \E c \in Controllers :
       \/ ArmReads(c) \/ ArmWrites(c) \/ ArmCollides(c)
       \/ FireReads(c) \/ FireOne(c) \/ FireRefused(c) \/ FireMoved(c) \/ FireFails(c)
       \/ Elect(c) \/ Deposed(c)
  \/ LoseLock
  \/ Tick

\* The controllers' loops go on: a standby takes a free lock, a leader arms and fires in turn.
Fairness ==
  /\ \A c \in Controllers :
       /\ WF_vars(ArmReads(c)) /\ WF_vars(ArmWrites(c) \/ ArmCollides(c))
       /\ WF_vars(FireReads(c)) /\ WF_vars(FireOne(c) \/ FireMoved(c))
       /\ WF_vars(Deposed(c)) /\ WF_vars(Elect(c))

Spec == Init /\ [][Next]_vars /\ Fairness

-----------------------------------------------------------------------------
(* Properties. *)

Row == [decl : Schedules, commit : Commits, due : Nat, fire : Nat]
Past == [settled : Nat, armedAt : 0..Horizon, ran : Nat]
Due == [position : Nat, row : Row]
Arming == [at : {"arm"}, head : Commits \cup {NoCommit}, now : 0..Horizon, behind : BOOLEAN]
Firings == [at : {"fire"}, now : 0..Horizon, hand : Due, due : SUBSET Due, fired : Nat]

TypeOK ==
  /\ now \in 0..Horizon /\ pushes \in 0..MaxPushes /\ upsets \in 0..MaxUpsets
  /\ {head, armed} \subseteq Commits \cup {NoCommit}
  /\ rows \in Seq(Row)
  /\ past \in [DOMAIN rows -> Past]
  /\ pass \in [Controllers -> {Idle} \cup Arming \cup Firings]
  /\ term \in Nat /\ leads \in [Controllers -> 0..term]
  /\ holder \in Controllers \cup {NoOne}
  /\ lit \in 0..Horizon /\ passedBy \in BOOLEAN

\* However often a schedule is armed again, its controller replaced and a pass overtaken, it is
\* due only for occurrences after those it ran: each starts one run, in their order.
FiredOnceInOrder ==
  \A i \in DOMAIN rows : past[i].ran < rows[i].due

\* Every occurrence a schedule has gone past since it was armed started its run, was refused
\* one, or, where the schedule does not catch up, was skipped with nobody leading since it was to
\* fire: neither a failover nor a push skips one.
EveryOccurrenceAnswered ==
  ~passedBy =>
    \A i \in DOMAIN rows :
      ~ \E o \in rows[i].decl.at : past[i].settled < o /\ o < rows[i].due

\* The schedules armed are the ones the head declares.
ArmsHead ==
  /\ DOMAIN rows = DOMAIN Declared(head)
  /\ \A i \in DOMAIN rows : rows[i].decl = Declared(head)[i] /\ rows[i].commit = head

\* Once the head no longer moves, it is its schedules that are armed for good, whatever armings
\* raced: the controllers' passes find what a request or an overtaken pass left.
ArmedInTheEnd == <>[]ArmsHead
=============================================================================
