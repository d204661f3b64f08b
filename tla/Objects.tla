------------------------------- MODULE Objects -------------------------------
(***************************************************************************)
(* The content-addressed objects of a namespace and everything that writes *)
(* them, counts references onto them and deletes them: uploads by runners  *)
(* (api/objects.go, db/uploads.go), the references a decision records and  *)
(* the purge that retires them (db/artifacts.go, db/purge.go), one-shot    *)
(* fetches (api/reading.go), the files of pushed versions (api/server.go,  *)
(* api/git_receive.go, db/versions.go, db/delete.go), the orphan sweep and *)
(* the collector (purge/).                                                 *)
(*                                                                         *)
(* The database and the store are two systems, so nothing here is atomic   *)
(* across them: bytes are written before the row that counts them and      *)
(* deleted before the row is removed.  A row lock is the only thing that   *)
(* orders the two.                                                         *)
(*                                                                         *)
(* An instant is kept as the ticks left until it, so that time may run for *)
(* ever: zero is an instant that has passed.  One tick is at least as long *)
(* as any transaction.                                                     *)
(***************************************************************************)
EXTENDS Integers, FiniteSets

CONSTANTS
  Digests,    \* what objects are named by
  Runs,       \* runs, each producing one file on one port
  OneShot,    \* the runs whose file is retained with a budget of one fetch
  Pushes,     \* pushes, each making one version of one file
  Fetchers,   \* transfers serving a file with a budget
  Sweepers,   \* controllers passing the purge, of which one leads
  FileOf,     \* the digest of the file a run or a push writes
  Grace,      \* DefaultGrace, in ticks
  Hold,       \* how long a write holds its object: its policy and the grace
  Retain,     \* how long a reference may be fetched
  MaxDeaths,  \* how many sweepers die in a pass
  NoOne, NoRow, NoBytes

\* artifact_objects: how many references count, the ticks until the row may be collected
\* where none does, and whether a collector has claimed it.
Row == [refs: Nat, ripe: (0..Grace) \cup {NoOne}, claimed: BOOLEAN]

ASSUME ObjectsAssumption ==
  /\ OneShot \subseteq Runs
  /\ Runs \cap Pushes = {}
  /\ \A w \in Runs \cup Pushes : FileOf[w] \in Digests
  /\ {Grace, Hold, Retain} \subseteq Nat \ {0}
  /\ MaxDeaths \in Nat
  /\ IsFiniteSet(Runs) /\ IsFiniteSet(Pushes)
  /\ NoOne \notin Sweepers /\ NoOne \notin OneShot /\ NoOne \notin 0..Grace
  /\ NoRow \notin Row
  /\ NoBytes \notin 0..Grace

VARIABLES
  store,    \* the bytes of a digest: NoBytes, or the ticks until they are older than the grace
  object,   \* artifact_objects: NoRow, or the count and the two marks of collection
  lock,     \* the sweeper holding a digest's row for update
  upload,   \* artifact_uploads: the ticks until a run's write stops holding its object
  writer,   \* where a run's write and its result stand
  ref,      \* artifacts: a run's reference, its status and the ticks until it expires
  over,     \* runs that have finished: no decision follows
  fetch,    \* where a transfer stands, what it holds a fetch of, the ticks until that lapses
  sent,     \* how many transfers of a one-shot file completed
  lost,     \* how many of them were not recorded while their hold stood
  push,     \* where a push stands, whether it skipped the file, what Save told it
  version,  \* workflow_versions: none, kept or deleted
  sweep,    \* where a pass stands, and the digests in its hands
  deaths,   \* how many sweepers died
  dropped,  \* digests a push that died still had to write again
  washed    \* digests whose claim was taken off by a retired reference, the bytes gone

vars == <<store, object, lock, upload, writer, ref, over, fetch, sent, lost, push,
          version, sweep, deaths, dropped, washed>>

\* A transfer that is over, and holds nothing.
NoFetch == [pc |-> "idle", of |-> NoOne, left |-> 0]

TypeOK ==
  /\ store \in [Digests -> (0..Grace) \cup {NoBytes}]
  /\ object \in [Digests -> Row \cup {NoRow}]
  /\ lock \in [Digests -> Sweepers \cup {NoOne}]
  /\ upload \in [Runs -> 0..Hold]
  /\ writer \in [Runs -> {"idle", "begun", "sharing", "held", "in", "recorded"}]
  /\ ref \in [Runs -> [status: {"none", "live", "expired", "collected"}, left: 0..Retain]]
  /\ over \in [Runs -> BOOLEAN]
  /\ fetch \in [Fetchers -> [pc: {"idle", "serving", "sent"}, of: OneShot, left: 0..1]
                            \cup {NoFetch}]
  /\ sent \in [OneShot -> Nat]
  /\ lost \in [OneShot -> Nat]
  /\ push \in [Pushes -> [pc: {"idle", "asked", "saved", "done", "dead"},
                          skipped: BOOLEAN,
                          told: {"nothing", "look", "write"}]]
  /\ version \in [Pushes -> {"none", "kept", "deleted"}]
  /\ sweep \in [Sweepers -> [pc: {"idle", "walked", "claimed", "holding", "looked", "gone"},
                             set: SUBSET Digests]]
  /\ deaths \in 0..MaxDeaths
  /\ dropped \subseteq Digests
  /\ washed \subseteq Digests

Init ==
  /\ store = [d \in Digests |-> NoBytes]
  /\ object = [d \in Digests |-> NoRow]
  /\ lock = [d \in Digests |-> NoOne]
  /\ upload = [r \in Runs |-> 0]
  /\ writer = [r \in Runs |-> "idle"]
  /\ ref = [r \in Runs |-> [status |-> "none", left |-> 0]]
  /\ over = [r \in Runs |-> FALSE]
  /\ fetch = [f \in Fetchers |-> NoFetch]
  /\ sent = [r \in OneShot |-> 0]
  /\ lost = [r \in OneShot |-> 0]
  /\ push = [p \in Pushes |-> [pc |-> "idle", skipped |-> FALSE, told |-> "nothing"]]
  /\ version = [p \in Pushes |-> "none"]
  /\ sweep = [s \in Sweepers |-> [pc |-> "idle", set |-> {}]]
  /\ deaths = 0
  /\ dropped = {}
  /\ washed = {}

-----------------------------------------------------------------------------
(* The row of an object. *)

Has(d) == store[d] # NoBytes

\* dir.Put: a rename over whatever was there, which is then written now.
Put(d) == store' = [store EXCEPT ![d] = Grace]

\* raise: the row is made to exist, counted once more and taken off collection.
Raised(row) ==
  [refs |-> (IF row = NoRow THEN 0 ELSE row.refs) + 1, ripe |-> NoOne, claimed |-> FALSE]

\* lower: one fewer, and collectable from now at zero.  A row at zero is left alone.
Lowered(row) ==
  IF row = NoRow THEN row
  ELSE IF row.refs = 0 THEN row
  ELSE [row EXCEPT !.refs = @ - 1, !.ripe = IF row.refs = 1 THEN Grace ELSE NoOne]

\* A row nobody holds for update, which a writer would otherwise wait for.
Unlocked(d) == lock[d] = NoOne

\* A row a statement that skips locked rows may take: the writes being recorded hold it too.
Takeable(d) ==
  /\ Unlocked(d)
  /\ \A r \in Runs : ~(writer[r] = "sharing" /\ FileOf[r] = d)

\* unheld: no write under way and no live artifact naming the object.
Unheld(d) ==
  \A r \in Runs : FileOf[r] = d => upload[r] = 0 /\ ref[r].status # "live"

-----------------------------------------------------------------------------
(* A runner's write of its file, and the decision that hears of it. *)

\* NS.Uploading, in its transaction: the row is held where there is one.
Uploading(r) ==
  /\ writer[r] = "idle" /\ ~over[r]
  /\ Unlocked(FileOf[r])
  /\ writer' = [writer EXCEPT ![r] = IF object[FileOf[r]] = NoRow THEN "begun" ELSE "sharing"]
  /\ UNCHANGED <<store, object, lock, upload, ref, over, fetch, sent, lost, push, version,
                 sweep, deaths, dropped, washed>>

\* It commits: the write is seen from here on.
UploadingCommits(r) ==
  /\ writer[r] \in {"begun", "sharing"}
  /\ writer' = [writer EXCEPT ![r] = "held"]
  /\ upload' = [upload EXCEPT ![r] = Hold]
  /\ UNCHANGED <<store, object, lock, ref, over, fetch, sent, lost, push, version, sweep,
                 deaths, dropped, washed>>

\* Signed.Store: the bytes are in, whether the store held them or not.
Arrive(r) ==
  /\ writer[r] = "held" /\ upload[r] > 0
  /\ Put(FileOf[r])
  /\ writer' = [writer EXCEPT ![r] = "in"]
  /\ UNCHANGED <<object, lock, upload, ref, over, fetch, sent, lost, push, version, sweep,
                 deaths, dropped, washed>>

\* The bytes never arrive whole: settle lets go of the write, and the attempt is over.
NotWritten(r) ==
  /\ writer[r] = "held"
  /\ writer' = [writer EXCEPT ![r] = "idle"]
  /\ upload' = [upload EXCEPT ![r] = 0]
  /\ over' = [over EXCEPT ![r] = TRUE]
  /\ UNCHANGED <<store, object, lock, ref, fetch, sent, lost, push, version, sweep, deaths,
                 dropped, washed>>

\* The decision that hears of the result while the write still holds the object:
\* writeArtifact of a new reference.  What raise answers of the bytes is not looked at.
Record(r) ==
  LET d == FileOf[r] IN
  /\ writer[r] = "in" /\ upload[r] > 0 /\ ~over[r]
  /\ Takeable(d)
  /\ object' = [object EXCEPT ![d] = Raised(@)]
  /\ ref' = [ref EXCEPT ![r] = [status |-> "live", left |-> Retain]]
  /\ writer' = [writer EXCEPT ![r] = "recorded"]
  /\ UNCHANGED <<store, lock, upload, over, fetch, sent, lost, push, version, sweep, deaths,
                 dropped, washed>>

MutRecordAgainRaised(r) ==
  /\ ref[r].status # "none" /\ ~over[r]
  /\ Takeable(FileOf[r])
  /\ object' = [object EXCEPT ![FileOf[r]] = Raised(@)]
  /\ UNCHANGED <<store, lock, upload, writer, ref, over, fetch, sent, lost, push, version,
                 sweep, deaths, dropped, washed>>

\* A later decision of the run writes every reference again: raised, found to be
\* there already, and lowered.
RecordAgain(r) ==
  LET d == FileOf[r] IN
  /\ ref[r].status # "none" /\ ~over[r]
  /\ Takeable(d)
  /\ object' = [object EXCEPT ![d] = Lowered(Raised(@))]
  /\ washed' = IF ref[r].status # "live" /\ ~Has(d)
               THEN washed \cup {d} ELSE washed
  /\ UNCHANGED <<store, lock, upload, writer, ref, over, fetch, sent, lost, push, version,
                 sweep, deaths, dropped>>

\* The run finishes, or is lost with its write never heard of.
Finish(r) ==
  /\ ~over[r] /\ writer[r] \notin {"begun", "sharing", "held"}
  /\ over' = [over EXCEPT ![r] = TRUE]
  /\ UNCHANGED <<store, object, lock, upload, writer, ref, fetch, sent, lost, push, version,
                 sweep, deaths, dropped, washed>>

\* ExpireArtifacts: the reference is retired and the count behind it lowered, unless
\* somebody holds the row.
Expire(r) ==
  /\ ref[r].status = "live" /\ ref[r].left = 0
  /\ Takeable(FileOf[r])
  /\ ref' = [ref EXCEPT ![r].status = "expired"]
  /\ object' = [object EXCEPT ![FileOf[r]] = Lowered(@)]
  /\ UNCHANGED <<store, lock, upload, writer, over, fetch, sent, lost, push, version, sweep,
                 deaths, dropped, washed>>

-----------------------------------------------------------------------------
(* Fetches of a file with a budget of one. *)

\* The transfers whose hold of a fetch of the file stands, whoever serves them alive or not.
Holds(r) == {f \in Fetchers : fetch[f].of = r /\ fetch[f].left > 0}
Serving(r) == {f \in Holds(r) : fetch[f].pc = "serving"}

MutReserveUnheld(f, r) ==
  /\ fetch[f] = NoFetch
  /\ ref[r].status = "live" /\ ref[r].left > 0
  /\ fetch' = [fetch EXCEPT ![f] = [pc |-> "serving", of |-> r, left |-> 1]]
  /\ UNCHANGED <<store, object, lock, upload, writer, ref, over, sent, lost, push, version,
                 sweep, deaths, dropped, washed>>

\* NS.Reserve: one fetch is held for the transfer, of those nobody holds.
Reserve(f, r) ==
  /\ fetch[f] = NoFetch
  /\ ref[r].status = "live" /\ ref[r].left > 0
  /\ Holds(r) = {}
  /\ fetch' = [fetch EXCEPT ![f] = [pc |-> "serving", of |-> r, left |-> 1]]
  /\ UNCHANGED <<store, object, lock, upload, writer, ref, over, sent, lost, push, version,
                 sweep, deaths, dropped, washed>>

\* The bytes have all gone and match their digest.  The writer's deadline ends every
\* transfer before its hold does.
Complete(f) ==
  LET r == fetch[f].of IN
  /\ fetch[f].pc = "serving" /\ fetch[f].left > 0
  /\ fetch' = [fetch EXCEPT ![f].pc = "sent"]
  /\ sent' = [sent EXCEPT ![r] = @ + 1]
  /\ UNCHANGED <<store, object, lock, upload, writer, ref, over, lost, push, version,
                 sweep, deaths, dropped, washed>>

\* NS.Delivered, in the transaction after: the fetch is spent, though its hold may have
\* lapsed by then, and the reference is gone at once.
Delivered(f) ==
  LET r == fetch[f].of IN
  /\ fetch[f].pc = "sent"
  /\ fetch' = [fetch EXCEPT ![f] = NoFetch]
  /\ IF ref[r].status = "live"
     THEN /\ Unlocked(FileOf[r])
          /\ ref' = [ref EXCEPT ![r].status = "collected"]
          /\ object' = [object EXCEPT ![FileOf[r]] = Lowered(@)]
     ELSE UNCHANGED <<ref, object>>
  /\ UNCHANGED <<store, lock, upload, writer, over, sent, lost, push, version, sweep,
                 deaths, dropped, washed>>

\* NS.Release: the transfer did not complete.
Release(f) ==
  /\ fetch[f].pc = "serving"
  /\ fetch' = [fetch EXCEPT ![f] = NoFetch]
  /\ UNCHANGED <<store, object, lock, upload, writer, ref, over, sent, lost, push, version,
                 sweep, deaths, dropped, washed>>

\* A completed transfer is no longer told from one that never was, and its hold will lapse.
Unrecorded(f) == fetch[f].pc = "sent" /\ fetch[f].left > 0

\* What is left of a transfer nobody will settle: its hold, while that stands.
Unserved(t) == IF t.left = 0 THEN NoFetch ELSE [t EXCEPT !.pc = "idle"]

\* The API dies, or the transaction that settles the fetch fails and its error is
\* dropped: the hold stands until it lapses, whether the bytes went or not.
NeverSettled(f) ==
  /\ fetch[f].pc # "idle"
  /\ fetch' = [fetch EXCEPT ![f] = Unserved(@)]
  /\ lost' = IF Unrecorded(f) THEN [lost EXCEPT ![fetch[f].of] = @ + 1] ELSE lost
  /\ UNCHANGED <<store, object, lock, upload, writer, ref, over, sent, push, version,
                 sweep, deaths, dropped, washed>>

-----------------------------------------------------------------------------
(* A push: its file, then its version, then what Save told it. *)

\* storeTree, storeFiles: the file is written unless the store says it holds it.
Ask(p) ==
  LET d == FileOf[p] IN
  /\ push[p].pc = "idle"
  /\ push' = [push EXCEPT ![p].pc = "asked", ![p].skipped = Has(d)]
  /\ IF Has(d) THEN UNCHANGED store ELSE Put(d)
  /\ UNCHANGED <<object, lock, upload, writer, ref, over, fetch, sent, lost, version, sweep,
                 deaths, dropped, washed>>

MutToldClaimed(row) ==
  IF row # NoRow /\ row.claimed THEN {"write"} ELSE {"nothing"}

\* SaveVersions: the version is recorded and raises its file.  A row that was claimed
\* answers that the bytes must be written again; one made here, that they must be
\* looked for, and written again where a collector removed the row under the insert.
Told(row) ==
  IF row = NoRow THEN {"look", "write"} ELSE IF row.claimed THEN {"write"} ELSE {"nothing"}

Save(p) ==
  LET d == FileOf[p] IN
  /\ push[p].pc = "asked"
  /\ Takeable(d)
  /\ version' = [version EXCEPT ![p] = "kept"]
  /\ object' = [object EXCEPT ![d] = Raised(@)]
  /\ \E told \in Told(object[d]) : push' = [push EXCEPT ![p].pc = "saved", ![p].told = told]
  /\ UNCHANGED <<store, lock, upload, writer, ref, over, fetch, sent, lost, sweep, deaths,
                 dropped, washed>>

\* What the push still has to write.
Owes(p) ==
  /\ push[p].pc = "saved"
  /\ \/ push[p].told = "write"
     \/ push[p].told = "look" /\ (push[p].skipped \/ ~Has(FileOf[p]))

Ended(pc) == [pc |-> pc, skipped |-> FALSE, told |-> "nothing"]

\* writeAgain, and the end of the tree push.
WriteAgain(p) ==
  /\ push[p].pc = "saved"
  /\ push' = [push EXCEPT ![p] = Ended("done")]
  /\ IF Owes(p) THEN Put(FileOf[p]) ELSE UNCHANGED store
  /\ UNCHANGED <<object, lock, upload, writer, ref, over, fetch, sent, lost, version, sweep,
                 deaths, dropped, washed>>

\* The API dies, or what it writes after the refs moved fails: nobody takes it up.
PushDies(p) ==
  /\ push[p].pc \in {"asked", "saved"}
  /\ push' = [push EXCEPT ![p] = Ended("dead")]
  /\ dropped' = IF Owes(p) THEN dropped \cup {FileOf[p]} ELSE dropped
  /\ UNCHANGED <<store, object, lock, upload, writer, ref, over, fetch, sent, lost, version,
                 sweep, deaths, washed>>

\* deleteVersions: the workflow was deleted and none of its runs is left.
DeleteVersion(p) ==
  /\ version[p] = "kept"
  /\ Unlocked(FileOf[p])
  /\ version' = [version EXCEPT ![p] = "deleted"]
  /\ object' = [object EXCEPT ![FileOf[p]] = Lowered(@)]
  /\ UNCHANGED <<store, lock, upload, writer, ref, over, fetch, sent, lost, push, sweep,
                 deaths, dropped, washed>>

-----------------------------------------------------------------------------
(* The pass of a sweeper: orphans first, then the collection. *)

At(s, pc) == sweep[s].pc = pc

Goes(s, pc, set) == sweep' = [sweep EXCEPT ![s] = [pc |-> pc, set |-> set]]

\* orphanOf: no row, no live artifact and no write under way.
Orphan(d) == object[d] = NoRow /\ Unheld(d)

\* Purger.orphans, adopt: the walk finds old files that nothing names.
Walk(s) ==
  /\ At(s, "idle")
  /\ LET found == {d \in Digests : store[d] = 0 /\ Orphan(d)} IN
       found # {} /\ Goes(s, "walked", found)
  /\ UNCHANGED <<store, object, lock, upload, writer, ref, over, fetch, sent, lost, push,
                 version, deaths, dropped, washed>>

\* Orphaned: each is asked again, and given a row that counts nothing.
Adopt(s) ==
  /\ At(s, "walked")
  /\ object' = [d \in Digests |->
                  IF d \in sweep[s].set /\ Orphan(d)
                  THEN [refs |-> 0, ripe |-> Grace, claimed |-> FALSE] ELSE object[d]]
  /\ Goes(s, "idle", {})
  /\ UNCHANGED <<store, lock, upload, writer, ref, over, fetch, sent, lost, push, version,
                 deaths, dropped, washed>>

MutRipeOnce(d) ==
  /\ object[d] # NoRow
  /\ object[d].refs = 0 /\ object[d].ripe = 0 /\ ~object[d].claimed
  /\ Unheld(d) /\ Takeable(d)

\* Collectable: rows at zero for the grace, that nothing holds, are claimed.
Ripe(d) ==
  /\ object[d] # NoRow
  /\ object[d].refs = 0 /\ object[d].ripe = 0
  /\ Unheld(d) /\ Takeable(d)

Claim(s) ==
  /\ At(s, "idle")
  /\ LET ripe == {d \in Digests : Ripe(d)} IN
       /\ ripe # {}
       /\ object' = [d \in Digests |->
                       IF d \in ripe THEN [object[d] EXCEPT !.claimed = TRUE] ELSE object[d]]
       /\ Goes(s, "claimed", ripe)
  /\ UNCHANGED <<store, lock, upload, writer, ref, over, fetch, sent, lost, push, version,
                 deaths, dropped, washed>>

\* A row still at zero and claimed.
Doomed(d) == object[d] # NoRow /\ object[d].refs = 0 /\ object[d].claimed

\* Collecting, first statement: the rows are held before anything else is asked.
LockClaimed(s) ==
  /\ At(s, "claimed")
  /\ LET held == {d \in sweep[s].set : Doomed(d) /\ Takeable(d)} IN
       /\ lock' = [d \in Digests |-> IF d \in held THEN s ELSE lock[d]]
       /\ Goes(s, "holding", held)
  /\ UNCHANGED <<store, object, upload, writer, ref, over, fetch, sent, lost, push, version,
                 deaths, dropped, washed>>

MutLookAgainNot(s) ==
  /\ At(s, "holding")
  /\ Goes(s, "looked", sweep[s].set)
  /\ UNCHANGED <<store, object, lock, upload, writer, ref, over, fetch, sent, lost, push,
                 version, deaths, dropped, washed>>

\* Second statement: whether a write or a live artifact holds each.
LookAgain(s) ==
  /\ At(s, "holding")
  /\ Goes(s, "looked", {d \in sweep[s].set : Unheld(d)})
  /\ UNCHANGED <<store, object, lock, upload, writer, ref, over, fetch, sent, lost, push,
                 version, deaths, dropped, washed>>

Unlock(s) == lock' = [d \in Digests |-> IF lock[d] = s THEN NoOne ELSE lock[d]]

Removed(gone) == store' = [d \in Digests |-> IF d \in gone THEN NoBytes ELSE store[d]]

\* The bytes go, but for those the store refuses to delete, and the rows are let go.
Remove(s) ==
  /\ At(s, "looked")
  /\ \E gone \in SUBSET sweep[s].set : Removed(gone) /\ Goes(s, "gone", gone)
  /\ Unlock(s)
  /\ UNCHANGED <<object, upload, writer, ref, over, fetch, sent, lost, push, version, deaths,
                 dropped, washed>>

\* Collected: the rows of what was deleted go, unless somebody counts them again.
Confirm(s) ==
  /\ At(s, "gone")
  /\ object' = [d \in Digests |->
                  IF d \in sweep[s].set /\ Doomed(d) /\ Takeable(d) THEN NoRow ELSE object[d]]
  /\ Goes(s, "idle", {})
  /\ UNCHANGED <<store, lock, upload, writer, ref, over, fetch, sent, lost, push, version,
                 deaths, dropped, washed>>

\* The controller dies, or loses its term: its locks go with its session, and some of the
\* bytes it had begun to delete are gone with no row to say so.
SweeperDies(s) ==
  /\ sweep[s].pc # "idle" /\ deaths < MaxDeaths
  /\ deaths' = deaths + 1
  /\ \E gone \in SUBSET (IF At(s, "looked") THEN sweep[s].set ELSE {}) : Removed(gone)
  /\ Unlock(s)
  /\ Goes(s, "idle", {})
  /\ UNCHANGED <<object, upload, writer, ref, over, fetch, sent, lost, push, version, dropped, washed>>

-----------------------------------------------------------------------------
Down(n) == IF n > 0 THEN n - 1 ELSE 0

\* A hold that lapses with nobody left to settle it is one Reserve drops.
Later(t) ==
  IF t.pc = "idle" THEN NoFetch ELSE [t EXCEPT !.left = Down(@)]

\* Time passes.  No transaction is open across a tick, and no adoption, whose looks and
\* whose insert are one call: a grace is a day.
Tick ==
  /\ \A s \in Sweepers : ~At(s, "walked")
  /\ \A r \in Runs : writer[r] \notin {"begun", "sharing"}
  /\ \A d \in Digests : lock[d] = NoOne
  /\ store' = [d \in Digests |-> IF Has(d) THEN Down(store[d]) ELSE NoBytes]
  /\ object' = [d \in Digests |->
                  IF object[d] = NoRow \/ object[d].ripe = NoOne THEN object[d]
                  ELSE [object[d] EXCEPT !.ripe = Down(@)]]
  /\ upload' = [r \in Runs |-> Down(upload[r])]
  /\ ref' = [r \in Runs |-> [ref[r] EXCEPT !.left = Down(@)]]
  /\ fetch' = [f \in Fetchers |-> Later(fetch[f])]
  /\ lost' = [r \in OneShot |-> IF \E f \in Holds(r) : Unrecorded(f) /\ fetch[f].left = 1
                               THEN lost[r] + 1 ELSE lost[r]]
  /\ UNCHANGED <<lock, writer, over, sent, push, version, sweep, deaths, dropped, washed>>

Sweeps(s) == \/ Walk(s) \/ Adopt(s) \/ Claim(s) \/ LockClaimed(s)
             \/ LookAgain(s) \/ Remove(s) \/ Confirm(s)

Next ==
  \/ Tick
  \/ \E r \in Runs : \/ Uploading(r) \/ UploadingCommits(r) \/ Arrive(r) \/ NotWritten(r)
                     \/ Record(r) \/ RecordAgain(r) \/ Finish(r) \/ Expire(r)
  \/ \E f \in Fetchers : \/ \E r \in OneShot : Reserve(f, r)
                         \/ Complete(f) \/ Delivered(f) \/ Release(f) \/ NeverSettled(f)
  \/ \E p \in Pushes : Ask(p) \/ Save(p) \/ WriteAgain(p) \/ PushDies(p) \/ DeleteVersion(p)
  \/ \E s \in Sweepers : Sweeps(s) \/ SweeperDies(s)

\* The store deletes all it is asked to.
RemoveAll(s) == sweep[s].set # {} /\ Remove(s) /\ sweep'[s].set = sweep[s].set

\* Time passes; a transaction ends; runs end; whoever leads passes the purge again and
\* again, and the store does not refuse one deletion for ever.
Fairness ==
  /\ WF_vars(Tick)
  /\ \A r \in Runs : WF_vars(UploadingCommits(r)) /\ WF_vars(Finish(r)) /\ WF_vars(Expire(r))
  /\ \A s \in Sweepers : WF_vars(Sweeps(s)) /\ SF_vars(RemoveAll(s))

Spec == Init /\ [][Next]_vars /\ Fairness

-----------------------------------------------------------------------------
(* Properties. *)

\* What the rows name: live references and kept versions.
Naming(d) == {r \in Runs : FileOf[r] = d /\ ref[r].status = "live"}
             \cup {p \in Pushes : FileOf[p] = d /\ version[p] = "kept"}

\* The count of an object is how many live references and versions name it, whatever
\* was retired twice, recorded again or collected on the way; no row counts nothing.
CountsAgree ==
  \A d \in Digests :
    Cardinality(Naming(d)) = IF object[d] = NoRow THEN 0 ELSE object[d].refs

\* An object that a row names has its bytes in the store, or a push still owes them:
\* a collector never takes bytes from under a reference.  The two ways the debt is lost
\* are a push that dies before it pays, and a claim taken off by a retired reference.
NamedHaveBytes ==
  \A d \in Digests :
    Naming(d) # {} => \/ Has(d) \/ d \in dropped \/ d \in washed
                      \/ \E p \in Pushes : FileOf[p] = d /\ Owes(p)

\* A result heard within the hold of its write finds its bytes, however late
\* (db/uploads.go).
LateResultFindsBytes ==
  \A r \in Runs : writer[r] = "in" /\ upload[r] > 0 => Has(FileOf[r])

\* A file with a budget of one fetch is delivered once, and never served to one transfer
\* when another has it or has had it, but for the transfers that completed and were not
\* recorded while their hold stood, each of which gives the file one delivery more.
BudgetKept ==
  \A r \in OneShot : sent[r] + Cardinality(Serving(r)) <= 1 + lost[r]

\* In the end the store holds nothing that no row names: no crash, no lost result and
\* no race leaves bytes that no sweep finds.
StoreDrains == <>[](\A d \in Digests : Has(d) => Naming(d) # {})

\* An object referenced again between the claim and the deletion is not lost, because
\* the writer that referenced it was told to write the bytes again (db/purge.go).
ReferencedAgainIsTold ==
  \A d \in Digests :
    Naming(d) # {} => \/ Has(d) \/ d \in dropped
                      \/ \E p \in Pushes : FileOf[p] = d /\ Owes(p)
=============================================================================
