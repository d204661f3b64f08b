---------------------------- MODULE ObjectsProofs ----------------------------
(***************************************************************************)
(* The objects of a namespace, for any number of digests, runs, pushes,    *)
(* transfers, sweepers and deaths.                                         *)
(***************************************************************************)
EXTENDS Objects, FiniteSetTheorems, TLAPS

-----------------------------------------------------------------------------
(* The inductive invariant. *)

\* A reference is there once its write is recorded, a version once its push is saved.
Stages ==
  /\ \A r \in Runs : writer[r] = "recorded" <=> ref[r].status # "none"
  /\ \A p \in Pushes : push[p].pc \in {"idle", "asked"} => version[p] = "none"

\* A collector's claim stands only on a row that counts nothing.
ClaimedAtZero ==
  \A d \in Digests : object[d] # NoRow => (object[d].claimed => object[d].refs = 0)

\* A locked row is at zero and claimed, whoever looks at it holds the lock, and no write
\* is being recorded on it.
LocksStand ==
  /\ \A d \in Digests : lock[d] # NoOne => Doomed(d)
  /\ \A s \in Sweepers : sweep[s].pc \in {"holding", "looked"} =>
       \A d \in sweep[s].set : lock[d] = s
  /\ \A r \in Runs : writer[r] = "sharing" => Unlocked(FileOf[r])

\* No row, or one that nobody may claim before time passes.
Young(d) == object[d] = NoRow \/ (~object[d].claimed /\ object[d].ripe # 0)

\* A transaction that found no row, and a walk that found no row, end before one is claimed.
NothingRipens ==
  /\ \A r \in Runs : writer[r] = "begun" => Young(FileOf[r])
  /\ \A s \in Sweepers : At(s, "walked") => \A d \in sweep[s].set : Young(d) /\ Has(d)

\* What a collector saw held by nothing, under its lock, is still held by nothing.
LookedAtStands ==
  \A s \in Sweepers : At(s, "looked") => \A d \in sweep[s].set : Unheld(d)

\* The bytes are there, or somebody owes them, or the debt was lost.
Paid(d) == \/ Has(d) \/ d \in dropped \/ d \in washed
           \/ \E p \in Pushes : FileOf[p] = d /\ Owes(p)

\* A row that no collector claimed has its bytes, or their debt.
Covered == \A d \in Digests : object[d] # NoRow => (object[d].claimed \/ Paid(d))

\* A step of a transfer that moves no row.
Transfers(f) == \/ \E r \in OneShot : Reserve(f, r)
                \/ Complete(f) \/ Release(f) \/ NeverSettled(f)

\* One transfer at a time holds the one fetch of a file.  None that may still complete
\* holds it once as many completed as the record will make up for, and one more completed
\* only where the reference is retired or the hold of that transfer stands.
OneFetchOf(r) ==
  /\ \A f, g \in Holds(r) : f = g
  /\ sent[r] <= lost[r] + 1
  /\ Serving(r) # {} => sent[r] <= lost[r]
  /\ sent[r] > lost[r] /\ ref[r].status \in {"none", "live"} =>
       \E f \in Holds(r) : fetch[f].pc = "sent"

OneFetch ==
  /\ \A f \in Fetchers : fetch[f] # NoFetch => ref[fetch[f].of].status # "none"
  /\ \A r \in OneShot : OneFetchOf(r)

IInv ==
  /\ TypeOK /\ Stages /\ ClaimedAtZero /\ LocksStand /\ NothingRipens /\ LookedAtStands
  /\ LateResultFindsBytes /\ CountsAgree /\ Covered /\ OneFetch

-----------------------------------------------------------------------------
(* Rows. *)

\* How many a row counts; no row counts nothing.
CountOf(row) == IF row = NoRow THEN 0 ELSE row.refs

LEMMA RaisedRow ==
  ASSUME NEW row \in Row \cup {NoRow}
  PROVE  /\ Raised(row) \in Row /\ Raised(row) # NoRow
         /\ CountOf(Raised(row)) = CountOf(row) + 1
         /\ Raised(row).refs > 0 /\ ~Raised(row).claimed /\ Raised(row).ripe # 0
<1>1. CountOf(row) \in Nat
  BY DEF CountOf, Row
<1>2. Raised(row) = [refs |-> CountOf(row) + 1, ripe |-> NoOne, claimed |-> FALSE]
  BY DEF Raised, CountOf
<1>3. Raised(row) \in Row
  BY <1>1, <1>2 DEF Row
<1>4. NoOne # 0
  BY ObjectsAssumption
<1>5. Raised(row) # NoRow
  BY <1>3, ObjectsAssumption
<1>6. CountOf(Raised(row)) = Raised(row).refs
  BY <1>5 DEF CountOf
<1> QED
  BY <1>1, <1>2, <1>3, <1>4, <1>5, <1>6

LEMMA LoweredRow ==
  ASSUME NEW row \in Row \cup {NoRow}
  PROVE  /\ Lowered(row) \in Row \cup {NoRow}
         /\ Lowered(row) = NoRow <=> row = NoRow
         /\ CountOf(row) > 0 => CountOf(Lowered(row)) = CountOf(row) - 1
         /\ CountOf(row) = 0 => CountOf(Lowered(row)) = 0
         /\ row # NoRow => (Lowered(row).claimed <=> row.claimed)
         /\ row # NoRow /\ row.ripe # 0 => Lowered(row).ripe # 0
<1>1. CASE row = NoRow
  BY <1>1 DEF Lowered, CountOf
<1>2. CASE row # NoRow /\ row.refs = 0
  BY <1>2 DEF Lowered, CountOf, Row
<1>3. CASE row # NoRow /\ row.refs # 0
  <2>1. row \in Row /\ row.refs \in Nat /\ row.refs # 0
    BY <1>3 DEF Row
  <2> DEFINE ripe == IF row.refs = 1 THEN Grace ELSE NoOne
  <2>2. ripe \in (0..Grace) \cup {NoOne} /\ ripe # 0
    BY ObjectsAssumption
  <2>3. Lowered(row) = [row EXCEPT !.refs = @ - 1, !.ripe = ripe]
    BY <1>3 DEF Lowered
  <2>. HIDE DEF ripe
  <2>4. Lowered(row) \in Row
    <3>1. row.refs - 1 \in Nat
      BY <2>1
    <3> QED
      BY <2>1, <2>2, <2>3, <3>1 DEF Row
  <2>5. /\ Lowered(row).refs = row.refs - 1 /\ Lowered(row).ripe # 0
        /\ Lowered(row).claimed <=> row.claimed
    BY <2>1, <2>2, <2>3 DEF Row
  <2>6. Lowered(row) # NoRow
    BY <2>4, ObjectsAssumption
  <2> QED
    BY <1>3, <2>1, <2>4, <2>5, <2>6 DEF CountOf
<1> QED
  BY <1>1, <1>2, <1>3

\* A reference recorded again: raised and lowered, the row counts what it counted.
LEMMA RecordedAgainRow ==
  ASSUME NEW row \in Row \cup {NoRow}
  PROVE  LET new == Lowered(Raised(row)) IN
         /\ new \in Row /\ new # NoRow
         /\ CountOf(new) = CountOf(row)
         /\ ~new.claimed /\ new.ripe # 0
<1> DEFINE up == Raised(row)
<1>1. /\ up \in Row \cup {NoRow} /\ up # NoRow /\ CountOf(up) = CountOf(row) + 1
      /\ ~up.claimed /\ up.ripe # 0
  BY RaisedRow
<1>2. CountOf(row) \in Nat
  BY DEF CountOf, Row
<1> HIDE DEF up
<1>3. /\ Lowered(up) \in Row \cup {NoRow}
      /\ Lowered(up) = NoRow <=> up = NoRow
      /\ CountOf(up) > 0 => CountOf(Lowered(up)) = CountOf(up) - 1
      /\ up # NoRow => (Lowered(up).claimed <=> up.claimed)
      /\ up # NoRow /\ up.ripe # 0 => Lowered(up).ripe # 0
  BY <1>1, LoweredRow
<1>4. /\ Lowered(up) \in Row /\ Lowered(up) # NoRow
      /\ CountOf(Lowered(up)) = CountOf(row)
      /\ ~Lowered(up).claimed /\ Lowered(up).ripe # 0
  BY <1>1, <1>2, <1>3
<1> QED
  BY <1>4 DEF up

\* A row claimed, or nearer to ripe, counts what it counted.
LEMMA ClaimedRow ==
  ASSUME NEW row \in Row
  PROVE  LET new == [row EXCEPT !.claimed = TRUE] IN
         new \in Row /\ new.refs = row.refs /\ new.claimed /\ new.ripe = row.ripe
  BY DEF Row

LEMMA RipenedRow ==
  ASSUME NEW row \in Row, NEW n \in 0..Grace
  PROVE  LET new == [row EXCEPT !.ripe = n] IN
         new \in Row /\ new.refs = row.refs /\ (new.claimed <=> row.claimed)
  BY DEF Row

\* What is left of a span is within it.
LEMMA DownIsWithin ==
  ASSUME NEW b \in Nat, NEW n \in 0..b
  PROVE  Down(n) \in 0..b /\ (Down(n) > 0 => n > 0)
  BY DEF Down

\* A transfer moves no row and no bytes but where it is recorded.
LEMMA TransferFrame ==
  ASSUME NEW f \in Fetchers, Transfers(f)
  PROVE  UNCHANGED <<store, object, lock, upload, writer, ref, over, push, version, sweep,
                     deaths, dropped, washed>>
  BY DEF Transfers, Reserve, Complete, Release, NeverSettled

-----------------------------------------------------------------------------
(* Types. *)

\* What a transfer may be.
Transfer == [pc: {"idle", "serving", "sent"}, of: OneShot, left: 0..1] \cup {NoFetch}

\* A transfer that is not over is of a file, which it holds or held.
LEMMA TransferIsOf ==
  ASSUME TypeOK, NEW f \in Fetchers
  PROVE  /\ fetch[f] \in Transfer
         /\ fetch[f] # NoFetch =>
              fetch[f] \in [pc: {"idle", "serving", "sent"}, of: OneShot, left: 0..1]
         /\ fetch[f].pc # "idle" => fetch[f] # NoFetch
         /\ fetch[f].left > 0 => fetch[f] # NoFetch
<1>1. fetch[f] \in Transfer
  BY DEF TypeOK, Transfer
<1>2. NoFetch.pc = "idle" /\ NoFetch.left = 0
  BY DEF NoFetch
<1> QED
  BY <1>1, <1>2 DEF Transfer

LEMMA TypeOKStep ==
  ASSUME TypeOK, [Next]_vars
  PROVE  TypeOK'
<1>0. /\ {Grace, Hold, Retain} \subseteq Nat \ {0}
      /\ \A w \in Runs \cup Pushes : FileOf[w] \in Digests
      /\ OneShot \subseteq Runs
      /\ MaxDeaths \in Nat
  BY ObjectsAssumption
<1>1. CASE UNCHANGED vars
  BY <1>1 DEF vars, TypeOK
<1>2. CASE Tick
  <2>1. store' \in [Digests -> (0..Grace) \cup {NoBytes}]
    BY <1>0, <1>2, DownIsWithin DEF TypeOK, Tick, Has
  <2>2. object' \in [Digests -> Row \cup {NoRow}]
    <3> SUFFICES ASSUME NEW d \in Digests PROVE object'[d] \in Row \cup {NoRow}
      BY <1>2 DEF TypeOK, Tick
    <3> DEFINE row == object[d]
    <3>1. CASE row = NoRow \/ row.ripe = NoOne
      BY <1>2, <3>1 DEF TypeOK, Tick
    <3>2. CASE row # NoRow /\ row.ripe # NoOne
      <4>1. object'[d] = [row EXCEPT !.ripe = Down(row.ripe)]
        BY <1>2, <3>2 DEF Tick
      <4>2. row \in Row /\ row.ripe \in 0..Grace
        BY <3>2 DEF TypeOK, Row
      <4>3. Down(row.ripe) \in 0..Grace
        BY <1>0, <4>2, DownIsWithin
      <4> QED
        BY <4>1, <4>2, <4>3 DEF Row
    <3> QED
      BY <3>1, <3>2
  <2>3. upload' \in [Runs -> 0..Hold]
    BY <1>0, <1>2, DownIsWithin DEF TypeOK, Tick
  <2>4. ref' \in [Runs -> [status: {"none", "live", "expired", "collected"}, left: 0..Retain]]
    <3>1. \A r \in Runs : Down(ref[r].left) \in 0..Retain
      BY <1>0, DownIsWithin DEF TypeOK
    <3>2. ASSUME NEW r \in Runs
          PROVE  [ref[r] EXCEPT !.left = Down(@)]
                   \in [status: {"none", "live", "expired", "collected"}, left: 0..Retain]
      BY <3>1 DEF TypeOK
    <3> QED
      BY <1>2, <3>2 DEF Tick
  <2>5. fetch' \in [Fetchers -> Transfer]
    <3> SUFFICES ASSUME NEW f \in Fetchers PROVE Later(fetch[f]) \in Transfer
      BY <1>2 DEF Tick
    <3>1. CASE fetch[f] = NoFetch
      BY <3>1 DEF Later, NoFetch, Transfer
    <3>2. CASE fetch[f] # NoFetch
      <4>1. fetch[f] \in [pc: {"idle", "serving", "sent"}, of: OneShot, left: 0..1]
        BY <3>2, TransferIsOf
      <4>2. Down(fetch[f].left) \in 0..1
        BY <4>1, DownIsWithin
      <4> QED
        BY <4>1, <4>2 DEF Later, Transfer
    <3> QED
      BY <3>1, <3>2
  <2>6. lost' \in [OneShot -> Nat]
    BY <1>2 DEF Tick, TypeOK
  <2> QED
    BY <1>2, <2>1, <2>2, <2>3, <2>4, <2>5, <2>6 DEF TypeOK, Transfer, Tick
<1>3. ASSUME NEW r \in Runs, Uploading(r) \/ UploadingCommits(r) \/ Arrive(r) \/ NotWritten(r) \/ Finish(r)
      PROVE  TypeOK'
  <2>1. CASE Uploading(r)
    BY <2>1 DEF TypeOK, Uploading
  <2>2. CASE UploadingCommits(r)
    BY <1>0, <2>2 DEF TypeOK, UploadingCommits
  <2>3. CASE Arrive(r)
    BY <1>0, <2>3 DEF TypeOK, Arrive, Put
  <2>4. CASE NotWritten(r)
    BY <1>0, <2>4 DEF TypeOK, NotWritten
  <2>5. CASE Finish(r)
    BY <2>5 DEF TypeOK, Finish
  <2> QED
    BY <1>3, <2>1, <2>2, <2>3, <2>4, <2>5
<1>4. ASSUME NEW r \in Runs, Record(r) \/ RecordAgain(r) \/ Expire(r)
      PROVE  TypeOK'
  <2>0. FileOf[r] \in Digests /\ object[FileOf[r]] \in Row \cup {NoRow}
    BY <1>0 DEF TypeOK
  <2>1. CASE Record(r)
    BY <1>0, <2>0, <2>1, RaisedRow DEF TypeOK, Record
  <2>2. CASE RecordAgain(r)
    BY <1>0, <2>0, <2>2, RecordedAgainRow DEF TypeOK, RecordAgain
  <2>3. CASE Expire(r)
    BY <1>0, <2>0, <2>3, LoweredRow DEF TypeOK, Expire
  <2> QED
    BY <1>4, <2>1, <2>2, <2>3
<1>5. ASSUME NEW f \in Fetchers, Transfers(f) \/ Delivered(f)
      PROVE  TypeOK'
  <2>0. /\ fetch \in [Fetchers -> Transfer] /\ fetch[f] \in Transfer /\ NoFetch \in Transfer
        /\ fetch[f].pc # "idle" =>
             fetch[f] \in [pc: {"idle", "serving", "sent"}, of: OneShot, left: 0..1]
    BY TransferIsOf DEF TypeOK, Transfer
  <2>1. CASE \E r \in OneShot : Reserve(f, r)
    <3>1. PICK r \in OneShot : fetch' = [fetch EXCEPT ![f] = [pc |-> "serving", of |-> r, left |-> 1]]
      BY <2>1 DEF Reserve
    <3>2. [pc |-> "serving", of |-> r, left |-> 1] \in Transfer
      BY DEF Transfer
    <3>3. fetch' \in [Fetchers -> Transfer] /\ sent' = sent /\ lost' = lost
      BY <2>0, <2>1, <3>1, <3>2 DEF Reserve
    <3> QED
      BY <2>1, <3>3, TransferFrame DEF Transfers, TypeOK, Transfer
  <2>2. CASE Release(f)
    <3>1. fetch' \in [Fetchers -> Transfer] /\ sent' = sent /\ lost' = lost
      BY <2>0, <2>2 DEF Release
    <3> QED
      BY <2>2, <3>1, TransferFrame DEF Transfers, TypeOK, Transfer
  <2>4. CASE Complete(f)
    <3>1. fetch[f].of \in OneShot /\ [fetch[f] EXCEPT !.pc = "sent"] \in Transfer
      BY <2>0, <2>4 DEF Complete, Transfer
    <3>2. fetch' = [fetch EXCEPT ![f] = [fetch[f] EXCEPT !.pc = "sent"]]
      BY <2>0, <2>4 DEF Complete
    <3>3. fetch' \in [Fetchers -> Transfer] /\ sent' \in [OneShot -> Nat] /\ lost' = lost
      BY <2>0, <2>4, <3>1, <3>2 DEF Complete, TypeOK
    <3> QED
      BY <2>4, <3>3, TransferFrame DEF Transfers, TypeOK, Transfer
  <2>5. CASE NeverSettled(f)
    <3>1. fetch[f].of \in OneShot /\ Unserved(fetch[f]) \in Transfer
      BY <2>0, <2>5 DEF NeverSettled, Unserved, Transfer
    <3>2. fetch' \in [Fetchers -> Transfer] /\ lost' \in [OneShot -> Nat] /\ sent' = sent
      BY <2>0, <2>5, <3>1 DEF NeverSettled, TypeOK
    <3> QED
      BY <2>5, <3>2, TransferFrame DEF Transfers, TypeOK, Transfer
  <2>3. CASE Delivered(f)
    <3> DEFINE r == fetch[f].of  d == FileOf[r]
    <3>1. r \in OneShot /\ r \in Runs /\ d \in Digests /\ object[d] \in Row \cup {NoRow}
      BY <1>0, <2>0, <2>3 DEF TypeOK, Delivered
    <3>2. /\ fetch' = [fetch EXCEPT ![f] = NoFetch]
          /\ \/ UNCHANGED <<ref, object>>
             \/ /\ ref' = [ref EXCEPT ![r].status = "collected"]
                /\ object' = [object EXCEPT ![d] = Lowered(@)]
          /\ UNCHANGED <<store, lock, upload, writer, over, sent, lost, push, version, sweep,
                         deaths, dropped, washed>>
      BY <2>3 DEF Delivered
    <3> HIDE DEF r, d
    <3>3. object' \in [Digests -> Row \cup {NoRow}]
      <4>1. Lowered(object[d]) \in Row \cup {NoRow}
        BY <3>1, LoweredRow
      <4>2. object' = object \/ object' = [object EXCEPT ![d] = Lowered(object[d])]
        BY <3>2
      <4> QED
        BY <4>1, <4>2 DEF TypeOK
    <3>4. ref' \in [Runs -> [status: {"none", "live", "expired", "collected"}, left: 0..Retain]]
      <4>1. ref' = ref \/ ref' = [ref EXCEPT ![r].status = "collected"]
        BY <3>2
      <4> QED
        BY <3>1, <4>1, SMTT(30) DEF TypeOK
    <3>5. fetch' \in [Fetchers -> Transfer]
      BY <2>0, <3>2
    <3> QED
      BY <3>2, <3>3, <3>4, <3>5 DEF TypeOK, Transfer
  <2> QED
    BY <1>5, <2>1, <2>2, <2>3, <2>4, <2>5 DEF Transfers
<1>6. ASSUME NEW p \in Pushes, Ask(p) \/ Save(p) \/ WriteAgain(p) \/ PushDies(p) \/ DeleteVersion(p)
      PROVE  TypeOK'
  <2>0. FileOf[p] \in Digests /\ object[FileOf[p]] \in Row \cup {NoRow}
    BY <1>0 DEF TypeOK
  <2>1. CASE Ask(p)
    <3>1. Has(FileOf[p]) \in BOOLEAN
      BY DEF Has
    <3>2. push' \in [Pushes -> [pc: {"idle", "asked", "saved", "done", "dead"},
                               skipped: BOOLEAN,
                               told: {"nothing", "look", "write"}]]
      <4>1. push[p] \in [pc: {"idle", "asked", "saved", "done", "dead"},
                         skipped: BOOLEAN, told: {"nothing", "look", "write"}]
        BY DEF TypeOK
      <4>2. [push[p] EXCEPT !.pc = "asked", !.skipped = Has(FileOf[p])]
              \in [pc: {"idle", "asked", "saved", "done", "dead"},
                  skipped: BOOLEAN, told: {"nothing", "look", "write"}]
        BY <3>1, <4>1
      <4>3. push' = [push EXCEPT ![p] = [push[p] EXCEPT !.pc = "asked", !.skipped = Has(FileOf[p])]]
        BY <2>1 DEF TypeOK, Ask
      <4> QED
        BY <4>2, <4>3 DEF TypeOK
    <3>3. store' \in [Digests -> (0..Grace) \cup {NoBytes}]
      BY <1>0, <2>0, <2>1, SMTT(30) DEF TypeOK, Ask, Put
    <3> QED
      BY <2>1, <3>2, <3>3 DEF TypeOK, Ask
  <2>2. CASE Save(p)
    <3>1. PICK told \in {"nothing", "look", "write"} :
            push' = [push EXCEPT ![p].pc = "saved", ![p].told = told]
      BY <2>2 DEF Save, Told
    <3>2. push' \in [Pushes -> [pc: {"idle", "asked", "saved", "done", "dead"},
                               skipped: BOOLEAN,
                               told: {"nothing", "look", "write"}]]
      <4>1. push[p] \in [pc: {"idle", "asked", "saved", "done", "dead"},
                         skipped: BOOLEAN, told: {"nothing", "look", "write"}]
        BY DEF TypeOK
      <4>2. [push[p] EXCEPT !.pc = "saved", !.told = told]
              \in [pc: {"idle", "asked", "saved", "done", "dead"},
                  skipped: BOOLEAN, told: {"nothing", "look", "write"}]
        BY <4>1
      <4>3. push' = [push EXCEPT ![p] = [push[p] EXCEPT !.pc = "saved", !.told = told]]
        BY <3>1 DEF TypeOK
      <4> QED
        BY <4>2, <4>3 DEF TypeOK
    <3>3. object' \in [Digests -> Row \cup {NoRow}]
      BY <2>0, <2>2, RaisedRow DEF TypeOK, Save
    <3> QED
      BY <2>2, <3>2, <3>3 DEF TypeOK, Save
  <2>3. CASE WriteAgain(p)
    BY <1>0, <2>0, <2>3, SMTT(30) DEF TypeOK, WriteAgain, Put, Ended
  <2>4. CASE PushDies(p)
    BY <2>0, <2>4 DEF TypeOK, PushDies, Ended
  <2>5. CASE DeleteVersion(p)
    BY <2>0, <2>5, LoweredRow DEF TypeOK, DeleteVersion
  <2> QED
    BY <1>6, <2>1, <2>2, <2>3, <2>4, <2>5
<1>7. ASSUME NEW s \in Sweepers, Sweeps(s) \/ SweeperDies(s)
      PROVE  TypeOK'
  <2>1. CASE Walk(s)
    BY <2>1 DEF TypeOK, Walk, Goes
  <2>2. CASE Adopt(s)
    <3>1. [refs |-> 0, ripe |-> Grace, claimed |-> FALSE] \in Row
      BY <1>0 DEF Row
    <3> QED
      BY <2>2, <3>1 DEF TypeOK, Adopt, Goes
  <2>3. CASE Claim(s)
    <3>1. ASSUME NEW d \in Digests, Ripe(d)
          PROVE  [object[d] EXCEPT !.claimed = TRUE] \in Row
      <4>1. object[d] \in Row
        BY <3>1 DEF TypeOK, Ripe
      <4> QED
        BY <4>1, ClaimedRow
    <3>2. object' \in [Digests -> Row \cup {NoRow}]
      BY <2>3, <3>1 DEF TypeOK, Claim
    <3> QED
      BY <2>3, <3>2 DEF TypeOK, Claim, Goes
  <2>4. CASE LockClaimed(s)
    BY <2>4 DEF TypeOK, LockClaimed, Goes
  <2>5. CASE LookAgain(s)
    BY <2>5 DEF TypeOK, LookAgain, Goes
  <2>6. CASE Remove(s)
    BY <2>6 DEF TypeOK, Remove, Goes, Removed, Unlock
  <2>7. CASE Confirm(s)
    BY <2>7 DEF TypeOK, Confirm, Goes
  <2>8. CASE SweeperDies(s)
    BY <1>0, <2>8 DEF TypeOK, SweeperDies, Goes, Removed, Unlock
  <2> QED
    BY <1>7, <2>1, <2>2, <2>3, <2>4, <2>5, <2>6, <2>7, <2>8 DEF Sweeps
<1> QED
  BY <1>1, <1>2, <1>3, <1>4, <1>5, <1>6, <1>7 DEF Next, Transfers

-----------------------------------------------------------------------------
(* What a step leaves alone. *)

\* Transfers, what they sent and references move in few steps.
LEMMA FetchFrame ==
  ASSUME [Next]_vars
  PROVE  \/ UNCHANGED <<fetch, sent, lost, ref>>
         \/ Tick
         \/ \E r \in Runs : Record(r) \/ Expire(r)
         \/ \E f \in Fetchers : Transfers(f) \/ Delivered(f)
<1>1. CASE UNCHANGED vars
  BY <1>1 DEF vars
<1>2. ASSUME NEW r \in Runs,
             Uploading(r) \/ UploadingCommits(r) \/ Arrive(r) \/ NotWritten(r) \/ RecordAgain(r) \/ Finish(r)
      PROVE  UNCHANGED <<fetch, sent, lost, ref>>
  BY <1>2 DEF Uploading, UploadingCommits, Arrive, NotWritten, RecordAgain, Finish
<1>3. ASSUME NEW p \in Pushes, Ask(p) \/ Save(p) \/ WriteAgain(p) \/ PushDies(p) \/ DeleteVersion(p)
      PROVE  UNCHANGED <<fetch, sent, lost, ref>>
  BY <1>3 DEF Ask, Save, WriteAgain, PushDies, DeleteVersion
<1>4. ASSUME NEW s \in Sweepers, Sweeps(s) \/ SweeperDies(s)
      PROVE  UNCHANGED <<fetch, sent, lost, ref>>
  BY <1>4 DEF Sweeps, Walk, Adopt, Claim, LockClaimed, LookAgain, Remove, Confirm, SweeperDies
<1> QED
  BY <1>1, <1>2, <1>3, <1>4 DEF Next, Transfers

-----------------------------------------------------------------------------
(* Fetches with a budget. *)

LEMMA StagesStep ==
  ASSUME TypeOK, Stages, [Next]_vars
  PROVE  Stages'
<1>1. \A r \in Runs : writer'[r] = "recorded" <=> ref'[r].status # "none"
  <2> SUFFICES ASSUME NEW x \in Runs
               PROVE  writer'[x] = "recorded" <=> ref'[x].status # "none"
      OBVIOUS
  <2>0. writer[x] = "recorded" <=> ref[x].status # "none"
    BY DEF Stages
  <2>1. CASE UNCHANGED <<writer, ref>>
    BY <2>0, <2>1
  <2>2. CASE Tick
    BY <2>0, <2>2 DEF Tick, TypeOK
  <2>3. ASSUME NEW r \in Runs, Uploading(r) \/ UploadingCommits(r) \/ Arrive(r) \/ NotWritten(r)
        PROVE  writer'[x] = "recorded" <=> ref'[x].status # "none"
    BY <2>0, <2>3 DEF Uploading, UploadingCommits, Arrive, NotWritten, TypeOK
  <2>4. ASSUME NEW r \in Runs, Record(r)
        PROVE  writer'[x] = "recorded" <=> ref'[x].status # "none"
    BY <2>0, <2>4 DEF Record, TypeOK
  <2>5. ASSUME NEW r \in Runs, Expire(r)
        PROVE  writer'[x] = "recorded" <=> ref'[x].status # "none"
    BY <2>0, <2>5 DEF Expire, TypeOK
  <2>6. ASSUME NEW f \in Fetchers, Delivered(f)
        PROVE  writer'[x] = "recorded" <=> ref'[x].status # "none"
    <3>1. writer' = writer
      BY <2>6 DEF Delivered
    <3>2. PICK r : ref' = ref \/ (ref[r].status = "live" /\ ref' = [ref EXCEPT ![r].status = "collected"])
      BY <2>6 DEF Delivered
    <3>3. ref'[x].status # "none" <=> ref[x].status # "none"
      BY <3>2 DEF TypeOK
    <3> QED
      BY <2>0, <3>1, <3>3
  <2>7. \/ UNCHANGED <<writer, ref>> \/ Tick
        \/ \E r \in Runs : \/ Uploading(r) \/ UploadingCommits(r) \/ Arrive(r) \/ NotWritten(r)
                           \/ Record(r) \/ Expire(r)
        \/ \E f \in Fetchers : Delivered(f)
    <3>1. ASSUME NEW r \in Runs, RecordAgain(r) \/ Finish(r) PROVE UNCHANGED <<writer, ref>>
      BY <3>1 DEF RecordAgain, Finish
    <3>2. ASSUME NEW f \in Fetchers, Transfers(f)
          PROVE  UNCHANGED <<writer, ref>>
      BY <3>2, TransferFrame
    <3>3. ASSUME NEW p \in Pushes, Ask(p) \/ Save(p) \/ WriteAgain(p) \/ PushDies(p) \/ DeleteVersion(p)
          PROVE  UNCHANGED <<writer, ref>>
      BY <3>3 DEF Ask, Save, WriteAgain, PushDies, DeleteVersion
    <3>4. ASSUME NEW s \in Sweepers, Sweeps(s) \/ SweeperDies(s)
          PROVE  UNCHANGED <<writer, ref>>
      BY <3>4 DEF Sweeps, Walk, Adopt, Claim, LockClaimed, LookAgain, Remove, Confirm, SweeperDies
    <3> QED
      BY <3>1, <3>2, <3>3, <3>4 DEF Next, Transfers, vars
  <2> QED
    BY <2>1, <2>2, <2>3, <2>4, <2>5, <2>6, <2>7
<1>2. \A p \in Pushes : push'[p].pc \in {"idle", "asked"} => version'[p] = "none"
  <2> SUFFICES ASSUME NEW x \in Pushes, push'[x].pc \in {"idle", "asked"}
               PROVE  version'[x] = "none"
      OBVIOUS
  <2>0. push[x].pc \in {"idle", "asked"} => version[x] = "none"
    BY DEF Stages
  <2>1. CASE UNCHANGED <<push, version>>
    BY <2>0, <2>1
  <2>2. ASSUME NEW p \in Pushes, Ask(p) PROVE version'[x] = "none"
    BY <2>0, <2>2 DEF Ask, TypeOK
  <2>3. ASSUME NEW p \in Pushes, Save(p) PROVE version'[x] = "none"
    <3>1. push[p].pc = "asked" /\ version' = [version EXCEPT ![p] = "kept"]
      BY <2>3 DEF Save
    <3>2. PICK told : push' = [push EXCEPT ![p].pc = "saved", ![p].told = told]
      BY <2>3 DEF Save
    <3>3. push'[p].pc = "saved" /\ \A q \in Pushes : q # p => push'[q] = push[q]
      BY <3>2 DEF TypeOK
    <3>4. x # p
      BY <3>3
    <3> QED
      BY <2>0, <3>1, <3>3, <3>4 DEF TypeOK
  <2>4. ASSUME NEW p \in Pushes, WriteAgain(p) \/ PushDies(p) PROVE version'[x] = "none"
    BY <2>0, <2>4 DEF WriteAgain, PushDies, Ended, TypeOK
  <2>5. ASSUME NEW p \in Pushes, DeleteVersion(p) PROVE version'[x] = "none"
    BY <2>0, <2>5 DEF DeleteVersion, TypeOK
  <2>6. UNCHANGED <<push, version>> \/ \E p \in Pushes : Ask(p) \/ Save(p) \/ WriteAgain(p) \/ PushDies(p) \/ DeleteVersion(p)
    <3>1. ASSUME Tick PROVE UNCHANGED <<push, version>>
      BY <3>1 DEF Tick
    <3>2. ASSUME NEW r \in Runs, \/ Uploading(r) \/ UploadingCommits(r) \/ Arrive(r) \/ NotWritten(r)
                                 \/ Record(r) \/ RecordAgain(r) \/ Finish(r) \/ Expire(r)
          PROVE  UNCHANGED <<push, version>>
      BY <3>2 DEF Uploading, UploadingCommits, Arrive, NotWritten, Record, RecordAgain, Finish, Expire
    <3>3. ASSUME NEW f \in Fetchers, Transfers(f) \/ Delivered(f)
          PROVE  UNCHANGED <<push, version>>
      BY <3>3, TransferFrame DEF Delivered
    <3>4. ASSUME NEW s \in Sweepers, Sweeps(s) \/ SweeperDies(s)
          PROVE  UNCHANGED <<push, version>>
      BY <3>4 DEF Sweeps, Walk, Adopt, Claim, LockClaimed, LookAgain, Remove, Confirm, SweeperDies
    <3> QED
      BY <3>1, <3>2, <3>3, <3>4 DEF Next, Transfers, vars
  <2> QED
    BY <2>1, <2>2, <2>3, <2>4, <2>5, <2>6
<1> QED
  BY <1>1, <1>2 DEF Stages

\* What one transfer does leaves the fetches of every other file as they were.
LEMMA OtherFiles ==
  ASSUME NEW f \in Fetchers, NEW r \in OneShot, OneFetchOf(r),
         f \notin Holds(r), f \notin Holds(r)',
         \A g \in Fetchers : g # f => fetch'[g] = fetch[g],
         sent'[r] = sent[r], lost'[r] = lost[r],
         ref'[r].status = ref[r].status \/ ref'[r].status \notin {"none", "live"}
  PROVE  OneFetchOf(r)'
<1>1. Holds(r)' = Holds(r) /\ \A g \in Holds(r) : fetch'[g] = fetch[g]
  BY DEF Holds
<1>2. Serving(r)' = Serving(r)
  BY <1>1 DEF Serving
<1> QED
  BY <1>1, <1>2 DEF OneFetchOf

LEMMA OneFetchStep ==
  ASSUME TypeOK, Stages, OneFetch, [Next]_vars
  PROVE  OneFetch'
<1>0. OneShot \subseteq Runs /\ NoOne \notin OneShot
  BY ObjectsAssumption
<1>a. \A r \in OneShot : sent[r] \in Nat /\ lost[r] \in Nat
  BY DEF TypeOK
<1>1. CASE UNCHANGED <<fetch, sent, lost, ref>>
  BY <1>1 DEF OneFetch, OneFetchOf, Holds, Serving
<1>2. CASE Tick
  <2>1. sent' = sent /\ \A r \in Runs : ref'[r].status = ref[r].status
    BY <1>2 DEF Tick, TypeOK
  <2>2. \A f \in Fetchers : /\ fetch'[f] # NoFetch => fetch[f] # NoFetch /\ fetch'[f].of = fetch[f].of
                            /\ fetch'[f].left = 0
    <3> SUFFICES ASSUME NEW f \in Fetchers
                 PROVE  /\ fetch'[f] # NoFetch => fetch[f] # NoFetch /\ fetch'[f].of = fetch[f].of
                        /\ fetch'[f].left = 0
        OBVIOUS
    <3>1. fetch'[f] = Later(fetch[f])
      BY <1>2 DEF Tick
    <3>2. CASE fetch[f].pc = "idle"
      BY <3>1, <3>2 DEF Later, NoFetch
    <3>3. CASE fetch[f].pc # "idle"
      <4>1. /\ fetch[f] \in [pc: {"idle", "serving", "sent"}, of: OneShot, left: 0..1]
            /\ fetch[f] # NoFetch
        BY <3>3, TransferIsOf
      <4>2. fetch'[f] = [fetch[f] EXCEPT !.left = Down(fetch[f].left)]
        BY <3>1, <3>3 DEF Later
      <4>3. Down(fetch[f].left) = 0
        BY <4>1 DEF Down
      <4> QED
        BY <4>1, <4>2, <4>3
    <3> QED
      BY <3>2, <3>3
  <2>3. \A f \in Fetchers : fetch'[f] # NoFetch => ref'[fetch'[f].of].status # "none"
    <3> SUFFICES ASSUME NEW f \in Fetchers, fetch'[f] # NoFetch
                 PROVE  ref'[fetch'[f].of].status # "none"
        OBVIOUS
    <3>1. fetch[f] # NoFetch /\ fetch'[f].of = fetch[f].of
      BY <2>2
    <3>2. fetch[f].of \in Runs /\ ref[fetch[f].of].status # "none"
      BY <1>0, <3>1, TransferIsOf DEF OneFetch
    <3> QED
      BY <2>1, <3>1, <3>2
  <2>4. ASSUME NEW r \in OneShot PROVE OneFetchOf(r)'
    <3>1. Holds(r)' = {} /\ Serving(r)' = {}
      BY <2>2 DEF Holds, Serving
    <3>2. lost'[r] \in {lost[r], lost[r] + 1}
      BY <1>2 DEF Tick
    <3>3. sent[r] > lost[r] /\ ref[r].status \in {"none", "live"} => lost'[r] = lost[r] + 1
      <4> SUFFICES ASSUME sent[r] > lost[r], ref[r].status \in {"none", "live"}
                   PROVE  lost'[r] = lost[r] + 1
          OBVIOUS
      <4>1. PICK f \in Holds(r) : fetch[f].pc = "sent"
        BY DEF OneFetch, OneFetchOf
      <4>2. f \in Fetchers /\ fetch[f].left > 0
        BY DEF Holds
      <4>3. fetch[f].left \in 0..1
        BY <4>2, TransferIsOf
      <4>4. Unrecorded(f) /\ fetch[f].left = 1
        BY <4>1, <4>2, <4>3 DEF Unrecorded
      <4> QED
        BY <1>2, <4>4 DEF Tick
    <3>4. sent[r] <= lost[r] + 1
      BY DEF OneFetch, OneFetchOf
    <3>5. sent'[r] <= lost'[r] + 1
      BY <1>a, <2>1, <3>2, <3>4
    <3>6. ~(sent'[r] > lost'[r] /\ ref'[r].status \in {"none", "live"})
      BY <1>0, <1>a, <2>1, <3>2, <3>3, <3>4
    <3> QED
      BY <3>1, <3>5, <3>6 DEF OneFetchOf
  <2> QED
    BY <2>3, <2>4 DEF OneFetch
<1>3. ASSUME NEW x \in Runs, Record(x) \/ Expire(x)
      PROVE  OneFetch'
  <2>1. UNCHANGED <<fetch, sent, lost>>
    BY <1>3 DEF Record, Expire
  <2>2. \A r \in Runs : ref'[r].status = ref[r].status
                        \/ (ref[r].status = "none" /\ ref'[r].status = "live")
                        \/ ref'[r].status = "expired"
    <3>1. CASE Record(x)
      <4>1. ref[x].status = "none" /\ writer[x] = "in"
        BY <3>1 DEF Record, Stages
      <4>2. ref' = [ref EXCEPT ![x] = [status |-> "live", left |-> Retain]]
        BY <3>1 DEF Record
      <4> QED
        BY <4>1, <4>2 DEF TypeOK
    <3>2. CASE Expire(x)
      BY <3>2 DEF Expire, TypeOK
    <3> QED
      BY <1>3, <3>1, <3>2
  <2>3. \A r \in OneShot : Holds(r)' = Holds(r) /\ Serving(r)' = Serving(r)
    BY <2>1 DEF Holds, Serving
  <2>4. \A r \in OneShot : OneFetchOf(r)'
    BY <1>0, <2>1, <2>2, <2>3 DEF OneFetch, OneFetchOf
  <2>5. \A f \in Fetchers : fetch'[f] # NoFetch => ref'[fetch'[f].of].status # "none"
    BY <1>0, <2>1, <2>2, TransferIsOf DEF OneFetch
  <2> QED
    BY <2>4, <2>5 DEF OneFetch
<1>4. ASSUME NEW f \in Fetchers, NEW x \in OneShot, Reserve(f, x)
      PROVE  OneFetch'
  <2>1. /\ UNCHANGED <<sent, lost, ref>> /\ ref[x].status = "live" /\ Holds(x) = {}
        /\ fetch[f] = NoFetch
        /\ fetch'[f] = [pc |-> "serving", of |-> x, left |-> 1]
        /\ \A g \in Fetchers : g # f => fetch'[g] = fetch[g]
    BY <1>4 DEF Reserve, TypeOK
  <2>2. sent[x] <= lost[x]
    BY <1>a, <2>1 DEF OneFetch, OneFetchOf
  <2>3. Holds(x)' \subseteq {f}
    BY <2>1 DEF Holds
  <2>4. OneFetchOf(x)'
    BY <1>a, <2>1, <2>2, <2>3 DEF OneFetchOf
  <2>5. ASSUME NEW r \in OneShot, r # x PROVE OneFetchOf(r)'
    <3>1. f \notin Holds(r) /\ f \notin Holds(r)'
      BY <1>0, <2>1, <2>5 DEF Holds, NoFetch
    <3> QED
      BY <2>1, <3>1, OtherFiles DEF OneFetch
  <2>6. \A g \in Fetchers : fetch'[g] # NoFetch => ref'[fetch'[g].of].status # "none"
    BY <2>1 DEF OneFetch
  <2> QED
    BY <2>4, <2>5, <2>6 DEF OneFetch
<1>5. ASSUME NEW f \in Fetchers, Complete(f) \/ Release(f) \/ NeverSettled(f) \/ Delivered(f)
      PROVE  OneFetch'
  <2>0. /\ fetch[f].of \in OneShot /\ fetch[f] # NoFetch /\ ref[fetch[f].of].status # "none"
        /\ fetch[f] \in [pc: {"idle", "serving", "sent"}, of: OneShot, left: 0..1]
    BY <1>5, TransferIsOf DEF Complete, Release, NeverSettled, Delivered, OneFetch
  <2>x. SUFFICES ASSUME NEW x \in OneShot, x = fetch[f].of PROVE OneFetch'
    BY <2>0
  <2>1. /\ x \in OneShot /\ fetch[f] # NoFetch /\ ref[x].status # "none"
        /\ fetch[f] \in [pc: {"idle", "serving", "sent"}, of: OneShot, left: 0..1]
    BY <2>0, <2>x
  <2>2. \A g \in Fetchers : g # f => fetch'[g] = fetch[g]
    BY <1>5 DEF Complete, Release, NeverSettled, Delivered, TypeOK
  <2>3. fetch'[f] = NoFetch \/ fetch'[f].of = x
    <3>1. CASE Complete(f)
      BY <2>1, <2>x, <3>1 DEF Complete, TypeOK
    <3>2. CASE Release(f) \/ Delivered(f)
      BY <3>2 DEF Release, Delivered, TypeOK
    <3>3. CASE NeverSettled(f)
      BY <2>1, <2>x, <3>3 DEF NeverSettled, Unserved, TypeOK
    <3> QED
      BY <1>5, <3>1, <3>2, <3>3
  <2>4. \A r \in OneShot : r # x => sent'[r] = sent[r] /\ lost'[r] = lost[r]
    <3>1. CASE Complete(f)
      BY <2>x, <3>1 DEF Complete, TypeOK
    <3>2. CASE Release(f) \/ Delivered(f)
      BY <3>2 DEF Release, Delivered
    <3>3. CASE NeverSettled(f)
      BY <2>x, <3>3 DEF NeverSettled, TypeOK
    <3> QED
      BY <1>5, <3>1, <3>2, <3>3
  <2>5. /\ \A r \in Runs : r # x => ref'[r].status = ref[r].status
        /\ \/ ref'[x].status = ref[x].status /\ ~(Delivered(f) /\ ref[x].status = "live")
           \/ ref'[x].status = "collected"
    <3>1. CASE Delivered(f)
      <4>1. \/ ref[x].status = "live" /\ ref' = [ref EXCEPT ![x].status = "collected"]
            \/ ref[x].status # "live" /\ ref' = ref
        BY <2>x, <3>1 DEF Delivered
      <4>2. x \in Runs
        BY <1>0, <2>1
      <4> QED
        BY <4>1, <4>2 DEF TypeOK
    <3>2. CASE ~Delivered(f)
      BY <1>5, <3>2, TransferFrame DEF Transfers
    <3> QED
      BY <3>1, <3>2
  <2>6. \A r \in OneShot : r # x => OneFetchOf(r)'
    <3> SUFFICES ASSUME NEW r \in OneShot, r # x PROVE OneFetchOf(r)'
        OBVIOUS
    <3>1. f \notin Holds(r) /\ f \notin Holds(r)'
      BY <1>0, <2>x, <2>3 DEF Holds, NoFetch
    <3>2. ref'[r].status = ref[r].status
      BY <1>0, <2>5
    <3> QED
      BY <2>2, <2>4, <3>1, <3>2, OtherFiles DEF OneFetch
  <2>7. \A g \in Fetchers : fetch'[g] # NoFetch => ref'[fetch'[g].of].status # "none"
    <3> SUFFICES ASSUME NEW g \in Fetchers, fetch'[g] # NoFetch
                 PROVE  ref'[fetch'[g].of].status # "none"
        OBVIOUS
    <3>1. CASE g = f
      BY <2>1, <2>3, <2>5, <3>1
    <3>2. CASE g # f
      <4>1. fetch[g].of \in OneShot /\ ref[fetch[g].of].status # "none" /\ fetch'[g] = fetch[g]
        BY <2>2, <3>2, TransferIsOf DEF OneFetch
      <4> QED
        BY <1>0, <2>5, <4>1
    <3> QED
      BY <3>1, <3>2
  <2>8. OneFetchOf(x)'
    <3>0. OneFetchOf(x) /\ sent[x] \in Nat /\ lost[x] \in Nat
      BY <1>a, <2>1 DEF OneFetch
    <3>1. CASE Complete(f)
      <4>1. /\ fetch[f].pc = "serving" /\ f \in Serving(x) /\ fetch'[f] = [fetch[f] EXCEPT !.pc = "sent"]
            /\ sent'[x] = sent[x] + 1 /\ lost'[x] = lost[x] /\ ref' = ref
        BY <2>1, <2>x, <3>1 DEF Complete, Serving, Holds, TypeOK
      <4>2. f \in Holds(x) /\ sent[x] <= lost[x] /\ \A a \in Holds(x) : a = f
        BY <3>0, <4>1 DEF OneFetchOf, Serving
      <4>3. fetch'[f].pc = "sent" /\ fetch'[f].of = x /\ fetch'[f].left = fetch[f].left
        BY <2>1, <2>x, <4>1
      <4>4. Holds(x)' = {f}
        BY <2>2, <4>2, <4>3 DEF Holds
      <4>5. Serving(x)' = {}
        BY <4>3, <4>4 DEF Serving
      <4> QED
        <5>1. sent'[x] <= lost'[x] + 1
          BY <3>0, <4>1, <4>2
        <5>2. f \in Holds(x)' /\ \A a, b \in Holds(x)' : a = b
          BY <4>4
        <5> QED
          BY <4>3, <4>5, <5>1, <5>2 DEF OneFetchOf
    <3>2. CASE Release(f)
      <4>1. /\ fetch[f].pc = "serving" /\ fetch'[f] = NoFetch
            /\ sent' = sent /\ lost' = lost /\ ref' = ref
        BY <3>2 DEF Release, TypeOK
      <4>2. Holds(x)' = Holds(x) \ {f}
        BY <1>0, <2>1, <2>2, <4>1 DEF Holds, NoFetch
      <4>3. Serving(x)' \subseteq Serving(x)
        BY <2>2, <4>2 DEF Serving, Holds
      <4>4. \A g \in Holds(x) : fetch[g].pc = "sent" => g \in Holds(x)' /\ fetch'[g].pc = "sent"
        BY <2>2, <4>1, <4>2 DEF Holds
      <4> QED
        BY <3>0, <4>1, <4>2, <4>3, <4>4 DEF OneFetchOf
    <3>3. CASE Delivered(f)
      <4>1. fetch'[f] = NoFetch /\ sent' = sent /\ lost' = lost
        BY <3>3 DEF Delivered, TypeOK
      <4>2. Holds(x)' = Holds(x) \ {f}
        BY <1>0, <2>1, <2>2, <4>1 DEF Holds, NoFetch
      <4>3. Serving(x)' \subseteq Serving(x)
        BY <2>2, <4>2 DEF Serving, Holds
      <4>4. ref'[x].status \notin {"none", "live"}
        BY <2>1, <2>5, <3>3
      <4> QED
        BY <3>0, <4>1, <4>2, <4>3, <4>4 DEF OneFetchOf
    <3>4. CASE NeverSettled(f)
      <4>0. fetch'[f] = Unserved(fetch[f]) /\ sent' = sent /\ ref' = ref
        BY <3>4 DEF NeverSettled, TypeOK
      <4>1. Holds(x)' = Holds(x)
        <5>1. CASE fetch[f].left = 0
          BY <1>0, <2>1, <2>2, <2>x, <4>0, <5>1 DEF Holds, Unserved, NoFetch
        <5>2. CASE fetch[f].left # 0
          <6>1. fetch'[f].of = x /\ fetch'[f].left = fetch[f].left
            BY <2>1, <2>x, <4>0, <5>2 DEF Unserved
          <6> QED
            BY <2>2, <2>x, <6>1 DEF Holds
        <5> QED
          BY <5>1, <5>2
      <4>2. fetch'[f].pc = "idle"
        BY <2>1, <4>0 DEF Unserved, NoFetch
      <4>3. Serving(x)' \subseteq Serving(x)
        BY <2>2, <4>1, <4>2 DEF Serving, Holds
      <4>4. CASE Unrecorded(f)
        <5>1. lost'[x] = lost[x] + 1
          BY <2>1, <2>x, <3>4, <4>4 DEF NeverSettled, TypeOK
        <5>2. sent'[x] <= lost'[x]
          BY <3>0, <4>0, <5>1 DEF OneFetchOf
        <5>3. lost'[x] \in Nat /\ sent'[x] \in Nat
          BY <3>0, <4>0, <5>1
        <5>4. ~(sent'[x] > lost'[x]) /\ sent'[x] <= lost'[x] + 1
          BY <5>2, <5>3
        <5> QED
          BY <3>0, <4>1, <5>2, <5>4 DEF OneFetchOf
      <4>5. CASE ~Unrecorded(f)
        <5>1. lost' = lost
          BY <3>4, <4>5 DEF NeverSettled
        <5>2. \A g \in Holds(x) : fetch[g].pc = "sent" => fetch'[g].pc = "sent"
          BY <2>2, <4>5 DEF Holds, Unrecorded
        <5> QED
          BY <3>0, <4>0, <4>1, <4>3, <5>1, <5>2 DEF OneFetchOf
      <4> QED
        BY <4>4, <4>5
    <3> QED
      BY <1>5, <3>1, <3>2, <3>3, <3>4
  <2> QED
    BY <2>6, <2>7, <2>8 DEF OneFetch
<1> QED
  BY <1>1, <1>2, <1>3, <1>4, <1>5, FetchFrame DEF Transfers

-----------------------------------------------------------------------------
(* Rows, locks and claims. *)

\* A row that a statement adopted: it counts nothing and ripens.
Adopted == [refs |-> 0, ripe |-> Grace, claimed |-> FALSE]

\* What a step may make of a row, and what it asked of the row before.
RowMoves(d) ==
  \/ object'[d] = object[d]
  \/ /\ Tick /\ object[d] # NoRow
     /\ \E n \in 0..Grace : object'[d] = [object[d] EXCEPT !.ripe = n]
  \/ Takeable(d) /\ object'[d] = Raised(object[d])
  \/ Takeable(d) /\ object'[d] = Lowered(Raised(object[d]))
  \/ Unlocked(d) /\ object'[d] = Lowered(object[d])
  \/ object[d] = NoRow /\ object'[d] = Adopted
  \/ Ripe(d) /\ object'[d] = [object[d] EXCEPT !.claimed = TRUE]
  \/ Doomed(d) /\ Takeable(d) /\ object'[d] = NoRow

\* The steps that change a row.
LEMMA ObjectSteps ==
  ASSUME [Next]_vars
  PROVE  \/ object' = object \/ Tick
         \/ \E r \in Runs : Record(r) \/ RecordAgain(r) \/ Expire(r)
         \/ \E f \in Fetchers : Delivered(f)
         \/ \E p \in Pushes : Save(p) \/ DeleteVersion(p)
         \/ \E s \in Sweepers : Adopt(s) \/ Claim(s) \/ Confirm(s)
<1>1. ASSUME NEW r \in Runs, Uploading(r) \/ UploadingCommits(r) \/ Arrive(r) \/ NotWritten(r) \/ Finish(r)
      PROVE  object' = object
  BY <1>1 DEF Uploading, UploadingCommits, Arrive, NotWritten, Finish
<1>2. ASSUME NEW f \in Fetchers, Transfers(f)
      PROVE  object' = object
  BY <1>2, TransferFrame
<1>3. ASSUME NEW p \in Pushes, Ask(p) \/ WriteAgain(p) \/ PushDies(p)
      PROVE  object' = object
  BY <1>3 DEF Ask, WriteAgain, PushDies
<1>4. ASSUME NEW s \in Sweepers, Walk(s) \/ LockClaimed(s) \/ LookAgain(s) \/ Remove(s) \/ SweeperDies(s)
      PROVE  object' = object
  BY <1>4 DEF Walk, LockClaimed, LookAgain, Remove, SweeperDies
<1> QED
  BY <1>1, <1>2, <1>3, <1>4 DEF Next, Transfers, Sweeps, vars

LEMMA RowsMove ==
  ASSUME TypeOK, [Next]_vars, NEW d \in Digests
  PROVE  RowMoves(d)
<1>0. \A w \in Runs \cup Pushes : FileOf[w] \in Digests
  BY ObjectsAssumption
<1>1. CASE object' = object
  BY <1>1 DEF RowMoves
<1>2. CASE Tick
  <2>1. CASE object[d] = NoRow \/ object[d].ripe = NoOne
    BY <1>2, <2>1 DEF Tick, RowMoves
  <2>2. CASE object[d] # NoRow /\ object[d].ripe # NoOne
    <3>1. object[d].ripe \in 0..Grace /\ Grace \in Nat
      BY <2>2, ObjectsAssumption DEF TypeOK, Row
    <3>2. Down(object[d].ripe) \in 0..Grace
      BY <3>1, DownIsWithin
    <3>3. object'[d] = [object[d] EXCEPT !.ripe = Down(object[d].ripe)]
      BY <1>2, <2>2 DEF Tick
    <3> QED
      BY <1>2, <2>2, <3>2, <3>3 DEF RowMoves
  <2> QED
    BY <2>1, <2>2
<1>3. ASSUME NEW r \in Runs, Record(r) \/ RecordAgain(r) \/ Expire(r)
      PROVE  RowMoves(d)
  BY <1>0, <1>3 DEF Record, RecordAgain, Expire, TypeOK, RowMoves, Takeable
<1>4. ASSUME NEW f \in Fetchers, Delivered(f)
      PROVE  RowMoves(d)
  BY <1>4 DEF Delivered, TypeOK, RowMoves
<1>5. ASSUME NEW p \in Pushes, Save(p) \/ DeleteVersion(p)
      PROVE  RowMoves(d)
  BY <1>0, <1>5 DEF Save, DeleteVersion, TypeOK, RowMoves
<1>6. ASSUME NEW s \in Sweepers, Adopt(s)
      PROVE  RowMoves(d)
  BY <1>6 DEF Adopt, Adopted, Orphan, RowMoves
<1>7. ASSUME NEW s \in Sweepers, Claim(s)
      PROVE  RowMoves(d)
  BY <1>7 DEF Claim, RowMoves
<1>8. ASSUME NEW s \in Sweepers, Confirm(s)
      PROVE  RowMoves(d)
  BY <1>8 DEF Confirm, RowMoves
<1> QED
  BY <1>1, <1>2, <1>3, <1>4, <1>5, <1>6, <1>7, <1>8, ObjectSteps

LEMMA AdoptedRow == Adopted \in Row /\ Adopted # NoRow /\ CountOf(Adopted) = 0 /\ ~Adopted.claimed /\ Adopted.ripe # 0
<1>1. Grace \in 0..Grace /\ Grace # 0
  BY ObjectsAssumption
<1>2. Adopted \in Row
  BY <1>1 DEF Adopted, Row
<1>3. Adopted # NoRow
  BY <1>2, ObjectsAssumption
<1> QED
  BY <1>1, <1>2, <1>3 DEF Adopted, CountOf

LEMMA ClaimedAtZeroStep ==
  ASSUME TypeOK, ClaimedAtZero, [Next]_vars
  PROVE  ClaimedAtZero'
<1> SUFFICES ASSUME NEW d \in Digests, object'[d] # NoRow, object'[d].claimed
             PROVE  object'[d].refs = 0
    BY DEF ClaimedAtZero
<1>1. object[d] \in Row \cup {NoRow} /\ RowMoves(d)
  BY RowsMove DEF TypeOK
<1>2. object[d] # NoRow /\ object[d].claimed => object[d].refs = 0
  BY DEF ClaimedAtZero
<1>3. CASE object'[d] = object[d]
  BY <1>2, <1>3
<1>4. CASE object[d] # NoRow /\ \E n \in 0..Grace : object'[d] = [object[d] EXCEPT !.ripe = n]
  <2>1. object[d] \in Row
    BY <1>1, <1>4
  <2>2. object'[d].refs = object[d].refs /\ (object'[d].claimed <=> object[d].claimed)
    BY <1>4, <2>1, RipenedRow
  <2> QED
    BY <1>2, <1>4, <2>2
<1>5. CASE object'[d] = Raised(object[d])
  BY <1>1, <1>5, RaisedRow
<1>6. CASE object'[d] = Lowered(Raised(object[d]))
  BY <1>1, <1>6, RecordedAgainRow
<1>7. CASE object'[d] = Lowered(object[d])
  <2>1. object[d] # NoRow /\ object[d].claimed
    BY <1>1, <1>7, LoweredRow
  <2>2. CountOf(object[d]) = 0
    BY <1>2, <2>1 DEF CountOf
  <2>3. CountOf(object'[d]) = 0
    BY <1>1, <1>7, <2>2, LoweredRow
  <2> QED
    BY <2>3 DEF CountOf
<1>8. CASE object'[d] = Adopted
  BY <1>8, AdoptedRow
<1>9. CASE Ripe(d) /\ object'[d] = [object[d] EXCEPT !.claimed = TRUE]
  <2>1. object[d] \in Row /\ object[d].refs = 0
    BY <1>1, <1>9 DEF Ripe
  <2> QED
    BY <1>9, <2>1, ClaimedRow
<1> QED
  BY <1>1, <1>3, <1>4, <1>5, <1>6, <1>7, <1>8, <1>9 DEF RowMoves

\* Nothing but time changes a locked row, and time waits for the lock.
LEMMA LockedRowStays ==
  ASSUME TypeOK, LocksStand, [Next]_vars, NEW d \in Digests, lock[d] # NoOne
  PROVE  Doomed(d) /\ object'[d] = object[d] /\ ~Takeable(d) /\ ~Tick
<1>1. Doomed(d) /\ ~Takeable(d) /\ ~Unlocked(d) /\ object[d] # NoRow
  BY DEF LocksStand, Takeable, Unlocked, Doomed
<1>2. ~Tick
  BY DEF Tick
<1>3. ~Ripe(d)
  BY <1>1 DEF Ripe
<1> QED
  BY <1>1, <1>2, <1>3, RowsMove DEF RowMoves

\* A young row is made old by time alone.
LEMMA YoungStays ==
  ASSUME TypeOK, [Next]_vars, NEW d \in Digests, Young(d), ~Tick
  PROVE  Young(d)'
<1>1. object[d] \in Row \cup {NoRow} /\ RowMoves(d)
  BY RowsMove DEF TypeOK
<1>2. CASE object'[d] = object[d]
  BY <1>2 DEF Young
<1>3. CASE object'[d] = Raised(object[d])
  BY <1>1, <1>3, RaisedRow DEF Young
<1>4. CASE object'[d] = Lowered(Raised(object[d]))
  BY <1>1, <1>4, RecordedAgainRow DEF Young
<1>5. CASE object'[d] = Lowered(object[d])
  BY <1>1, <1>5, LoweredRow DEF Young
<1>6. CASE object'[d] = Adopted
  BY <1>6, AdoptedRow DEF Young
<1>7. ~Ripe(d)
  BY DEF Young, Ripe
<1>8. CASE object'[d] = NoRow
  BY <1>8 DEF Young
<1> QED
  BY <1>1, <1>2, <1>3, <1>4, <1>5, <1>6, <1>7, <1>8 DEF RowMoves

\* A pass moves by its own steps, and a lock with them.
LEMMA SweepsMove ==
  ASSUME TypeOK, [Next]_vars
  PROVE  \/ UNCHANGED <<lock, sweep>>
         \/ \E s \in Sweepers : /\ Sweeps(s) \/ SweeperDies(s)
                                /\ \A t \in Sweepers : t # s => sweep'[t] = sweep[t]
<1>1. ASSUME Tick PROVE UNCHANGED <<lock, sweep>>
  BY <1>1 DEF Tick
<1>2. ASSUME NEW r \in Runs, \/ Uploading(r) \/ UploadingCommits(r) \/ Arrive(r) \/ NotWritten(r)
                             \/ Record(r) \/ RecordAgain(r) \/ Finish(r) \/ Expire(r)
      PROVE  UNCHANGED <<lock, sweep>>
  BY <1>2 DEF Uploading, UploadingCommits, Arrive, NotWritten, Record, RecordAgain, Finish, Expire
<1>3. ASSUME NEW f \in Fetchers, Transfers(f) \/ Delivered(f)
      PROVE  UNCHANGED <<lock, sweep>>
  BY <1>3, TransferFrame DEF Delivered
<1>4. ASSUME NEW p \in Pushes, Ask(p) \/ Save(p) \/ WriteAgain(p) \/ PushDies(p) \/ DeleteVersion(p)
      PROVE  UNCHANGED <<lock, sweep>>
  BY <1>4 DEF Ask, Save, WriteAgain, PushDies, DeleteVersion
<1>5. ASSUME NEW s \in Sweepers, Sweeps(s) \/ SweeperDies(s), NEW t \in Sweepers, t # s
      PROVE  sweep'[t] = sweep[t]
  <2>1. \E pc, set : sweep' = [sweep EXCEPT ![s] = [pc |-> pc, set |-> set]]
    BY <1>5 DEF Sweeps, Walk, Adopt, Claim, LockClaimed, LookAgain, Remove, Confirm, SweeperDies, Goes
  <2> QED
    BY <1>5, <2>1 DEF TypeOK
<1> QED
  BY <1>1, <1>2, <1>3, <1>4, <1>5 DEF Next, Transfers, vars

\* A write moves by its own steps.
LEMMA WritersMove ==
  ASSUME TypeOK, [Next]_vars, NEW r \in Runs
  PROVE  \/ writer'[r] = writer[r] /\ (upload[r] = 0 => upload'[r] = 0)
         \/ Uploading(r) \/ UploadingCommits(r) \/ Arrive(r) \/ NotWritten(r) \/ Record(r)
<1>1. ASSUME Tick PROVE writer'[r] = writer[r] /\ (upload[r] = 0 => upload'[r] = 0)
  BY <1>1 DEF Tick, Down
<1>2. ASSUME NEW x \in Runs, \/ Uploading(x) \/ UploadingCommits(x) \/ Arrive(x) \/ NotWritten(x) \/ Record(x),
             x # r
      PROVE  UNCHANGED <<writer[r], upload[r]>>
  BY <1>2 DEF Uploading, UploadingCommits, Arrive, NotWritten, Record, TypeOK
<1>3. ASSUME NEW x \in Runs, RecordAgain(x) \/ Finish(x) \/ Expire(x)
      PROVE  UNCHANGED <<writer, upload>>
  BY <1>3 DEF RecordAgain, Finish, Expire
<1>4. ASSUME NEW f \in Fetchers, Transfers(f) \/ Delivered(f)
      PROVE  UNCHANGED <<writer, upload>>
  BY <1>4, TransferFrame DEF Delivered
<1>5. ASSUME NEW p \in Pushes, Ask(p) \/ Save(p) \/ WriteAgain(p) \/ PushDies(p) \/ DeleteVersion(p)
      PROVE  UNCHANGED <<writer, upload>>
  BY <1>5 DEF Ask, Save, WriteAgain, PushDies, DeleteVersion
<1>6. ASSUME NEW s \in Sweepers, Sweeps(s) \/ SweeperDies(s)
      PROVE  UNCHANGED <<writer, upload>>
  BY <1>6 DEF Sweeps, Walk, Adopt, Claim, LockClaimed, LookAgain, Remove, Confirm, SweeperDies
<1> QED
  BY <1>1, <1>2, <1>3, <1>4, <1>5, <1>6 DEF Next, Transfers, vars

\* A reference comes to life when it is recorded.
LEMMA LiveIsRecorded ==
  ASSUME TypeOK, [Next]_vars, NEW r \in Runs, ref'[r].status = "live"
  PROVE  ref[r].status = "live" \/ Record(r)
<1>1. CASE Tick
  BY <1>1 DEF Tick, TypeOK
<1>2. ASSUME NEW x \in Runs, Record(x)
      PROVE  ref[r].status = "live" \/ Record(r)
  BY <1>2 DEF Record, TypeOK
<1>3. ASSUME NEW x \in Runs, Expire(x)
      PROVE  ref[r].status = "live"
  BY <1>3 DEF Expire, TypeOK
<1>4. ASSUME NEW f \in Fetchers, Delivered(f)
      PROVE  ref[r].status = "live"
  <2>1. PICK x : ref' = ref \/ ref' = [ref EXCEPT ![x].status = "collected"]
    BY <1>4 DEF Delivered
  <2> QED
    BY <2>1 DEF TypeOK
<1>5. ASSUME NEW f \in Fetchers, Transfers(f)
      PROVE  ref[r].status = "live"
  BY <1>5, TransferFrame
<1> QED
  BY <1>1, <1>2, <1>3, <1>4, <1>5, FetchFrame

LEMMA LocksStandStep ==
  ASSUME TypeOK, LocksStand, [Next]_vars
  PROVE  LocksStand'
<1>0. NoOne \notin Sweepers /\ \A w \in Runs \cup Pushes : FileOf[w] \in Digests
  BY ObjectsAssumption
<1>1. ASSUME NEW d \in Digests, lock'[d] # NoOne
      PROVE  /\ Doomed(d)'
             /\ \/ lock'[d] = lock[d]
                \/ Takeable(d)
  <2>1. CASE UNCHANGED <<lock, sweep>>
    BY <1>1, <2>1, LockedRowStays DEF Doomed
  <2>2. CASE \E s \in Sweepers : LockClaimed(s)
    BY <1>1, <2>2 DEF LockClaimed, LocksStand, Doomed
  <2>3. CASE \E s \in Sweepers : Remove(s) \/ SweeperDies(s)
    <3>1. lock'[d] = lock[d] /\ object' = object
      BY <1>1, <2>3 DEF Remove, SweeperDies, Unlock
    <3> QED
      BY <1>1, <3>1 DEF LocksStand, Doomed
  <2>4. CASE \E s \in Sweepers : Walk(s) \/ Adopt(s) \/ Claim(s) \/ LookAgain(s) \/ Confirm(s)
    <3>1. lock' = lock
      BY <2>4 DEF Walk, Adopt, Claim, LookAgain, Confirm
    <3> QED
      BY <1>1, <3>1, LockedRowStays DEF Doomed
  <2> QED
    BY <2>1, <2>2, <2>3, <2>4, SweepsMove DEF Sweeps
<1>2. ASSUME NEW t \in Sweepers, sweep'[t].pc \in {"holding", "looked"}, NEW d \in sweep'[t].set
      PROVE  lock'[d] = t
  <2>0. sweep[t].pc \in {"holding", "looked"} => \A e \in sweep[t].set : lock[e] = t
    BY DEF LocksStand
  <2>1. CASE UNCHANGED <<lock, sweep>>
    BY <1>2, <2>0, <2>1
  <2>2. ASSUME NEW s \in Sweepers, Sweeps(s) \/ SweeperDies(s), t # s, sweep'[t] = sweep[t]
        PROVE  lock'[d] = t
    <3>1. d \in Digests /\ lock[d] = t
      BY <1>2, <2>0, <2>2 DEF TypeOK
    <3>2. CASE lock' = lock
      BY <3>1, <3>2
    <3>3. CASE LockClaimed(s)
      BY <1>0, <3>1, <3>3 DEF LockClaimed, Takeable, Unlocked
    <3>4. CASE Remove(s) \/ SweeperDies(s)
      BY <2>2, <3>1, <3>4 DEF Remove, SweeperDies, Unlock
    <3> QED
      BY <2>2, <3>2, <3>3, <3>4 DEF Sweeps, Walk, Adopt, Claim, LookAgain, Confirm
  <2>3. CASE LockClaimed(t)
    BY <1>2, <2>3 DEF LockClaimed, Goes, TypeOK
  <2>4. CASE LookAgain(t)
    BY <1>2, <2>0, <2>4 DEF LookAgain, Goes, At, TypeOK
  <2>5. CASE Walk(t) \/ Adopt(t) \/ Claim(t) \/ Remove(t) \/ Confirm(t) \/ SweeperDies(t)
    <3>1. \E set : \E pc \in {"walked", "idle", "claimed", "gone"} : Goes(t, pc, set)
      BY <2>5 DEF Walk, Adopt, Claim, Remove, Confirm, SweeperDies
    <3> QED
      BY <1>2, <3>1 DEF Goes, TypeOK
  <2> QED
    BY <2>1, <2>2, <2>3, <2>4, <2>5, SweepsMove DEF Sweeps
<1>3. ASSUME NEW r \in Runs, writer'[r] = "sharing"
      PROVE  Unlocked(FileOf[r])'
  <2>1. CASE Uploading(r)
    BY <2>1 DEF Uploading, Unlocked
  <2>2. CASE UploadingCommits(r) \/ Arrive(r) \/ NotWritten(r) \/ Record(r)
    BY <1>3, <2>2 DEF UploadingCommits, Arrive, NotWritten, Record, TypeOK
  <2>3. CASE writer'[r] = writer[r]
    <3>1. lock[FileOf[r]] = NoOne /\ ~Takeable(FileOf[r]) /\ FileOf[r] \in Digests
      BY <1>0, <1>3, <2>3 DEF LocksStand, Unlocked, Takeable
    <3> QED
      BY <1>1, <3>1 DEF Unlocked
  <2> QED
    BY <2>1, <2>2, <2>3, WritersMove
<1> QED
  BY <1>1, <1>2, <1>3 DEF LocksStand

-----------------------------------------------------------------------------
(* Bytes. *)

\* Bytes leave the store from under a collector's lock, and no other way.
LEMMA BytesStay ==
  ASSUME TypeOK, [Next]_vars, NEW d \in Digests, Has(d)
  PROVE  \/ Has(d)'
         \/ \E s \in Sweepers : /\ At(s, "looked") /\ d \in sweep[s].set
                                /\ Remove(s) \/ SweeperDies(s)
<1>0. NoBytes \notin 0..Grace /\ Grace \in 0..Grace /\ Grace \in Nat
  BY ObjectsAssumption
<1>1. CASE store' = store
  BY <1>1 DEF Has
<1>2. CASE Tick
  <2>1. store[d] \in 0..Grace /\ store'[d] = Down(store[d])
    BY <1>2 DEF Tick, Has, TypeOK
  <2> QED
    BY <1>0, <2>1, DownIsWithin DEF Has
<1>3. ASSUME NEW e \in Digests, Put(e) PROVE Has(d)'
  BY <1>0, <1>3 DEF Put, Has, TypeOK
<1>4. ASSUME NEW s \in Sweepers, Remove(s), ~Has(d)' PROVE At(s, "looked") /\ d \in sweep[s].set
  BY <1>4 DEF Remove, Removed, Has
<1>5. ASSUME NEW s \in Sweepers, SweeperDies(s), ~Has(d)' PROVE At(s, "looked") /\ d \in sweep[s].set
  BY <1>5 DEF SweeperDies, Removed, Has
<1>6. \/ store' = store \/ Tick \/ \E e \in Digests : Put(e)
      \/ \E s \in Sweepers : Remove(s) \/ SweeperDies(s)
  <2>0. \A w \in Runs \cup Pushes : FileOf[w] \in Digests
    BY ObjectsAssumption
  <2>1. ASSUME NEW r \in Runs, \/ Uploading(r) \/ UploadingCommits(r) \/ NotWritten(r)
                               \/ Record(r) \/ RecordAgain(r) \/ Finish(r) \/ Expire(r)
        PROVE  store' = store
    BY <2>1 DEF Uploading, UploadingCommits, NotWritten, Record, RecordAgain, Finish, Expire
  <2>2. ASSUME NEW f \in Fetchers, Transfers(f) \/ Delivered(f)
        PROVE  store' = store
    BY <2>2, TransferFrame DEF Delivered
  <2>3. ASSUME NEW p \in Pushes, Ask(p) \/ Save(p) \/ WriteAgain(p) \/ PushDies(p) \/ DeleteVersion(p)
        PROVE  store' = store \/ Put(FileOf[p])
    BY <2>3 DEF Ask, Save, WriteAgain, PushDies, DeleteVersion
  <2>4. ASSUME NEW s \in Sweepers, Walk(s) \/ Adopt(s) \/ Claim(s) \/ LockClaimed(s) \/ LookAgain(s) \/ Confirm(s)
        PROVE  store' = store
    BY <2>4 DEF Walk, Adopt, Claim, LockClaimed, LookAgain, Confirm
  <2>5. ASSUME NEW r \in Runs, Arrive(r) PROVE Put(FileOf[r])
    BY <2>5 DEF Arrive
  <2> QED
    BY <2>0, <2>1, <2>2, <2>3, <2>4, <2>5 DEF Next, Transfers, Sweeps, vars
<1> QED
  BY <1>1, <1>2, <1>3, <1>4, <1>5, <1>6

\* So what they belonged to is at zero, claimed, and held by nothing.
LEMMA BytesTakenAreDoomed ==
  ASSUME TypeOK, LocksStand, LookedAtStands, [Next]_vars, NEW d \in Digests, Has(d), ~Has(d)'
  PROVE  /\ Doomed(d) /\ Unheld(d)
         /\ UNCHANGED <<object, upload, writer, ref, push, version, dropped, washed>>
<1>1. PICK s \in Sweepers : At(s, "looked") /\ d \in sweep[s].set /\ (Remove(s) \/ SweeperDies(s))
  BY BytesStay
<1>2. lock[d] = s /\ s # NoOne
  BY <1>1, ObjectsAssumption DEF LocksStand, At
<1>3. Doomed(d) /\ Unheld(d)
  BY <1>1, <1>2 DEF LocksStand, LookedAtStands
<1>4. UNCHANGED <<object, upload, writer, ref, push, version, dropped, washed>>
  BY <1>1 DEF Remove, SweeperDies
<1> QED
  BY <1>3, <1>4

LEMMA NothingRipensStep ==
  ASSUME TypeOK, LocksStand, NothingRipens, LookedAtStands, [Next]_vars
  PROVE  NothingRipens'
<1>0. \A w \in Runs \cup Pushes : FileOf[w] \in Digests
  BY ObjectsAssumption
<1>1. ASSUME NEW r \in Runs, writer'[r] = "begun"
      PROVE  Young(FileOf[r])'
  <2>1. CASE Uploading(r)
    BY <1>1, <2>1 DEF Uploading, Young, TypeOK
  <2>2. CASE UploadingCommits(r) \/ Arrive(r) \/ NotWritten(r) \/ Record(r)
    BY <1>1, <2>2 DEF UploadingCommits, Arrive, NotWritten, Record, TypeOK
  <2>3. CASE writer'[r] = writer[r]
    <3>1. FileOf[r] \in Digests /\ Young(FileOf[r]) /\ ~Tick
      BY <1>0, <1>1, <2>3 DEF NothingRipens, Tick
    <3> QED
      BY <3>1, YoungStays
  <2> QED
    BY <2>1, <2>2, <2>3, WritersMove
<1>2. ASSUME NEW s \in Sweepers, At(s, "walked")', NEW d \in sweep'[s].set
      PROVE  Young(d)' /\ Has(d)'
  <2>1. CASE sweep'[s] = sweep[s]
    <3>1. At(s, "walked") /\ d \in Digests /\ Young(d) /\ Has(d) /\ ~Tick
      BY <1>2, <2>1 DEF NothingRipens, At, Tick, TypeOK
    <3>2. ~Doomed(d)
      BY <3>1 DEF Young, Doomed
    <3> QED
      BY <3>1, <3>2, YoungStays, BytesTakenAreDoomed
  <2>2. CASE Walk(s)
    <3>1. d \in Digests /\ store[d] = 0 /\ object[d] = NoRow /\ UNCHANGED <<store, object>>
      BY <1>2, <2>2 DEF Walk, Goes, Orphan, TypeOK
    <3>2. NoBytes # 0
      BY ObjectsAssumption
    <3> QED
      BY <3>1, <3>2 DEF Young, Has
  <2>3. CASE Adopt(s) \/ Claim(s) \/ LockClaimed(s) \/ LookAgain(s) \/ Remove(s) \/ Confirm(s) \/ SweeperDies(s)
    <3>1. \E set : \E pc \in {"idle", "claimed", "holding", "looked", "gone"} : Goes(s, pc, set)
      BY <2>3 DEF Adopt, Claim, LockClaimed, LookAgain, Remove, Confirm, SweeperDies
    <3> QED
      BY <1>2, <3>1 DEF Goes, At, TypeOK
  <2> QED
    BY <2>1, <2>2, <2>3, SweepsMove DEF Sweeps
<1> QED
  BY <1>1, <1>2 DEF NothingRipens

\* Under the lock nobody begins to hold what nobody held: a write that found the row waits
\* for it, one that found none finds it young, and a result waits for it.
LEMMA LookedAtStandsStep ==
  ASSUME TypeOK, LocksStand, NothingRipens, LookedAtStands, [Next]_vars
  PROVE  LookedAtStands'
<1> SUFFICES ASSUME NEW s \in Sweepers, At(s, "looked")', NEW d \in sweep'[s].set
             PROVE  Unheld(d)'
    BY DEF LookedAtStands
<1>1. CASE sweep'[s] = sweep[s]
  <2>1. At(s, "looked") /\ d \in Digests /\ d \in sweep[s].set /\ lock[d] = s /\ s # NoOne
    BY <1>1, ObjectsAssumption DEF At, TypeOK, LocksStand
  <2>2. Unheld(d) /\ Doomed(d) /\ ~Takeable(d) /\ ~Unlocked(d)
    BY <2>1, LockedRowStays DEF LookedAtStands, Unlocked
  <2> SUFFICES ASSUME NEW r \in Runs, FileOf[r] = d
               PROVE  upload'[r] = 0 /\ ref'[r].status # "live"
      BY DEF Unheld
  <2>3. upload[r] = 0 /\ ref[r].status # "live"
    BY <2>2 DEF Unheld
  <2>4. ~UploadingCommits(r)
    <3>1. writer[r] # "sharing"
      BY <2>2 DEF LocksStand
    <3>2. writer[r] # "begun"
      BY <2>2 DEF NothingRipens, Young, Doomed
    <3> QED
      BY <3>1, <3>2 DEF UploadingCommits
  <2>5. ~Record(r)
    BY <2>2 DEF Record
  <2>6. ref'[r].status # "live"
    BY <2>3, <2>5, LiveIsRecorded
  <2>7. upload'[r] = 0
    <3>1. CASE Uploading(r) \/ Arrive(r)
      BY <2>3, <3>1 DEF Uploading, Arrive
    <3>2. CASE NotWritten(r)
      BY <3>2 DEF NotWritten, TypeOK
    <3> QED
      BY <2>3, <2>4, <2>5, <3>1, <3>2, WritersMove
  <2> QED
    BY <2>6, <2>7
<1>2. CASE LookAgain(s)
  <2>1. d \in sweep[s].set /\ Unheld(d) /\ UNCHANGED <<upload, ref>>
    BY <1>2 DEF LookAgain, Goes, TypeOK
  <2> QED
    BY <2>1 DEF Unheld
<1>3. CASE Walk(s) \/ Adopt(s) \/ Claim(s) \/ LockClaimed(s) \/ Remove(s) \/ Confirm(s) \/ SweeperDies(s)
  <2>1. \E set : \E pc \in {"idle", "walked", "claimed", "holding", "gone"} : Goes(s, pc, set)
    BY <1>3 DEF Walk, Adopt, Claim, LockClaimed, Remove, Confirm, SweeperDies
  <2> QED
    BY <2>1 DEF Goes, At, TypeOK
<1> QED
  BY <1>1, <1>2, <1>3, SweepsMove DEF Sweeps

LEMMA LateResultStep ==
  ASSUME TypeOK, LocksStand, LookedAtStands, LateResultFindsBytes, [Next]_vars
  PROVE  LateResultFindsBytes'
<1> SUFFICES ASSUME NEW r \in Runs, writer'[r] = "in", upload'[r] > 0
             PROVE  Has(FileOf[r])'
    BY DEF LateResultFindsBytes
<1>0. FileOf[r] \in Digests
  BY ObjectsAssumption
<1>1. CASE Arrive(r)
  BY <1>0, <1>1, ObjectsAssumption DEF Arrive, Put, Has, TypeOK
<1>2. CASE Uploading(r) \/ UploadingCommits(r) \/ NotWritten(r) \/ Record(r)
  BY <1>2 DEF Uploading, UploadingCommits, NotWritten, Record, TypeOK
<1>3. CASE writer'[r] = writer[r] /\ (upload[r] = 0 => upload'[r] = 0)
  <2>1. upload[r] \in Nat /\ upload[r] > 0 /\ Has(FileOf[r])
    BY <1>3, ObjectsAssumption DEF TypeOK, LateResultFindsBytes
  <2>2. ~Unheld(FileOf[r])
    BY <2>1 DEF Unheld
  <2> QED
    BY <1>0, <2>1, <2>2, BytesTakenAreDoomed
<1> QED
  BY <1>1, <1>2, <1>3, WritersMove

-----------------------------------------------------------------------------
(* Counts. *)

LEMMA NamingIsFinite ==
  ASSUME NEW d
  PROVE  IsFiniteSet(Naming(d)) /\ Cardinality(Naming(d)) \in Nat
<1>1. IsFiniteSet(Runs \cup Pushes)
  BY ObjectsAssumption, FS_Union
<1>2. Naming(d) \subseteq Runs \cup Pushes
  BY DEF Naming
<1>3. IsFiniteSet(Naming(d))
  BY <1>1, <1>2, FS_Subset
<1> QED
  BY <1>3, FS_CardinalityType

\* A row counts what names its object.
LEMMA CountsAre ==
  CountsAgree <=> \A d \in Digests : Cardinality(Naming(d)) = CountOf(object[d])
  BY DEF CountsAgree, CountOf

LEMMA CountsAreNext ==
  CountsAgree' <=> \A d \in Digests : Cardinality(Naming(d)') = CountOf(object'[d])
  BY DEF CountsAgree, CountOf

\* One more name, one more counted.
LEMMA OneMoreNamed ==
  ASSUME TypeOK, CountsAgree, NEW d \in Digests, NEW w, w \notin Naming(d),
         Naming(d)' = Naming(d) \cup {w}, object'[d] = Raised(object[d])
  PROVE  Cardinality(Naming(d)') = CountOf(object'[d])
<1>1. Cardinality(Naming(d)') = Cardinality(Naming(d)) + 1
  BY NamingIsFinite, FS_AddElement
<1>2. Cardinality(Naming(d)) = CountOf(object[d])
  BY CountsAre
<1>3. CountOf(object'[d]) = CountOf(object[d]) + 1
  BY RaisedRow DEF TypeOK
<1> QED
  BY <1>1, <1>2, <1>3

\* One fewer name, one fewer counted: a row that something names is never at zero.
LEMMA OneFewerNamed ==
  ASSUME TypeOK, CountsAgree, NEW d \in Digests, NEW w \in Naming(d),
         Naming(d)' = Naming(d) \ {w}, object'[d] = Lowered(object[d])
  PROVE  Cardinality(Naming(d)') = CountOf(object'[d])
<1>1. Cardinality(Naming(d)') = Cardinality(Naming(d)) - 1
  BY NamingIsFinite, FS_RemoveElement
<1>2. Cardinality(Naming(d)) = CountOf(object[d])
  BY CountsAre
<1>3. Cardinality(Naming(d)) # 0 /\ Cardinality(Naming(d)) \in Nat
  BY NamingIsFinite, FS_EmptySet
<1>4. CountOf(object'[d]) = CountOf(object[d]) - 1
  BY <1>2, <1>3, LoweredRow DEF TypeOK
<1> QED
  BY <1>1, <1>2, <1>4

\* The names and the count of an object that a step leaves alone.
LEMMA SameNamed ==
  ASSUME CountsAgree, NEW d \in Digests, Naming(d)' = Naming(d), CountOf(object'[d]) = CountOf(object[d])
  PROVE  Cardinality(Naming(d)') = CountOf(object'[d])
  BY CountsAre

LEMMA CountsAgreeStep ==
  ASSUME TypeOK, Stages, CountsAgree, [Next]_vars
  PROVE  CountsAgree'
<1> SUFFICES ASSUME NEW d \in Digests PROVE Cardinality(Naming(d)') = CountOf(object'[d])
    BY CountsAreNext
<1>0. /\ Runs \cap Pushes = {} /\ OneShot \subseteq Runs
      /\ \A w \in Runs \cup Pushes : FileOf[w] \in Digests
      /\ object[d] \in Row \cup {NoRow}
  BY ObjectsAssumption DEF TypeOK
<1>1. CASE UNCHANGED <<object, ref, version>>
  BY <1>1, SameNamed DEF Naming
<1>2. CASE Tick
  <2>1. Naming(d)' = Naming(d)
    BY <1>2 DEF Tick, Naming, TypeOK
  <2>2. CASE object[d] = NoRow \/ object[d].ripe = NoOne
    BY <1>2, <2>1, <2>2, SameNamed DEF Tick
  <2>3. CASE object[d] # NoRow /\ object[d].ripe # NoOne
    <3>1. object[d] \in Row /\ object[d].ripe \in 0..Grace /\ Grace \in Nat
      BY <1>0, <2>3, ObjectsAssumption DEF Row
    <3>2. object'[d] = [object[d] EXCEPT !.ripe = Down(object[d].ripe)] /\ Down(object[d].ripe) \in 0..Grace
      BY <1>2, <2>3, <3>1, DownIsWithin DEF Tick
    <3>3. object'[d] \in Row /\ object'[d].refs = object[d].refs
      BY <3>1, <3>2, RipenedRow
    <3>4. CountOf(object'[d]) = CountOf(object[d])
      BY <2>3, <3>3, ObjectsAssumption DEF CountOf
    <3> QED
      BY <2>1, <3>4, SameNamed
  <2> QED
    BY <2>2, <2>3
<1>3. ASSUME NEW r \in Runs, Record(r)
      PROVE  Cardinality(Naming(d)') = CountOf(object'[d])
  <2>1. ref[r].status = "none"
    BY <1>3 DEF Record, Stages
  <2>2. /\ ref'[r].status = "live" /\ \A x \in Runs : x # r => ref'[x] = ref[x]
        /\ version' = version
    BY <1>3 DEF Record, TypeOK
  <2>3. CASE FileOf[r] = d
    <3>1. r \notin Naming(d) /\ Naming(d)' = Naming(d) \cup {r}
      BY <1>0, <2>1, <2>2, <2>3 DEF Naming
    <3>2. object'[d] = Raised(object[d])
      BY <1>3, <2>3 DEF Record, TypeOK
    <3> QED
      BY <3>1, <3>2, OneMoreNamed
  <2>4. CASE FileOf[r] # d
    <3>1. Naming(d)' = Naming(d)
      BY <1>0, <1>3, <2>2, <2>4 DEF Naming
    <3>2. object'[d] = object[d]
      BY <1>3, <2>4 DEF Record, TypeOK
    <3> QED
      BY <3>1, <3>2, SameNamed
  <2> QED
    BY <2>3, <2>4
<1>4. ASSUME NEW r \in Runs, RecordAgain(r)
      PROVE  Cardinality(Naming(d)') = CountOf(object'[d])
  <2>1. Naming(d)' = Naming(d)
    BY <1>4 DEF RecordAgain, Naming
  <2>2. object'[d] = object[d] \/ object'[d] = Lowered(Raised(object[d]))
    BY <1>0, <1>4 DEF RecordAgain, TypeOK
  <2>3. CountOf(object'[d]) = CountOf(object[d])
    BY <1>0, <2>2, RecordedAgainRow
  <2> QED
    BY <2>1, <2>3, SameNamed
<1>5. ASSUME NEW r \in Runs, ref[r].status = "live", version' = version,
             object' = [object EXCEPT ![FileOf[r]] = Lowered(@)],
             \E status \in {"expired", "collected"} : ref' = [ref EXCEPT ![r].status = status]
      PROVE  Cardinality(Naming(d)') = CountOf(object'[d])
  <2>1. ref'[r].status # "live" /\ \A x \in Runs : x # r => ref'[x] = ref[x]
    BY <1>5 DEF TypeOK
  <2>2. CASE FileOf[r] = d
    <3>1. r \in Naming(d) /\ Naming(d)' = Naming(d) \ {r}
      BY <1>0, <1>5, <2>1, <2>2 DEF Naming
    <3>2. object'[d] = Lowered(object[d])
      BY <1>5, <2>2 DEF TypeOK
    <3> QED
      BY <3>1, <3>2, OneFewerNamed
  <2>3. CASE FileOf[r] # d
    <3>1. Naming(d)' = Naming(d)
      BY <1>0, <1>5, <2>1, <2>3 DEF Naming
    <3>2. object'[d] = object[d]
      BY <1>5, <2>3 DEF TypeOK
    <3> QED
      BY <3>1, <3>2, SameNamed
  <2> QED
    BY <2>2, <2>3
<1>6. ASSUME NEW r \in Runs, Expire(r)
      PROVE  Cardinality(Naming(d)') = CountOf(object'[d])
  BY <1>5, <1>6 DEF Expire
<1>7. ASSUME NEW f \in Fetchers, Delivered(f)
      PROVE  Cardinality(Naming(d)') = CountOf(object'[d])
  <2>1. fetch[f].of \in Runs /\ version' = version
    BY <1>0, <1>7, TransferIsOf DEF Delivered
  <2>2. CASE ref[fetch[f].of].status = "live"
    BY <1>5, <1>7, <2>1, <2>2 DEF Delivered
  <2>3. CASE ref[fetch[f].of].status # "live"
    BY <1>1, <1>7, <2>1, <2>3 DEF Delivered
  <2> QED
    BY <2>2, <2>3
<1>8. ASSUME NEW p \in Pushes, Save(p)
      PROVE  Cardinality(Naming(d)') = CountOf(object'[d])
  <2>1. version[p] = "none"
    BY <1>8 DEF Save, Stages
  <2>2. /\ version'[p] = "kept" /\ \A x \in Pushes : x # p => version'[x] = version[x]
        /\ ref' = ref
    BY <1>8 DEF Save, TypeOK
  <2>3. CASE FileOf[p] = d
    <3>1. p \notin Naming(d) /\ Naming(d)' = Naming(d) \cup {p}
      BY <1>0, <2>1, <2>2, <2>3 DEF Naming
    <3>2. object'[d] = Raised(object[d])
      BY <1>8, <2>3 DEF Save, TypeOK
    <3> QED
      BY <3>1, <3>2, OneMoreNamed
  <2>4. CASE FileOf[p] # d
    <3>1. Naming(d)' = Naming(d)
      BY <1>0, <1>8, <2>2, <2>4 DEF Naming
    <3>2. object'[d] = object[d]
      BY <1>8, <2>4 DEF Save, TypeOK
    <3> QED
      BY <3>1, <3>2, SameNamed
  <2> QED
    BY <2>3, <2>4
<1>9. ASSUME NEW p \in Pushes, DeleteVersion(p)
      PROVE  Cardinality(Naming(d)') = CountOf(object'[d])
  <2>1. /\ version[p] = "kept" /\ version'[p] # "kept" /\ \A x \in Pushes : x # p => version'[x] = version[x]
        /\ ref' = ref
    BY <1>9 DEF DeleteVersion, TypeOK
  <2>2. CASE FileOf[p] = d
    <3>1. p \in Naming(d) /\ Naming(d)' = Naming(d) \ {p}
      BY <1>0, <2>1, <2>2 DEF Naming
    <3>2. object'[d] = Lowered(object[d])
      BY <1>9, <2>2 DEF DeleteVersion, TypeOK
    <3> QED
      BY <3>1, <3>2, OneFewerNamed
  <2>3. CASE FileOf[p] # d
    <3>1. Naming(d)' = Naming(d)
      BY <1>0, <1>9, <2>1, <2>3 DEF Naming
    <3>2. object'[d] = object[d]
      BY <1>9, <2>3 DEF DeleteVersion, TypeOK
    <3> QED
      BY <3>1, <3>2, SameNamed
  <2> QED
    BY <2>2, <2>3
<1>10. ASSUME NEW s \in Sweepers, Adopt(s) \/ Claim(s) \/ Confirm(s)
       PROVE  Cardinality(Naming(d)') = CountOf(object'[d])
  <2>1. Naming(d)' = Naming(d)
    BY <1>10 DEF Adopt, Claim, Confirm, Naming
  <2>2. \/ object'[d] = object[d]
        \/ object[d] = NoRow /\ object'[d] = Adopted
        \/ Ripe(d) /\ object'[d] = [object[d] EXCEPT !.claimed = TRUE]
        \/ Doomed(d) /\ object'[d] = NoRow
    BY <1>10 DEF Adopt, Claim, Confirm, Orphan, Adopted
  <2>3. CountOf(object'[d]) = CountOf(object[d])
    <3>1. CASE object[d] = NoRow /\ object'[d] = Adopted
      BY <3>1, AdoptedRow DEF CountOf
    <3>2. CASE Ripe(d) /\ object'[d] = [object[d] EXCEPT !.claimed = TRUE]
      <4>1. object[d] \in Row /\ object[d] # NoRow
        BY <1>0, <3>2 DEF Ripe
      <4>2. object'[d] \in Row /\ object'[d].refs = object[d].refs
        BY <3>2, <4>1, ClaimedRow
      <4> QED
        BY <4>1, <4>2, ObjectsAssumption DEF CountOf
    <3>3. CASE Doomed(d) /\ object'[d] = NoRow
      BY <3>3 DEF Doomed, CountOf
    <3> QED
      BY <2>2, <3>1, <3>2, <3>3
  <2> QED
    BY <2>1, <2>3, SameNamed
<1>11. \/ UNCHANGED <<object, ref, version>> \/ Tick
       \/ \E r \in Runs : Record(r) \/ RecordAgain(r) \/ Expire(r)
       \/ \E f \in Fetchers : Delivered(f)
       \/ \E p \in Pushes : Save(p) \/ DeleteVersion(p)
       \/ \E s \in Sweepers : Adopt(s) \/ Claim(s) \/ Confirm(s)
  <2>1. ASSUME NEW r \in Runs, Uploading(r) \/ UploadingCommits(r) \/ Arrive(r) \/ NotWritten(r) \/ Finish(r)
        PROVE  UNCHANGED <<object, ref, version>>
    BY <2>1 DEF Uploading, UploadingCommits, Arrive, NotWritten, Finish
  <2>2. ASSUME NEW f \in Fetchers, Transfers(f)
        PROVE  UNCHANGED <<object, ref, version>>
    BY <2>2, TransferFrame
  <2>3. ASSUME NEW p \in Pushes, Ask(p) \/ WriteAgain(p) \/ PushDies(p)
        PROVE  UNCHANGED <<object, ref, version>>
    BY <2>3 DEF Ask, WriteAgain, PushDies
  <2>4. ASSUME NEW s \in Sweepers, Walk(s) \/ LockClaimed(s) \/ LookAgain(s) \/ Remove(s) \/ SweeperDies(s)
        PROVE  UNCHANGED <<object, ref, version>>
    BY <2>4 DEF Walk, LockClaimed, LookAgain, Remove, SweeperDies
  <2> QED
    BY <2>1, <2>2, <2>3, <2>4 DEF Next, Transfers, Sweeps, vars
<1> QED
  BY <1>1, <1>2, <1>3, <1>4, <1>6, <1>7, <1>8, <1>9, <1>10, <1>11

-----------------------------------------------------------------------------
(* Debts. *)

\* What a push owes it pays, or dies owing.
LEMMA OwedStays ==
  ASSUME TypeOK, [Next]_vars, NEW p \in Pushes, NEW d, d = FileOf[p], Owes(p)
  PROVE  Owes(p)' \/ Has(d)' \/ d \in dropped'
<1>0. d \in Digests /\ NoBytes \notin 0..Grace /\ Grace \in 0..Grace
  BY ObjectsAssumption
<1>1. CASE push'[p] = push[p]
  BY <1>1 DEF Owes
<1>2. CASE WriteAgain(p)
  BY <1>0, <1>2 DEF WriteAgain, Put, Has, TypeOK
<1>3. CASE PushDies(p)
  BY <1>3 DEF PushDies
<1>4. ~Ask(p) /\ ~Save(p)
  BY DEF Ask, Save, Owes
<1>5. push'[p] = push[p] \/ Ask(p) \/ Save(p) \/ WriteAgain(p) \/ PushDies(p)
  <2>1. ASSUME Tick PROVE push' = push
    BY <2>1 DEF Tick
  <2>2. ASSUME NEW r \in Runs, \/ Uploading(r) \/ UploadingCommits(r) \/ Arrive(r) \/ NotWritten(r)
                               \/ Record(r) \/ RecordAgain(r) \/ Finish(r) \/ Expire(r)
        PROVE  push' = push
    BY <2>2 DEF Uploading, UploadingCommits, Arrive, NotWritten, Record, RecordAgain, Finish, Expire
  <2>3. ASSUME NEW f \in Fetchers, Transfers(f) \/ Delivered(f)
        PROVE  push' = push
    BY <2>3, TransferFrame DEF Delivered
  <2>4. ASSUME NEW s \in Sweepers, Sweeps(s) \/ SweeperDies(s)
        PROVE  push' = push
    BY <2>4 DEF Sweeps, Walk, Adopt, Claim, LockClaimed, LookAgain, Remove, Confirm, SweeperDies
  <2>5. ASSUME NEW q \in Pushes, q # p, Ask(q) \/ WriteAgain(q) \/ PushDies(q)
        PROVE  push'[p] = push[p]
    BY <2>5 DEF Ask, WriteAgain, PushDies, TypeOK
  <2>6. ASSUME NEW q \in Pushes, q # p, Save(q)
        PROVE  push'[p] = push[p]
    <3>1. PICK told : push' = [push EXCEPT ![q].pc = "saved", ![q].told = told]
      BY <2>6 DEF Save
    <3> QED
      BY <2>6, <3>1 DEF TypeOK
  <2>7. ASSUME NEW q \in Pushes, DeleteVersion(q)
        PROVE  push' = push
    BY <2>7 DEF DeleteVersion
  <2> QED
    BY <2>1, <2>2, <2>3, <2>4, <2>5, <2>6, <2>7 DEF Next, Transfers, vars
<1> QED
  BY <1>1, <1>2, <1>3, <1>4, <1>5

\* Debts that were lost are not forgotten.
LEMMA LostDebtsStay ==
  ASSUME [Next]_vars
  PROVE  dropped \subseteq dropped' /\ washed \subseteq washed'
<1>1. ASSUME Tick PROVE UNCHANGED <<dropped, washed>>
  BY <1>1 DEF Tick
<1>2. ASSUME NEW r \in Runs, \/ Uploading(r) \/ UploadingCommits(r) \/ Arrive(r) \/ NotWritten(r)
                             \/ Record(r) \/ RecordAgain(r) \/ Finish(r) \/ Expire(r)
      PROVE  dropped \subseteq dropped' /\ washed \subseteq washed'
  BY <1>2 DEF Uploading, UploadingCommits, Arrive, NotWritten, Record, RecordAgain, Finish, Expire
<1>3. ASSUME NEW f \in Fetchers, Transfers(f) \/ Delivered(f)
      PROVE  UNCHANGED <<dropped, washed>>
  BY <1>3, TransferFrame DEF Delivered
<1>4. ASSUME NEW p \in Pushes, Ask(p) \/ Save(p) \/ WriteAgain(p) \/ PushDies(p) \/ DeleteVersion(p)
      PROVE  dropped \subseteq dropped' /\ washed \subseteq washed'
  BY <1>4 DEF Ask, Save, WriteAgain, PushDies, DeleteVersion
<1>5. ASSUME NEW s \in Sweepers, Sweeps(s) \/ SweeperDies(s)
      PROVE  UNCHANGED <<dropped, washed>>
  BY <1>5 DEF Sweeps, Walk, Adopt, Claim, LockClaimed, LookAgain, Remove, Confirm, SweeperDies
<1> QED
  BY <1>1, <1>2, <1>3, <1>4, <1>5 DEF Next, Transfers, vars

\* What is paid stays paid, but for bytes taken from under a claim that stands.
LEMMA PaidStays ==
  ASSUME TypeOK, LocksStand, LookedAtStands, [Next]_vars, NEW d \in Digests, Paid(d)
  PROVE  Paid(d)' \/ (object'[d] # NoRow /\ object'[d].claimed)
<1>1. CASE Has(d)
  BY <1>1, BytesTakenAreDoomed DEF Paid, Doomed
<1>2. CASE d \in dropped \/ d \in washed
  BY <1>2, LostDebtsStay DEF Paid
<1>3. CASE \E p \in Pushes : FileOf[p] = d /\ Owes(p)
  BY <1>3, OwedStays DEF Paid
<1> QED
  BY <1>1, <1>2, <1>3 DEF Paid

\* What names an object counts on its row, which no collector has claimed.
LEMMA NamedIsUnclaimed ==
  ASSUME TypeOK, CountsAgree, ClaimedAtZero, NEW d \in Digests, Naming(d) # {}
  PROVE  object[d] # NoRow /\ ~object[d].claimed
<1>1. Cardinality(Naming(d)) # 0
  BY NamingIsFinite, FS_EmptySet
<1>2. CountOf(object[d]) # 0
  BY <1>1, CountsAre
<1> QED
  BY <1>2 DEF CountOf, ClaimedAtZero

LEMMA CoveredStep ==
  ASSUME TypeOK, CountsAgree, ClaimedAtZero, LocksStand, NothingRipens, LookedAtStands,
         LateResultFindsBytes, Covered, [Next]_vars
  PROVE  Covered'
<1> SUFFICES ASSUME NEW d \in Digests, object'[d] # NoRow, ~object'[d].claimed
             PROVE  Paid(d)'
    BY DEF Covered
<1>0. /\ object[d] \in Row \cup {NoRow}
      /\ \A w \in Runs \cup Pushes : FileOf[w] \in Digests
  BY ObjectsAssumption DEF TypeOK
<1>1. CASE object[d] # NoRow /\ ~object[d].claimed
  BY <1>1, PaidStays DEF Covered
<1>2. CASE object[d] = NoRow \/ object[d].claimed
  <2>1. ASSUME NEW r \in Runs, Record(r), FileOf[r] = d
        PROVE  Paid(d)'
    <3>1. Has(d) /\ store' = store
      BY <2>1 DEF Record, LateResultFindsBytes
    <3> QED
      BY <3>1 DEF Paid, Has
  <2>2. ASSUME NEW r \in Runs, RecordAgain(r), FileOf[r] = d
        PROVE  Paid(d)'
    <3>1. ref[r].status # "live"
      <4>1. ref[r].status = "live" => Naming(d) # {}
        BY <2>2 DEF Naming
      <4> QED
        BY <1>2, <4>1, NamedIsUnclaimed
    <3>2. CASE Has(d)
      BY <2>2, <3>2 DEF RecordAgain, Paid, Has
    <3>3. CASE ~Has(d)
      BY <2>2, <3>1, <3>3 DEF RecordAgain, Paid
    <3> QED
      BY <3>2, <3>3
  <2>3. ASSUME NEW p \in Pushes, Save(p), FileOf[p] = d
        PROVE  Paid(d)'
    <3>1. PICK told \in Told(object[d]) : push' = [push EXCEPT ![p].pc = "saved", ![p].told = told]
      BY <2>3 DEF Save
    <3>2. told \in {"look", "write"}
      BY <1>2, <3>1 DEF Told
    <3>3. push'[p].pc = "saved" /\ push'[p].told = told
      BY <3>1 DEF TypeOK
    <3>4. Owes(p)' \/ Has(d)'
      BY <2>3, <3>2, <3>3 DEF Owes
    <3> QED
      BY <2>3, <3>4 DEF Paid
  <2>4. ASSUME NEW s \in Sweepers, Adopt(s)
        PROVE  Paid(d)'
    <3>1. d \in sweep[s].set /\ At(s, "walked") /\ store' = store
      BY <1>2, <2>4 DEF Adopt
    <3>2. Has(d)
      BY <3>1 DEF NothingRipens
    <3> QED
      BY <3>1, <3>2 DEF Paid, Has
  <2>5. ASSUME object'[d] = object[d] \/ object'[d] = Lowered(object[d])
        PROVE  FALSE
    BY <1>0, <1>2, <2>5, LoweredRow
  <2>6. ASSUME object[d] # NoRow, \E n \in 0..Grace : object'[d] = [object[d] EXCEPT !.ripe = n]
        PROVE  FALSE
    <3>1. object[d] \in Row
      BY <1>0, <2>6
    <3>2. object'[d].claimed <=> object[d].claimed
      BY <2>6, <3>1, RipenedRow
    <3> QED
      BY <1>2, <2>6, <3>2
  <2>7. ASSUME Ripe(d), object'[d] = [object[d] EXCEPT !.claimed = TRUE]
        PROVE  FALSE
    <3>1. object[d] \in Row
      BY <1>0, <2>7 DEF Ripe
    <3> QED
      BY <2>7, <3>1, ClaimedRow
  <2>8. \/ \E r \in Runs : (Record(r) \/ RecordAgain(r)) /\ FileOf[r] = d
        \/ \E p \in Pushes : Save(p) /\ FileOf[p] = d
        \/ \E s \in Sweepers : Adopt(s)
        \/ object'[d] = object[d] \/ object'[d] = Lowered(object[d])
        \/ object[d] # NoRow /\ \E n \in 0..Grace : object'[d] = [object[d] EXCEPT !.ripe = n]
        \/ Ripe(d) /\ object'[d] = [object[d] EXCEPT !.claimed = TRUE]
    <3>1. CASE Tick
      <4>1. CASE object[d] = NoRow \/ object[d].ripe = NoOne
        BY <3>1, <4>1 DEF Tick
      <4>2. CASE object[d] # NoRow /\ object[d].ripe # NoOne
        <5>1. object[d].ripe \in 0..Grace /\ Grace \in Nat
          BY <1>0, <4>2, ObjectsAssumption DEF Row
        <5>2. object'[d] = [object[d] EXCEPT !.ripe = Down(object[d].ripe)] /\ Down(object[d].ripe) \in 0..Grace
          BY <3>1, <4>2, <5>1, DownIsWithin DEF Tick
        <5> QED
          BY <4>2, <5>2
      <4> QED
        BY <4>1, <4>2
    <3>2. ASSUME NEW r \in Runs, (Record(r) \/ RecordAgain(r) \/ Expire(r)), FileOf[r] # d
          PROVE  object'[d] = object[d]
      BY <3>2 DEF Record, RecordAgain, Expire, TypeOK
    <3>3. ASSUME NEW r \in Runs, Expire(r), FileOf[r] = d
          PROVE  object'[d] = Lowered(object[d])
      BY <3>3 DEF Expire, TypeOK
    <3>4. ASSUME NEW f \in Fetchers, Delivered(f)
          PROVE  object'[d] = object[d] \/ object'[d] = Lowered(object[d])
      BY <3>4 DEF Delivered, TypeOK
    <3>5. ASSUME NEW p \in Pushes, Save(p), FileOf[p] # d
          PROVE  object'[d] = object[d]
      BY <3>5 DEF Save, TypeOK
    <3>6. ASSUME NEW p \in Pushes, DeleteVersion(p)
          PROVE  object'[d] = object[d] \/ object'[d] = Lowered(object[d])
      BY <3>6 DEF DeleteVersion, TypeOK
    <3>7. ASSUME NEW s \in Sweepers, Claim(s) \/ Confirm(s)
          PROVE  \/ object'[d] = object[d]
                 \/ Ripe(d) /\ object'[d] = [object[d] EXCEPT !.claimed = TRUE]
      BY <3>7 DEF Claim, Confirm
    <3> QED
      BY <3>1, <3>2, <3>3, <3>4, <3>5, <3>6, <3>7, ObjectSteps
  <2> QED
    BY <2>1, <2>2, <2>3, <2>4, <2>5, <2>6, <2>7, <2>8
<1> QED
  BY <1>1, <1>2

-----------------------------------------------------------------------------
(* The theorems. *)

LEMMA IInvInit ==
  ASSUME Init
  PROVE  IInv
<1>0. /\ {Grace, Hold, Retain} \subseteq Nat \ {0} /\ MaxDeaths \in Nat
  BY ObjectsAssumption
<1>1. TypeOK
  BY <1>0 DEF Init, TypeOK
<1>2. Stages /\ ClaimedAtZero /\ LateResultFindsBytes /\ Covered
  BY DEF Init, Stages, ClaimedAtZero, LateResultFindsBytes, Covered
<1>3. LocksStand
  BY ObjectsAssumption DEF Init, LocksStand, Unlocked
<1>4. NothingRipens /\ LookedAtStands
  BY DEF Init, NothingRipens, LookedAtStands, At
<1>5. CountsAgree
  <2>1. \A d \in Digests : Naming(d) = {} /\ object[d] = NoRow
    BY DEF Init, Naming
  <2> QED
    BY <2>1, FS_EmptySet DEF CountsAgree
<1>6. OneFetch
  BY DEF Init, OneFetch, OneFetchOf, Holds, Serving, NoFetch
<1> QED
  BY <1>1, <1>2, <1>3, <1>4, <1>5, <1>6 DEF IInv

LEMMA IInvStep ==
  ASSUME IInv, [Next]_vars
  PROVE  IInv'
  BY TypeOKStep, StagesStep, ClaimedAtZeroStep, LocksStandStep, NothingRipensStep, LookedAtStandsStep,
     LateResultStep, CountsAgreeStep, CoveredStep, OneFetchStep DEF IInv

LEMMA IInvHolds == Spec => []IInv
  BY IInvInit, IInvStep, PTL DEF Spec

\* The count of an object is how many live references and kept versions name it, whatever
\* is retired twice, recorded again, collected or deleted on the way (db/envelopes.go:
\* raise and lower).
THEOREM CountsAgreeHolds == Spec => []CountsAgree
<1>1. IInv => CountsAgree
  BY DEF IInv
<1> QED
  BY <1>1, IInvHolds, PTL

\* No collector takes bytes from under a reference or a version: they are in the store, or
\* a push owes them, or the debt was lost in one of the two ways the code loses one
\* (db/purge.go: Collecting; api/git_receive.go: writeAgain).
THEOREM NamedHaveBytesHolds == Spec => []NamedHaveBytes
<1>1. IInv => NamedHaveBytes
  <2> SUFFICES ASSUME IInv, NEW d \in Digests, Naming(d) # {} PROVE Paid(d)
    BY DEF NamedHaveBytes, Paid
  <2>1. object[d] # NoRow /\ ~object[d].claimed
    BY NamedIsUnclaimed DEF IInv
  <2> QED
    BY <2>1 DEF IInv, Covered
<1> QED
  BY <1>1, IInvHolds, PTL

\* A result heard within the hold of its write finds its bytes, however the collector
\* and the write were interleaved (db/uploads.go: Uploading).
THEOREM LateResultHolds == Spec => []LateResultFindsBytes
<1>1. IInv => LateResultFindsBytes
  BY DEF IInv
<1> QED
  BY <1>1, IInvHolds, PTL

\* A file with a budget of one fetch is delivered once, and served to one transfer at a
\* time, but for the transfers that completed and were not recorded while their hold
\* stood: each gives the file one delivery more, and no other step does
\* (db/artifacts.go: Reserve and Delivered; api/reading.go: the deferred settlement).
THEOREM BudgetKeptHolds == Spec => []BudgetKept
<1>1. IInv => BudgetKept
  <2> SUFFICES ASSUME IInv, NEW r \in OneShot
               PROVE  sent[r] + Cardinality(Serving(r)) <= 1 + lost[r]
    BY DEF BudgetKept
  <2>1. /\ \A f, g \in Serving(r) : f = g
        /\ sent[r] <= lost[r] + 1 /\ (Serving(r) # {} => sent[r] <= lost[r])
    BY DEF IInv, OneFetch, OneFetchOf, Serving
  <2>2. sent[r] \in Nat /\ lost[r] \in Nat
    BY DEF IInv, TypeOK
  <2>3. CASE Serving(r) = {}
    <3>1. Cardinality(Serving(r)) = 0
      BY <2>3, FS_EmptySet
    <3> QED
      BY <2>1, <2>2, <3>1
  <2>4. CASE Serving(r) # {}
    <3>1. PICK f : f \in Serving(r)
      BY <2>4
    <3>2. Serving(r) = {f}
      BY <2>1, <3>1
    <3>3. Cardinality(Serving(r)) = 1
      BY <3>2, FS_Singleton
    <3> QED
      BY <2>1, <2>2, <2>4, <3>3
  <2> QED
    BY <2>3, <2>4
<1> QED
  BY <1>1, IInvHolds, PTL
=============================================================================
