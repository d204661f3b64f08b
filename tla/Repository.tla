----------------------------- MODULE Repository -----------------------------
(***************************************************************************)
(* The git repositories of workflows: their refs, the packs that hold      *)
(* their objects and the files of those packs.  Pushes (api/git_receive.go *)
(* and db/refs.go), fetches (api/git_upload.go), the repack and the        *)
(* collection of packs (repo/store, db/packs.go, purge/purge.go), and the  *)
(* creation, rename, move and deletion of workflows (db/move.go,           *)
(* purge/move.go, db/rename.go, db/delete.go).                             *)
(*                                                                         *)
(* A request names a workflow by its namespace and its name, each          *)
(* transaction it makes looks the name up again, and what it finds then is *)
(* a repository's key.  The database and the store are two systems: a row  *)
(* is written before its files and removed after them.                     *)
(*                                                                         *)
(* A pack is what it holds: its name is the checksum of its bytes.  An     *)
(* instant is kept as the ticks left until it.                             *)
(***************************************************************************)
EXTENDS Integers, FiniteSets, FiniteSetsExt, Functions

CONSTANTS
  Keys,         \* the keys of repositories, each used once
  Namespaces,
  Names,        \* names a workflow may have in a namespace
  Birthplaces,  \* where workflows are created
  Storage,      \* the storage name of a namespace: the name it was created with
  Commits,
  Parents,      \* the commits a commit names
  Sendable,     \* the packs that clients send
  Refs,
  DefaultBranch,
  Pushes, Fetches,
  RepackAbove,  \* how many live packs are left alone
  Grace,        \* DefaultGrace, in ticks
  Lasts,        \* bound: how many ticks a push or a fetch may see pass
  Most,         \* bounds: pushes and changes of workflows asked, steps of the purger that fail
  None

ASSUME RepositoryAssumption ==
  /\ IsInjective(Storage) /\ DOMAIN Storage = Namespaces
  /\ Birthplaces \subseteq Namespaces \X Names
  /\ IsFiniteSet(Commits)
  /\ Parents \in [Commits -> SUBSET Commits]
  /\ Sendable \subseteq SUBSET Commits
  /\ DefaultBranch \in Refs
  /\ RepackAbove \in Nat \ {0} /\ Grace \in Nat \ {0}
  /\ Most \in [{"push", "change", "failure"} -> Nat]
  /\ Lasts \in 0..(Grace - 1)      \* a push or a fetch lasts less than the grace, a day

VARIABLES
  wf,       \* workflows: where each repository is, whether it is deleted, where it moves to
  refs,     \* workflow_refs
  packs,    \* git_packs: the state of each pack's row, and the ticks left of its grace
  files,    \* the object store, under git/
  moved,    \* moved_objects: the keys moves left, and the ticks until they are deleted
  push, fetch, purger,
  spent,    \* how much of each bound is used up
  resent    \* history: packs received while moved_objects named their files

vars == <<wf, refs, packs, files, moved, push, fetch, purger, spent, resent>>

Places == Namespaces \X Names
Packs == {UNION some : some \in SUBSET Sendable} \ {{}}
Parts == {"pack", "idx"}

(* PackKey and IdxKey: a file of a pack under a namespace's storage name.  *)
File(store, k, p, part) == [store |-> store, key |-> k, pack |-> p, part |-> part]
FilesOf(store, k, names) == {File(store, k, p, part) : p \in names, part \in Parts}

Files == [store: Range(Storage), key: Keys, pack: Packs, part: Parts]

NoRow == [st |-> "none", left |-> 0]
Row(st) == [st |-> st, left |-> IF st \in {"receiving", "superseded"} THEN Grace ELSE 0]

Idle == [pc |-> "idle"]

TypeOK ==
  /\ wf \in [Keys -> [st: {"none", "there", "deleted", "gone"},
                      at: Places \cup {None}, to: Namespaces \cup {None}]]
  /\ refs \in [Keys -> [Refs -> Commits \cup {None}]]
  /\ packs \in [Keys -> [Packs -> [st: {"none", "receiving", "live", "superseded", "collecting"},
                                   left: 0..Grace]]]
  /\ files \subseteq Files
  /\ moved \subseteq [ns: Namespaces, file: Files, left: 0..Grace]
  /\ \A b \in DOMAIN Most : spent[b] \in 0..Most[b]
  /\ resent \subseteq Keys \X Packs

Spend(b) == spent[b] < Most[b] /\ spent' = [spent EXCEPT ![b] = @ + 1]

-----------------------------------------------------------------------------
(* What the rows say.                                                      *)

Taken(place) ==
  \/ \E k \in Keys : wf[k].at = place
  \/ \E k \in Keys : wf[k].to # None /\ <<wf[k].to, wf[k].at[2]>> = place

Found(place) == {k \in Keys : wf[k].st = "there" /\ wf[k].at = place}
Moving(k) == wf[k].to # None

StoreOf(k) == Storage[wf[k].at[1]]

In(k, states) == {p \in Packs : packs[k][p].st \in states}
Held(k) == UNION In(k, {"live"})

-----------------------------------------------------------------------------
(* Workflows are created, renamed, asked to move, and deleted.             *)

CreateWorkflow(k, place) ==
  /\ wf[k].st = "none"
  /\ ~Taken(place)
  /\ wf' = [wf EXCEPT ![k] = [st |-> "there", at |-> place, to |-> None]]
  /\ UNCHANGED <<refs, packs, files, moved, push, fetch, purger, spent, resent>>

RenameWorkflow(k, name) ==
  /\ wf[k].st = "there" /\ ~Moving(k)
  /\ ~Taken(<<wf[k].at[1], name>>)
  /\ wf' = [wf EXCEPT ![k].at[2] = name]
  /\ Spend("change")
  /\ UNCHANGED <<refs, packs, files, moved, push, fetch, purger, resent>>

AskMove(k, target) ==
  /\ wf[k].st = "there" /\ ~Moving(k)
  /\ target # wf[k].at[1]
  /\ ~Taken(<<target, wf[k].at[2]>>)
  /\ wf' = [wf EXCEPT ![k].to = target]
  /\ Spend("change")
  /\ UNCHANGED <<refs, packs, files, moved, push, fetch, purger, resent>>

DeleteWorkflow(k) ==
  /\ wf[k].st = "there" /\ ~Moving(k)
  /\ wf' = [wf EXCEPT ![k].st = "deleted"]
  /\ Spend("change")
  /\ UNCHANGED <<refs, packs, files, moved, push, fetch, purger, resent>>

-----------------------------------------------------------------------------
(* A push.                                                                 *)

(* Every tip, and every parent of a commit sent, is sent or held.          *)
Connected(sent, tips, held) ==
  \A c \in tips \cup UNION {Parents[s] : s \in sent} : c \in sent \cup held

(* The history of a commit.                                                *)
Reach ==
  LET within[n \in 0..Cardinality(Commits)] ==
        IF n = 0 THEN [c \in Commits |-> {c}]
        ELSE [c \in Commits |-> within[n - 1][c] \cup UNION {Parents[d] : d \in within[n - 1][c]}]
  IN  within[Cardinality(Commits)]

(* descends, of every ref moved: whether none is taken off its history.    *)
Descends(old, c) == \A r \in DOMAIN c : old[r] = None \/ (c[r] # None /\ old[r] \in Reach[c[r]])

(* What one push may ask of the refs: some of them created, moved or       *)
(* deleted, from where the push found them, the default branch never       *)
(* deleted.                                                                *)
Commands(found) ==
  {c \in UNION {[on -> Commits \cup {None}] : on \in SUBSET Refs \ {{}}} :
     \A r \in DOMAIN c : c[r] # found[r] /\ (r = DefaultBranch => c[r] # None)}

(* Repository, receive and judge: the push is judged against the refs and  *)
(* the live packs of one moment.                                           *)
Judge(q, place, sent) ==
  /\ push[q] = Idle
  /\ Spend("push")
  /\ \E k \in Found(place) : \E c \in Commands(refs[k]) :
       /\ Connected(sent, Range(c) \ {None}, Held(k))
       /\ push' = [push EXCEPT ![q] =
            [pc |-> IF sent = {} THEN "land" ELSE "receive", place |-> place, commands |-> c,
             forced |-> ~Descends(refs[k], c),
             old |-> [r \in DOMAIN c |-> refs[k][r]], sent |-> sent, to |-> {}, left |-> Lasts]]
  /\ UNCHANGED <<wf, refs, packs, files, moved, fetch, purger, resent>>

(* Refused, or dead: what it wrote stays as it is.                         *)
GiveUp(q) ==
  /\ push[q] # Idle
  /\ push' = [push EXCEPT ![q] = Idle]
  /\ UNCHANGED <<wf, refs, packs, files, moved, fetch, purger, spent, resent>>

(* Rows a pack about to be written takes: one live stays live.             *)
Receivable(k, p) == packs[k][p].st \in {"none", "receiving", "superseded"}

Received(k, p) ==
  IF Receivable(k, p) THEN [packs EXCEPT ![k][p] = Row("receiving")] ELSE packs

(* ReceivePack: the row, before a byte is written.                         *)
ReceivePack(k, p) ==
  /\ ~Moving(k)
  /\ packs[k][p].st # "collecting"
  /\ packs' = Received(k, p)
  /\ resent' = resent \cup {x \in {<<k, p>>} : \E m \in moved : m.file \in FilesOf(StoreOf(k), k, {p})}

PushReceives(q) ==
  /\ push[q].pc = "receive"
  /\ \E k \in Found(push[q].place) :
       /\ ReceivePack(k, push[q].sent)
       /\ push' = [push EXCEPT ![q].pc = "put", ![q].to = {<<StoreOf(k), k>>}]
  /\ UNCHANGED <<wf, refs, files, moved, fetch, purger, spent>>

(* Put: the pack, then its index, unless the first is all that is written. *)
Put(to, p, parts) == files' = files \cup {File(w[1], w[2], p, part) : w \in to, part \in parts}

PushWrites(q) ==
  /\ push[q].pc = "put"
  /\ \/ Put(push[q].to, push[q].sent, Parts) /\ push' = [push EXCEPT ![q].pc = "land"]
     \/ Put(push[q].to, push[q].sent, {"pack"}) /\ push' = [push EXCEPT ![q] = Idle]
  /\ UNCHANGED <<wf, refs, packs, moved, fetch, purger, spent, resent>>

(* UpdateRefs: every ref is still where the push found it, or none moves.  *)
\* Mutant: the refs are not compared with what the push was judged against.
MutUpdateRefsUncompared(k, old, c) ==
  /\ ~Moving(k)
  /\ refs' = [refs EXCEPT ![k] = [r \in Refs |-> IF r \in DOMAIN c THEN c[r] ELSE @[r]]]

UpdateRefs(k, old, c) ==
  /\ ~Moving(k)
  /\ \A r \in DOMAIN c : refs[k][r] = old[r]
  /\ refs' = [refs EXCEPT ![k] = [r \in Refs |-> IF r \in DOMAIN c THEN c[r] ELSE @[r]]]

PackLive(k, p) ==
  /\ p # {} => packs[k][p].st \in {"receiving", "live"}
  /\ packs' = IF p = {} THEN packs ELSE [packs EXCEPT ![k][p] = Row("live")]

(* accept: the refs and the pack, in one transaction.                      *)
Land(q) ==
  /\ push[q].pc = "land"
  /\ \E k \in Found(push[q].place) :
       /\ UpdateRefs(k, push[q].old, push[q].commands)
       /\ PackLive(k, push[q].sent)
  /\ push' = [push EXCEPT ![q] = Idle]
  /\ UNCHANGED <<wf, files, moved, fetch, purger, spent, resent>>

-----------------------------------------------------------------------------
(* A fetch reads the refs, by name, and then the packs live at that later  *)
(* moment, by the key it found; then the files of these, as it needs them. *)

UploadPack(f, place) ==
  /\ fetch[f] = Idle
  /\ \E k \in Found(place) :
       /\ Held(k) # {}
       /\ fetch' = [fetch EXCEPT ![f] =
            [pc |-> "packs", ns |-> place[1], key |-> k, lacks |-> {},
             wants |-> UNION {Reach[c] : c \in Range(refs[k]) \ {None}}, files |-> {}, left |-> Lasts]]
  /\ UNCHANGED <<wf, refs, packs, files, moved, push, purger, spent, resent>>

(* Of a workflow moved or purged since, none: the fetch fails.             *)
ReadPacks(f) ==
  LET k == fetch[f].key
      live == IF wf[k].at # None /\ wf[k].at[1] = fetch[f].ns THEN In(k, {"live"}) ELSE {}
  IN  /\ fetch[f].pc = "packs"
      /\ fetch' = [fetch EXCEPT ![f] =
           IF live = {} THEN Idle
           ELSE [@ EXCEPT !.pc = "reading", !.wants = {}, !.lacks = fetch[f].wants \ UNION live,
                          !.files = FilesOf(StoreOf(k), k, live)]]
      /\ UNCHANGED <<wf, refs, packs, files, moved, push, purger, spent, resent>>

Fetched(f) ==
  /\ fetch[f] # Idle
  /\ fetch' = [fetch EXCEPT ![f] = Idle]
  /\ UNCHANGED <<wf, refs, packs, files, moved, push, purger, spent, resent>>

-----------------------------------------------------------------------------
(* The purger, one step of its pass at a time.  A step that fails leaves   *)
(* its work to a later pass, as one that dies does.                        *)

Abandon ==
  /\ purger # Idle
  /\ Spend("failure")
  /\ purger' = Idle
  /\ UNCHANGED <<wf, refs, packs, files, moved, push, fetch, resent>>

(* PurgeDeleted: the packs of a deleted workflow, then its row.            *)
SupersedePacks(k) ==
  /\ purger = Idle
  /\ wf[k].st = "deleted" /\ In(k, {"receiving", "live"}) # {}
  /\ packs' = [packs EXCEPT ![k] = [p \in Packs |->
       IF @[p].st \in {"receiving", "live"} THEN Row("superseded") ELSE @[p]]]
  /\ UNCHANGED <<wf, refs, files, moved, push, fetch, purger, spent, resent>>

DeleteRow(k) ==
  /\ purger = Idle
  /\ wf[k].st = "deleted" /\ In(k, {"none"}) = Packs
  /\ wf' = [wf EXCEPT ![k] = [st |-> "gone", at |-> None, to |-> None]]
  /\ refs' = [refs EXCEPT ![k] = [r \in Refs |-> None]]
  /\ UNCHANGED <<packs, files, moved, push, fetch, purger, spent, resent>>

(* A repack copies every object the live packs hold into one pack.         *)
Repack(place) ==
  /\ purger = Idle
  /\ \E k \in Found(place) :
       /\ Cardinality(In(k, {"live"})) > RepackAbove
       /\ purger' = [pc |-> "repack", place |-> place, replaced |-> In(k, {"live"}),
                     pack |-> Held(k), to |-> {}]
  /\ UNCHANGED <<wf, refs, packs, files, moved, push, fetch, spent, resent>>

RepackReceives ==
  /\ purger.pc = "repack"
  /\ IF \E k \in Found(purger.place) : ~Moving(k) /\ packs[k][purger.pack].st # "collecting"
     THEN \E k \in Found(purger.place) :
            /\ ReceivePack(k, purger.pack)
            /\ purger' = [purger EXCEPT !.pc = "put", !.to = {<<StoreOf(k), k>>}]
     ELSE purger' = Idle /\ UNCHANGED <<packs, resent>>
  /\ UNCHANGED <<wf, refs, files, moved, push, fetch, spent>>

RepackWrites ==
  /\ purger.pc = "put"
  /\ \/ /\ Put(purger.to, purger.pack, Parts)
        /\ purger' = [purger EXCEPT !.pc = "swap"] /\ UNCHANGED spent
     \/ Put(purger.to, purger.pack, {"pack"}) /\ purger' = Idle /\ Spend("failure")
  /\ UNCHANGED <<wf, refs, packs, moved, push, fetch, resent>>

\* Mutant: every live pack is replaced, not those the repack read.
MutSwappedAll(k, pack, replaced) ==
  [p \in Packs |-> IF p = pack THEN Row("live")
                   ELSE IF packs[k][p].st = "live" THEN Row("superseded") ELSE packs[k][p]]

\* Mutant: the packs replaced are due at once.
MutSwappedDue(k, pack, replaced) ==
  [p \in Packs |-> IF p = pack THEN Row("live")
                   ELSE IF p \in replaced /\ packs[k][p].st = "live"
                        THEN [st |-> "superseded", left |-> 0] ELSE packs[k][p]]

Swapped(k, pack, replaced) ==
  [p \in Packs |-> IF p = pack THEN Row("live")
                   ELSE IF p \in replaced /\ packs[k][p].st = "live"
                        THEN Row("superseded") ELSE packs[k][p]]

Repacked ==
  /\ purger.pc = "swap"
  /\ packs' = [k \in Keys |->
       IF k \in Found(purger.place) /\ packs[k][purger.pack].st \in {"receiving", "live"}
       THEN Swapped(k, purger.pack, purger.replaced) ELSE packs[k]]
  /\ purger' = Idle
  /\ UNCHANGED <<wf, refs, files, moved, push, fetch, spent, resent>>

(* The collection claims rows, deletes their files and forgets them.       *)
Due(k) ==
  {p \in Packs : \/ packs[k][p].st = "collecting"
                 \/ packs[k][p].st \in {"receiving", "superseded"} /\ packs[k][p].left = 0}

CollectablePacks ==
  LET claimed == {x \in Keys \X Packs : x[2] \in Due(x[1])} IN
  /\ purger = Idle
  /\ claimed # {}
  /\ packs' = [k \in Keys |-> [p \in Packs |-> IF p \in Due(k) THEN Row("collecting") ELSE packs[k][p]]]
  /\ purger' = [pc |-> "collect", claimed |-> claimed]
  /\ UNCHANGED <<wf, refs, files, moved, push, fetch, spent, resent>>

(* Collect, of each: the index, then the pack.  The store may refuse one.  *)
Collect ==
  LET of(x, parts) == {File(StoreOf(x[1]), x[1], x[2], part) : part \in parts}
      all == UNION {of(x, Parts) : x \in purger.claimed}
  IN  /\ purger.pc = "collect"
      /\ \/ /\ files' = files \ all
            /\ purger' = [pc |-> "collected", gone |-> purger.claimed] /\ UNCHANGED spent
         \/ /\ Spend("failure")
            /\ \E x \in purger.claimed : \E refused \in {Parts, {"pack"}} :
                 /\ files' = files \ (all \ of(x, refused))
                 /\ purger' = [pc |-> "collected", gone |-> purger.claimed \ {x}]
      /\ UNCHANGED <<wf, refs, packs, moved, push, fetch, resent>>

PacksCollected ==
  /\ purger.pc = "collected"
  /\ packs' = [k \in Keys |-> [p \in Packs |->
       IF <<k, p>> \in purger.gone /\ packs[k][p].st = "collecting" THEN NoRow ELSE packs[k][p]]]
  /\ purger' = Idle
  /\ UNCHANGED <<wf, refs, files, moved, push, fetch, spent, resent>>

(* A move: what the rows name is copied under the target's keys, and then  *)
(* the rows are changed.  It waits for packs being collected.              *)
MoveReady(k) == In(k, {"collecting"}) = {}

(* The files of the packs a move carries, of those in names.               *)
ObjectsOf(k, names) == FilesOf(StoreOf(k), k, In(k, {"live", "superseded"}) \cap names) \cap files

(* They are copied, or some of them are and the step fails.  No row of the *)
(* workflow changes meanwhile: it is frozen.                               *)
Copied(k) ==
  LET copies(some) == {[x EXCEPT !.store = Storage[wf[k].to]] : x \in some} IN
  /\ purger = Idle
  /\ wf[k].st = "there" /\ Moving(k) /\ MoveReady(k)
  /\ \/ /\ files' = files \cup copies(ObjectsOf(k, Packs))
        /\ purger' = [pc |-> "move", key |-> k] /\ UNCHANGED spent
     \/ /\ Spend("failure")
        /\ \E names \in SUBSET In(k, {"live", "superseded"}) :
             files' = files \cup copies(ObjectsOf(k, names))
        /\ UNCHANGED purger
  /\ UNCHANGED <<wf, refs, packs, moved, push, fetch, resent>>

(* What a move leaves under the source's keys, and what it names again     *)
(* under the target's: keys that begin with the source's name.             *)
LeftOf(k) == FilesOf(StoreOf(k), k, Packs \ In(k, {"none"}))

BackOf(k) ==
  {[f EXCEPT !.store = wf[k].to] : f \in {g \in LeftOf(k) : g.store = wf[k].at[1]}}

\* Mutant: what an earlier move left under the target's keys is still deleted.
MutLedgerKept(k) ==
  {m \in moved : ~(m.ns = wf[k].at[1] /\ m.file \in LeftOf(k))}
    \cup {[ns |-> wf[k].at[1], file |-> f, left |-> Grace] : f \in LeftOf(k)}

Ledger(k) ==
  {m \in moved : /\ ~(m.ns = wf[k].at[1] /\ m.file \in LeftOf(k))
                 /\ ~(m.ns = wf[k].to /\ m.file \in BackOf(k))}
    \cup {[ns |-> wf[k].at[1], file |-> f, left |-> Grace] : f \in LeftOf(k)}

CompleteMove ==
  LET k == purger.key IN
  /\ purger.pc = "move"
  /\ MoveReady(k)
  /\ moved' = Ledger(k)
  /\ packs' = [packs EXCEPT ![k] = [p \in Packs |-> IF @[p].st = "receiving" THEN NoRow ELSE @[p]]]
  /\ wf' = [wf EXCEPT ![k].at[1] = wf[k].to, ![k].to = None]
  /\ purger' = Idle
  /\ UNCHANGED <<refs, files, push, fetch, spent, resent>>

(* What moves left is deleted once its grace has passed.                   *)
MovedObjectsDue ==
  LET due == {m \in moved : m.left = 0} IN
  /\ purger = Idle /\ due # {}
  /\ files' = files \ {m.file : m \in due}
  /\ purger' = [pc |-> "forget", gone |-> due]
  /\ UNCHANGED <<wf, refs, packs, moved, push, fetch, spent, resent>>

MovedObjectsGone ==
  /\ purger.pc = "forget"
  /\ moved' = moved \ purger.gone
  /\ purger' = Idle
  /\ UNCHANGED <<wf, refs, packs, files, push, fetch, spent, resent>>

-----------------------------------------------------------------------------
Less(n) == Max({n - 1, 0})
Aged(x) == IF x = Idle THEN x ELSE [x EXCEPT !.left = @ - 1]

(* Time passes, and leaves no push and no fetch behind.                    *)
Tick ==
  /\ \A q \in Pushes : push[q] # Idle => push[q].left > 0
  /\ \A f \in Fetches : fetch[f] # Idle => fetch[f].left > 0
  /\ \/ \E k \in Keys : \E p \in Packs : packs[k][p].left > 0
     \/ \E m \in moved : m.left > 0
  /\ packs' = [k \in Keys |-> [p \in Packs |-> [packs[k][p] EXCEPT !.left = Less(@)]]]
  /\ moved' = {[m EXCEPT !.left = Less(@)] : m \in moved}
  /\ push' = [q \in Pushes |-> Aged(push[q])]
  /\ fetch' = [f \in Fetches |-> Aged(fetch[f])]
  /\ UNCHANGED <<wf, refs, files, purger, spent, resent>>

Init ==
  /\ wf = [k \in Keys |-> [st |-> "none", at |-> None, to |-> None]]
  /\ refs = [k \in Keys |-> [r \in Refs |-> None]]
  /\ packs = [k \in Keys |-> [p \in Packs |-> NoRow]]
  /\ files = {} /\ moved = {}
  /\ push = [q \in Pushes |-> Idle] /\ fetch = [f \in Fetches |-> Idle]
  /\ purger = Idle /\ spent = [b \in DOMAIN Most |-> 0] /\ resent = {}

Request ==
  \/ \E k \in Keys :
       \/ \E place \in Birthplaces : CreateWorkflow(k, place)
       \/ \E name \in Names : RenameWorkflow(k, name)
       \/ \E target \in Namespaces : AskMove(k, target)
       \/ DeleteWorkflow(k)
  \/ \E q \in Pushes :
       \/ \E place \in Places : \E sent \in Sendable \cup {{}} : Judge(q, place, sent)
       \/ GiveUp(q) \/ PushReceives(q) \/ PushWrites(q) \/ Land(q)
  \/ \E f \in Fetches : (\E place \in Places : UploadPack(f, place)) \/ ReadPacks(f) \/ Fetched(f)

PurgeBegins ==
  \/ \E k \in Keys : SupersedePacks(k) \/ DeleteRow(k) \/ Copied(k)
  \/ \E place \in Places : Repack(place)
  \/ CollectablePacks \/ MovedObjectsDue

PurgeGoesOn ==
  \/ RepackReceives \/ RepackWrites \/ Repacked
  \/ Collect \/ PacksCollected
  \/ CompleteMove
  \/ MovedObjectsGone

Next == Request \/ PurgeBegins \/ PurgeGoesOn \/ Abandon \/ Tick

Spec == Init /\ [][Next]_vars

-----------------------------------------------------------------------------
(* Properties.                                                             *)

(***************************************************************************)
(* What a clone needs: every object any ref of a repository names, and all *)
(* its history, is in a pack that is live.  Each push is judged against    *)
(* the packs of one moment and lands in another.                           *)
(***************************************************************************)
ObjectsHeld ==
  \A k \in Keys : \A r \in Refs :
    wf[k].st = "there" /\ refs[k][r] # None => Reach[refs[k][r]] \subseteq Held(k)

(***************************************************************************)
(* A live pack has both its files under the storage name of the namespace  *)
(* its workflow is in, whatever repack, collection, move or push that died *)
(* came before.  A pack received again while moved_objects still named its *)
(* files is left out: nothing takes those rows away, and what they name is *)
(* deleted.                                                                *)
(***************************************************************************)
LivePacksHaveFiles ==
  \A k \in Keys : \A p \in In(k, {"live"}) :
    <<k, p>> \notin resent => FilesOf(StoreOf(k), k, {p}) \subseteq files

(***************************************************************************)
(* The packs a fetch reads hold all the history of the refs it read a      *)
(* moment before, and their files stay where they are until it is done,    *)
(* though the packs are replaced, moved or deleted meanwhile.              *)
(***************************************************************************)
FetchServed ==
  \A f \in Fetches : fetch[f].pc = "reading" =>
    /\ fetch[f].lacks = {}
    /\ \A x \in fetch[f].files : <<x.key, x.pack>> \notin resent => x \in files

(***************************************************************************)
(* A push judged not to be forced takes no ref off its history, although   *)
(* the ref it was judged against may have moved before it lands.           *)
(***************************************************************************)
UnforcedGoesForward ==
  [][\A q \in Pushes : push[q] # Idle /\ push'[q] = Idle /\ ~push[q].forced =>
       \A k \in Keys : \A r \in Refs :
         refs[k][r] # None /\ refs'[k][r] # refs[k][r] => refs[k][r] \in Reach[refs'[k][r]]]_vars
=============================================================================
