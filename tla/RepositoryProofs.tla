-------------------------- MODULE RepositoryProofs --------------------------
(***************************************************************************)
(* The git repositories, for any commits, packs, refs, pushes and fetches, *)
(* any number of packs left alone and any grace: which way a push takes    *)
(* refs, and what the live packs hold.                                     *)
(***************************************************************************)
EXTENDS Repository, FiniteSetTheorems, TLAPS

-----------------------------------------------------------------------------
(* Histories. *)

\* What the history of each commit is, one step further.
Wider(known) == [c \in Commits |-> known[c] \cup UNION {Parents[d] : d \in known[c]}]

\* The shortest history: the commit itself.
Itself == [c \in Commits |-> {c}]

\* A set of numbers that is not empty has a least.
LEMMA Least ==
    ASSUME NEW S \in SUBSET Nat, S # {}
    PROVE  \E n \in S : \A m \in S : n <= m
<1> DEFINE Below == {x \in Nat \X Nat : x[1] < x[2]}
<1>1. IsWellFoundedOn(Below, Nat)
  BY NatLessThanWellFounded DEF OpToRel
<1> HIDE DEF Below
<1>2. PICK n \in S : \A m \in S : <<m, n>> \notin Below
  BY <1>1, WFMin
<1>3. ASSUME NEW m \in S PROVE n <= m
  <2>1. m < n => <<m, n>> \in Below
    BY DEF Below
  <2> QED BY <1>2, <2>1
<1> QED BY <1>3

\* The history is what its definition says, of any length.
LEMMA HistoryExists ==
    ASSUME NEW N \in Nat
    PROVE  \E g : g = [n \in 0..N |-> IF n = 0 THEN Itself ELSE Wider(g[n - 1])]
<1> DEFINE T == {n \in Nat : ~\E g : g = [m \in 0..n |-> IF m = 0 THEN Itself ELSE Wider(g[m - 1])]}
<1> SUFFICES ASSUME T # {} PROVE FALSE
  OBVIOUS
<1>1. PICK n \in T : \A m \in T : n <= m
  BY Least
<1>2. CASE n = 0
  <2> DEFINE h == [m \in 0..0 |-> Itself]
  <2>1. h = [m \in 0..n |-> IF m = 0 THEN Itself ELSE Wider(h[m - 1])]
    BY <1>2
  <2> QED BY <1>1, <2>1
<1>3. CASE n # 0
  <2>1. n - 1 \in Nat /\ n - 1 \notin T
    <3> HIDE DEF T
    <3>1. T \subseteq Nat
      BY DEF T
    <3> QED BY <1>1, <1>3, <3>1
  <2>2. PICK g : g = [m \in 0..(n - 1) |-> IF m = 0 THEN Itself ELSE Wider(g[m - 1])]
    BY <2>1
  <2> DEFINE h == [m \in 0..n |-> IF m = 0 THEN Itself ELSE Wider(g[m - 1])]
  <2>3. \A m \in 0..(n - 1) : h[m] = g[m]
    BY <1>1, <1>3, <2>2
  <2>4. \A m \in 0..n : m # 0 => h[m - 1] = g[m - 1]
    <3>1. ASSUME NEW m \in 0..n, m # 0 PROVE m - 1 \in 0..(n - 1)
      <4>1. n \in Nat
        BY <1>1
      <4> QED BY <3>1, <4>1
    <3> QED BY <2>3, <3>1
  <2>5. h = [m \in 0..n |-> IF m = 0 THEN Itself ELSE Wider(h[m - 1])]
    BY <2>4
  <2> QED BY <1>1, <2>5
<1> QED BY <1>2, <1>3

\* A set of commits that has the parents of each of them has all their history.
LEMMA ReachWithin ==
    ASSUME NEW H \in SUBSET Commits, \A c \in H : Parents[c] \subseteq H, NEW c \in H
    PROVE  Reach[c] \subseteq H
<1> DEFINE N == Cardinality(Commits)
           Ends(g) == g = [n \in 0..N |-> IF n = 0 THEN Itself ELSE Wider(g[n - 1])]
           w == CHOOSE g : Ends(g)
<1>1. N \in Nat
  BY RepositoryAssumption, FS_CardinalityType
<1>2. Ends(w)
  BY <1>1, HistoryExists
<1>3. Reach = w[N]
  BY DEF Reach, Itself, Wider
<1> DEFINE T == {n \in 0..N : ~\A d \in H : w[n][d] \subseteq H}
<1>4. T = {}
  <2> SUFFICES ASSUME T # {} PROVE FALSE
    OBVIOUS
  <2>0. T \subseteq Nat
    BY <1>1
  <2> HIDE DEF w
  <2>1. PICK n \in T : \A m \in T : n <= m
    BY <2>0, Least
  <2>2. CASE n = 0
    <3>1. w[n] = Itself
      BY <1>1, <1>2, <2>2
    <3> QED BY <2>1, <3>1 DEF Itself
  <2>3. CASE n # 0
    <3>1. w[n] = Wider(w[n - 1])
      BY <1>1, <1>2, <2>1, <2>3
    <3>2. \A d \in H : w[n - 1][d] \subseteq H
      BY <1>1, <2>1, <2>3
    <3>3. \A d \in H : Wider(w[n - 1])[d] \subseteq H
      BY <3>2 DEF Wider
    <3> QED BY <2>1, <3>1, <3>3
  <2> QED BY <2>2, <2>3
<1> HIDE DEF w
<1>5. N \in 0..N
  BY <1>1
<1> QED BY <1>3, <1>4, <1>5

-----------------------------------------------------------------------------
(* What every variable may be. *)

\* Refs and the commits they are at, or none.
Commanded == UNION {[on -> Commits \cup {None}] : on \in SUBSET Refs}

\* Where a pack is written.
Shelves == Range(Storage) \X Keys

\* What a push, a fetch and a repack carry, and what a move leaves.
Pushing ==
  [pc: {"receive", "put", "land"}, place: Places, commands: Commanded, forced: BOOLEAN,
   old: Commanded, sent: Sendable \cup {{}}, to: SUBSET Shelves, left: 0..Lasts]

Fetching ==
  [pc: {"packs", "reading"}, ns: Namespaces, key: Keys, lacks: SUBSET Commits,
   wants: SUBSET Commits, files: SUBSET Files, left: 0..Lasts]

Repacking ==
  [pc: {"repack", "put", "swap"}, place: Places, replaced: SUBSET Packs, pack: Packs,
   to: SUBSET Shelves]

Leavings == [ns: Namespaces, file: Files, left: 0..Grace]

\* A workflow that is there has its place, and only such a one moves.
WorkflowsOK ==
  /\ wf \in [Keys -> [st: {"none", "there", "deleted", "gone"},
                      at: Places \cup {None}, to: Namespaces \cup {None}]]
  /\ \A k \in Keys : /\ wf[k].st \in {"there", "deleted"} => wf[k].at \in Places
                     /\ Moving(k) => wf[k].st = "there" /\ wf[k].to \in Namespaces

RefsOK == refs \in [Keys -> [Refs -> Commits \cup {None}]]

PacksOK ==
  packs \in [Keys -> [Packs -> [st: {"none", "receiving", "live", "superseded", "collecting"},
                                left: 0..Grace]]]

StoreOK == files \subseteq Files /\ moved \subseteq Leavings /\ resent \subseteq Keys \X Packs

SpentOK == spent \in [DOMAIN Most -> Nat] /\ \A b \in DOMAIN Most : spent[b] <= Most[b]

\* A push under way is as it was judged.
JudgedOK(p) ==
  /\ p.pc # "land" => p.sent # {}
  /\ DOMAIN p.old = DOMAIN p.commands
  /\ p.forced <=> ~Descends(p.old, p.commands)

\* The pushes, and the fetches.
PushesOK ==
  /\ push \in [Pushes -> Pushing \cup {Idle}]
  /\ \A q \in Pushes : push[q] # Idle => JudgedOK(push[q])

FetchesOK == fetch \in [Fetches -> Fetching \cup {Idle}]

\* What the purger is at; a workflow it copies the objects of is moving.
PurgerOK ==
  \/ purger = Idle
  \/ purger \in Repacking
  \/ purger \in [pc: {"collect"}, claimed: SUBSET (Keys \X Packs)]
  \/ purger \in [pc: {"collected"}, gone: SUBSET (Keys \X Packs)]
  \/ purger \in [pc: {"move"}, key: Keys] /\ Moving(purger.key)
  \/ purger \in [pc: {"forget"}, gone: SUBSET Leavings]

\* All of it.
Types ==
  WorkflowsOK /\ RefsOK /\ PacksOK /\ StoreOK /\ SpentOK /\ PushesOK /\ FetchesOK /\ PurgerOK

\* It begins so.
LEMMA TypesInit == Init => Types
<1> SUFFICES ASSUME Init PROVE Types
  OBVIOUS
<1> USE RepositoryAssumption DEF Init
<1>1. WorkflowsOK
  BY DEF WorkflowsOK, Moving
<1>2. RefsOK /\ PacksOK
  BY DEF RefsOK, PacksOK, NoRow
<1>3. StoreOK /\ SpentOK
  BY DEF StoreOK, SpentOK
<1>4. PushesOK /\ FetchesOK /\ PurgerOK
  BY DEF PushesOK, FetchesOK, PurgerOK
<1> QED BY <1>1, <1>2, <1>3, <1>4 DEF Types

\* Packs are sets of commits, and what is sent is one.
LEMMA PackFacts ==
    /\ \A p \in Packs : p \subseteq Commits
    /\ \A p \in Sendable : p # {} => p \in Packs
<1>1. \A p \in Packs : p \subseteq Commits
  BY RepositoryAssumption DEF Packs
<1>2. ASSUME NEW p \in Sendable, p # {} PROVE p \in Packs
  <2>1. p = UNION {p} /\ {p} \in SUBSET Sendable
    OBVIOUS
  <2> QED BY <1>2, <2>1 DEF Packs
<1> QED BY <1>1, <1>2

\* What packs hold together is a pack.
LEMMA PacksTogether ==
    ASSUME NEW some \in SUBSET Packs, UNION some # {}
    PROVE  UNION some \in Packs
<1> DEFINE all == {s \in Sendable : s \subseteq UNION some}
<1>1. UNION all \subseteq UNION some
  OBVIOUS
<1>2. ASSUME NEW p \in some, NEW c \in p PROVE c \in UNION all
  <2>1. PICK parts \in SUBSET Sendable : p = UNION parts
    BY <1>2 DEF Packs
  <2>2. PICK s \in parts : c \in s
    BY <1>2, <2>1
  <2>3. s \in all
    BY <1>2, <2>1, <2>2
  <2> QED BY <2>2, <2>3
<1>3. UNION some = UNION all
  BY <1>1, <1>2
<1> HIDE DEF all
<1>4. all \in SUBSET Sendable
  BY DEF all
<1> QED BY <1>3, <1>4 DEF Packs

\* What is left, a tick later.
LEMMA LessIs ==
    ASSUME NEW n \in Nat
    PROVE  Less(n) = IF n = 0 THEN 0 ELSE n - 1
<1> DEFINE m == IF n = 0 THEN 0 ELSE n - 1
<1>1. m \in {n - 1, 0} /\ \A y \in {n - 1, 0} : m >= y
  OBVIOUS
<1>2. \A x \in {n - 1, 0} : (\A y \in {n - 1, 0} : x >= y) => x = m
  OBVIOUS
<1> HIDE DEF m
<1>3. (CHOOSE x \in {n - 1, 0} : \A y \in {n - 1, 0} : x >= y) = m
  BY <1>1, <1>2
<1>4. Less(n) = m
  BY <1>3 DEF Less, Max
<1> QED BY <1>4 DEF m

\* A place with another name, and with another namespace.
LEMMA Placed == \A a \in Places : \A x : [a EXCEPT ![2] = x] = <<a[1], x>> /\ [a EXCEPT ![1] = x] = <<x, a[2]>>
  BY DEF Places

\* A pack's row.
RowRecord == [st: {"none", "receiving", "live", "superseded", "collecting"}, left: 0..Grace]

\* A row that is written is one.
LEMMA RowType ==
    /\ NoRow \in RowRecord
    /\ \A st \in {"none", "receiving", "live", "superseded", "collecting"} :
          Row(st) \in RowRecord /\ Row(st).st = st
  BY RepositoryAssumption DEF Row, NoRow, RowRecord

\* A workflow that is there, or deleted and not yet purged, is stored somewhere.
LEMMA StoreType ==
    ASSUME Types, NEW k \in Keys, wf[k].st \in {"there", "deleted"}
    PROVE  StoreOf(k) \in Range(Storage) /\ wf[k].at \in Places /\ wf[k].at[1] \in Namespaces
<1>1. wf[k].at \in Places
  BY DEF Types, WorkflowsOK
<1>2. wf[k].at[1] \in Namespaces
  BY <1>1 DEF Places
<1> QED BY <1>1, <1>2, RepositoryAssumption DEF StoreOf, Range

\* A row received, or made live, is a row.
LEMMA PackRows ==
    ASSUME Types, NEW k \in Keys, NEW p
    PROVE  /\ p \in Packs /\ ReceivePack(k, p) => PacksOK' /\ resent' \subseteq Keys \X Packs
           /\ p \in Packs \cup {{}} /\ PackLive(k, p) => PacksOK'
<1>0. packs \in [Keys -> [Packs -> RowRecord]] /\ resent \subseteq Keys \X Packs
  BY DEF Types, PacksOK, StoreOK, RowRecord
<1>1. ASSUME NEW x \in RowRecord, p \in Packs PROVE [packs EXCEPT ![k][p] = x] \in [Keys -> [Packs -> RowRecord]]
  BY <1>0, <1>1
<1>2. \A st \in {"receiving", "live"} : p \in Packs =>
         [packs EXCEPT ![k][p] = Row(st)] \in [Keys -> [Packs -> RowRecord]]
  BY <1>1, RowType
<1>3. ASSUME p \in Packs, ReceivePack(k, p) PROVE PacksOK'
  BY <1>0, <1>2, <1>3 DEF ReceivePack, Received, PacksOK, RowRecord
<1>4. ASSUME p \in Packs, ReceivePack(k, p) PROVE resent' \subseteq Keys \X Packs
  BY <1>0, <1>4 DEF ReceivePack
<1>5. ASSUME p \in Packs \cup {{}}, PackLive(k, p) PROVE PacksOK'
  <2>1. CASE p = {}
    BY <1>0, <1>5, <2>1 DEF PackLive, PacksOK, RowRecord
  <2>2. CASE p # {}
    BY <1>0, <1>2, <1>5, <2>2 DEF PackLive, PacksOK, RowRecord
  <2> QED BY <2>1, <2>2
<1> QED BY <1>3, <1>4, <1>5

\* The files of packs.
LEMMA FilesType ==
    ASSUME NEW store \in Range(Storage), NEW k \in Keys, NEW names \in SUBSET Packs
    PROVE  FilesOf(store, k, names) \subseteq Files
<1>1. \A p \in names, part \in Parts : File(store, k, p, part) \in Files
  BY DEF File, Files
<1> QED BY <1>1 DEF FilesOf

\* Files are put on shelves.
LEMMA PutType ==
    ASSUME Types, NEW to \in SUBSET Shelves, NEW p \in Packs, NEW parts \in SUBSET Parts, Put(to, p, parts)
    PROVE  files' \subseteq Files
<1>1. ASSUME NEW w \in to, NEW part \in parts PROVE File(w[1], w[2], p, part) \in Files
  BY DEF Shelves, File, Files
<1> QED BY <1>1 DEF Put, Types, StoreOK

\* The step of one push.
LEMMA PushMoves ==
    ASSUME Types, NEW q \in Pushes, NEW p \in Pushing \cup {Idle}, p # Idle => JudgedOK(p),
           push' = [push EXCEPT ![q] = p]
    PROVE  PushesOK'
<1>1. push \in [Pushes -> Pushing \cup {Idle}] /\ \A x \in Pushes : push[x] # Idle => JudgedOK(push[x])
  BY DEF Types, PushesOK
<1>2. push' \in [Pushes -> Pushing \cup {Idle}]
  BY <1>1
<1>3. ASSUME NEW x \in Pushes, push'[x] # Idle PROVE JudgedOK(push'[x])
  BY <1>1, <1>3
<1>4. \A x \in Pushes : push'[x] # Idle => JudgedOK(push'[x])
  BY <1>3
<1> QED BY <1>2, <1>4 DEF PushesOK, JudgedOK

\* What a push may be, where it is at something.
LEMMA PushAt ==
    ASSUME Types, NEW q \in Pushes, push[q].pc # "idle"
    PROVE  push[q] \in Pushing /\ JudgedOK(push[q]) /\ push[q] # Idle
  BY DEF Types, PushesOK, Idle

\* The purger moves what it left moving.
LEMMA PurgerStands ==
    ASSUME Types, purger' = purger, \A k \in Keys : Moving(k) => Moving(k)'
    PROVE  PurgerOK'
<1>1. CASE purger \in [pc: {"move"}, key: Keys] /\ Moving(purger.key)
  <2>1. PICK k \in Keys : k = purger.key
    BY <1>1
  <2>2. Moving(k)'
    BY <1>1, <2>1
  <2> QED BY <1>1, <2>1, <2>2 DEF PurgerOK, Moving
<1>2. CASE ~(purger \in [pc: {"move"}, key: Keys] /\ Moving(purger.key))
  BY <1>2 DEF Types, PurgerOK
<1> QED BY <1>1, <1>2

\* A row of workflows is written.
LEMMA WorkflowWritten ==
    ASSUME Types, NEW k \in Keys, ~Moving(k),
           NEW w \in [st: {"none", "there", "deleted", "gone"},
                      at: Places \cup {None}, to: Namespaces \cup {None}],
           w.st \in {"there", "deleted"} => w.at \in Places,
           w.to # None => w.st = "there" /\ w.to \in Namespaces,
           wf' = [wf EXCEPT ![k] = w], purger' = purger
    PROVE  WorkflowsOK' /\ PurgerOK'
<1>0. /\ wf \in [Keys -> [st: {"none", "there", "deleted", "gone"},
                          at: Places \cup {None}, to: Namespaces \cup {None}]]
      /\ \A j \in Keys : /\ wf[j].st \in {"there", "deleted"} => wf[j].at \in Places
                         /\ Moving(j) => wf[j].st = "there" /\ wf[j].to \in Namespaces
  BY DEF Types, WorkflowsOK
<1>1. \A j \in Keys : wf'[j] = IF j = k THEN w ELSE wf[j]
  BY <1>0
<1>2. \A j \in Keys : Moving(j) => Moving(j)'
  BY <1>1 DEF Moving
<1>3. WorkflowsOK'
  BY <1>0, <1>1 DEF WorkflowsOK, Moving
<1> QED BY <1>2, <1>3, PurgerStands

\* What is spent stays within bounds.
LEMMA SpendType ==
    ASSUME Types, NEW b \in {"push", "change", "failure"}, Spend(b)
    PROVE  SpentOK'
<1>1. PICK D : D = DOMAIN Most
  OBVIOUS
<1>2. b \in D /\ \A a \in D : Most[a] \in Nat
  BY <1>1, RepositoryAssumption
<1>3. spent \in [D -> Nat] /\ \A a \in D : spent[a] <= Most[a]
  BY <1>1 DEF Types, SpentOK
<1>4. spent[b] < Most[b] /\ spent' = [spent EXCEPT ![b] = @ + 1]
  BY DEF Spend
<1>5. spent' \in [D -> Nat]
  BY <1>2, <1>3, <1>4
<1>6. ASSUME NEW a \in D PROVE spent'[a] <= Most[a]
  BY <1>2, <1>3, <1>4
<1> QED BY <1>1, <1>5, <1>6 DEF SpentOK

\* A row of workflows as it may be.
WorkflowRow(w) ==
    /\ w \in [st: {"none", "there", "deleted", "gone"},
              at: Places \cup {None}, to: Namespaces \cup {None}]
    /\ w.st \in {"there", "deleted"} => w.at \in Places
    /\ w.to # None => w.st = "there" /\ w.to \in Namespaces

\* Requests on workflows.
LEMMA TypesWorkflows ==
    ASSUME Types, NEW k \in Keys,
           \/ \E place \in Birthplaces : CreateWorkflow(k, place)
           \/ \E name \in Names : RenameWorkflow(k, name)
           \/ \E target \in Namespaces : AskMove(k, target)
           \/ DeleteWorkflow(k) \/ DeleteRow(k)
    PROVE  Types'
<1>0. WorkflowRow(wf[k])
  BY DEF Types, WorkflowsOK, WorkflowRow, Moving
<1>1. PICK w : wf' = [wf EXCEPT ![k] = w] /\ WorkflowRow(w)
  <2> DEFINE Goal == \E w : wf' = [wf EXCEPT ![k] = w] /\ WorkflowRow(w)
  <2>1. ASSUME NEW place \in Birthplaces, CreateWorkflow(k, place) PROVE Goal
    <3>1. place \in Places
      BY RepositoryAssumption DEF Places
    <3>2. WorkflowRow([st |-> "there", at |-> place, to |-> None])
      BY <3>1 DEF WorkflowRow
    <3> QED BY <2>1, <3>2 DEF CreateWorkflow
  <2>2. ASSUME NEW name \in Names, RenameWorkflow(k, name) PROVE Goal
    <3>1. PICK a \in Places : a = wf[k].at
      BY <1>0, <2>2 DEF RenameWorkflow, WorkflowRow
    <3>2. PICK b \in Places : b = [a EXCEPT ![2] = name]
      <4>1. <<a[1], name>> \in Places
        BY DEF Places
      <4> QED BY <4>1, Placed
    <3>3. wf' = [wf EXCEPT ![k] = [wf[k] EXCEPT !.at = b]]
      BY <2>2, <3>1, <3>2 DEF RenameWorkflow, Types, WorkflowsOK
    <3>4. WorkflowRow([wf[k] EXCEPT !.at = b])
      BY <1>0, <2>2 DEF WorkflowRow, RenameWorkflow
    <3> QED BY <3>3, <3>4
  <2>3. ASSUME NEW target \in Namespaces, AskMove(k, target) PROVE Goal
    <3>1. wf' = [wf EXCEPT ![k] = [wf[k] EXCEPT !.to = target]]
      BY <2>3 DEF AskMove, Types, WorkflowsOK
    <3>2. WorkflowRow([wf[k] EXCEPT !.to = target])
      BY <1>0, <2>3 DEF WorkflowRow, AskMove
    <3> QED BY <3>1, <3>2
  <2>4. ASSUME DeleteWorkflow(k) PROVE Goal
    <3>1. wf' = [wf EXCEPT ![k] = [wf[k] EXCEPT !.st = "deleted"]]
      BY <2>4 DEF DeleteWorkflow, Types, WorkflowsOK
    <3>2. WorkflowRow([wf[k] EXCEPT !.st = "deleted"])
      BY <1>0, <2>4 DEF WorkflowRow, DeleteWorkflow, Moving
    <3> QED BY <3>1, <3>2
  <2>5. ASSUME DeleteRow(k) PROVE Goal
    <3>1. WorkflowRow([st |-> "gone", at |-> None, to |-> None])
      BY DEF WorkflowRow
    <3> QED BY <2>5, <3>1 DEF DeleteRow
  <2> QED BY <2>1, <2>2, <2>3, <2>4, <2>5
<1>2. /\ ~Moving(k) /\ purger' = purger
      /\ UNCHANGED <<packs, files, moved, resent, push, fetch>>
  BY <1>0 DEF CreateWorkflow, RenameWorkflow, AskMove, DeleteWorkflow, DeleteRow, WorkflowRow, Moving
<1>3. WorkflowsOK' /\ PurgerOK'
  BY <1>1, <1>2, WorkflowWritten DEF WorkflowRow
<1>4. PacksOK' /\ StoreOK' /\ PushesOK' /\ FetchesOK'
  BY <1>2 DEF Types, PacksOK, StoreOK, PushesOK, FetchesOK
<1>5. RefsOK'
  <2>1. refs' = refs \/ DeleteRow(k)
    BY DEF CreateWorkflow, RenameWorkflow, AskMove, DeleteWorkflow
  <2> QED BY <2>1 DEF Types, RefsOK, DeleteRow
<1>6. SpentOK'
  <2>1. spent' = spent \/ Spend("change")
    BY DEF CreateWorkflow, RenameWorkflow, AskMove, DeleteWorkflow, DeleteRow
  <2> QED BY <2>1, SpendType DEF Types, SpentOK
<1> QED BY <1>3, <1>4, <1>5, <1>6 DEF Types

\* The commands of a push, and the refs they found, are refs and commits.
LEMMA CommandsType ==
    ASSUME Types, NEW k \in Keys, NEW c \in Commands(refs[k])
    PROVE  c \in Commanded /\ [r \in DOMAIN c |-> refs[k][r]] \in Commanded /\ DOMAIN c \subseteq Refs
<1>1. PICK on \in SUBSET Refs : c \in [on -> Commits \cup {None}]
  BY DEF Commands
<1>2. [r \in on |-> refs[k][r]] \in [on -> Commits \cup {None}]
  BY DEF Types, RefsOK
<1> QED BY <1>1, <1>2 DEF Commanded

\* The steps of pushes.
LEMMA TypesPushes ==
    ASSUME Types, NEW q \in Pushes,
           \/ \E place \in Places : \E sent \in Sendable \cup {{}} : Judge(q, place, sent)
           \/ GiveUp(q) \/ PushReceives(q) \/ PushWrites(q) \/ Land(q)
    PROVE  Types'
<1>0. WorkflowsOK' /\ FetchesOK' /\ PurgerOK'
  <2>1. wf' = wf /\ fetch' = fetch /\ purger' = purger
    BY DEF Judge, GiveUp, PushReceives, PushWrites, Land
  <2>2. WorkflowsOK' /\ FetchesOK'
    BY <2>1 DEF Types, WorkflowsOK, FetchesOK, Moving
  <2> QED BY <2>1, <2>2, PurgerStands DEF Moving
<1>1. ASSUME NEW place \in Places, NEW sent \in Sendable \cup {{}}, Judge(q, place, sent)
      PROVE  Types'
  <2>1. PICK k \in Found(place) : \E c \in Commands(refs[k]) :
              push' = [push EXCEPT ![q] =
                [pc |-> IF sent = {} THEN "land" ELSE "receive", place |-> place, commands |-> c,
                 forced |-> ~Descends(refs[k], c),
                 old |-> [r \in DOMAIN c |-> refs[k][r]], sent |-> sent, to |-> {}, left |-> Lasts]]
    BY <1>1 DEF Judge
  <2>2. PICK c \in Commands(refs[k]) :
              push' = [push EXCEPT ![q] =
                [pc |-> IF sent = {} THEN "land" ELSE "receive", place |-> place, commands |-> c,
                 forced |-> ~Descends(refs[k], c),
                 old |-> [r \in DOMAIN c |-> refs[k][r]], sent |-> sent, to |-> {}, left |-> Lasts]]
    BY <2>1
  <2>3. k \in Keys
    BY DEF Found
  <2>4. PICK old : old = [r \in DOMAIN c |-> refs[k][r]]
    OBVIOUS
  <2>5. c \in Commanded /\ old \in Commanded /\ DOMAIN old = DOMAIN c
    BY <2>3, <2>4, CommandsType
  <2>6. Descends(refs[k], c) <=> Descends(old, c)
    BY <2>4 DEF Descends
  <2>7. PICK f \in BOOLEAN : f <=> ~Descends(old, c)
    OBVIOUS
  <2>8. PICK p : p = [pc |-> IF sent = {} THEN "land" ELSE "receive", place |-> place, commands |-> c,
                      forced |-> f, old |-> old, sent |-> sent, to |-> {}, left |-> Lasts]
    OBVIOUS
  <2>9. (~Descends(refs[k], c)) = f
    BY <2>6, <2>7 DEF Descends
  <2>10. push' = [push EXCEPT ![q] = p]
    BY <2>2, <2>4, <2>8, <2>9
  <2>11. p \in Pushing
    BY <2>5, <2>8, RepositoryAssumption DEF Pushing
  <2>12. JudgedOK(p)
    BY <2>5, <2>7, <2>8 DEF JudgedOK
  <2>13. PushesOK'
    BY <2>10, <2>11, <2>12, PushMoves
  <2>14. UNCHANGED <<refs, packs, files, moved, resent>> /\ Spend("push")
    BY <1>1 DEF Judge
  <2>15. RefsOK' /\ PacksOK' /\ StoreOK' /\ SpentOK'
    BY <2>14, SpendType DEF Types, RefsOK, PacksOK, StoreOK
  <2> QED BY <1>0, <2>13, <2>15 DEF Types
<1>2. ASSUME GiveUp(q) PROVE Types'
  <2>1. PushesOK'
    BY <1>2, PushMoves DEF GiveUp
  <2> QED BY <1>0, <1>2, <2>1 DEF Types, GiveUp, RefsOK, PacksOK, StoreOK, SpentOK
<1>3. ASSUME PushReceives(q) PROVE Types'
  <2>1. PICK k \in Found(push[q].place) :
              /\ ReceivePack(k, push[q].sent)
              /\ push' = [push EXCEPT ![q].pc = "put", ![q].to = {<<StoreOf(k), k>>}]
    BY <1>3 DEF PushReceives
  <2>2. k \in Keys /\ wf[k].st = "there"
    BY DEF Found
  <2>3. push[q] \in Pushing /\ JudgedOK(push[q]) /\ push[q].pc = "receive"
    BY <1>3, PushAt DEF PushReceives
  <2>4. push[q].sent \in Packs
    BY <2>3, PackFacts DEF Pushing, JudgedOK
  <2>5. PICK w \in Shelves : w = <<StoreOf(k), k>>
    BY <2>2, StoreType DEF Shelves
  <2>6. PICK p : p = [push[q] EXCEPT !.pc = "put", !.to = {w}]
    OBVIOUS
  <2>7. p \in Pushing /\ JudgedOK(p)
    BY <2>3, <2>6 DEF Pushing, JudgedOK
  <2>8. push' = [push EXCEPT ![q] = p]
    BY <2>1, <2>5, <2>6 DEF Types, PushesOK
  <2>9. PushesOK' /\ PacksOK' /\ resent' \subseteq Keys \X Packs
    BY <2>1, <2>2, <2>4, <2>7, <2>8, PushMoves, PackRows
  <2> QED BY <1>0, <1>3, <2>9 DEF Types, PushReceives, RefsOK, StoreOK, SpentOK
<1>4. ASSUME PushWrites(q) PROVE Types'
  <2>1. push[q] \in Pushing /\ JudgedOK(push[q]) /\ push[q].pc = "put"
    BY <1>4, PushAt DEF PushWrites
  <2>2. push[q].sent \in Packs /\ push[q].to \in SUBSET Shelves
    BY <2>1, PackFacts DEF Pushing, JudgedOK
  <2>3. files' \subseteq Files
    BY <1>4, <2>2, PutType DEF PushWrites, Parts
  <2>4. PICK p : p = [push[q] EXCEPT !.pc = "land"]
    OBVIOUS
  <2>5. p \in Pushing /\ JudgedOK(p)
    BY <2>1, <2>4 DEF Pushing, JudgedOK
  <2>6. push' = [push EXCEPT ![q] = p] \/ push' = [push EXCEPT ![q] = Idle]
    BY <1>4, <2>4 DEF PushWrites, Types, PushesOK
  <2>7. PushesOK'
    BY <2>5, <2>6, PushMoves
  <2> QED BY <1>0, <1>4, <2>3, <2>7 DEF Types, PushWrites, RefsOK, PacksOK, StoreOK, SpentOK
<1>5. ASSUME Land(q) PROVE Types'
  <2>1. PICK k \in Found(push[q].place) :
              UpdateRefs(k, push[q].old, push[q].commands) /\ PackLive(k, push[q].sent)
    BY <1>5 DEF Land
  <2>2. k \in Keys /\ push[q] \in Pushing
    BY <1>5, PushAt DEF Found, Land
  <2>3. PICK c : c = push[q].commands
    OBVIOUS
  <2>4. PICK on \in SUBSET Refs : c \in [on -> Commits \cup {None}]
    BY <2>2, <2>3 DEF Pushing, Commanded
  <2>5. refs \in [Keys -> [Refs -> Commits \cup {None}]]
    BY DEF Types, RefsOK
  <2>6. PICK new : new = [r \in Refs |-> IF r \in DOMAIN c THEN c[r] ELSE refs[k][r]]
    OBVIOUS
  <2>7. new \in [Refs -> Commits \cup {None}] /\ refs' = [refs EXCEPT ![k] = new]
    BY <2>1, <2>2, <2>3, <2>4, <2>5, <2>6 DEF UpdateRefs
  <2>8. RefsOK'
    BY <2>2, <2>5, <2>7 DEF RefsOK
  <2>9. push[q].sent \in Packs \cup {{}}
    BY <2>2, PackFacts DEF Pushing
  <2>10. PacksOK'
    BY <2>1, <2>2, <2>9, PackRows
  <2>11. PushesOK'
    BY <1>5, PushMoves DEF Land
  <2> QED BY <1>0, <1>5, <2>8, <2>10, <2>11 DEF Types, Land, StoreOK, SpentOK
<1> QED BY <1>1, <1>2, <1>3, <1>4, <1>5

\* The steps of fetches.
LEMMA TypesFetches ==
    ASSUME Types, NEW f \in Fetches,
           (\E place \in Places : UploadPack(f, place)) \/ ReadPacks(f) \/ Fetched(f)
    PROVE  Types'
<1>0. /\ fetch \in [Fetches -> Fetching \cup {Idle}]
      /\ UNCHANGED <<wf, refs, packs, files, moved, push, purger, spent, resent>>
  BY DEF Types, FetchesOK, UploadPack, ReadPacks, Fetched
<1>a. PurgerOK'
  BY <1>0, PurgerStands DEF Moving
<1>b. WorkflowsOK' /\ RefsOK' /\ PacksOK' /\ StoreOK' /\ SpentOK' /\ PushesOK'
  BY <1>0 DEF Types, WorkflowsOK, RefsOK, PacksOK, StoreOK, SpentOK, PushesOK, Moving
<1>c. PICK x \in Fetching \cup {Idle} : fetch' = [fetch EXCEPT ![f] = x]
  <2>1. ASSUME NEW place \in Places, UploadPack(f, place)
        PROVE  \E x \in Fetching \cup {Idle} : fetch' = [fetch EXCEPT ![f] = x]
    <3>1. PICK k \in Found(place) :
              fetch' = [fetch EXCEPT ![f] =
                [pc |-> "packs", ns |-> place[1], key |-> k, lacks |-> {},
                 wants |-> UNION {Reach[c] : c \in Range(refs[k]) \ {None}}, files |-> {}, left |-> Lasts]]
      BY <2>1 DEF UploadPack
    <3>2. k \in Keys /\ place[1] \in Namespaces
      BY DEF Found, Places
    <3>3. Range(refs[k]) \ {None} \subseteq Commits
      BY <3>2 DEF Types, RefsOK, Range
    <3>4. \A c \in Commits : Reach[c] \subseteq Commits
      BY ReachWithin, RepositoryAssumption
    <3>5. PICK w \in SUBSET Commits : w = UNION {Reach[c] : c \in Range(refs[k]) \ {None}}
      BY <3>3, <3>4
    <3>6. PICK x : x = [pc |-> "packs", ns |-> place[1], key |-> k, lacks |-> {},
                        wants |-> w, files |-> {}, left |-> Lasts]
      OBVIOUS
    <3>7. x \in Fetching
      BY <3>2, <3>6, RepositoryAssumption DEF Fetching
    <3> QED BY <3>1, <3>5, <3>6, <3>7
  <2>2. ASSUME ReadPacks(f) PROVE \E x \in Fetching \cup {Idle} : fetch' = [fetch EXCEPT ![f] = x]
    <3>1. PICK k : k = fetch[f].key
      OBVIOUS
    <3>2. PICK live : live = IF wf[k].at # None /\ wf[k].at[1] = fetch[f].ns THEN In(k, {"live"}) ELSE {}
      OBVIOUS
    <3>3. /\ fetch[f].pc = "packs"
          /\ fetch' = [fetch EXCEPT ![f] =
               IF live = {} THEN Idle
               ELSE [@ EXCEPT !.pc = "reading", !.wants = {}, !.lacks = fetch[f].wants \ UNION live,
                              !.files = FilesOf(StoreOf(k), k, live)]]
      BY <2>2, <3>1, <3>2 DEF ReadPacks
    <3>4. fetch[f] \in Fetching
      BY <1>0, <3>3 DEF Idle
    <3>5. CASE live = {}
      BY <3>3, <3>5
    <3>6. CASE live # {}
      <4>1. k \in Keys
        BY <3>1, <3>4 DEF Fetching
      <4>2. live \subseteq Packs /\ wf[k].at # None
        BY <3>2, <3>6 DEF In
      <4>3. wf[k].at \in Places
        BY <4>1, <4>2 DEF Types, WorkflowsOK
      <4>4. StoreOf(k) \in Range(Storage)
        BY <4>3, RepositoryAssumption DEF StoreOf, Range, Places
      <4>5. PICK s \in SUBSET Files : s = FilesOf(StoreOf(k), k, live)
        BY <4>1, <4>2, <4>4, FilesType
      <4>6. PICK w : w = fetch[f].wants \ UNION live
        OBVIOUS
      <4>7. w \in SUBSET Commits
        BY <3>4, <4>6 DEF Fetching
      <4>8. PICK x : x = [fetch[f] EXCEPT !.pc = "reading", !.wants = {}, !.lacks = w, !.files = s]
        OBVIOUS
      <4>9. x \in Fetching
        BY <3>4, <4>7, <4>8 DEF Fetching
      <4> QED BY <3>3, <3>6, <4>5, <4>6, <4>8, <4>9
    <3> QED BY <3>5, <3>6
  <2> QED BY <2>1, <2>2 DEF Fetched
<1>d. FetchesOK'
  BY <1>0, <1>c DEF FetchesOK
<1> QED BY <1>a, <1>b, <1>d DEF Types

\* Time passes.
LEMMA TypesTick ==
    ASSUME Types, Tick
    PROVE  Types'
<1>0. /\ UNCHANGED <<wf, refs, files, purger, spent, resent>>
      /\ packs' = [k \in Keys |-> [p \in Packs |-> [packs[k][p] EXCEPT !.left = Less(@)]]]
      /\ moved' = {[m EXCEPT !.left = Less(@)] : m \in moved}
      /\ push' = [q \in Pushes |-> Aged(push[q])] /\ fetch' = [f \in Fetches |-> Aged(fetch[f])]
      /\ \A q \in Pushes : push[q] # Idle => push[q].left > 0
      /\ \A f \in Fetches : fetch[f] # Idle => fetch[f].left > 0
  BY DEF Tick
<1>a. PurgerOK'
  BY <1>0, PurgerStands DEF Moving
<1>b. WorkflowsOK' /\ RefsOK' /\ SpentOK'
  BY <1>0 DEF Types, WorkflowsOK, RefsOK, SpentOK, Moving
<1>1. Grace \in Nat /\ \A n \in 0..Grace : Less(n) \in 0..Grace
  BY LessIs, RepositoryAssumption
<1>2. PacksOK'
  <2>1. ASSUME NEW k \in Keys, NEW p \in Packs PROVE [packs[k][p] EXCEPT !.left = Less(@)] \in RowRecord
    BY <1>1 DEF Types, PacksOK, RowRecord
  <2> QED BY <1>0, <2>1 DEF PacksOK, RowRecord
<1>3. StoreOK'
  <2>1. ASSUME NEW m \in moved PROVE [m EXCEPT !.left = Less(@)] \in Leavings
    BY <1>1 DEF Types, StoreOK, Leavings
  <2> QED BY <1>0, <2>1 DEF Types, StoreOK
<1>4. PushesOK'
  <2>1. ASSUME NEW q \in Pushes
        PROVE  Aged(push[q]) \in Pushing \cup {Idle} /\ (Aged(push[q]) # Idle => JudgedOK(Aged(push[q])))
    <3>1. CASE push[q] = Idle
      BY <3>1 DEF Aged
    <3>2. CASE push[q] # Idle
      <4>1. push[q] \in Pushing /\ JudgedOK(push[q]) /\ push[q].left > 0
        BY <1>0, <3>2 DEF Types, PushesOK
      <4>2. PICK n \in 0..Lasts : n = push[q].left - 1
        BY <4>1, RepositoryAssumption DEF Pushing
      <4>3. Aged(push[q]) = [push[q] EXCEPT !.left = n]
        BY <3>2, <4>2 DEF Aged
      <4>4. [push[q] EXCEPT !.left = n] \in Pushing /\ JudgedOK([push[q] EXCEPT !.left = n])
        BY <4>1 DEF Pushing, JudgedOK
      <4> QED BY <4>3, <4>4
    <3> QED BY <3>1, <3>2
  <2>2. push' \in [Pushes -> Pushing \cup {Idle}]
    BY <1>0, <2>1
  <2>3. ASSUME NEW q \in Pushes, push'[q] # Idle PROVE JudgedOK(push'[q])
    <3>1. push'[q] = Aged(push[q])
      BY <1>0
    <3> QED BY <2>1, <2>3, <3>1
  <2>4. \A q \in Pushes : push'[q] # Idle => JudgedOK(push'[q])
    BY <2>3
  <2> QED BY <2>2, <2>4 DEF PushesOK, JudgedOK
<1>5. FetchesOK'
  <2>1. ASSUME NEW f \in Fetches PROVE Aged(fetch[f]) \in Fetching \cup {Idle}
    <3>1. CASE fetch[f] = Idle
      BY <3>1 DEF Aged
    <3>2. CASE fetch[f] # Idle
      <4>1. fetch[f] \in Fetching /\ fetch[f].left > 0
        BY <1>0, <3>2 DEF Types, FetchesOK
      <4>2. PICK n \in 0..Lasts : n = fetch[f].left - 1
        BY <4>1, RepositoryAssumption DEF Fetching
      <4>3. Aged(fetch[f]) = [fetch[f] EXCEPT !.left = n]
        BY <3>2, <4>2 DEF Aged
      <4> QED BY <4>1, <4>3 DEF Fetching
    <3> QED BY <3>1, <3>2
  <2> QED BY <1>0, <2>1 DEF FetchesOK
<1> QED BY <1>a, <1>b, <1>2, <1>3, <1>4, <1>5 DEF Types

\* What the purger is at.
LEMMA PurgerAt ==
    ASSUME Types
    PROVE  /\ purger.pc \in {"repack", "put", "swap"} => purger \in Repacking
           /\ purger.pc = "collect" => purger \in [pc: {"collect"}, claimed: SUBSET (Keys \X Packs)]
           /\ purger.pc = "collected" => purger \in [pc: {"collected"}, gone: SUBSET (Keys \X Packs)]
           /\ purger.pc = "move" => purger \in [pc: {"move"}, key: Keys] /\ Moving(purger.key)
           /\ purger.pc = "forget" => purger \in [pc: {"forget"}, gone: SUBSET Leavings]
  BY DEF Types, PurgerOK, Repacking, Idle

\* A repack is a repack's.
LEMMA RepackOK ==
    ASSUME purger' \in Repacking \/ purger' = Idle
    PROVE  PurgerOK'
  BY DEF PurgerOK, Repacking

\* The purger's steps on packs of repositories.
LEMMA TypesRepack ==
    ASSUME Types,
           \/ Abandon \/ RepackReceives \/ RepackWrites \/ Repacked
           \/ \E place \in Places : Repack(place)
    PROVE  Types'
<1>0. WorkflowsOK' /\ RefsOK' /\ PushesOK' /\ FetchesOK'
  <2>1. UNCHANGED <<wf, refs, push, fetch>>
    BY DEF Abandon, RepackReceives, RepackWrites, Repacked, Repack
  <2> QED BY <2>1 DEF Types, WorkflowsOK, RefsOK, PushesOK, FetchesOK, Moving
<1>1. ASSUME Abandon PROVE Types'
  <2>1. SpentOK' /\ PurgerOK'
    BY <1>1, SpendType, RepackOK DEF Abandon
  <2> QED BY <1>0, <1>1, <2>1 DEF Types, Abandon, PacksOK, StoreOK
<1>2. ASSUME NEW place \in Places, Repack(place) PROVE Types'
  <2>1. PICK k \in Found(place) :
              /\ Cardinality(In(k, {"live"})) > RepackAbove
              /\ purger' = [pc |-> "repack", place |-> place, replaced |-> In(k, {"live"}),
                            pack |-> Held(k), to |-> {}]
    BY <1>2 DEF Repack
  <2>2. PICK live \in SUBSET Packs : live = In(k, {"live"})
    BY DEF In
  <2>3. live # {}
    <3>1. Cardinality({}) = 0
      BY FS_EmptySet
    <3>2. ~(0 > RepackAbove)
      BY RepositoryAssumption
    <3> QED BY <2>1, <2>2, <3>1, <3>2
  <2>4. UNION live \in Packs
    <3>1. PICK p \in live : p # {}
      BY <2>3 DEF Packs
    <3>2. UNION live # {}
      BY <3>1
    <3> QED BY <3>2, PacksTogether
  <2>5. Held(k) = UNION live
    BY <2>2 DEF Held
  <2>6. purger' \in Repacking
    BY <2>1, <2>2, <2>4, <2>5 DEF Repacking
  <2>7. PurgerOK'
    BY <2>6, RepackOK
  <2> QED BY <1>0, <1>2, <2>7 DEF Types, Repack, PacksOK, StoreOK, SpentOK
<1>3. ASSUME RepackReceives PROVE Types'
  <2>0. purger \in Repacking /\ purger.pack \in Packs
    BY <1>3, PurgerAt DEF RepackReceives, Repacking
  <2>1. CASE \E k \in Found(purger.place) : ~Moving(k) /\ packs[k][purger.pack].st # "collecting"
    <3>1. PICK k \in Found(purger.place) :
                /\ ReceivePack(k, purger.pack)
                /\ purger' = [purger EXCEPT !.pc = "put", !.to = {<<StoreOf(k), k>>}]
      BY <1>3, <2>1 DEF RepackReceives
    <3>2. k \in Keys /\ wf[k].st = "there"
      BY DEF Found
    <3>3. PICK w \in Shelves : w = <<StoreOf(k), k>>
      BY <3>2, StoreType DEF Shelves
    <3>4. purger' = [purger EXCEPT !.pc = "put", !.to = {w}]
      BY <3>1, <3>3
    <3>5. purger' \in Repacking
      BY <2>0, <3>4 DEF Repacking
    <3>6. PurgerOK' /\ PacksOK' /\ resent' \subseteq Keys \X Packs
      BY <2>0, <3>1, <3>2, <3>5, RepackOK, PackRows
    <3> QED BY <1>0, <1>3, <3>6 DEF Types, RepackReceives, StoreOK, SpentOK
  <2>2. CASE ~\E k \in Found(purger.place) : ~Moving(k) /\ packs[k][purger.pack].st # "collecting"
    <3>1. purger' = Idle /\ packs' = packs /\ resent' = resent
      BY <1>3, <2>2 DEF RepackReceives
    <3>2. PurgerOK'
      BY <3>1, RepackOK
    <3> QED BY <1>0, <1>3, <3>1, <3>2 DEF Types, RepackReceives, StoreOK, SpentOK, PacksOK
  <2> QED BY <2>1, <2>2
<1>4. ASSUME RepackWrites PROVE Types'
  <2>0. purger \in Repacking /\ purger.pack \in Packs /\ purger.to \in SUBSET Shelves
    BY <1>4, PurgerAt DEF RepackWrites, Repacking
  <2>1. \/ Put(purger.to, purger.pack, Parts) /\ purger' = [purger EXCEPT !.pc = "swap"] /\ spent' = spent
        \/ Put(purger.to, purger.pack, {"pack"}) /\ purger' = Idle /\ Spend("failure")
    BY <1>4 DEF RepackWrites
  <2>2. files' \subseteq Files
    BY <2>0, <2>1, PutType DEF Parts
  <2>3. purger' \in Repacking \/ purger' = Idle
    BY <2>0, <2>1 DEF Repacking
  <2>4. PurgerOK'
    BY <2>3, RepackOK
  <2>5. SpentOK'
    BY <2>1, SpendType DEF Types, SpentOK
  <2> QED BY <1>0, <1>4, <2>2, <2>4, <2>5 DEF Types, RepackWrites, PacksOK, StoreOK
<1>5. ASSUME Repacked PROVE Types'
  <2>1. purger' = Idle /\ UNCHANGED <<files, moved, resent, spent>>
    BY <1>5 DEF Repacked
  <2>2. PurgerOK'
    BY <2>1, RepackOK
  <2>3. packs \in [Keys -> [Packs -> RowRecord]]
    BY DEF Types, PacksOK, RowRecord
  <2>4. ASSUME NEW k \in Keys PROVE Swapped(k, purger.pack, purger.replaced) \in [Packs -> RowRecord]
    BY <2>3, RowType DEF Swapped
  <2>5. PacksOK'
    BY <1>5, <2>3, <2>4 DEF Repacked, PacksOK, RowRecord
  <2> QED BY <1>0, <2>1, <2>2, <2>5 DEF Types, StoreOK, SpentOK
<1> QED BY <1>1, <1>2, <1>3, <1>4, <1>5

\* The collection, and the packs of workflows deleted.
LEMMA TypesCollect ==
    ASSUME Types,
           \/ CollectablePacks \/ Collect \/ PacksCollected
           \/ \E k \in Keys : SupersedePacks(k)
    PROVE  Types'
<1>0. WorkflowsOK' /\ RefsOK' /\ PushesOK' /\ FetchesOK'
  <2>1. UNCHANGED <<wf, refs, push, fetch>>
    BY DEF CollectablePacks, Collect, PacksCollected, SupersedePacks
  <2> QED BY <2>1 DEF Types, WorkflowsOK, RefsOK, PushesOK, FetchesOK, Moving
<1>a. packs \in [Keys -> [Packs -> RowRecord]]
  BY DEF Types, PacksOK, RowRecord
<1>1. ASSUME CollectablePacks PROVE Types'
  <2>1. PICK c : c = {x \in Keys \X Packs : x[2] \in Due(x[1])}
    OBVIOUS
  <2>2. /\ purger' = [pc |-> "collect", claimed |-> c]
        /\ packs' = [k \in Keys |-> [p \in Packs |-> IF p \in Due(k) THEN Row("collecting") ELSE packs[k][p]]]
        /\ UNCHANGED <<files, moved, resent, spent>>
    BY <1>1, <2>1 DEF CollectablePacks
  <2>3. PurgerOK'
    BY <2>1, <2>2 DEF PurgerOK
  <2>4. PacksOK'
    BY <1>a, <2>2, RowType DEF PacksOK, RowRecord
  <2> QED BY <1>0, <2>2, <2>3, <2>4 DEF Types, StoreOK, SpentOK
<1>2. ASSUME Collect PROVE Types'
  <2>0. purger \in [pc: {"collect"}, claimed: SUBSET (Keys \X Packs)]
    BY <1>2, PurgerAt DEF Collect
  <2>1. PICK all, of : /\ \/ /\ files' = files \ all
                             /\ purger' = [pc |-> "collected", gone |-> purger.claimed] /\ spent' = spent
                          \/ /\ Spend("failure")
                             /\ \E x \in purger.claimed :
                                  /\ \E refused : files' = files \ (all \ refused)
                                  /\ purger' = [pc |-> "collected", gone |-> purger.claimed \ {x}]
                       /\ UNCHANGED <<packs, moved, resent>>
    BY <1>2 DEF Collect
  <2>2. files' \subseteq files /\ SpentOK'
    BY <2>1, SpendType DEF Types, SpentOK
  <2>3. PICK g \in SUBSET (Keys \X Packs) : purger' = [pc |-> "collected", gone |-> g]
    BY <2>0, <2>1
  <2>4. PurgerOK'
    BY <2>3 DEF PurgerOK
  <2> QED BY <1>0, <2>1, <2>2, <2>4 DEF Types, StoreOK, PacksOK
<1>3. ASSUME PacksCollected PROVE Types'
  <2>1. purger' = Idle /\ UNCHANGED <<files, moved, resent, spent>>
    BY <1>3 DEF PacksCollected
  <2>2. PurgerOK'
    BY <2>1, RepackOK
  <2>3. PacksOK'
    BY <1>3, <1>a, RowType DEF PacksCollected, PacksOK, RowRecord
  <2> QED BY <1>0, <2>1, <2>2, <2>3 DEF Types, StoreOK, SpentOK
<1>4. ASSUME NEW k \in Keys, SupersedePacks(k) PROVE Types'
  <2>1. UNCHANGED <<purger, files, moved, resent, spent, wf>>
    BY <1>4 DEF SupersedePacks
  <2>2. PurgerOK'
    BY <2>1, PurgerStands DEF Moving
  <2>3. PICK m : m = [p \in Packs |->
           IF packs[k][p].st \in {"receiving", "live"} THEN Row("superseded") ELSE packs[k][p]]
    OBVIOUS
  <2>4. packs' = [packs EXCEPT ![k] = m] /\ m \in [Packs -> RowRecord]
    BY <1>4, <1>a, <2>3, RowType DEF SupersedePacks
  <2>5. PacksOK'
    BY <1>a, <2>4 DEF PacksOK, RowRecord
  <2> QED BY <1>0, <2>1, <2>2, <2>5 DEF Types, StoreOK, SpentOK
<1> QED BY <1>1, <1>2, <1>3, <1>4

\* The files a move copies, and what it leaves.
LEMMA MoveTypes ==
    ASSUME Types, NEW k \in Keys, Moving(k)
    PROVE  /\ \A names : \A x \in ObjectsOf(k, names) : [x EXCEPT !.store = Storage[wf[k].to]] \in Files
           /\ LeftOf(k) \subseteq Files
           /\ wf[k].at \in Places /\ wf[k].to \in Namespaces /\ wf[k].st = "there"
           /\ Ledger(k) \subseteq Leavings
<1>1. wf[k].at \in Places /\ wf[k].to \in Namespaces /\ wf[k].st = "there"
  BY DEF Types, WorkflowsOK
<1>2. Storage[wf[k].to] \in Range(Storage)
  BY <1>1, RepositoryAssumption DEF Range
<1>3. ASSUME NEW names, NEW x \in ObjectsOf(k, names)
      PROVE  [x EXCEPT !.store = Storage[wf[k].to]] \in Files
  <2>1. x \in Files
    BY DEF ObjectsOf, Types, StoreOK
  <2> QED BY <1>2, <2>1 DEF Files
<1>4. LeftOf(k) \subseteq Files
  <2>1. StoreOf(k) \in Range(Storage)
    BY <1>1, StoreType
  <2>2. Packs \ In(k, {"none"}) \in SUBSET Packs
    OBVIOUS
  <2> QED BY <2>1, <2>2, FilesType DEF LeftOf
<1>5. Ledger(k) \subseteq Leavings
  <2>1. wf[k].at[1] \in Namespaces
    BY <1>1 DEF Places
  <2>2. ASSUME NEW f \in LeftOf(k) PROVE [ns |-> wf[k].at[1], file |-> f, left |-> Grace] \in Leavings
    BY <1>4, <2>1, RepositoryAssumption DEF Leavings
  <2> QED BY <2>2 DEF Ledger, Types, StoreOK
<1> QED BY <1>1, <1>3, <1>4, <1>5

\* Moves.
LEMMA TypesMoves ==
    ASSUME Types,
           CompleteMove \/ MovedObjectsDue \/ MovedObjectsGone \/ \E k \in Keys : Copied(k)
    PROVE  Types'
<1>0. RefsOK' /\ PushesOK' /\ FetchesOK'
  <2>1. UNCHANGED <<refs, push, fetch>>
    BY DEF CompleteMove, MovedObjectsDue, MovedObjectsGone, Copied
  <2> QED BY <2>1 DEF Types, RefsOK, PushesOK, FetchesOK
<1>1. ASSUME NEW k \in Keys, Copied(k) PROVE Types'
  <2>0. /\ Moving(k) /\ purger = Idle
        /\ UNCHANGED <<wf, packs, moved, resent>>
    BY <1>1 DEF Copied
  <2>1. PICK names : /\ files' = files \cup {[x EXCEPT !.store = Storage[wf[k].to]] : x \in ObjectsOf(k, names)}
                     /\ \/ purger' = [pc |-> "move", key |-> k] /\ spent' = spent
                        \/ purger' = purger /\ Spend("failure")
    BY <1>1 DEF Copied
  <2>2. files' \subseteq Files
    BY <2>0, <2>1, MoveTypes DEF Types, StoreOK
  <2>3. SpentOK'
    BY <2>1, SpendType DEF Types, SpentOK
  <2>4. Moving(k)'
    BY <2>0 DEF Moving
  <2>5. PurgerOK'
    <3>1. CASE purger' = purger
      BY <2>0, <3>1, RepackOK
    <3>2. CASE purger' = [pc |-> "move", key |-> k]
      BY <2>4, <3>2 DEF PurgerOK, Moving
    <3> QED BY <2>1, <3>1, <3>2
  <2> QED BY <1>0, <2>0, <2>2, <2>3, <2>5 DEF Types, WorkflowsOK, PacksOK, StoreOK, Moving
<1>2. ASSUME CompleteMove PROVE Types'
  <2>0. purger.pc = "move"
    BY <1>2 DEF CompleteMove
  <2>1. PICK k \in Keys : k = purger.key /\ Moving(k)
    BY <2>0, PurgerAt
  <2>2. /\ moved' = Ledger(k)
        /\ packs' = [packs EXCEPT ![k] = [p \in Packs |-> IF @[p].st = "receiving" THEN NoRow ELSE @[p]]]
        /\ wf' = [wf EXCEPT ![k].at[1] = wf[k].to, ![k].to = None]
        /\ purger' = Idle
        /\ UNCHANGED <<files, spent, resent>>
    BY <1>2, <2>1 DEF CompleteMove
  <2>3. PICK a \in Places : a = wf[k].at /\ wf[k].to \in Namespaces /\ wf[k].st = "there"
    BY <2>1, MoveTypes
  <2>4. PICK b \in Places : b = [a EXCEPT ![1] = wf[k].to]
    <3>1. <<wf[k].to, a[2]>> \in Places
      BY <2>3 DEF Places
    <3> QED BY <3>1, Placed
  <2>5. PICK w : w = [wf[k] EXCEPT !.at = b, !.to = None]
    OBVIOUS
  <2>6. wf' = [wf EXCEPT ![k] = w]
    BY <2>2, <2>3, <2>4, <2>5 DEF Types, WorkflowsOK
  <2>7. WorkflowRow(w)
    BY <2>3, <2>5 DEF Types, WorkflowsOK, WorkflowRow
  <2>8. WorkflowsOK'
    BY <2>6, <2>7 DEF Types, WorkflowsOK, WorkflowRow, Moving
  <2>9. packs \in [Keys -> [Packs -> RowRecord]]
    BY DEF Types, PacksOK, RowRecord
  <2>10. PICK m : m = [p \in Packs |-> IF packs[k][p].st = "receiving" THEN NoRow ELSE packs[k][p]]
    OBVIOUS
  <2>11. m \in [Packs -> RowRecord] /\ packs' = [packs EXCEPT ![k] = m]
    BY <2>2, <2>9, <2>10, RowType
  <2>12. PacksOK'
    BY <2>9, <2>11 DEF PacksOK, RowRecord
  <2>13. StoreOK'
    BY <2>1, <2>2, MoveTypes DEF Types, StoreOK
  <2>14. PurgerOK' /\ SpentOK'
    BY <2>2, RepackOK DEF Types, SpentOK
  <2> QED BY <1>0, <2>8, <2>12, <2>13, <2>14 DEF Types
<1>3. ASSUME MovedObjectsDue \/ MovedObjectsGone PROVE Types'
  <2>0. UNCHANGED <<wf, packs, spent, resent>>
    BY <1>3 DEF MovedObjectsDue, MovedObjectsGone
  <2>1. files' \subseteq files /\ moved' \subseteq moved
    BY <1>3 DEF MovedObjectsDue, MovedObjectsGone
  <2>2. PurgerOK'
    <3>1. CASE MovedObjectsGone
      BY <3>1, RepackOK DEF MovedObjectsGone
    <3>2. CASE MovedObjectsDue
      <4>1. PICK due \in SUBSET moved : purger' = [pc |-> "forget", gone |-> due]
        BY <3>2 DEF MovedObjectsDue
      <4>2. due \in SUBSET Leavings
        BY DEF Types, StoreOK
      <4> QED BY <4>1, <4>2 DEF PurgerOK
    <3> QED BY <1>3, <3>1, <3>2
  <2> QED BY <1>0, <2>0, <2>1, <2>2 DEF Types, WorkflowsOK, PacksOK, StoreOK, SpentOK, Moving
<1> QED BY <1>1, <1>2, <1>3

\* No step leaves the types.
LEMMA TypesStep == Types /\ [Next]_vars => Types'
<1> SUFFICES ASSUME Types, [Next]_vars PROVE Types'
  OBVIOUS
<1>1. CASE UNCHANGED vars
  BY <1>1 DEF vars, Types, WorkflowsOK, RefsOK, PacksOK, StoreOK, SpentOK, PushesOK, FetchesOK, PurgerOK, Moving
<1>2. ASSUME Request PROVE Types'
  BY <1>2, TypesWorkflows, TypesPushes, TypesFetches DEF Request
<1>3. ASSUME PurgeBegins PROVE Types'
  BY <1>3, TypesWorkflows, TypesRepack, TypesCollect, TypesMoves DEF PurgeBegins
<1>4. ASSUME PurgeGoesOn \/ Abandon PROVE Types'
  BY <1>4, TypesRepack, TypesCollect, TypesMoves DEF PurgeGoesOn
<1> QED BY <1>1, <1>2, <1>3, <1>4, TypesTick DEF Next

(***************************************************************************)
(* Whatever other pushes landed since it was judged, and whatever became   *)
(* of the repository, a push that was not forced takes no ref off its      *)
(* history: UpdateRefs compares every ref with what it was judged against. *)
(***************************************************************************)
THEOREM UnforcedGoesForwardHolds == Spec => UnforcedGoesForward
<1> DEFINE A == \A q \in Pushes : push[q] # Idle /\ push'[q] = Idle /\ ~push[q].forced =>
                  \A k \in Keys : \A r \in Refs :
                    refs[k][r] # None /\ refs'[k][r] # refs[k][r] => refs[k][r] \in Reach[refs'[k][r]]
<1>1. Types /\ [Next]_vars => Types'
  BY TypesStep
<1>2. Types /\ [Next]_vars => A
  <2> SUFFICES ASSUME Types, [Next]_vars, NEW q \in Pushes, push[q] # Idle, push'[q] = Idle, ~push[q].forced,
                      NEW k \in Keys, NEW r \in Refs, refs[k][r] # None, refs'[k][r] # refs[k][r]
               PROVE  refs[k][r] \in Reach[refs'[k][r]]
    OBVIOUS
  <2>1. PICK x \in Pushes : Land(x)
    <3>1. refs' # refs /\ push' # push
      OBVIOUS
    <3> QED BY <3>1 DEF Next, vars, Request, PurgeBegins, PurgeGoesOn, CreateWorkflow, RenameWorkflow,
                AskMove, DeleteWorkflow, Judge, GiveUp, PushReceives, PushWrites, UploadPack, ReadPacks,
                Fetched, SupersedePacks, DeleteRow, Copied, Repack, CollectablePacks, MovedObjectsDue,
                RepackReceives, RepackWrites, Repacked, Collect, PacksCollected, CompleteMove,
                MovedObjectsGone, Abandon, Tick
  <2>2. x = q
    BY <2>1 DEF Land, Types, PushesOK
  <2>3. PICK j \in Found(push[q].place) : UpdateRefs(j, push[q].old, push[q].commands)
    BY <2>1, <2>2 DEF Land
  <2>4. push[q] \in Pushing /\ JudgedOK(push[q])
    BY DEF Types, PushesOK
  <2>5. PICK c, old : c = push[q].commands /\ old = push[q].old
    OBVIOUS
  <2>6. j \in Keys /\ refs \in [Keys -> [Refs -> Commits \cup {None}]]
    BY DEF Found, Types, RefsOK
  <2>7. j = k /\ r \in DOMAIN c /\ refs'[k][r] = c[r] /\ refs[k][r] = old[r]
    BY <2>3, <2>5, <2>6 DEF UpdateRefs
  <2>8. Descends(old, c)
    BY <2>4, <2>5 DEF JudgedOK, Pushing
  <2> QED BY <2>7, <2>8 DEF Descends
<1>3. Types /\ [Next]_vars => [A]_vars
  BY <1>2
<1>4. Spec => [][A]_vars
  BY <1>1, <1>3, TypesInit, PTL DEF Spec
<1> QED
  BY <1>4 DEF UnforcedGoesForward

-----------------------------------------------------------------------------
(* What a repository holds. *)

\* The names of repositories lead to one of them only.
OneRepository == \A j, k \in Keys : j = k

\* The live packs of a repository hold its refs and, of what they hold, the parents.
Whole(k) ==
    /\ \A c \in Held(k) : Parents[c] \subseteq Held(k)
    /\ \A r \in Refs : refs[k][r] # None => refs[k][r] \in Held(k)

\* Nothing is anywhere of a repository that is not there yet.
Unborn ==
    /\ \A k \in Keys : In(k, {"live"}) = {} /\ \A r \in Refs : refs[k][r] = None
    /\ \A q \in Pushes : push[q] = Idle
    /\ \A f \in Fetches : fetch[f] = Idle
    /\ purger.pc \notin {"repack", "put", "swap"}

\* What a push was judged by is still held.
StillConnected(k, q) == Connected(push[q].sent, Range(push[q].commands) \ {None}, Held(k))

\* A repack copies all that the packs hold that it replaces, and nothing that is not held.
CopiesHeld(k) ==
    /\ UNION purger.replaced \subseteq purger.pack
    /\ wf[k].st = "there" => purger.pack \subseteq Held(k)

\* What a fetch wants is held, while its workflow is there or has packs to read.
WantsHeld(f, k) ==
    fetch[f].key = k /\ (wf[k].st = "there" \/ In(k, {"live"}) # {}) => fetch[f].wants \subseteq Held(k)

\* The inductive invariant.
HeldInv ==
    /\ Types
    /\ \A k \in Keys : wf[k].st = "there" => Whole(k)
    /\ \A k \in Keys : wf[k].st = "none" => Unborn
    /\ \A k \in Keys, q \in Pushes : wf[k].st = "there" /\ push[q] # Idle => StillConnected(k, q)
    /\ purger.pc \in {"repack", "put", "swap"} => \A k \in Keys : CopiesHeld(k)
    /\ \A f \in Fetches : /\ fetch[f].pc = "packs" => \A k \in Keys : WantsHeld(f, k)
                          /\ fetch[f].pc = "reading" => fetch[f].lacks = {}

\* A pack's row is live after a step that does not land a push, replace packs
\* or give up a repository's, exactly where it was.
LEMMA LiveStands ==
    ASSUME Types, [Next]_vars, ~Repacked, \A q \in Pushes : ~Land(q),
           NEW k \in Keys, ~SupersedePacks(k)
    PROVE  In(k, {"live"})' = In(k, {"live"})
<1> SUFFICES ASSUME NEW p \in Packs PROVE packs'[k][p].st = "live" <=> packs[k][p].st = "live"
  BY DEF In
<1>0. packs \in [Keys -> [Packs -> RowRecord]]
  BY DEF Types, PacksOK, RowRecord
<1>1. Row("receiving").st # "live" /\ Row("collecting").st # "live" /\ NoRow.st # "live" /\ Row("superseded").st # "live"
  BY DEF Row, NoRow
<1>2. ASSUME packs' = packs PROVE packs'[k][p].st = "live" <=> packs[k][p].st = "live"
  BY <1>2
<1>3. ASSUME NEW j \in Keys, NEW o, ReceivePack(j, o) PROVE packs'[k][p].st = "live" <=> packs[k][p].st = "live"
  BY <1>0, <1>1, <1>3 DEF ReceivePack, Received, Receivable
<1>4. ASSUME Request PROVE packs'[k][p].st = "live" <=> packs[k][p].st = "live"
  <2>1. packs' = packs \/ \E q \in Pushes : PushReceives(q)
    BY <1>4 DEF Request, CreateWorkflow, RenameWorkflow, AskMove, DeleteWorkflow, Judge, GiveUp,
                PushWrites, UploadPack, ReadPacks, Fetched
  <2>2. ASSUME NEW q \in Pushes, PushReceives(q) PROVE packs'[k][p].st = "live" <=> packs[k][p].st = "live"
    BY <1>3, <2>2 DEF PushReceives, Found
  <2> QED BY <1>2, <2>1, <2>2
<1>5. ASSUME PurgeBegins PROVE packs'[k][p].st = "live" <=> packs[k][p].st = "live"
  <2>1. packs' = packs \/ CollectablePacks \/ \E j \in Keys : SupersedePacks(j)
    BY <1>5 DEF PurgeBegins, DeleteRow, Copied, Repack, MovedObjectsDue
  <2>2. ASSUME CollectablePacks PROVE packs'[k][p].st = "live" <=> packs[k][p].st = "live"
    <3>1. packs' = [j \in Keys |-> [o \in Packs |-> IF o \in Due(j) THEN Row("collecting") ELSE packs[j][o]]]
      BY <2>2 DEF CollectablePacks
    <3>2. packs'[k][p] = IF p \in Due(k) THEN Row("collecting") ELSE packs[k][p]
      BY <3>1
    <3>3. p \in Due(k) => packs[k][p].st # "live"
      BY DEF Due
    <3> QED BY <1>1, <3>2, <3>3
  <2>3. ASSUME NEW j \in Keys, SupersedePacks(j) PROVE packs'[k][p].st = "live" <=> packs[k][p].st = "live"
    BY <1>0, <2>3 DEF SupersedePacks
  <2> QED BY <1>2, <2>1, <2>2, <2>3
<1>6. ASSUME PurgeGoesOn PROVE packs'[k][p].st = "live" <=> packs[k][p].st = "live"
  <2>1. packs' = packs \/ RepackReceives \/ PacksCollected \/ CompleteMove
    BY <1>6 DEF PurgeGoesOn, RepackWrites, Collect, MovedObjectsGone
  <2>2. ASSUME RepackReceives PROVE packs'[k][p].st = "live" <=> packs[k][p].st = "live"
    <3>1. packs' = packs \/ \E j \in Keys : ReceivePack(j, purger.pack)
      BY <2>2 DEF RepackReceives, Found
    <3> QED BY <1>2, <1>3, <3>1
  <2>3. ASSUME PacksCollected PROVE packs'[k][p].st = "live" <=> packs[k][p].st = "live"
    BY <1>0, <1>1, <2>3 DEF PacksCollected
  <2>4. ASSUME CompleteMove PROVE packs'[k][p].st = "live" <=> packs[k][p].st = "live"
    <3>1. PICK j : packs' = [packs EXCEPT ![j] = [o \in Packs |-> IF @[o].st = "receiving" THEN NoRow ELSE @[o]]]
      BY <2>4 DEF CompleteMove
    <3>2. packs'[k][p] = packs[k][p] \/ (packs[k][p].st = "receiving" /\ packs'[k][p] = NoRow)
      BY <1>0, <3>1
    <3> QED BY <1>1, <3>2
  <2> QED BY <1>2, <2>1, <2>2, <2>3, <2>4
<1>7. ASSUME Tick PROVE packs'[k][p].st = "live" <=> packs[k][p].st = "live"
  <2>1. PICK x : x = packs[k][p]
    OBVIOUS
  <2>2. packs'[k][p] = [x EXCEPT !.left = Less(x.left)]
    BY <1>7, <2>1 DEF Tick
  <2>3. x \in RowRecord
    BY <1>0, <2>1
  <2> QED BY <2>1, <2>2, <2>3 DEF RowRecord
<1>8. ASSUME Abandon \/ UNCHANGED vars PROVE packs'[k][p].st = "live" <=> packs[k][p].st = "live"
  BY <1>2, <1>8 DEF Abandon, vars
<1> QED BY <1>4, <1>5, <1>6, <1>7, <1>8 DEF Next

\* What a step that lands a push makes live is what was sent.
LEMMA LandsLive ==
    ASSUME Types, NEW q \in Pushes, Land(q), NEW k \in Keys
    PROVE  /\ Held(k) \subseteq Held(k)'
           /\ wf[k].st # "there" => In(k, {"live"})' = In(k, {"live"}) /\ refs'[k] = refs[k]
           /\ \/ In(k, {"live"})' = In(k, {"live"}) /\ refs'[k] = refs[k]
              \/ /\ Held(k)' = Held(k) \cup push[q].sent
                 /\ \A r \in Refs : refs'[k][r] # None =>
                      refs'[k][r] = refs[k][r] \/ refs'[k][r] \in Range(push[q].commands) \ {None}
<1>0. packs \in [Keys -> [Packs -> RowRecord]] /\ refs \in [Keys -> [Refs -> Commits \cup {None}]]
  BY DEF Types, PacksOK, RowRecord, RefsOK
<1>1. PICK j \in Found(push[q].place) :
            UpdateRefs(j, push[q].old, push[q].commands) /\ PackLive(j, push[q].sent)
  BY DEF Land
<1>2. j \in Keys /\ wf[j].st = "there" /\ push[q] \in Pushing
  BY PushAt DEF Found, Land
<1>3. PICK c, s : c = push[q].commands /\ s = push[q].sent
  OBVIOUS
<1>4. s \in Packs \cup {{}}
  BY <1>2, <1>3, PackFacts DEF Pushing
<1>5. /\ refs' = [refs EXCEPT ![j] = [r \in Refs |-> IF r \in DOMAIN c THEN c[r] ELSE @[r]]]
      /\ packs' = IF s = {} THEN packs ELSE [packs EXCEPT ![j][s] = Row("live")]
  BY <1>1, <1>3 DEF UpdateRefs, PackLive
<1>6. ASSUME k # j PROVE packs'[k] = packs[k] /\ refs'[k] = refs[k]
  BY <1>0, <1>2, <1>5, <1>6
<1>7. ASSUME k = j PROVE Held(k)' = Held(k) \cup s
  <2>1. CASE s = {}
    BY <1>5, <2>1 DEF Held, In
  <2>2. CASE s # {}
    <3>1. \A p \in Packs : packs'[k][p].st = IF p = s THEN "live" ELSE packs[k][p].st
      BY <1>0, <1>2, <1>5, <1>7, <2>2, RowType
    <3>2. In(k, {"live"})' = In(k, {"live"}) \cup {s}
      BY <1>4, <2>2, <3>1 DEF In
    <3>3. Held(k)' = UNION (In(k, {"live"})')
      BY DEF Held
    <3> QED BY <3>2, <3>3 DEF Held
  <2> QED BY <2>1, <2>2
<1>8. ASSUME k = j, NEW r \in Refs, refs'[k][r] # None
      PROVE  refs'[k][r] = refs[k][r] \/ refs'[k][r] \in Range(c) \ {None}
  BY <1>0, <1>2, <1>5, <1>8 DEF Range
<1>9. CASE k # j
  <2>1. In(k, {"live"})' = In(k, {"live"}) /\ refs'[k] = refs[k]
    BY <1>6, <1>9 DEF In
  <2> QED BY <2>1 DEF Held
<1>10. CASE k = j
  BY <1>2, <1>3, <1>7, <1>8, <1>10
<1> QED BY <1>9, <1>10

\* What a repack makes live was held, and stands for all it replaces.
LEMMA RepackLive ==
    ASSUME Types, Repacked, NEW k \in Keys, CopiesHeld(k)
    PROVE  /\ wf[k].st = "there" => Held(k)' = Held(k)
           /\ wf[k].st # "there" => In(k, {"live"})' = In(k, {"live"})
           /\ refs' = refs
<1>0. packs \in [Keys -> [Packs -> RowRecord]] /\ purger \in Repacking /\ refs' = refs
  BY PurgerAt DEF Types, PacksOK, RowRecord, Repacked
<1>1. PICK pack, old : pack \in Packs /\ pack = purger.pack /\ old = purger.replaced
  BY <1>0 DEF Repacking
<1>2. packs'[k] = IF k \in Found(purger.place) /\ packs[k][pack].st \in {"receiving", "live"}
                  THEN Swapped(k, pack, old) ELSE packs[k]
  BY <1>1 DEF Repacked
<1>3. CASE packs'[k] = packs[k]
  BY <1>0, <1>3 DEF Held, In
<1>4. CASE packs'[k] = Swapped(k, pack, old) /\ wf[k].st = "there"
  <2>1. /\ pack \subseteq Held(k) /\ \A p \in old : p \subseteq pack
    BY <1>1, <1>4 DEF CopiesHeld
  <2>2. /\ packs'[k][pack].st = "live"
        /\ \A p \in Packs : packs'[k][p].st = "live" => p = pack \/ packs[k][p].st = "live"
        /\ \A p \in Packs : packs[k][p].st = "live" => packs'[k][p].st = "live" \/ p \in old
    BY <1>1, <1>4, RowType DEF Swapped
  <2>3. Held(k)' \subseteq Held(k)
    BY <1>1, <2>1, <2>2 DEF Held, In
  <2>4. Held(k) \subseteq Held(k)'
    BY <1>1, <2>1, <2>2 DEF Held, In
  <2> QED BY <1>0, <1>4, <2>3, <2>4
<1> QED BY <1>2, <1>3, <1>4 DEF Found

\* A push under way is the one that was judged.
LEMMA PushWas ==
    ASSUME Types, [Next]_vars, NEW q \in Pushes, push'[q] # Idle
    PROVE  \/ push[q] # Idle /\ push'[q].sent = push[q].sent /\ push'[q].commands = push[q].commands
           \/ \E place \in Places : \E sent \in Sendable \cup {{}} : Judge(q, place, sent)
<1> DEFINE Same == push[q] # Idle /\ push'[q].sent = push[q].sent /\ push'[q].commands = push[q].commands
<1>0. push \in [Pushes -> Pushing \cup {Idle}]
  BY DEF Types, PushesOK
<1>1. CASE push' = push
  BY <1>1
<1>2. ASSUME NEW x \in Pushes, NEW place \in Places, NEW sent \in Sendable \cup {{}}, Judge(x, place, sent)
      PROVE  Same \/ Judge(q, place, sent)
  <2>1. CASE x = q
    BY <1>2, <2>1
  <2>2. CASE x # q
    <3>1. push'[q] = push[q]
      BY <1>0, <1>2, <2>2 DEF Judge
    <3> QED BY <3>1
  <2> QED BY <2>1, <2>2
<1>3. ASSUME NEW x \in Pushes, GiveUp(x) \/ PushReceives(x) \/ PushWrites(x) \/ Land(x) PROVE Same
  <2>1. CASE x # q
    <3>1. push'[q] = push[q]
      BY <1>0, <1>3, <2>1 DEF GiveUp, PushReceives, PushWrites, Land
    <3> QED BY <3>1
  <2>2. CASE x = q
    <3>1. PushReceives(q) \/ PushWrites(q)
      BY <1>0, <1>3, <2>2 DEF GiveUp, Land
    <3>2. push[q] \in Pushing /\ push[q] # Idle
      BY <3>1, PushAt DEF PushReceives, PushWrites
    <3>3. PICK to : push'[q] = [push[q] EXCEPT !.pc = "put", !.to = to] \/ push'[q] = [push[q] EXCEPT !.pc = "land"]
      BY <1>0, <3>1 DEF PushReceives, PushWrites
    <3> QED BY <3>2, <3>3 DEF Pushing
  <2> QED BY <2>1, <2>2
<1>4. ASSUME Tick PROVE Same
  <2>1. push'[q] = Aged(push[q])
    BY <1>4 DEF Tick
  <2>2. push[q] # Idle /\ push[q] \in Pushing
    BY <1>0, <2>1 DEF Aged
  <2>3. push'[q] = [push[q] EXCEPT !.left = @ - 1]
    BY <2>1, <2>2 DEF Aged
  <2> QED BY <2>2, <2>3 DEF Pushing
<1>5. push' = push \/ (\E x \in Pushes : \/ \E place \in Places : \E sent \in Sendable \cup {{}} : Judge(x, place, sent)
                                         \/ GiveUp(x) \/ PushReceives(x) \/ PushWrites(x) \/ Land(x)) \/ Tick
  BY DEF Next, vars, Request, PurgeBegins, PurgeGoesOn, CreateWorkflow, RenameWorkflow,
     AskMove, DeleteWorkflow, UploadPack, ReadPacks, Fetched, SupersedePacks, DeleteRow, Copied, Repack,
     CollectablePacks, MovedObjectsDue, RepackReceives, RepackWrites, Repacked, Collect, PacksCollected,
     CompleteMove, MovedObjectsGone, Abandon
<1> QED BY <1>1, <1>2, <1>3, <1>4, <1>5

\* A fetch wants what it wanted, or begins, or has read the packs.
LEMMA FetchWas ==
    ASSUME Types, [Next]_vars, NEW f \in Fetches, fetch'[f] # Idle
    PROVE  \/ /\ fetch[f] # Idle /\ fetch'[f].pc = fetch[f].pc /\ fetch'[f].key = fetch[f].key
              /\ fetch'[f].wants = fetch[f].wants /\ fetch'[f].lacks = fetch[f].lacks
           \/ \E place \in Places : UploadPack(f, place)
           \/ ReadPacks(f)
<1> DEFINE Same == /\ fetch[f] # Idle /\ fetch'[f].pc = fetch[f].pc /\ fetch'[f].key = fetch[f].key
                   /\ fetch'[f].wants = fetch[f].wants /\ fetch'[f].lacks = fetch[f].lacks
<1>0. fetch \in [Fetches -> Fetching \cup {Idle}]
  BY DEF Types, FetchesOK
<1>1. CASE fetch' = fetch
  BY <1>1
<1>2. ASSUME NEW x \in Fetches, (\E place \in Places : UploadPack(x, place)) \/ ReadPacks(x) \/ Fetched(x)
      PROVE  Same \/ (\E place \in Places : UploadPack(f, place)) \/ ReadPacks(f)
  <2>1. CASE x # f
    <3>1. fetch'[f] = fetch[f]
      BY <1>0, <1>2, <2>1 DEF UploadPack, ReadPacks, Fetched
    <3> QED BY <3>1
  <2>2. CASE x = f
    BY <1>0, <1>2, <2>2 DEF Fetched
  <2> QED BY <2>1, <2>2
<1>3. ASSUME Tick PROVE Same
  <2>1. fetch'[f] = Aged(fetch[f])
    BY <1>3 DEF Tick
  <2>2. fetch[f] # Idle /\ fetch[f] \in Fetching
    BY <1>0, <2>1 DEF Aged
  <2>3. fetch'[f] = [fetch[f] EXCEPT !.left = @ - 1]
    BY <2>1, <2>2 DEF Aged
  <2> QED BY <2>2, <2>3 DEF Fetching
<1>4. fetch' = fetch \/ (\E x \in Fetches : (\E place \in Places : UploadPack(x, place)) \/ ReadPacks(x) \/ Fetched(x)) \/ Tick
  BY DEF Next, vars, Request, PurgeBegins, PurgeGoesOn, CreateWorkflow, RenameWorkflow,
     AskMove, DeleteWorkflow, Judge, GiveUp, PushReceives, PushWrites, Land, SupersedePacks, DeleteRow,
     Copied, Repack, CollectablePacks, MovedObjectsDue, RepackReceives, RepackWrites, Repacked, Collect,
     PacksCollected, CompleteMove, MovedObjectsGone, Abandon
<1> QED BY <1>1, <1>2, <1>3, <1>4

\* A workflow is there that was, or that is created.
LEMMA ThereWas ==
    ASSUME Types, [Next]_vars, NEW k \in Keys
    PROVE  /\ wf'[k].st = "there" => wf[k].st \in {"none", "there"}
           /\ wf'[k].st = "none" => wf[k].st = "none"
           /\ wf[k].st = "none" /\ wf'[k].st = "there" => \E place \in Birthplaces : CreateWorkflow(k, place)
<1>0. wf \in [Keys -> [st: {"none", "there", "deleted", "gone"},
                       at: Places \cup {None}, to: Namespaces \cup {None}]]
  BY DEF Types, WorkflowsOK
<1>1. ASSUME NEW j \in Keys, NEW place \in Birthplaces, CreateWorkflow(j, place)
      PROVE  wf[j].st = "none" /\ wf'[j].st = "there" /\ (j # k => wf'[k] = wf[k])
  BY <1>0, <1>1 DEF CreateWorkflow
<1>2. ASSUME NEW j \in Keys,
             \/ \E name \in Names : RenameWorkflow(j, name)
             \/ \E target \in Namespaces : AskMove(j, target)
             \/ DeleteWorkflow(j) \/ DeleteRow(j)
      PROVE  (wf[k].st = wf'[k].st) \/ (wf[k].st # "none" /\ wf'[k].st \notin {"none", "there"})
  <2>1. CASE DeleteWorkflow(j) \/ DeleteRow(j)
    BY <1>0, <2>1 DEF DeleteWorkflow, DeleteRow
  <2>2. ASSUME NEW name \in Names, RenameWorkflow(j, name) PROVE wf[k].st = wf'[k].st
    <3>1. wf' = [wf EXCEPT ![j] = [wf[j] EXCEPT !.at[2] = name]]
      BY <1>0, <2>2 DEF RenameWorkflow
    <3>2. [wf[j] EXCEPT !.at[2] = name].st = wf[j].st
      BY <1>0
    <3> QED BY <1>0, <3>1, <3>2
  <2>3. ASSUME NEW target \in Namespaces, AskMove(j, target) PROVE wf[k].st = wf'[k].st
    BY <1>0, <2>3 DEF AskMove
  <2> QED BY <1>2, <2>1, <2>2, <2>3
<1>3. ASSUME CompleteMove PROVE wf'[k].st = wf[k].st
  <2>1. PICK j \in Keys : wf' = [wf EXCEPT ![j].at[1] = wf[j].to, ![j].to = None]
    BY <1>3, PurgerAt DEF CompleteMove
  <2>2. wf' = [wf EXCEPT ![j] = [wf[j] EXCEPT !.at[1] = wf[j].to, !.to = None]]
    BY <1>0, <2>1
  <2>3. [wf[j] EXCEPT !.at[1] = wf[j].to, !.to = None].st = wf[j].st
    BY <1>0
  <2> QED BY <1>0, <2>2, <2>3
<1>4. \/ wf' = wf \/ CompleteMove
      \/ \E j \in Keys : \/ \E place \in Birthplaces : CreateWorkflow(j, place)
                         \/ \E name \in Names : RenameWorkflow(j, name)
                         \/ \E target \in Namespaces : AskMove(j, target)
                         \/ DeleteWorkflow(j) \/ DeleteRow(j)
  BY DEF Next, vars, Request, PurgeBegins, PurgeGoesOn, Judge, GiveUp, PushReceives, PushWrites, Land,
     UploadPack, ReadPacks, Fetched, SupersedePacks, Copied, Repack, CollectablePacks, MovedObjectsDue,
     RepackReceives, RepackWrites, Repacked, Collect, PacksCollected, MovedObjectsGone, Abandon, Tick
<1> QED BY <1>1, <1>2, <1>3, <1>4

\* It begins so.
LEMMA HeldInit == Init => HeldInv
<1> SUFFICES ASSUME Init PROVE HeldInv
  OBVIOUS
<1>1. Types
  BY TypesInit
<1>2. \A k \in Keys : wf[k].st = "none" /\ \A r \in Refs : refs[k][r] = None
  BY DEF Init
<1>3. \A k \in Keys : In(k, {"live"}) = {}
  BY DEF Init, In, NoRow
<1>4. /\ \A q \in Pushes : push[q] = Idle
      /\ \A f \in Fetches : fetch[f] = Idle /\ fetch[f].pc = "idle"
      /\ purger.pc = "idle"
  BY DEF Init, Idle
<1> QED BY <1>1, <1>2, <1>3, <1>4 DEF HeldInv, Unborn

\* What a repository holds it goes on holding, until it is deleted; from then
\* on its live packs stay as they are, or go all at once.
LEMMA HeldKept ==
    ASSUME HeldInv, [Next]_vars, NEW k \in Keys
    PROVE  /\ wf[k].st = "there" => Held(k) \subseteq Held(k)'
           /\ wf[k].st # "there" => In(k, {"live"})' = In(k, {"live"}) \/ In(k, {"live"})' = {}
<1>0. Types
  BY DEF HeldInv
<1>1. CASE Repacked
  <2>1. CopiesHeld(k)
    BY <1>1 DEF HeldInv, Repacked
  <2> QED BY <1>0, <1>1, <2>1, RepackLive
<1>2. ASSUME NEW q \in Pushes, Land(q)
      PROVE  /\ wf[k].st = "there" => Held(k) \subseteq Held(k)'
             /\ wf[k].st # "there" => In(k, {"live"})' = In(k, {"live"})
  BY <1>0, <1>2, LandsLive
<1>3. CASE SupersedePacks(k)
  <2>1. packs'[k] = [p \in Packs |-> IF packs[k][p].st \in {"receiving", "live"}
                                     THEN Row("superseded") ELSE packs[k][p]]
    BY <1>0, <1>3 DEF SupersedePacks, Types, PacksOK
  <2>2. Row("superseded").st # "live"
    BY DEF Row
  <2>3. In(k, {"live"})' = {}
    BY <2>1, <2>2 DEF In
  <2> QED BY <1>3, <2>3 DEF SupersedePacks
<1>4. CASE ~Repacked /\ (\A q \in Pushes : ~Land(q)) /\ ~SupersedePacks(k)
  <2>1. In(k, {"live"})' = In(k, {"live"})
    BY <1>0, <1>4, LiveStands
  <2> QED BY <2>1 DEF Held
<1> QED BY <1>1, <1>2, <1>3, <1>4

\* Refs move by a push, and go with their workflow's row.
LEMMA RefsStand ==
    ASSUME Types, [Next]_vars, \A q \in Pushes : ~Land(q), NEW k \in Keys, wf[k].st # "deleted"
    PROVE  refs'[k] = refs[k]
<1>1. refs' = refs \/ \E j \in Keys : DeleteRow(j)
  BY DEF Next, vars, Request, PurgeBegins, PurgeGoesOn, CreateWorkflow, RenameWorkflow,
     AskMove, DeleteWorkflow, Judge, GiveUp, PushReceives, PushWrites, UploadPack, ReadPacks,
     Fetched, SupersedePacks, Copied, Repack, CollectablePacks, MovedObjectsDue,
     RepackReceives, RepackWrites, Repacked, Collect, PacksCollected, CompleteMove,
     MovedObjectsGone, Abandon, Tick
<1>2. ASSUME NEW j \in Keys, DeleteRow(j) PROVE refs'[k] = refs[k]
  BY <1>2 DEF DeleteRow, Types, RefsOK
<1> QED BY <1>1, <1>2

\* A workflow that is there stays whole.
LEMMA WholeStep ==
    ASSUME HeldInv, [Next]_vars, NEW k \in Keys, wf'[k].st = "there"
    PROVE  Whole(k)'
<1>0. Types
  BY DEF HeldInv
<1>1. CASE wf[k].st = "none"
  <2>1. packs' = packs /\ refs' = refs
    BY <1>0, <1>1, ThereWas DEF CreateWorkflow
  <2>2. Unborn
    BY <1>1 DEF HeldInv
  <2>3. Held(k)' = {} /\ \A r \in Refs : refs'[k][r] = None
    BY <2>1, <2>2 DEF Unborn, Held, In
  <2> QED BY <2>3 DEF Whole
<1>2. CASE wf[k].st = "there"
  <2>1. Whole(k)
    BY <1>2 DEF HeldInv
  <2>2. ASSUME Held(k)' = Held(k), refs'[k] = refs[k] PROVE Whole(k)'
    BY <2>1, <2>2 DEF Whole
  <2>3. CASE Repacked
    <3>1. CopiesHeld(k)
      BY <2>3 DEF HeldInv, Repacked
    <3> QED BY <1>0, <1>2, <2>2, <2>3, <3>1, RepackLive
  <2>4. ASSUME NEW q \in Pushes, Land(q) PROVE Whole(k)'
    <3>1. CASE In(k, {"live"})' = In(k, {"live"}) /\ refs'[k] = refs[k]
      BY <2>2, <3>1 DEF Held
    <3>2. CASE /\ Held(k)' = Held(k) \cup push[q].sent
               /\ \A r \in Refs : refs'[k][r] # None =>
                    refs'[k][r] = refs[k][r] \/ refs'[k][r] \in Range(push[q].commands) \ {None}
      <4>1. push[q] # Idle
        BY <2>4 DEF Land, Idle
      <4>2. StillConnected(k, q)
        BY <1>2, <4>1 DEF HeldInv
      <4>3. \A c \in Range(push[q].commands) \ {None} : c \in Held(k)'
        BY <3>2, <4>2 DEF StillConnected, Connected
      <4>4. \A s \in push[q].sent : Parents[s] \subseteq Held(k)'
        BY <3>2, <4>2 DEF StillConnected, Connected
      <4>5. \A c \in Held(k)' : Parents[c] \subseteq Held(k)'
        BY <2>1, <3>2, <4>4 DEF Whole
      <4>6. \A r \in Refs : refs'[k][r] # None => refs'[k][r] \in Held(k)'
        BY <2>1, <3>2, <4>3 DEF Whole
      <4> QED BY <4>5, <4>6 DEF Whole
    <3> QED BY <1>0, <2>4, <3>1, <3>2, LandsLive
  <2>5. CASE ~Repacked /\ \A q \in Pushes : ~Land(q)
    <3>1. ~SupersedePacks(k)
      BY <1>2 DEF SupersedePacks
    <3>2. In(k, {"live"})' = In(k, {"live"}) /\ refs'[k] = refs[k]
      BY <1>0, <1>2, <2>5, <3>1, LiveStands, RefsStand
    <3> QED BY <2>2, <3>2 DEF Held
  <2> QED BY <2>3, <2>4, <2>5
<1> QED BY <1>0, <1>1, <1>2, ThereWas

\* A repack that is under way is the one that began.
LEMMA PurgerWas ==
    ASSUME Types, [Next]_vars, purger'.pc \in {"repack", "put", "swap"}
    PROVE  \/ /\ purger.pc \in {"repack", "put", "swap"}
              /\ purger'.replaced = purger.replaced /\ purger'.pack = purger.pack
           \/ \E place \in Places : Repack(place)
<1> DEFINE Same == /\ purger.pc \in {"repack", "put", "swap"}
                   /\ purger'.replaced = purger.replaced /\ purger'.pack = purger.pack
<1>0. Idle.pc = "idle"
  BY DEF Idle
<1>1. CASE purger' = purger
  BY <1>1
<1>2. ASSUME RepackReceives PROVE Same
  <2>1. purger \in Repacking
    BY <1>2, PurgerAt DEF RepackReceives
  <2>2. PICK to : purger' = [purger EXCEPT !.pc = "put", !.to = to]
    BY <1>0, <1>2 DEF RepackReceives
  <2> QED BY <2>1, <2>2 DEF Repacking
<1>3. ASSUME RepackWrites PROVE Same
  <2>1. purger \in Repacking
    BY <1>3, PurgerAt DEF RepackWrites
  <2>2. purger' = [purger EXCEPT !.pc = "swap"]
    BY <1>0, <1>3 DEF RepackWrites
  <2> QED BY <2>1, <2>2 DEF Repacking
<1>4. \/ purger' = purger \/ RepackReceives \/ RepackWrites
      \/ \E place \in Places : Repack(place)
  <2>1. CASE Request \/ Tick \/ UNCHANGED vars
    BY <2>1 DEF Request, vars, CreateWorkflow, RenameWorkflow, AskMove, DeleteWorkflow, Judge, GiveUp,
       PushReceives, PushWrites, Land, UploadPack, ReadPacks, Fetched, Tick
  <2>2. CASE PurgeBegins \/ Abandon
    BY <1>0, <2>2 DEF PurgeBegins, SupersedePacks, DeleteRow, Copied, CollectablePacks, MovedObjectsDue, Abandon
  <2>3. CASE PurgeGoesOn
    BY <1>0, <2>3 DEF PurgeGoesOn, Repacked, Collect, PacksCollected, CompleteMove, MovedObjectsGone
  <2> QED BY <2>1, <2>2, <2>3 DEF Next
<1> QED BY <1>1, <1>2, <1>3, <1>4

\* Until a repository is there, nothing is anywhere of it.
LEMMA UnbornStep ==
    ASSUME OneRepository, HeldInv, [Next]_vars, NEW j \in Keys, wf'[j].st = "none"
    PROVE  Unborn'
<1>0. Types
  BY DEF HeldInv
<1>1. wf[j].st = "none" /\ Unborn
  BY <1>0, ThereWas DEF HeldInv
<1>2. \A k \in Keys : wf[k].st = "none"
  BY <1>1 DEF OneRepository
<1>3. \A place : Found(place) = {}
  BY <1>2 DEF Found
<1>4. ~Repacked /\ (\A q \in Pushes : ~Land(q)) /\ (\A k \in Keys : ~SupersedePacks(k))
  BY <1>1, <1>2 DEF Unborn, Repacked, Land, SupersedePacks, Idle
<1>5. ASSUME NEW k \in Keys PROVE In(k, {"live"})' = {} /\ \A r \in Refs : refs'[k][r] = None
  <2>1. In(k, {"live"})' = In(k, {"live"})
    BY <1>0, <1>4, LiveStands
  <2>2. refs'[k] = refs[k]
    BY <1>0, <1>2, <1>4, RefsStand
  <2> QED BY <1>1, <2>1, <2>2 DEF Unborn
<1>6. ASSUME NEW q \in Pushes PROVE push'[q] = Idle
  <2>1. \A place \in Places : \A sent \in Sendable \cup {{}} : ~Judge(q, place, sent)
    BY <1>3 DEF Judge
  <2> QED BY <1>0, <1>1, <2>1, PushWas DEF Unborn
<1>7. ASSUME NEW f \in Fetches PROVE fetch'[f] = Idle
  <2>1. (\A place \in Places : ~UploadPack(f, place)) /\ ~ReadPacks(f)
    BY <1>1, <1>3 DEF UploadPack, ReadPacks, Unborn, Idle
  <2> QED BY <1>0, <1>1, <2>1, FetchWas DEF Unborn
<1>8. purger'.pc \notin {"repack", "put", "swap"}
  <2>1. \A place \in Places : ~Repack(place)
    BY <1>3 DEF Repack
  <2> QED BY <1>0, <1>1, <2>1, PurgerWas DEF Unborn
<1> QED BY <1>5, <1>6, <1>7, <1>8 DEF Unborn

\* What a push was judged by is held until it lands.
LEMMA ConnectedStep ==
    ASSUME OneRepository, HeldInv, [Next]_vars, NEW k \in Keys, NEW q \in Pushes,
           wf'[k].st = "there", push'[q] # Idle
    PROVE  StillConnected(k, q)'
<1>0. Types
  BY DEF HeldInv
<1>1. CASE push[q] # Idle /\ push'[q].sent = push[q].sent /\ push'[q].commands = push[q].commands
  <2>1. wf[k].st = "there"
    BY <1>0, <1>1, ThereWas DEF HeldInv, Unborn
  <2>2. StillConnected(k, q) /\ Held(k) \subseteq Held(k)'
    BY <1>1, <2>1, HeldKept DEF HeldInv
  <2>3. Connected(push[q].sent, Range(push[q].commands) \ {None}, Held(k)')
    BY <2>2 DEF StillConnected, Connected
  <2> QED BY <1>1, <2>3 DEF StillConnected, Connected
<1>2. ASSUME NEW place \in Places, NEW sent \in Sendable \cup {{}}, Judge(q, place, sent)
      PROVE  StillConnected(k, q)'
  <2>0. PICK j \in Found(place) : \E c \in Commands(refs[j]) :
                 /\ Connected(sent, Range(c) \ {None}, Held(j))
                 /\ push' = [push EXCEPT ![q] =
                      [pc |-> IF sent = {} THEN "land" ELSE "receive", place |-> place, commands |-> c,
                       forced |-> ~Descends(refs[j], c), old |-> [r \in DOMAIN c |-> refs[j][r]],
                       sent |-> sent, to |-> {}, left |-> Lasts]]
    BY <1>2 DEF Judge
  <2>1. PICK c \in Commands(refs[j]) :
                 /\ Connected(sent, Range(c) \ {None}, Held(j))
                 /\ push' = [push EXCEPT ![q] =
                      [pc |-> IF sent = {} THEN "land" ELSE "receive", place |-> place, commands |-> c,
                       forced |-> ~Descends(refs[j], c), old |-> [r \in DOMAIN c |-> refs[j][r]],
                       sent |-> sent, to |-> {}, left |-> Lasts]]
    BY <2>0
  <2>4. push'[q].sent = sent /\ push'[q].commands = c
    BY <1>0, <2>1 DEF Types, PushesOK
  <2>2. j = k
    BY <2>0 DEF Found, OneRepository
  <2>3. Held(k)' = Held(k)
    BY <1>2 DEF Judge, Held, In
  <2> QED BY <2>1, <2>2, <2>3, <2>4 DEF StillConnected
<1> QED BY <1>0, <1>1, <1>2, PushWas

\* A repack goes on copying what is held.
LEMMA CopiesStep ==
    ASSUME OneRepository, HeldInv, [Next]_vars, NEW k \in Keys, purger'.pc \in {"repack", "put", "swap"}
    PROVE  CopiesHeld(k)'
<1>0. Types
  BY DEF HeldInv
<1>1. CASE /\ purger.pc \in {"repack", "put", "swap"}
           /\ purger'.replaced = purger.replaced /\ purger'.pack = purger.pack
  <2>1. CopiesHeld(k)
    BY <1>1 DEF HeldInv
  <2>2. ASSUME wf'[k].st = "there" PROVE wf[k].st = "there" /\ Held(k) \subseteq Held(k)'
    <3>1. wf[k].st = "there"
      BY <1>0, <1>1, <2>2, ThereWas DEF HeldInv, Unborn
    <3> QED BY <3>1, HeldKept
  <2> QED BY <1>1, <2>1, <2>2 DEF CopiesHeld
<1>2. ASSUME NEW place \in Places, Repack(place) PROVE CopiesHeld(k)'
  <2>1. PICK j \in Found(place) : purger'.replaced = In(j, {"live"}) /\ purger'.pack = Held(j)
    BY <1>2 DEF Repack
  <2>2. j = k
    BY <2>1 DEF Found, OneRepository
  <2>3. Held(k)' = Held(k)
    BY <1>2 DEF Repack, Held, In
  <2> QED BY <2>1, <2>2, <2>3 DEF CopiesHeld, Held
<1> QED BY <1>0, <1>1, <1>2, PurgerWas

\* What refs of a whole repository name is held, with its history.
LEMMA WholeReaches ==
    ASSUME Types, NEW k \in Keys, Whole(k), NEW r \in Refs, refs[k][r] # None
    PROVE  Reach[refs[k][r]] \subseteq Held(k)
<1>1. Held(k) \in SUBSET Commits
  BY PackFacts DEF Held, In
<1> QED BY <1>1, ReachWithin DEF Whole

\* What a fetch wants is held until it has read the packs, and then it lacks nothing.
LEMMA FetchStep ==
    ASSUME OneRepository, HeldInv, [Next]_vars, NEW f \in Fetches
    PROVE  /\ fetch'[f].pc = "packs" => \A k \in Keys : WantsHeld(f, k)'
           /\ fetch'[f].pc = "reading" => fetch'[f].lacks = {}
<1>0. Types /\ fetch \in [Fetches -> Fetching \cup {Idle}]
  BY DEF HeldInv, Types, FetchesOK
<1>1. CASE /\ fetch[f] # Idle /\ fetch'[f].pc = fetch[f].pc /\ fetch'[f].key = fetch[f].key
           /\ fetch'[f].wants = fetch[f].wants /\ fetch'[f].lacks = fetch[f].lacks
  <2>1. ASSUME fetch'[f].pc = "packs", NEW k \in Keys, fetch'[f].key = k,
               wf'[k].st = "there" \/ In(k, {"live"})' # {}
        PROVE  fetch'[f].wants \subseteq Held(k)'
    <3>1. wf[k].st = "there" \/ In(k, {"live"})' = In(k, {"live"})
      <4>1. wf'[k].st = "there" => wf[k].st = "there"
        BY <1>0, <1>1, ThereWas DEF HeldInv, Unborn
      <4> QED BY <2>1, <4>1, HeldKept
    <3>2. WantsHeld(f, k)
      BY <1>1, <2>1 DEF HeldInv
    <3>3. CASE wf[k].st = "there"
      BY <1>1, <2>1, <3>2, <3>3, HeldKept DEF WantsHeld
    <3>4. CASE wf[k].st # "there"
      <4>1. In(k, {"live"})' = In(k, {"live"}) /\ In(k, {"live"}) # {}
        BY <1>0, <1>1, <2>1, <3>1, <3>4, ThereWas DEF HeldInv, Unborn
      <4> QED BY <1>1, <2>1, <3>2, <4>1 DEF WantsHeld, Held
    <3> QED BY <3>3, <3>4
  <2> QED BY <1>1, <2>1 DEF HeldInv, WantsHeld
<1>2. ASSUME NEW place \in Places, UploadPack(f, place)
      PROVE  fetch'[f].pc = "packs" /\ \A k \in Keys : WantsHeld(f, k)'
  <2>1. PICK j \in Found(place) :
          fetch'[f] = [pc |-> "packs", ns |-> place[1], key |-> j, lacks |-> {},
                       wants |-> UNION {Reach[c] : c \in Range(refs[j]) \ {None}}, files |-> {}, left |-> Lasts]
    BY <1>0, <1>2 DEF UploadPack
  <2>2. j \in Keys /\ Whole(j)
    BY <2>1 DEF Found, HeldInv
  <2>3. refs[j] \in [Refs -> Commits \cup {None}]
    BY <1>0, <2>2 DEF Types, RefsOK
  <2>4. \A c \in Range(refs[j]) \ {None} : Reach[c] \subseteq Held(j)
    BY <1>0, <2>2, <2>3, WholeReaches DEF Range
  <2>5. fetch'[f].wants \subseteq Held(j)
    BY <2>1, <2>4
  <2>6. Held(j)' = Held(j)
    BY <1>2 DEF UploadPack, Held, In
  <2> QED BY <2>1, <2>5, <2>6 DEF WantsHeld
<1>3. ASSUME ReadPacks(f), fetch'[f] # Idle PROVE fetch'[f].pc = "reading" /\ fetch'[f].lacks = {}
  <2>1. fetch[f].pc = "packs" /\ fetch[f] \in Fetching
    BY <1>0, <1>3 DEF ReadPacks, Idle
  <2>2. PICK k, live, all : /\ k = fetch[f].key /\ live # {} /\ live = In(k, {"live"})
                            /\ fetch'[f] = [fetch[f] EXCEPT !.pc = "reading", !.wants = {},
                                              !.lacks = fetch[f].wants \ UNION live, !.files = all]
    BY <1>0, <1>3 DEF ReadPacks
  <2>3. fetch[f].wants \subseteq UNION live
    BY <2>1, <2>2 DEF HeldInv, WantsHeld, Held, Fetching
  <2> QED BY <2>1, <2>2, <2>3 DEF Fetching
<1>4. Idle.pc = "idle"
  BY DEF Idle
<1> QED BY <1>0, <1>1, <1>2, <1>3, <1>4, FetchWas

\* No step lets go of what is held.
LEMMA HeldStep == OneRepository /\ HeldInv /\ [Next]_vars => HeldInv'
<1> SUFFICES ASSUME OneRepository, HeldInv, [Next]_vars PROVE HeldInv'
  OBVIOUS
<1>1. Types'
  BY TypesStep DEF HeldInv
<1>2. \A k \in Keys : wf'[k].st = "there" => Whole(k)'
  BY WholeStep
<1>3. \A k \in Keys : wf'[k].st = "none" => Unborn'
  BY UnbornStep
<1>4. \A k \in Keys, q \in Pushes : wf'[k].st = "there" /\ push'[q] # Idle => StillConnected(k, q)'
  BY ConnectedStep
<1>5. purger'.pc \in {"repack", "put", "swap"} => \A k \in Keys : CopiesHeld(k)'
  BY CopiesStep
<1>6. \A f \in Fetches : /\ fetch'[f].pc = "packs" => \A k \in Keys : WantsHeld(f, k)'
                         /\ fetch'[f].pc = "reading" => fetch'[f].lacks = {}
  BY FetchStep
<1> QED BY <1>1, <1>2, <1>3, <1>4, <1>5, <1>6 DEF HeldInv

(***************************************************************************)
(* ObjectsHeld, where names lead to one repository: every object any ref   *)
(* names and its history is in a live pack (db/refs.go, UpdateRefs;        *)
(* repo/store/repack.go), however pushes, repacks, collections, renames,   *)
(* moves and a deletion interleave.  With two it is false: a push may land *)
(* in a repository that has taken the name of the one it was judged in.    *)
(***************************************************************************)
THEOREM ObjectsHeldHolds ==
    ASSUME OneRepository
    PROVE  Spec => []ObjectsHeld
<1>1. HeldInv /\ [Next]_vars => HeldInv'
  BY HeldStep
<1>2. HeldInv => ObjectsHeld
  BY WholeReaches DEF HeldInv, ObjectsHeld
<1> QED BY <1>1, <1>2, HeldInit, PTL DEF Spec

-----------------------------------------------------------------------------
(* The files of what a repository holds. *)

\* No namespace was renamed since its creation: its storage name is its name.
NeverRenamed == \A n \in Namespaces : Storage[n] = n

\* A pack that is stored: a live one, and one replaced that a move would carry.
Keeping(k, p) ==
    packs[k][p].st = "live" \/ (packs[k][p].st = "superseded" /\ wf[k].st = "there")

\* For so many ticks neither the row of a file nor the ledger has it deleted.
Outlives(x, left) ==
    /\ packs[x.key][x.pack].st # "collecting"
    /\ packs[x.key][x.pack].st \in {"receiving", "superseded"} => packs[x.key][x.pack].left > left
    /\ \A m \in moved : m.file = x => m.left > left

\* Of a repository that is not there, there are no packs.
Empty ==
    \A k \in Keys, p \in Packs : wf[k].st \in {"none", "gone"} => packs[k][p].st = "none"

\* What is stored has its files.
Stored ==
    \A k \in Keys, p \in Packs :
        Keeping(k, p) /\ <<k, p>> \notin resent => FilesOf(StoreOf(k), k, {p}) \subseteq files

\* No file that a row stands for is in the ledger, but of a pack received again.
Ledgered ==
    \A k \in Keys, p \in Packs, m \in moved :
        packs[k][p].st # "none" /\ m.file \in FilesOf(StoreOf(k), k, {p}) => <<k, p>> \in resent

\* The ledger's namespaces are those of the files, and a move is to another.
Stores ==
    /\ \A m \in moved : m.file.store = Storage[m.ns]
    /\ \A k \in Keys : Moving(k) => wf[k].to # wf[k].at[1]

\* What the purger removes the files of is claimed.
Claims ==
    purger.pc = "collect" => \A x \in purger.claimed : packs[x[1]][x[2]].st = "collecting"

\* A repack writes where its repository was, and its pack is there before it is live.
RepackWritten ==
    \A k \in Keys :
        /\ purger.pc \in {"put", "swap"} => purger.to = {<<Storage[purger.place[1]], k>>}
        /\ purger.pc = "swap" => FilesOf(Storage[purger.place[1]], k, {purger.pack}) \subseteq files

\* What a move carries is under the target's keys before the rows are.
MoveCopied ==
    purger.pc = "move" =>
        \A p \in Packs : Keeping(purger.key, p) /\ <<purger.key, p>> \notin resent =>
            FilesOf(Storage[wf[purger.key].to], purger.key, {p}) \subseteq files

\* A push writes where its repository was, and what it writes stays until it lands.
PushWritten(q, k) ==
    push[q].pc \in {"put", "land"} /\ push[q].sent # {} =>
        /\ push[q].to = {<<Storage[push[q].place[1]], k>>}
        /\ \A x \in FilesOf(Storage[push[q].place[1]], k, {push[q].sent}) :
              <<k, push[q].sent>> \notin resent =>
                  Outlives(x, push[q].left) /\ (push[q].pc = "land" => x \in files)

\* What a fetch reads stays until it is done.
FetchKept(f) ==
    fetch[f].pc = "reading" =>
        \A x \in fetch[f].files :
            <<x.key, x.pack>> \notin resent => Outlives(x, fetch[f].left) /\ x \in files

\* The inductive invariant.
StoreInv ==
    /\ Types
    /\ Empty /\ Stored /\ Ledgered /\ Stores /\ Claims /\ RepackWritten /\ MoveCopied
    /\ \A q \in Pushes, k \in Keys : PushWritten(q, k)
    /\ \A f \in Fetches : FetchKept(f)

\* A file is what its parts say.
LEMMA FileFacts ==
    ASSUME NEW s, NEW k, NEW p, NEW x \in FilesOf(s, k, {p})
    PROVE  x.store = s /\ x.key = k /\ x.pack = p /\ x.part \in Parts /\ x = File(s, k, p, x.part)
  BY DEF FilesOf, File

\* Whoever receives a pack notes whether the ledger names it.
LEMMA Noted ==
    ASSUME NEW k \in Keys, NEW p, ReceivePack(k, p)
    PROVE  /\ ~Moving(k)
           /\ resent \subseteq resent'
           /\ \A m \in moved : m.file \in FilesOf(StoreOf(k), k, {p}) => <<k, p>> \in resent'
  BY DEF ReceivePack

\* What a step, but a tick, may make of a row.
Became(k, p) ==
    \/ packs'[k][p] = packs[k][p]
    \/ /\ packs'[k][p] = Row("receiving") /\ wf[k].st = "there"
       /\ packs[k][p].st \in {"none", "receiving", "superseded"}
       /\ ReceivePack(k, p) /\ UNCHANGED <<wf, moved, files>>
    \/ /\ packs'[k][p] = Row("live") /\ packs[k][p].st \in {"receiving", "live"}
       /\ \E q \in Pushes : Land(q) /\ k \in Found(push[q].place) /\ p = push[q].sent
    \/ /\ packs'[k][p] = Row("live") /\ packs[k][p].st \in {"receiving", "live"}
       /\ Repacked /\ k \in Found(purger.place) /\ p = purger.pack
    \/ packs'[k][p] = Row("superseded") /\ packs[k][p].st = "live" /\ Repacked
    \/ packs'[k][p] = Row("superseded") /\ packs[k][p].st \in {"receiving", "live"} /\ SupersedePacks(k)
    \/ packs'[k][p] = Row("collecting") /\ p \in Due(k) /\ CollectablePacks
    \/ packs'[k][p] = NoRow /\ packs[k][p].st = "collecting" /\ PacksCollected
    \/ packs'[k][p] = NoRow /\ packs[k][p].st = "receiving" /\ CompleteMove

\* So does the step that receives a pack.
LEMMA RowReceived ==
    ASSUME Types, NEW j \in Keys, NEW o, ReceivePack(j, o), UNCHANGED <<wf, moved, files>>,
           wf[j].st = "there", NEW k \in Keys, NEW p \in Packs
    PROVE  Became(k, p)
<1>0. packs \in [Keys -> [Packs -> RowRecord]]
  BY DEF Types, PacksOK, RowRecord
<1>1. CASE ~(j = k /\ o = p /\ Receivable(k, p))
  <2>1. packs'[k][p] = packs[k][p]
    BY <1>0, <1>1 DEF ReceivePack, Received
  <2> QED BY <2>1 DEF Became
<1>2. CASE j = k /\ o = p /\ Receivable(k, p)
  <2>1. packs'[k][p] = Row("receiving")
    BY <1>0, <1>2 DEF ReceivePack, Received
  <2>2. packs[k][p].st \in {"none", "receiving", "superseded"}
    BY <1>2 DEF Receivable
  <2> QED BY <1>2, <2>1, <2>2 DEF Became
<1> QED BY <1>1, <1>2

\* Every step but a tick makes one of those of it.
LEMMA RowStep ==
    ASSUME Types, [Next]_vars, ~Tick, NEW k \in Keys, NEW p \in Packs
    PROVE  Became(k, p)
<1>0. packs \in [Keys -> [Packs -> RowRecord]]
  BY DEF Types, PacksOK, RowRecord
<1>1. ASSUME packs' = packs PROVE Became(k, p)
  BY <1>1 DEF Became
<1>2. CASE Request
  <2>1. packs' = packs \/ \E q \in Pushes : PushReceives(q) \/ Land(q)
    BY <1>2 DEF Request, CreateWorkflow, RenameWorkflow, AskMove, DeleteWorkflow, Judge, GiveUp,
                PushWrites, UploadPack, ReadPacks, Fetched
  <2>2. ASSUME NEW q \in Pushes, PushReceives(q) PROVE Became(k, p)
    <3>1. PICK j \in Found(push[q].place) : ReceivePack(j, push[q].sent)
      BY <2>2 DEF PushReceives
    <3> QED BY <2>2, <3>1, RowReceived DEF Found, PushReceives
  <2>3. ASSUME NEW q \in Pushes, Land(q) PROVE Became(k, p)
    <3>1. PICK j \in Found(push[q].place) : PackLive(j, push[q].sent)
      BY <2>3 DEF Land
    <3>2. CASE j = k /\ p = push[q].sent /\ push[q].sent # {}
      <4>1. packs'[k][p] = Row("live") /\ packs[k][p].st \in {"receiving", "live"}
        BY <1>0, <3>1, <3>2 DEF PackLive
      <4> QED BY <2>3, <3>1, <3>2, <4>1 DEF Became
    <3>3. CASE ~(j = k /\ p = push[q].sent /\ push[q].sent # {})
      <4>1. packs'[k][p] = packs[k][p]
        BY <1>0, <3>1, <3>3 DEF PackLive
      <4> QED BY <4>1 DEF Became
    <3> QED BY <3>2, <3>3
  <2> QED BY <1>1, <2>1, <2>2, <2>3
<1>3. CASE PurgeBegins
  <2>1. packs' = packs \/ CollectablePacks \/ \E j \in Keys : SupersedePacks(j)
    BY <1>3 DEF PurgeBegins, DeleteRow, Copied, Repack, MovedObjectsDue
  <2>2. CASE CollectablePacks
    <3>1. packs' = [j \in Keys |-> [o \in Packs |-> IF o \in Due(j) THEN Row("collecting") ELSE packs[j][o]]]
      BY <2>2 DEF CollectablePacks
    <3>2. packs'[k][p] = IF p \in Due(k) THEN Row("collecting") ELSE packs[k][p]
      BY <3>1
    <3> QED BY <2>2, <3>2 DEF Became
  <2>3. ASSUME NEW j \in Keys, SupersedePacks(j) PROVE Became(k, p)
    <3>1. CASE j = k
      <4>1. packs'[k][p] = IF packs[k][p].st \in {"receiving", "live"} THEN Row("superseded") ELSE packs[k][p]
        BY <1>0, <2>3, <3>1 DEF SupersedePacks
      <4> QED BY <2>3, <3>1, <4>1 DEF Became
    <3>2. CASE j # k
      <4>1. packs'[k] = packs[k]
        BY <1>0, <2>3, <3>2 DEF SupersedePacks
      <4> QED BY <4>1 DEF Became
    <3> QED BY <3>1, <3>2
  <2> QED BY <1>1, <2>1, <2>2, <2>3
<1>4. CASE PurgeGoesOn
  <2>1. packs' = packs \/ RepackReceives \/ Repacked \/ PacksCollected \/ CompleteMove
    BY <1>4 DEF PurgeGoesOn, RepackWrites, Collect, MovedObjectsGone
  <2>2. CASE RepackReceives
    <3>1. packs' = packs \/ \E j \in Found(purger.place) : ReceivePack(j, purger.pack)
      BY <2>2 DEF RepackReceives
    <3>2. ASSUME NEW j \in Found(purger.place), ReceivePack(j, purger.pack) PROVE Became(k, p)
      BY <2>2, <3>2, RowReceived DEF Found, RepackReceives
    <3> QED BY <1>1, <3>1, <3>2
  <2>3. CASE Repacked
    <3>1. packs'[k] = IF k \in Found(purger.place) /\ packs[k][purger.pack].st \in {"receiving", "live"}
                      THEN Swapped(k, purger.pack, purger.replaced) ELSE packs[k]
      BY <2>3 DEF Repacked
    <3>2. CASE packs'[k] = packs[k]
      BY <3>2 DEF Became
    <3>3. CASE /\ k \in Found(purger.place) /\ packs[k][purger.pack].st \in {"receiving", "live"}
               /\ packs'[k] = Swapped(k, purger.pack, purger.replaced)
      <4>1. packs'[k][p] = IF p = purger.pack THEN Row("live")
                           ELSE IF p \in purger.replaced /\ packs[k][p].st = "live"
                                THEN Row("superseded") ELSE packs[k][p]
        BY <3>3 DEF Swapped
      <4> QED BY <2>3, <3>3, <4>1 DEF Became
    <3> QED BY <3>1, <3>2, <3>3
  <2>4. CASE PacksCollected
    <3>1. packs'[k][p] = IF <<k, p>> \in purger.gone /\ packs[k][p].st = "collecting" THEN NoRow ELSE packs[k][p]
      BY <2>4 DEF PacksCollected
    <3> QED BY <2>4, <3>1 DEF Became
  <2>5. CASE CompleteMove
    <3>1. PICK j : packs' = [packs EXCEPT ![j] = [o \in Packs |-> IF @[o].st = "receiving" THEN NoRow ELSE @[o]]]
      BY <2>5 DEF CompleteMove
    <3>2. packs'[k][p] = packs[k][p] \/ (packs[k][p].st = "receiving" /\ packs'[k][p] = NoRow)
      BY <1>0, <3>1
    <3> QED BY <2>5, <3>2 DEF Became
  <2> QED BY <1>1, <2>1, <2>2, <2>3, <2>4, <2>5
<1>5. CASE Abandon \/ UNCHANGED vars
  BY <1>1, <1>5 DEF Abandon, vars
<1> QED BY <1>2, <1>3, <1>4, <1>5 DEF Next

\* What a step, but a tick, adds to the ledger has all of its grace.
LEMMA LedgerStep ==
    ASSUME Types, [Next]_vars, ~Tick, NEW m \in moved'
    PROVE  \/ m \in moved
           \/ /\ CompleteMove /\ m.left = Grace
              /\ m.ns = wf[purger.key].at[1] /\ m.file \in LeftOf(purger.key)
<1>1. CASE CompleteMove
  BY <1>1 DEF CompleteMove, Ledger
<1>2. CASE MovedObjectsGone
  BY <1>2 DEF MovedObjectsGone
<1>3. CASE moved' = moved
  BY <1>3
<1>4. moved' = moved \/ CompleteMove \/ MovedObjectsGone
  BY DEF Next, vars, Request, PurgeBegins, PurgeGoesOn, CreateWorkflow, RenameWorkflow,
     AskMove, DeleteWorkflow, Judge, GiveUp, PushReceives, PushWrites, Land, UploadPack, ReadPacks,
     Fetched, SupersedePacks, DeleteRow, Copied, Repack, CollectablePacks, MovedObjectsDue,
     RepackReceives, RepackWrites, Repacked, Collect, PacksCollected, Abandon
<1> QED BY <1>1, <1>2, <1>3, <1>4

\* Files go by two steps of the purger: those of packs claimed, and those in the ledger.
LEMMA FilesStep ==
    ASSUME Types, Claims, [Next]_vars, NEW x \in files, x \notin files'
    PROVE  \/ Collect /\ packs[x.key][x.pack].st = "collecting"
           \/ MovedObjectsDue /\ \E m \in moved : m.file = x /\ m.left = 0
<1>1. CASE Collect
  <2>1. PICK y \in purger.claimed : \E part \in Parts : x = File(StoreOf(y[1]), y[1], y[2], part)
    BY <1>1 DEF Collect
  <2>2. x.key = y[1] /\ x.pack = y[2]
    BY <2>1 DEF File
  <2> QED BY <1>1, <2>2 DEF Claims, Collect
<1>2. CASE MovedObjectsDue
  BY <1>2 DEF MovedObjectsDue
<1>3. CASE files \subseteq files'
  BY <1>3
<1>4. ASSUME ~Collect, ~MovedObjectsDue PROVE files \subseteq files'
  <2>1. CASE Request
    <3>1. UNCHANGED files \/ \E q \in Pushes : PushWrites(q)
      BY <2>1, ZenonT(60) DEF Request, CreateWorkflow, RenameWorkflow, AskMove, DeleteWorkflow, Judge, GiveUp,
         PushReceives, Land, UploadPack, ReadPacks, Fetched
    <3>2. ASSUME NEW q \in Pushes, PushWrites(q) PROVE files \subseteq files'
      <4>1. \E parts : Put(push[q].to, push[q].sent, parts)
        BY <3>2 DEF PushWrites
      <4> QED BY <4>1 DEF Put
    <3> QED BY <3>1, <3>2
  <2>2. CASE PurgeBegins
    BY <1>4, <2>2, SMTT(30) DEF PurgeBegins, SupersedePacks, DeleteRow, Copied, Repack, CollectablePacks
  <2>3. CASE PurgeGoesOn
    <3>1. UNCHANGED files \/ RepackWrites
      BY <1>4, <2>3, ZenonT(60) DEF PurgeGoesOn, RepackReceives, Repacked, PacksCollected, CompleteMove, MovedObjectsGone
    <3>2. ASSUME RepackWrites PROVE files \subseteq files'
      <4>1. \E parts : Put(purger.to, purger.pack, parts)
        BY <3>2 DEF RepackWrites
      <4> QED BY <4>1 DEF Put
    <3> QED BY <3>1, <3>2
  <2> QED BY <2>1, <2>2, <2>3 DEF Next, Abandon, Tick, vars
<1> QED BY <1>1, <1>2, <1>3, <1>4

\* What outlives so many ticks is left alone by every step but a tick.
LEMMA OutlivesStep ==
    ASSUME Types, Claims, [Next]_vars, ~Tick, NEW x \in Files, NEW left \in 0..Lasts, Outlives(x, left)
    PROVE  Outlives(x, left)' /\ (x \in files => x \in files')
<1>0. /\ x.key \in Keys /\ x.pack \in Packs /\ left \in Nat /\ left < Grace /\ Grace \in Nat
      /\ packs \in [Keys -> [Packs -> RowRecord]]
  BY RepositoryAssumption DEF Files, Types, PacksOK, RowRecord
<1>1. PICK k \in Keys, p \in Packs : k = x.key /\ p = x.pack
  BY <1>0
<1>2. packs[k][p].st # "collecting" /\ (packs[k][p].st \in {"receiving", "superseded"} => packs[k][p].left > left)
  BY <1>1 DEF Outlives
<1>3. Became(k, p)
  BY RowStep
<1>4. packs'[k][p].st # "collecting" /\ (packs'[k][p].st \in {"receiving", "superseded"} => packs'[k][p].left > left)
  <2>1. /\ \A st \in {"receiving", "superseded"} : Row(st).left = Grace
        /\ Row("live").st = "live" /\ NoRow.st = "none"
        /\ Row("receiving").st = "receiving" /\ Row("superseded").st = "superseded"
    BY DEF Row, NoRow
  <2>2. p \notin Due(k)
    BY <1>0, <1>2 DEF Due
  <2> QED BY <1>0, <1>2, <1>3, <2>1, <2>2 DEF Became
<1>5. ASSUME NEW m \in moved', m.file = x PROVE m.left > left
  BY <1>0, <1>5, LedgerStep DEF Outlives
<1>6. x \in files => x \in files'
  <2>1. \A m \in moved : m.file = x => m.left # 0
    BY <1>0 DEF Outlives
  <2> QED BY <1>1, <1>2, <2>1, FilesStep
<1> QED BY <1>1, <1>4, <1>5, <1>6 DEF Outlives

\* With a tick, it outlives one less.
LEMMA OutlivesTick ==
    ASSUME Types, Tick, NEW x \in Files, NEW left \in 1..Lasts, Outlives(x, left)
    PROVE  Outlives(x, left - 1)' /\ files' = files
<1>0. /\ x.key \in Keys /\ x.pack \in Packs /\ left \in Nat \ {0}
      /\ packs \in [Keys -> [Packs -> RowRecord]]
  BY RepositoryAssumption DEF Files, Types, PacksOK, RowRecord
<1>1. PICK k \in Keys, p \in Packs : k = x.key /\ p = x.pack
  BY <1>0
<1>2. PICK row \in RowRecord : row = packs[k][p]
  BY <1>0
<1>3. packs'[k][p] = [row EXCEPT !.left = Less(row.left)]
  BY <1>2 DEF Tick
<1>4. packs'[k][p].st = row.st /\ packs'[k][p].left = Less(row.left)
  BY <1>2, <1>3 DEF RowRecord
<1>5. \A n \in Nat : n > left => Less(n) > left - 1
  BY <1>0, LessIs
<1>6. row.left \in Nat
  BY RepositoryAssumption DEF RowRecord
<1>7. packs'[k][p].st # "collecting" /\ (packs'[k][p].st \in {"receiving", "superseded"} => packs'[k][p].left > left - 1)
  BY <1>1, <1>2, <1>4, <1>5, <1>6 DEF Outlives
<1>8. ASSUME NEW n \in moved', n.file = x PROVE n.left > left - 1
  <2>1. PICK m \in moved : n = [m EXCEPT !.left = Less(m.left)]
    BY DEF Tick
  <2>2. m \in Leavings /\ m.left \in Nat
    BY RepositoryAssumption DEF Types, StoreOK, Leavings
  <2>3. n.file = m.file /\ n.left = Less(m.left)
    BY <2>1, <2>2 DEF Leavings
  <2>4. m.left > left
    BY <1>8, <2>3 DEF Outlives
  <2> QED BY <1>5, <2>2, <2>3, <2>4
<1> QED BY <1>1, <1>7, <1>8 DEF Outlives, Tick

\* A repository stays under its storage name, until a move of it completes.
LEMMA StoreStands ==
    ASSUME Types, [Next]_vars, NEW k \in Keys, wf[k].st \in {"there", "deleted"}, wf'[k].st # "gone",
           ~(CompleteMove /\ purger.key = k)
    PROVE  /\ StoreOf(k)' = StoreOf(k) /\ wf'[k].at[1] = wf[k].at[1]
           /\ Moving(k) => wf'[k] = wf[k]
           /\ Moving(k)' => Moving(k) \/ (wf'[k].to # wf[k].at[1])
<1>0. wf \in [Keys -> [st: {"none", "there", "deleted", "gone"},
                       at: Places \cup {None}, to: Namespaces \cup {None}]]
      /\ wf[k].at \in Places
  BY DEF Types, WorkflowsOK
<1> DEFINE Goal == /\ StoreOf(k)' = StoreOf(k) /\ wf'[k].at[1] = wf[k].at[1]
                   /\ Moving(k) => wf'[k] = wf[k]
                   /\ Moving(k)' => Moving(k) \/ (wf'[k].to # wf[k].at[1])
<1>1. ASSUME wf'[k] = wf[k] PROVE Goal
  BY <1>1 DEF StoreOf, Moving
<1>2. ASSUME NEW j \in Keys, CompleteMove, purger.key = j PROVE Goal
  <2>1. j # k
    BY <1>2
  <2>2. wf'[k] = wf[k]
    BY <1>0, <1>2, <2>1 DEF CompleteMove
  <2> QED BY <1>1, <2>2
<1>3. ASSUME NEW j \in Keys, \E place \in Birthplaces : CreateWorkflow(j, place) PROVE Goal
  <2>1. j # k /\ wf'[k] = wf[k]
    BY <1>0, <1>3 DEF CreateWorkflow
  <2> QED BY <1>1, <2>1
<1>4. ASSUME NEW j \in Keys, DeleteRow(j) PROVE Goal
  <2>1. j # k /\ wf'[k] = wf[k]
    BY <1>0, <1>4 DEF DeleteRow
  <2> QED BY <1>1, <2>1
<1>5. ASSUME NEW j \in Keys, DeleteWorkflow(j) PROVE Goal
  <2>1. j = k => ~Moving(k) /\ wf'[k].at = wf[k].at /\ wf'[k].to = wf[k].to
    BY <1>0, <1>5 DEF DeleteWorkflow
  <2>2. j # k => wf'[k] = wf[k]
    BY <1>0, <1>5 DEF DeleteWorkflow
  <2>3. CASE j = k
    BY <2>1, <2>3 DEF StoreOf, Moving
  <2> QED BY <1>1, <2>2, <2>3
<1>6. ASSUME NEW j \in Keys, NEW target \in Namespaces, AskMove(j, target) PROVE Goal
  <2>1. j = k => ~Moving(k) /\ wf'[k].at = wf[k].at /\ wf'[k].to = target /\ target # wf[k].at[1]
    BY <1>0, <1>6 DEF AskMove
  <2>2. j # k => wf'[k] = wf[k]
    BY <1>0, <1>6 DEF AskMove
  <2>3. CASE j = k
    BY <2>1, <2>3 DEF StoreOf
  <2> QED BY <1>1, <2>2, <2>3
<1>7. ASSUME NEW j \in Keys, NEW name \in Names, RenameWorkflow(j, name) PROVE Goal
  <2>1. CASE j = k
    <3>1. wf' = [wf EXCEPT ![k] = [wf[k] EXCEPT !.at[2] = name]]
      BY <1>0, <1>7, <2>1 DEF RenameWorkflow
    <3>2. wf'[k].at = [wf[k].at EXCEPT ![2] = name] /\ wf'[k].to = wf[k].to
      BY <1>0, <3>1
    <3>3. wf'[k].at[1] = wf[k].at[1]
      BY <1>0, <3>2, Placed
    <3> QED BY <1>7, <2>1, <3>2, <3>3 DEF StoreOf, RenameWorkflow, Moving
  <2>2. CASE j # k
    <3>1. wf'[k] = wf[k]
      BY <1>0, <1>7, <2>2 DEF RenameWorkflow
    <3> QED BY <1>1, <3>1
  <2> QED BY <2>1, <2>2
<1>8. \/ wf' = wf
      \/ CompleteMove /\ purger.key \in Keys
      \/ \E j \in Keys : \/ \E place \in Birthplaces : CreateWorkflow(j, place)
                         \/ \E name \in Names : RenameWorkflow(j, name)
                         \/ \E target \in Namespaces : AskMove(j, target)
                         \/ DeleteWorkflow(j) \/ DeleteRow(j)
  <2>1. CompleteMove => purger.key \in Keys
    BY PurgerAt DEF CompleteMove
  <2> QED BY <2>1 DEF Next, vars, Request, PurgeBegins, PurgeGoesOn, Judge, GiveUp, PushReceives, PushWrites, Land,
     UploadPack, ReadPacks, Fetched, SupersedePacks, Copied, Repack, CollectablePacks, MovedObjectsDue,
     RepackReceives, RepackWrites, Repacked, Collect, PacksCollected, MovedObjectsGone, Abandon, Tick
<1>9. CASE wf' = wf
  BY <1>1, <1>9
<1>10. CASE CompleteMove /\ purger.key \in Keys
  BY <1>2, <1>10
<1>11. CASE \E j \in Keys : \/ \E place \in Birthplaces : CreateWorkflow(j, place)
                            \/ \E name \in Names : RenameWorkflow(j, name)
                            \/ \E target \in Namespaces : AskMove(j, target)
                            \/ DeleteWorkflow(j) \/ DeleteRow(j)
  <2>1. PICK j \in Keys : \/ \E place \in Birthplaces : CreateWorkflow(j, place)
                          \/ \E name \in Names : RenameWorkflow(j, name)
                          \/ \E target \in Namespaces : AskMove(j, target)
                          \/ DeleteWorkflow(j) \/ DeleteRow(j)
    BY <1>11
  <2>2. CASE \E place \in Birthplaces : CreateWorkflow(j, place)
    BY <1>3, <2>2
  <2>3. CASE DeleteWorkflow(j)
    BY <1>5, <2>3
  <2>4. CASE DeleteRow(j)
    BY <1>4, <2>4
  <2>5. ASSUME NEW name \in Names, RenameWorkflow(j, name) PROVE Goal
    BY <1>7, <2>5
  <2>6. ASSUME NEW target \in Namespaces, AskMove(j, target) PROVE Goal
    BY <1>6, <2>6
  <2> QED BY <2>1, <2>2, <2>3, <2>4, <2>5, <2>6
<1> QED BY <1>8, <1>9, <1>10, <1>11

\* It begins so.
LEMMA StoreInit == Init => StoreInv
<1> SUFFICES ASSUME Init PROVE StoreInv
  OBVIOUS
<1>1. Types
  BY TypesInit
<1>2. /\ \A k \in Keys, p \in Packs : packs[k][p].st = "none"
      /\ \A k \in Keys : wf[k].to = None
      /\ \A q \in Pushes : push[q].pc = "idle"
      /\ \A f \in Fetches : fetch[f].pc = "idle"
      /\ purger.pc = "idle" /\ moved = {}
  BY DEF Init, NoRow, Idle
<1>3. Empty /\ Stored /\ Ledgered /\ Stores
  BY <1>2 DEF Empty, Stored, Keeping, Ledgered, Stores, Moving
<1>4. Claims /\ RepackWritten /\ MoveCopied
  BY <1>2 DEF Claims, RepackWritten, MoveCopied
<1>5. (\A q \in Pushes, k \in Keys : PushWritten(q, k)) /\ \A f \in Fetches : FetchKept(f)
  BY <1>2 DEF PushWritten, FetchKept
<1> QED BY <1>1, <1>3, <1>4, <1>5 DEF StoreInv

\* A tick leaves rows where they are, and the ledger's files.
LEMMA TickLeaves ==
    ASSUME Types, Tick
    PROVE  /\ \A k \in Keys, p \in Packs : packs'[k][p].st = packs[k][p].st
           /\ \A n \in moved' : \E m \in moved : m.file = n.file /\ m.ns = n.ns
           /\ UNCHANGED <<wf, files, purger, resent>>
<1>1. ASSUME NEW k \in Keys, NEW p \in Packs PROVE packs'[k][p].st = packs[k][p].st
  <2>1. PICK row \in RowRecord : row = packs[k][p]
    BY DEF Types, PacksOK, RowRecord
  <2>2. packs'[k][p] = [row EXCEPT !.left = Less(row.left)]
    BY <2>1 DEF Tick
  <2> QED BY <2>1, <2>2 DEF RowRecord
<1>2. ASSUME NEW n \in moved' PROVE \E m \in moved : m.file = n.file /\ m.ns = n.ns
  <2>1. PICK m \in moved : n = [m EXCEPT !.left = Less(m.left)]
    BY DEF Tick
  <2>2. m \in Leavings
    BY DEF Types, StoreOK
  <2> QED BY <2>1, <2>2 DEF Leavings
<1> QED BY <1>1, <1>2 DEF Tick

\* What was received again stays noted.
LEMMA ResentGrows == [Next]_vars => resent \subseteq resent'
<1> SUFFICES ASSUME [Next]_vars PROVE resent \subseteq resent'
  OBVIOUS
<1>1. \/ resent' = resent \/ RepackReceives \/ \E q \in Pushes : PushReceives(q)
  BY ZenonT(60) DEF Next, vars, Request, PurgeBegins, PurgeGoesOn, CreateWorkflow, RenameWorkflow, AskMove,
     DeleteWorkflow, Judge, GiveUp, PushWrites, Land, UploadPack, ReadPacks, Fetched, SupersedePacks,
     DeleteRow, Copied, Repack, CollectablePacks, MovedObjectsDue, RepackWrites, Repacked, Collect,
     PacksCollected, CompleteMove, MovedObjectsGone, Abandon, Tick
<1>2. RepackReceives => resent \subseteq resent'
  BY DEF RepackReceives, ReceivePack
<1>3. \A q \in Pushes : PushReceives(q) => resent \subseteq resent'
  BY DEF PushReceives, ReceivePack
<1> QED BY <1>1, <1>2, <1>3

\* A workflow is gone that was, or whose row is deleted: it has no packs.
LEMMA GoneWas ==
    ASSUME Types, [Next]_vars, NEW k \in Keys, wf'[k].st = "gone"
    PROVE  wf[k].st = "gone" \/ (packs' = packs /\ \A p \in Packs : packs[k][p].st = "none")
<1>0. wf \in [Keys -> [st: {"none", "there", "deleted", "gone"},
                       at: Places \cup {None}, to: Namespaces \cup {None}]]
  BY DEF Types, WorkflowsOK
<1>1. CASE DeleteRow(k)
  BY <1>1 DEF DeleteRow, In
<1>2. ASSUME NEW j \in Keys, j # k,
             \/ \E place \in Birthplaces : CreateWorkflow(j, place)
             \/ \E name \in Names : RenameWorkflow(j, name)
             \/ \E target \in Namespaces : AskMove(j, target)
             \/ DeleteWorkflow(j) \/ DeleteRow(j)
      PROVE  wf'[k] = wf[k]
  BY <1>0, <1>2 DEF CreateWorkflow, RenameWorkflow, AskMove, DeleteWorkflow, DeleteRow
<1>3. ASSUME NEW place \in Birthplaces, CreateWorkflow(k, place) PROVE wf'[k].st = "there"
  BY <1>0, <1>3 DEF CreateWorkflow
<1>a. ASSUME NEW target \in Namespaces, AskMove(k, target) PROVE wf'[k].st = "there"
  BY <1>0, <1>a DEF AskMove
<1>b. ASSUME DeleteWorkflow(k) PROVE wf'[k].st = "deleted"
  BY <1>0, <1>b DEF DeleteWorkflow
<1>4. ASSUME NEW name \in Names, RenameWorkflow(k, name) PROVE wf'[k].st = wf[k].st
  <2>1. wf' = [wf EXCEPT ![k] = [wf[k] EXCEPT !.at[2] = name]]
    BY <1>0, <1>4 DEF RenameWorkflow
  <2>2. [wf[k] EXCEPT !.at[2] = name].st = wf[k].st
    BY <1>0
  <2> QED BY <1>0, <2>1, <2>2
<1>5. ASSUME CompleteMove PROVE wf'[k].st = wf[k].st
  <2>1. PICK j \in Keys : wf' = [wf EXCEPT ![j].at[1] = wf[j].to, ![j].to = None]
    BY <1>5, PurgerAt DEF CompleteMove
  <2>2. wf' = [wf EXCEPT ![j] = [wf[j] EXCEPT !.at[1] = wf[j].to, !.to = None]]
    BY <1>0, <2>1
  <2>3. [wf[j] EXCEPT !.at[1] = wf[j].to, !.to = None].st = wf[j].st
    BY <1>0
  <2> QED BY <1>0, <2>2, <2>3
<1>6. \/ wf' = wf \/ CompleteMove
      \/ \E j \in Keys : \/ \E place \in Birthplaces : CreateWorkflow(j, place)
                         \/ \E name \in Names : RenameWorkflow(j, name)
                         \/ \E target \in Namespaces : AskMove(j, target)
                         \/ DeleteWorkflow(j) \/ DeleteRow(j)
  BY DEF Next, vars, Request, PurgeBegins, PurgeGoesOn, Judge, GiveUp, PushReceives, PushWrites, Land,
     UploadPack, ReadPacks, Fetched, SupersedePacks, Copied, Repack, CollectablePacks, MovedObjectsDue,
     RepackReceives, RepackWrites, Repacked, Collect, PacksCollected, MovedObjectsGone, Abandon, Tick
<1>7. CASE wf'[k] = wf[k]
  BY <1>7
<1> QED BY <1>1, <1>2, <1>3, <1>a, <1>b, <1>4, <1>5, <1>6, <1>7

\* A row is of a repository that is there, or was, and what has none has none next.
LEMMA EmptyStep ==
    ASSUME StoreInv, [Next]_vars
    PROVE  Empty'
<1> SUFFICES ASSUME NEW k \in Keys, NEW p \in Packs, wf'[k].st \in {"none", "gone"}
             PROVE  packs'[k][p].st = "none"
  BY DEF Empty
<1>0. Types /\ Empty
  BY DEF StoreInv
<1>1. CASE Tick
  BY <1>0, <1>1, TickLeaves DEF Empty
<1>2. CASE ~Tick /\ wf[k].st \in {"none", "gone"}
  <2>1. packs[k][p].st = "none"
    BY <1>0, <1>2 DEF Empty
  <2>2. Became(k, p)
    BY <1>0, <1>2, RowStep
  <2> QED BY <1>2, <2>1, <2>2 DEF Became, Due
<1>3. CASE wf[k].st \notin {"none", "gone"}
  BY <1>0, <1>3, ThereWas, GoneWas
<1> QED BY <1>1, <1>2, <1>3

\* The files of a pack that has a row no collection claimed stay, unless it was
\* received again.
LEMMA FilesStay ==
    ASSUME StoreInv, [Next]_vars, NEW k \in Keys, NEW p \in Packs, <<k, p>> \notin resent,
           packs[k][p].st \notin {"none", "collecting"}
    PROVE  FilesOf(StoreOf(k), k, {p}) \cap files \subseteq files'
<1> SUFFICES ASSUME NEW x \in FilesOf(StoreOf(k), k, {p}), x \in files, x \notin files' PROVE FALSE
  OBVIOUS
<1>1. x.key = k /\ x.pack = p
  BY DEF FilesOf, File
<1>2. \E m \in moved : m.file = x
  BY <1>1, FilesStep DEF StoreInv
<1> QED BY <1>2 DEF StoreInv, Ledgered

\* Only two steps of the purger take files away.
LEMMA FilesGrow ==
    ASSUME StoreInv, [Next]_vars, purger.pc \notin {"idle", "collect"}
    PROVE  files \subseteq files'
  BY FilesStep DEF StoreInv, Collect, MovedObjectsDue, Idle

\* A row that is left is of a repository stored where it was, unless it moved.
LEMMA RowStands ==
    ASSUME StoreInv, [Next]_vars, ~Tick, NEW k \in Keys, NEW p \in Packs, packs'[k][p].st # "none",
           ~(CompleteMove /\ purger.key = k)
    PROVE  /\ StoreOf(k)' = StoreOf(k) /\ wf'[k].at[1] = wf[k].at[1]
           /\ wf[k].st \in {"there", "deleted"} /\ wf'[k].st \in {"there", "deleted"}
           /\ wf'[k].st = "there" => wf[k].st = "there"
           /\ Moving(k) => wf'[k] = wf[k]
<1>0. Types /\ Types' /\ Empty /\ Empty'
  BY EmptyStep, TypesStep DEF StoreInv
<1>1. wf'[k].st \in {"there", "deleted"}
  <2>1. wf'[k].st \notin {"none", "gone"}
    BY <1>0 DEF Empty
  <2>2. wf'[k].st \in {"none", "there", "deleted", "gone"}
    BY <1>0 DEF Types, WorkflowsOK
  <2> QED BY <2>1, <2>2
<1>2. wf[k].st \in {"there", "deleted"}
  <2>1. CASE packs[k][p].st # "none"
    BY <1>0, <2>1 DEF Empty, Types, WorkflowsOK
  <2>2. CASE packs[k][p].st = "none"
    <3>1. Became(k, p)
      BY <1>0, RowStep
    <3>2. NoRow.st = "none"
      BY DEF NoRow
    <3> QED BY <2>2, <3>1, <3>2 DEF Became, Due
  <2> QED BY <2>1, <2>2
<1>3. wf'[k].st = "there" => wf[k].st = "there"
  BY <1>0, <1>2, ThereWas
<1>4. wf'[k].st # "gone"
  BY <1>1
<1> QED BY <1>0, <1>1, <1>2, <1>3, <1>4, StoreStands

\* No push lands in a workflow that moves.
LEMMA FrozenLands ==
    ASSUME OneRepository, NEW k \in Keys, Moving(k), NEW q \in Pushes
    PROVE  ~Land(q)
<1> SUFFICES ASSUME Land(q) PROVE FALSE
  OBVIOUS
<1>1. PICK j \in Found(push[q].place) : ~Moving(j)
  BY DEF Land, UpdateRefs
<1>2. j \in Keys
  BY DEF Found
<1> QED BY <1>1, <1>2 DEF OneRepository

\* What is stored has its files after every step.
LEMMA StoredStep ==
    ASSUME OneRepository, StoreInv, [Next]_vars
    PROVE  Stored'
<1> SUFFICES ASSUME NEW k \in Keys, NEW p \in Packs, Keeping(k, p)', <<k, p>> \notin resent'
             PROVE  FilesOf(StoreOf(k), k, {p})' \subseteq files'
  BY DEF Stored
<1>0. /\ Types /\ Stored /\ Ledgered /\ RepackWritten /\ MoveCopied
      /\ <<k, p>> \notin resent /\ p # {}
      /\ packs'[k][p].st \in {"live", "superseded"}
      /\ packs'[k][p].st = "superseded" => wf'[k].st = "there"
  BY ResentGrows DEF StoreInv, Keeping, Packs
<1>a. /\ Row("receiving").st = "receiving" /\ Row("superseded").st = "superseded" /\ Row("live").st = "live"
      /\ Row("collecting").st = "collecting" /\ NoRow.st = "none"
  BY DEF Row, NoRow
<1>1. CASE Tick
  <2>1. packs'[k][p].st = packs[k][p].st /\ UNCHANGED <<wf, files>>
    BY <1>0, <1>1, TickLeaves
  <2>2. FilesOf(StoreOf(k), k, {p}) \subseteq files
    BY <1>0, <2>1 DEF Stored, Keeping
  <2>3. FilesOf(StoreOf(k), k, {p})' = FilesOf(StoreOf(k), k, {p})
    BY <2>1 DEF StoreOf
  <2> QED BY <2>1, <2>2, <2>3
<1>2. CASE ~Tick /\ CompleteMove /\ purger.key = k
  <2>1. Moving(k) /\ wf[k].st = "there" /\ wf[k].at \in Places
    BY <1>0, <1>2, PurgerAt DEF CompleteMove, Types, WorkflowsOK
  <2>2. Became(k, p)
    BY <1>0, <1>2, RowStep
  <2>3. packs'[k][p] = packs[k][p]
    <3>1. purger.pc = "move"
      BY <1>2 DEF CompleteMove
    <3>2. ~Repacked /\ ~SupersedePacks(k)
      BY <3>1 DEF Repacked, SupersedePacks, Idle
    <3> QED BY <1>0, <1>a, <2>1, <2>2, <3>2, FrozenLands DEF Became
  <2>4. FilesOf(Storage[wf[k].to], k, {p}) \subseteq files
    BY <1>0, <1>2, <2>1, <2>3 DEF MoveCopied, CompleteMove, Keeping
  <2>5. wf'[k].at[1] = wf[k].to /\ files' = files
    <3>1. wf' = [wf EXCEPT ![k].at[1] = wf[k].to, ![k].to = None]
      BY <1>2 DEF CompleteMove
    <3>2. wf' = [wf EXCEPT ![k] = [wf[k] EXCEPT !.at[1] = wf[k].to, !.to = None]]
      BY <1>0, <3>1 DEF Types, WorkflowsOK
    <3>3. wf'[k].at = [wf[k].at EXCEPT ![1] = wf[k].to]
      BY <1>0, <3>2 DEF Types, WorkflowsOK
    <3>4. wf'[k].at[1] = wf[k].to
      BY <2>1, <3>3, Placed
    <3> QED BY <1>2, <3>4 DEF CompleteMove
  <2>6. StoreOf(k)' = Storage[wf[k].to]
    BY <2>5 DEF StoreOf
  <2> QED BY <2>4, <2>5, <2>6
<1>3. CASE ~Tick /\ ~(CompleteMove /\ purger.key = k)
  <2>1. /\ StoreOf(k)' = StoreOf(k)
        /\ wf'[k].st = "there" => wf[k].st = "there"
    BY <1>0, <1>3, RowStands
  <2>2. FilesOf(StoreOf(k), k, {p})' = FilesOf(StoreOf(k), k, {p})
    BY <2>1
  <2>3. ASSUME Keeping(k, p) PROVE FilesOf(StoreOf(k), k, {p}) \subseteq files'
    <3>1. FilesOf(StoreOf(k), k, {p}) \subseteq files
      BY <1>0, <2>3 DEF Stored
    <3>2. packs[k][p].st \notin {"none", "collecting"}
      BY <2>3 DEF Keeping
    <3> QED BY <1>0, <3>1, <3>2, FilesStay
  <2>4. CASE packs'[k][p] = packs[k][p] \/ packs[k][p].st = "live"
    BY <1>0, <2>1, <2>2, <2>3, <2>4 DEF Keeping
  <2>5. ASSUME NEW q \in Pushes, Land(q), k \in Found(push[q].place), p = push[q].sent
        PROVE  FilesOf(StoreOf(k), k, {p}) \subseteq files'
    <3>1. PushWritten(q, k) /\ push[q].pc = "land" /\ files' = files
      BY <2>5 DEF StoreInv, Land
    <3>2. StoreOf(k) = Storage[push[q].place[1]]
      BY <2>5 DEF Found, StoreOf
    <3> QED BY <1>0, <2>5, <3>1, <3>2 DEF PushWritten
  <2>6. ASSUME Repacked, k \in Found(purger.place), p = purger.pack
        PROVE  FilesOf(StoreOf(k), k, {p}) \subseteq files'
    <3>1. purger.pc = "swap" /\ files' = files
      BY <2>6 DEF Repacked
    <3>2. StoreOf(k) = Storage[purger.place[1]]
      BY <2>6 DEF Found, StoreOf
    <3> QED BY <1>0, <2>6, <3>1, <3>2 DEF RepackWritten
  <2>7. ~SupersedePacks(k) \/ wf'[k].st = "deleted"
    BY DEF SupersedePacks
  <2>8. Became(k, p)
    BY <1>0, <1>3, RowStep
  <2> QED BY <1>0, <1>a, <2>2, <2>4, <2>5, <2>6, <2>7, <2>8 DEF Became
<1> QED BY <1>1, <1>2, <1>3

\* A move forgets what an earlier one left where it goes.
LEMMA LedgerClear ==
    ASSUME OneRepository, NeverRenamed, StoreInv, CompleteMove, NEW k \in Keys, purger.key = k,
           NEW p \in Packs, packs[k][p].st # "none", NEW m \in moved',
           m.file \in FilesOf(Storage[wf[k].to], k, {p})
    PROVE  FALSE
<1>0. Types /\ Stores
  BY DEF StoreInv
<1>1. Moving(k) /\ wf[k].at \in Places /\ wf[k].to \in Namespaces /\ wf[k].at[1] \in Namespaces
  BY <1>0, PurgerAt, StoreType DEF CompleteMove, Types, WorkflowsOK
<1>2. PICK from, to : from = wf[k].at[1] /\ to = wf[k].to
  OBVIOUS
<1>3. from # to /\ from \in Namespaces /\ to \in Namespaces
  BY <1>0, <1>1, <1>2 DEF Stores
<1>4. Storage[from] = from /\ Storage[to] = to
  BY <1>3 DEF NeverRenamed
<1>5. PICK part \in Parts : m.file = File(to, k, p, part)
  BY <1>2, <1>4 DEF FilesOf
<1>6. m \in Ledger(k)
  BY DEF CompleteMove
<1>7. \A f \in LeftOf(k) : f.store = from
  BY <1>2, <1>4 DEF LeftOf, FilesOf, File, StoreOf
<1>8. m.file.store = to
  BY <1>5 DEF File
<1>9. m.file \notin LeftOf(k)
  BY <1>3, <1>7, <1>8
<1>10. m \in moved /\ ~(m.ns = to /\ m.file \in BackOf(k))
  BY <1>2, <1>6, <1>9 DEF Ledger
<1>11. m.ns = to
  <2>1. m.ns \in Namespaces /\ m.file.store = Storage[m.ns]
    BY <1>0, <1>10 DEF Stores, Types, StoreOK, Leavings
  <2> QED BY <1>8, <2>1 DEF NeverRenamed
<1>12. File(from, k, p, part) \in LeftOf(k)
  BY <1>2, <1>4 DEF LeftOf, FilesOf, StoreOf, In
<1>13. File(from, k, p, part).store = from /\ [File(from, k, p, part) EXCEPT !.store = to] = File(to, k, p, part)
  BY DEF File
<1>14. m.file \in BackOf(k)
  BY <1>2, <1>5, <1>12, <1>13, ZenonT(60) DEF BackOf
<1> QED BY <1>10, <1>11, <1>14

\* No file that a row stands for is in the ledger after any step.
LEMMA LedgeredStep ==
    ASSUME OneRepository, NeverRenamed, StoreInv, [Next]_vars
    PROVE  Ledgered'
<1> SUFFICES ASSUME NEW k \in Keys, NEW p \in Packs, NEW m \in moved', packs'[k][p].st # "none",
                    m.file \in FilesOf(StoreOf(k), k, {p})', <<k, p>> \notin resent'
             PROVE  FALSE
  BY DEF Ledgered
<1>0. Types /\ Ledgered /\ <<k, p>> \notin resent
  BY ResentGrows DEF StoreInv
<1>a. NoRow.st = "none"
  BY DEF NoRow
<1>1. CASE Tick
  <2>1. packs[k][p].st # "none" /\ wf' = wf /\ \E n \in moved : n.file = m.file
    BY <1>0, <1>1, TickLeaves
  <2>2. FilesOf(StoreOf(k), k, {p})' = FilesOf(StoreOf(k), k, {p})
    BY <2>1 DEF StoreOf
  <2> QED BY <1>0, <2>1, <2>2 DEF Ledgered
<1>2. CASE ~Tick /\ CompleteMove /\ purger.key = k
  <2>1. packs[k][p].st # "none"
    <3>1. Became(k, p)
      BY <1>0, <1>2, RowStep
    <3>2. Moving(k) /\ wf[k].st = "there" /\ wf[k].at \in Places
      BY <1>0, <1>2, PurgerAt DEF CompleteMove, Types, WorkflowsOK
    <3>3. ~ReceivePack(k, p)
      BY <3>2 DEF ReceivePack
    <3>4. p \in Due(k) => packs[k][p].st # "none"
      BY DEF Due
    <3> QED BY <1>a, <3>1, <3>3, <3>4 DEF Became
  <2>2. StoreOf(k)' = Storage[wf[k].to]
    <3>0. wf[k].at \in Places
      BY <1>0, <1>2, PurgerAt DEF CompleteMove, Types, WorkflowsOK
    <3>1. wf' = [wf EXCEPT ![k].at[1] = wf[k].to, ![k].to = None]
      BY <1>2 DEF CompleteMove
    <3>2. wf' = [wf EXCEPT ![k] = [wf[k] EXCEPT !.at[1] = wf[k].to, !.to = None]]
      BY <1>0, <3>1 DEF Types, WorkflowsOK
    <3>3. wf'[k].at = [wf[k].at EXCEPT ![1] = wf[k].to]
      BY <1>0, <3>2 DEF Types, WorkflowsOK
    <3>4. wf'[k].at[1] = wf[k].to
      BY <3>0, <3>3, Placed
    <3> QED BY <3>4 DEF StoreOf
  <2> QED BY <1>2, <2>1, <2>2, LedgerClear
<1>3. CASE ~Tick /\ ~(CompleteMove /\ purger.key = k)
  <2>1. StoreOf(k)' = StoreOf(k)
    BY <1>0, <1>3, RowStands
  <2>2. m.file \in FilesOf(StoreOf(k), k, {p})
    BY <2>1
  <2>3. m \in moved
    <3>1. CompleteMove => purger.key = k
      BY <1>0, PurgerAt DEF CompleteMove, OneRepository
    <3> QED BY <1>0, <1>3, <3>1, LedgerStep
  <2>4. packs[k][p].st = "none"
    BY <1>0, <2>2, <2>3 DEF Ledgered
  <2>5. Became(k, p)
    BY <1>0, <1>3, RowStep
  <2>6. ReceivePack(k, p)
    BY <1>a, <2>4, <2>5 DEF Became, Due
  <2> QED BY <2>2, <2>3, <2>6, Noted
<1> QED BY <1>1, <1>2, <1>3

\* The ledger's namespaces are those of the files after every step, and moves go elsewhere.
LEMMA StoresStep ==
    ASSUME OneRepository, StoreInv, [Next]_vars
    PROVE  Stores'
<1>0. Types /\ Types' /\ Stores
  BY TypesStep DEF StoreInv
<1>1. ASSUME NEW m \in moved' PROVE m.file.store = Storage[m.ns]
  <2>1. CASE Tick
    BY <1>0, <2>1, TickLeaves DEF Stores
  <2>2. CASE m \in moved
    BY <1>0, <2>2 DEF Stores
  <2>3. CASE m.ns = wf[purger.key].at[1] /\ m.file \in LeftOf(purger.key)
    <3>1. m.file.store = StoreOf(purger.key)
      BY <2>3 DEF LeftOf, FilesOf, File
    <3> QED BY <2>3, <3>1 DEF StoreOf
  <2> QED BY <1>0, <2>1, <2>2, <2>3, LedgerStep
<1>2. ASSUME NEW k \in Keys, wf'[k].to # None PROVE wf'[k].to # wf'[k].at[1]
  <2>0. wf \in [Keys -> [st: {"none", "there", "deleted", "gone"},
                         at: Places \cup {None}, to: Namespaces \cup {None}]]
    BY <1>0 DEF Types, WorkflowsOK
  <2>1. wf'[k].st = "there"
    BY <1>0, <1>2 DEF Types, WorkflowsOK, Moving
  <2>2. wf[k].st = "there"
    <3>1. ASSUME NEW place \in Birthplaces, CreateWorkflow(k, place) PROVE wf'[k].to = None
      BY <2>0, <3>1 DEF CreateWorkflow
    <3> QED BY <1>0, <1>2, <2>1, <3>1, ThereWas
  <2>3. ~(CompleteMove /\ purger.key = k)
    <3>1. ASSUME CompleteMove, purger.key = k PROVE wf'[k].to = None
      <4>1. wf' = [wf EXCEPT ![k].at[1] = wf[k].to, ![k].to = None]
        BY <3>1 DEF CompleteMove
      <4>2. wf' = [wf EXCEPT ![k] = [wf[k] EXCEPT !.at[1] = wf[k].to, !.to = None]]
        BY <2>0, <4>1
      <4> QED BY <2>0, <4>2
    <3> QED BY <1>2, <3>1
  <2>4. /\ wf'[k].at[1] = wf[k].at[1]
        /\ Moving(k) => wf'[k] = wf[k]
        /\ Moving(k)' => Moving(k) \/ (wf'[k].to # wf[k].at[1])
    BY <1>0, <2>1, <2>2, <2>3, StoreStands
  <2>5. Moving(k)'
    BY <1>2 DEF Moving
  <2> QED BY <1>0, <2>4, <2>5 DEF Stores
<1> QED BY <1>1, <1>2 DEF Stores, Moving

\* Where the purger is it was, or it went there by one step.
LEMMA PurgerFrom ==
    ASSUME Types, [Next]_vars, purger' # purger
    PROVE  /\ purger'.pc = "collect" => CollectablePacks
           /\ purger'.pc = "put" => RepackReceives
           /\ purger'.pc = "swap" => RepackWrites
           /\ purger'.pc = "move" => \E k \in Keys : Copied(k)
<1>0. Idle.pc = "idle"
  BY DEF Idle
<1>1. ~Request /\ ~Tick /\ ~UNCHANGED vars
  BY ZenonT(60) DEF Request, CreateWorkflow, RenameWorkflow, AskMove, DeleteWorkflow, Judge, GiveUp, PushReceives,
     PushWrites, Land, UploadPack, ReadPacks, Fetched, Tick, vars
<1>2. CASE Abandon
  BY <1>0, <1>2 DEF Abandon
<1>3. CASE PurgeBegins
  <2>1. CASE \E k \in Keys : SupersedePacks(k) \/ DeleteRow(k)
    BY <2>1 DEF SupersedePacks, DeleteRow
  <2>2. CASE \E place \in Places : Repack(place)
    <3>1. purger'.pc = "repack"
      BY <2>2 DEF Repack
    <3> QED BY <3>1
  <2>3. CASE CollectablePacks
    <3>1. purger'.pc = "collect"
      BY <2>3 DEF CollectablePacks
    <3> QED BY <2>3, <3>1
  <2>4. CASE MovedObjectsDue
    <3>1. purger'.pc = "forget"
      BY <2>4 DEF MovedObjectsDue
    <3> QED BY <3>1
  <2>5. ASSUME NEW k \in Keys, Copied(k) PROVE purger'.pc = "move"
    BY <2>5 DEF Copied
  <2> QED BY <1>3, <2>1, <2>2, <2>3, <2>4, <2>5 DEF PurgeBegins
<1>4. CASE PurgeGoesOn
  <2>1. CASE Repacked \/ PacksCollected \/ CompleteMove \/ MovedObjectsGone
    BY <1>0, <2>1 DEF Repacked, PacksCollected, CompleteMove, MovedObjectsGone
  <2>2. CASE Collect
    <3>1. purger'.pc = "collected"
      BY <2>2 DEF Collect
    <3> QED BY <3>1
  <2>3. CASE RepackReceives
    <3>1. purger'.pc \in {"idle", "put"}
      <4>1. purger \in Repacking
        BY <2>3, PurgerAt DEF RepackReceives
      <4>2. purger' = Idle \/ \E to : purger' = [purger EXCEPT !.pc = "put", !.to = to]
        BY <2>3 DEF RepackReceives
      <4> QED BY <1>0, <4>1, <4>2 DEF Repacking
    <3> QED BY <2>3, <3>1
  <2>4. CASE RepackWrites
    <3>1. purger'.pc \in {"idle", "swap"}
      <4>1. purger \in Repacking
        BY <2>4, PurgerAt DEF RepackWrites
      <4>2. purger' = Idle \/ purger' = [purger EXCEPT !.pc = "swap"]
        BY <2>4 DEF RepackWrites
      <4> QED BY <1>0, <4>1, <4>2 DEF Repacking
    <3> QED BY <2>4, <3>1
  <2> QED BY <1>4, <2>1, <2>2, <2>3, <2>4 DEF PurgeGoesOn
<1> QED BY <1>1, <1>2, <1>3, <1>4 DEF Next

\* What is claimed stays so until it is forgotten.
LEMMA ClaimsStep ==
    ASSUME StoreInv, [Next]_vars
    PROVE  Claims'
<1> SUFFICES ASSUME purger'.pc = "collect", NEW x \in purger'.claimed
             PROVE  packs'[x[1]][x[2]].st = "collecting"
  BY DEF Claims
<1>0. Types /\ Types' /\ Claims
  BY TypesStep DEF StoreInv
<1>1. PICK k \in Keys, p \in Packs : x = <<k, p>>
  <2>1. purger' \in [pc: {"collect"}, claimed: SUBSET (Keys \X Packs)]
    BY <1>0, PurgerAt DEF Types, PurgerOK, Repacking, Idle
  <2> QED BY <2>1
<1>2. CASE CollectablePacks
  <2>1. p \in Due(k)
    BY <1>1, <1>2 DEF CollectablePacks
  <2>2. packs'[k][p] = Row("collecting")
    BY <1>2, <2>1 DEF CollectablePacks
  <2> QED BY <1>1, <2>2 DEF Row
<1>3. CASE purger' = purger
  <2>1. packs[k][p].st = "collecting" /\ purger.pc = "collect"
    BY <1>0, <1>1, <1>3 DEF Claims
  <2>2. CASE Tick
    BY <1>0, <1>1, <2>1, <2>2, TickLeaves
  <2>3. CASE ~Tick
    <3>1. Became(k, p)
      BY <1>0, <2>3, RowStep
    <3>2. ~PacksCollected /\ ~CollectablePacks
      BY <2>1 DEF PacksCollected, CollectablePacks, Idle
    <3> QED BY <1>1, <2>1, <3>1, <3>2 DEF Became
  <2> QED BY <2>2, <2>3
<1> QED BY <1>0, <1>2, <1>3, PurgerFrom

\* A repack's pack is where its repository was after every step.
LEMMA RepackWrittenStep ==
    ASSUME OneRepository, StoreInv, [Next]_vars
    PROVE  RepackWritten'
<1> SUFFICES ASSUME NEW k \in Keys, purger'.pc \in {"put", "swap"}
             PROVE  /\ purger'.to = {<<Storage[purger'.place[1]], k>>}
                    /\ purger'.pc = "swap" =>
                         FilesOf(Storage[purger'.place[1]], k, {purger'.pack}) \subseteq files'
  BY DEF RepackWritten
<1>0. Types /\ RepackWritten
  BY DEF StoreInv
<1>1. CASE purger' = purger
  <2>1. files \subseteq files'
    BY <1>1, FilesGrow
  <2> QED BY <1>0, <1>1, <2>1 DEF RepackWritten
<1>2. CASE RepackReceives
  <2>0. purger' # Idle
    BY DEF Idle
  <2>1. PICK j \in Found(purger.place) : purger' = [purger EXCEPT !.pc = "put", !.to = {<<StoreOf(j), j>>}]
    BY <1>2, <2>0, Zenon DEF RepackReceives
  <2>2. purger \in Repacking
    BY <1>0, <1>2, PurgerAt DEF RepackReceives
  <2>3. purger'.pc = "put" /\ purger'.to = {<<StoreOf(j), j>>} /\ purger'.place = purger.place
    BY <2>1, <2>2 DEF Repacking
  <2>4. j = k /\ StoreOf(j) = Storage[purger.place[1]]
    BY DEF OneRepository, Found, StoreOf
  <2> QED BY <2>3, <2>4
<1>3. CASE RepackWrites
  <2>1. purger \in Repacking /\ purger.to = {<<Storage[purger.place[1]], k>>}
    BY <1>0, <1>3, PurgerAt DEF RepackWrites, RepackWritten
  <2>2. Put(purger.to, purger.pack, Parts) /\ purger' = [purger EXCEPT !.pc = "swap"]
    BY <1>3 DEF RepackWrites, Idle
  <2>3. purger'.to = purger.to /\ purger'.place = purger.place /\ purger'.pack = purger.pack
    BY <2>1, <2>2 DEF Repacking
  <2>4. FilesOf(Storage[purger.place[1]], k, {purger.pack}) \subseteq files'
    <3>1. ASSUME NEW part \in Parts PROVE File(Storage[purger.place[1]], k, purger.pack, part) \in files'
      <4>1. \A w \in purger.to : File(w[1], w[2], purger.pack, part) \in files'
        BY <2>2 DEF Put
      <4> QED BY <2>1, <4>1
    <3> QED BY <3>1 DEF FilesOf
  <2> QED BY <2>1, <2>3, <2>4
<1> QED BY <1>0, <1>1, <1>2, <1>3, PurgerFrom

\* What a move carries is under the target's keys after every step.
LEMMA MoveCopiedStep ==
    ASSUME OneRepository, StoreInv, [Next]_vars
    PROVE  MoveCopied'
<1> SUFFICES ASSUME purger'.pc = "move", NEW p \in Packs, NEW k \in Keys, k = purger'.key,
                    Keeping(k, p)', <<k, p>> \notin resent'
             PROVE  FilesOf(Storage[wf'[k].to], k, {p}) \subseteq files'
  <2>1. Types'
    BY TypesStep DEF StoreInv
  <2>2. purger'.pc = "move" => purger'.key \in Keys
    BY <2>1 DEF Types, PurgerOK, Repacking, Idle
  <2> QED BY <2>2 DEF MoveCopied
<1>0. /\ Types /\ Stored /\ MoveCopied /\ Empty /\ <<k, p>> \notin resent
      /\ packs'[k][p].st \in {"live", "superseded"}
  BY ResentGrows DEF StoreInv, Keeping
<1>1. ASSUME NEW j \in Keys, Copied(j), purger' # purger PROVE FilesOf(Storage[wf'[k].to], k, {p}) \subseteq files'
  <2>1. j = k /\ packs' = packs /\ wf' = wf
    BY <1>1 DEF OneRepository, Copied
  <2>2. files' = files \cup {[x EXCEPT !.store = Storage[wf[k].to]] : x \in ObjectsOf(k, Packs)}
    BY <1>1, <2>1 DEF Copied
  <2>3. Keeping(k, p) /\ FilesOf(StoreOf(k), k, {p}) \subseteq files
    BY <1>0, <2>1 DEF Keeping, Stored
  <2>4. ASSUME NEW part \in Parts PROVE File(Storage[wf[k].to], k, p, part) \in files'
    <3>1. File(StoreOf(k), k, p, part) \in FilesOf(StoreOf(k), k, {p})
      BY DEF FilesOf
    <3>2. p \in In(k, {"live", "superseded"})
      BY <2>3 DEF Keeping, In
    <3>3. File(StoreOf(k), k, p, part) \in ObjectsOf(k, Packs)
      BY <2>3, <3>1, <3>2 DEF ObjectsOf, FilesOf
    <3>4. [File(StoreOf(k), k, p, part) EXCEPT !.store = Storage[wf[k].to]] = File(Storage[wf[k].to], k, p, part)
      BY DEF File
    <3> QED BY <2>2, <3>3, <3>4
  <2> QED BY <2>1, <2>4 DEF FilesOf
<1>2. CASE purger' = purger
  <2>1. Moving(k) /\ wf[k].st = "there" /\ purger.pc = "move" /\ purger.key = k
    BY <1>0, <1>2, PurgerAt DEF Types, WorkflowsOK
  <2>2. files \subseteq files'
    BY <2>1, FilesGrow
  <2>3. CASE Tick
    <3>1. packs'[k][p].st = packs[k][p].st /\ wf' = wf
      BY <1>0, <2>3, TickLeaves
    <3> QED BY <1>0, <2>1, <2>2, <3>1 DEF MoveCopied, Keeping
  <2>4. CASE ~Tick
    <3>1. ~CompleteMove /\ ~Repacked /\ ~SupersedePacks(k)
      BY <1>2, <2>1 DEF CompleteMove, Repacked, SupersedePacks, Idle
    <3>2. wf'[k] = wf[k]
      BY <1>0, <2>1, <2>4, <3>1, RowStands
    <3>3. /\ Row("receiving").st = "receiving" /\ Row("collecting").st = "collecting" /\ NoRow.st = "none"
      BY DEF Row, NoRow
    <3>4. packs'[k][p] = packs[k][p]
      <4>1. Became(k, p)
        BY <1>0, <2>4, RowStep
      <4> QED BY <1>0, <2>1, <3>1, <3>3, <4>1, FrozenLands DEF Became
    <3> QED BY <1>0, <2>1, <2>2, <3>2, <3>4 DEF MoveCopied, Keeping
  <2> QED BY <2>3, <2>4
<1> QED BY <1>0, <1>1, <1>2, PurgerFrom

\* Where a push is it was, or it went there by one step of its own.
LEMMA PushFrom ==
    ASSUME Types, [Next]_vars, ~Tick, NEW q \in Pushes, push'[q] # push[q]
    PROVE  \/ \E place \in Places : \E sent \in Sendable \cup {{}} : Judge(q, place, sent)
           \/ push'[q] = Idle \/ PushReceives(q) \/ PushWrites(q)
<1> DEFINE Goal == \/ \E place \in Places : \E sent \in Sendable \cup {{}} : Judge(q, place, sent)
                   \/ push'[q] = Idle \/ PushReceives(q) \/ PushWrites(q)
<1>0. push \in [Pushes -> Pushing \cup {Idle}]
  BY DEF Types, PushesOK
<1>1. ASSUME NEW x \in Pushes, NEW place \in Places, NEW sent \in Sendable \cup {{}}, Judge(x, place, sent)
      PROVE  Goal
  <2>1. x = q
    BY <1>0, <1>1 DEF Judge
  <2> QED BY <1>1, <2>1
<1>2. ASSUME NEW x \in Pushes, GiveUp(x) \/ PushReceives(x) \/ PushWrites(x) \/ Land(x) PROVE Goal
  <2>1. x = q
    BY <1>0, <1>2 DEF GiveUp, PushReceives, PushWrites, Land
  <2>2. GiveUp(q) \/ Land(q) => push'[q] = Idle
    BY <1>0 DEF GiveUp, Land
  <2> QED BY <1>2, <2>1, <2>2
<1>3. \E x \in Pushes : \/ \E place \in Places : \E sent \in Sendable \cup {{}} : Judge(x, place, sent)
                        \/ GiveUp(x) \/ PushReceives(x) \/ PushWrites(x) \/ Land(x)
  BY ZenonT(60) DEF Next, vars, Request, PurgeBegins, PurgeGoesOn, CreateWorkflow, RenameWorkflow,
     AskMove, DeleteWorkflow, UploadPack, ReadPacks, Fetched, SupersedePacks, DeleteRow, Copied, Repack,
     CollectablePacks, MovedObjectsDue, RepackReceives, RepackWrites, Repacked, Collect, PacksCollected,
     CompleteMove, MovedObjectsGone, Abandon
<1> QED BY <1>1, <1>2, <1>3

\* What a push writes stays until it lands, after every step.
LEMMA PushWrittenStep ==
    ASSUME OneRepository, StoreInv, [Next]_vars, NEW q \in Pushes, NEW k \in Keys
    PROVE  PushWritten(q, k)'
<1> SUFFICES ASSUME NEW n, n = push'[q], n.pc \in {"put", "land"}, n.sent # {}
             PROVE  /\ n.to = {<<Storage[n.place[1]], k>>}
                    /\ \A x \in FilesOf(Storage[n.place[1]], k, {n.sent}) :
                          <<k, n.sent>> \notin resent' => Outlives(x, n.left)' /\ (n.pc = "land" => x \in files')
  BY DEF PushWritten, Outlives
<1>0. /\ Types /\ Claims /\ PushWritten(q, k) /\ push \in [Pushes -> Pushing \cup {Idle}]
      /\ resent \subseteq resent' /\ Grace \in Nat /\ Lasts < Grace /\ Lasts \in Nat
  BY ResentGrows, RepositoryAssumption DEF StoreInv, Types, PushesOK
<1>a. ASSUME NEW p \in Pushing, p.sent # {}
      PROVE  FilesOf(Storage[p.place[1]], k, {p.sent}) \subseteq Files
  <2>1. p.place[1] \in Namespaces /\ p.sent \in Packs
    BY <1>a, PackFacts DEF Pushing, Places
  <2>2. Storage[p.place[1]] \in Range(Storage)
    BY <2>1, RepositoryAssumption DEF Range
  <2> QED BY <2>1, <2>2, FilesType
<1>b. ASSUME NEW p \in Pushing, p = push[q], p.pc \in {"put", "land"}, p.sent # {}
      PROVE  /\ p.to = {<<Storage[p.place[1]], k>>}
             /\ \A x \in FilesOf(Storage[p.place[1]], k, {p.sent}) : <<k, p.sent>> \notin resent' =>
                   x \in Files /\ Outlives(x, p.left) /\ (p.pc = "land" => x \in files)
  BY <1>0, <1>a, <1>b DEF PushWritten
<1>1. CASE Tick
  <2>1. n = Aged(push[q])
    BY <1>1 DEF Tick
  <2>2. push[q] # Idle
    BY <2>1 DEF Aged, Idle
  <2>3. PICK p \in Pushing : p = push[q] /\ p.left > 0 /\ n = [p EXCEPT !.left = p.left - 1]
    BY <1>0, <1>1, <2>1, <2>2 DEF Aged, Tick
  <2>4. n.pc = p.pc /\ n.to = p.to /\ n.place = p.place /\ n.sent = p.sent /\ n.left = p.left - 1
    BY <2>3 DEF Pushing
  <2>5. p.left \in 1..Lasts /\ resent' = resent /\ files' = files
    BY <1>0, <1>1, <2>3 DEF Tick, Pushing
  <2>6. ASSUME NEW x \in FilesOf(Storage[n.place[1]], k, {n.sent}), <<k, n.sent>> \notin resent'
        PROVE  Outlives(x, n.left)' /\ (n.pc = "land" => x \in files')
    <3>1. x \in Files /\ Outlives(x, p.left) /\ (p.pc = "land" => x \in files)
      BY <1>b, <2>3, <2>4, <2>6
    <3>2. Outlives(x, p.left - 1)'
      BY <1>0, <1>1, <2>5, <3>1, OutlivesTick
    <3>3. Outlives(x, n.left)'
      BY <2>4, <3>2 DEF Outlives
    <3> QED BY <2>4, <2>5, <3>1, <3>3
  <2> QED BY <1>b, <2>3, <2>4, <2>6
<1>2. CASE ~Tick /\ push'[q] = push[q]
  <2>1. n \in Pushing /\ n = push[q]
    BY <1>0, <1>2 DEF Idle
  <2>2. n.left \in 0..Lasts
    BY <2>1 DEF Pushing
  <2>3. ASSUME NEW x \in FilesOf(Storage[n.place[1]], k, {n.sent}), <<k, n.sent>> \notin resent'
        PROVE  Outlives(x, n.left)' /\ (n.pc = "land" => x \in files')
    <3>1. x \in Files /\ Outlives(x, n.left) /\ (n.pc = "land" => x \in files)
      BY <1>b, <2>1, <2>3
    <3> QED BY <1>0, <1>2, <2>2, <3>1, OutlivesStep
  <2> QED BY <1>b, <2>1, <2>3
<1>3. ASSUME NEW place \in Places, NEW sent \in Sendable \cup {{}}, Judge(q, place, sent) PROVE FALSE
  <2>1. n.pc = (IF sent = {} THEN "land" ELSE "receive") /\ n.sent = sent
    BY <1>0, <1>3 DEF Judge
  <2> QED BY <2>1
<1>4. CASE PushReceives(q)
  <2>1. PICK p \in Pushing : p = push[q]
    BY <1>0, <1>4, PushAt DEF PushReceives
  <2>2. PICK j \in Found(p.place) : ReceivePack(j, p.sent) /\ push' = [push EXCEPT ![q].pc = "put", ![q].to = {<<StoreOf(j), j>>}]
    BY <1>4, <2>1 DEF PushReceives
  <2>3. j = k /\ StoreOf(k) = Storage[p.place[1]]
    BY DEF OneRepository, Found, StoreOf
  <2>4. n = [p EXCEPT !.pc = "put", !.to = {<<StoreOf(k), k>>}]
    BY <1>0, <2>1, <2>2, <2>3
  <2>5. n.pc = "put" /\ n.to = {<<StoreOf(k), k>>} /\ n.place = p.place /\ n.sent = p.sent /\ n.left = p.left
    BY <2>4 DEF Pushing
  <2>6. n.sent \in Packs /\ n.left \in 0..Lasts /\ ReceivePack(k, n.sent) /\ moved' = moved
    BY <1>4, <2>2, <2>3, <2>5, PackFacts DEF Pushing, PushReceives
  <2>7. /\ packs'[k][n.sent].st # "collecting"
        /\ packs'[k][n.sent].st \in {"receiving", "superseded"} => packs'[k][n.sent].left > n.left
    <3>0. packs \in [Keys -> [Packs -> RowRecord]]
      BY <1>0 DEF Types, PacksOK, RowRecord
    <3>1. packs' = Received(k, n.sent) /\ packs[k][n.sent].st # "collecting"
      BY <2>6 DEF ReceivePack
    <3>2. packs'[k][n.sent] = IF Receivable(k, n.sent) THEN Row("receiving") ELSE packs[k][n.sent]
      BY <2>6, <3>0, <3>1 DEF Received
    <3>3. Row("receiving").st = "receiving" /\ Row("receiving").left = Grace
      BY DEF Row
    <3> QED BY <1>0, <2>6, <3>1, <3>2, <3>3 DEF Receivable
  <2>8. ASSUME NEW x \in FilesOf(StoreOf(k), k, {n.sent}), <<k, n.sent>> \notin resent' PROVE Outlives(x, n.left)'
    <3>1. x.key = k /\ x.pack = n.sent
      BY DEF FilesOf, File
    <3>2. \A m \in moved' : m.file # x
      BY <2>6, <2>8, Noted
    <3> QED BY <2>7, <3>1, <3>2 DEF Outlives
  <2> QED BY <2>3, <2>5, <2>8
<1>5. CASE PushWrites(q)
  <2>1. PICK p \in Pushing : p = push[q] /\ p.pc = "put"
    BY <1>0, <1>5, PushAt DEF PushWrites
  <2>2. Put(p.to, p.sent, Parts) /\ push' = [push EXCEPT ![q].pc = "land"]
    <3>1. push' = [push EXCEPT ![q] = Idle] => n.pc = "idle"
      BY <1>0 DEF Idle
    <3> QED BY <1>5, <2>1, <3>1 DEF PushWrites
  <2>3. n = [p EXCEPT !.pc = "land"]
    BY <1>0, <2>1, <2>2
  <2>4. n.pc = "land" /\ n.to = p.to /\ n.place = p.place /\ n.sent = p.sent /\ n.left = p.left
    BY <2>3 DEF Pushing
  <2>5. n.to = {<<Storage[n.place[1]], k>>} /\ UNCHANGED <<packs, moved>>
    BY <1>b, <1>5, <2>1, <2>4 DEF PushWrites
  <2>6. ASSUME NEW x \in FilesOf(Storage[n.place[1]], k, {n.sent}), <<k, n.sent>> \notin resent'
        PROVE  Outlives(x, n.left)' /\ x \in files'
    <3>1. Outlives(x, n.left)
      BY <1>b, <2>1, <2>4, <2>6
    <3>2. PICK part \in Parts : x = File(Storage[n.place[1]], k, n.sent, part)
      BY DEF FilesOf
    <3>3. \A w \in n.to : File(w[1], w[2], n.sent, part) \in files'
      BY <2>2, <2>4 DEF Put
    <3>4. x \in files'
      BY <2>5, <3>2, <3>3
    <3> QED BY <2>5, <3>1, <3>4 DEF Outlives
  <2> QED BY <2>4, <2>5, <2>6
<1>6. push'[q] # Idle
  BY DEF Idle
<1> QED BY <1>0, <1>1, <1>2, <1>3, <1>4, <1>5, <1>6, PushFrom

\* Where a fetch is it was, or it has read the packs.
LEMMA FetchFrom ==
    ASSUME Types, [Next]_vars, ~Tick, NEW f \in Fetches, fetch'[f] # fetch[f]
    PROVE  fetch'[f].pc # "reading" \/ ReadPacks(f)
<1> DEFINE Goal == fetch'[f].pc # "reading" \/ ReadPacks(f)
<1>0. fetch \in [Fetches -> Fetching \cup {Idle}]
  BY DEF Types, FetchesOK
<1>1. ASSUME NEW x \in Fetches, (\E place \in Places : UploadPack(x, place)) \/ ReadPacks(x) \/ Fetched(x)
      PROVE  Goal
  <2>1. x = f
    BY <1>0, <1>1 DEF UploadPack, ReadPacks, Fetched
  <2>2. ASSUME NEW place \in Places, UploadPack(f, place) PROVE fetch'[f].pc = "packs"
    BY <1>0, <2>2 DEF UploadPack
  <2>3. Fetched(f) => fetch'[f].pc = "idle"
    BY <1>0 DEF Fetched, Idle
  <2> QED BY <1>1, <2>1, <2>2, <2>3
<1>2. \E x \in Fetches : (\E place \in Places : UploadPack(x, place)) \/ ReadPacks(x) \/ Fetched(x)
  BY ZenonT(60) DEF Next, vars, Request, PurgeBegins, PurgeGoesOn, CreateWorkflow, RenameWorkflow,
     AskMove, DeleteWorkflow, Judge, GiveUp, PushReceives, PushWrites, Land, SupersedePacks, DeleteRow,
     Copied, Repack, CollectablePacks, MovedObjectsDue, RepackReceives, RepackWrites, Repacked, Collect,
     PacksCollected, CompleteMove, MovedObjectsGone, Abandon
<1> QED BY <1>1, <1>2

\* What a fetch reads stays until it is done, after every step.
LEMMA FetchKeptStep ==
    ASSUME StoreInv, [Next]_vars, NEW f \in Fetches
    PROVE  FetchKept(f)'
<1> SUFFICES ASSUME NEW n, n = fetch'[f], n.pc = "reading",
                    NEW x \in n.files, <<x.key, x.pack>> \notin resent'
             PROVE  Outlives(x, n.left)' /\ x \in files'
  BY DEF FetchKept, Outlives
<1>0. /\ Types /\ Claims /\ FetchKept(f) /\ fetch \in [Fetches -> Fetching \cup {Idle}]
      /\ resent \subseteq resent' /\ Lasts \in Nat
  BY ResentGrows, RepositoryAssumption DEF StoreInv, Types, FetchesOK
<1>b. ASSUME NEW p \in Fetching, p = fetch[f], p.pc = "reading", x \in p.files
      PROVE  x \in Files /\ Outlives(x, p.left) /\ x \in files /\ p.left \in 0..Lasts
  BY <1>0, <1>b DEF FetchKept, Fetching
<1>1. CASE Tick
  <2>1. n = Aged(fetch[f])
    BY <1>1 DEF Tick
  <2>2. fetch[f] # Idle
    BY <2>1 DEF Aged, Idle
  <2>3. PICK p \in Fetching : p = fetch[f] /\ p.left > 0 /\ n = [p EXCEPT !.left = p.left - 1]
    BY <1>0, <1>1, <2>1, <2>2 DEF Aged, Tick
  <2>4. n.pc = p.pc /\ n.files = p.files /\ n.left = p.left - 1
    BY <2>3 DEF Fetching
  <2>5. x \in Files /\ Outlives(x, p.left) /\ x \in files /\ p.left \in 1..Lasts
    BY <1>b, <2>3, <2>4
  <2>6. Outlives(x, p.left - 1)' /\ files' = files
    BY <1>0, <1>1, <2>5, OutlivesTick
  <2>7. Outlives(x, n.left)'
    BY <2>4, <2>6 DEF Outlives
  <2> QED BY <2>5, <2>6, <2>7
<1>2. CASE ~Tick /\ fetch'[f] = fetch[f]
  <2>1. n \in Fetching /\ n = fetch[f]
    BY <1>0, <1>2 DEF Idle
  <2>2. x \in Files /\ Outlives(x, n.left) /\ x \in files /\ n.left \in 0..Lasts
    BY <1>b, <2>1
  <2> QED BY <1>0, <1>2, <2>2, OutlivesStep
<1>3. CASE ReadPacks(f)
  <2>1. PICK p \in Fetching : p = fetch[f]
    BY <1>0, <1>3 DEF ReadPacks, Idle
  <2>2. n # Idle
    BY DEF Idle
  <2>3. PICK live : live \subseteq In(p.key, {"live"})
                    /\ n = [p EXCEPT !.pc = "reading", !.wants = {}, !.lacks = p.wants \ UNION live,
                                     !.files = FilesOf(StoreOf(p.key), p.key, live)]
    BY <1>0, <1>3, <2>1, <2>2 DEF ReadPacks
  <2>4. n.files = FilesOf(StoreOf(p.key), p.key, live) /\ p.key \in Keys
    BY <2>3 DEF Fetching
  <2>5. PICK o \in live : \E part \in Parts : x = File(StoreOf(p.key), p.key, o, part)
    BY <2>4 DEF FilesOf
  <2>6. x \in FilesOf(StoreOf(p.key), p.key, {o}) /\ x.key = p.key /\ x.pack = o
    BY <2>5 DEF FilesOf, File
  <2>7. o \in Packs /\ packs[p.key][o].st = "live" /\ <<p.key, o>> \notin resent
    BY <1>0, <2>3, <2>5, <2>6 DEF In
  <2>8. x \in files
    BY <2>4, <2>6, <2>7 DEF StoreInv, Stored, Keeping
  <2>9. \A m \in moved : m.file # x
    BY <2>4, <2>6, <2>7 DEF StoreInv, Ledgered
  <2>10. UNCHANGED <<packs, moved, files>>
    BY <1>3 DEF ReadPacks
  <2>11. Outlives(x, n.left)'
    BY <2>6, <2>7, <2>9, <2>10 DEF Outlives
  <2> QED BY <2>8, <2>10, <2>11
<1> QED BY <1>0, <1>1, <1>2, <1>3, FetchFrom

\* The invariant is inductive.
LEMMA StoreStep == OneRepository /\ NeverRenamed /\ StoreInv /\ [Next]_vars => StoreInv'
<1> SUFFICES ASSUME OneRepository, NeverRenamed, StoreInv, [Next]_vars PROVE StoreInv'
  OBVIOUS
<1>1. Types'
  BY TypesStep DEF StoreInv
<1>2. Empty' /\ Stored' /\ Ledgered' /\ Stores'
  BY EmptyStep, StoredStep, LedgeredStep, StoresStep
<1>3. Claims' /\ RepackWritten' /\ MoveCopied'
  BY ClaimsStep, RepackWrittenStep, MoveCopiedStep
<1>4. \A q \in Pushes, k \in Keys : PushWritten(q, k)'
  BY PushWrittenStep
<1>5. \A f \in Fetches : FetchKept(f)'
  BY FetchKeptStep
<1> QED BY <1>1, <1>2, <1>3, <1>4, <1>5 DEF StoreInv

(***************************************************************************)
(* A live pack has both its files under the storage name of its workflow's *)
(* namespace, through repacks, collections, moves, and pushes and purges   *)
(* that died, for any packs and any grace longer than a push lasts: but a  *)
(* pack that was received again while moved_objects named its files.  The  *)
(* moves of one repository, in namespaces that keep the names they were    *)
(* created with.                                                           *)
(***************************************************************************)
THEOREM LivePacksHaveFilesHolds ==
    ASSUME OneRepository, NeverRenamed
    PROVE  Spec => []LivePacksHaveFiles
<1>1. StoreInv /\ [Next]_vars => StoreInv'
  BY StoreStep
<1>2. StoreInv => LivePacksHaveFiles
  BY DEF StoreInv, Stored, Keeping, LivePacksHaveFiles, In
<1> QED BY <1>1, <1>2, StoreInit, PTL DEF Spec

(***************************************************************************)
(* The packs a fetch reads hold the history of every ref it read before,   *)
(* and their files stay until it is done: the grace of what replaced or    *)
(* moved them is longer than it lasts.  With the same two hypotheses.      *)
(***************************************************************************)
THEOREM FetchServedHolds ==
    ASSUME OneRepository, NeverRenamed
    PROVE  Spec => []FetchServed
<1>1. StoreInv /\ [Next]_vars => StoreInv'
  BY StoreStep
<1>2. HeldInv /\ [Next]_vars => HeldInv'
  BY HeldStep
<1>3. StoreInv /\ HeldInv => FetchServed
  BY DEF StoreInv, FetchKept, HeldInv, FetchServed
<1> QED BY <1>1, <1>2, <1>3, StoreInit, HeldInit, PTL DEF Spec
=============================================================================
