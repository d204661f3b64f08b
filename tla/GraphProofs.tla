---------------------------- MODULE GraphProofs ----------------------------
(***************************************************************************)
(* The evaluator over the steps of one run, for any workflow Build accepts *)
(* and any order of endings, reports and cuts: a pass ends, and leaves     *)
(* nothing that another would change, a run under way waits for something, *)
(* a container nobody waits for is named in a stop; where no step takes    *)
(* the first of several, a step under way stays divided as it was when it  *)
(* began, and where nothing fails fast either, verdicts are what the graph *)
(* means once the fate of every container is known.                        *)
(*                                                                         *)
(* The operators of Graph that are recursive functions (a total, a sweep,  *)
(* the rounds of a pass) are taken as sequences of values, each made of    *)
(* the one before: Iteration gives them, and UpTo goes along them.         *)
(***************************************************************************)
EXTENDS Graph, FiniteSetTheorems, SequenceTheorems, WellFoundedInduction, TLAPS

-----------------------------------------------------------------------------
(* Numbers, sequences and recursive functions.                             *)

\* A set of numbers that holds something holds a least number.
LEMMA Least ==
  ASSUME NEW S \in SUBSET Nat, S # {}
  PROVE  \E n \in S : \A m \in S : n <= m
<1> DEFINE Below == {x \in Nat \X Nat : x[1] < x[2]}
<1>1. IsWellFoundedOn(Below, Nat)
  BY NatLessThanWellFounded DEF OpToRel
<1> HIDE DEF Below
<1>2. PICK n \in S : \A m \in S : <<m, n>> \notin Below
  BY <1>1, WFMin
<1>3. ASSUME NEW m \in S PROVE n <= m
  <2>1. m < n => <<m, n>> \in Below
    BY DEF Below
  <2> QED BY <1>2, <2>1
<1> QED BY <1>3

\* What holds at 0 and passes from each number to the next holds up to N.
LEMMA UpTo ==
  ASSUME NEW N \in Nat, NEW Q, 0 \in Q, \A k \in 1..N : k - 1 \in Q => k \in Q
  PROVE  \A k \in 0..N : k \in Q
<1> DEFINE T == {k \in 0..N : k \notin Q}
<1> SUFFICES ASSUME T # {} PROVE FALSE
  OBVIOUS
<1>1. T \in SUBSET Nat
  OBVIOUS
<1>2. PICK n \in T : \A m \in T : n <= m
  <2> HIDE DEF T
  <2> QED BY <1>1, Least
<1>3. n \in 1..N /\ n - 1 \in 0..N /\ n - 1 \notin T
  BY <1>2
<1> QED BY <1>2, <1>3

\* A function given by its first value and by each value from the one before.
Iterates(x, first, Top, By) == x[0] = first /\ \A k \in 1..Top : x[k] = By[k][x[k - 1]]

\* Such a function exists, and its values are where its steps lead.
LEMMA Iteration ==
  ASSUME NEW Values, NEW first \in Values, NEW Top \in Nat, NEW By \in [1..Top -> [Values -> Values]]
  PROVE  \E x \in [0..Top -> Values] : Iterates(x, first, Top, By)
<1> DEFINE Q == {n \in 0..Top : \E x \in [0..n -> Values] :
                   x[0] = first /\ \A k \in 1..n : x[k] = By[k][x[k - 1]]}
<1>1. 0 \in Q
  <2> DEFINE x == [k \in 0..0 |-> first]
  <2>1. x \in [0..0 -> Values] /\ x[0] = first /\ \A k \in 1..0 : x[k] = By[k][x[k - 1]]
    OBVIOUS
  <2> HIDE DEF x
  <2> QED BY <2>1
<1>2. ASSUME NEW n \in 1..Top, n - 1 \in Q PROVE n \in Q
  <2>1. PICK x \in [0..(n - 1) -> Values] :
          x[0] = first /\ \A k \in 1..(n - 1) : x[k] = By[k][x[k - 1]]
    BY <1>2
  <2> DEFINE y == [k \in 0..n |-> IF k = n THEN By[n][x[n - 1]] ELSE x[k]]
  <2>2. n - 1 \in 0..(n - 1) /\ n # 0 /\ 0 \in 0..n
    OBVIOUS
  <2>3. By[n][x[n - 1]] \in Values
    BY <2>1, <2>2
  <2>4. y \in [0..n -> Values]
    <3>1. \A k \in 0..n : k # n => k \in 0..(n - 1)
      OBVIOUS
    <3> QED BY <2>1, <2>3, <3>1
  <2>5. y[0] = first
    BY <2>1, <2>2
  <2>6. ASSUME NEW k \in 1..n PROVE y[k] = By[k][y[k - 1]]
    <3>1. k - 1 \in 0..n /\ k - 1 # n /\ k \in 0..n
      OBVIOUS
    <3>2. y[k - 1] = x[k - 1]
      BY <3>1
    <3>3. CASE k = n
      BY <3>1, <3>2, <3>3
    <3>4. CASE k # n
      <4>1. k \in 1..(n - 1)
        BY <3>4
      <4> QED BY <2>1, <3>1, <3>2, <3>4, <4>1
    <3> QED BY <3>3, <3>4
  <2> HIDE DEF y
  <2> QED BY <2>4, <2>5, <2>6
<1>3. Top \in Q
  <2> HIDE DEF Q
  <2>1. \A k \in 0..Top : k \in Q
    BY <1>1, <1>2, UpTo
  <2> QED BY <2>1
<1> QED BY <1>3 DEF Iterates

\* A total is the last of the sums of the first so many.
LEMMA TotalSums ==
  ASSUME NEW ns \in Seq(Nat)
  PROVE  \E g \in [0..Len(ns) -> Nat] :
           /\ g[0] = 0 /\ \A k \in 1..Len(ns) : g[k] = g[k - 1] + ns[k]
           /\ Total(ns) = g[Len(ns)]
<1>1. PICK N \in Nat : N = Len(ns)
  OBVIOUS
<1>2. PICK V : V = Nat
  OBVIOUS
<1>3. PICK F \in [1..N -> [V -> V]] : \A k \in 1..N, m \in V : F[k][m] = m + ns[k]
  <2> DEFINE H == [k \in 1..N |-> [m \in V |-> m + ns[k]]]
  <2>1. H \in [1..N -> [V -> V]]
    BY <1>1, <1>2
  <2>2. \A k \in 1..N, m \in V : H[k][m] = m + ns[k]
    OBVIOUS
  <2> HIDE DEF H
  <2> QED BY <2>1, <2>2
<1>4. PICK x \in [0..N -> V] : Iterates(x, 0, N, F)
  <2>1. 0 \in V /\ F \in [1..N -> [V -> V]]
    BY <1>2
  <2> QED BY <1>3, <2>1, Iteration
<1>5. ASSUME NEW k \in 1..N PROVE x[k] = x[k - 1] + ns[k]
  <2>1. k - 1 \in 0..N
    OBVIOUS
  <2>2. x[k - 1] \in V
    BY <2>1
  <2> QED BY <1>3, <1>4, <2>2 DEF Iterates
<1>6. x = [k \in 0..N |-> IF k = 0 THEN 0 ELSE x[k - 1] + ns[k]]
  BY <1>4, <1>5 DEF Iterates
<1> DEFINE G == CHOOSE g : g = [k \in 0..N |-> IF k = 0 THEN 0 ELSE g[k - 1] + ns[k]]
<1>7. G = [k \in 0..N |-> IF k = 0 THEN 0 ELSE G[k - 1] + ns[k]]
  BY <1>6
<1>8. Total(ns) = G[N]
  BY <1>1 DEF Total
<1> HIDE DEF G
<1>9. G[0] = 0 /\ DOMAIN G = 0..N
  BY <1>7
<1>10. ASSUME NEW k \in 1..N PROVE G[k] = G[k - 1] + ns[k]
  <2>1. k \in 0..N /\ k # 0
    OBVIOUS
  <2> QED BY <1>7, <2>1
<1> DEFINE Q == {j \in 0..N : G[j] \in Nat}
<1>11. 0 \in Q
  BY <1>9
<1>12. ASSUME NEW k \in 1..N, k - 1 \in Q PROVE k \in Q
  <2>1. k \in 0..N /\ ns[k] \in Nat
    BY <1>1
  <2> QED BY <1>10, <1>12, <2>1
<1>13. \A k \in 0..N : G[k] \in Nat
  <2> HIDE DEF Q
  <2>1. \A k \in 0..N : k \in Q
    BY <1>11, <1>12, UpTo
  <2> QED BY <2>1 DEF Q
<1>14. G = [k \in 0..N |-> G[k]]
  BY <1>7
<1>15. G \in [0..N -> Nat]
  BY <1>13, <1>14
<1> QED BY <1>1, <1>8, <1>9, <1>10, <1>15

\* Numbers add up to a number.
LEMMA TotalNat ==
  ASSUME NEW ns \in Seq(Nat)
  PROVE  Total(ns) \in Nat
<1>1. PICK N \in Nat : N = Len(ns)
  OBVIOUS
<1> QED BY <1>1, TotalSums

\* One number adds up to itself.
LEMMA TotalOne ==
  ASSUME NEW ns \in Seq(Nat), Len(ns) = 1
  PROVE  Total(ns) = ns[1]
<1>1. PICK g \in [0..1 -> Nat] : g[0] = 0 /\ g[1] = g[1 - 1] + ns[1] /\ Total(ns) = g[1]
  <2>1. 1 \in 1..1
    OBVIOUS
  <2> QED BY <2>1, TotalSums
<1>2. ns[1] \in Nat
  OBVIOUS
<1> QED BY <1>1, <1>2

\* Nothing but zeros adds up to nothing.
LEMMA TotalZeros ==
  ASSUME NEW ns \in Seq(Nat), \A i \in DOMAIN ns : ns[i] = 0
  PROVE  Total(ns) = 0
<1>1. PICK N \in Nat : N = Len(ns) /\ DOMAIN ns = 1..N
  OBVIOUS
<1>2. PICK g \in [0..N -> Nat] :
        g[0] = 0 /\ (\A k \in 1..N : g[k] = g[k - 1] + ns[k]) /\ Total(ns) = g[N]
  BY <1>1, TotalSums
<1> DEFINE Q == {k \in 0..N : g[k] = 0}
<1>3. 0 \in Q
  BY <1>2
<1>4. ASSUME NEW k \in 1..N, k - 1 \in Q PROVE k \in Q
  <2>1. ns[k] = 0 /\ g[k - 1] = 0 /\ k \in 0..N
    BY <1>1, <1>4
  <2>2. g[k] = g[k - 1] + ns[k]
    BY <1>2
  <2> QED BY <2>1, <2>2
<1>5. N \in Q
  <2> HIDE DEF Q
  <2>1. \A k \in 0..N : k \in Q
    BY <1>3, <1>4, UpTo
  <2> QED BY <2>1
<1> QED BY <1>2, <1>5

\* The greatest of finitely many numbers is one of them.
LEMMA MaxIn ==
  ASSUME NEW S \in SUBSET Nat, S # {}, IsFiniteSet(S)
  PROVE  Max(S) \in S /\ \A m \in S : m <= Max(S)
<1>1. PICK b \in Nat : \A m \in S : m <= b
  <2>0. PICK n \in Nat : ExistsSurjection(1..n, S)
    BY FS_NatSurjection
  <2>1. PICK f \in [1..n -> S] : \A m \in S : \E i \in 1..n : f[i] = m
    BY <2>0 DEF ExistsSurjection, Surjection
  <2> DEFINE Q == {k \in 0..n : \E b \in Nat : \A i \in 1..k : f[i] <= b}
  <2>2. 0 \in Q
    <3>1. \A i \in 1..0 : f[i] <= 0
      OBVIOUS
    <3>2. 0 \in 0..n /\ 0 \in Nat
      OBVIOUS
    <3> QED BY <3>1, <3>2
  <2>3. ASSUME NEW k \in 1..n, k - 1 \in Q PROVE k \in Q
    <3>1. PICK b \in Nat : \A i \in 1..(k - 1) : f[i] <= b
      BY <2>3
    <3>2. f[k] \in Nat
      OBVIOUS
    <3>3. PICK c \in Nat : b <= c /\ f[k] <= c
      BY <3>2
    <3>4. ASSUME NEW i \in 1..k PROVE f[i] <= c
      <4>1. i # k => i \in 1..(k - 1)
        OBVIOUS
      <4>2. i \in 1..n
        OBVIOUS
      <4>3. f[i] \in Nat
        BY <4>2
      <4> QED BY <3>1, <3>3, <4>1, <4>3
    <3> QED BY <3>4
  <2>4. n \in Q
    <3> HIDE DEF Q
    <3>1. \A k \in 0..n : k \in Q
      BY <2>2, <2>3, UpTo
    <3> QED BY <3>1
  <2> QED BY <2>1, <2>4
<1> DEFINE T == {k \in Nat : \E m \in S : k + m = b}
<1>2. T \in SUBSET Nat /\ T # {}
  <2>1. PICK m \in S : TRUE
    OBVIOUS
  <2>2. b - m \in Nat /\ (b - m) + m = b
    BY <1>1, <2>1
  <2> QED BY <2>2
<1>3. PICK k \in T : \A j \in T : k <= j
  <2> HIDE DEF T
  <2> QED BY <1>2, Least
<1>4. PICK n \in S : k + n = b
  BY <1>3
<1>5. ASSUME NEW m \in S PROVE m <= n
  <2>1. b - m \in Nat /\ (b - m) + m = b
    BY <1>1
  <2>2. b - m \in T
    BY <2>1
  <2> QED BY <1>3, <1>4, <2>2
<1>6. n \in S /\ \A m \in S : n >= m
  BY <1>5
<1> QED BY <1>6 DEF Max

\* The least of some numbers is one of them.
LEMMA MinIn ==
  ASSUME NEW S \in SUBSET Nat, S # {}
  PROVE  Min(S) \in S /\ \A m \in S : Min(S) <= m
<1>1. PICK n \in S : \A m \in S : n <= m
  BY Least
<1> QED BY <1>1 DEF Min

-----------------------------------------------------------------------------
(* What is true of a run's document, its plan and its containers.          *)

Outs == [n : Nat, at : Nat]
Out == Outs \cup {None}
Tasks == {"pending", "dispatched", "succeeded", "failed", "cancelled"}
ShardType == [task : Tasks, attempt : Nat, out : Out]
StepType == [verdict : {"pending", "running"} \cup Terminal, shards : Seq(ShardType), port : Out]
Document == [Names -> StepType]
Box == [step : Names, shard : Nat, attempt : Nat, over : BOOLEAN, out : Out]

\* A step has no shards before it begins and no port before it ends, and
\* one that ended by itself has a port and no shard that is not over.
Shaped(st) ==
  \A s \in Names :
    /\ st[s].verdict = "pending" => st[s].shards = <<>>
    /\ st[s].verdict \in {"pending", "running"} => st[s].port = None
    /\ st[s].verdict \in {"succeeded", "failed", "skipped"} =>
         /\ st[s].port # None
         /\ \A i \in DOMAIN st[s].shards : TaskOver(st[s].shards[i])

\* The barrier of a step holds: an edge waits, and under first none produced.
Waits(st, s) ==
  /\ \E i \in DOMAIN flow.needs[s] : EdgeWaiting(st, flow.needs[s][i])
  /\ flow.merge[s] = "first" =>
       \A i \in DOMAIN flow.needs[s] : ~EdgeProduced(st, flow.needs[s][i])

Going(sh) == sh.task \in {"pending", "dispatched"}

\* A round over the document would change nothing of it.
Quiet(st) ==
  \A s \in Names :
    /\ st[s].verdict = "pending" => Waits(st, s)
    /\ st[s].verdict = "running" => \E i \in DOMAIN st[s].shards : Going(st[s].shards[i])
    /\ CalledOff(st, s) = {}
    /\ ~Builds(s) => Startable(st, s) = {}

\* The containers are those of the shards that were handed out, one for each;
\* one whose shard was called off was named in a stop.
Boxed(st, bs, names) ==
  /\ \A b \in bs :
       /\ b.shard \in DOMAIN st[b.step].shards
       /\ st[b.step].shards[b.shard].attempt = b.attempt
       /\ \/ st[b.step].shards[b.shard].task = "dispatched"
          \/ /\ st[b.step].shards[b.shard].task = "cancelled"
             /\ TaskOf(b.step, b.shard, b.attempt) \in names
  /\ \A b, c \in bs : b.step = c.step /\ b.shard = c.shard => b = c
  /\ \A s \in Names : \A i \in DOMAIN st[s].shards :
       HoldsARunner(st[s].shards[i]) => \E b \in bs : b.step = s /\ b.shard = i

RunInv ==
  /\ flow \in Flows /\ clock \in Nat /\ boxes \in SUBSET Box
  /\ run \in {"queued", "running"} \cup RunTerminal
  /\ steps \in Document /\ Shaped(steps)
  /\ run \notin RunTerminal => Boxed(steps, boxes, told)
  /\ run \in RunTerminal => \A b \in boxes : TaskOf(b.step, b.shard, b.attempt) \in told
  /\ run = "running" =>
       Quiet(steps) /\ plan = Starts(steps) /\ RunVerdict(steps) = "running"
  /\ run # "running" => plan = {}

\* No step takes the first of several: what lifted a barrier is what it reads.
NoFirst == \A s \in Names : flow.merge[s] # "first"

\* A step under way reads what it was divided by; nothing is called off but by
\* the failure of a sibling.
Divided(st) ==
  \A s \in Names :
    /\ st[s].verdict # "cancelled"
    /\ \A i \in DOMAIN st[s].shards :
         st[s].shards[i].task = "cancelled" =>
           \E j \in DOMAIN st[s].shards : st[s].shards[j].task = "failed"
    /\ st[s].verdict = "running" =>
         /\ \A i \in DOMAIN flow.needs[s] : ~EdgeWaiting(st, flow.needs[s][i])
         /\ Stands(st, s)

DividedInv == NoFirst /\ run \notin RunTerminal => Divided(steps)

-----------------------------------------------------------------------------
(* The graph a run is of.                                                  *)

\* The order of a run's workflow names each step once, after what it needs.
LEMMA OrderFacts ==
  ASSUME flow \in Flows
  PROVE  /\ Len(flow.order) \in Nat /\ DOMAIN flow.order = 1..Len(flow.order)
         /\ \A k \in 1..Len(flow.order) : flow.order[k] \in Names
         /\ \A s \in Names : \E k \in 1..Len(flow.order) : s = flow.order[k]
         /\ \A j, k \in 1..Len(flow.order) : flow.order[j] = flow.order[k] => j = k
         /\ \A k \in 1..Len(flow.order) : \A i \in DOMAIN flow.needs[flow.order[k]] :
              \E j \in 1..(k - 1) : flow.needs[flow.order[k]][i] = flow.order[j]
         /\ \A s \in Names : flow.needs[s] \in Seq(Names)
<1>1. FlowOK(flow)
  BY GraphAssumption
<1>2. flow.order \in Seq(DOMAIN flow.needs)
  BY <1>1 DEF FlowOK
<1>3. Len(flow.order) \in Nat /\ DOMAIN flow.order = 1..Len(flow.order)
  BY <1>2
<1>4. /\ \A k \in 1..Len(flow.order) : flow.order[k] \in Names
      /\ \A s \in Names : \E k \in 1..Len(flow.order) : s = flow.order[k]
  BY <1>3 DEF Names, Range
<1>5. \A j, k \in 1..Len(flow.order) : flow.order[j] = flow.order[k] => j = k
  BY <1>1, <1>3 DEF FlowOK, IsInjective
<1>6. ASSUME NEW k \in 1..Len(flow.order)
      PROVE  flow.needs[flow.order[k]] \in Seq({flow.order[j] : j \in 1..(k - 1)})
  BY <1>1, <1>3 DEF FlowOK
<1>7. ASSUME NEW k \in 1..Len(flow.order)
      PROVE  /\ \A i \in DOMAIN flow.needs[flow.order[k]] :
                  \E j \in 1..(k - 1) : flow.needs[flow.order[k]][i] = flow.order[j]
             /\ flow.needs[flow.order[k]] \in Seq(Names)
  <2>1. PICK S : S = {flow.order[j] : j \in 1..(k - 1)}
    OBVIOUS
  <2>2. flow.needs[flow.order[k]] \in Seq(S)
    BY <1>6, <2>1
  <2>3. \A i \in DOMAIN flow.needs[flow.order[k]] : flow.needs[flow.order[k]][i] \in S
    BY <2>2
  <2>4. \A j \in 1..(k - 1) : j \in 1..Len(flow.order)
    BY <1>3
  <2>5. S \subseteq Names
    BY <1>4, <2>1, <2>4
  <2>6. flow.needs[flow.order[k]] \in Seq(Names)
    BY <2>2, <2>5, SeqMonotonic
  <2> QED BY <2>1, <2>3, <2>6
<1>8. \A s \in Names : flow.needs[s] \in Seq(Names)
  BY <1>4, <1>7
<1> QED BY <1>3, <1>4, <1>5, <1>7, <1>8

\* What a step needs are other steps.
LEMMA NeedsFacts ==
  ASSUME flow \in Flows, NEW s \in Names
  PROVE  /\ flow.needs[s] \in Seq(Names)
         /\ Len(flow.needs[s]) \in Nat /\ DOMAIN flow.needs[s] = 1..Len(flow.needs[s])
         /\ \A i \in DOMAIN flow.needs[s] : flow.needs[s][i] \in Names \ {s}
<1>1. PICK k \in 1..Len(flow.order) : s = flow.order[k]
  BY OrderFacts
<1>2. flow.needs[s] \in Seq(Names)
  BY OrderFacts
<1>3. ASSUME NEW i \in DOMAIN flow.needs[s] PROVE flow.needs[s][i] # s
  <2>1. PICK j \in 1..(k - 1) : flow.needs[s][i] = flow.order[j]
    <3>1. flow.needs[s] = flow.needs[flow.order[k]]
      BY <1>1
    <3>2. \A e \in DOMAIN flow.needs[flow.order[k]] :
            \E j \in 1..(k - 1) : flow.needs[flow.order[k]][e] = flow.order[j]
      BY OrderFacts
    <3> QED BY <3>1, <3>2
  <2>2. j \in 1..Len(flow.order) /\ j # k
    BY OrderFacts
  <2> QED BY <1>1, <2>1, <2>2, OrderFacts
<1>4. \A i \in DOMAIN flow.needs[s] : flow.needs[s][i] \in Names
  BY <1>2
<1>5. Len(flow.needs[s]) \in Nat /\ DOMAIN flow.needs[s] = 1..Len(flow.needs[s])
  BY <1>2
<1> QED BY <1>2, <1>3, <1>4, <1>5

\* What is said of a step of a workflow.
LEMMA StepFacts ==
  ASSUME flow \in Flows, NEW s \in Names
  PROVE  /\ flow.merge[s] \in Merges /\ flow.fed[s] \in Nat \cup {-1}
         /\ flow.cond[s] \in {"none", "true", "false", "error"}
         /\ flow.tries[s] \in Nat \ {0} /\ flow.parallel[s] \in Nat
         /\ flow.fanOut[s] \in BOOLEAN
BY GraphAssumption DEF FlowOK, Names

-----------------------------------------------------------------------------
(* The barrier: what a step reads.                                         *)

\* An edge that is over holds an envelope.
LEMMA HeldOut ==
  ASSUME NEW st \in Document, NEW u \in Names, clock \in Nat
  PROVE  Held(st, u) \in Outs
BY DEF Held, Document, StepType, Out, Outs

\* Among edges, the winner is one of them.
LEMMA WinnerIn ==
  ASSUME NEW st \in Document, NEW edges \in Seq(Names), edges # <<>>
  PROVE  Winner(st, edges) \in DOMAIN edges
<1> DEFINE produced == {i \in DOMAIN edges : EdgeProduced(st, edges[i])}
           At == {st[edges[j]].port.at : j \in produced}
           earliest == {i \in produced :
                          \A j \in produced : st[edges[i]].port.at <= st[edges[j]].port.at}
<1>1. 1 \in DOMAIN edges
  OBVIOUS
<1>2. CASE produced = {}
  BY <1>1, <1>2 DEF Winner
<1>3. CASE produced # {}
  <2>1. \A j \in produced : st[edges[j]].port.at \in Nat
    BY DEF EdgeProduced, Document, StepType, Out, Outs
  <2>2. PICK n \in At : \A m \in At : n <= m
    <3>1. At \in SUBSET Nat /\ At # {}
      BY <1>3, <2>1
    <3> HIDE DEF At
    <3> QED BY <3>1, Least
  <2>3. earliest # {}
    BY <2>2
  <2>4. earliest \in SUBSET Nat
    OBVIOUS
  <2>5. Min(earliest) \in earliest
    <3> HIDE DEF earliest
    <3> QED BY <2>3, <2>4, MinIn
  <2>6. Winner(st, edges) = Min(earliest)
    BY <1>3 DEF Winner
  <2> QED BY <2>5, <2>6
<1> QED BY <1>2, <1>3

\* When a port is satisfied, by whom, and what is given up.
LEMMA PortFacts ==
  ASSUME flow \in Flows, NEW st \in Document, NEW s \in Names, NEW p, p = SatisfyPort(st, s)
  PROVE  /\ p.ready <=> ~Waits(st, s)
         /\ p.from \in Seq(Names)
         /\ \A u \in p.dropped : \E i \in DOMAIN flow.needs[s] : u = flow.needs[s][i]
         /\ flow.merge[s] # "first" => p.dropped = {} /\ p.from = flow.needs[s]
<1> DEFINE edges == flow.needs[s]
<1>1. edges \in Seq(Names) /\ DOMAIN edges = 1..Len(edges) /\ Len(edges) \in Nat
  BY NeedsFacts
<1>2. CASE flow.merge[s] = "first" /\ edges # <<>>
  <2>0. PICK yes \in BOOLEAN :
          yes = ((\A i \in DOMAIN edges : ~EdgeWaiting(st, edges[i])) \/ \E i \in DOMAIN edges : EdgeProduced(st, edges[i]))
    OBVIOUS
  <2>1. p = FirstOf(edges, Winner(st, edges), yes)
    BY <1>2, <2>0 DEF SatisfyPort
  <2>2. PICK w \in DOMAIN edges : w = Winner(st, edges)
    BY <1>1, <1>2, WinnerIn
  <2>3. /\ p.ready = yes
        /\ p.from = <<edges[w]>>
        /\ p.dropped = {edges[i] : i \in DOMAIN edges \ {w}}
    BY <2>1, <2>2 DEF FirstOf
  <2>4. p.from \in Seq(Names)
    BY <1>1, <2>2, <2>3
  <2>5. p.ready <=> ~Waits(st, s)
    BY <1>2, <2>0, <2>3 DEF Waits
  <2> QED BY <1>2, <2>3, <2>4, <2>5
<1>3. CASE ~(flow.merge[s] = "first" /\ edges # <<>>)
  <2>1. p = [ready |-> \A i \in DOMAIN edges : ~EdgeWaiting(st, edges[i]), from |-> edges, dropped |-> {}]
    BY <1>3 DEF SatisfyPort
  <2>2. p.ready <=> ~Waits(st, s)
    BY <1>3, <2>1 DEF Waits
  <2> QED BY <1>1, <2>1, <2>2
<1> QED BY <1>2, <1>3

\* The earliest of several parts is one of them.
LEMMA FirstPartIn ==
  ASSUME NEW parts \in Seq(Outs), parts # <<>>
  PROVE  FirstPart(parts) \in Outs
<1> DEFINE At == {parts[j].at : j \in DOMAIN parts}
           Good(i) == /\ \A j \in DOMAIN parts : parts[i].at <= parts[j].at
                      /\ \A j \in 1..(i - 1) : parts[j].at > parts[i].at
<1>1. 1 \in DOMAIN parts /\ DOMAIN parts = 1..Len(parts) /\ Len(parts) \in Nat
  OBVIOUS
<1>2. \A j \in DOMAIN parts : parts[j] \in Outs /\ parts[j].at \in Nat
  <2>1. \A j \in DOMAIN parts : parts[j] \in Outs
    OBVIOUS
  <2> QED BY <2>1 DEF Outs
<1>3. PICK n \in At : \A m \in At : n <= m
  <2>1. At \in SUBSET Nat /\ At # {}
    BY <1>1, <1>2
  <2> HIDE DEF At
  <2> QED BY <2>1, Least
<1> DEFINE I == {j \in DOMAIN parts : parts[j].at = n}
<1>4. PICK i \in I : \A j \in I : i <= j
  <2>1. I \in SUBSET Nat /\ I # {}
    BY <1>1, <1>3
  <2> HIDE DEF I
  <2> QED BY <2>1, Least
<1>5. \A j \in DOMAIN parts : parts[i].at <= parts[j].at
  BY <1>3, <1>4
<1>6. ASSUME NEW j \in 1..(i - 1) PROVE parts[j].at > parts[i].at
  <2>1. i \in 1..Len(parts) /\ j \in DOMAIN parts /\ j < i
    BY <1>1, <1>4
  <2>2. parts[j].at # n
    BY <1>4, <2>1
  <2> QED BY <1>2, <1>4, <1>5, <2>1, <2>2
<1>7. \E e \in DOMAIN parts : Good(e)
  BY <1>4, <1>5, <1>6
<1>8. (CHOOSE e \in DOMAIN parts : Good(e)) \in DOMAIN parts
  <2> HIDE DEF Good
  <2> QED BY <1>7
<1> QED BY <1>2, <1>8 DEF FirstPart

\* What a port's parts come to holds a number of items, or is refused.
LEMMA MergePortN ==
  ASSUME NEW s \in Names, NEW parts \in Seq(Outs), parts # <<>>
  PROVE  MergePort(s, parts).n \in Nat \cup {-2}
<1>1. 1 \in DOMAIN parts /\ DOMAIN parts = 1..Len(parts) /\ Len(parts) \in Nat
  OBVIOUS
<1>2. \A j \in DOMAIN parts : parts[j] \in Outs /\ parts[j].n \in Nat
  <2>1. \A j \in DOMAIN parts : parts[j] \in Outs
    OBVIOUS
  <2> QED BY <2>1 DEF Outs
<1>3. FirstPart(parts).n \in Nat
  BY FirstPartIn DEF Outs
<1>4. ZipParts(parts).n \in Nat \cup {-2}
  BY <1>1, <1>2 DEF ZipParts
<1>5. Concat(parts).n \in Nat
  <2> DEFINE ns == [i \in DOMAIN parts |-> parts[i].n]
  <2>1. ns \in Seq(Nat)
    BY <1>1, <1>2
  <2>2. Concat(parts).n = Total(ns)
    BY DEF Concat
  <2> HIDE DEF ns
  <2> QED BY <2>1, <2>2, TotalNat
<1>6. MergePort(s, parts) \in {parts[1], ZipParts(parts), FirstPart(parts), Concat(parts)}
  BY DEF MergePort
<1> QED BY <1>1, <1>2, <1>3, <1>4, <1>5, <1>6

\* What a step reads: it waits exactly where its barrier holds, and where it
\* starts it is divided into a number of shards.
LEMMA ReadFacts ==
  ASSUME flow \in Flows, clock \in Nat, NEW st \in Document, NEW s \in Names,
         NEW r, r = Read(st, s)
  PROVE  /\ r.gate \in {"wait", "skip", "refused", "start"}
         /\ r.gate = "wait" <=> Waits(st, s)
         /\ r.gate = "start" => FanOut(s, r.in) \in Nat
         /\ \A u \in r.dropped : \E i \in DOMAIN flow.needs[s] : u = flow.needs[s][i]
         /\ flow.merge[s] # "first" => r.dropped = {}
<1>1. PICK p : p = SatisfyPort(st, s)
  OBVIOUS
<1>2. /\ p.ready <=> ~Waits(st, s)
      /\ p.from \in Seq(Names)
      /\ \A u \in p.dropped : \E i \in DOMAIN flow.needs[s] : u = flow.needs[s][i]
      /\ flow.merge[s] # "first" => p.dropped = {}
  BY <1>1, PortFacts
<1> DEFINE parts == [i \in DOMAIN p.from |-> Held(st, p.from[i])] \o Fed(s)
<1>3. PICK in : in = IF ~p.ready THEN None ELSE Arrival(s, parts)
  OBVIOUS
<1>4. r = Gate(st, s, p, in)
  BY <1>1, <1>3 DEF Read, Barrier
<1>5. in = None \/ in.n \in Nat \cup {-2}
  <2>1. [i \in DOMAIN p.from |-> Held(st, p.from[i])] \in Seq(Outs)
    <3>1. \A i \in DOMAIN p.from : Held(st, p.from[i]) \in Outs
      BY <1>2, HeldOut
    <3> QED BY <1>2, <3>1
  <2>2. Fed(s) \in Seq(Outs)
    <3>1. flow.fed[s] \in Nat \cup {-1}
      BY StepFacts
    <3>2. flow.fed[s] \in Nat => [n |-> flow.fed[s], at |-> 0] \in Outs
      BY DEF Outs
    <3>3. \A e \in Outs : <<e>> \in Seq(Outs)
      OBVIOUS
    <3>4. Fed(s) = <<>> \/ (flow.fed[s] \in Nat /\ Fed(s) = <<[n |-> flow.fed[s], at |-> 0]>>)
      BY <3>1 DEF Fed
    <3>5. CASE Fed(s) = <<>>
      BY <3>5
    <3> QED BY <3>2, <3>3, <3>4, <3>5
  <2>3. parts \in Seq(Outs)
    BY <2>1, <2>2, ConcatProperties
  <2>4. parts # <<>> => MergePort(s, parts).n \in Nat \cup {-2}
    <3> HIDE DEF parts
    <3> QED BY <2>3, MergePortN
  <2> HIDE DEF parts
  <2> QED BY <1>3, <2>4 DEF Arrival
<1>6. PICK g : g = IF ~p.ready THEN "wait"
                   ELSE IF \E i \in DOMAIN p.from : ~Admits(flow.when[s], st[p.from[i]].verdict)
                   THEN "skip"
                   ELSE IF in.n = -2 THEN "refused" ELSE "start"
  OBVIOUS
<1>7. r.gate = g /\ r.in = in /\ r.dropped = p.dropped
  BY <1>4, <1>6 DEF Gate
<1>8. /\ g \in {"wait", "skip", "refused", "start"}
      /\ g = "wait" <=> ~p.ready
      /\ g = "start" => in.n # -2
  BY <1>6
<1> QED BY <1>2, <1>5, <1>7, <1>8 DEF FanOut

-----------------------------------------------------------------------------
(* One step advances.                                                      *)

\* How a step ends that begins and has nothing to run.
EndsAtOnce(s, r, v) ==
  \/ r.gate = "skip" /\ v = "skipped"
  \/ r.gate = "refused" /\ v = "failed"
  \/ r.gate = "start" /\ flow.cond[s] = "error" /\ v = "failed"
  \/ r.gate = "start" /\ flow.cond[s] = "false" /\ v = "skipped"
  \/ /\ r.gate = "start" /\ flow.cond[s] \notin {"error", "false"}
     /\ FanOut(s, r.in) = 0 /\ v = "succeeded"

SomeGoing(shards) == \E i \in DOMAIN shards : Going(shards[i])

\* What becomes of step s, from st to e.
Stays(st, s) ==
  \/ st[s].verdict \in Terminal
  \/ st[s].verdict = "pending" /\ Waits(st, s)
  \/ st[s].verdict = "running" /\ SomeGoing(st[s].shards)

Passes(st, e, s) ==
  /\ st[s].verdict = "pending" /\ ~Waits(st, s)
  /\ \E v \in {"skipped", "failed", "succeeded"} :
       /\ EndsAtOnce(s, Read(st, s), v)
       /\ e[s] = [verdict |-> v, shards |-> <<>>, port |-> [n |-> 0, at |-> clock]]

Starting(st, e, s) ==
  /\ st[s].verdict = "pending" /\ ~Waits(st, s)
  /\ Read(st, s).gate = "start" /\ flow.cond[s] \notin {"error", "false"}
  /\ \E w \in Nat \ {0} :
       /\ w = FanOut(s, Read(st, s).in)
       /\ e[s] = [verdict |-> "running", shards |-> [i \in 1..w |-> NewShard], port |-> None]

Settles(st, e, s) ==
  /\ st[s].verdict = "running" /\ ~SomeGoing(st[s].shards)
  /\ \E v \in {"failed", "cancelled", "succeeded"} :
       /\ v = StepVerdict(st[s].shards)
       /\ e[s] = [verdict |-> v, shards |-> st[s].shards,
                  port |-> IF v = "cancelled" THEN st[s].port ELSE Publish(st[s].shards)]

\* Step u, called off by s.
CalledOffBy(st, e, s, u) ==
  /\ st[u].verdict \notin Terminal /\ ~StillNeeded(st, u, s)
  /\ flow.merge[s] = "first" /\ \E i \in DOMAIN flow.needs[s] : flow.needs[s][i] = u
  /\ e[u] = [verdict |-> "cancelled", shards |-> st[u].shards, port |-> st[u].port]

Advances(st, e, s) ==
  \/ Stays(st, s) /\ e = st
  \/ /\ Passes(st, e, s) \/ Starting(st, e, s) \/ Settles(st, e, s)
     /\ \A u \in Names \ {s} :
          e[u] = st[u] \/ (st[s].verdict = "pending" /\ CalledOffBy(st, e, s, u))

\* What the shards published is an envelope.
LEMMA PublishOut ==
  ASSUME clock \in Nat, NEW shards \in Seq(ShardType)
  PROVE  Publish(shards) \in Outs
<1> DEFINE wrote == {i \in DOMAIN shards : shards[i].out # None}
           ns == [i \in DOMAIN shards |-> IF i \in wrote THEN shards[i].out.n ELSE 0]
           at == {shards[i].out.at : i \in wrote}
<1>1. DOMAIN shards = 1..Len(shards) /\ Len(shards) \in Nat
  OBVIOUS
<1>2. \A i \in wrote : shards[i].out \in Outs
  <2>1. \A i \in wrote : shards[i] \in ShardType
    OBVIOUS
  <2> QED BY <2>1 DEF ShardType, Out
<1>3. CASE wrote = {}
  BY <1>3 DEF Publish, Outs
<1>4. CASE wrote # {}
  <2>1. Total(ns) \in Nat
    <3>1. \A i \in DOMAIN shards : ns[i] \in Nat
      BY <1>2 DEF Outs
    <3>2. ns \in Seq(Nat)
      BY <1>1, <3>1
    <3> HIDE DEF ns
    <3> QED BY <3>2, TotalNat
  <2>2. Max(at) \in Nat
    <3>1. IsFiniteSet(wrote)
      <4>1. IsFiniteSet(1..Len(shards)) /\ wrote \subseteq 1..Len(shards)
        BY <1>1, FS_Interval
      <4> QED BY <4>1, FS_Subset
    <3>2. IsFiniteSet(at)
      <4> DEFINE f == [i \in wrote |-> shards[i].out.at]
      <4>1. at = {f[i] : i \in wrote}
        OBVIOUS
      <4>2. f \in [wrote -> at] /\ \A m \in at : \E i \in wrote : f[i] = m
        OBVIOUS
      <4>3. f \in Surjection(wrote, at)
        BY <4>2 DEF Surjection
      <4> HIDE DEF f, wrote, at
      <4> QED BY <3>1, <4>3, FS_Surjection
    <3>3. at \in SUBSET Nat /\ at # {}
      BY <1>2, <1>4 DEF Outs
    <3> HIDE DEF at
    <3> QED BY <3>2, <3>3, MaxIn
  <2>3. Publish(shards) = [n |-> Total(ns), at |-> Max(at)]
    BY <1>4 DEF Publish
  <2> HIDE DEF ns, at
  <2> QED BY <2>1, <2>2, <2>3 DEF Outs
<1> QED BY <1>3, <1>4

\* No envelope is none.
LEMMA NoneIsNoOut == None \notin Outs
BY DEF None, Outs

\* A step is running while a shard of it is going, and then ends as its shards did.
LEMMA StepVerdictFacts ==
  ASSUME NEW shards \in Seq(ShardType)
  PROVE  /\ SomeGoing(shards) => StepVerdict(shards) = "running"
         /\ ~SomeGoing(shards) =>
              /\ StepVerdict(shards) \in {"failed", "cancelled", "succeeded"}
              /\ \A i \in DOMAIN shards : TaskOver(shards[i])
<1> DEFINE seen == {shards[i].task : i \in DOMAIN shards}
<1>1. \A i \in DOMAIN shards : shards[i].task \in Tasks
  <2>1. \A i \in DOMAIN shards : shards[i] \in ShardType
    OBVIOUS
  <2> QED BY <2>1 DEF ShardType
<1>2. SomeGoing(shards) <=> seen \cap {"pending", "dispatched"} # {}
  BY DEF SomeGoing, Going
<1>3. ~SomeGoing(shards) => \A i \in DOMAIN shards : TaskOver(shards[i])
  BY <1>1 DEF SomeGoing, Going, TaskOver, Tasks
<1>4. StepVerdict(shards) = IF seen \cap {"pending", "dispatched"} # {} THEN "running"
                            ELSE IF "failed" \in seen THEN "failed"
                            ELSE IF "cancelled" \in seen THEN "cancelled" ELSE "succeeded"
  BY DEF StepVerdict
<1> HIDE DEF seen
<1> QED BY <1>2, <1>3, <1>4

\* A running step stays, or settles.
LEMMA SettleFacts ==
  ASSUME clock \in Nat, NEW st \in Document, NEW s \in Names,
         st[s].verdict = "running", NEW e, e = Settle(st, s)
  PROVE  Advances(st, e, s) /\ e \in Document
<1>1. PICK ss \in StepType : ss = st[s]
  BY DEF Document
<1>2. ss.shards \in Seq(ShardType)
  BY <1>1 DEF StepType
<1>3. PICK v : v = StepVerdict(ss.shards)
  OBVIOUS
<1>4. CASE SomeGoing(ss.shards)
  <2>1. v = "running"
    BY <1>2, <1>3, <1>4, StepVerdictFacts
  <2>2. e = st
    BY <1>1, <1>3, <2>1 DEF Settle, Terminal
  <2> QED BY <1>1, <1>4, <2>2 DEF Advances, Stays
<1>5. CASE ~SomeGoing(ss.shards)
  <2>1. v \in {"failed", "cancelled", "succeeded"}
    BY <1>2, <1>3, <1>5, StepVerdictFacts
  <2>2. PICK p : p = IF v = "cancelled" THEN ss.port ELSE Publish(ss.shards)
    OBVIOUS
  <2>3. p \in Out
    BY <1>1, <1>2, <2>2, PublishOut DEF StepType, Out
  <2>4. PICK n : n = [verdict |-> v, shards |-> ss.shards, port |-> p]
    OBVIOUS
  <2>5. n \in StepType
    BY <1>2, <2>1, <2>3, <2>4 DEF StepType, Terminal
  <2>6. e = [st EXCEPT ![s] = n]
    <3>1. CASE v = "cancelled"
      <4>1. e = [st EXCEPT ![s].verdict = v]
        BY <1>1, <1>3, <3>1 DEF Settle, Terminal
      <4>2. [ss EXCEPT !.verdict = v] = n
        BY <1>1, <2>2, <2>4, <3>1 DEF StepType
      <4> QED BY <1>1, <4>1, <4>2
    <3>2. CASE v # "cancelled"
      <4>1. e = End(st, s, v, st[s].shards)
        BY <1>1, <1>3, <2>1, <3>2 DEF Settle, Terminal
      <4> QED BY <1>1, <2>2, <2>4, <3>2, <4>1 DEF End
    <3> QED BY <3>1, <3>2
  <2>7. e[s] = n /\ e \in Document /\ \A u \in Names \ {s} : e[u] = st[u]
    BY <2>5, <2>6 DEF Document
  <2>8. Settles(st, e, s)
    BY <1>1, <1>3, <1>5, <2>1, <2>2, <2>4, <2>7 DEF Settles
  <2> QED BY <2>7, <2>8 DEF Advances
<1> QED BY <1>4, <1>5

\* A pending step stays, passes, or begins and calls off what lost.
LEMMA BeginFacts ==
  ASSUME flow \in Flows, clock \in Nat, NEW st \in Document, NEW s \in Names,
         st[s].verdict = "pending", NEW e, e = Begin(st, s)
  PROVE  Advances(st, e, s) /\ e \in Document
<1>1. PICK r : r = Read(st, s)
  OBVIOUS
<1>2. /\ r.gate \in {"wait", "skip", "refused", "start"}
      /\ r.gate = "wait" <=> Waits(st, s)
      /\ r.gate = "start" => FanOut(s, r.in) \in Nat
      /\ \A u \in r.dropped : \E i \in DOMAIN flow.needs[s] : u = flow.needs[s][i]
      /\ flow.merge[s] # "first" => r.dropped = {}
  BY <1>1, ReadFacts
<1>3. e = Begun(st, s, r)
  BY <1>1 DEF Begin
<1>4. CASE r.gate = "wait"
  <2>1. e = st
    BY <1>3, <1>4 DEF Begun
  <2> QED BY <1>2, <1>4, <2>1 DEF Advances, Stays
<1> DEFINE Ended(v) == [verdict |-> v, shards |-> <<>>, port |-> [n |-> 0, at |-> clock]]
<1>5. ASSUME NEW v \in {"skipped", "failed", "succeeded"}
      PROVE  /\ \A x \in Document : End(x, s, v, <<>>) = [x EXCEPT ![s] = Ended(v)]
             /\ Ended(v) \in StepType
  <2>1. Publish(<<>>) = [n |-> 0, at |-> clock]
    BY DEF Publish
  <2>2. [n |-> 0, at |-> clock] \in Out
    BY DEF Out, Outs
  <2>3. Ended(v) \in StepType
    BY <2>2 DEF StepType, Terminal
  <2> QED BY <2>1, <2>3 DEF End
<1>6. CASE r.gate \in {"skip", "refused"}
  <2>1. PICK v \in {"skipped", "failed", "succeeded"} :
          EndsAtOnce(s, r, v) /\ e = End(st, s, v, <<>>)
    BY <1>3, <1>6 DEF Begun, EndsAtOnce
  <2>2. e = [st EXCEPT ![s] = Ended(v)] /\ Ended(v) \in StepType
    BY <1>5, <2>1
  <2>3. e[s] = Ended(v) /\ e \in Document /\ \A u \in Names \ {s} : e[u] = st[u]
    BY <2>2 DEF Document
  <2>4. Passes(st, e, s)
    BY <1>1, <1>2, <1>6, <2>1, <2>3 DEF Passes
  <2> QED BY <2>3, <2>4 DEF Advances
<1>7. CASE r.gate = "start"
  <2>1. PICK over : over = Superseded(st, s, r.dropped)
    OBVIOUS
  <2>2. PICK x : x = CancelSteps(st, over)
    OBVIOUS
  <2>3. PICK w \in Nat : w = FanOut(s, r.in)
    BY <1>2, <1>7
  <2>4. e = Lifted(x, s, w)
    BY <1>3, <1>7, <2>1, <2>2, <2>3 DEF Begun
  <2>5. \A u \in over : /\ st[u].verdict \notin Terminal /\ ~StillNeeded(st, u, s)
                        /\ flow.merge[s] = "first" /\ \E i \in DOMAIN flow.needs[s] : flow.needs[s][i] = u
    BY <1>2, <2>1 DEF Superseded
  <2>6. ASSUME NEW u \in Names
        PROVE  /\ x[u] \in StepType
               /\ u \in over => x[u] = [verdict |-> "cancelled", shards |-> st[u].shards, port |-> st[u].port]
               /\ u \notin over => x[u] = st[u]
    <3>1. PICK su \in StepType : su = st[u]
      BY DEF Document
    <3>2. x[u] = IF u \in over THEN [su EXCEPT !.verdict = "cancelled"] ELSE su
      BY <2>2, <3>1 DEF CancelSteps
    <3>3. [su EXCEPT !.verdict = "cancelled"] = [verdict |-> "cancelled", shards |-> su.shards, port |-> su.port]
      BY DEF StepType
    <3>4. [verdict |-> "cancelled", shards |-> su.shards, port |-> su.port] \in StepType
      BY DEF StepType, Terminal
    <3> QED BY <3>1, <3>2, <3>3, <3>4
  <2>7. x \in Document
    BY <2>2, <2>6 DEF CancelSteps, Document
  <2>8. ASSUME NEW y \in StepType, e = [x EXCEPT ![s] = y]
        PROVE  e[s] = y /\ e \in Document
               /\ \A u \in Names \ {s} : e[u] = st[u] \/ CalledOffBy(st, e, s, u)
    <3>1. e[s] = y /\ e \in Document /\ \A u \in Names \ {s} : e[u] = x[u]
      BY <2>7, <2>8 DEF Document
    <3> QED BY <2>5, <2>6, <3>1 DEF CalledOffBy
  <2>9. flow.cond[s] \in {"none", "true", "false", "error"}
    BY StepFacts
  <2>10. CASE flow.cond[s] \in {"error", "false"} \/ w = 0
    <3>1. PICK v \in {"skipped", "failed", "succeeded"} :
            EndsAtOnce(s, r, v) /\ e = End(x, s, v, <<>>)
      BY <1>7, <2>3, <2>4, <2>10 DEF Lifted, Condition, EndsAtOnce
    <3>2. e = [x EXCEPT ![s] = Ended(v)] /\ Ended(v) \in StepType
      BY <1>5, <2>7, <3>1
    <3>3. e[s] = Ended(v) /\ e \in Document
               /\ \A u \in Names \ {s} : e[u] = st[u] \/ CalledOffBy(st, e, s, u)
      <4> HIDE DEF Ended
      <4> QED BY <2>8, <3>2
    <3>4. Passes(st, e, s)
      BY <1>1, <1>2, <1>7, <3>1, <3>3 DEF Passes
    <3> QED BY <3>3, <3>4 DEF Advances
  <2>11. CASE ~(flow.cond[s] \in {"error", "false"} \/ w = 0)
    <3>1. PICK y : y = [verdict |-> "running", shards |-> [i \in 1..w |-> NewShard], port |-> None]
      OBVIOUS
    <3>2. y \in StepType
      <4>1. NewShard \in ShardType
        BY DEF NewShard, ShardType, Tasks, Out
      <4>2. [i \in 1..w |-> NewShard] \in Seq(ShardType)
        BY <4>1
      <4> QED BY <3>1, <4>2 DEF StepType, Out
    <3>3. e = [x EXCEPT ![s] = y]
      <4>1. [NewStep EXCEPT !.verdict = "running", !.shards = [i \in 1..w |-> NewShard]] = y
        <5>1. PICK z : z = [i \in 1..w |-> NewShard]
          OBVIOUS
        <5>2. [NewStep EXCEPT !.verdict = "running", !.shards = z]
                = [verdict |-> "running", shards |-> z, port |-> None]
          <6>1. PICK E : E = <<>>
            OBVIOUS
          <6>2. PICK p : p = "pending"
            OBVIOUS
          <6>3. NewStep = [verdict |-> p, shards |-> E, port |-> None]
            BY <6>1, <6>2 DEF NewStep
          <6>4. [[verdict |-> p, shards |-> E, port |-> None] EXCEPT !.verdict = "running"]
                  = [verdict |-> "running", shards |-> E, port |-> None]
            OBVIOUS
          <6>5. [[verdict |-> "running", shards |-> E, port |-> None] EXCEPT !.shards = z]
                  = [verdict |-> "running", shards |-> z, port |-> None]
            OBVIOUS
          <6> QED BY <6>3, <6>4, <6>5
        <5> QED BY <3>1, <5>1, <5>2
      <4> QED BY <2>4, <2>11, <4>1 DEF Lifted, Condition
    <3>4. e[s] = y /\ e \in Document
               /\ \A u \in Names \ {s} : e[u] = st[u] \/ CalledOffBy(st, e, s, u)
      BY <2>8, <3>2, <3>3
    <3>5. Starting(st, e, s)
      BY <1>1, <1>2, <1>7, <2>3, <2>11, <3>1, <3>4 DEF Starting
    <3> QED BY <3>4, <3>5 DEF Advances
  <2> QED BY <2>10, <2>11
<1> QED BY <1>2, <1>4, <1>6, <1>7

\* A step that advances stays, begins, passes or settles; others it calls off.
LEMMA AdvanceFacts ==
  ASSUME flow \in Flows, clock \in Nat, NEW st \in Document, NEW s \in Names,
         NEW e, e = Advance(st, s)
  PROVE  Advances(st, e, s) /\ e \in Document
<1>1. CASE st[s].verdict = "pending"
  <2>1. e = Begin(st, s)
    BY <1>1 DEF Advance
  <2> QED BY <1>1, <2>1, BeginFacts
<1>2. CASE st[s].verdict = "running"
  <2>1. e = Settle(st, s)
    BY <1>2 DEF Advance
  <2> QED BY <1>2, <2>1, SettleFacts
<1>3. CASE st[s].verdict \notin {"pending", "running"}
  <2>1. e = st
    BY <1>3 DEF Advance
  <2>2. st[s].verdict \in Terminal
    BY <1>3 DEF Document, StepType
  <2> QED BY <2>1, <2>2 DEF Advances, Stays
<1> QED BY <1>1, <1>2, <1>3

\* What was shaped stays shaped.
LEMMA AdvanceShaped ==
  ASSUME flow \in Flows, clock \in Nat, NEW st \in Document, Shaped(st), NEW s \in Names,
         NEW e \in Document, Advances(st, e, s)
  PROVE  Shaped(e)
<1> DEFINE Fine(x) ==
      /\ x.verdict = "pending" => x.shards = <<>>
      /\ x.verdict \in {"pending", "running"} => x.port = None
      /\ x.verdict \in {"succeeded", "failed", "skipped"} =>
           /\ x.port # None
           /\ \A i \in DOMAIN x.shards : TaskOver(x.shards[i])
<1>1. \A u \in Names : Fine(st[u])
  BY DEF Shaped
<1>2. CASE Stays(st, s) /\ e = st
  BY <1>2
<1>3. CASE /\ Passes(st, e, s) \/ Starting(st, e, s) \/ Settles(st, e, s)
           /\ \A u \in Names \ {s} :
                e[u] = st[u] \/ (st[s].verdict = "pending" /\ CalledOffBy(st, e, s, u))
  <2>1. ASSUME NEW u \in Names \ {s} PROVE Fine(e[u])
    <3>1. CASE e[u] = st[u]
      BY <1>1, <3>1
    <3>2. CASE CalledOffBy(st, e, s, u)
      <4>1. e[u].verdict = "cancelled"
        BY <3>2 DEF CalledOffBy
      <4> QED BY <4>1
    <3> QED BY <1>3, <3>1, <3>2
  <2>2. Fine(e[s])
    <3>1. CASE Passes(st, e, s)
      <4>1. PICK v \in {"skipped", "failed", "succeeded"} :
              e[s] = [verdict |-> v, shards |-> <<>>, port |-> [n |-> 0, at |-> clock]]
        BY <3>1 DEF Passes
      <4> QED BY <4>1 DEF None
    <3>2. CASE Starting(st, e, s)
      <4>1. e[s].verdict = "running" /\ e[s].port = None
        BY <3>2 DEF Starting
      <4> QED BY <4>1
    <3>3. CASE Settles(st, e, s)
      <4>1. PICK v \in {"failed", "cancelled", "succeeded"} :
              e[s] = [verdict |-> v, shards |-> st[s].shards,
                      port |-> IF v = "cancelled" THEN st[s].port ELSE Publish(st[s].shards)]
        BY <3>3 DEF Settles
      <4>2. st[s].shards \in Seq(ShardType)
        BY DEF Document, StepType
      <4>3. Publish(st[s].shards) # None
        BY <4>2, PublishOut, NoneIsNoOut
      <4>4. \A i \in DOMAIN st[s].shards : TaskOver(st[s].shards[i])
        BY <3>3, <4>2, StepVerdictFacts DEF Settles
      <4> QED BY <4>1, <4>3, <4>4
    <3> QED BY <1>3, <3>1, <3>2, <3>3
  <2>3. \A u \in Names : Fine(e[u])
    <3> HIDE DEF Fine
    <3> QED BY <2>1, <2>2
  <2> QED BY <2>3 DEF Shaped
<1> QED BY <1>2, <1>3 DEF Advances

-----------------------------------------------------------------------------
(* A sweep: every step in order.                                           *)

Size == Len(flow.order)

\* The documents of a sweep, one step at a time.
Sweeps(x, st) ==
  /\ x \in [0..Size -> Document]
  /\ x[0] = st
  /\ \A k \in 1..Size : x[k] = Advance(x[k - 1], flow.order[k])

\* A sweep is its steps, one after another.
LEMMA SweepExists ==
  ASSUME flow \in Flows, clock \in Nat, NEW st \in Document
  PROVE  \E x : Sweeps(x, st) /\ Sweep(st) = x[Size]
<1>1. PICK L \in Nat : L = Size
  BY OrderFacts DEF Size
<1>2. \A k \in 1..L : flow.order[k] \in Names
  BY <1>1, OrderFacts DEF Size
<1>3. PICK H \in [1..L -> [Document -> Document]] :
        \A k \in 1..L, d \in Document : H[k][d] = Advance(d, flow.order[k])
  <2> DEFINE h == [k \in 1..L |-> [d \in Document |-> Advance(d, flow.order[k])]]
  <2>1. \A k \in 1..L, d \in Document : Advance(d, flow.order[k]) \in Document
    BY <1>2, AdvanceFacts
  <2>2. h \in [1..L -> [Document -> Document]]
    BY <2>1
  <2>3. \A k \in 1..L, d \in Document : h[k][d] = Advance(d, flow.order[k])
    OBVIOUS
  <2> HIDE DEF h
  <2> QED BY <2>2, <2>3
<1>4. PICK x \in [0..L -> Document] : Iterates(x, st, L, H)
  BY Iteration
<1>5. ASSUME NEW k \in 1..L PROVE x[k] = Advance(x[k - 1], flow.order[k])
  <2>1. k - 1 \in 0..L
    OBVIOUS
  <2>2. x[k - 1] \in Document
    BY <2>1
  <2> QED BY <1>3, <1>4, <2>2 DEF Iterates
<1>6. x = [k \in 0..L |-> IF k = 0 THEN st ELSE Advance(x[k - 1], flow.order[k])]
  BY <1>4, <1>5 DEF Iterates
<1> DEFINE G == CHOOSE g : g = [k \in 0..L |-> IF k = 0 THEN st ELSE Advance(g[k - 1], flow.order[k])]
<1>7. G = [k \in 0..L |-> IF k = 0 THEN st ELSE Advance(G[k - 1], flow.order[k])]
  BY <1>6
<1>8. Sweep(st) = G[L]
  BY <1>1 DEF Sweep, Size
<1> HIDE DEF G
<1>9. /\ G[0] = st
      /\ \A k \in 1..L : G[k] = Advance(G[k - 1], flow.order[k])
  <2>1. 0 \in 0..L /\ \A k \in 1..L : k \in 0..L /\ k # 0
    OBVIOUS
  <2>2. G[0] = st
    BY <1>7, <2>1
  <2>3. ASSUME NEW k \in 1..L PROVE G[k] = Advance(G[k - 1], flow.order[k])
    BY <1>7, <2>1
  <2> QED BY <2>2, <2>3
<1> DEFINE Q == {k \in 0..L : G[k] \in Document}
<1>10. \A k \in 0..L : k \in Q
  <2>1. 0 \in Q
    BY <1>9
  <2>2. ASSUME NEW k \in 1..L, k - 1 \in Q PROVE k \in Q
    <3>1. G[k - 1] \in Document /\ k \in 0..L
      BY <2>2
    <3>2. G[k] \in Document
      BY <1>2, <1>9, <3>1, AdvanceFacts
    <3> QED BY <3>1, <3>2
  <2> HIDE DEF Q
  <2> QED BY <2>1, <2>2, UpTo
<1>11. G \in [0..L -> Document]
  <2>1. \A k \in 0..L : G[k] \in Document
    BY <1>10
  <2>2. G = [k \in 0..L |-> G[k]]
    BY <1>7
  <2> QED BY <2>1, <2>2
<1> QED BY <1>1, <1>8, <1>9, <1>11 DEF Sweeps

\* What may become of a step within a sweep.
Evolves(p, q) ==
  /\ p.verdict \in Terminal => q = p
  /\ p.verdict = "running" => q.shards = p.shards /\ q.verdict # "pending"
  /\ p.verdict = "pending" => \A i \in DOMAIN q.shards : q.shards[i] = NewShard
  /\ q.verdict = "pending" => q = p
  /\ p.verdict = "running" /\ q.verdict = "running" => q = p

\* To evolve and then to evolve is to evolve.
LEMMA EvolvesTwice ==
  ASSUME NEW p \in StepType, NEW q \in StepType, NEW r \in StepType,
         Evolves(p, q), Evolves(q, r)
  PROVE  Evolves(p, r)
<1>1. p.verdict \in {"pending", "running"} \cup Terminal /\ q.verdict \in {"pending", "running"} \cup Terminal
  BY DEF StepType
<1> QED BY <1>1 DEF Evolves, Terminal

\* Where one step advances, every step evolves.
LEMMA AdvanceEvolves ==
  ASSUME NEW st \in Document, Shaped(st), NEW s \in Names,
         NEW e \in Document, Advances(st, e, s), NEW u \in Names
  PROVE  Evolves(st[u], e[u])
<1>1. st[u] \in StepType /\ e[u] \in StepType
  BY DEF Document
<1>2. st[u].verdict = "pending" => st[u].shards = <<>>
  BY DEF Shaped
<1>3. CASE e[u] = st[u]
  BY <1>2, <1>3 DEF Evolves
<1>4. CASE CalledOffBy(st, e, s, u)
  <2>1. /\ st[u].verdict \notin Terminal
        /\ e[u].verdict = "cancelled" /\ e[u].shards = st[u].shards
    BY <1>4 DEF CalledOffBy
  <2> QED BY <1>2, <2>1 DEF Evolves
<1>5. CASE u = s /\ (Passes(st, e, s) \/ Starting(st, e, s) \/ Settles(st, e, s))
  <2>1. CASE Passes(st, e, s)
    <3>1. PICK v \in {"skipped", "failed", "succeeded"} :
            e[s] = [verdict |-> v, shards |-> <<>>, port |-> [n |-> 0, at |-> clock]]
      BY <2>1 DEF Passes
    <3>2. e[s].verdict = v /\ e[s].shards = <<>> /\ st[s].verdict = "pending"
      BY <2>1, <3>1 DEF Passes
    <3> QED BY <1>5, <3>2 DEF Evolves, Terminal
  <2>2. CASE Starting(st, e, s)
    <3>1. PICK w \in Nat \ {0} :
            e[s] = [verdict |-> "running", shards |-> [i \in 1..w |-> NewShard], port |-> None]
      BY <2>2 DEF Starting
    <3>2. e[s].verdict = "running" /\ st[s].verdict = "pending"
          /\ \A i \in DOMAIN e[s].shards : e[s].shards[i] = NewShard
      BY <2>2, <3>1 DEF Starting
    <3> QED BY <1>5, <3>2 DEF Evolves, Terminal
  <2>3. CASE Settles(st, e, s)
    <3>1. /\ e[s].verdict \in {"failed", "cancelled", "succeeded"} /\ e[s].shards = st[s].shards
          /\ st[s].verdict = "running"
      BY <2>3 DEF Settles
    <3> QED BY <1>5, <3>1 DEF Evolves, Terminal
  <2> QED BY <1>5, <2>1, <2>2, <2>3
<1> QED BY <1>3, <1>4, <1>5 DEF Advances

\* Every document of a sweep is shaped, and each is reached by a step of it.
LEMMA SweepShaped ==
  ASSUME flow \in Flows, clock \in Nat, NEW st \in Document, Shaped(st), NEW x, Sweeps(x, st)
  PROVE  /\ Size \in Nat
         /\ \A k \in 0..Size : x[k] \in Document /\ Shaped(x[k])
         /\ \A k \in 1..Size : /\ flow.order[k] \in Names /\ k - 1 \in 0..Size /\ k \in 0..Size
                               /\ Advances(x[k - 1], x[k], flow.order[k])
<1>1. Size \in Nat /\ \A k \in 1..Size : flow.order[k] \in Names
  BY OrderFacts DEF Size
<1>2. \A k \in 0..Size : x[k] \in Document
  BY DEF Sweeps
<1>3. ASSUME NEW k \in 1..Size
      PROVE  /\ flow.order[k] \in Names /\ k - 1 \in 0..Size /\ k \in 0..Size
             /\ Advances(x[k - 1], x[k], flow.order[k])
  <2>1. flow.order[k] \in Names /\ k - 1 \in 0..Size /\ k \in 0..Size
    BY <1>1
  <2>2. x[k - 1] \in Document /\ x[k] = Advance(x[k - 1], flow.order[k])
    BY <1>2, <2>1 DEF Sweeps
  <2> QED BY <2>1, <2>2, AdvanceFacts
<1> DEFINE Q == {k \in 0..Size : Shaped(x[k])}
<1>4. \A k \in 0..Size : k \in Q
  <2>1. 0 \in Q
    BY <1>1 DEF Sweeps
  <2>2. ASSUME NEW k \in 1..Size, k - 1 \in Q PROVE k \in Q
    <3>1. Shaped(x[k - 1])
      BY <2>2
    <3>2. Shaped(x[k])
      BY <1>2, <1>3, <3>1, AdvanceShaped
    <3> QED BY <1>3, <3>2
  <2> HIDE DEF Q
  <2> QED BY <1>1, <2>1, <2>2, UpTo
<1> QED BY <1>1, <1>2, <1>3, <1>4

\* Within a sweep every step evolves.
LEMMA SweepEvolves ==
  ASSUME flow \in Flows, clock \in Nat, NEW st \in Document, Shaped(st), NEW x, Sweeps(x, st),
         NEW j \in 0..Size, NEW u \in Names
  PROVE  \A k \in 0..Size : j <= k => Evolves(x[j][u], x[k][u])
<1>1. /\ Size \in Nat
      /\ \A k \in 0..Size : x[k] \in Document /\ Shaped(x[k])
      /\ \A k \in 1..Size : /\ flow.order[k] \in Names /\ k - 1 \in 0..Size /\ k \in 0..Size
                            /\ Advances(x[k - 1], x[k], flow.order[k])
  BY SweepShaped
<1>2. \A k \in 0..Size : x[k][u] \in StepType
  BY <1>1 DEF Document
<1>3. Evolves(x[j][u], x[j][u])
  <2>1. x[j][u].verdict = "pending" => x[j][u].shards = <<>>
    BY <1>1 DEF Shaped
  <2>2. x[j][u].verdict \in {"pending", "running"} \cup Terminal
    BY <1>2 DEF StepType
  <2> QED BY <2>1, <2>2 DEF Evolves, Terminal
<1> DEFINE Q == {k \in 0..Size : j <= k => Evolves(x[j][u], x[k][u])}
<1>4. 0 \in Q
  BY <1>1, <1>3
<1>5. ASSUME NEW k \in 1..Size, k - 1 \in Q PROVE k \in Q
  <2>1. k \in 0..Size /\ k - 1 \in 0..Size
    BY <1>1
  <2>2. CASE j = k
    BY <1>3, <2>1, <2>2
  <2>3. CASE j < k
    <3>1. Evolves(x[j][u], x[k - 1][u])
      BY <1>5, <2>3
    <3>2. Evolves(x[k - 1][u], x[k][u])
      BY <1>1, <2>1, AdvanceEvolves
    <3>3. Evolves(x[j][u], x[k][u])
      BY <1>2, <2>1, <3>1, <3>2, EvolvesTwice
    <3> QED BY <2>1, <3>3
  <2> QED BY <2>1, <2>2, <2>3
<1>6. \A k \in 0..Size : k \in Q
  <2> HIDE DEF Q
  <2> QED BY <1>1, <1>4, <1>5, UpTo
<1> QED BY <1>6

\* After its turn a step is only called off.
LEMMA SweepAfter ==
  ASSUME flow \in Flows, clock \in Nat, NEW st \in Document, Shaped(st), NEW x, Sweeps(x, st),
         NEW j \in 1..Size, NEW s, s = flow.order[j], x[Size][s].verdict # "cancelled"
  PROVE  \A k \in 0..Size : j <= k => x[k][s] = x[j][s]
<1>1. /\ Size \in Nat
      /\ \A k \in 0..Size : x[k] \in Document /\ Shaped(x[k])
      /\ \A k \in 1..Size : /\ flow.order[k] \in Names /\ k - 1 \in 0..Size /\ k \in 0..Size
                            /\ Advances(x[k - 1], x[k], flow.order[k])
  BY SweepShaped
<1>2. s \in Names
  BY <1>1
<1> DEFINE Q == {k \in 0..Size : j <= k => x[k][s] = x[j][s]}
<1>3. 0 \in Q
  BY <1>1
<1>4. ASSUME NEW k \in 1..Size, k - 1 \in Q PROVE k \in Q
  <2>1. k \in 0..Size /\ k - 1 \in 0..Size /\ Size \in 0..Size
    BY <1>1
  <2>2. CASE k <= j
    BY <2>1, <2>2
  <2>3. CASE j < k
    <3>1. x[k - 1][s] = x[j][s]
      BY <1>4, <2>3
    <3>2. flow.order[k] # s
      <4>1. Size = Len(flow.order)
        BY DEF Size
      <4> QED BY <2>3, <4>1, OrderFacts
    <3>3. x[k][s] = x[k - 1][s] \/ x[k][s].verdict = "cancelled"
      <4>1. Advances(x[k - 1], x[k], flow.order[k]) /\ s \in Names \ {flow.order[k]}
        BY <1>1, <1>2, <3>2
      <4>2. x[k] = x[k - 1] \/ x[k][s] = x[k - 1][s] \/ CalledOffBy(x[k - 1], x[k], flow.order[k], s)
        BY <4>1 DEF Advances
      <4> QED BY <4>2 DEF CalledOffBy
    <3>4. x[k][s].verdict # "cancelled"
      <4>1. Evolves(x[k][s], x[Size][s])
        BY <1>1, <1>2, <2>1, SweepEvolves
      <4> QED BY <4>1 DEF Evolves, Terminal
    <3> QED BY <2>1, <3>1, <3>3, <3>4
  <2> QED BY <1>1, <2>2, <2>3
<1>5. \A k \in 0..Size : k \in Q
  <2> HIDE DEF Q
  <2> QED BY <1>1, <1>3, <1>4, UpTo
<1> QED BY <1>5

\* What a step waits for stays as it was when its turn came.
LEMMA SweepNeeds ==
  ASSUME flow \in Flows, clock \in Nat, NEW st \in Document, Shaped(st), NEW x, Sweeps(x, st),
         NEW j \in 1..Size, NEW s, s = flow.order[j], x[Size][s].verdict \notin Terminal,
         NEW i \in DOMAIN flow.needs[s], NEW u, u = flow.needs[s][i]
  PROVE  \A k \in 0..Size : j <= k => x[k][u] = x[j][u]
<1>1. /\ Size \in Nat
      /\ \A k \in 0..Size : x[k] \in Document /\ Shaped(x[k])
      /\ \A k \in 1..Size : /\ flow.order[k] \in Names /\ k - 1 \in 0..Size /\ k \in 0..Size
                            /\ Advances(x[k - 1], x[k], flow.order[k])
  BY SweepShaped
<1>2. s \in Names
  BY <1>1
<1>3. u \in Names \ {s} /\ s \in Consumers(u)
  <2>1. u \in Names \ {s}
    BY <1>2, NeedsFacts
  <2> QED BY <1>2, <2>1 DEF Consumers, Range
<1>4. PICK h \in 1..(j - 1) : u = flow.order[h]
  <2>1. \A e \in DOMAIN flow.needs[flow.order[j]] :
          \E h \in 1..(j - 1) : flow.needs[flow.order[j]][e] = flow.order[h]
    BY OrderFacts DEF Size
  <2>2. flow.needs[s] = flow.needs[flow.order[j]]
    OBVIOUS
  <2> QED BY <2>1, <2>2
<1> DEFINE Q == {k \in 0..Size : j <= k => x[k][u] = x[j][u]}
<1>5. 0 \in Q
  BY <1>1
<1>6. ASSUME NEW k \in 1..Size, k - 1 \in Q PROVE k \in Q
  <2>1. k \in 0..Size /\ k - 1 \in 0..Size /\ Size \in 0..Size
    BY <1>1
  <2>2. CASE k <= j
    BY <2>1, <2>2
  <2>3. CASE j < k
    <3>1. x[k - 1][u] = x[j][u]
      BY <1>6, <2>3
    <3>2. flow.order[k] # u /\ flow.order[k] # s
      <4>1. Size = Len(flow.order) /\ h \in 1..Size /\ h < k
        BY <1>1, <2>3 DEF Size
      <4> QED BY <1>4, <2>3, <4>1, OrderFacts
    <3>3. x[k - 1][s].verdict \notin Terminal
      <4>1. Evolves(x[k - 1][s], x[Size][s])
        BY <1>1, <1>2, <2>1, SweepEvolves
      <4> QED BY <4>1 DEF Evolves
    <3>4. StillNeeded(x[k - 1], u, flow.order[k])
      BY <1>3, <3>2, <3>3 DEF StillNeeded
    <3>5. x[k][u] = x[k - 1][u]
      <4>1. Advances(x[k - 1], x[k], flow.order[k]) /\ u \in Names \ {flow.order[k]}
        BY <1>1, <1>3, <3>2
      <4>2. x[k] = x[k - 1] \/ x[k][u] = x[k - 1][u] \/ CalledOffBy(x[k - 1], x[k], flow.order[k], u)
        BY <4>1 DEF Advances
      <4> QED BY <3>4, <4>2 DEF CalledOffBy
    <3> QED BY <2>1, <3>1, <3>5
  <2> QED BY <1>1, <2>2, <2>3
<1>7. \A k \in 0..Size : k \in Q
  <2> HIDE DEF Q
  <2> QED BY <1>1, <1>5, <1>6, UpTo
<1> QED BY <1>7

\* What a sweep leaves pending waits, and what it leaves running has shards to wait for.
LEMMA SweepQuiet ==
  ASSUME flow \in Flows, clock \in Nat, NEW st \in Document, Shaped(st), NEW a, a = Sweep(st)
  PROVE  /\ a \in Document /\ Shaped(a)
         /\ \A s \in Names : /\ Evolves(st[s], a[s])
                             /\ a[s].verdict = "pending" => Waits(a, s)
                             /\ a[s].verdict = "running" => SomeGoing(a[s].shards)
<1>1. PICK x : Sweeps(x, st) /\ a = x[Size]
  BY SweepExists
<1>2. /\ Size \in Nat
      /\ \A k \in 0..Size : x[k] \in Document /\ Shaped(x[k])
      /\ \A k \in 1..Size : /\ flow.order[k] \in Names /\ k - 1 \in 0..Size /\ k \in 0..Size
                            /\ Advances(x[k - 1], x[k], flow.order[k])
  BY <1>1, SweepShaped
<1>3. Size \in 0..Size /\ 0 \in 0..Size /\ x[0] = st
  BY <1>1, <1>2 DEF Sweeps
<1>4. ASSUME NEW s \in Names PROVE Evolves(st[s], a[s])
  <2>1. \A k \in 0..Size : 0 <= k => Evolves(x[0][s], x[k][s])
    BY <1>1, <1>3, SweepEvolves
  <2> QED BY <1>1, <1>2, <1>3, <2>1
<1>5. ASSUME NEW s \in Names, a[s].verdict \in {"pending", "running"}
      PROVE  /\ a[s].verdict = "pending" => Waits(a, s)
             /\ a[s].verdict = "running" => SomeGoing(a[s].shards)
  <2>1. PICK j \in 1..Size : s = flow.order[j]
    BY OrderFacts DEF Size
  <2>2. x[Size][s].verdict \notin Terminal /\ x[Size][s].verdict # "cancelled"
    BY <1>1, <1>5 DEF Terminal
  <2>3. x[Size][s] = x[j][s]
    <3>1. \A k \in 0..Size : j <= k => x[k][s] = x[j][s]
      BY <1>1, <2>1, <2>2, SweepAfter
    <3> QED BY <1>2, <1>3, <3>1
  <2>4. Advances(x[j - 1], x[j], s)
    BY <1>2, <2>1
  <2>5. ~Passes(x[j - 1], x[j], s) /\ ~Settles(x[j - 1], x[j], s)
    <3>1. ASSUME Passes(x[j - 1], x[j], s) PROVE FALSE
      <4>1. x[j][s].verdict \in Terminal
        BY <3>1 DEF Passes, Terminal
      <4> QED BY <2>2, <2>3, <4>1
    <3>2. ASSUME Settles(x[j - 1], x[j], s) PROVE FALSE
      <4>1. x[j][s].verdict \in Terminal
        BY <3>2 DEF Settles, Terminal
      <4> QED BY <2>2, <2>3, <4>1
    <3> QED BY <3>1, <3>2
  <2>6. CASE Stays(x[j - 1], s) /\ x[j] = x[j - 1]
    <3>1. x[j - 1][s] = a[s]
      BY <1>1, <2>3, <2>6
    <3>2. a[s].verdict = "running" => SomeGoing(a[s].shards)
      BY <2>6, <3>1 DEF Stays, Terminal
    <3>3. ASSUME a[s].verdict = "pending" PROVE Waits(a, s)
      <4>1. Waits(x[j], s)
        BY <2>6, <3>1, <3>3 DEF Stays, Terminal
      <4>2. \A i \in DOMAIN flow.needs[s] : a[flow.needs[s][i]] = x[j][flow.needs[s][i]]
        <5> TAKE i \in DOMAIN flow.needs[s]
        <5>1. PICK u : u = flow.needs[s][i]
          OBVIOUS
        <5>2. \A k \in 0..Size : j <= k => x[k][u] = x[j][u]
          BY <1>1, <2>1, <2>2, <5>1, SweepNeeds
        <5>3. x[Size][u] = x[j][u]
          BY <1>2, <1>3, <5>2
        <5> QED BY <1>1, <5>1, <5>3
      <4> QED BY <4>1, <4>2 DEF Waits, EdgeWaiting, EdgeProduced
    <3> QED BY <3>2, <3>3
  <2>7. CASE Starting(x[j - 1], x[j], s)
    <3>1. PICK w \in Nat \ {0} :
            x[j][s] = [verdict |-> "running", shards |-> [i \in 1..w |-> NewShard], port |-> None]
      BY <2>7 DEF Starting
    <3>2. a[s].verdict = "running" /\ 1 \in DOMAIN a[s].shards /\ a[s].shards[1] = NewShard
      BY <1>1, <2>3, <3>1
    <3> QED BY <3>2 DEF SomeGoing, Going, NewShard
  <2> QED BY <2>4, <2>5, <2>6, <2>7 DEF Advances
<1> QED BY <1>1, <1>2, <1>3, <1>4, <1>5

-----------------------------------------------------------------------------
(* A round, and the rounds of a pass.                                      *)

\* From st to d shards keep their attempts, those that are over stay as they
\* are, and one handed out stays so or is called off by name.
Kept(st, d, names) ==
  \A s \in Names :
    /\ \A i \in DOMAIN st[s].shards :
         /\ i \in DOMAIN d[s].shards
         /\ d[s].shards[i].attempt = st[s].shards[i].attempt
         /\ TaskOver(st[s].shards[i]) => d[s].shards[i].task = st[s].shards[i].task
         /\ st[s].shards[i].task = "dispatched" =>
              \/ d[s].shards[i].task = "dispatched"
              \/ /\ d[s].shards[i].task = "cancelled"
                 /\ TaskOf(s, i, st[s].shards[i].attempt) \in names
    /\ \A i \in DOMAIN d[s].shards :
         d[s].shards[i].task = "dispatched" =>
           i \in DOMAIN st[s].shards /\ st[s].shards[i].task = "dispatched"

\* A document keeps its own shards.
LEMMA KeptItself ==
  ASSUME NEW st PROVE Kept(st, st, {})
BY DEF Kept

\* What keeps the shards of what kept them keeps them.
LEMMA KeptTwice ==
  ASSUME NEW a, NEW b, NEW c, NEW P, NEW R, Kept(a, b, P), Kept(b, c, R)
  PROVE  Kept(a, c, P \cup R)
<1> SUFFICES ASSUME NEW s \in Names
             PROVE  /\ \A i \in DOMAIN a[s].shards :
                         /\ i \in DOMAIN c[s].shards
                         /\ c[s].shards[i].attempt = a[s].shards[i].attempt
                         /\ TaskOver(a[s].shards[i]) => c[s].shards[i].task = a[s].shards[i].task
                         /\ a[s].shards[i].task = "dispatched" =>
                              \/ c[s].shards[i].task = "dispatched"
                              \/ /\ c[s].shards[i].task = "cancelled"
                                 /\ TaskOf(s, i, a[s].shards[i].attempt) \in P \cup R
                    /\ \A i \in DOMAIN c[s].shards :
                         c[s].shards[i].task = "dispatched" =>
                           i \in DOMAIN a[s].shards /\ a[s].shards[i].task = "dispatched"
  BY DEF Kept
<1>1. ASSUME NEW i \in DOMAIN a[s].shards
      PROVE  /\ i \in DOMAIN b[s].shards /\ i \in DOMAIN c[s].shards
             /\ b[s].shards[i].attempt = a[s].shards[i].attempt
             /\ c[s].shards[i].attempt = b[s].shards[i].attempt
  BY DEF Kept
<1>2. ASSUME NEW i \in DOMAIN a[s].shards, TaskOver(a[s].shards[i])
      PROVE  c[s].shards[i].task = a[s].shards[i].task
  BY <1>1, <1>2 DEF Kept, TaskOver
<1>3. ASSUME NEW i \in DOMAIN a[s].shards, a[s].shards[i].task = "dispatched"
      PROVE  \/ c[s].shards[i].task = "dispatched"
             \/ /\ c[s].shards[i].task = "cancelled"
                /\ TaskOf(s, i, a[s].shards[i].attempt) \in P \cup R
  <2>1. CASE b[s].shards[i].task = "dispatched"
    BY <1>1, <2>1 DEF Kept
  <2>2. CASE b[s].shards[i].task = "cancelled" /\ TaskOf(s, i, a[s].shards[i].attempt) \in P
    BY <1>1, <2>2 DEF Kept, TaskOver
  <2> QED BY <1>3, <2>1, <2>2 DEF Kept
<1>4. ASSUME NEW i \in DOMAIN c[s].shards, c[s].shards[i].task = "dispatched"
      PROVE  i \in DOMAIN a[s].shards /\ a[s].shards[i].task = "dispatched"
  BY <1>4 DEF Kept
<1> QED BY <1>1, <1>2, <1>3, <1>4

\* A sweep hands nothing out and calls no shard off.
LEMMA SweepKept ==
  ASSUME flow \in Flows, clock \in Nat, NEW st \in Document, Shaped(st), NEW a, a = Sweep(st)
  PROVE  Kept(st, a, {})
<1>1. \A s \in Names : Evolves(st[s], a[s])
  BY SweepQuiet
<1>2. ASSUME NEW s \in Names
      PROVE  \/ a[s].shards = st[s].shards
             \/ st[s].shards = <<>> /\ \A i \in DOMAIN a[s].shards : a[s].shards[i].task = "pending"
  <2>1. st[s].verdict \in {"pending", "running"} \cup Terminal
    BY DEF Document, StepType
  <2>2. CASE st[s].verdict = "pending"
    BY <1>1, <2>2 DEF Evolves, Shaped, NewShard
  <2>3. CASE st[s].verdict # "pending"
    BY <1>1, <2>1, <2>3 DEF Evolves
  <2> QED BY <2>2, <2>3
<1>3. ASSUME NEW s \in Names
      PROVE  /\ \A i \in DOMAIN st[s].shards : i \in DOMAIN a[s].shards /\ a[s].shards[i] = st[s].shards[i]
             /\ \A i \in DOMAIN a[s].shards : a[s].shards[i].task = "dispatched" =>
                  i \in DOMAIN st[s].shards /\ st[s].shards[i].task = "dispatched"
  BY <1>2
<1> QED BY <1>3 DEF Kept, TaskOver

\* A step whose tasks cannot be built: its pending shards fail, and no others change.
LEMMA UnbuiltShards ==
  ASSUME NEW a \in Document, NEW d, d = FailUnbuilt(a), NEW s \in Names
  PROVE  /\ d[s] \in StepType /\ d[s].verdict = a[s].verdict /\ d[s].port = a[s].port
         /\ DOMAIN d[s].shards = DOMAIN a[s].shards
         /\ d[s] = a[s] \/ a[s].verdict = "running"
         /\ \A i \in DOMAIN a[s].shards :
              /\ d[s].shards[i].attempt = a[s].shards[i].attempt
              /\ a[s].shards[i].task # "pending" => d[s].shards[i] = a[s].shards[i]
              /\ a[s].shards[i].task = "pending" => d[s].shards[i].task \in {"pending", "failed"}
<1>1. PICK ss \in StepType : ss = a[s]
  BY DEF Document
<1>2. CASE s \notin Unbuilt(a)
  <2>1. d[s] = a[s]
    BY <1>2 DEF FailUnbuilt
  <2> QED BY <1>1, <2>1
<1>3. CASE s \in Unbuilt(a)
  <2>1. PICK sh \in Seq(ShardType) : sh = ss.shards
    BY DEF StepType
  <2>2. PICK ns : ns = [i \in DOMAIN sh |-> IF sh[i].task = "pending" THEN [sh[i] EXCEPT !.task = "failed"] ELSE sh[i]]
    OBVIOUS
  <2>3. \A i \in DOMAIN sh : sh[i] \in ShardType
    OBVIOUS
  <2>4. ASSUME NEW i \in DOMAIN sh
        PROVE  /\ ns[i] \in ShardType /\ ns[i].attempt = sh[i].attempt
               /\ sh[i].task # "pending" => ns[i] = sh[i]
               /\ sh[i].task = "pending" => ns[i].task \in {"pending", "failed"}
    <3>1. PICK e \in ShardType : e = sh[i]
      BY <2>3
    <3>2. ns[i] = IF e.task = "pending" THEN [e EXCEPT !.task = "failed"] ELSE e
      BY <2>2, <3>1
    <3>3. [e EXCEPT !.task = "failed"] \in ShardType
          /\ [e EXCEPT !.task = "failed"].attempt = e.attempt
          /\ [e EXCEPT !.task = "failed"].task = "failed"
      BY DEF ShardType, Tasks
    <3> QED BY <3>1, <3>2, <3>3
  <2>5. ns \in Seq(ShardType) /\ DOMAIN ns = DOMAIN sh
    BY <2>2, <2>4
  <2>6. d[s] = [ss EXCEPT !.shards = ns]
    BY <1>1, <1>3, <2>1, <2>2 DEF FailUnbuilt
  <2>7. d[s] \in StepType /\ d[s].verdict = ss.verdict /\ d[s].port = ss.port /\ d[s].shards = ns
    BY <2>5, <2>6 DEF StepType
  <2>8. ss.verdict = "running"
    BY <1>1, <1>3 DEF Unbuilt, Startable
  <2> QED BY <1>1, <2>1, <2>4, <2>5, <2>7, <2>8
<1> QED BY <1>2, <1>3

\* Failing them keeps what is over and what was handed out.
LEMMA FailUnbuiltFacts ==
  ASSUME NEW a \in Document, Shaped(a), NEW d, d = FailUnbuilt(a)
  PROVE  d \in Document /\ Shaped(d) /\ Kept(a, d, {})
<1>1. ASSUME NEW s \in Names
      PROVE  /\ d[s] \in StepType /\ d[s].verdict = a[s].verdict /\ d[s].port = a[s].port
             /\ DOMAIN d[s].shards = DOMAIN a[s].shards
             /\ d[s] = a[s] \/ a[s].verdict = "running"
             /\ \A i \in DOMAIN a[s].shards :
                  /\ d[s].shards[i].attempt = a[s].shards[i].attempt
                  /\ a[s].shards[i].task # "pending" => d[s].shards[i] = a[s].shards[i]
                  /\ a[s].shards[i].task = "pending" => d[s].shards[i].task \in {"pending", "failed"}
  BY UnbuiltShards
<1>2. d \in Document
  BY <1>1 DEF FailUnbuilt, Document
<1>3. Shaped(d)
  BY <1>1 DEF Shaped
<1>4. Kept(a, d, {})
  <2>1. \A s \in Names : \A i \in DOMAIN a[s].shards : a[s].shards[i].task \in Tasks
    <3>1. \A s \in Names : a[s].shards \in Seq(ShardType)
      BY DEF Document, StepType
    <3>2. \A s \in Names : \A i \in DOMAIN a[s].shards : a[s].shards[i] \in ShardType
      BY <3>1
    <3> QED BY <3>2 DEF ShardType
  <2> QED BY <1>1, <2>1 DEF Kept, TaskOver, Tasks
<1> QED BY <1>2, <1>3, <1>4

\* Those called off are cancelled, and no others change.
LEMMA StoppedShards ==
  ASSUME NEW a \in Document, NEW d, d = Stopped(a), NEW s \in Names
  PROVE  /\ d[s] \in StepType /\ d[s].verdict = a[s].verdict /\ d[s].port = a[s].port
         /\ DOMAIN d[s].shards = DOMAIN a[s].shards
         /\ CalledOff(a, s) = {} => d[s] = a[s]
         /\ \A i \in DOMAIN a[s].shards :
              /\ d[s].shards[i].attempt = a[s].shards[i].attempt
              /\ i \notin CalledOff(a, s) => d[s].shards[i] = a[s].shards[i]
              /\ i \in CalledOff(a, s) => d[s].shards[i].task = "cancelled"
<1>1. PICK ss \in StepType : ss = a[s]
  BY DEF Document
<1>2. PICK C : C = CalledOff(a, s)
  OBVIOUS
<1>3. PICK sh \in Seq(ShardType) : sh = ss.shards
  BY DEF StepType
<1>4. PICK ns : ns = [i \in DOMAIN sh |-> IF i \in C THEN [sh[i] EXCEPT !.task = "cancelled", !.out = None] ELSE sh[i]]
  OBVIOUS
<1>5. \A i \in DOMAIN sh : sh[i] \in ShardType
  OBVIOUS
<1>6. ASSUME NEW i \in DOMAIN sh
      PROVE  /\ ns[i] \in ShardType /\ ns[i].attempt = sh[i].attempt
             /\ i \notin C => ns[i] = sh[i]
             /\ i \in C => ns[i].task = "cancelled"
  <2>1. PICK e \in ShardType : e = sh[i]
    BY <1>5
  <2>2. ns[i] = IF i \in C THEN [e EXCEPT !.task = "cancelled", !.out = None] ELSE e
    BY <1>4, <2>1
  <2>3. [e EXCEPT !.task = "cancelled", !.out = None] \in ShardType
        /\ [e EXCEPT !.task = "cancelled", !.out = None].attempt = e.attempt
        /\ [e EXCEPT !.task = "cancelled", !.out = None].task = "cancelled"
    BY DEF ShardType, Tasks, Out
  <2> QED BY <2>1, <2>2, <2>3
<1>7. ns \in Seq(ShardType) /\ DOMAIN ns = DOMAIN sh
  <2>1. DOMAIN sh = 1..Len(sh) /\ Len(sh) \in Nat
    OBVIOUS
  <2>2. DOMAIN ns = DOMAIN sh /\ ns = [i \in DOMAIN sh |-> ns[i]]
    BY <1>4
  <2>3. ns \in [1..Len(sh) -> ShardType]
    BY <1>6, <2>1, <2>2
  <2> QED BY <2>1, <2>2, <2>3
<1>8. d[s] = [ss EXCEPT !.shards = ns]
  BY <1>1, <1>2, <1>3, <1>4 DEF Stopped
<1>9. d[s] \in StepType /\ d[s].verdict = ss.verdict /\ d[s].port = ss.port /\ d[s].shards = ns
  BY <1>7, <1>8 DEF StepType
<1>10. C = {} => d[s] = ss
  <2> SUFFICES ASSUME C = {} PROVE d[s] = ss
    OBVIOUS
  <2>1. ns = [i \in DOMAIN sh |-> sh[i]]
    BY <1>4
  <2>2. ns = sh
    BY <2>1
  <2> QED BY <1>3, <1>8, <2>2 DEF StepType
<1> QED BY <1>1, <1>2, <1>3, <1>6, <1>7, <1>9, <1>10

\* They are named, and nothing changes where there are none.
LEMMA StoppedFacts ==
  ASSUME NEW a \in Document, Shaped(a), NEW d, d = Stopped(a)
  PROVE  /\ d \in Document /\ Shaped(d) /\ Kept(a, d, StopsOf(a))
         /\ StopsOf(a) = {} => d = a /\ \A s \in Names : CalledOff(a, s) = {}
<1>1. ASSUME NEW s \in Names
      PROVE  /\ d[s] \in StepType /\ d[s].verdict = a[s].verdict /\ d[s].port = a[s].port
             /\ DOMAIN d[s].shards = DOMAIN a[s].shards
             /\ CalledOff(a, s) = {} => d[s] = a[s]
             /\ \A i \in DOMAIN a[s].shards :
                  /\ d[s].shards[i].attempt = a[s].shards[i].attempt
                  /\ i \notin CalledOff(a, s) => d[s].shards[i] = a[s].shards[i]
                  /\ i \in CalledOff(a, s) => d[s].shards[i].task = "cancelled"
  BY StoppedShards
<1>2. d \in Document
  BY <1>1 DEF Stopped, Document
<1>3. ASSUME NEW s \in Names, NEW i \in CalledOff(a, s)
      PROVE  /\ a[s].verdict \in {"running", "cancelled"} /\ ~TaskOver(a[s].shards[i])
             /\ i \in DOMAIN a[s].shards
             /\ TaskOf(s, i, a[s].shards[i].attempt) \in StopsOf(a)
  BY DEF CalledOff, StopsOf
<1>4. Shaped(d)
  BY <1>1, <1>3 DEF Shaped
<1>5. Kept(a, d, StopsOf(a))
  BY <1>1, <1>3 DEF Kept
<1>6. StopsOf(a) = {} => d = a /\ \A s \in Names : CalledOff(a, s) = {}
  <2> SUFFICES ASSUME StopsOf(a) = {} PROVE d = a /\ \A s \in Names : CalledOff(a, s) = {}
    OBVIOUS
  <2>1. \A s \in Names : CalledOff(a, s) = {}
    BY <1>3
  <2>2. \A s \in Names : d[s] = a[s]
    BY <1>1, <2>1
  <2> QED BY <1>2, <2>1, <2>2 DEF Document
<1> QED BY <1>2, <1>4, <1>5, <1>6

\* What a round starts from and leaves.
RoundType == {b \in [st : Document, stops : SUBSET (Names \X Nat \X Nat),
                     done : BOOLEAN, stuck : BOOLEAN] : Shaped(b.st)}

FirstRound(st) == [st |-> st, stops |-> {}, done |-> FALSE, stuck |-> FALSE]
NextRound(b) == IF b.done THEN b ELSE Advanced(b, Sweep(b.st))

\* The rounds of a pass, one at a time.
Passing(x, st) ==
  /\ x \in [0..MaxRounds -> RoundType]
  /\ x[0] = FirstRound(st)
  /\ \A k \in 1..MaxRounds : x[k] = NextRound(x[k - 1])

\* Stops name tasks.
LEMMA StopsOfTasks ==
  ASSUME NEW a \in Document
  PROVE  StopsOf(a) \in SUBSET (Names \X Nat \X Nat)
<1>1. ASSUME NEW s \in Names, NEW i \in CalledOff(a, s)
      PROVE  TaskOf(s, i, a[s].shards[i].attempt) \in Names \X Nat \X Nat
  <2>1. PICK sh \in Seq(ShardType) : sh = a[s].shards
    BY DEF Document, StepType
  <2>2. i \in DOMAIN sh
    BY <2>1 DEF CalledOff
  <2>3. sh[i] \in ShardType /\ i \in Nat
    BY <2>2
  <2> QED BY <2>1, <2>3 DEF TaskOf, ShardType
<1> QED BY <1>1 DEF StopsOf

\* More names do not matter to what was kept.
LEMMA KeptMore ==
  ASSUME NEW st, NEW d, NEW P, NEW R, P \subseteq R, Kept(st, d, P)
  PROVE  Kept(st, d, R)
<1> SUFFICES ASSUME NEW s \in Names
             PROVE  /\ \A i \in DOMAIN st[s].shards :
                         /\ i \in DOMAIN d[s].shards
                         /\ d[s].shards[i].attempt = st[s].shards[i].attempt
                         /\ TaskOver(st[s].shards[i]) => d[s].shards[i].task = st[s].shards[i].task
                         /\ st[s].shards[i].task = "dispatched" =>
                              \/ d[s].shards[i].task = "dispatched"
                              \/ /\ d[s].shards[i].task = "cancelled"
                                 /\ TaskOf(s, i, st[s].shards[i].attempt) \in R
                    /\ \A i \in DOMAIN d[s].shards :
                         d[s].shards[i].task = "dispatched" =>
                           i \in DOMAIN st[s].shards /\ st[s].shards[i].task = "dispatched"
  BY DEF Kept
<1> QED BY DEF Kept

\* One round keeps what is over, names what it calls off, and where it is the
\* last leaves nothing that another would change.
LEMMA AdvancedFacts ==
  ASSUME flow \in Flows, clock \in Nat, NEW b \in RoundType, ~b.done,
         NEW e, e = Advanced(b, Sweep(b.st))
  PROVE  /\ e \in RoundType
         /\ b.stops \subseteq e.stops /\ Kept(b.st, e.st, e.stops)
         /\ e.done /\ ~e.stuck => Quiet(e.st)
<1>1. PICK a : a = Sweep(b.st)
  OBVIOUS
<1>2. /\ b.st \in Document /\ Shaped(b.st) /\ b.stops \in SUBSET (Names \X Nat \X Nat)
      /\ b.done = FALSE /\ b.stuck \in BOOLEAN
      /\ b = [st |-> b.st, stops |-> b.stops, done |-> b.done, stuck |-> b.stuck]
  BY DEF RoundType
<1>3. /\ a \in Document /\ Shaped(a)
      /\ \A s \in Names : /\ a[s].verdict = "pending" => Waits(a, s)
                          /\ a[s].verdict = "running" => SomeGoing(a[s].shards)
  BY <1>1, <1>2, SweepQuiet
<1>4. Kept(b.st, a, {})
  BY <1>1, <1>2, SweepKept
<1>5. e = Round(b, a, StopsOf(a))
  BY <1>1 DEF Advanced
<1>6. CASE Stuck(a)
  <2>1. e = [b EXCEPT !.done = TRUE, !.stuck = TRUE]
    BY <1>5, <1>6 DEF Round
  <2>2. e \in RoundType /\ e.st = b.st /\ e.stops = b.stops /\ e.stuck = TRUE
    BY <2>1 DEF RoundType
  <2>3. Kept(b.st, e.st, e.stops)
    BY <2>2, KeptItself, KeptMore
  <2> QED BY <2>2, <2>3
<1>7. CASE ~Stuck(a) /\ Unbuilt(a) # {}
  <2>1. PICK d : d = FailUnbuilt(a)
    OBVIOUS
  <2>2. d \in Document /\ Shaped(d) /\ Kept(a, d, {})
    BY <1>3, <2>1, FailUnbuiltFacts
  <2>3. e = [b EXCEPT !.st = d]
    BY <1>5, <1>7, <2>1 DEF Round
  <2>4. e \in RoundType /\ e.st = d /\ e.stops = b.stops /\ e.done = FALSE
    BY <1>2, <2>2, <2>3 DEF RoundType
  <2>5. Kept(b.st, d, {} \cup {})
    BY <1>4, <2>2, KeptTwice
  <2>6. Kept(b.st, e.st, e.stops)
    BY <2>4, <2>5, KeptMore
  <2> QED BY <2>4, <2>6
<1>8. CASE ~Stuck(a) /\ Unbuilt(a) = {}
  <2>1. PICK d : d = Stopped(a)
    OBVIOUS
  <2>2. /\ d \in Document /\ Shaped(d) /\ Kept(a, d, StopsOf(a))
        /\ StopsOf(a) = {} => d = a /\ \A s \in Names : CalledOff(a, s) = {}
    BY <1>3, <2>1, StoppedFacts
  <2>3. PICK P : P = StopsOf(a)
    OBVIOUS
  <2>4. P \in SUBSET (Names \X Nat \X Nat)
    BY <1>3, <2>3, StopsOfTasks
  <2>5. e = [st |-> d, stops |-> b.stops \cup P, done |-> P = {}, stuck |-> FALSE]
    BY <1>5, <1>8, <2>1, <2>3 DEF Round
  <2>51. PICK last \in BOOLEAN : last = (P = {})
    OBVIOUS
  <2>52. e = [st |-> d, stops |-> b.stops \cup P, done |-> last, stuck |-> FALSE]
    BY <2>5, <2>51
  <2>6. e \in RoundType /\ e.st = d /\ e.stops = b.stops \cup P /\ e.done = last
    BY <1>2, <2>2, <2>4, <2>52 DEF RoundType
  <2>7. Kept(b.st, d, {} \cup P)
    BY <1>4, <2>2, <2>3, KeptTwice
  <2>8. Kept(b.st, e.st, e.stops)
    BY <2>6, <2>7, KeptMore
  <2>9. ASSUME e.done PROVE Quiet(e.st)
    <3>1. P = {}
      BY <2>51, <2>6, <2>9
    <3>2. d = a /\ \A s \in Names : CalledOff(a, s) = {}
      BY <2>2, <2>3, <3>1
    <3>3. \A s \in Names : ~Builds(s) => Startable(a, s) = {}
      BY <1>8 DEF Unbuilt
    <3>4. Quiet(a)
      BY <1>3, <3>2, <3>3 DEF Quiet, SomeGoing
    <3> QED BY <2>6, <3>2, <3>4
  <2> QED BY <2>6, <2>8, <2>9
<1> QED BY <1>6, <1>7, <1>8

\* A pass is its rounds, one after another.
LEMMA RoundsExist ==
  ASSUME flow \in Flows, clock \in Nat, NEW st \in Document, Shaped(st)
  PROVE  \E x : Passing(x, st) /\ Rounds(st) = x[MaxRounds]
<1>1. PICK L \in Nat : L = MaxRounds
  BY GraphAssumption
<1>2. PICK o : o = FirstRound(st)
  OBVIOUS
<1>3. o \in RoundType
  BY <1>2 DEF FirstRound, RoundType
<1>4. \A b \in RoundType : NextRound(b) \in RoundType
  BY AdvancedFacts DEF NextRound
<1>5. PICK H \in [1..L -> [RoundType -> RoundType]] :
        \A k \in 1..L, d \in RoundType : H[k][d] = NextRound(d)
  <2> DEFINE h == [k \in 1..L |-> [d \in RoundType |-> NextRound(d)]]
  <2>1. h \in [1..L -> [RoundType -> RoundType]]
    BY <1>4
  <2>2. \A k \in 1..L, d \in RoundType : h[k][d] = NextRound(d)
    OBVIOUS
  <2> HIDE DEF h
  <2> QED BY <2>1, <2>2
<1>6. PICK x \in [0..L -> RoundType] : Iterates(x, o, L, H)
  BY <1>3, Iteration
<1>7. ASSUME NEW k \in 1..L PROVE x[k] = NextRound(x[k - 1])
  <2>1. k - 1 \in 0..L
    OBVIOUS
  <2>2. x[k - 1] \in RoundType
    BY <2>1
  <2> QED BY <1>5, <1>6, <2>2 DEF Iterates
<1>8. x = [k \in 0..L |-> IF k = 0 THEN o ELSE NextRound(x[k - 1])]
  BY <1>6, <1>7 DEF Iterates
<1> DEFINE G == CHOOSE g : g = [k \in 0..L |-> IF k = 0 THEN o ELSE NextRound(g[k - 1])]
<1>9. G = [k \in 0..L |-> IF k = 0 THEN o ELSE NextRound(G[k - 1])]
  BY <1>8
<1>10. Rounds(st) = G[L]
  BY <1>1, <1>2 DEF Rounds, NextRound, FirstRound
<1> HIDE DEF G
<1>11. G[0] = o /\ \A k \in 1..L : G[k] = NextRound(G[k - 1])
  <2>1. 0 \in 0..L /\ \A k \in 1..L : k \in 0..L /\ k # 0
    OBVIOUS
  <2>2. G[0] = o
    BY <1>9, <2>1
  <2>3. ASSUME NEW k \in 1..L PROVE G[k] = NextRound(G[k - 1])
    BY <1>9, <2>1
  <2> QED BY <2>2, <2>3
<1> DEFINE Q == {k \in 0..L : G[k] \in RoundType}
<1>12. \A k \in 0..L : k \in Q
  <2>1. 0 \in Q
    BY <1>3, <1>11
  <2>2. ASSUME NEW k \in 1..L, k - 1 \in Q PROVE k \in Q
    <3>1. G[k - 1] \in RoundType /\ k \in 0..L
      BY <2>2
    <3>2. G[k] \in RoundType
      BY <1>4, <1>11, <3>1
    <3> QED BY <3>1, <3>2
  <2> HIDE DEF Q
  <2> QED BY <2>1, <2>2, UpTo
<1>13. G \in [0..L -> RoundType]
  <2>1. \A k \in 0..L : G[k] \in RoundType
    BY <1>12
  <2>2. G = [k \in 0..L |-> G[k]]
    BY <1>9
  <2> QED BY <2>1, <2>2
<1> QED BY <1>1, <1>2, <1>10, <1>11, <1>13 DEF Passing

\* A pass keeps what is over, names what it calls off, and where it comes to an
\* end leaves nothing that another would change.
LEMMA RoundsFacts ==
  ASSUME flow \in Flows, clock \in Nat, NEW st \in Document, Shaped(st), NEW r, r = Rounds(st)
  PROVE  /\ r.st \in Document /\ Shaped(r.st)
         /\ Kept(st, r.st, r.stops)
         /\ r.done /\ ~r.stuck => Quiet(r.st)
<1>1. PICK x : Passing(x, st) /\ Rounds(st) = x[MaxRounds]
  BY RoundsExist
<1>2. PICK L \in Nat : L = MaxRounds
  BY GraphAssumption
<1>3. /\ x \in [0..L -> RoundType] /\ x[0] = FirstRound(st)
      /\ \A k \in 1..L : x[k] = NextRound(x[k - 1])
  BY <1>1, <1>2 DEF Passing
<1> DEFINE Q == {k \in 0..L : /\ Kept(st, x[k].st, x[k].stops)
                              /\ x[k].done /\ ~x[k].stuck => Quiet(x[k].st)}
<1>4. 0 \in Q
  <2>1. x[0].st = st /\ x[0].stops = {} /\ x[0].done = FALSE
    BY <1>3 DEF FirstRound
  <2>2. Kept(st, x[0].st, x[0].stops)
    BY <2>1, KeptItself
  <2> QED BY <2>1, <2>2
<1>5. ASSUME NEW k \in 1..L, k - 1 \in Q PROVE k \in Q
  <2>1. PICK b \in RoundType : b = x[k - 1]
    <3>1. k - 1 \in 0..L
      OBVIOUS
    <3> QED BY <1>3, <3>1
  <2>2. PICK e : e = x[k]
    OBVIOUS
  <2>3. e = NextRound(b) /\ k \in 0..L
    BY <1>3, <2>1, <2>2
  <2>4. Kept(st, b.st, b.stops) /\ (b.done /\ ~b.stuck => Quiet(b.st))
    BY <1>5, <2>1
  <2>5. CASE b.done
    BY <2>2, <2>3, <2>4, <2>5 DEF NextRound
  <2>6. CASE ~b.done
    <3>1. e = Advanced(b, Sweep(b.st))
      BY <2>3, <2>6 DEF NextRound
    <3>2. /\ b.stops \subseteq e.stops /\ Kept(b.st, e.st, e.stops)
          /\ e.done /\ ~e.stuck => Quiet(e.st)
      BY <2>6, <3>1, AdvancedFacts
    <3>3. Kept(st, e.st, b.stops \cup e.stops)
      BY <2>4, <3>2, KeptTwice
    <3>4. b.stops \cup e.stops = e.stops
      BY <3>2
    <3> QED BY <2>2, <2>3, <3>2, <3>3, <3>4
  <2> QED BY <2>5, <2>6
<1>6. L \in Q
  <2> HIDE DEF Q
  <2>1. \A k \in 0..L : k \in Q
    BY <1>4, <1>5, UpTo
  <2> QED BY <2>1
<1>7. r = x[L] /\ x[L] \in RoundType
  BY <1>1, <1>2, <1>3
<1> QED BY <1>6, <1>7 DEF RoundType

\* What keeps the shards keeps the containers theirs.
LEMMA KeptBoxed ==
  ASSUME NEW st, NEW d, NEW bs \in SUBSET Box, NEW names, NEW P,
         Kept(st, d, P), Boxed(st, bs, names)
  PROVE  Boxed(d, bs, names \cup P)
<1>1. ASSUME NEW b \in bs
      PROVE  /\ b.shard \in DOMAIN d[b.step].shards
             /\ d[b.step].shards[b.shard].attempt = b.attempt
             /\ \/ d[b.step].shards[b.shard].task = "dispatched"
                \/ /\ d[b.step].shards[b.shard].task = "cancelled"
                   /\ TaskOf(b.step, b.shard, b.attempt) \in names \cup P
  <2>1. b.step \in Names /\ b.shard \in Nat /\ b.attempt \in Nat
    BY DEF Box
  <2>2. /\ b.shard \in DOMAIN st[b.step].shards
        /\ st[b.step].shards[b.shard].attempt = b.attempt
        /\ \/ st[b.step].shards[b.shard].task = "dispatched"
           \/ /\ st[b.step].shards[b.shard].task = "cancelled"
              /\ TaskOf(b.step, b.shard, b.attempt) \in names
    BY DEF Boxed
  <2>3. PICK s \in Names, i \in Nat, a \in Nat : s = b.step /\ i = b.shard /\ a = b.attempt
    BY <2>1
  <2> QED BY <2>2, <2>3 DEF Kept, TaskOver
<1>2. \A b, c \in bs : b.step = c.step /\ b.shard = c.shard => b = c
  BY DEF Boxed
<1>3. ASSUME NEW s \in Names, NEW i \in DOMAIN d[s].shards, HoldsARunner(d[s].shards[i])
      PROVE  \E b \in bs : b.step = s /\ b.shard = i
  <2>1. i \in DOMAIN st[s].shards /\ HoldsARunner(st[s].shards[i])
    BY <1>3 DEF Kept, HoldsARunner
  <2> QED BY <2>1 DEF Boxed
<1> QED BY <1>1, <1>2, <1>3 DEF Boxed

\* A sweep of what nothing would change leaves it.
LEMMA SweepStill ==
  ASSUME flow \in Flows, clock \in Nat, NEW st \in Document, Shaped(st), Quiet(st)
  PROVE  Sweep(st) = st
<1>1. PICK x : Sweeps(x, st) /\ Sweep(st) = x[Size]
  BY SweepExists
<1>2. PICK L \in Nat : L = Size
  BY OrderFacts DEF Size
<1>3. ASSUME NEW s \in Names PROVE Advance(st, s) = st
  <2>1. PICK e : e = Advance(st, s)
    OBVIOUS
  <2>2. Advances(st, e, s)
    BY <2>1, AdvanceFacts
  <2>3. ~Passes(st, e, s) /\ ~Starting(st, e, s) /\ ~Settles(st, e, s)
    BY DEF Quiet, Passes, Starting, Settles, SomeGoing
  <2> QED BY <2>1, <2>2, <2>3 DEF Advances
<1> DEFINE Q == {k \in 0..L : x[k] = st}
<1>4. 0 \in Q
  BY <1>1 DEF Sweeps
<1>5. ASSUME NEW k \in 1..L, k - 1 \in Q PROVE k \in Q
  <2>1. x[k] = Advance(x[k - 1], flow.order[k]) /\ flow.order[k] \in Names
    BY <1>1, <1>2, OrderFacts DEF Sweeps, Size
  <2> QED BY <1>3, <1>5, <2>1
<1>6. L \in Q
  <2> HIDE DEF Q
  <2>1. \A k \in 0..L : k \in Q
    BY <1>4, <1>5, UpTo
  <2> QED BY <2>1
<1> QED BY <1>1, <1>2, <1>6

\* A pass over what nothing would change ends with its first round, and leaves it.
LEMMA RoundsStill ==
  ASSUME flow \in Flows, clock \in Nat, NEW st \in Document, Shaped(st), Quiet(st),
         NEW r, r = Rounds(st)
  PROVE  r.done /\ (~r.stuck => r.st = st /\ r.stops = {})
<1>1. PICK x : Passing(x, st) /\ Rounds(st) = x[MaxRounds]
  BY RoundsExist
<1>2. PICK L \in Nat \ {0} : L = MaxRounds
  BY GraphAssumption
<1>3. /\ x \in [0..L -> RoundType] /\ x[0] = FirstRound(st)
      /\ \A k \in 1..L : x[k] = NextRound(x[k - 1])
  BY <1>1, <1>2 DEF Passing
<1> DEFINE Q == {k \in 0..L : k # 0 => x[k].done /\ (~x[k].stuck => x[k].st = st /\ x[k].stops = {})}
<1>4. 0 \in Q
  OBVIOUS
<1>5. ASSUME NEW k \in 1..L, k - 1 \in Q PROVE k \in Q
  <2>1. x[k] = NextRound(x[k - 1]) /\ k \in 0..L /\ k - 1 \in 0..L
    BY <1>3
  <2>2. CASE k # 1
    <3>1. k - 1 # 0
      BY <2>2
    <3>2. x[k - 1].done /\ (~x[k - 1].stuck => x[k - 1].st = st /\ x[k - 1].stops = {})
      BY <1>5, <3>1
    <3>3. x[k] = x[k - 1]
      BY <2>1, <3>2 DEF NextRound
    <3> QED BY <2>1, <3>2, <3>3
  <2>3. CASE k = 1
    <3>1. PICK b : b = FirstRound(st)
      OBVIOUS
    <3>2. x[0] = b /\ b = [st |-> st, stops |-> {}, done |-> FALSE, stuck |-> FALSE]
      BY <1>3, <3>1 DEF FirstRound
    <3>3. x[k] = Advanced(b, Sweep(st))
      <4>1. x[k] = NextRound(b) /\ b.st = st /\ ~b.done
        BY <2>1, <2>3, <3>2
      <4> QED BY <4>1 DEF NextRound
    <3>4. Sweep(st) = st
      BY SweepStill
    <3>5. \A s \in Names : CalledOff(st, s) = {}
      BY DEF Quiet
    <3>6. PICK P : P = StopsOf(st)
      OBVIOUS
    <3>7. P = {}
      BY <3>5, <3>6 DEF StopsOf
    <3>8. Unbuilt(st) = {}
      BY DEF Quiet, Unbuilt
    <3>9. Stopped(st) = st
      BY <3>6, <3>7, StoppedFacts
    <3>10. x[k] = Round(b, st, P)
      BY <3>3, <3>4, <3>6 DEF Advanced
    <3>11. CASE Stuck(st)
      <4>1. x[k] = [b EXCEPT !.done = TRUE, !.stuck = TRUE]
        BY <3>10, <3>11 DEF Round
      <4>2. x[k].done = TRUE /\ x[k].stuck = TRUE
        BY <3>2, <4>1
      <4> QED BY <2>1, <4>2
    <3>12. CASE ~Stuck(st)
      <4>1. x[k] = [st |-> st, stops |-> b.stops \cup P, done |-> P = {}, stuck |-> FALSE]
        BY <3>8, <3>9, <3>10, <3>12 DEF Round
      <4>2. PICK yes \in BOOLEAN : yes = (P = {})
        OBVIOUS
      <4>3. x[k] = [st |-> st, stops |-> b.stops \cup P, done |-> yes, stuck |-> FALSE]
        BY <4>1, <4>2
      <4>4. x[k].done = yes /\ x[k].st = st /\ x[k].stops = {}
        BY <3>2, <3>7, <4>3
      <4> QED BY <2>1, <3>7, <4>2, <4>4
    <3> QED BY <3>11, <3>12
  <2> QED BY <2>2, <2>3
<1>6. L \in Q
  <2> HIDE DEF Q
  <2>1. \A k \in 0..L : k \in Q
    BY <1>4, <1>5, UpTo
  <2> QED BY <2>1
<1> QED BY <1>1, <1>2, <1>6

-----------------------------------------------------------------------------
(* One shard of a document changes: handed out, or reported.               *)

\* e is st but for shard i of step s, which became n.
Reshard(st, e, s, i, n) ==
  /\ e[s].verdict = st[s].verdict /\ e[s].port = st[s].port
  /\ DOMAIN e[s].shards = DOMAIN st[s].shards /\ e[s].shards[i] = n
  /\ \A j \in DOMAIN st[s].shards : j # i => e[s].shards[j] = st[s].shards[j]
  /\ \A u \in Names : u # s => e[u] = st[u]

\* A change of one shard is a document that differs in it.
LEMMA ReshardFacts ==
  ASSUME NEW st \in Document, NEW s \in Names, NEW i \in DOMAIN st[s].shards, NEW n \in ShardType,
         NEW e, e = [st EXCEPT ![s].shards[i] = n]
  PROVE  e \in Document /\ Reshard(st, e, s, i, n)
<1>1. PICK ss \in StepType : ss = st[s]
  BY DEF Document
<1>2. PICK sh \in Seq(ShardType) : sh = ss.shards
  BY DEF StepType
<1>3. PICK ns : ns = [sh EXCEPT ![i] = n]
  OBVIOUS
<1>4. i \in DOMAIN sh /\ DOMAIN sh = 1..Len(sh) /\ Len(sh) \in Nat
  BY <1>1, <1>2
<1>5. ns \in Seq(ShardType)
  BY <1>3, <1>4
<1>6. DOMAIN ns = DOMAIN sh /\ ns[i] = n /\ \A j \in DOMAIN sh : j # i => ns[j] = sh[j]
  BY <1>3, <1>4
<1>7. PICK es : es = [ss EXCEPT !.shards = ns]
  OBVIOUS
<1>8. es \in StepType /\ es.verdict = ss.verdict /\ es.port = ss.port /\ es.shards = ns
  BY <1>5, <1>7 DEF StepType
<1>9. e = [st EXCEPT ![s] = es]
  BY <1>1, <1>2, <1>3, <1>7
<1>10. e \in Document /\ e[s] = es /\ \A u \in Names : u # s => e[u] = st[u]
  BY <1>8, <1>9 DEF Document
<1> QED BY <1>1, <1>2, <1>6, <1>8, <1>10 DEF Reshard

\* What a change of one shard leaves as it was.
LEMMA ReshardKeeps ==
  ASSUME NEW st \in Document, NEW e \in Document, NEW s \in Names, NEW i, NEW n,
         Reshard(st, e, s, i, n)
  PROVE  /\ \A u \in Names : e[u].verdict = st[u].verdict /\ e[u].port = st[u].port
         /\ flow \in Flows => \A u \in Names : Waits(e, u) <=> Waits(st, u)
         /\ RunVerdict(e) = RunVerdict(st)
         /\ \A u \in Names : u # s => CalledOff(e, u) = CalledOff(st, u)
                                      /\ Startable(e, u) = Startable(st, u)
<1>1. \A u \in Names : e[u].verdict = st[u].verdict /\ e[u].port = st[u].port
  BY DEF Reshard
<1>2. ASSUME flow \in Flows, NEW u \in Names PROVE Waits(e, u) <=> Waits(st, u)
  <2>1. \A j \in DOMAIN flow.needs[u] : flow.needs[u][j] \in Names
    BY <1>2, NeedsFacts
  <2> QED BY <1>1, <2>1 DEF Waits, EdgeWaiting, EdgeProduced
<1>3. RunVerdict(e) = RunVerdict(st)
  BY <1>1 DEF RunVerdict
<1>4. ASSUME NEW u \in Names, u # s
      PROVE  CalledOff(e, u) = CalledOff(st, u) /\ Startable(e, u) = Startable(st, u)
  <2>1. e[u] = st[u]
    BY <1>4 DEF Reshard
  <2> QED BY <2>1 DEF CalledOff, Startable
<1> QED BY <1>1, <1>2, <1>3, <1>4

\* What a pass would start, task by task.
LEMMA InStarts ==
  ASSUME NEW st, NEW t
  PROVE  t \in Starts(st) <=>
           \E u \in Names : \E j \in Startable(st, u) : t = TaskOf(u, j, st[u].shards[j].attempt)
BY DEF Starts

\* The greater of a number and nought.
LEMMA MaxZero ==
  ASSUME NEW d \in Int
  PROVE  Max({d, 0}) = IF d >= 0 THEN d ELSE 0
<1>1. PICK m \in {d, 0} : m = IF d >= 0 THEN d ELSE 0
  OBVIOUS
<1>2. m \in {d, 0} /\ \A y \in {d, 0} : m >= y
  BY <1>1
<1>3. \A x \in {d, 0} : (\A y \in {d, 0} : x >= y) => x = m
  BY <1>1
<1> QED BY <1>1, <1>2, <1>3 DEF Max

\* How many pending shards come before one of them.
Rank(due, j) == Cardinality({k \in due : k < j})

\* Without shard i those before it keep their rank, and those after it are one nearer.
Ranked(L, due, i) ==
  /\ \A j \in due : Rank(due, j) \in Nat /\ Rank(due, j) < L
  /\ \A j \in due : j < i => Rank(due, j) < Rank(due, i) /\ Rank(due \ {i}, j) = Rank(due, j)
  /\ \A j \in due : i < j => Rank(due \ {i}, j) = Rank(due, j) - 1

\* Shards without one of them are ranked as they were before it and one less after it.
LEMMA RankFacts ==
  ASSUME NEW L \in Nat, NEW due \in SUBSET (1..L), NEW i \in due
  PROVE  Ranked(L, due, i)
<1>1. ASSUME NEW S \in SUBSET (1..L)
      PROVE  IsFiniteSet(S) /\ Cardinality(S) \in Nat
  <2>1. IsFiniteSet(1..L)
    BY FS_Interval
  <2> QED BY <2>1, FS_Subset, FS_CardinalityType
<1>2. ASSUME NEW j \in due PROVE Rank(due, j) \in Nat /\ Rank(due, j) < L
  <2>1. PICK S \in SUBSET (1..L) : S = {k \in due : k < j}
    OBVIOUS
  <2>2. PICK T \in SUBSET (1..L) : T = 1..(j - 1)
    OBVIOUS
  <2>3. Cardinality(T) = j - 1
    BY <2>2, FS_Interval
  <2>4. S \subseteq T
    BY <2>1, <2>2
  <2>5. Cardinality(S) <= Cardinality(T)
    BY <1>1, <2>4, FS_Subset
  <2> QED BY <1>1, <2>1, <2>3, <2>5 DEF Rank
<1>3. ASSUME NEW j \in due, j < i
      PROVE  Rank(due, j) < Rank(due, i) /\ Rank(due \ {i}, j) = Rank(due, j)
  <2>1. PICK S \in SUBSET (1..L) : S = {k \in due : k < j}
    OBVIOUS
  <2>2. PICK T \in SUBSET (1..L) : T = {k \in due : k < i}
    OBVIOUS
  <2>3. j \notin S /\ S \cup {j} \subseteq T /\ S \cup {j} \in SUBSET (1..L)
    BY <1>3, <2>1, <2>2
  <2>4. Cardinality(S \cup {j}) = Cardinality(S) + 1
    BY <1>1, <2>3, FS_AddElement
  <2>5. Cardinality(S \cup {j}) <= Cardinality(T)
    BY <1>1, <2>3, FS_Subset
  <2>6. {k \in due \ {i} : k < j} = S
    BY <1>3, <2>1
  <2>7. Cardinality(S) \in Nat /\ Cardinality(T) \in Nat
    BY <1>1
  <2> QED BY <2>1, <2>2, <2>4, <2>5, <2>6, <2>7 DEF Rank
<1>4. ASSUME NEW j \in due, i < j PROVE Rank(due \ {i}, j) = Rank(due, j) - 1
  <2>1. PICK S \in SUBSET (1..L) : S = {k \in due : k < j}
    OBVIOUS
  <2>2. i \in S
    BY <1>4, <2>1
  <2>3. {k \in due \ {i} : k < j} = S \ {i}
    BY <2>1
  <2>4. Cardinality(S \ {i}) = Cardinality(S) - 1
    BY <1>1, <2>2, FS_RemoveElement
  <2> QED BY <2>1, <2>3, <2>4 DEF Rank
<1> QED BY <1>2, <1>3, <1>4 DEF Ranked

\* A shard handed out takes the slot it was given, and the others keep theirs.
LEMMA HandedStartable ==
  ASSUME NEW st \in Document, NEW e \in Document, NEW s \in Names, flow \in Flows,
         NEW i \in Startable(st, s), NEW n \in ShardType, n.task = "dispatched",
         Reshard(st, e, s, i, n)
  PROVE  Startable(e, s) = Startable(st, s) \ {i}
<1>1. PICK sh \in Seq(ShardType) : sh = st[s].shards
  BY DEF Document, StepType
<1>2. PICK sn \in Seq(ShardType) : sn = e[s].shards
  BY DEF Document, StepType
<1>3. PICK L \in Nat : L = Len(sh) /\ DOMAIN sh = 1..L
  BY <1>1
<1>4. /\ DOMAIN sn = 1..L /\ Len(sn) = L /\ i \in 1..L
      /\ sn[i] = n /\ \A j \in 1..L : j # i => sn[j] = sh[j]
  BY <1>1, <1>2, <1>3 DEF Reshard, Startable
<1>5. st[s].verdict = "running" /\ e[s].verdict = "running" /\ sh[i].task = "pending"
  BY <1>1 DEF Startable, Reshard
<1>6. PICK due \in SUBSET (1..L) : due = {j \in DOMAIN sh : sh[j].task = "pending"}
  BY <1>3
<1>7. i \in due /\ due \ {i} = {j \in DOMAIN sn : sn[j].task = "pending"}
  BY <1>3, <1>4, <1>5, <1>6
<1>8. /\ SlotsFree(s, st[s]) \in Int /\ SlotsFree(s, e[s]) \in Int
      /\ \/ SlotsFree(s, st[s]) = L /\ SlotsFree(s, e[s]) = L
         \/ SlotsFree(s, st[s]) > 0 => SlotsFree(s, e[s]) = SlotsFree(s, st[s]) - 1
  <2>1. flow.parallel[s] \in Nat
    BY StepFacts
  <2>2. CASE flow.parallel[s] = 0
    BY <1>1, <1>2, <1>3, <1>4, <2>2 DEF SlotsFree
  <2>3. CASE flow.parallel[s] # 0
    <3>1. PICK S : S = {j \in DOMAIN sh : HoldsARunner(sh[j])}
      OBVIOUS
    <3>2. i \notin S /\ S \cup {i} = {j \in DOMAIN sn : HoldsARunner(sn[j])}
      BY <1>3, <1>4, <1>5, <3>1 DEF HoldsARunner
    <3>3. IsFiniteSet(S)
      <4>1. IsFiniteSet(1..L) /\ S \subseteq 1..L
        BY <1>3, <3>1, FS_Interval
      <4> QED BY <4>1, FS_Subset
    <3>4. PICK c \in Nat : c = Cardinality(S)
      BY <3>3, FS_CardinalityType
    <3>5. Cardinality(S \cup {i}) = c + 1
      BY <3>2, <3>3, <3>4, FS_AddElement
    <3>6. InFlight(st[s]) = c /\ InFlight(e[s]) = c + 1
      BY <1>1, <1>2, <3>1, <3>2, <3>4, <3>5 DEF InFlight
    <3>7. PICK p \in Nat : p = flow.parallel[s]
      BY <2>1
    <3>8. SlotsFree(s, st[s]) = Max({p - c, 0}) /\ SlotsFree(s, e[s]) = Max({p - (c + 1), 0})
      BY <2>3, <3>6, <3>7 DEF SlotsFree
    <3>9. p - c \in Int /\ p - (c + 1) \in Int
      OBVIOUS
    <3> QED BY <3>8, <3>9, MaxZero
  <2> QED BY <2>2, <2>3
<1>9. PICK free \in Int, less \in Int : free = SlotsFree(s, st[s]) /\ less = SlotsFree(s, e[s])
  BY <1>8
<1>10. Startable(st, s) = {j \in due : Rank(due, j) < free}
  BY <1>1, <1>5, <1>6, <1>9 DEF Startable, Rank
<1>11. PICK rest : rest = due \ {i}
  OBVIOUS
<1>12. Startable(e, s) = {j \in rest : Rank(rest, j) < less}
  BY <1>2, <1>5, <1>7, <1>9, <1>11 DEF Startable, Rank
<1>13. Ranked(L, due, i)
  BY <1>7, RankFacts
<1>14. Rank(due, i) < free /\ Rank(due, i) \in Nat
  BY <1>7, <1>10, <1>13 DEF Ranked
<1>15. (free = L /\ less = L) \/ less = free - 1
  BY <1>8, <1>9, <1>14
<1>16. ASSUME NEW j \in due, j # i PROVE Rank(rest, j) < less <=> Rank(due, j) < free
  <2>1. /\ Rank(due, j) \in Nat /\ Rank(due, j) < L
        /\ j < i => Rank(due, j) < Rank(due, i) /\ Rank(due \ {i}, j) = Rank(due, j)
        /\ i < j => Rank(due \ {i}, j) = Rank(due, j) - 1
    BY <1>13 DEF Ranked
  <2>2. CASE j < i
    BY <1>11, <1>14, <1>15, <2>1, <2>2
  <2>3. CASE i < j
    BY <1>11, <1>15, <2>1, <2>3
  <2>4. i \in Nat /\ j \in Nat
    BY <1>7
  <2> QED BY <1>16, <2>2, <2>3, <2>4
<1> QED BY <1>10, <1>11, <1>12, <1>16

\* The document in which a shard was handed out, and its container.
Handed(st, s, i) == [st EXCEPT ![s].shards[i].task = "dispatched"]
BoxOf(st, s, i) ==
  [step |-> s, shard |-> i, attempt |-> st[s].shards[i].attempt, over |-> FALSE, out |-> None]

\* Handing a task out takes it from what a pass would start, and changes nothing else of that.
LEMMA HandOutFacts ==
  ASSUME flow \in Flows, NEW st \in Document, Shaped(st), Quiet(st),
         NEW s \in Names, NEW i \in Startable(st, s),
         NEW e, e = Handed(st, s, i),
         NEW bs \in SUBSET Box, NEW names, Boxed(st, bs, names),
         NEW b, b = BoxOf(st, s, i)
  PROVE  /\ e \in Document /\ Shaped(e) /\ Quiet(e)
         /\ Starts(e) = Starts(st) \ {TaskOf(s, i, st[s].shards[i].attempt)}
         /\ RunVerdict(e) = RunVerdict(st)
         /\ b \in Box /\ Boxed(e, bs \cup {b}, names)
<1>1. PICK sh \in Seq(ShardType) : sh = st[s].shards
  BY DEF Document, StepType
<1>2. i \in DOMAIN sh /\ i \in Nat /\ st[s].verdict = "running" /\ sh[i].task = "pending"
  BY <1>1 DEF Startable
<1>3. PICK o \in ShardType : o = sh[i]
  BY <1>2
<1>4. PICK n : n = [o EXCEPT !.task = "dispatched"]
  OBVIOUS
<1>5. n \in ShardType /\ n.task = "dispatched" /\ n.attempt = o.attempt
  BY <1>4 DEF ShardType, Tasks
<1>6. e = [st EXCEPT ![s].shards[i] = n]
  BY <1>1, <1>3, <1>4 DEF Handed
<1>7. e \in Document /\ Reshard(st, e, s, i, n)
  BY <1>1, <1>2, <1>5, <1>6, ReshardFacts
<1>81. /\ \A u \in Names : e[u].verdict = st[u].verdict /\ e[u].port = st[u].port
       /\ flow \in Flows => \A u \in Names : Waits(e, u) <=> Waits(st, u)
       /\ RunVerdict(e) = RunVerdict(st)
       /\ \A u \in Names : u # s => CalledOff(e, u) = CalledOff(st, u)
                                    /\ Startable(e, u) = Startable(st, u)
  <2> HIDE DEF Document
  <2>1. e \in Document
    BY <1>7
  <2>2. Reshard(st, e, s, i, n)
    BY <1>7
  <2> QED BY ONLY st \in Document, s \in Names, <2>1, <2>2, ReshardKeeps
<1>8. /\ \A u \in Names : e[u].verdict = st[u].verdict /\ e[u].port = st[u].port
      /\ \A u \in Names : Waits(e, u) <=> Waits(st, u)
      /\ RunVerdict(e) = RunVerdict(st)
      /\ \A u \in Names : u # s => CalledOff(e, u) = CalledOff(st, u)
                                   /\ Startable(e, u) = Startable(st, u)
  BY <1>81
<1>9. /\ DOMAIN e[s].shards = DOMAIN sh /\ e[s].shards[i] = n
      /\ \A j \in DOMAIN sh : j # i => e[s].shards[j] = sh[j]
      /\ \A u \in Names : u # s => e[u] = st[u]
  BY <1>1, <1>7 DEF Reshard
<1>10. Startable(e, s) = Startable(st, s) \ {i}
  BY <1>5, <1>7, HandedStartable
<1>11. Shaped(e)
  BY <1>2, <1>8, <1>9 DEF Shaped
<1>12. CalledOff(e, s) = CalledOff(st, s)
  <2>1. \A j \in DOMAIN sh : /\ TaskOver(e[s].shards[j]) <=> TaskOver(sh[j])
                             /\ e[s].shards[j].task = "failed" <=> sh[j].task = "failed"
    BY <1>2, <1>5, <1>9 DEF TaskOver
  <2>2. (\E j \in DOMAIN sh : e[s].shards[j].task = "failed") <=> \E j \in DOMAIN sh : sh[j].task = "failed"
    BY <2>1
  <2>3. e[s].verdict = st[s].verdict
    BY <1>8
  <2>4. \A j : j \in CalledOff(e, s) <=> j \in CalledOff(st, s)
    BY <1>1, <1>9, <2>1, <2>2, <2>3 DEF CalledOff
  <2>5. CalledOff(e, s) \subseteq DOMAIN sh /\ CalledOff(st, s) \subseteq DOMAIN sh
    BY <1>1, <1>9 DEF CalledOff
  <2> QED BY <2>4, <2>5
<1>13. Quiet(e)
  <2>1. ASSUME NEW u \in Names
        PROVE  /\ e[u].verdict = "pending" => Waits(e, u)
               /\ e[u].verdict = "running" => \E j \in DOMAIN e[u].shards : Going(e[u].shards[j])
               /\ CalledOff(e, u) = {}
               /\ ~Builds(u) => Startable(e, u) = {}
    <3>1. CASE u = s
      <4>1. Going(n) /\ i \in DOMAIN e[s].shards
        BY <1>2, <1>5, <1>9 DEF Going
      <4>2. Builds(s)
        BY DEF Quiet
      <4> QED BY <1>2, <1>8, <1>9, <1>12, <3>1, <4>1, <4>2 DEF Quiet
    <3>2. CASE u # s
      BY <1>8, <1>9, <3>2 DEF Quiet
    <3> QED BY <3>1, <3>2
  <2> QED BY <2>1 DEF Quiet
<1>14. Starts(e) = Starts(st) \ {TaskOf(s, i, sh[i].attempt)}
  <2>1. ASSUME NEW t, t \in Starts(e) PROVE t \in Starts(st) /\ t # TaskOf(s, i, sh[i].attempt)
    <3>1. PICK u \in Names : \E j \in Startable(e, u) : t = TaskOf(u, j, e[u].shards[j].attempt)
      BY <2>1 DEF Starts
    <3>2. PICK j \in Startable(e, u) : t = TaskOf(u, j, e[u].shards[j].attempt)
      BY <3>1
    <3>3. CASE u = s
      <4>1. j \in Startable(st, s) /\ j # i
        BY <1>10, <3>3
      <4>2. j \in DOMAIN sh
        BY <1>1, <4>1 DEF Startable
      <4>3. t = TaskOf(s, j, st[s].shards[j].attempt)
        BY <1>1, <1>9, <3>2, <3>3, <4>1, <4>2
      <4> QED BY <4>1, <4>3, InStarts DEF TaskOf
    <3>4. CASE u # s
      <4>1. j \in Startable(st, u) /\ t = TaskOf(u, j, st[u].shards[j].attempt)
        BY <1>8, <1>9, <3>2, <3>4
      <4> QED BY <3>4, <4>1, InStarts DEF TaskOf
    <3> QED BY <3>3, <3>4
  <2>2. ASSUME NEW t, t \in Starts(st), t # TaskOf(s, i, sh[i].attempt) PROVE t \in Starts(e)
    <3>1. PICK u \in Names : \E j \in Startable(st, u) : t = TaskOf(u, j, st[u].shards[j].attempt)
      BY <2>2, InStarts
    <3>2. PICK j \in Startable(st, u) : t = TaskOf(u, j, st[u].shards[j].attempt)
      BY <3>1
    <3>3. CASE u = s
      <4>1. j # i
        BY <1>1, <2>2, <3>2, <3>3
      <4>2. j \in Startable(e, s) /\ j \in DOMAIN sh
        BY <1>1, <1>10, <3>2, <3>3, <4>1 DEF Startable
      <4>3. t = TaskOf(s, j, e[s].shards[j].attempt)
        BY <1>1, <1>9, <3>2, <3>3, <4>1, <4>2
      <4> QED BY <4>2, <4>3, InStarts
    <3>4. CASE u # s
      <4>1. j \in Startable(e, u) /\ t = TaskOf(u, j, e[u].shards[j].attempt)
        BY <1>8, <1>9, <3>2, <3>4
      <4> QED BY <4>1, InStarts
    <3> QED BY <3>3, <3>4
  <2> QED BY <2>1, <2>2
<1>15. b \in Box
  BY <1>1, <1>2, <1>3 DEF BoxOf, Box, ShardType, Out
<1>16. Boxed(e, bs \cup {b}, names)
  <2>1. b.step = s /\ b.shard = i /\ b.attempt = o.attempt
    BY <1>1, <1>3 DEF BoxOf
  <2>2. ASSUME NEW c \in bs PROVE c.step # s \/ c.shard # i
    BY <1>1, <1>2 DEF Boxed
  <2>3. ASSUME NEW c \in bs \cup {b}
        PROVE  /\ c.shard \in DOMAIN e[c.step].shards
               /\ e[c.step].shards[c.shard].attempt = c.attempt
               /\ \/ e[c.step].shards[c.shard].task = "dispatched"
                  \/ /\ e[c.step].shards[c.shard].task = "cancelled"
                     /\ TaskOf(c.step, c.shard, c.attempt) \in names
    <3>1. CASE c = b
      BY <1>2, <1>5, <1>9, <2>1, <3>1
    <3>2. CASE c \in bs
      <4>1. c.step \in Names
        BY <3>2 DEF Box
      <4>2. /\ c.shard \in DOMAIN st[c.step].shards
            /\ st[c.step].shards[c.shard].attempt = c.attempt
            /\ \/ st[c.step].shards[c.shard].task = "dispatched"
               \/ /\ st[c.step].shards[c.shard].task = "cancelled"
                  /\ TaskOf(c.step, c.shard, c.attempt) \in names
        BY <3>2 DEF Boxed
      <4>3. DOMAIN e[c.step].shards = DOMAIN st[c.step].shards
            /\ e[c.step].shards[c.shard] = st[c.step].shards[c.shard]
        BY <1>1, <1>9, <2>2, <3>2, <4>1, <4>2
      <4> QED BY <4>2, <4>3
    <3> QED BY <3>1, <3>2
  <2>4. \A c, d \in bs \cup {b} : c.step = d.step /\ c.shard = d.shard => c = d
    <3>1. \A c, d \in bs : c.step = d.step /\ c.shard = d.shard => c = d
      BY DEF Boxed
    <3>2. ASSUME NEW c \in bs \cup {b}, NEW d \in bs \cup {b}, c.step = d.step, c.shard = d.shard
          PROVE  c = d
      <4>1. CASE c \in bs /\ d \in bs
        BY <3>1, <3>2, <4>1
      <4>2. CASE c = b /\ d \in bs
        BY <2>1, <2>2, <3>2, <4>2
      <4>3. CASE c \in bs /\ d = b
        BY <2>1, <2>2, <3>2, <4>3
      <4> QED BY <4>1, <4>2, <4>3
    <3> QED BY <3>2
  <2>5. ASSUME NEW u \in Names, NEW j \in DOMAIN e[u].shards, HoldsARunner(e[u].shards[j])
        PROVE  \E c \in bs \cup {b} : c.step = u /\ c.shard = j
    <3>1. CASE u = s /\ j = i
      BY <2>1, <3>1
    <3>2. CASE ~(u = s /\ j = i)
      <4>1. j \in DOMAIN st[u].shards /\ e[u].shards[j] = st[u].shards[j]
        BY <1>1, <1>9, <3>2
      <4>2. \E c \in bs : c.step = u /\ c.shard = j
        BY <2>5, <4>1 DEF Boxed
      <4> QED BY <4>2
    <3> QED BY <3>1, <3>2
  <2> QED BY <2>3, <2>4, <2>5 DEF Boxed
<1> QED BY <1>1, <1>7, <1>8, <1>11, <1>13, <1>14, <1>15, <1>16

\* What recording the ending of a container makes of the document: the container
\* is forgotten, the others are still those of the shards that were handed out.
LEMMA RecordedFacts ==
  ASSUME flow \in Flows, NEW st \in Document, Shaped(st), NEW bs \in SUBSET Box, NEW names,
         Boxed(st, bs, names), NEW b \in bs, NEW e, e = Recorded(st, b)
  PROVE  e \in Document /\ Shaped(e) /\ Boxed(e, bs \ {b}, names)
<1>1. PICK s \in Names, i \in Nat, a \in Nat : s = b.step /\ i = b.shard /\ a = b.attempt
  BY DEF Box
<1>2. PICK sh \in Seq(ShardType) : sh = st[s].shards
  BY DEF Document, StepType
<1>3. /\ i \in DOMAIN sh /\ sh[i].attempt = a
      /\ sh[i].task = "dispatched" \/ sh[i].task = "cancelled"
  BY <1>1, <1>2 DEF Boxed
<1>4. PICK o \in ShardType : o = sh[i]
  BY <1>3
<1>5. \A c \in bs \ {b} : c.step # s \/ c.shard # i
  BY <1>1 DEF Boxed
<1>6. CASE o.task = "cancelled"
  <2>1. e = st
    BY <1>1, <1>2, <1>4, <1>6 DEF Recorded, TaskOver
  <2>2. ASSUME NEW u \in Names, NEW j \in DOMAIN st[u].shards, HoldsARunner(st[u].shards[j])
        PROVE  \E c \in bs \ {b} : c.step = u /\ c.shard = j
    <3>1. PICK c \in bs : c.step = u /\ c.shard = j
      BY <2>2 DEF Boxed
    <3>2. ~(u = s /\ j = i)
      BY <1>2, <1>4, <1>6, <2>2 DEF HoldsARunner
    <3>3. c # b
      BY <1>1, <3>1, <3>2
    <3> QED BY <3>1, <3>3
  <2>3. \A c \in bs \ {b} :
          /\ c.shard \in DOMAIN st[c.step].shards
          /\ st[c.step].shards[c.shard].attempt = c.attempt
          /\ \/ st[c.step].shards[c.shard].task = "dispatched"
             \/ /\ st[c.step].shards[c.shard].task = "cancelled"
                /\ TaskOf(c.step, c.shard, c.attempt) \in names
    BY DEF Boxed
  <2>4. \A c, d \in bs \ {b} : c.step = d.step /\ c.shard = d.shard => c = d
    BY DEF Boxed
  <2>5. Boxed(st, bs \ {b}, names)
    BY <2>2, <2>3, <2>4 DEF Boxed
  <2> QED BY <2>1, <2>5
<1>7. CASE o.task = "dispatched"
  <2>1. PICK n : n = IF b.out # None THEN [o EXCEPT !.task = "succeeded", !.out = b.out]
                     ELSE IF o.attempt < flow.tries[s]
                          THEN [o EXCEPT !.task = "pending", !.attempt = @ + 1]
                          ELSE [o EXCEPT !.task = "failed"]
    OBVIOUS
  <2>2. n \in ShardType /\ n.task \in {"succeeded", "pending", "failed"}
    <3>1. b.out \in Out
      BY DEF Box
    <3>2. o.attempt \in Nat
      BY DEF ShardType
    <3>3. [o EXCEPT !.task = "succeeded", !.out = b.out] \in ShardType
          /\ [o EXCEPT !.task = "succeeded", !.out = b.out].task = "succeeded"
      BY <3>1 DEF ShardType, Tasks
    <3>4. [o EXCEPT !.task = "pending", !.attempt = @ + 1] \in ShardType
          /\ [o EXCEPT !.task = "pending", !.attempt = @ + 1].task = "pending"
      <4>1. PICK m \in Nat : m = o.attempt + 1
        BY <3>2
      <4>2. PICK q : q = [o EXCEPT !.task = "pending", !.attempt = m]
        OBVIOUS
      <4>3. q \in ShardType /\ q.task = "pending"
        BY <4>2 DEF ShardType, Tasks
      <4>4. [o EXCEPT !.task = "pending", !.attempt = @ + 1] = q
        BY <4>1, <4>2
      <4> QED BY <4>3, <4>4
    <3>5. [o EXCEPT !.task = "failed"] \in ShardType /\ [o EXCEPT !.task = "failed"].task = "failed"
      BY DEF ShardType, Tasks
    <3> QED BY <2>1, <3>3, <3>4, <3>5
  <2>3. e = [st EXCEPT ![s].shards[i] = n]
    <3>1. ~(o.attempt # b.attempt \/ TaskOver(o))
      BY <1>1, <1>3, <1>4, <1>7 DEF TaskOver
    <3> QED BY <1>1, <1>2, <1>4, <2>1, <3>1 DEF Recorded
  <2>4. e \in Document /\ Reshard(st, e, s, i, n)
    BY <1>2, <1>3, <2>2, <2>3, ReshardFacts
  <2>5. \A u \in Names : e[u].verdict = st[u].verdict /\ e[u].port = st[u].port
    BY <2>4 DEF Reshard
  <2>6. /\ DOMAIN e[s].shards = DOMAIN sh /\ e[s].shards[i] = n
        /\ \A j \in DOMAIN sh : j # i => e[s].shards[j] = sh[j]
        /\ \A u \in Names : u # s => e[u] = st[u]
    BY <1>2, <2>4 DEF Reshard
  <2>7. st[s].verdict \notin {"pending", "succeeded", "failed", "skipped"}
    <3>1. sh # <<>> /\ ~TaskOver(sh[i])
      BY <1>3, <1>4, <1>7 DEF TaskOver
    <3> QED BY <1>2, <1>3, <3>1 DEF Shaped
  <2>8. Shaped(e)
    BY <2>5, <2>6, <2>7 DEF Shaped
  <2>9. ASSUME NEW c \in bs \ {b}
        PROVE  /\ c.shard \in DOMAIN e[c.step].shards
               /\ e[c.step].shards[c.shard].attempt = c.attempt
               /\ \/ e[c.step].shards[c.shard].task = "dispatched"
                  \/ /\ e[c.step].shards[c.shard].task = "cancelled"
                     /\ TaskOf(c.step, c.shard, c.attempt) \in names
    <3>1. c.step \in Names
      BY DEF Box
    <3>2. /\ c.shard \in DOMAIN st[c.step].shards
          /\ st[c.step].shards[c.shard].attempt = c.attempt
          /\ \/ st[c.step].shards[c.shard].task = "dispatched"
             \/ /\ st[c.step].shards[c.shard].task = "cancelled"
                /\ TaskOf(c.step, c.shard, c.attempt) \in names
      BY DEF Boxed
    <3>3. DOMAIN e[c.step].shards = DOMAIN st[c.step].shards
          /\ e[c.step].shards[c.shard] = st[c.step].shards[c.shard]
      BY <1>2, <1>5, <2>6, <3>1, <3>2
    <3> QED BY <3>2, <3>3
  <2>10. \A c, d \in bs \ {b} : c.step = d.step /\ c.shard = d.shard => c = d
    BY DEF Boxed
  <2>11. ASSUME NEW u \in Names, NEW j \in DOMAIN e[u].shards, HoldsARunner(e[u].shards[j])
         PROVE  \E c \in bs \ {b} : c.step = u /\ c.shard = j
    <3>1. ~(u = s /\ j = i)
      BY <2>2, <2>6, <2>11 DEF HoldsARunner
    <3>2. j \in DOMAIN st[u].shards /\ e[u].shards[j] = st[u].shards[j]
      BY <1>2, <2>6, <3>1
    <3>3. PICK c \in bs : c.step = u /\ c.shard = j
      BY <2>11, <3>2 DEF Boxed
    <3>4. c # b
      BY <1>1, <3>1, <3>3
    <3> QED BY <3>3, <3>4
  <2>12. Boxed(e, bs \ {b}, names)
    BY <2>9, <2>10, <2>11 DEF Boxed
  <2> QED BY <2>4, <2>8, <2>12
<1> QED BY <1>3, <1>4, <1>6, <1>7

\* Every container, where the run is over, is one that a stop named.
LEMMA OverTold ==
  ASSUME NEW d \in Document, Shaped(d), Quiet(d), RunVerdict(d) # "running",
         NEW bs \in SUBSET Box, NEW names, Boxed(d, bs, names), NEW b \in bs
  PROVE  TaskOf(b.step, b.shard, b.attempt) \in names
<1>1. PICK s \in Names, i \in Nat, a \in Nat : s = b.step /\ i = b.shard /\ a = b.attempt
  BY DEF Box
<1>2. d[s].verdict \in Terminal
  BY DEF RunVerdict
<1>3. i \in DOMAIN d[s].shards
  BY <1>1 DEF Boxed
<1>4. d[s].shards[i].task # "dispatched"
  <2> SUFFICES ASSUME d[s].shards[i].task = "dispatched" PROVE FALSE
    OBVIOUS
  <2>1. ~TaskOver(d[s].shards[i])
    BY DEF TaskOver
  <2>2. d[s].verdict = "cancelled"
    BY <1>2, <1>3, <2>1 DEF Shaped, Terminal
  <2>3. i \in CalledOff(d, s)
    BY <1>3, <2>1, <2>2 DEF CalledOff
  <2> QED BY <2>3 DEF Quiet
<1> QED BY <1>1, <1>4 DEF Boxed

\* A run that is over starts nothing.
LEMMA OverStarts ==
  ASSUME NEW d, RunVerdict(d) # "running"
  PROVE  Starts(d) = {}
<1>1. \A s \in Names : d[s].verdict \in Terminal
  BY DEF RunVerdict
<1>2. \A s \in Names : Startable(d, s) = {}
  BY <1>1 DEF Startable, Terminal
<1> QED BY <1>2 DEF Starts


-----------------------------------------------------------------------------
(* What the steps of a run do to it.                                       *)

\* What is said of the next document hangs on it and on the workflow alone.
LEMMA NextDocument ==
  ASSUME flow' = flow, NEW n, n = steps'
  PROVE  /\ Names' = Names /\ Document' = Document /\ Box' = Box
         /\ Shaped(steps)' <=> Shaped(n)
         /\ Quiet(steps)' <=> Quiet(n)
         /\ Starts(steps)' = Starts(n)
         /\ RunVerdict(steps)' = RunVerdict(n)
         /\ Boxed(steps, boxes, told)' <=> Boxed(n, boxes', told')
<1>1. Names' = Names /\ Document' = Document /\ Box' = Box
  BY DEF Names, Document, Box
<1>2. Shaped(steps)' <=> Shaped(n)
  BY <1>1 DEF Shaped
<1>3. \A u : Waits(steps, u)' <=> Waits(n, u)
  BY DEF Waits, EdgeWaiting, EdgeProduced
<1>4. \A u : CalledOff(steps, u)' = CalledOff(n, u)
  BY DEF CalledOff, TaskOver
<1>6. \A u : Startable(steps, u)' = Startable(n, u)
  BY DEF Startable, SlotsFree, InFlight
<1>7. \A u : Builds(u)' <=> Builds(u)
  BY DEF Builds
<1>8. Quiet(steps)' <=> Quiet(n)
  BY <1>1, <1>3, <1>4, <1>6, <1>7 DEF Quiet
<1>9. Starts(steps)' = Starts(n)
  BY <1>1, <1>6 DEF Starts
<1>10. RunVerdict(steps)' = RunVerdict(n)
  BY <1>1 DEF RunVerdict
<1>11. Boxed(steps, boxes, told)' <=> Boxed(n, boxes', told')
  BY <1>1 DEF Boxed
<1> QED BY <1>1, <1>2, <1>8, <1>9, <1>10, <1>11

\* What the invariant says of types.
LEMMA RunTyped == RunInv => flow \in Flows /\ clock \in Nat /\ steps \in Document
BY DEF RunInv

\* A pass, over a document whose containers are those of its shards.
LEMMA PassKeeps ==
  ASSUME flow \in Flows, clock \in Nat, NEW st \in Document, Shaped(st),
         NEW bs \in SUBSET Box, Boxed(st, bs, told), Pass(st),
         flow' = flow, clock' = clock, boxes' = bs
  PROVE  RunInv'
<1>1. PICK r : /\ r = Rounds(st) /\ r.done /\ ~r.stuck
               /\ steps' = r.st /\ told' = told \cup r.stops
               /\ run' = RunVerdict(r.st) /\ plan' = Starts(r.st)
  BY DEF Pass
<1>2. PICK d, P : d = r.st /\ P = r.stops
  OBVIOUS
<1>3. d \in Document /\ Shaped(d) /\ Kept(st, d, P) /\ Quiet(d)
  BY <1>1, <1>2, RoundsFacts
<1>4. Boxed(d, bs, told \cup P)
  BY <1>3, KeptBoxed
<1>5. d = steps' /\ told' = told \cup P /\ run' = RunVerdict(d) /\ plan' = Starts(d)
  BY <1>1, <1>2
<1>6. /\ Document' = Document /\ Box' = Box
      /\ Shaped(steps)' <=> Shaped(d)
      /\ Quiet(steps)' <=> Quiet(d)
      /\ Starts(steps)' = Starts(d)
      /\ RunVerdict(steps)' = RunVerdict(d)
      /\ Boxed(steps, boxes, told)' <=> Boxed(d, boxes', told')
  BY <1>5, NextDocument
<1>7. run' \in {"running", "failed", "succeeded"}
  BY <1>5 DEF RunVerdict
<1>8. Boxed(steps, boxes, told)'
  BY <1>4, <1>5, <1>6
<1>9. run' \in RunTerminal => \A b \in boxes' : TaskOf(b.step, b.shard, b.attempt) \in told'
  <2> SUFFICES ASSUME run' \in RunTerminal, NEW b \in bs
               PROVE  TaskOf(b.step, b.shard, b.attempt) \in told \cup P
    BY <1>5
  <2>1. RunVerdict(d) # "running"
    BY <1>5 DEF RunTerminal
  <2> QED BY <1>3, <1>4, <2>1, OverTold
<1>10. run' # "running" => plan' = {}
  BY <1>5, OverStarts
<1>11. run' = "running" =>
         Quiet(steps)' /\ plan' = Starts(steps)' /\ RunVerdict(steps)' = "running"
  BY <1>3, <1>5, <1>6
<1>12. /\ flow' \in Flows /\ clock' \in Nat /\ boxes' \in SUBSET Box'
       /\ run' \in {"queued", "running"} \cup RunTerminal
       /\ steps' \in Document' /\ Shaped(steps)'
  BY <1>3, <1>5, <1>6, <1>7 DEF RunTerminal
<1> QED BY <1>8, <1>9, <1>10, <1>11, <1>12 DEF RunInv, RunTerminal, TaskOf

\* A pass over the document kept.
LEMMA DecideKeeps == ASSUME RunInv, Decide PROVE RunInv'
<1>1. Boxed(steps, boxes, told)
  BY DEF RunInv, Decide
<1>2. PICK st \in Document, bs \in SUBSET Box : st = steps /\ bs = boxes
  BY DEF RunInv
<1>3. flow \in Flows /\ clock \in Nat /\ Shaped(st) /\ Pass(st) /\ Boxed(st, bs, told)
  BY <1>1, <1>2 DEF RunInv, Decide
<1>4. flow' = flow /\ clock' = clock /\ boxes' = bs
  BY <1>2 DEF Decide
<1> QED BY <1>3, <1>4, PassKeeps

\* The answer to a report: its ending is recorded and a pass made, or the run is over.
LEMMA AnswerKeeps == ASSUME RunInv, NEW b \in boxes, Answer(b) PROVE RunInv'
<1>1. PICK st \in Document, bs \in SUBSET Box : st = steps /\ bs = boxes
  BY DEF RunInv
<1>2. /\ flow \in Flows /\ clock \in Nat /\ Shaped(st) /\ b \in bs
      /\ flow' = flow /\ clock' = clock /\ boxes' = bs \ {b}
  BY <1>1 DEF RunInv, Answer
<1>3. CASE run \in RunTerminal
  <2>1. st = steps' /\ told' = told /\ run' = run /\ plan' = plan
    BY <1>1, <1>3 DEF Answer
  <2>2. /\ Document' = Document /\ Box' = Box
        /\ Shaped(steps)' <=> Shaped(st)
    BY <1>2, <2>1, NextDocument
  <2>3. run # "running" /\ run # "queued"
    BY <1>3 DEF RunTerminal
  <2>4. plan' = {} /\ \A c \in boxes' : TaskOf(c.step, c.shard, c.attempt) \in told'
    BY <1>1, <1>2, <1>3, <2>1, <2>3 DEF RunInv
  <2> QED BY <1>1, <1>2, <1>3, <2>1, <2>2, <2>3, <2>4 DEF RunInv, TaskOf
<1>4. CASE run \notin RunTerminal
  <2>1. Boxed(st, bs, told)
    BY <1>1, <1>4 DEF RunInv
  <2>2. PICK e : e = Recorded(st, b)
    OBVIOUS
  <2>3. e \in Document /\ Shaped(e) /\ Boxed(e, bs \ {b}, told)
    BY <1>2, <2>1, <2>2, RecordedFacts
  <2>4. Pass(e)
    BY <1>1, <1>4, <2>2 DEF Answer
  <2>5. bs \ {b} \in SUBSET Box
    OBVIOUS
  <2> QED BY <1>2, <2>3, <2>4, <2>5, PassKeeps
<1> QED BY <1>3, <1>4

\* A task is handed out.
LEMMA HandOutKeeps == ASSUME RunInv, NEW t \in plan, HandOut(t) PROVE RunInv'
<1>1. PICK st \in Document, bs \in SUBSET Box : st = steps /\ bs = boxes
  BY DEF RunInv
<1>2. /\ flow \in Flows /\ clock \in Nat /\ Shaped(st) /\ Quiet(st) /\ RunVerdict(st) = "running"
      /\ Boxed(st, bs, told) /\ plan = Starts(st) /\ run = "running"
  BY <1>1 DEF RunInv, HandOut, RunTerminal
<1>3. PICK s \in Names : \E j \in Startable(st, s) : t = TaskOf(s, j, st[s].shards[j].attempt)
  BY <1>2, InStarts
<1>4. PICK i \in Startable(st, s) : t = TaskOf(s, i, st[s].shards[i].attempt)
  BY <1>3
<1>5. PICK a : a = st[s].shards[i].attempt
  OBVIOUS
<1>6. t[1] = s /\ t[2] = i /\ t[3] = a
  BY <1>4, <1>5 DEF TaskOf
<1>7. PICK e, b : e = Handed(st, s, i) /\ b = BoxOf(st, s, i)
  OBVIOUS
<1>8. /\ e \in Document /\ Shaped(e) /\ Quiet(e)
      /\ Starts(e) = Starts(st) \ {TaskOf(s, i, st[s].shards[i].attempt)}
      /\ RunVerdict(e) = RunVerdict(st)
      /\ b \in Box /\ Boxed(e, bs \cup {b}, told)
  BY <1>2, <1>7, HandOutFacts
<1>9. /\ e = steps' /\ boxes' = bs \cup {b} /\ plan' = plan \ {t}
      /\ flow' = flow /\ run' = run /\ told' = told /\ clock' = clock
  BY <1>1, <1>5, <1>6, <1>7 DEF HandOut, Handed, BoxOf
<1>10. /\ Document' = Document /\ Box' = Box
       /\ Shaped(steps)' <=> Shaped(e)
       /\ Quiet(steps)' <=> Quiet(e)
       /\ Starts(steps)' = Starts(e)
       /\ RunVerdict(steps)' = RunVerdict(e)
       /\ Boxed(steps, boxes, told)' <=> Boxed(e, boxes', told')
  BY <1>9, NextDocument
<1>11. Boxed(steps, boxes, told)' /\ plan' = Starts(steps)'
  BY <1>2, <1>4, <1>8, <1>9, <1>10
<1>12. boxes' \in SUBSET Box' /\ steps' \in Document'
  BY <1>8, <1>9, <1>10
<1> QED BY <1>2, <1>8, <1>9, <1>10, <1>11, <1>12 DEF RunInv, RunTerminal

\* A container ends, and is still the one of its shard.
LEMMA ContainerEndsKeeps ==
  ASSUME RunInv, NEW b \in boxes, NEW n \in Counts \cup {-1}, ContainerEnds(b, n) PROVE RunInv'
<1>1. PICK st \in Document, bs \in SUBSET Box, o \in Box : st = steps /\ bs = boxes /\ o = b
  BY DEF RunInv
<1>2. PICK out : out = IF n < 0 THEN None ELSE [n |-> n, at |-> clock]
  OBVIOUS
<1>3. clock \in Nat /\ n \in Int
  BY GraphAssumption DEF RunInv
<1>4. out \in Out
  <2>1. CASE n < 0
    BY <1>2, <2>1 DEF Out
  <2>2. CASE ~(n < 0)
    BY <1>2, <1>3, <2>2 DEF Out, Outs
  <2> QED BY <2>1, <2>2
<1>5. PICK c : c = [o EXCEPT !.over = TRUE, !.out = out]
  OBVIOUS
<1>6. c \in Box /\ c.step = o.step /\ c.shard = o.shard /\ c.attempt = o.attempt
  BY <1>4, <1>5 DEF Box
<1>7. /\ st = steps' /\ boxes' = (bs \ {o}) \cup {c}
      /\ flow' = flow /\ run' = run /\ plan' = plan /\ told' = told /\ clock' = clock + 1
  BY <1>1, <1>2, <1>5 DEF ContainerEnds
<1>8. /\ Document' = Document /\ Box' = Box
      /\ Shaped(steps)' <=> Shaped(st)
      /\ Quiet(steps)' <=> Quiet(st)
      /\ Starts(steps)' = Starts(st)
      /\ RunVerdict(steps)' = RunVerdict(st)
      /\ Boxed(steps, boxes, told)' <=> Boxed(st, boxes', told')
  BY <1>7, NextDocument
<1>9. \A d \in (bs \ {o}) \cup {c} :
        \E x \in bs : d.step = x.step /\ d.shard = x.shard /\ d.attempt = x.attempt
                      /\ (d = c => x = o) /\ (d # c => x = d)
  BY <1>1, <1>6
<1>10. Boxed(st, bs, told) => Boxed(st, boxes', told')
  <2> SUFFICES ASSUME Boxed(st, bs, told) PROVE Boxed(st, (bs \ {o}) \cup {c}, told)
    BY <1>7
  <2>1. ASSUME NEW d \in (bs \ {o}) \cup {c}
        PROVE  /\ d.shard \in DOMAIN st[d.step].shards
               /\ st[d.step].shards[d.shard].attempt = d.attempt
               /\ \/ st[d.step].shards[d.shard].task = "dispatched"
                  \/ /\ st[d.step].shards[d.shard].task = "cancelled"
                     /\ TaskOf(d.step, d.shard, d.attempt) \in told
    <3>1. PICK x \in bs : d.step = x.step /\ d.shard = x.shard /\ d.attempt = x.attempt
      BY <1>9
    <3>2. /\ x.shard \in DOMAIN st[x.step].shards
          /\ st[x.step].shards[x.shard].attempt = x.attempt
          /\ \/ st[x.step].shards[x.shard].task = "dispatched"
             \/ /\ st[x.step].shards[x.shard].task = "cancelled"
                /\ TaskOf(x.step, x.shard, x.attempt) \in told
      BY DEF Boxed
    <3> QED BY <3>1, <3>2
  <2>2. ASSUME NEW d \in (bs \ {o}) \cup {c}, NEW e \in (bs \ {o}) \cup {c},
               d.step = e.step, d.shard = e.shard
        PROVE  d = e
    <3>1. PICK x \in bs : /\ d.step = x.step /\ d.shard = x.shard
                          /\ (d = c => x = o) /\ (d # c => x = d)
      BY <1>1, <1>6
    <3>2. PICK y \in bs : /\ e.step = y.step /\ e.shard = y.shard
                          /\ (e = c => y = o) /\ (e # c => y = e)
      BY <1>1, <1>6
    <3>3. x = y
      <4>1. \A v, w \in bs : v.step = w.step /\ v.shard = w.shard => v = w
        BY DEF Boxed
      <4> QED BY <2>2, <3>1, <3>2, <4>1
    <3>4. (d = c => x = o) /\ (d # c => x = d) /\ (e = c => y = o) /\ (e # c => y = e)
      BY <3>1, <3>2
    <3>5. (d # c => d # o) /\ (e # c => e # o)
      OBVIOUS
    <3> QED BY <3>3, <3>4, <3>5
  <2>3. ASSUME NEW u \in Names, NEW i \in DOMAIN st[u].shards, HoldsARunner(st[u].shards[i])
        PROVE  \E d \in (bs \ {o}) \cup {c} : d.step = u /\ d.shard = i
    <3>1. PICK x \in bs : x.step = u /\ x.shard = i
      BY <2>3 DEF Boxed
    <3> QED BY <1>6, <3>1
  <2> QED BY <2>1, <2>2, <2>3 DEF Boxed
<1>11. run' \in RunTerminal => \A d \in boxes' : TaskOf(d.step, d.shard, d.attempt) \in told'
  <2> SUFFICES ASSUME run \in RunTerminal, NEW d \in (bs \ {o}) \cup {c}
               PROVE  TaskOf(d.step, d.shard, d.attempt) \in told
    BY <1>7
  <2>1. PICK x \in bs : d.step = x.step /\ d.shard = x.shard /\ d.attempt = x.attempt
    BY <1>9
  <2>2. TaskOf(x.step, x.shard, x.attempt) \in told
    BY <1>1 DEF RunInv
  <2> QED BY <2>1, <2>2
<1>12. boxes' \in SUBSET Box' /\ clock' \in Nat
  BY <1>3, <1>6, <1>7, <1>8
<1>13. /\ flow \in Flows /\ run \in {"queued", "running"} \cup RunTerminal
       /\ st \in Document /\ Shaped(st)
       /\ run \notin RunTerminal => Boxed(st, bs, told)
       /\ run = "running" => Quiet(st) /\ plan = Starts(st) /\ RunVerdict(st) = "running"
       /\ run # "running" => plan = {}
  BY <1>1 DEF RunInv
<1> QED BY <1>7, <1>8, <1>10, <1>11, <1>12, <1>13 DEF RunInv, RunTerminal

\* A cut names every container whose shard is out.
LEMMA CutKeeps == ASSUME RunInv, NEW state \in {"cancelled", "timed_out"}, Cut(state) PROVE RunInv'
<1>1. PICK st \in Document, bs \in SUBSET Box : st = steps /\ bs = boxes
  BY DEF RunInv
<1>2. /\ flow \in Flows /\ clock \in Nat /\ Shaped(st) /\ Boxed(st, bs, told)
      /\ flow' = flow /\ boxes' = bs /\ clock' = clock /\ plan' = {}
      /\ run' = state /\ told' = told \cup StopEverything(st)
  BY <1>1 DEF RunInv, Cut
<1>3. PICK d : d = EndSteps(st)
  OBVIOUS
<1>4. ASSUME NEW s \in Names
      PROVE  /\ d[s] \in StepType /\ d[s].port = st[s].port /\ d[s].shards = st[s].shards
             /\ d[s].verdict = st[s].verdict \/ d[s].verdict = "cancelled"
  <2>1. PICK ss \in StepType : ss = st[s]
    BY DEF Document
  <2>2. d[s] = IF ss.verdict = "running" THEN [ss EXCEPT !.verdict = "cancelled"] ELSE ss
    BY <1>3, <2>1 DEF EndSteps
  <2>3. PICK c : c = [ss EXCEPT !.verdict = "cancelled"]
    OBVIOUS
  <2>4. c \in StepType /\ c.port = ss.port /\ c.shards = ss.shards /\ c.verdict = "cancelled"
    BY <2>3 DEF StepType, Terminal
  <2> QED BY <2>1, <2>2, <2>3, <2>4
<1>5. d \in Document /\ Shaped(d)
  <2>1. d \in Document
    BY <1>3, <1>4 DEF EndSteps, Document
  <2>2. Shaped(d)
    BY <1>2, <1>4 DEF Shaped
  <2> QED BY <2>1, <2>2
<1>6. d = steps'
  BY <1>1, <1>3 DEF Cut
<1>7. /\ Document' = Document /\ Box' = Box
      /\ Shaped(steps)' <=> Shaped(d)
  BY <1>2, <1>6, NextDocument
<1>8. ASSUME NEW b \in bs PROVE TaskOf(b.step, b.shard, b.attempt) \in told'
  <2>1. PICK s \in Names, i \in Nat, a \in Nat : s = b.step /\ i = b.shard /\ a = b.attempt
    BY DEF Box
  <2>2. /\ i \in DOMAIN st[s].shards /\ st[s].shards[i].attempt = a
        /\ \/ st[s].shards[i].task = "dispatched"
           \/ TaskOf(s, i, a) \in told
    BY <1>2, <2>1 DEF Boxed
  <2>3. st[s].shards[i].task = "dispatched" => TaskOf(s, i, a) \in StopEverything(st)
    BY <2>2 DEF StopEverything, HoldsARunner
  <2> QED BY <1>2, <2>1, <2>2, <2>3
<1>9. run' \in RunTerminal /\ run' # "running"
  BY <1>2 DEF RunTerminal
<1>10. \A b \in boxes' : TaskOf(b.step, b.shard, b.attempt)' \in told'
  BY <1>2, <1>8 DEF TaskOf
<1> QED BY <1>1, <1>2, <1>5, <1>6, <1>7, <1>9, <1>10 DEF RunInv

\* A run that starts has no containers and no shards.
LEMMA RunInvInit == Init => RunInv
<1> SUFFICES ASSUME Init PROVE RunInv
  OBVIOUS
<1>1. \A s \in Names : steps[s] = [verdict |-> "pending", shards |-> <<>>, port |-> None]
  BY DEF Init, NewStep
<1>2. [verdict |-> "pending", shards |-> <<>>, port |-> None] \in StepType
  BY DEF StepType, Out
<1>3. steps \in Document
  BY <1>2 DEF Init, NewStep, Document
<1>4. Shaped(steps)
  BY <1>1 DEF Shaped
<1>5. Boxed(steps, boxes, told)
  BY <1>1 DEF Init, Boxed
<1> QED BY <1>3, <1>4, <1>5 DEF Init, RunInv, RunTerminal

\* Nothing happens.
LEMMA RunInvStill == RunInv /\ UNCHANGED vars => RunInv'
<1> SUFFICES ASSUME RunInv, UNCHANGED vars PROVE RunInv'
  OBVIOUS
<1>1. PICK st \in Document : st = steps
  BY DEF RunInv
<1>2. /\ st = steps' /\ flow' = flow /\ clock' = clock /\ boxes' = boxes /\ run' = run
      /\ plan' = plan /\ told' = told
  BY <1>1 DEF vars
<1>3. /\ Document' = Document /\ Box' = Box
      /\ Shaped(steps)' <=> Shaped(st)
      /\ Quiet(steps)' <=> Quiet(st)
      /\ Starts(steps)' = Starts(st)
      /\ RunVerdict(steps)' = RunVerdict(st)
      /\ Boxed(steps, boxes, told)' <=> Boxed(st, boxes', told')
  BY <1>2, NextDocument
<1>4. /\ flow \in Flows /\ clock \in Nat /\ boxes \in SUBSET Box
      /\ run \in {"queued", "running"} \cup RunTerminal
      /\ Shaped(st)
      /\ run \notin RunTerminal => Boxed(st, boxes, told)
      /\ run \in RunTerminal => \A b \in boxes : TaskOf(b.step, b.shard, b.attempt) \in told
      /\ run = "running" =>
           Quiet(st) /\ plan = Starts(st) /\ RunVerdict(st) = "running"
      /\ run # "running" => plan = {}
  BY <1>1 DEF RunInv
<1> QED BY <1>1, <1>2, <1>3, <1>4 DEF RunInv, TaskOf

\* Every step keeps the invariant.
LEMMA RunInvNext == RunInv /\ Next => RunInv'
<1> SUFFICES ASSUME RunInv, Next PROVE RunInv'
  OBVIOUS
<1>1. CASE Decide
  BY <1>1, DecideKeeps
<1>2. CASE \E t \in plan : HandOut(t)
  BY <1>2, HandOutKeeps
<1>3. CASE \E b \in boxes : \E n \in Counts \cup {-1} : ContainerEnds(b, n)
  BY <1>3, ContainerEndsKeeps
<1>4. CASE \E b \in boxes : Answer(b)
  BY <1>4, AnswerKeeps
<1>5. CASE Cancel
  BY <1>5, CutKeeps DEF Cancel
<1>6. CASE Deadline
  BY <1>6, CutKeeps DEF Deadline
<1> QED BY <1>1, <1>2, <1>3, <1>4, <1>5, <1>6 DEF Next

\* The document, its plan and its containers stand to each other as RunInv says.
THEOREM RunInvHolds == Spec => []RunInv
<1>1. RunInv /\ [Next]_vars => RunInv'
  BY RunInvNext, RunInvStill
<1> QED BY RunInvInit, <1>1, PTL DEF Spec

-----------------------------------------------------------------------------
(* What follows.                                                           *)

\* A container nobody waits for any more was named in a stop.
THEOREM UnwantedAreToldHolds == Spec => []UnwantedAreTold
<1>1. RunInv => UnwantedAreTold
  <2> SUFFICES ASSUME RunInv, NEW b \in boxes,
                      run \in RunTerminal \/ TaskOver(steps[b.step].shards[b.shard])
               PROVE  TaskOf(b.step, b.shard, b.attempt) \in told
    BY DEF UnwantedAreTold
  <2>1. CASE run \in RunTerminal
    BY <2>1 DEF RunInv
  <2>2. CASE run \notin RunTerminal
    <3>1. Boxed(steps, boxes, told)
      BY <2>2 DEF RunInv
    <3> QED BY <2>2, <3>1 DEF Boxed, TaskOver
  <2> QED BY <2>1, <2>2
<1> QED BY <1>1, RunInvHolds, PTL

\* Asking again changes nothing.
THEOREM NextChangesNothingHolds == Spec => []NextChangesNothing
<1>1. RunInv => NextChangesNothing
  <2> SUFFICES ASSUME RunInv, run = "running" PROVE NextChangesNothing
    BY DEF NextChangesNothing
  <2>1. PICK st \in Document : st = steps
    BY DEF RunInv
  <2>2. /\ flow \in Flows /\ clock \in Nat /\ Shaped(st) /\ Quiet(st) /\ plan = Starts(st)
    BY <2>1 DEF RunInv
  <2>3. PICK r : r = Rounds(st)
    OBVIOUS
  <2>4. r.done /\ (~r.stuck => r.st = st /\ r.stops = {})
    BY <2>2, <2>3, RoundsStill
  <2> QED BY <2>1, <2>2, <2>3, <2>4 DEF NextChangesNothing
<1> QED BY <1>1, RunInvHolds, PTL

\* Where a step has shards to wait for and none is out, one of them may start.
LEMMA SomeStartable ==
  ASSUME flow \in Flows, NEW st \in Document, NEW s \in Names, st[s].verdict = "running",
         SomeGoing(st[s].shards), \A i \in DOMAIN st[s].shards : ~HoldsARunner(st[s].shards[i])
  PROVE  Startable(st, s) # {}
<1>1. PICK sh \in Seq(ShardType) : sh = st[s].shards
  BY DEF Document, StepType
<1>2. PICK due \in SUBSET Nat : due = {i \in DOMAIN sh : sh[i].task = "pending"}
  <2>1. \A i \in DOMAIN sh : i \in Nat
    OBVIOUS
  <2>2. PICK D : D = {i \in DOMAIN sh : sh[i].task = "pending"}
    OBVIOUS
  <2>3. D \in SUBSET Nat
    BY <2>1, <2>2
  <2> QED BY <2>2, <2>3
<1>3. due # {}
  BY <1>1, <1>2 DEF SomeGoing, Going, HoldsARunner
<1>4. PICK i \in due : \A j \in due : i <= j
  BY <1>3, Least
<1>5. {j \in due : j < i} = {}
  <2>1. \A j \in due : i <= j /\ i \in Nat /\ j \in Nat
    BY <1>4
  <2>2. \A j \in due : ~(j < i)
    BY <2>1
  <2> QED BY <2>2
<1>6. Cardinality({j \in due : j < i}) = 0
  BY <1>5, FS_EmptySet
<1>7. SlotsFree(s, st[s]) \in Nat \ {0}
  <2>1. PICK p \in Nat : p = flow.parallel[s]
    BY StepFacts
  <2>2. CASE p = 0
    BY <1>1, <1>2, <1>3, <2>1, <2>2 DEF SlotsFree
  <2>3. CASE p # 0
    <3>1. {j \in DOMAIN st[s].shards : HoldsARunner(st[s].shards[j])} = {}
      OBVIOUS
    <3>2. InFlight(st[s]) = 0
      BY <3>1, FS_EmptySet DEF InFlight
    <3>3. SlotsFree(s, st[s]) = Max({p - 0, 0})
      BY <2>1, <2>3, <3>2 DEF SlotsFree
    <3> QED BY <2>3, <3>3, MaxZero
  <2> QED BY <2>2, <2>3
<1>8. i \in Startable(st, s)
  <2>1. PICK free \in Nat \ {0} : free = SlotsFree(s, st[s])
    BY <1>7
  <2>2. Startable(st, s) = {j \in due : Cardinality({k \in due : k < j}) < free}
    BY <1>1, <1>2, <2>1 DEF Startable
  <2> QED BY <1>6, <2>1, <2>2
<1> QED BY <1>8

\* A run under way has a task to hand out or a container to hear from.
THEOREM NothingLeftBehindHolds == Spec => []NothingLeftBehind
<1>1. RunInv => NothingLeftBehind
  <2> SUFFICES ASSUME RunInv, run = "running", plan = {}
               PROVE  \E b \in boxes : LET sh == steps[b.step].shards[b.shard] IN
                                         HoldsARunner(sh) /\ sh.attempt = b.attempt
    BY DEF NothingLeftBehind
  <2>1. PICK st \in Document : st = steps
    BY DEF RunInv
  <2>2. /\ flow \in Flows /\ Quiet(st) /\ Starts(st) = {} /\ RunVerdict(st) = "running"
        /\ Boxed(st, boxes, told)
    BY <2>1 DEF RunInv, RunTerminal
  <2>3. PICK L \in Nat : L = Len(flow.order)
    BY <2>2, OrderFacts
  <2>4. PICK T \in SUBSET Nat : T = {k \in 1..L : st[flow.order[k]].verdict \notin Terminal}
    <3>1. PICK D : D = {k \in 1..L : st[flow.order[k]].verdict \notin Terminal}
      OBVIOUS
    <3>2. D \in SUBSET Nat
      BY <3>1
    <3> QED BY <3>1, <3>2
  <2>5. T # {}
    <3>1. PICK s \in Names : st[s].verdict \notin Terminal
      BY <2>2 DEF RunVerdict
    <3>2. PICK k \in 1..L : s = flow.order[k]
      BY <2>2, <2>3, OrderFacts
    <3> QED BY <2>4, <3>1, <3>2
  <2>6. PICK k \in T : \A j \in T : k <= j
    BY <2>5, Least
  <2>7. PICK s \in Names : s = flow.order[k] /\ k \in 1..L /\ st[s].verdict \notin Terminal
    BY <2>2, <2>3, <2>4, OrderFacts
  <2>8. st[s].verdict # "pending"
    <3> SUFFICES ASSUME st[s].verdict = "pending" PROVE FALSE
      OBVIOUS
    <3>1. PICK i \in DOMAIN flow.needs[s] : EdgeWaiting(st, flow.needs[s][i])
      BY <2>2 DEF Quiet, Waits
    <3>2. PICK j \in 1..(k - 1) : flow.needs[s][i] = flow.order[j]
      <4>1. \A e \in DOMAIN flow.needs[flow.order[k]] :
              \E j \in 1..(k - 1) : flow.needs[flow.order[k]][e] = flow.order[j]
        BY <2>2, <2>3, <2>7, OrderFacts
      <4> QED BY <2>7, <4>1
    <3>3. j \in T
      BY <2>3, <2>4, <2>7, <3>1, <3>2 DEF EdgeWaiting
    <3> QED BY <2>6, <3>2, <3>3
  <2>9. st[s].verdict = "running"
    <3>1. st[s].verdict \in {"pending", "running"} \cup Terminal
      BY DEF Document, StepType
    <3> QED BY <2>7, <2>8, <3>1
  <2>10. SomeGoing(st[s].shards)
    BY <2>2, <2>9 DEF Quiet, SomeGoing
  <2>11. Startable(st, s) = {}
    BY <2>2, InStarts
  <2>12. PICK i \in DOMAIN st[s].shards : HoldsARunner(st[s].shards[i])
    BY <2>2, <2>9, <2>10, <2>11, SomeStartable
  <2>13. PICK b \in boxes : b.step = s /\ b.shard = i
    BY <2>2, <2>12 DEF Boxed
  <2>14. st[b.step].shards[b.shard].attempt = b.attempt
    BY <2>2 DEF Boxed
  <2> QED BY <2>1, <2>12, <2>13, <2>14
<1> QED BY <1>1, RunInvHolds, PTL

-----------------------------------------------------------------------------
(* Where no step takes the first of several, what it reads stays.          *)

\* The hypothesis, of a step.
LEMMA NoneFirst ==
  ASSUME NoFirst, NEW s \in Names
  PROVE  flow.merge[s] # "first"
BY DEF NoFirst

\* What a step reads hangs on its needs alone, once each of them has a port.
LEMMA ReadSame ==
  ASSUME flow \in Flows, NEW s \in Names, flow.merge[s] # "first", NEW st, NEW e,
         \A i \in DOMAIN flow.needs[s] :
           /\ e[flow.needs[s][i]].verdict = st[flow.needs[s][i]].verdict
           /\ e[flow.needs[s][i]].port = st[flow.needs[s][i]].port
           /\ st[flow.needs[s][i]].port # None
  PROVE  Read(e, s) = Read(st, s)
<1>1. PICK edges \in Seq(Names) : edges = flow.needs[s]
  BY NeedsFacts
<1>2. \A i \in DOMAIN edges : /\ EdgeWaiting(e, edges[i]) <=> EdgeWaiting(st, edges[i])
                              /\ Held(e, edges[i]) = Held(st, edges[i])
  BY <1>1 DEF EdgeWaiting, Held
<1>3. PICK yes \in BOOLEAN : yes = \A i \in DOMAIN edges : ~EdgeWaiting(st, edges[i])
  OBVIOUS
<1>4. PICK p : p = [ready |-> yes, from |-> edges, dropped |-> {}]
  OBVIOUS
<1>5. SatisfyPort(st, s) = p
  BY <1>1, <1>3, <1>4 DEF SatisfyPort
<1>6. SatisfyPort(e, s) = p
  <2>1. yes = \A i \in DOMAIN edges : ~EdgeWaiting(e, edges[i])
    BY <1>2, <1>3
  <2> QED BY <1>1, <1>4, <2>1 DEF SatisfyPort
<1>7. p.from = edges
  BY <1>4
<1>8. [i \in DOMAIN p.from |-> Held(e, p.from[i])] = [i \in DOMAIN p.from |-> Held(st, p.from[i])]
  BY <1>2, <1>7
<1>9. PICK in : in = IF ~p.ready THEN None
                     ELSE Arrival(s, [i \in DOMAIN p.from |-> Held(st, p.from[i])] \o Fed(s))
  OBVIOUS
<1>10. Barrier(st, s, p) = Gate(st, s, p, in) /\ Barrier(e, s, p) = Gate(e, s, p, in)
  BY <1>8, <1>9 DEF Barrier
<1>11. Gate(e, s, p, in) = Gate(st, s, p, in)
  <2>1. (\E i \in DOMAIN p.from : ~Admits(flow.when[s], st[p.from[i]].verdict))
          <=> \E i \in DOMAIN p.from : ~Admits(flow.when[s], e[p.from[i]].verdict)
    BY <1>1, <1>7
  <2> QED BY <2>1 DEF Gate
<1> QED BY <1>5, <1>6, <1>10, <1>11 DEF Read

\* A step that is over, and was not called off, has a port.
LEMMA OverHasPort ==
  ASSUME NEW st, Shaped(st), NEW u \in Names, ~EdgeWaiting(st, u), st[u].verdict # "cancelled"
  PROVE  st[u].port # None
BY DEF Shaped, EdgeWaiting, Terminal

\* Sequences over the same numbers are as long as each other.
LEMMA SameLength ==
  ASSUME NEW S, NEW a \in Seq(S), NEW b \in Seq(S), DOMAIN a = DOMAIN b
  PROVE  Len(a) = Len(b)
<1>1. PICK m \in Nat, n \in Nat : m = Len(a) /\ n = Len(b)
  OBVIOUS
<1>2. DOMAIN a = 1..m /\ DOMAIN b = 1..n
  <2>1. DOMAIN a = 1..Len(a) /\ DOMAIN b = 1..Len(b)
    OBVIOUS
  <2> QED BY <1>1, <2>1
<1>3. 1..m = 1..n
  BY <1>2
<1>4. m = n
  <2>1. m # 0 => m \in 1..n
    BY <1>3
  <2>2. n # 0 => n \in 1..m
    BY <1>3
  <2> QED BY <2>1, <2>2
<1> QED BY <1>1, <1>4

\* What makes a divided document of a divided one: what is over stays, nothing is
\* called off but by a failure, and what runs was running or has just begun.
Divides(st, e) ==
  \A u \in Names :
    /\ st[u].verdict \in Terminal => e[u].verdict = st[u].verdict /\ e[u].port = st[u].port
    /\ e[u].verdict # "cancelled"
    /\ \A i \in DOMAIN e[u].shards :
         e[u].shards[i].task = "cancelled" =>
           \E j \in DOMAIN e[u].shards : e[u].shards[j].task = "failed"
    /\ e[u].verdict = "running" =>
         \/ st[u].verdict = "running" /\ DOMAIN e[u].shards = DOMAIN st[u].shards
         \/ Starting(st, e, u)

\* What a step under way was divided by stands in such a document.
LEMMA DividesFacts ==
  ASSUME flow \in Flows, NoFirst, NEW st \in Document, Shaped(st), Divided(st),
         NEW e \in Document, Divides(st, e)
  PROVE  Divided(e)
<1> SUFFICES ASSUME NEW s \in Names, e[s].verdict = "running"
             PROVE  /\ \A i \in DOMAIN flow.needs[s] : ~EdgeWaiting(e, flow.needs[s][i])
                    /\ Stands(e, s)
  BY DEF Divided, Divides
<1>1. flow.merge[s] # "first"
  BY NoneFirst
<1>2. \A i \in DOMAIN flow.needs[s] : flow.needs[s][i] \in Names
  BY NeedsFacts
<1>3. PICK L \in Nat : L = Len(e[s].shards)
  BY DEF Document, StepType
<1>4. /\ \A i \in DOMAIN flow.needs[s] : ~EdgeWaiting(st, flow.needs[s][i])
      /\ Read(st, s).gate = "start" /\ FanOut(s, Read(st, s).in) = L
  <2>1. CASE st[s].verdict = "running" /\ DOMAIN e[s].shards = DOMAIN st[s].shards
    <3>1. Len(e[s].shards) = Len(st[s].shards)
      <4>1. e[s].shards \in Seq(ShardType) /\ st[s].shards \in Seq(ShardType)
        BY DEF Document, StepType
      <4> QED BY <2>1, <4>1, SameLength
    <3>2. Stands(st, s) /\ \A i \in DOMAIN flow.needs[s] : ~EdgeWaiting(st, flow.needs[s][i])
      BY <2>1 DEF Divided
    <3> QED BY <1>3, <3>1, <3>2 DEF Stands
  <2>2. CASE Starting(st, e, s)
    <3>1. PICK w \in Nat \ {0} :
            /\ w = FanOut(s, Read(st, s).in)
            /\ e[s] = [verdict |-> "running", shards |-> [i \in 1..w |-> NewShard], port |-> None]
      BY <2>2 DEF Starting
    <3>2. Len([i \in 1..w |-> NewShard]) = w
      OBVIOUS
    <3>3. L = w
      BY <1>3, <3>1, <3>2
    <3>4. Read(st, s).gate = "start" /\ ~Waits(st, s)
      BY <2>2 DEF Starting
    <3> QED BY <1>1, <3>1, <3>3, <3>4 DEF Waits
  <2> QED BY <2>1, <2>2 DEF Divides
<1>5. ASSUME NEW i \in DOMAIN flow.needs[s], NEW u, u = flow.needs[s][i]
      PROVE  e[u].verdict = st[u].verdict /\ e[u].port = st[u].port /\ st[u].port # None
  <2>1. u \in Names /\ ~EdgeWaiting(st, u)
    BY <1>2, <1>4, <1>5
  <2>2. st[u].verdict \in Terminal /\ st[u].verdict # "cancelled"
    BY <2>1 DEF EdgeWaiting, Divided
  <2>3. st[u].port # None
    BY <2>1, <2>2, OverHasPort
  <2> QED BY <2>1, <2>2, <2>3 DEF Divides
<1>6. \A i \in DOMAIN flow.needs[s] :
        /\ e[flow.needs[s][i]].verdict = st[flow.needs[s][i]].verdict
        /\ e[flow.needs[s][i]].port = st[flow.needs[s][i]].port
        /\ st[flow.needs[s][i]].port # None
  BY <1>5
<1>7. Read(e, s) = Read(st, s)
  BY <1>1, <1>6, ReadSame
<1>8. Stands(e, s)
  BY <1>3, <1>4, <1>7 DEF Stands
<1>9. \A i \in DOMAIN flow.needs[s] : ~EdgeWaiting(e, flow.needs[s][i])
  BY <1>4, <1>6 DEF EdgeWaiting
<1> QED BY <1>8, <1>9

\* A step that advances leaves the others what they read.
LEMMA AdvanceDivided ==
  ASSUME flow \in Flows, clock \in Nat, NoFirst, NEW st \in Document, Shaped(st), Divided(st),
         NEW s \in Names, NEW e \in Document, Advances(st, e, s)
  PROVE  Divided(e)
<1>1. CASE e = st
  BY <1>1
<1>2. CASE (Passes(st, e, s) \/ Starting(st, e, s) \/ Settles(st, e, s))
           /\ \A u \in Names \ {s} : e[u] = st[u]
  <2>1. st[s].verdict \notin Terminal
    BY <1>2 DEF Passes, Starting, Settles, Terminal
  <2>2. ASSUME NEW u \in Names, u # s
        PROVE  /\ e[u] = st[u] /\ e[u].verdict # "cancelled"
               /\ \A i \in DOMAIN e[u].shards :
                    e[u].shards[i].task = "cancelled" =>
                      \E j \in DOMAIN e[u].shards : e[u].shards[j].task = "failed"
    BY <1>2, <2>2 DEF Divided
  <2>3. /\ e[s].verdict # "cancelled"
        /\ \A i \in DOMAIN e[s].shards :
             e[s].shards[i].task = "cancelled" =>
               \E j \in DOMAIN e[s].shards : e[s].shards[j].task = "failed"
        /\ e[s].verdict = "running" => Starting(st, e, s)
    <3>1. CASE Passes(st, e, s)
      <4>1. PICK v \in {"skipped", "failed", "succeeded"} :
              e[s] = [verdict |-> v, shards |-> <<>>, port |-> [n |-> 0, at |-> clock]]
        BY <3>1 DEF Passes
      <4> QED BY <4>1
    <3>2. CASE Starting(st, e, s)
      <4>1. PICK w \in Nat \ {0} :
              e[s] = [verdict |-> "running", shards |-> [i \in 1..w |-> NewShard], port |-> None]
        BY <3>2 DEF Starting
      <4>2. \A i \in 1..w : e[s].shards[i].task = "pending"
        BY <4>1 DEF NewShard
      <4>3. e[s].verdict = "running" /\ DOMAIN e[s].shards = 1..w
        BY <4>1
      <4> QED BY <3>2, <4>2, <4>3
    <3>3. CASE Settles(st, e, s)
      <4>1. PICK sh \in Seq(ShardType) : sh = st[s].shards
        BY DEF Document, StepType
      <4>2. PICK v \in {"failed", "cancelled", "succeeded"} :
              v = StepVerdict(sh) /\ e[s].verdict = v /\ e[s].shards = sh
        BY <3>3, <4>1 DEF Settles
      <4>3. \A i \in DOMAIN sh : sh[i].task = "cancelled" => \E j \in DOMAIN sh : sh[j].task = "failed"
        BY <4>1 DEF Divided
      <4>4. v # "cancelled"
        <5> SUFFICES ASSUME v = "cancelled" PROVE FALSE
          OBVIOUS
        <5>1. PICK seen : seen = {sh[i].task : i \in DOMAIN sh}
          OBVIOUS
        <5>2. "cancelled" \in seen /\ "failed" \notin seen
          BY <4>2, <5>1 DEF StepVerdict
        <5>3. PICK i \in DOMAIN sh : sh[i].task = "cancelled"
          BY <5>1, <5>2
        <5> QED BY <4>3, <5>1, <5>2, <5>3
      <4> QED BY <4>2, <4>3, <4>4
    <3> QED BY <1>2, <3>1, <3>2, <3>3
  <2>4. Divides(st, e)
    <3> SUFFICES ASSUME NEW u \in Names
                 PROVE  /\ st[u].verdict \in Terminal =>
                             e[u].verdict = st[u].verdict /\ e[u].port = st[u].port
                        /\ e[u].verdict # "cancelled"
                        /\ \A i \in DOMAIN e[u].shards :
                             e[u].shards[i].task = "cancelled" =>
                               \E j \in DOMAIN e[u].shards : e[u].shards[j].task = "failed"
                        /\ e[u].verdict = "running" =>
                             \/ st[u].verdict = "running" /\ DOMAIN e[u].shards = DOMAIN st[u].shards
                             \/ Starting(st, e, u)
      BY DEF Divides
    <3>1. CASE u = s
      BY <2>1, <2>3, <3>1
    <3>2. CASE u # s
      <4>1. e[u] = st[u]
        BY <2>2, <3>2
      <4> QED BY <2>2, <3>2, <4>1
    <3> QED BY <3>1, <3>2
  <2> QED BY <2>4, DividesFacts
<1>3. \A u \in Names : ~CalledOffBy(st, e, s, u)
  BY NoneFirst DEF CalledOffBy
<1> QED BY <1>1, <1>2, <1>3 DEF Advances

\* Divided documents stay divided where no shard is called off but by a failure.
LEMMA SameDivided ==
  ASSUME flow \in Flows, NoFirst, NEW st \in Document, Shaped(st), Divided(st), NEW e \in Document,
         \A u \in Names :
           /\ e[u].verdict = st[u].verdict /\ e[u].port = st[u].port
           /\ DOMAIN e[u].shards = DOMAIN st[u].shards
           /\ \A i \in DOMAIN st[u].shards :
                e[u].shards[i].task = "cancelled" =>
                  \E j \in DOMAIN st[u].shards : e[u].shards[j].task = "failed"
  PROVE  Divided(e)
<1>1. \A u \in Names : st[u].verdict # "cancelled"
  BY DEF Divided
<1>2. Divides(st, e)
  BY <1>1 DEF Divides
<1> QED BY <1>2, DividesFacts

\* Failing the shards that cannot be built leaves the steps divided as they were.
LEMMA UnbuiltDivided ==
  ASSUME flow \in Flows, NoFirst, NEW a \in Document, Shaped(a), Divided(a), NEW d, d = FailUnbuilt(a)
  PROVE  Divided(d)
<1>1. ASSUME NEW s \in Names
      PROVE  /\ d[s].verdict = a[s].verdict /\ d[s].port = a[s].port
             /\ DOMAIN d[s].shards = DOMAIN a[s].shards
             /\ \A i \in DOMAIN a[s].shards :
                  /\ a[s].shards[i].task # "pending" => d[s].shards[i] = a[s].shards[i]
                  /\ a[s].shards[i].task = "pending" => d[s].shards[i].task \in {"pending", "failed"}
  BY UnbuiltShards
<1>2. ASSUME NEW s \in Names, NEW i \in DOMAIN a[s].shards, d[s].shards[i].task = "cancelled"
      PROVE  \E j \in DOMAIN a[s].shards : d[s].shards[j].task = "failed"
  <2>1. a[s].shards[i].task = "cancelled"
    BY <1>1, <1>2
  <2>2. PICK j \in DOMAIN a[s].shards : a[s].shards[j].task = "failed"
    BY <2>1 DEF Divided
  <2>3. d[s].shards[j].task = "failed"
    BY <1>1, <2>2
  <2> QED BY <2>3
<1>3. d \in Document
  BY FailUnbuiltFacts
<1>4. \A u \in Names :
        /\ d[u].verdict = a[u].verdict /\ d[u].port = a[u].port
        /\ DOMAIN d[u].shards = DOMAIN a[u].shards
        /\ \A i \in DOMAIN a[u].shards :
             d[u].shards[i].task = "cancelled" =>
               \E j \in DOMAIN a[u].shards : d[u].shards[j].task = "failed"
  BY <1>1, <1>2
<1> QED BY <1>3, <1>4, SameDivided

\* So does calling shards off, since only a failure does.
LEMMA StoppedDivided ==
  ASSUME flow \in Flows, NoFirst, NEW a \in Document, Shaped(a), Divided(a), NEW d, d = Stopped(a)
  PROVE  Divided(d)
<1>1. ASSUME NEW s \in Names
      PROVE  /\ d[s].verdict = a[s].verdict /\ d[s].port = a[s].port
             /\ DOMAIN d[s].shards = DOMAIN a[s].shards
             /\ \A i \in DOMAIN a[s].shards :
                  i \notin CalledOff(a, s) => d[s].shards[i] = a[s].shards[i]
  BY StoppedShards
<1>2. ASSUME NEW s \in Names, NEW i \in DOMAIN a[s].shards, d[s].shards[i].task = "cancelled"
      PROVE  \E j \in DOMAIN a[s].shards : d[s].shards[j].task = "failed"
  <2>1. PICK j \in DOMAIN a[s].shards : a[s].shards[j].task = "failed"
    <3>1. CASE i \in CalledOff(a, s)
      BY <3>1 DEF CalledOff, Divided
    <3>2. CASE i \notin CalledOff(a, s)
      <4>1. a[s].shards[i].task = "cancelled"
        BY <1>1, <1>2, <3>2
      <4> QED BY <4>1 DEF Divided
    <3> QED BY <3>1, <3>2
  <2>2. j \notin CalledOff(a, s)
    BY <2>1 DEF CalledOff, TaskOver
  <2>3. d[s].shards[j].task = "failed"
    BY <1>1, <2>1, <2>2
  <2> QED BY <2>3
<1>3. d \in Document
  BY StoppedFacts
<1>4. \A u \in Names :
        /\ d[u].verdict = a[u].verdict /\ d[u].port = a[u].port
        /\ DOMAIN d[u].shards = DOMAIN a[u].shards
        /\ \A i \in DOMAIN a[u].shards :
             d[u].shards[i].task = "cancelled" =>
               \E j \in DOMAIN a[u].shards : d[u].shards[j].task = "failed"
  BY <1>1, <1>2
<1> QED BY <1>3, <1>4, SameDivided

\* One shard changes and is not called off.
LEMMA ReshardDivided ==
  ASSUME flow \in Flows, NoFirst, NEW st \in Document, Shaped(st), Divided(st), NEW e \in Document,
         NEW s \in Names, NEW i, NEW n, Reshard(st, e, s, i, n), n.task # "cancelled",
         i \in DOMAIN st[s].shards, st[s].shards[i].task # "failed"
  PROVE  Divided(e)
<1>1. ASSUME NEW u \in Names
      PROVE  /\ e[u].verdict = st[u].verdict /\ e[u].port = st[u].port
             /\ DOMAIN e[u].shards = DOMAIN st[u].shards
             /\ \A j \in DOMAIN st[u].shards : ~(u = s /\ j = i) => e[u].shards[j] = st[u].shards[j]
  BY DEF Reshard
<1>2. ASSUME NEW u \in Names, NEW j \in DOMAIN st[u].shards, e[u].shards[j].task = "cancelled"
      PROVE  \E k \in DOMAIN st[u].shards : e[u].shards[k].task = "failed"
  <2>1. ~(u = s /\ j = i)
    BY <1>2 DEF Reshard
  <2>2. st[u].shards[j].task = "cancelled"
    BY <1>1, <1>2, <2>1
  <2>3. PICK k \in DOMAIN st[u].shards : st[u].shards[k].task = "failed"
    BY <2>2 DEF Divided
  <2>4. e[u].shards[k].task = "failed"
    BY <1>1, <2>3
  <2> QED BY <2>4
<1> QED BY <1>1, <1>2, SameDivided

\* A sweep of a divided document is divided.
LEMMA SweepDivided ==
  ASSUME flow \in Flows, clock \in Nat, NoFirst, NEW st \in Document, Shaped(st), Divided(st),
         NEW a, a = Sweep(st)
  PROVE  a \in Document /\ Shaped(a) /\ Divided(a)
<1>1. PICK x : Sweeps(x, st) /\ Sweep(st) = x[Size]
  BY SweepExists
<1>2. PICK L \in Nat : L = Size
  BY OrderFacts DEF Size
<1>3. /\ \A k \in 0..L : x[k] \in Document /\ Shaped(x[k])
      /\ \A k \in 1..L : /\ flow.order[k] \in Names /\ k - 1 \in 0..L /\ k \in 0..L
                         /\ Advances(x[k - 1], x[k], flow.order[k])
  BY <1>1, <1>2, SweepShaped
<1> DEFINE Q == {k \in 0..L : Divided(x[k])}
<1>4. 0 \in Q
  BY <1>1 DEF Sweeps
<1>5. ASSUME NEW k \in 1..L, k - 1 \in Q PROVE k \in Q
  <2>1. PICK p \in Document, q \in Document, s \in Names :
          p = x[k - 1] /\ q = x[k] /\ s = flow.order[k]
    BY <1>3
  <2>2. Shaped(p) /\ Divided(p) /\ Advances(p, q, s) /\ k \in 0..L
    BY <1>3, <1>5, <2>1
  <2>3. Divided(q)
    BY <2>2, AdvanceDivided
  <2> QED BY <2>1, <2>2, <2>3
<1>6. L \in Q
  <2> HIDE DEF Q
  <2>1. \A k \in 0..L : k \in Q
    BY <1>4, <1>5, UpTo
  <2> QED BY <2>1
<1> QED BY <1>1, <1>2, <1>3, <1>6

\* So is what a pass makes of one.
LEMMA RoundsDivided ==
  ASSUME flow \in Flows, clock \in Nat, NoFirst, NEW st \in Document, Shaped(st), Divided(st),
         NEW r, r = Rounds(st)
  PROVE  Divided(r.st)
<1>1. PICK x : Passing(x, st) /\ Rounds(st) = x[MaxRounds]
  BY RoundsExist
<1>2. PICK L \in Nat : L = MaxRounds
  BY GraphAssumption
<1>3. /\ x \in [0..L -> RoundType] /\ x[0] = FirstRound(st)
      /\ \A k \in 1..L : x[k] = NextRound(x[k - 1])
  BY <1>1, <1>2 DEF Passing
<1> DEFINE Q == {k \in 0..L : Divided(x[k].st)}
<1>4. 0 \in Q
  BY <1>3 DEF FirstRound
<1>5. ASSUME NEW k \in 1..L, k - 1 \in Q PROVE k \in Q
  <2>1. PICK b \in RoundType : b = x[k - 1]
    <3>1. k - 1 \in 0..L
      OBVIOUS
    <3> QED BY <1>3, <3>1
  <2>2. PICK e : e = x[k]
    OBVIOUS
  <2>3. e = NextRound(b) /\ k \in 0..L
    BY <1>3, <2>1, <2>2
  <2>4. PICK d \in Document : d = b.st /\ Shaped(d) /\ Divided(d)
    BY <1>5, <2>1 DEF RoundType
  <2>5. CASE b.done
    BY <2>2, <2>3, <2>4, <2>5 DEF NextRound
  <2>6. CASE ~b.done
    <3>1. PICK a : a = Sweep(d)
      OBVIOUS
    <3>2. a \in Document /\ Shaped(a) /\ Divided(a)
      BY <2>4, <3>1, SweepDivided
    <3>3. e = Round(b, a, StopsOf(a))
      BY <2>3, <2>4, <2>6, <3>1 DEF NextRound, Advanced
    <3>4. e.st = d \/ e.st = FailUnbuilt(a) \/ e.st = Stopped(a)
      <4>1. b = [st |-> b.st, stops |-> b.stops, done |-> b.done, stuck |-> b.stuck]
        BY DEF RoundType
      <4>2. CASE Stuck(a)
        <5>1. e = [b EXCEPT !.done = TRUE, !.stuck = TRUE]
          BY <3>3, <4>2 DEF Round
        <5>2. e.st = b.st
          BY <4>1, <5>1
        <5> QED BY <2>4, <5>2
      <4>3. CASE ~Stuck(a) /\ Unbuilt(a) # {}
        <5>1. PICK f : f = FailUnbuilt(a)
          OBVIOUS
        <5>2. e = [b EXCEPT !.st = f]
          BY <3>3, <4>3, <5>1 DEF Round
        <5>3. e.st = f
          BY <4>1, <5>2
        <5> QED BY <5>1, <5>3
      <4>4. CASE ~Stuck(a) /\ Unbuilt(a) = {}
        <5>1. e = [st |-> Stopped(a), stops |-> b.stops \cup StopsOf(a), done |-> StopsOf(a) = {},
                   stuck |-> FALSE]
          BY <3>3, <4>4 DEF Round
        <5> QED BY <5>1
      <4> QED BY <4>2, <4>3, <4>4
    <3>5. Divided(e.st)
      BY <2>4, <3>2, <3>4, UnbuiltDivided, StoppedDivided
    <3> QED BY <2>2, <2>3, <3>5
  <2> QED BY <2>5, <2>6
<1>6. L \in Q
  <2> HIDE DEF Q
  <2>1. \A k \in 0..L : k \in Q
    BY <1>4, <1>5, UpTo
  <2> QED BY <2>1
<1> QED BY <1>1, <1>2, <1>6

\* A report changes the division of no step.
LEMMA RecordedDivided ==
  ASSUME flow \in Flows, NoFirst, NEW st \in Document, Shaped(st), Divided(st),
         NEW bs \in SUBSET Box, NEW names, Boxed(st, bs, names), NEW b \in bs,
         NEW e, e = Recorded(st, b)
  PROVE  Divided(e)
<1>1. CASE e = st
  BY <1>1
<1>2. CASE e # st
  <2>1. PICK s \in Names, i \in Nat, a \in Nat : s = b.step /\ i = b.shard /\ a = b.attempt
    BY DEF Box
  <2>2. PICK sh \in Seq(ShardType) : sh = st[s].shards
    BY DEF Document, StepType
  <2>3. i \in DOMAIN sh
    BY <2>1, <2>2 DEF Boxed
  <2>4. PICK o \in ShardType : o = sh[i]
    BY <2>3
  <2>5. ~(o.attempt # b.attempt \/ TaskOver(o))
    BY <1>2, <2>1, <2>2, <2>4 DEF Recorded
  <2>6. PICK n : n = IF b.out # None THEN [o EXCEPT !.task = "succeeded", !.out = b.out]
                     ELSE IF o.attempt < flow.tries[s]
                          THEN [o EXCEPT !.task = "pending", !.attempt = @ + 1]
                          ELSE [o EXCEPT !.task = "failed"]
    OBVIOUS
  <2>7. n \in ShardType /\ n.task # "cancelled"
    <3>1. b.out \in Out
      BY DEF Box
    <3>2. PICK m \in Nat : m = o.attempt + 1
      BY DEF ShardType
    <3>3. PICK p, q, r : /\ p = [o EXCEPT !.task = "succeeded", !.out = b.out]
                         /\ q = [o EXCEPT !.task = "pending", !.attempt = m]
                         /\ r = [o EXCEPT !.task = "failed"]
      OBVIOUS
    <3>4. p \in ShardType /\ p.task = "succeeded"
      BY <3>1, <3>3 DEF ShardType, Tasks
    <3>5. q \in ShardType /\ q.task = "pending"
      BY <3>3 DEF ShardType, Tasks
    <3>6. r \in ShardType /\ r.task = "failed"
      BY <3>3 DEF ShardType, Tasks
    <3>7. n = p \/ n = q \/ n = r
      BY <2>6, <3>2, <3>3
    <3> QED BY <3>4, <3>5, <3>6, <3>7
  <2>8. e = [st EXCEPT ![s].shards[i] = n]
    BY <2>1, <2>2, <2>4, <2>5, <2>6 DEF Recorded
  <2>9. e \in Document /\ Reshard(st, e, s, i, n)
    BY <2>2, <2>3, <2>7, <2>8, ReshardFacts
  <2>10. i \in DOMAIN st[s].shards /\ st[s].shards[i].task # "failed"
    BY <2>2, <2>3, <2>4, <2>5 DEF TaskOver
  <2> QED BY <2>7, <2>9, <2>10, ReshardDivided
<1> QED BY <1>1, <1>2

\* Handing out changes the division of no step.
LEMMA HandedDivided ==
  ASSUME flow \in Flows, NoFirst, NEW st \in Document, Shaped(st), Divided(st),
         NEW s \in Names, NEW i \in Startable(st, s), NEW e, e = Handed(st, s, i)
  PROVE  Divided(e)
<1>1. PICK sh \in Seq(ShardType) : sh = st[s].shards
  BY DEF Document, StepType
<1>2. i \in DOMAIN sh /\ sh[i].task = "pending"
  BY <1>1 DEF Startable
<1>3. PICK o \in ShardType : o = sh[i]
  BY <1>2
<1>4. PICK n : n = [o EXCEPT !.task = "dispatched"]
  OBVIOUS
<1>5. n \in ShardType /\ n.task # "cancelled"
  BY <1>4 DEF ShardType, Tasks
<1>6. e = [st EXCEPT ![s].shards[i] = n]
  BY <1>1, <1>3, <1>4 DEF Handed
<1>7. e \in Document /\ Reshard(st, e, s, i, n)
  BY <1>1, <1>2, <1>5, <1>6, ReshardFacts
<1>8. i \in DOMAIN st[s].shards /\ st[s].shards[i].task # "failed"
  BY <1>1, <1>2
<1> QED BY <1>5, <1>7, <1>8, ReshardDivided

\* What the next moment reads is what this one does of the same document.
LEMMA ReadNext ==
  ASSUME flow \in Flows, flow' = flow, NEW n, n = steps', NEW s \in Names, flow.merge[s] # "first",
         \A i \in DOMAIN flow.needs[s] : n[flow.needs[s][i]].port # None
  PROVE  Read(steps, s)' = Read(n, s)
<1>1. PICK edges \in Seq(Names) : edges = flow.needs[s]
  BY NeedsFacts
<1>2. \A i \in DOMAIN edges : Held(steps, edges[i])' = Held(n, edges[i])
  BY <1>1 DEF Held
<1>3. PICK yes \in BOOLEAN : yes = \A i \in DOMAIN edges : ~EdgeWaiting(n, edges[i])
  OBVIOUS
<1>4. PICK p : p = [ready |-> yes, from |-> edges, dropped |-> {}]
  OBVIOUS
<1>5. SatisfyPort(n, s) = p
  BY <1>1, <1>3, <1>4 DEF SatisfyPort
<1>6. SatisfyPort(steps, s)' = p
  <2>1. yes = \A i \in DOMAIN edges : ~EdgeWaiting(steps, edges[i])'
    BY <1>3 DEF EdgeWaiting
  <2> QED BY <1>1, <1>4, <2>1 DEF SatisfyPort
<1>7. p.from = edges
  BY <1>4
<1>8. [i \in DOMAIN p.from |-> Held(steps, p.from[i])'] = [i \in DOMAIN p.from |-> Held(n, p.from[i])]
  BY <1>2, <1>7
<1>9. \A parts : Arrival(s, parts)' = Arrival(s, parts) /\ Fed(s)' = Fed(s)
  BY DEF Arrival, MergePort, Fed
<1>10. PICK in : in = IF ~p.ready THEN None
                      ELSE Arrival(s, [i \in DOMAIN p.from |-> Held(n, p.from[i])] \o Fed(s))
  OBVIOUS
<1>11. Barrier(n, s, p) = Gate(n, s, p, in)
  BY <1>10 DEF Barrier
<1>12. Barrier(steps, s, p)' = Gate(steps, s, p, in)'
  BY <1>8, <1>9, <1>10 DEF Barrier
<1>13. Gate(steps, s, p, in)' = Gate(n, s, p, in)
  BY DEF Gate
<1>14. Read(n, s) = Barrier(n, s, p)
  BY <1>5 DEF Read
<1>15. Read(steps, s)' = Barrier(steps, s, p)'
  BY <1>6 DEF Read
<1> QED BY <1>11, <1>12, <1>13, <1>14, <1>15

\* A document divided for this moment is divided for the next, whatever its clock.
LEMMA NextDivided ==
  ASSUME flow \in Flows, NoFirst, flow' = flow, NEW n, n = steps', Shaped(n), Divided(n)
  PROVE  Divided(steps)'
<1>1. Names' = Names
  BY DEF Names
<1>2. ASSUME NEW s \in Names, n[s].verdict = "running"
      PROVE  /\ \A i \in DOMAIN flow.needs[s] : ~EdgeWaiting(steps, flow.needs[s][i])'
             /\ Stands(steps, s)'
  <2>1. /\ \A i \in DOMAIN flow.needs[s] : ~EdgeWaiting(n, flow.needs[s][i])
        /\ Stands(n, s)
    BY <1>2 DEF Divided
  <2>2. \A i \in DOMAIN flow.needs[s] : n[flow.needs[s][i]].port # None
    <3> SUFFICES ASSUME NEW i \in DOMAIN flow.needs[s] PROVE n[flow.needs[s][i]].port # None
      OBVIOUS
    <3>1. PICK u \in Names : u = flow.needs[s][i]
      BY NeedsFacts
    <3>2. ~EdgeWaiting(n, u) /\ n[u].verdict # "cancelled"
      BY <2>1, <3>1 DEF Divided
    <3> QED BY <3>1, <3>2, OverHasPort
  <2>3. Read(steps, s)' = Read(n, s)
    BY <2>2, NoneFirst, ReadNext
  <2>4. \A in : FanOut(s, in)' = FanOut(s, in)
    BY DEF FanOut
  <2>5. Stands(steps, s)'
    BY <2>1, <2>3, <2>4 DEF Stands
  <2>6. \A i \in DOMAIN flow.needs[s] : ~EdgeWaiting(steps, flow.needs[s][i])'
    BY <2>1 DEF EdgeWaiting
  <2> QED BY <2>5, <2>6
<1>3. ASSUME NEW s \in Names
      PROVE  /\ n[s].verdict # "cancelled"
             /\ \A i \in DOMAIN n[s].shards :
                  n[s].shards[i].task = "cancelled" =>
                    \E j \in DOMAIN n[s].shards : n[s].shards[j].task = "failed"
  BY DEF Divided
<1> QED BY <1>1, <1>2, <1>3 DEF Divided

\* What a pass decides is divided.
LEMMA PassDivided ==
  ASSUME flow \in Flows, clock \in Nat, NoFirst, NEW st \in Document, Shaped(st), Divided(st),
         Pass(st), flow' = flow
  PROVE  Divided(steps)'
<1>1. PICK r : r = Rounds(st) /\ steps' = r.st
  BY DEF Pass
<1>2. PICK d : d = r.st
  OBVIOUS
<1>3. Shaped(d) /\ Divided(d)
  BY <1>1, <1>2, RoundsFacts, RoundsDivided
<1> QED BY <1>1, <1>2, <1>3, NextDivided

\* A run that starts has divided nothing.
LEMMA DividedInvInit == Init => DividedInv
<1> SUFFICES ASSUME Init PROVE Divided(steps)
  BY DEF DividedInv
<1>1. \A s \in Names : steps[s].verdict = "pending" /\ steps[s].shards = <<>>
  BY DEF Init, NewStep
<1> QED BY <1>1 DEF Divided

\* Every step keeps the division.
LEMMA DividedInvStep ==
  ASSUME RunInv, DividedInv, [Next]_vars
  PROVE  DividedInv'
<1>0. flow' = flow
  BY DEF Next, Decide, HandOut, ContainerEnds, Answer, Cancel, Deadline, Cut, vars
<1> SUFFICES ASSUME NoFirst PROVE DividedInv'
  <2>1. NoFirst' => NoFirst
    BY <1>0 DEF NoFirst, Names
  <2> QED BY <2>1 DEF DividedInv
<1>1. PICK st \in Document, bs \in SUBSET Box : st = steps /\ bs = boxes
  BY DEF RunInv
<1>2. flow \in Flows /\ clock \in Nat /\ Shaped(st)
  BY <1>1 DEF RunInv
<1>3. run \notin RunTerminal => Divided(st) /\ Boxed(st, bs, told)
  BY <1>1 DEF DividedInv, RunInv
<1>4. ASSUME steps' = steps, run' = run, flow' = flow PROVE DividedInv'
  <2>1. CASE run \in RunTerminal
    BY <1>4, <2>1 DEF DividedInv, RunTerminal
  <2>2. CASE run \notin RunTerminal
    <3>1. st = steps'
      BY <1>1, <1>4
    <3>2. Divided(steps)'
      BY <1>2, <1>3, <1>4, <2>2, <3>1, NextDivided
    <3> QED BY <3>2 DEF DividedInv
  <2> QED BY <2>1, <2>2
<1>5. CASE Decide
  <2>1. run \notin RunTerminal /\ Pass(st) /\ flow' = flow
    BY <1>1, <1>5 DEF Decide
  <2>2. Divided(steps)'
    BY <1>2, <1>3, <2>1, PassDivided
  <2> QED BY <2>2 DEF DividedInv
<1>6. ASSUME NEW t \in plan, HandOut(t) PROVE DividedInv'
  <2>1. run = "running" /\ plan = Starts(st) /\ flow' = flow
    BY <1>1, <1>6 DEF HandOut, RunInv
  <2>2. PICK s \in Names : \E j \in Startable(st, s) : t = TaskOf(s, j, st[s].shards[j].attempt)
    BY <2>1, InStarts
  <2>3. PICK i \in Startable(st, s) : t = TaskOf(s, i, st[s].shards[i].attempt)
    BY <2>2
  <2>4. PICK a : a = st[s].shards[i].attempt
    OBVIOUS
  <2>5. t[1] = s /\ t[2] = i
    BY <2>3, <2>4 DEF TaskOf
  <2>6. PICK e : e = Handed(st, s, i)
    OBVIOUS
  <2>7. e = steps'
    BY <1>1, <1>6, <2>5, <2>6 DEF HandOut, Handed
  <2>8. Divided(st) /\ Boxed(st, bs, told) /\ Quiet(st)
    BY <1>1, <1>3, <2>1 DEF RunInv, RunTerminal
  <2>9. Divided(e)
    BY <1>2, <2>6, <2>8, HandedDivided
  <2>10. PICK b : b = BoxOf(st, s, i)
    OBVIOUS
  <2>11. Shaped(e)
    BY <1>2, <2>6, <2>8, <2>10, HandOutFacts
  <2>12. Divided(steps)'
    BY <1>2, <2>1, <2>7, <2>9, <2>11, NextDivided
  <2> QED BY <2>12 DEF DividedInv
<1>7. ASSUME NEW b \in boxes, NEW n, ContainerEnds(b, n) PROVE DividedInv'
  BY <1>4, <1>7 DEF ContainerEnds
<1>8. ASSUME NEW b \in boxes, Answer(b) PROVE DividedInv'
  <2>1. CASE run \in RunTerminal
    BY <1>4, <1>8, <2>1 DEF Answer
  <2>2. CASE run \notin RunTerminal
    <3>1. PICK e : e = Recorded(st, b)
      OBVIOUS
    <3>2. Pass(e) /\ flow' = flow /\ b \in bs
      BY <1>1, <1>8, <2>2, <3>1 DEF Answer
    <3>3. e \in Document /\ Shaped(e) /\ Divided(e)
      BY <1>2, <1>3, <2>2, <3>1, <3>2, RecordedFacts, RecordedDivided
    <3>4. Divided(steps)'
      BY <1>2, <3>2, <3>3, PassDivided
    <3> QED BY <3>4 DEF DividedInv
  <2> QED BY <2>1, <2>2
<1>9. ASSUME NEW state \in {"cancelled", "timed_out"}, Cut(state) PROVE DividedInv'
  BY <1>9 DEF Cut, DividedInv, RunTerminal
<1>10. CASE UNCHANGED vars
  BY <1>4, <1>10 DEF vars
<1>11. CASE Cancel \/ Deadline
  BY <1>9, <1>11 DEF Cancel, Deadline
<1> QED BY <1>5, <1>6, <1>7, <1>8, <1>10, <1>11 DEF Next

\* Where no step takes the first of several, a step under way is divided again,
\* whenever it is asked, into the shards it was divided into.
THEOREM DivisionStandsHolds == Spec => [](NoFirst => DivisionStands)
<1>1. ASSUME RunInv, DividedInv, NoFirst PROVE DivisionStands
  <2>1. PICK st \in Document, bs \in SUBSET Box : st = steps /\ bs = boxes
    BY <1>1 DEF RunInv
  <2>2. flow \in Flows /\ clock \in Nat /\ Shaped(st)
    BY <1>1, <2>1 DEF RunInv
  <2>3. ASSUME NEW d \in Documents
        PROVE  d \in Document /\ Shaped(d) /\ Divided(d)
    <3>1. run \notin RunTerminal
      BY <2>3 DEF Documents
    <3>2. Divided(st) /\ Boxed(st, bs, told)
      BY <1>1, <2>1, <3>1 DEF DividedInv, RunInv
    <3>3. d = st \/ \E b \in bs : d = Recorded(st, b)
      BY <2>1, <2>3, <3>1 DEF Documents
    <3>4. CASE d = st
      BY <2>2, <3>2, <3>4
    <3>5. ASSUME NEW b \in bs, d = Recorded(st, b) PROVE d \in Document /\ Shaped(d) /\ Divided(d)
      BY <1>1, <2>2, <3>2, <3>5, RecordedFacts, RecordedDivided
    <3> QED BY <3>3, <3>4, <3>5
  <2>4. ASSUME NEW d \in Documents PROVE ~Stuck(Sweep(d))
    <3>1. PICK a : a = Sweep(d)
      OBVIOUS
    <3>2. Divided(a)
      BY <1>1, <2>2, <2>3, <3>1, SweepDivided
    <3>3. \A s \in Names : Startable(a, s) # {} => Stands(a, s)
      BY <3>2 DEF Divided, Startable
    <3> QED BY <3>1, <3>3 DEF Stuck
  <2> QED BY <2>4 DEF DivisionStands, Ahead
<1>2. Init => RunInv /\ DividedInv
  BY RunInvInit, DividedInvInit
<1>3. RunInv /\ DividedInv /\ [Next]_vars => (RunInv /\ DividedInv)'
  BY RunInvNext, RunInvStill, DividedInvStep
<1>4. RunInv /\ DividedInv => (NoFirst => DivisionStands)
  BY <1>1
<1> QED BY <1>2, <1>3, <1>4, PTL DEF Spec

-----------------------------------------------------------------------------
(* Verdicts are what the graph means, once every container's fate is known, *)
(* where no rule of the graph is itself a race.                            *)

\* What the shards of a step published, and that its condition lets it run.
Items(shards) ==
  Total([i \in DOMAIN shards |-> IF shards[i].out # None THEN shards[i].out.n ELSE 0])
Runs(s) == flow.cond[s] \notin {"error", "false"}

\* A step that ended, x, ended as what it reads, r, and its shards say.
EndedAs(s, r, x) ==
  \/ EndsAtOnce(s, r, x.verdict) /\ x.port.n = 0
  \/ /\ r.gate = "start" /\ Runs(s)
     /\ FanOut(s, r.in) = Len(x.shards) /\ x.shards # <<>>
     /\ x.verdict = StepVerdict(x.shards) /\ x.port.n = Items(x.shards)

\* Every step that ended did so, after all it needs.
Follows(st) ==
  \A s \in Names :
    /\ st[s].verdict = "running" => Runs(s) /\ st[s].shards # <<>>
    /\ st[s].verdict \in Terminal =>
         /\ \A i \in DOMAIN flow.needs[s] : ~EdgeWaiting(st, flow.needs[s][i])
         /\ EndedAs(s, Read(st, s), st[s])

Fate(s, i, a, o) == [step |-> s, shard |-> i, attempt |-> a, out |-> o]

\* A shard came to what its last container did, and has no fate of an attempt
\* that is to be started.
Judged(s, i, sh, fs) ==
  /\ sh.task # "cancelled"
  /\ sh.out # None <=> sh.task = "succeeded"
  /\ Builds(s) \/ sh.task \in {"pending", "failed"}
  /\ TaskOver(sh) /\ Builds(s) => Fate(s, i, sh.attempt, sh.out) \in fs
  /\ sh.task = "pending" => \A f \in fs : f.step = s /\ f.shard = i => f.attempt # sh.attempt

\* One fate of each attempt, none of an attempt to come.
Fated(st, fs) ==
  /\ fs \in SUBSET [step : Names, shard : Nat, attempt : Nat, out : Out]
  /\ \A f, g \in fs : f.step = g.step /\ f.shard = g.shard /\ f.attempt = g.attempt => f = g
  /\ \A f \in fs : /\ f.shard \in DOMAIN st[f.step].shards
                   /\ f.attempt <= st[f.step].shards[f.shard].attempt

Heard(st, fs) == \A s \in Names : \A i \in DOMAIN st[s].shards : Judged(s, i, st[s].shards[i], fs)

\* A container is of a shard that was handed out; its fate is known once it ended.
Reported(st, bs, fs) ==
  /\ \A b \in bs :
       /\ b.shard \in DOMAIN st[b.step].shards
       /\ st[b.step].shards[b.shard].attempt = b.attempt
       /\ st[b.step].shards[b.shard].task = "dispatched"
       /\ b.over => Fate(b.step, b.shard, b.attempt, b.out) \in fs
       /\ ~b.over => \A f \in fs : f.step = b.step /\ f.shard = b.shard => f.attempt # b.attempt
  /\ \A b, c \in bs : b.step = c.step /\ b.shard = c.shard => b = c

Known(st, bs, fs) == Fated(st, fs) /\ Heard(st, fs) /\ Reported(st, bs, fs)

\* What a step published is the items of its shards.
LEMMA PublishItems ==
  ASSUME NEW sh \in Seq(ShardType)
  PROVE  Publish(sh).n = Items(sh)
<1>1. PICK wrote : wrote = {i \in DOMAIN sh : sh[i].out # None}
  OBVIOUS
<1>2. PICK ns : ns = [i \in DOMAIN sh |-> IF sh[i].out # None THEN sh[i].out.n ELSE 0]
  OBVIOUS
<1>3. Items(sh) = Total(ns)
  BY <1>2 DEF Items
<1>4. CASE wrote = {}
  <2>1. PICK N \in Nat : DOMAIN sh = 1..N
    OBVIOUS
  <2>2. \A i \in 1..N : ns[i] = 0
    BY <1>1, <1>2, <1>4, <2>1
  <2>3. ns = [i \in 1..N |-> 0]
    BY <1>2, <2>1, <2>2
  <2>4. ns \in Seq(Nat) /\ DOMAIN ns = 1..N
    BY <2>3
  <2>5. Total(ns) = 0
    BY <2>2, <2>4, TotalZeros
  <2> QED BY <1>1, <1>3, <1>4, <2>5 DEF Publish
<1>5. CASE wrote # {}
  <2>1. [i \in DOMAIN sh |-> IF i \in wrote THEN sh[i].out.n ELSE 0] = ns
    BY <1>1, <1>2
  <2> QED BY <1>1, <1>3, <1>5, <2>1 DEF Publish
<1> QED BY <1>4, <1>5

\* More than one length is a length that is not the first.
LEMMA UnevenFacts ==
  ASSUME NEW z \in Seq(Nat), z # <<>>
  PROVE  Cardinality(Range(z)) > 1 <=> \E i \in DOMAIN z : z[i] # z[1]
<1>1. PICK N \in Nat \ {0} : DOMAIN z = 1..N
  <2>1. PICK N \in Nat : N = Len(z)
    OBVIOUS
  <2> QED BY <2>1
<1>2. PICK R : R = Range(z) /\ R = {z[i] : i \in 1..N}
  BY <1>1 DEF Range
<1>3. IsFiniteSet(R)
  <2>1. z \in [1..N -> R] /\ \A m \in R : \E i \in 1..N : z[i] = m
    <3>1. \A i \in 1..N : z[i] \in R
      BY <1>2
    <3>2. z = [i \in 1..N |-> z[i]]
      BY <1>1
    <3> QED BY <1>2, <3>1, <3>2
  <2>2. z \in Surjection(1..N, R)
    BY <2>1 DEF Surjection
  <2>3. IsFiniteSet(1..N)
    BY FS_Interval
  <2> QED BY <2>2, <2>3, FS_Surjection
<1>4. CASE \A i \in 1..N : z[i] = z[1]
  <2>1. R = {z[1]}
    <3>1. 1 \in 1..N
      OBVIOUS
    <3> QED BY <1>2, <1>4, <3>1
  <2>2. Cardinality(R) = 1
    BY <2>1, FS_Singleton
  <2> QED BY <1>1, <1>2, <1>4, <2>2
<1>5. ASSUME NEW i \in 1..N, z[i] # z[1] PROVE Cardinality(R) > 1
  <2>1. {z[1]} \cup {z[i]} \in SUBSET R
    <3>1. 1 \in 1..N
      OBVIOUS
    <3> QED BY <1>2, <3>1
  <2>2. IsFiniteSet({z[1]}) /\ Cardinality({z[1]}) = 1
    BY FS_Singleton
  <2>3. Cardinality({z[1]} \cup {z[i]}) = 2
    <3>1. PICK x, y : x = z[1] /\ y = z[i]
      OBVIOUS
    <3>2. y \notin {x} /\ IsFiniteSet({x}) /\ Cardinality({x}) = 1
      BY <1>5, <2>2, <3>1
    <3>3. Cardinality({x} \cup {y}) = IF y \in {x} THEN Cardinality({x}) ELSE Cardinality({x}) + 1
      BY <3>2, FS_AddElement
    <3>4. Cardinality({x} \cup {y}) = 1 + 1
      BY <3>2, <3>3
    <3> QED BY <3>1, <3>4
  <2>4. Cardinality({z[1]} \cup {z[i]}) <= Cardinality(R)
    BY <1>3, <2>1, FS_Subset
  <2>5. Cardinality(R) \in Nat
    BY <1>3, FS_CardinalityType
  <2> QED BY <2>3, <2>4, <2>5
<1> QED BY <1>1, <1>2, <1>4, <1>5

\* What arrives is refused where the lengths differ and must not, and is divided
\* as their lengths say otherwise.
LEMMA ArrivalMeans ==
  ASSUME NEW s \in Names, flow.merge[s] \in {"wait_all", "zip"}, NEW parts \in Seq(Outs),
         NEW z \in Seq(Nat), z = [i \in DOMAIN parts |-> parts[i].n],
         NEW in, in = Arrival(s, parts)
  PROVE  /\ in.n = -2 <=> Uneven(s, z)
         /\ ~Uneven(s, z) => FanOut(s, in) = Width(s, z)
<1>1. PICK N \in Nat : N = Len(parts) /\ DOMAIN parts = 1..N /\ DOMAIN z = 1..N /\ N = Len(z)
  <2>1. PICK N \in Nat : N = Len(parts) /\ DOMAIN parts = 1..N
    OBVIOUS
  <2>2. DOMAIN z = DOMAIN parts
    OBVIOUS
  <2>3. Len(z) = N
    <3>1. PICK M \in Nat : M = Len(z) /\ DOMAIN z = 1..M
      OBVIOUS
    <3>2. 1..M = 1..N
      BY <2>1, <2>2, <3>1
    <3>3. M # 0 => M \in 1..N
      BY <3>2
    <3>4. N # 0 => N \in 1..M
      BY <3>2
    <3> QED BY <3>1, <3>3, <3>4
  <2> QED BY <2>1, <2>2, <2>3
<1>2. \A i \in 1..N : z[i] = parts[i].n /\ z[i] \in Nat
  BY <1>1
<1>3. CASE N = 0
  <2>1. parts = <<>> /\ z = <<>>
    BY <1>1, <1>3
  <2>2. in = None
    BY <2>1 DEF Arrival
  <2>3. Range(z) = {}
    BY <2>1 DEF Range
  <2>4. ~Uneven(s, z)
    <3>1. Cardinality(Range(z)) = 0
      BY <2>3, FS_EmptySet
    <3>2. ~(0 > 1)
      OBVIOUS
    <3> QED BY <3>1, <3>2 DEF Uneven
  <2>5. in.n # -2
    BY <2>2 DEF None
  <2> QED BY <2>1, <2>2, <2>4, <2>5 DEF FanOut, Width
<1>4. ASSUME N # 0, in.n \in Nat \cup {-2}, in.n = -2 <=> Uneven(s, z),
             ~Uneven(s, z) => in.n = IF flow.merge[s] = "zip" THEN z[1] ELSE Total(z)
      PROVE  /\ in.n = -2 <=> Uneven(s, z)
             /\ ~Uneven(s, z) => FanOut(s, in) = Width(s, z)
  <2>1. in # None
    BY <1>4 DEF None
  <2>2. z # <<>>
    BY <1>1, <1>4
  <2> QED BY <1>4, <2>1, <2>2 DEF FanOut, Width
<1>5. N # 0 => parts # <<>> /\ z # <<>> /\ 1 \in 1..N /\ in = MergePort(s, parts)
  <2>1. N # 0 => parts # <<>> /\ z # <<>> /\ 1 \in 1..N
    BY <1>1
  <2> QED BY <2>1 DEF Arrival
<1>6. N # 0 => (Uneven(s, z) <=> flow.merge[s] = "zip" /\ \E i \in 1..N : z[i] # z[1])
  BY <1>1, <1>5, UnevenFacts DEF Uneven
<1>7. CASE N = 1
  <2>1. in = parts[1]
    <3>1. Len(parts) = 1 /\ in = MergePort(s, parts)
      BY <1>1, <1>5, <1>7
    <3> QED BY <3>1 DEF MergePort
  <2>2. in.n = z[1]
    BY <1>2, <1>5, <1>7, <2>1
  <2>3. Total(z) = z[1]
    BY <1>1, <1>7, TotalOne
  <2>4. \A i \in 1..1 : i = 1
    OBVIOUS
  <2>5. ~Uneven(s, z)
    BY <1>6, <1>7, <2>4
  <2>6. in.n \in Nat
    BY <1>2, <1>5, <1>7, <2>2
  <2>7. in.n # -2
    BY <2>6
  <2> QED BY <1>4, <1>7, <2>2, <2>3, <2>5, <2>6, <2>7
<1>8. CASE N \notin {0, 1} /\ flow.merge[s] = "zip"
  <2>1. in = ZipParts(parts)
    BY <1>1, <1>5, <1>8 DEF MergePort
  <2>2. in.n = IF \A i \in 1..N : parts[i].n = parts[1].n THEN parts[1].n ELSE -2
    BY <1>1, <2>1 DEF ZipParts
  <2>3. in.n = IF \A i \in 1..N : z[i] = z[1] THEN z[1] ELSE -2
    BY <1>2, <1>5, <1>8, <2>2
  <2>4. z[1] \in Nat
    BY <1>2, <1>5, <1>8
  <2>5. CASE \A i \in 1..N : z[i] = z[1]
    <3>1. ~Uneven(s, z) /\ in.n = z[1]
      BY <1>6, <1>8, <2>3, <2>5
    <3>2. in.n # -2
      BY <2>4, <3>1
    <3> QED BY <1>4, <1>8, <2>4, <3>1, <3>2
  <2>6. CASE ~ \A i \in 1..N : z[i] = z[1]
    <3>1. Uneven(s, z) /\ in.n = -2
      BY <1>6, <1>8, <2>3, <2>6
    <3> QED BY <3>1
  <2> QED BY <2>5, <2>6
<1>9. CASE N \notin {0, 1} /\ flow.merge[s] = "wait_all"
  <2>1. in = Concat(parts)
    BY <1>1, <1>5, <1>9 DEF MergePort
  <2>2. in.n = Total(z)
    BY <2>1 DEF Concat
  <2>3. in.n \in Nat
    BY <2>2, TotalNat
  <2>4. ~Uneven(s, z)
    BY <1>9 DEF Uneven
  <2>5. in.n # -2
    BY <2>3
  <2> QED BY <1>4, <1>9, <2>2, <2>3, <2>4, <2>5
<1> QED BY <1>3, <1>7, <1>8, <1>9

\* What the document says of a step, as Meaning would.
Says(st, u) == [v |-> st[u].verdict, n |-> st[u].port.n]

Skips(m, s) ==
  \E i \in DOMAIN flow.needs[s] :
    ~("always" \in flow.when[s] \/ m[flow.needs[s][i]].v \in flow.when[s])

\* One sequence after another.
LEMMA ConcatAt ==
  ASSUME NEW S, NEW a \in Seq(S), NEW b \in Seq(S), NEW M \in Nat, M = Len(a), NEW F \in Nat, F = Len(b)
  PROVE  /\ Len(a \o b) = M + F
         /\ \A i \in 1..(M + F) : (a \o b)[i] = IF i <= M THEN a[i] ELSE b[i - M]
BY ConcatProperties

\* A step whose needs are over reads what they mean.
LEMMA ReadMeans ==
  ASSUME flow \in Flows, clock \in Nat, NEW st \in Document, NEW s \in Names,
         flow.merge[s] # "first", NEW m,
         \A i \in DOMAIN flow.needs[s] :
           /\ ~EdgeWaiting(st, flow.needs[s][i]) /\ st[flow.needs[s][i]].port # None
           /\ m[flow.needs[s][i]] = Says(st, flow.needs[s][i]),
         NEW r, r = Read(st, s)
  PROVE  /\ Skips(m, s) => r.gate = "skip"
         /\ ~Skips(m, s) /\ Uneven(s, Sizes(m, s)) => r.gate = "refused"
         /\ ~Skips(m, s) /\ ~Uneven(s, Sizes(m, s)) =>
              r.gate = "start" /\ FanOut(s, r.in) = Width(s, Sizes(m, s))
<1>1. PICK edges \in Seq(Names), N \in Nat : edges = flow.needs[s] /\ DOMAIN edges = 1..N
  BY NeedsFacts
<1>2. PICK p : p = [ready |-> TRUE, from |-> edges, dropped |-> {}]
  OBVIOUS
<1>3. SatisfyPort(st, s) = p
  <2>1. \A i \in DOMAIN edges : ~EdgeWaiting(st, edges[i])
    BY <1>1
  <2> QED BY <1>1, <1>2, <2>1 DEF SatisfyPort
<1>4. \A i \in 1..N : /\ edges[i] \in Names /\ Held(st, edges[i]) \in Outs
                      /\ Held(st, edges[i]) = st[edges[i]].port
                      /\ m[edges[i]] = Says(st, edges[i])
  <2>1. \A i \in 1..N : /\ edges[i] \in Names
                        /\ st[edges[i]].port # None /\ m[edges[i]] = Says(st, edges[i])
    BY <1>1
  <2>2. \A i \in 1..N : Held(st, edges[i]) = st[edges[i]].port
    BY <2>1 DEF Held
  <2> QED BY <2>1, <2>2, HeldOut
<1>5. PICK held \in Seq(Outs) : held = [i \in 1..N |-> Held(st, edges[i])]
  <2>1. PICK h : h = [i \in 1..N |-> Held(st, edges[i])]
    OBVIOUS
  <2>2. \A i \in 1..N : h[i] \in Outs
    BY <1>4, <2>1
  <2>3. h \in Seq(Outs)
    BY <2>1, <2>2
  <2> QED BY <2>1, <2>3
<1>6. PICK fed \in Seq(Outs) : fed = Fed(s)
  <2>1. flow.fed[s] \in Nat \cup {-1}
    BY StepFacts
  <2>2. flow.fed[s] \in Nat => [n |-> flow.fed[s], at |-> 0] \in Outs
    BY DEF Outs
  <2>3. \A e \in Outs : <<e>> \in Seq(Outs)
    OBVIOUS
  <2>4. Fed(s) = <<>> \/ (flow.fed[s] \in Nat /\ Fed(s) = <<[n |-> flow.fed[s], at |-> 0]>>)
    BY <2>1 DEF Fed
  <2>5. Fed(s) \in Seq(Outs)
    <3>1. CASE Fed(s) = <<>>
      BY <3>1
    <3> QED BY <2>2, <2>3, <2>4, <3>1
  <2> QED BY <2>5
<1>7. PICK parts \in Seq(Outs) : parts = held \o fed
  BY ConcatProperties
<1>8. PICK ns \in Seq(Nat) : ns = [i \in 1..N |-> m[edges[i]].n]
  <2>1. ASSUME NEW i \in 1..N PROVE m[edges[i]].n \in Nat
    <3>1. PICK u \in Names, o \in Outs : u = edges[i] /\ o = st[u].port /\ m[u] = Says(st, u)
      BY <1>4
    <3> QED BY <3>1 DEF Says, Outs
  <2>2. PICK h : h = [i \in 1..N |-> m[edges[i]].n]
    OBVIOUS
  <2>3. \A i \in 1..N : h[i] \in Nat
    BY <2>1, <2>2
  <2>4. h \in Seq(Nat)
    BY <2>2, <2>3
  <2> QED BY <2>2, <2>4
<1>9. PICK fs \in Seq(Nat) : fs = IF flow.fed[s] < 0 THEN <<>> ELSE <<flow.fed[s]>>
  <2>1. flow.fed[s] \in Nat \cup {-1}
    BY StepFacts
  <2>2. CASE flow.fed[s] \in Nat
    <3>1. PICK n \in Nat : n = flow.fed[s]
      BY <2>2
    <3>2. <<n>> \in Seq(Nat) /\ ~(n < 0)
      OBVIOUS
    <3> QED BY <3>1, <3>2
  <2>3. CASE flow.fed[s] = -1
    <3>1. PICK e : e = <<>>
      OBVIOUS
    <3>2. e \in Seq(Nat) /\ flow.fed[s] < 0
      BY <2>3, <3>1
    <3> QED BY <3>1, <3>2
  <2> QED BY <2>1, <2>2, <2>3
<1>10. PICK z \in Seq(Nat) : z = ns \o fs
  BY ConcatProperties
<1>11. Sizes(m, s) = z
  BY <1>1, <1>8, <1>9, <1>10 DEF Sizes
<1>12. z = [i \in DOMAIN parts |-> parts[i].n]
  <2>1. PICK F \in Nat : /\ Len(fed) = F /\ Len(fs) = F
                         /\ \A i \in 1..F : fed[i].n = fs[i]
    <3>1. flow.fed[s] \in Nat \cup {-1}
      BY StepFacts
    <3>2. CASE flow.fed[s] = -1
      <4>1. fed = <<>> /\ fs = <<>>
        BY <1>6, <1>9, <3>2 DEF Fed
      <4>2. Len(fed) = 0 /\ Len(fs) = 0 /\ \A i \in 1..0 : fed[i].n = fs[i]
        BY <4>1
      <4> QED BY <4>2
    <3>3. CASE flow.fed[s] \in Nat
      <4>1. PICK n \in Nat : n = flow.fed[s]
        BY <3>3
      <4>2. fed = <<[n |-> n, at |-> 0]>> /\ fs = <<n>>
        BY <1>6, <1>9, <4>1 DEF Fed
      <4>3. Len(fed) = 1 /\ Len(fs) = 1 /\ \A i \in 1..1 : fed[i].n = fs[i]
        BY <4>2
      <4> QED BY <4>3
    <3> QED BY <3>1, <3>2, <3>3
  <2>2. Len(held) = N /\ Len(ns) = N /\ \A i \in 1..N : held[i].n = ns[i]
    <3>1. Len(held) = N /\ Len(ns) = N
      BY <1>5, <1>8
    <3>2. ASSUME NEW i \in 1..N PROVE held[i].n = ns[i]
      <4>1. PICK u \in Names : u = edges[i] /\ Held(st, u) = st[u].port /\ m[u] = Says(st, u)
        BY <1>4
      <4>2. held[i] = st[u].port /\ ns[i] = m[u].n
        BY <1>5, <1>8, <4>1
      <4> QED BY <4>1, <4>2 DEF Says
    <3> QED BY <3>1, <3>2
  <2>3. /\ Len(parts) = N + F
        /\ \A i \in 1..(N + F) : parts[i] = IF i <= N THEN held[i] ELSE fed[i - N]
    <3>1. N = Len(held) /\ F = Len(fed) /\ held \in Seq(Outs) /\ fed \in Seq(Outs)
      BY <2>1, <2>2
    <3>2. /\ Len(held \o fed) = N + F
          /\ \A i \in 1..(N + F) : (held \o fed)[i] = IF i <= N THEN held[i] ELSE fed[i - N]
      BY ONLY <3>1, N \in Nat, F \in Nat, ConcatAt
    <3> QED BY <1>7, <3>2
  <2>4. /\ Len(z) = N + F
        /\ \A i \in 1..(N + F) : z[i] = IF i <= N THEN ns[i] ELSE fs[i - N]
    <3>1. N = Len(ns) /\ F = Len(fs) /\ ns \in Seq(Nat) /\ fs \in Seq(Nat)
      BY <2>1, <2>2
    <3>2. /\ Len(ns \o fs) = N + F
          /\ \A i \in 1..(N + F) : (ns \o fs)[i] = IF i <= N THEN ns[i] ELSE fs[i - N]
      BY ONLY <3>1, N \in Nat, F \in Nat, ConcatAt
    <3> QED BY <1>10, <3>2
  <2>5. DOMAIN parts = 1..(N + F) /\ DOMAIN z = 1..(N + F)
    BY <2>3, <2>4
  <2>6. ASSUME NEW i \in 1..(N + F) PROVE z[i] = parts[i].n
    <3>1. CASE i <= N
      <4>1. i \in 1..N
        BY <3>1
      <4> QED BY <2>2, <2>3, <2>4, <3>1, <4>1
    <3>2. CASE ~(i <= N)
      <4>1. i - N \in 1..F
        BY <3>2
      <4> QED BY <2>1, <2>3, <2>4, <3>2, <4>1
    <3> QED BY <3>1, <3>2
  <2>7. z = [i \in 1..(N + F) |-> z[i]]
    BY <2>5
  <2> QED BY <2>5, <2>6, <2>7
<1>13. PICK in : in = Arrival(s, parts)
  OBVIOUS
<1>14. /\ in.n = -2 <=> Uneven(s, z)
       /\ ~Uneven(s, z) => FanOut(s, in) = Width(s, z)
  <2>1. flow.merge[s] \in {"wait_all", "zip"}
    BY StepFacts DEF Merges
  <2> QED BY <1>12, <1>13, <2>1, ArrivalMeans
<1>15. r = Gate(st, s, p, in)
  <2>1. p.ready /\ p.from = edges
    BY <1>2
  <2>2. [i \in DOMAIN p.from |-> Held(st, p.from[i])] = held
    BY <1>1, <1>5, <2>1
  <2>3. Barrier(st, s, p) = Gate(st, s, p, in)
    BY <1>6, <1>7, <1>13, <2>1, <2>2 DEF Barrier
  <2> QED BY <1>3, <2>3 DEF Read
<1>16. Skips(m, s) <=> \E i \in DOMAIN p.from : ~Admits(flow.when[s], st[p.from[i]].verdict)
  <2>1. p.from = edges
    BY <1>2
  <2>2. ASSUME NEW i \in 1..N PROVE m[edges[i]].v = st[edges[i]].verdict
    <3>1. PICK u \in Names : u = edges[i] /\ m[u] = Says(st, u)
      BY <1>4
    <3> QED BY <3>1 DEF Says
  <2> QED BY <1>1, <2>1, <2>2 DEF Skips, Admits
<1>17. /\ r.gate = IF Skips(m, s) THEN "skip" ELSE IF in.n = -2 THEN "refused" ELSE "start"
       /\ r.in = in
  BY <1>2, <1>15, <1>16 DEF Gate
<1> QED BY <1>11, <1>14, <1>17

\* The fate of a shard that is over is its last container's.
LEMMA FateMeans ==
  ASSUME NEW st \in Document, NEW s \in Names, NEW i \in DOMAIN st[s].shards,
         Fated(st, fate), Builds(s), NEW sh, sh = st[s].shards[i],
         TaskOver(sh), Judged(s, i, sh, fate)
  PROVE  FateOf(s, i) = sh.out
<1>1. PICK own : own = {f \in fate : f.step = s /\ f.shard = i}
  OBVIOUS
<1>2. sh \in ShardType
  BY DEF Document, StepType
<1>3. PICK f0 : f0 = Fate(s, i, sh.attempt, sh.out)
  OBVIOUS
<1>4. f0 \in own /\ f0.attempt = sh.attempt /\ f0.out = sh.out
  BY <1>1, <1>3 DEF Judged, Fate
<1>5. \A g \in own : g.attempt \in Nat /\ g.attempt <= sh.attempt
  BY <1>1 DEF Fated
<1>6. \A f \in own : f.attempt = sh.attempt => f = f0
  BY <1>1, <1>4 DEF Fated
<1>7. PICK c : c = CHOOSE f \in own : \A g \in own : g.attempt <= f.attempt
  OBVIOUS
<1>8. c \in own /\ \A g \in own : g.attempt <= c.attempt
  <2>1. \A g \in own : g.attempt <= f0.attempt
    BY <1>4, <1>5
  <2> QED BY <1>4, <1>7, <2>1
<1>9. c = f0
  <2>1. c.attempt \in Nat /\ c.attempt <= sh.attempt /\ sh.attempt <= c.attempt
    BY <1>4, <1>5, <1>8
  <2>2. sh.attempt \in Nat
    BY <1>2 DEF ShardType
  <2> QED BY <1>6, <1>8, <2>1, <2>2
<1>10. FateOf(s, i) = c.out
  <2>1. own # {}
    BY <1>4
  <2> QED BY <1>1, <1>7, <2>1 DEF FateOf
<1> QED BY <1>4, <1>9, <1>10

\* What a step's shards came to is the outcome of so many.
LEMMA OutcomeMeans ==
  ASSUME NEW st \in Document, NEW s \in Names, st[s].shards # <<>>,
         \A i \in DOMAIN st[s].shards : TaskOver(st[s].shards[i]),
         Fated(st, fate), Heard(st, fate),
         NEW w \in Nat, w = Len(st[s].shards)
  PROVE  Outcome(s, w) = [v |-> StepVerdict(st[s].shards), n |-> Items(st[s].shards)]
<1>1. PICK sh \in Seq(ShardType) : sh = st[s].shards
  BY DEF Document, StepType
<1>2. DOMAIN sh = 1..w /\ w # 0
  BY <1>1
<1>3. \A i \in 1..w : /\ sh[i] \in ShardType /\ TaskOver(sh[i]) /\ Judged(s, i, sh[i], fate)
                      /\ sh[i].task \in {"succeeded", "failed"}
                      /\ sh[i].out # None <=> sh[i].task = "succeeded"
  <2>1. \A i \in 1..w : sh[i] \in ShardType /\ TaskOver(sh[i]) /\ Judged(s, i, sh[i], fate)
    BY <1>1, <1>2 DEF Heard
  <2>2. \A i \in 1..w : /\ sh[i].task \in {"succeeded", "failed"}
                        /\ sh[i].out # None <=> sh[i].task = "succeeded"
    BY <2>1 DEF TaskOver, Judged
  <2> QED BY <2>1, <2>2
<1>4. PICK seen : seen = {sh[i].task : i \in 1..w}
  OBVIOUS
<1>5. seen \subseteq {"succeeded", "failed"}
  BY <1>3, <1>4
<1>6. StepVerdict(sh) = IF "failed" \in seen THEN "failed" ELSE "succeeded"
  <2>1. seen \cap {"pending", "dispatched"} = {} /\ "cancelled" \notin seen
    BY <1>5
  <2> QED BY <1>2, <1>4, <2>1 DEF StepVerdict
<1>7. CASE ~Builds(s)
  <2>1. \A i \in 1..w : sh[i].task = "failed" /\ sh[i].out = None
    BY <1>3, <1>7 DEF Judged
  <2>2. "failed" \in seen
    BY <1>2, <1>4, <2>1
  <2>3. Items(sh) = 0
    <3>1. PICK ns : ns = [i \in 1..w |-> IF sh[i].out # None THEN sh[i].out.n ELSE 0]
      OBVIOUS
    <3>2. \A i \in 1..w : ns[i] = 0
      BY <2>1, <3>1
    <3>3. ns = [i \in 1..w |-> 0]
      BY <3>1, <3>2
    <3>4. ns \in Seq(Nat) /\ DOMAIN ns = 1..w
      BY <3>3
    <3>5. Total(ns) = 0
      BY <3>2, <3>4, TotalZeros
    <3> QED BY <1>2, <3>1, <3>5 DEF Items
  <2>4. Outcome(s, w) = [v |-> "failed", n |-> 0]
    BY <1>2, <1>7 DEF Outcome, Builds
  <2> QED BY <1>1, <1>6, <2>2, <2>3, <2>4
<1>8. CASE Builds(s)
  <2>1. PICK outs : outs = [i \in 1..w |-> FateOf(s, i)]
    OBVIOUS
  <2>2. ASSUME NEW i \in 1..w PROVE outs[i] = sh[i].out
    <3>1. FateOf(s, i) = sh[i].out
      <4>1. i \in DOMAIN st[s].shards /\ TaskOver(sh[i]) /\ Judged(s, i, sh[i], fate)
        BY <1>1, <1>2, <1>3
      <4> QED BY <1>1, <1>8, <4>1, FateMeans
    <3> QED BY <2>1, <3>1
  <2>3. None \in Range(outs) <=> "failed" \in seen
    <3>1. None \in Range(outs) <=> \E i \in 1..w : sh[i].out = None
      BY <2>1, <2>2 DEF Range
    <3>2. "failed" \in seen <=> \E i \in 1..w : sh[i].task = "failed"
      BY <1>4
    <3> QED BY <1>3, <3>1, <3>2
  <2>4. [i \in 1..w |-> IF outs[i] = None THEN 0 ELSE outs[i].n]
          = [i \in 1..w |-> IF sh[i].out # None THEN sh[i].out.n ELSE 0]
    BY <2>2
  <2>5. Total([i \in 1..w |-> IF outs[i] = None THEN 0 ELSE outs[i].n]) = Items(sh)
    BY <1>2, <2>4 DEF Items
  <2>6. Outcome(s, w) = [v |-> IF None \in Range(outs) THEN "failed" ELSE "succeeded",
                         n |-> Total([i \in 1..w |-> IF outs[i] = None THEN 0 ELSE outs[i].n])]
    BY <1>8, <2>1 DEF Outcome, Builds
  <2> QED BY <1>1, <1>6, <2>3, <2>5, <2>6
<1> QED BY <1>7, <1>8

\* A step of no shards comes to nothing, and succeeds.
LEMMA OutcomeOfNone ==
  ASSUME NEW s
  PROVE  Outcome(s, 0) = [v |-> "succeeded", n |-> 0]
<1>1. PICK outs : outs = [i \in 1..0 |-> FateOf(s, i)]
  OBVIOUS
<1>2. None \notin Range(outs)
  BY <1>1 DEF Range
<1>3. PICK ns : ns = [i \in 1..0 |-> IF outs[i] = None THEN 0 ELSE outs[i].n]
  OBVIOUS
<1>4. ns \in Seq(Nat) /\ \A i \in DOMAIN ns : ns[i] = 0
  BY <1>3
<1>5. Total(ns) = 0
  BY <1>4, TotalZeros
<1>6. Outcome(s, 0) = IF ~flow.builds[s] THEN [v |-> "succeeded", n |-> 0]
                      ELSE [v |-> IF None \in Range(outs) THEN "failed" ELSE "succeeded", n |-> Total(ns)]
  BY <1>1, <1>3 DEF Outcome
<1> QED BY <1>2, <1>5, <1>6

\* A step that ended came to what it means, where its needs did.
LEMMA StepMeans ==
  ASSUME flow \in Flows, clock \in Nat, NEW st \in Document, Shaped(st), Divided(st),
         Fated(st, fate), Heard(st, fate),
         NEW s \in Names, flow.merge[s] # "first", st[s].verdict \in Terminal,
         \A i \in DOMAIN flow.needs[s] : ~EdgeWaiting(st, flow.needs[s][i]),
         EndedAs(s, Read(st, s), st[s]),
         NEW m, \A i \in DOMAIN flow.needs[s] : m[flow.needs[s][i]] = Says(st, flow.needs[s][i])
  PROVE  MeaningOf(m, s) = Says(st, s)
<1>1. PICK r : r = Read(st, s)
  OBVIOUS
<1>2. PICK z : z = Sizes(m, s)
  OBVIOUS
<1>3. \A i \in DOMAIN flow.needs[s] : st[flow.needs[s][i]].port # None
  <2> SUFFICES ASSUME NEW i \in DOMAIN flow.needs[s] PROVE st[flow.needs[s][i]].port # None
    OBVIOUS
  <2>1. PICK u \in Names : u = flow.needs[s][i]
    BY NeedsFacts
  <2>2. ~EdgeWaiting(st, u) /\ st[u].verdict # "cancelled"
    BY <2>1 DEF Divided
  <2> QED BY <2>1, <2>2, OverHasPort
<1>4. /\ Skips(m, s) => r.gate = "skip"
      /\ ~Skips(m, s) /\ Uneven(s, z) => r.gate = "refused"
      /\ ~Skips(m, s) /\ ~Uneven(s, z) => r.gate = "start" /\ FanOut(s, r.in) = Width(s, z)
  BY <1>1, <1>2, <1>3, ReadMeans
<1>5. MeaningOf(m, s) =
        IF Skips(m, s) THEN [v |-> "skipped", n |-> 0]
        ELSE IF Uneven(s, z) \/ flow.cond[s] = "error" THEN [v |-> "failed", n |-> 0]
        ELSE IF flow.cond[s] = "false" THEN [v |-> "skipped", n |-> 0]
        ELSE Outcome(s, Width(s, z))
  BY <1>2 DEF MeaningOf, Skips
<1>6. EndedAs(s, r, st[s])
  BY <1>1
<1>7. PICK x : x = st[s] /\ Says(st, s) = [v |-> x.verdict, n |-> x.port.n]
  BY DEF Says
<1>8. CASE Skips(m, s)
  <2>1. x.verdict = "skipped" /\ x.port.n = 0
    BY <1>4, <1>6, <1>7, <1>8 DEF EndedAs, EndsAtOnce
  <2> QED BY <1>5, <1>7, <1>8, <2>1
<1>9. CASE ~Skips(m, s) /\ Uneven(s, z)
  <2>1. x.verdict = "failed" /\ x.port.n = 0
    BY <1>4, <1>6, <1>7, <1>9 DEF EndedAs, EndsAtOnce
  <2> QED BY <1>5, <1>7, <1>9, <2>1
<1>10. CASE ~Skips(m, s) /\ ~Uneven(s, z)
  <2>1. r.gate = "start" /\ FanOut(s, r.in) = Width(s, z)
    BY <1>4, <1>10
  <2>2. CASE flow.cond[s] = "error"
    <3>1. x.verdict = "failed" /\ x.port.n = 0
      BY <1>6, <1>7, <2>1, <2>2 DEF EndedAs, EndsAtOnce, Runs
    <3> QED BY <1>5, <1>7, <1>10, <2>2, <3>1
  <2>3. CASE flow.cond[s] = "false"
    <3>1. x.verdict = "skipped" /\ x.port.n = 0
      BY <1>6, <1>7, <2>1, <2>3 DEF EndedAs, EndsAtOnce, Runs
    <3> QED BY <1>5, <1>7, <1>10, <2>3, <3>1
  <2>4. CASE flow.cond[s] \notin {"error", "false"}
    <3>1. MeaningOf(m, s) = Outcome(s, FanOut(s, r.in))
      BY <1>5, <1>10, <2>1, <2>4
    <3>2. PICK w \in Nat : w = FanOut(s, r.in)
      BY <1>1, <2>1, ReadFacts
    <3>3. \/ w = 0 /\ x.verdict = "succeeded" /\ x.port.n = 0
          \/ /\ w = Len(x.shards) /\ x.shards # <<>>
             /\ x.verdict = StepVerdict(x.shards) /\ x.port.n = Items(x.shards)
      BY <1>6, <1>7, <2>1, <2>4, <3>2 DEF EndedAs, EndsAtOnce
    <3>4. CASE w = 0 /\ x.verdict = "succeeded" /\ x.port.n = 0
      BY <1>7, <3>1, <3>2, <3>4, OutcomeOfNone
    <3>5. CASE /\ w = Len(x.shards) /\ x.shards # <<>>
               /\ x.verdict = StepVerdict(x.shards) /\ x.port.n = Items(x.shards)
      <4>1. \A i \in DOMAIN st[s].shards : TaskOver(st[s].shards[i])
        <5>1. st[s].verdict \in {"succeeded", "failed", "skipped"}
          BY DEF Divided, Terminal
        <5> QED BY <5>1 DEF Shaped
      <4>2. Outcome(s, w) = [v |-> StepVerdict(x.shards), n |-> Items(x.shards)]
        BY <1>7, <3>5, <4>1, OutcomeMeans
      <4> QED BY <1>7, <3>1, <3>2, <3>5, <4>2
    <3> QED BY <3>3, <3>4, <3>5
  <2> QED BY <2>2, <2>3, <2>4
<1> QED BY <1>8, <1>9, <1>10

\* What the graph means, step by step, as far as the k-th.
SaidUpTo(st, k) == [t \in {flow.order[j] : j \in 1..k} |-> Says(st, t)]

MeaningNext(m, s) ==
  [t \in DOMAIN m \cup {s} |-> IF t = s THEN MeaningOf(m, s) ELSE m[t]]

\* Where every step ended, and did so as it says, the document says what the graph means.
LEMMA MeaningSaid ==
  ASSUME flow \in Flows, clock \in Nat, NEW st \in Document, Shaped(st), Divided(st),
         NoFirst, Follows(st), Fated(st, fate), Heard(st, fate),
         \A s \in Names : st[s].verdict \in Terminal
  PROVE  \A s \in Names : Meaning[s] = Says(st, s)
<1>1. PICK L \in Nat : L = Len(flow.order)
  BY OrderFacts
<1>2. ASSUME NEW k \in 1..L
      PROVE  SaidUpTo(st, k) = MeaningNext(SaidUpTo(st, k - 1), flow.order[k])
  <2>1. PICK s \in Names : s = flow.order[k]
    BY <1>1, OrderFacts
  <2>2. PICK m : m = SaidUpTo(st, k - 1)
    OBVIOUS
  <2>3. DOMAIN m = {flow.order[j] : j \in 1..(k - 1)} /\ \A t \in DOMAIN m : m[t] = Says(st, t)
    BY <2>2 DEF SaidUpTo
  <2>4. ASSUME NEW i \in DOMAIN flow.needs[s] PROVE m[flow.needs[s][i]] = Says(st, flow.needs[s][i])
    <3>1. \E j \in 1..(k - 1) : flow.needs[s][i] = flow.order[j]
      <4>1. \A e \in DOMAIN flow.needs[flow.order[k]] :
              \E j \in 1..(k - 1) : flow.needs[flow.order[k]][e] = flow.order[j]
        BY <1>1, <1>2, OrderFacts
      <4> QED BY <2>1, <4>1
    <3> QED BY <2>3, <3>1
  <2>5. MeaningOf(m, s) = Says(st, s)
    <3>1. /\ \A i \in DOMAIN flow.needs[s] : ~EdgeWaiting(st, flow.needs[s][i])
          /\ EndedAs(s, Read(st, s), st[s]) /\ flow.merge[s] # "first"
      BY NoneFirst DEF Follows
    <3> QED BY <2>4, <3>1, StepMeans
  <2>6. {flow.order[j] : j \in 1..k} = DOMAIN m \cup {s}
    <3>1. \A j \in 1..k : j = k \/ j \in 1..(k - 1)
      OBVIOUS
    <3>2. \A j \in 1..(k - 1) : j \in 1..k
      OBVIOUS
    <3>3. k \in 1..k
      OBVIOUS
    <3> QED BY <2>1, <2>3, <3>1, <3>2, <3>3
  <2>7. \A t \in DOMAIN m \cup {s} : Says(st, t) = IF t = s THEN MeaningOf(m, s) ELSE m[t]
    BY <2>3, <2>5
  <2>8. SaidUpTo(st, k) = [t \in DOMAIN m \cup {s} |-> IF t = s THEN MeaningOf(m, s) ELSE m[t]]
    BY <2>6, <2>7 DEF SaidUpTo
  <2> QED BY <2>1, <2>2, <2>8 DEF MeaningNext
<1>3. SaidUpTo(st, 0) = [s \in {} |-> {}]
  <2>1. {flow.order[j] : j \in 1..0} = {}
    OBVIOUS
  <2> QED BY <2>1 DEF SaidUpTo
<1>4. PICK x : x = [k \in 0..L |-> SaidUpTo(st, k)]
  OBVIOUS
<1>5. x = [k \in 0..L |-> IF k = 0 THEN [s \in {} |-> {}] ELSE MeaningNext(x[k - 1], flow.order[k])]
  <2>1. ASSUME NEW k \in 0..L
        PROVE  SaidUpTo(st, k) =
                 IF k = 0 THEN [s \in {} |-> {}] ELSE MeaningNext(x[k - 1], flow.order[k])
    <3>1. CASE k = 0
      BY <1>3, <3>1
    <3>2. CASE k # 0
      <4>1. k \in 1..L /\ k - 1 \in 0..L
        BY <3>2
      <4>2. x[k - 1] = SaidUpTo(st, k - 1)
        BY <1>4, <4>1
      <4> QED BY <1>2, <3>2, <4>1, <4>2
    <3> QED BY <3>1, <3>2
  <2> QED BY <1>4, <2>1
<1> DEFINE G == CHOOSE g : g = [k \in 0..L |-> IF k = 0 THEN [s \in {} |-> {}]
                                               ELSE MeaningNext(g[k - 1], flow.order[k])]
<1>6. G = [k \in 0..L |-> IF k = 0 THEN [s \in {} |-> {}] ELSE MeaningNext(G[k - 1], flow.order[k])]
  BY <1>5
<1>7. Meaning = G[L]
  BY <1>1 DEF Meaning, MeaningNext
<1> HIDE DEF G
<1> DEFINE Q == {k \in 0..L : G[k] = x[k]}
<1>8. 0 \in Q
  <2>1. G[0] = [s \in {} |-> {}]
    BY <1>6
  <2>2. x[0] = SaidUpTo(st, 0)
    BY <1>4
  <2> QED BY <1>3, <2>1, <2>2
<1>9. ASSUME NEW k \in 1..L, k - 1 \in Q PROVE k \in Q
  <2>1. k \in 0..L /\ k # 0 /\ G[k - 1] = x[k - 1]
    BY <1>9
  <2>2. G[k] = MeaningNext(G[k - 1], flow.order[k])
    BY <1>6, <2>1
  <2>3. x[k] = MeaningNext(x[k - 1], flow.order[k])
    BY <1>5, <2>1
  <2> QED BY <2>1, <2>2, <2>3
<1>10. L \in Q
  <2> HIDE DEF Q
  <2>1. \A k \in 0..L : k \in Q
    BY <1>8, <1>9, UpTo
  <2> QED BY <2>1
<1>11. Meaning = SaidUpTo(st, L)
  BY <1>4, <1>7, <1>10
<1>12. \A s \in Names : s \in {flow.order[j] : j \in 1..L}
  BY <1>1, OrderFacts
<1> QED BY <1>11, <1>12 DEF SaidUpTo

-----------------------------------------------------------------------------
(* Every step of a run keeps what is known of its containers.              *)

\* The ends of steps go on being as they were where what is over stays, and what
\* ends does as it reads.
LEMMA FollowsFacts ==
  ASSUME flow \in Flows, NoFirst, NEW st \in Document, Shaped(st), Divided(st), Follows(st),
         NEW e \in Document,
         \A u \in Names :
           /\ st[u].verdict \in Terminal => e[u] = st[u]
           /\ e[u].verdict = "running" => Runs(u) /\ e[u].shards # <<>>
           /\ st[u].verdict \notin Terminal /\ e[u].verdict \in Terminal =>
                /\ \A i \in DOMAIN flow.needs[u] : ~EdgeWaiting(st, flow.needs[u][i])
                /\ EndedAs(u, Read(st, u), e[u])
  PROVE  Follows(e)
<1> SUFFICES ASSUME NEW s \in Names, e[s].verdict \in Terminal
             PROVE  /\ \A i \in DOMAIN flow.needs[s] : ~EdgeWaiting(e, flow.needs[s][i])
                    /\ EndedAs(s, Read(e, s), e[s])
  BY DEF Follows
<1>1. /\ \A i \in DOMAIN flow.needs[s] : ~EdgeWaiting(st, flow.needs[s][i])
      /\ EndedAs(s, Read(st, s), e[s])
  BY DEF Follows
<1>2. ASSUME NEW i \in DOMAIN flow.needs[s], NEW u, u = flow.needs[s][i]
      PROVE  e[u] = st[u] /\ st[u].port # None
  <2>1. u \in Names
    BY <1>2, NeedsFacts
  <2>2. ~EdgeWaiting(st, u) /\ st[u].verdict # "cancelled"
    BY <1>1, <1>2, <2>1 DEF Divided
  <2>3. e[u] = st[u]
    BY <2>1, <2>2 DEF EdgeWaiting
  <2> QED BY <2>1, <2>2, <2>3, OverHasPort
<1>3. \A i \in DOMAIN flow.needs[s] :
        e[flow.needs[s][i]] = st[flow.needs[s][i]] /\ st[flow.needs[s][i]].port # None
  BY <1>2
<1>4. Read(e, s) = Read(st, s)
  <2>1. flow.merge[s] # "first"
    BY NoneFirst
  <2>2. \A i \in DOMAIN flow.needs[s] :
          /\ e[flow.needs[s][i]].verdict = st[flow.needs[s][i]].verdict
          /\ e[flow.needs[s][i]].port = st[flow.needs[s][i]].port
          /\ st[flow.needs[s][i]].port # None
    BY <1>3
  <2> QED BY <2>1, <2>2, ReadSame
<1>5. \A i \in DOMAIN flow.needs[s] : ~EdgeWaiting(e, flow.needs[s][i])
  BY <1>1, <1>3 DEF EdgeWaiting
<1> QED BY <1>1, <1>4, <1>5

\* A step that ends as it advances does so as it reads.
LEMMA AdvanceFollows ==
  ASSUME flow \in Flows, clock \in Nat, NoFirst, NEW st \in Document, Shaped(st), Divided(st),
         Follows(st), NEW s \in Names, NEW e \in Document, Advances(st, e, s)
  PROVE  Follows(e)
<1>1. CASE e = st
  BY <1>1
<1>2. CASE (Passes(st, e, s) \/ Starting(st, e, s) \/ Settles(st, e, s))
           /\ \A u \in Names \ {s} : e[u] = st[u]
  <2>1. st[s].verdict \notin Terminal
    BY <1>2 DEF Passes, Starting, Settles, Terminal
  <2>2. Divided(e)
    BY AdvanceDivided
  <2>3. flow.merge[s] # "first"
    BY NoneFirst
  <2>4. /\ e[s].verdict = "running" => Runs(s) /\ e[s].shards # <<>>
        /\ e[s].verdict \in Terminal =>
             /\ \A i \in DOMAIN flow.needs[s] : ~EdgeWaiting(st, flow.needs[s][i])
             /\ EndedAs(s, Read(st, s), e[s])
    <3>1. CASE Passes(st, e, s)
      <4>1. PICK v \in {"skipped", "failed", "succeeded"} :
              /\ EndsAtOnce(s, Read(st, s), v)
              /\ e[s] = [verdict |-> v, shards |-> <<>>, port |-> [n |-> 0, at |-> clock]]
        BY <3>1 DEF Passes
      <4>2. e[s].verdict = v /\ e[s].port.n = 0 /\ v # "running"
        BY <4>1
      <4>3. EndedAs(s, Read(st, s), e[s])
        BY <4>1, <4>2 DEF EndedAs
      <4>4. \A i \in DOMAIN flow.needs[s] : ~EdgeWaiting(st, flow.needs[s][i])
        BY <2>3, <3>1 DEF Passes, Waits
      <4> QED BY <4>2, <4>3, <4>4
    <3>2. CASE Starting(st, e, s)
      <4>1. PICK w \in Nat \ {0} :
              e[s] = [verdict |-> "running", shards |-> [i \in 1..w |-> NewShard], port |-> None]
        BY <3>2 DEF Starting
      <4>2. PICK sh : sh = [i \in 1..w |-> NewShard]
        OBVIOUS
      <4>3. sh # <<>>
        <5>1. DOMAIN sh = 1..w /\ 1 \in 1..w
          BY <4>2
        <5>2. DOMAIN <<>> = {}
          OBVIOUS
        <5> QED BY <5>1, <5>2
      <4>4. e[s].verdict = "running" /\ e[s].shards = sh
        BY <4>1, <4>2
      <4> QED BY <3>2, <4>3, <4>4 DEF Starting, Runs, Terminal
    <3>3. CASE Settles(st, e, s)
      <4>1. PICK sh \in Seq(ShardType) : sh = st[s].shards
        BY DEF Document, StepType
      <4>2. PICK v \in {"failed", "cancelled", "succeeded"} :
              /\ v = StepVerdict(sh)
              /\ e[s] = [verdict |-> v, shards |-> sh,
                         port |-> IF v = "cancelled" THEN st[s].port ELSE Publish(sh)]
        BY <3>3, <4>1 DEF Settles
      <4>3. e[s].verdict = v /\ e[s].shards = sh
        BY <4>2
      <4>4. v # "cancelled"
        BY <2>2, <4>3 DEF Divided
      <4>5. e[s].port.n = Items(sh)
        <5>1. e[s].port = Publish(sh)
          BY <4>2, <4>4
        <5> QED BY <5>1, PublishItems
      <4>6. /\ st[s].verdict = "running"
            /\ Runs(s) /\ sh # <<>> /\ Stands(st, s)
            /\ \A i \in DOMAIN flow.needs[s] : ~EdgeWaiting(st, flow.needs[s][i])
        BY <3>3, <4>1 DEF Settles, Follows, Divided
      <4>7. EndedAs(s, Read(st, s), e[s])
        BY <4>1, <4>2, <4>3, <4>5, <4>6 DEF EndedAs, Stands
      <4> QED BY <4>3, <4>6, <4>7
    <3> QED BY <1>2, <3>1, <3>2, <3>3
  <2>5. \A u \in Names :
          /\ st[u].verdict \in Terminal => e[u] = st[u]
          /\ e[u].verdict = "running" => Runs(u) /\ e[u].shards # <<>>
          /\ st[u].verdict \notin Terminal /\ e[u].verdict \in Terminal =>
               /\ \A i \in DOMAIN flow.needs[u] : ~EdgeWaiting(st, flow.needs[u][i])
               /\ EndedAs(u, Read(st, u), e[u])
    <3> SUFFICES ASSUME NEW u \in Names
                 PROVE  /\ st[u].verdict \in Terminal => e[u] = st[u]
                        /\ e[u].verdict = "running" => Runs(u) /\ e[u].shards # <<>>
                        /\ st[u].verdict \notin Terminal /\ e[u].verdict \in Terminal =>
                             /\ \A i \in DOMAIN flow.needs[u] : ~EdgeWaiting(st, flow.needs[u][i])
                             /\ EndedAs(u, Read(st, u), e[u])
      OBVIOUS
    <3>1. CASE u = s
      BY <2>1, <2>4, <3>1
    <3>2. CASE u # s
      <4>1. e[u] = st[u]
        BY <1>2, <3>2
      <4> QED BY <4>1 DEF Follows
    <3> QED BY <3>1, <3>2
  <2> QED BY <2>5, FollowsFacts
<1>3. \A u \in Names : ~CalledOffBy(st, e, s, u)
  BY NoneFirst DEF CalledOffBy
<1> QED BY <1>1, <1>2, <1>3 DEF Advances

\* Shards change within a step that runs, and the ends of steps do not.
LEMMA SameFollows ==
  ASSUME flow \in Flows, NoFirst, NEW st \in Document, Shaped(st), Divided(st), Follows(st),
         NEW e \in Document,
         \A u \in Names :
           /\ e[u].verdict = st[u].verdict /\ DOMAIN e[u].shards = DOMAIN st[u].shards
           /\ st[u].verdict # "running" => e[u] = st[u]
  PROVE  Follows(e)
<1> SUFFICES ASSUME NEW u \in Names
             PROVE  /\ st[u].verdict \in Terminal => e[u] = st[u]
                    /\ e[u].verdict = "running" => Runs(u) /\ e[u].shards # <<>>
                    /\ ~(st[u].verdict \notin Terminal /\ e[u].verdict \in Terminal)
  BY FollowsFacts
<1>1. e[u].verdict = "running" => Runs(u) /\ st[u].shards # <<>>
  BY DEF Follows
<1>2. st[u].shards # <<>> => e[u].shards # <<>>
  <2>1. PICK a \in Seq(ShardType), b \in Seq(ShardType) : a = e[u].shards /\ b = st[u].shards
    BY DEF Document, StepType
  <2>2. DOMAIN a = DOMAIN b
    BY <2>1
  <2>3. b # <<>> => DOMAIN b # {}
    <3>1. PICK N \in Nat : N = Len(b) /\ DOMAIN b = 1..N
      OBVIOUS
    <3>2. N = 0 => b = <<>>
      BY <3>1
    <3>3. N # 0 => 1 \in DOMAIN b
      BY <3>1
    <3> QED BY <3>2, <3>3
  <2>4. a = <<>> => DOMAIN a = {}
    OBVIOUS
  <2> QED BY <2>1, <2>2, <2>3, <2>4
<1> QED BY <1>1, <1>2 DEF Terminal

\* A sweep keeps the ends of steps.
LEMMA SweepFollows ==
  ASSUME flow \in Flows, clock \in Nat, NoFirst, NEW st \in Document, Shaped(st), Divided(st),
         Follows(st), NEW a, a = Sweep(st)
  PROVE  Follows(a)
<1>1. PICK x : Sweeps(x, st) /\ Sweep(st) = x[Size]
  BY SweepExists
<1>2. PICK L \in Nat : L = Size
  BY OrderFacts DEF Size
<1>3. /\ \A k \in 0..L : x[k] \in Document /\ Shaped(x[k])
      /\ \A k \in 1..L : /\ flow.order[k] \in Names /\ k - 1 \in 0..L /\ k \in 0..L
                         /\ Advances(x[k - 1], x[k], flow.order[k])
  BY <1>1, <1>2, SweepShaped
<1> DEFINE Q == {k \in 0..L : Divided(x[k]) /\ Follows(x[k])}
<1>4. 0 \in Q
  BY <1>1 DEF Sweeps
<1>5. ASSUME NEW k \in 1..L, k - 1 \in Q PROVE k \in Q
  <2>1. PICK p \in Document, q \in Document, s \in Names :
          p = x[k - 1] /\ q = x[k] /\ s = flow.order[k]
    BY <1>3
  <2>2. Shaped(p) /\ Divided(p) /\ Follows(p) /\ Advances(p, q, s) /\ k \in 0..L
    BY <1>3, <1>5, <2>1
  <2>3. Divided(q) /\ Follows(q)
    BY <2>2, AdvanceDivided, AdvanceFollows
  <2> QED BY <2>1, <2>2, <2>3
<1>6. L \in Q
  <2> HIDE DEF Q
  <2>1. \A k \in 0..L : k \in Q
    BY <1>4, <1>5, UpTo
  <2> QED BY <2>1
<1> QED BY <1>1, <1>2, <1>6

\* No shard of st is lost in e, and none goes back to an earlier attempt.
Grows(st, e) ==
  \A u \in Names : \A i \in DOMAIN st[u].shards :
    i \in DOMAIN e[u].shards /\ st[u].shards[i].attempt <= e[u].shards[i].attempt

\* The shards of the containers cs are in e what they are in st.
Stay(cs, st, e) ==
  \A c \in cs : e[c.step].shards[c.shard] = st[c.step].shards[c.shard]

\* What is known of the containers that are left, where their shards stay and every
\* shard is judged.
LEMMA KnownFacts ==
  ASSUME NEW st \in Document, NEW e \in Document, NEW bs \in SUBSET Box, NEW fs, Known(st, bs, fs),
         NEW cs \in SUBSET bs,
         Grows(st, e), Stay(cs, st, e), Heard(e, fs)
  PROVE  Known(e, cs, fs)
<1>1. Fated(e, fs)
  <2>1. /\ fs \in SUBSET [step : Names, shard : Nat, attempt : Nat, out : Out]
        /\ \A f, g \in fs : f.step = g.step /\ f.shard = g.shard /\ f.attempt = g.attempt => f = g
    BY DEF Known, Fated
  <2>2. ASSUME NEW f \in fs
        PROVE  f.shard \in DOMAIN e[f.step].shards /\ f.attempt <= e[f.step].shards[f.shard].attempt
    <3>1. PICK u \in Names, i \in Nat : u = f.step /\ i = f.shard /\ i \in DOMAIN st[u].shards
      BY <2>1 DEF Known, Fated
    <3>2. f.attempt \in Nat /\ f.attempt <= st[u].shards[i].attempt
      BY <2>1, <3>1 DEF Known, Fated
    <3>3. i \in DOMAIN e[u].shards /\ st[u].shards[i].attempt <= e[u].shards[i].attempt
      BY <3>1 DEF Grows
    <3>4. st[u].shards[i].attempt \in Nat /\ e[u].shards[i].attempt \in Nat
      <4>1. PICK a \in Seq(ShardType), b \in Seq(ShardType) : a = st[u].shards /\ b = e[u].shards
        BY DEF Document, StepType
      <4>2. a[i] \in ShardType /\ b[i] \in ShardType
        BY <3>1, <3>3, <4>1
      <4> QED BY <4>1, <4>2 DEF ShardType
    <3> QED BY <3>1, <3>2, <3>3, <3>4
  <2> QED BY <2>1, <2>2 DEF Fated
<1>2. Reported(e, cs, fs)
  <2>1. ASSUME NEW c \in cs
        PROVE  /\ c.shard \in DOMAIN e[c.step].shards
               /\ e[c.step].shards[c.shard].attempt = c.attempt
               /\ e[c.step].shards[c.shard].task = "dispatched"
               /\ c.over => Fate(c.step, c.shard, c.attempt, c.out) \in fs
               /\ ~c.over => \A f \in fs : f.step = c.step /\ f.shard = c.shard => f.attempt # c.attempt
    <3>1. c \in bs /\ c.step \in Names
      BY DEF Box
    <3>2. /\ c.shard \in DOMAIN st[c.step].shards
          /\ st[c.step].shards[c.shard].attempt = c.attempt
          /\ st[c.step].shards[c.shard].task = "dispatched"
          /\ c.over => Fate(c.step, c.shard, c.attempt, c.out) \in fs
          /\ ~c.over => \A f \in fs : f.step = c.step /\ f.shard = c.shard => f.attempt # c.attempt
      BY <3>1 DEF Known, Reported
    <3>3. e[c.step].shards[c.shard] = st[c.step].shards[c.shard]
      BY DEF Stay
    <3>4. c.shard \in DOMAIN e[c.step].shards
      BY <3>1, <3>2 DEF Grows
    <3> QED BY <3>1, <3>2, <3>3, <3>4
  <2>2. \A b, c \in cs : b.step = c.step /\ b.shard = c.shard => b = c
    BY DEF Known, Reported
  <2> QED BY <2>1, <2>2 DEF Reported
<1> QED BY <1>1, <1>2 DEF Known

\* A sweep starts shards that have no fate yet, and changes no other.
LEMMA SweepKnown ==
  ASSUME flow \in Flows, clock \in Nat, NEW st \in Document, Shaped(st),
         NEW bs \in SUBSET Box, NEW fs, Known(st, bs, fs), NEW a \in Document, a = Sweep(st)
  PROVE  Known(a, bs, fs)
<1>1. ASSUME NEW u \in Names PROVE Evolves(st[u], a[u])
  <2>1. PICK x : Sweeps(x, st) /\ Sweep(st) = x[Size]
    BY SweepExists
  <2>2. PICK L \in Nat : L = Size
    BY OrderFacts DEF Size
  <2>3. 0 \in 0..Size /\ Size \in 0..Size /\ 0 <= Size
    BY <2>2
  <2>4. Evolves(x[0][u], x[Size][u])
    BY <2>1, <2>3, SweepEvolves
  <2> QED BY <2>1, <2>4 DEF Sweeps
<1>2. ASSUME NEW u \in Names
      PROVE  \/ a[u].shards = st[u].shards
             \/ st[u].shards = <<>> /\ \A i \in DOMAIN a[u].shards : a[u].shards[i] = NewShard
  <2>1. st[u].verdict \in {"pending", "running"} \cup Terminal
    BY DEF Document, StepType
  <2>2. st[u].verdict = "pending" => st[u].shards = <<>>
    BY DEF Shaped
  <2> QED BY <1>1, <2>1, <2>2 DEF Evolves
<1>3. ASSUME NEW u \in Names, NEW i \in DOMAIN st[u].shards
      PROVE  i \in DOMAIN a[u].shards /\ a[u].shards[i] = st[u].shards[i]
             /\ st[u].shards[i].attempt \in Nat
  <2>1. st[u].shards # <<>>
    OBVIOUS
  <2>2. st[u].shards[i] \in ShardType
    BY DEF Document, StepType
  <2> QED BY <1>2, <2>1, <2>2 DEF ShardType
<1>4. Heard(a, fs)
  <2> SUFFICES ASSUME NEW u \in Names, NEW i \in DOMAIN a[u].shards
               PROVE  Judged(u, i, a[u].shards[i], fs)
    BY DEF Heard
  <2>1. CASE a[u].shards = st[u].shards
    BY <2>1 DEF Known, Heard
  <2>2. CASE st[u].shards = <<>> /\ a[u].shards[i] = NewShard
    <3>1. \A f \in fs : f.step # u
      BY <2>2 DEF Known, Fated
    <3>2. NewShard.task = "pending" /\ NewShard.out = None
      BY DEF NewShard
    <3> QED BY <2>2, <3>1, <3>2 DEF Judged, TaskOver
  <2> QED BY <1>2, <2>1, <2>2
<1>5. Stay(bs, st, a)
  <2>1. \A c \in bs : c.step \in Names /\ c.shard \in DOMAIN st[c.step].shards
    BY DEF Known, Reported, Box
  <2> QED BY <1>3, <2>1 DEF Stay
<1>6. Grows(st, a)
  BY <1>3 DEF Grows
<1> QED BY <1>4, <1>5, <1>6, KnownFacts

\* What cannot be built fails with no fate.
LEMMA UnbuiltKnown ==
  ASSUME NEW a \in Document, Shaped(a), NEW bs \in SUBSET Box, NEW fs, Known(a, bs, fs),
         NEW d, d = FailUnbuilt(a)
  PROVE  Known(d, bs, fs)
<1>1. d \in Document
  BY FailUnbuiltFacts
<1>2. ASSUME NEW u \in Names
      PROVE  /\ DOMAIN d[u].shards = DOMAIN a[u].shards
             /\ \A i \in DOMAIN a[u].shards :
                  /\ d[u].shards[i].attempt = a[u].shards[i].attempt
                  /\ a[u].shards[i].task # "pending" => d[u].shards[i] = a[u].shards[i]
  BY UnbuiltShards
<1>3. ASSUME NEW u \in Names, NEW i \in DOMAIN a[u].shards
      PROVE  \/ d[u].shards[i] = a[u].shards[i]
             \/ /\ ~Builds(u) /\ a[u].shards[i].task = "pending"
                /\ d[u].shards[i] = [a[u].shards[i] EXCEPT !.task = "failed"]
  <2>1. CASE u \notin Unbuilt(a)
    BY <2>1 DEF FailUnbuilt
  <2>2. CASE u \in Unbuilt(a)
    <3>1. PICK sh \in Seq(ShardType) : sh = a[u].shards
      BY DEF Document, StepType
    <3>2. PICK y : y = [j \in DOMAIN sh |-> IF sh[j].task = "pending"
                                            THEN [sh[j] EXCEPT !.task = "failed"] ELSE sh[j]]
      OBVIOUS
    <3>3. d[u] = [a[u] EXCEPT !.shards = y]
      BY <2>2, <3>1, <3>2 DEF FailUnbuilt
    <3>4. a[u] = [verdict |-> a[u].verdict, shards |-> a[u].shards, port |-> a[u].port]
      BY DEF Document, StepType
    <3>5. d[u].shards = y
      BY <3>3, <3>4
    <3>6. ~Builds(u)
      BY <2>2 DEF Unbuilt
    <3> QED BY <3>1, <3>2, <3>5, <3>6
  <2> QED BY <2>1, <2>2
<1>4. Heard(d, fs)
  <2> SUFFICES ASSUME NEW u \in Names, NEW i \in DOMAIN d[u].shards
               PROVE  Judged(u, i, d[u].shards[i], fs)
    BY DEF Heard
  <2>1. i \in DOMAIN a[u].shards /\ Judged(u, i, a[u].shards[i], fs)
    BY <1>2 DEF Known, Heard
  <2>2. CASE d[u].shards[i] = a[u].shards[i]
    BY <2>1, <2>2
  <2>3. CASE /\ ~Builds(u) /\ a[u].shards[i].task = "pending"
             /\ d[u].shards[i] = [a[u].shards[i] EXCEPT !.task = "failed"]
    <3>1. PICK o \in ShardType : o = a[u].shards[i]
      BY <2>1 DEF Document, StepType
    <3>2. d[u].shards[i].task = "failed" /\ d[u].shards[i].out = o.out
      BY <2>3, <3>1 DEF ShardType
    <3>3. o.out = None
      BY <2>1, <2>3, <3>1 DEF Judged
    <3> QED BY <2>3, <3>2, <3>3 DEF Judged, TaskOver
  <2> QED BY <1>3, <2>1, <2>2, <2>3
<1>5. Stay(bs, a, d)
  <2> SUFFICES ASSUME NEW c \in bs PROVE d[c.step].shards[c.shard] = a[c.step].shards[c.shard]
    BY DEF Stay
  <2>1. /\ c.step \in Names /\ c.shard \in DOMAIN a[c.step].shards
        /\ a[c.step].shards[c.shard].task = "dispatched"
    BY DEF Known, Reported, Box
  <2> QED BY <1>2, <2>1
<1>6. Grows(a, d)
  <2> SUFFICES ASSUME NEW u \in Names, NEW i \in DOMAIN a[u].shards
               PROVE  i \in DOMAIN d[u].shards /\ a[u].shards[i].attempt <= d[u].shards[i].attempt
    BY DEF Grows
  <2>1. PICK o \in ShardType : o = a[u].shards[i]
    BY DEF Document, StepType
  <2>2. o.attempt \in Nat
    BY DEF ShardType
  <2> QED BY <1>2, <2>1, <2>2
<1> QED BY <1>1, <1>4, <1>5, <1>6, KnownFacts

\* Where nothing fails fast, nothing is called off.
LEMMA NoneCalledOff ==
  ASSUME Deterministic, NEW a \in Document, Divided(a), NEW d, d = Stopped(a)
  PROVE  \A u \in Names : d[u] = a[u]
<1> SUFFICES ASSUME NEW u \in Names PROVE d[u] = a[u]
  OBVIOUS
<1>1. a[u].verdict # "cancelled" /\ ~flow.failFast[u]
  BY DEF Divided, Deterministic
<1>2. CalledOff(a, u) = {}
  BY <1>1 DEF CalledOff
<1> QED BY <1>2, StoppedShards

\* What holds of a run's document, its containers and their fates.
Meant(st, bs, fs) == Divided(st) /\ Follows(st) /\ Known(st, bs, fs)

LEMMA DeterministicFacts == Deterministic => NoFirst
BY DEF Deterministic, NoFirst

\* What sweeps, fails what cannot be built and calls off keeps it.
LEMMA SweepMeant ==
  ASSUME flow \in Flows, clock \in Nat, NoFirst, NEW st \in Document, Shaped(st),
         NEW bs \in SUBSET Box, NEW fs, Meant(st, bs, fs), NEW a, a = Sweep(st)
  PROVE  a \in Document /\ Shaped(a) /\ Meant(a, bs, fs)
<1>1. Divided(st) /\ Follows(st) /\ Known(st, bs, fs)
  BY DEF Meant
<1>2. a \in Document /\ Shaped(a) /\ Divided(a)
  BY <1>1, SweepDivided
<1>3. Follows(a)
  BY <1>1, SweepFollows
<1>4. Known(a, bs, fs)
  BY <1>1, <1>2, SweepKnown
<1> QED BY <1>2, <1>3, <1>4 DEF Meant

LEMMA UnbuiltMeant ==
  ASSUME flow \in Flows, NoFirst, NEW a \in Document, Shaped(a),
         NEW bs \in SUBSET Box, NEW fs, Meant(a, bs, fs), NEW d, d = FailUnbuilt(a)
  PROVE  Meant(d, bs, fs)
<1>1. Divided(a) /\ Follows(a) /\ Known(a, bs, fs)
  BY DEF Meant
<1>2. Divided(d) /\ Known(d, bs, fs) /\ d \in Document
  BY <1>1, UnbuiltDivided, UnbuiltKnown, FailUnbuiltFacts
<1>3. \A u \in Names :
        /\ d[u].verdict = a[u].verdict /\ DOMAIN d[u].shards = DOMAIN a[u].shards
        /\ a[u].verdict # "running" => d[u] = a[u]
  <2> SUFFICES ASSUME NEW u \in Names
               PROVE  /\ d[u].verdict = a[u].verdict /\ DOMAIN d[u].shards = DOMAIN a[u].shards
                      /\ a[u].verdict # "running" => d[u] = a[u]
    OBVIOUS
  <2>1. d[u].verdict = a[u].verdict /\ DOMAIN d[u].shards = DOMAIN a[u].shards
    BY UnbuiltShards
  <2>2. ASSUME a[u].verdict # "running" PROVE d[u] = a[u]
    <3>1. Startable(a, u) = {}
      BY <2>2 DEF Startable
    <3> QED BY <3>1 DEF FailUnbuilt, Unbuilt
  <2> QED BY <2>1, <2>2
<1>4. Follows(d)
  BY <1>1, <1>2, <1>3, SameFollows
<1> QED BY <1>2, <1>4 DEF Meant

LEMMA StoppedMeant ==
  ASSUME flow \in Flows, Deterministic, NEW a \in Document, Shaped(a),
         NEW bs \in SUBSET Box, NEW fs, Meant(a, bs, fs), NEW d, d = Stopped(a)
  PROVE  Meant(d, bs, fs)
<1>1. \A u \in Names : d[u] = a[u]
  BY NoneCalledOff DEF Meant
<1>2. PICK x, y : x = d /\ y = a /\ x \in Document /\ y \in Document
  BY StoppedFacts
<1>3. x = y
  BY <1>1, <1>2 DEF Document
<1> QED BY <1>2, <1>3

\* So does a whole pass.
LEMMA RoundsMeant ==
  ASSUME flow \in Flows, clock \in Nat, Deterministic, NEW st \in Document, Shaped(st),
         NEW bs \in SUBSET Box, NEW fs, Meant(st, bs, fs), NEW r, r = Rounds(st)
  PROVE  Meant(r.st, bs, fs)
<1>0. NoFirst
  BY DeterministicFacts
<1>1. PICK x : Passing(x, st) /\ Rounds(st) = x[MaxRounds]
  BY RoundsExist
<1>2. PICK L \in Nat : L = MaxRounds
  BY GraphAssumption
<1>3. /\ x \in [0..L -> RoundType] /\ x[0] = FirstRound(st)
      /\ \A k \in 1..L : x[k] = NextRound(x[k - 1])
  BY <1>1, <1>2 DEF Passing
<1> DEFINE Q == {k \in 0..L : Meant(x[k].st, bs, fs)}
<1>4. 0 \in Q
  BY <1>3 DEF FirstRound
<1>5. ASSUME NEW k \in 1..L, k - 1 \in Q PROVE k \in Q
  <2>1. PICK b \in RoundType : b = x[k - 1]
    <3>1. k - 1 \in 0..L
      OBVIOUS
    <3> QED BY <1>3, <3>1
  <2>2. PICK e : e = x[k]
    OBVIOUS
  <2>3. e = NextRound(b) /\ k \in 0..L
    BY <1>3, <2>1, <2>2
  <2>4. PICK d \in Document : d = b.st /\ Shaped(d) /\ Meant(d, bs, fs)
    BY <1>5, <2>1 DEF RoundType
  <2>5. CASE b.done
    BY <2>2, <2>3, <2>4, <2>5 DEF NextRound
  <2>6. CASE ~b.done
    <3>1. PICK a : a = Sweep(d)
      OBVIOUS
    <3>2. a \in Document /\ Shaped(a) /\ Meant(a, bs, fs)
      BY <1>0, <2>4, <3>1, SweepMeant
    <3>3. e = Round(b, a, StopsOf(a))
      BY <2>3, <2>4, <2>6, <3>1 DEF NextRound, Advanced
    <3>4. e.st = d \/ e.st = FailUnbuilt(a) \/ e.st = Stopped(a)
      <4>1. b = [st |-> b.st, stops |-> b.stops, done |-> b.done, stuck |-> b.stuck]
        BY DEF RoundType
      <4>2. CASE Stuck(a)
        <5>1. e = [b EXCEPT !.done = TRUE, !.stuck = TRUE]
          BY <3>3, <4>2 DEF Round
        <5>2. e.st = b.st
          BY <4>1, <5>1
        <5> QED BY <2>4, <5>2
      <4>3. CASE ~Stuck(a) /\ Unbuilt(a) # {}
        <5>1. PICK f : f = FailUnbuilt(a)
          OBVIOUS
        <5>2. e = [b EXCEPT !.st = f]
          BY <3>3, <4>3, <5>1 DEF Round
        <5>3. e.st = f
          BY <4>1, <5>2
        <5> QED BY <5>1, <5>3
      <4>4. CASE ~Stuck(a) /\ Unbuilt(a) = {}
        <5>1. e = [st |-> Stopped(a), stops |-> b.stops \cup StopsOf(a), done |-> StopsOf(a) = {},
                   stuck |-> FALSE]
          BY <3>3, <4>4 DEF Round
        <5> QED BY <5>1
      <4> QED BY <4>2, <4>3, <4>4
    <3>5. Meant(e.st, bs, fs)
      BY <1>0, <2>4, <3>2, <3>4, UnbuiltMeant, StoppedMeant
    <3> QED BY <2>2, <2>3, <3>5
  <2> QED BY <2>5, <2>6
<1>6. L \in Q
  <2> HIDE DEF Q
  <2>1. \A k \in 0..L : k \in Q
    BY <1>4, <1>5, UpTo
  <2> QED BY <2>1
<1> QED BY <1>1, <1>2, <1>6

\* A shard that was handed out belongs to a step that runs.
LEMMA OutRuns ==
  ASSUME NEW st \in Document, Shaped(st), Divided(st), NEW s \in Names, NEW i \in DOMAIN st[s].shards,
         ~TaskOver(st[s].shards[i])
  PROVE  st[s].verdict = "running"
<1>1. st[s].verdict \in {"pending", "running"} \cup Terminal
  BY DEF Document, StepType
<1>2. st[s].verdict # "cancelled"
  BY DEF Divided
<1>3. st[s].verdict # "pending"
  BY DEF Shaped
<1>4. st[s].verdict \notin {"succeeded", "failed", "skipped"}
  BY DEF Shaped
<1> QED BY <1>1, <1>2, <1>3, <1>4 DEF Terminal

\* One shard of a step that runs changes: the ends of steps do not.
LEMMA ReshardFollows ==
  ASSUME flow \in Flows, NoFirst, NEW st \in Document, Shaped(st), Divided(st), Follows(st),
         NEW e \in Document, NEW s \in Names, NEW i, NEW n, Reshard(st, e, s, i, n),
         st[s].verdict = "running"
  PROVE  Follows(e)
<1>1. \A u \in Names :
        /\ e[u].verdict = st[u].verdict /\ DOMAIN e[u].shards = DOMAIN st[u].shards
        /\ st[u].verdict # "running" => e[u] = st[u]
  BY DEF Reshard
<1> QED BY <1>1, SameFollows

\* One shard changes to what is judged right, and the containers are of others.
LEMMA ReshardKnown ==
  ASSUME NEW st \in Document, NEW e \in Document, NEW bs \in SUBSET Box, NEW fs, Known(st, bs, fs),
         NEW s \in Names, NEW i \in DOMAIN st[s].shards, NEW n \in ShardType, Reshard(st, e, s, i, n),
         st[s].shards[i].attempt <= n.attempt, Judged(s, i, n, fs),
         NEW cs \in SUBSET bs, \A c \in cs : ~(c.step = s /\ c.shard = i)
  PROVE  Known(e, cs, fs)
<1>1. ASSUME NEW u \in Names, NEW j \in DOMAIN st[u].shards
      PROVE  j \in DOMAIN e[u].shards /\ (~(u = s /\ j = i) => e[u].shards[j] = st[u].shards[j])
  BY DEF Reshard
<1>2. e[s].shards[i] = n
  BY DEF Reshard
<1>3. Grows(st, e)
  <2> SUFFICES ASSUME NEW u \in Names, NEW j \in DOMAIN st[u].shards
               PROVE  j \in DOMAIN e[u].shards /\ st[u].shards[j].attempt <= e[u].shards[j].attempt
    BY DEF Grows
  <2>1. PICK o \in ShardType : o = st[u].shards[j]
    BY DEF Document, StepType
  <2>2. o.attempt \in Nat
    BY DEF ShardType
  <2>3. CASE u = s /\ j = i
    BY <1>1, <1>2, <2>3
  <2>4. CASE ~(u = s /\ j = i)
    BY <1>1, <2>1, <2>2, <2>4
  <2> QED BY <2>3, <2>4
<1>4. Stay(cs, st, e)
  <2> SUFFICES ASSUME NEW c \in cs PROVE e[c.step].shards[c.shard] = st[c.step].shards[c.shard]
    BY DEF Stay
  <2>1. c.step \in Names /\ c.shard \in DOMAIN st[c.step].shards
    BY DEF Known, Reported, Box
  <2> QED BY <1>1, <2>1
<1>5. Heard(e, fs)
  <2> SUFFICES ASSUME NEW u \in Names, NEW j \in DOMAIN e[u].shards
               PROVE  Judged(u, j, e[u].shards[j], fs)
    BY DEF Heard
  <2>1. j \in DOMAIN st[u].shards
    BY DEF Reshard
  <2>2. CASE u = s /\ j = i
    BY <1>2, <2>2
  <2>3. CASE ~(u = s /\ j = i)
    <3>1. e[u].shards[j] = st[u].shards[j]
      BY <1>1, <2>1, <2>3
    <3> QED BY <2>1, <3>1 DEF Known, Heard
  <2> QED BY <2>2, <2>3
<1> QED BY <1>3, <1>4, <1>5, KnownFacts

\* A report of how a container ended makes its shard what the fate says.
LEMMA RecordedMeant ==
  ASSUME flow \in Flows, NoFirst, NEW st \in Document, Shaped(st), NEW bs \in SUBSET Box,
         NEW names, Boxed(st, bs, names), NEW fs, Meant(st, bs, fs),
         NEW b \in bs, b.over, NEW e, e = Recorded(st, b)
  PROVE  Meant(e, bs \ {b}, fs)
<1>1. PICK s \in Names, i \in Nat, a \in Nat : s = b.step /\ i = b.shard /\ a = b.attempt
  BY DEF Box
<1>2. Divided(st) /\ Follows(st) /\ Known(st, bs, fs) /\ Fated(st, fs) /\ Heard(st, fs)
  BY DEF Meant, Known
<1>3. /\ i \in DOMAIN st[s].shards /\ st[s].shards[i].attempt = a
      /\ st[s].shards[i].task = "dispatched"
      /\ Fate(s, i, a, b.out) \in fs
      /\ \A c \in bs : c.step = s /\ c.shard = i => c = b
  BY <1>1, <1>2 DEF Known, Reported
<1>4. PICK o \in ShardType : o = st[s].shards[i]
  BY <1>3 DEF Document, StepType
<1>5. o.attempt = a /\ o.task = "dispatched" /\ a \in Nat /\ ~TaskOver(o)
  BY <1>3, <1>4 DEF ShardType, TaskOver
<1>6. o.out = None /\ Builds(s)
  <2>1. Judged(s, i, o, fs)
    BY <1>2, <1>3, <1>4 DEF Heard
  <2> QED BY <1>5, <2>1 DEF Judged
<1>7. PICK m \in Nat : m = a + 1
  BY <1>5
<1>8. PICK p, q, r : /\ p = [o EXCEPT !.task = "succeeded", !.out = b.out]
                     /\ q = [o EXCEPT !.task = "pending", !.attempt = m]
                     /\ r = [o EXCEPT !.task = "failed"]
  OBVIOUS
<1>9. PICK n : n = IF b.out # None THEN p ELSE IF o.attempt < flow.tries[s] THEN q ELSE r
  OBVIOUS
<1>10. e = [st EXCEPT ![s].shards[i] = n]
  <2>1. ~(o.attempt # b.attempt \/ TaskOver(o))
    BY <1>1, <1>5
  <2>2. o.attempt + 1 = m
    BY <1>5, <1>7
  <2> QED BY <1>1, <1>4, <1>8, <1>9, <2>1, <2>2 DEF Recorded
<1>11. n \in ShardType /\ n.task # "cancelled" /\ a <= n.attempt /\ Judged(s, i, n, fs)
  <2>1. CASE b.out # None
    <3>1. b.out \in Out
      BY DEF Box
    <3>2. /\ n \in ShardType /\ n.task = "succeeded" /\ n.out = b.out /\ n.attempt = a
      BY <1>5, <1>8, <1>9, <2>1, <3>1 DEF ShardType, Tasks
    <3> QED BY <1>3, <1>5, <1>6, <2>1, <3>2 DEF Judged
  <2>2. CASE b.out = None /\ o.attempt < flow.tries[s]
    <3>1. /\ n \in ShardType /\ n.task = "pending" /\ n.out = None /\ n.attempt = m
      BY <1>6, <1>8, <1>9, <2>2 DEF ShardType, Tasks
    <3>2. \A f \in fs : f.step = s /\ f.shard = i => f.attempt # m
      <4>1. \A f \in fs : f.attempt \in Nat /\ f.attempt <= st[f.step].shards[f.shard].attempt
        BY <1>2 DEF Fated
      <4> QED BY <1>3, <1>5, <1>7, <4>1
    <3> QED BY <1>5, <1>6, <1>7, <3>1, <3>2 DEF Judged, TaskOver
  <2>3. CASE b.out = None /\ ~(o.attempt < flow.tries[s])
    <3>1. /\ n \in ShardType /\ n.task = "failed" /\ n.out = None /\ n.attempt = a
      BY <1>5, <1>6, <1>8, <1>9, <2>3 DEF ShardType, Tasks
    <3>2. Fate(s, i, n.attempt, n.out) \in fs
      BY <1>3, <2>3, <3>1
    <3> QED BY <1>5, <1>6, <3>1, <3>2 DEF Judged
  <2> QED BY <2>1, <2>2, <2>3
<1>12. e \in Document /\ Reshard(st, e, s, i, n)
  BY <1>3, <1>10, <1>11, ReshardFacts
<1>13. Divided(e)
  BY <1>2, RecordedDivided
<1>14. Follows(e)
  <2>1. st[s].verdict = "running"
    BY <1>2, <1>3, <1>4, <1>5, OutRuns
  <2> QED BY <1>2, <1>12, <2>1, ReshardFollows
<1>15. Known(e, bs \ {b}, fs)
  <2>1. \A c \in bs \ {b} : ~(c.step = s /\ c.shard = i)
    BY <1>3
  <2>2. PICK cs \in SUBSET bs : cs = bs \ {b}
    OBVIOUS
  <2> QED BY <1>2, <1>3, <1>11, <1>12, <2>1, <2>2, ReshardKnown
<1> QED BY <1>13, <1>14, <1>15 DEF Meant

\* A shard handed out has its container, whose fate is to come.
LEMMA HandedMeant ==
  ASSUME flow \in Flows, NoFirst, NEW st \in Document, Shaped(st), Quiet(st),
         NEW s \in Names, NEW i \in Startable(st, s),
         NEW bs \in SUBSET Box, NEW fs, Meant(st, bs, fs),
         NEW e, e = Handed(st, s, i), NEW b, b = BoxOf(st, s, i)
  PROVE  Meant(e, bs \cup {b}, fs)
<1>1. Divided(st) /\ Follows(st) /\ Known(st, bs, fs) /\ Heard(st, fs)
  BY DEF Meant, Known
<1>2. i \in DOMAIN st[s].shards /\ st[s].shards[i].task = "pending"
  BY DEF Startable
<1>3. PICK o \in ShardType : o = st[s].shards[i]
  BY <1>2 DEF Document, StepType
<1>4. PICK n : n = [o EXCEPT !.task = "dispatched"]
  OBVIOUS
<1>5. /\ n \in ShardType /\ n.task = "dispatched" /\ n.attempt = o.attempt /\ n.out = o.out
      /\ o.attempt \in Nat
  BY <1>4 DEF ShardType, Tasks
<1>6. e = [st EXCEPT ![s].shards[i] = n]
  BY <1>3, <1>4 DEF Handed
<1>7. e \in Document /\ Reshard(st, e, s, i, n)
  BY <1>2, <1>5, <1>6, ReshardFacts
<1>8. /\ o.out = None /\ o.task = "pending"
      /\ \A f \in fs : f.step = s /\ f.shard = i => f.attempt # o.attempt
  <2>1. Judged(s, i, o, fs)
    BY <1>1, <1>2, <1>3 DEF Heard
  <2> QED BY <1>2, <1>3, <2>1 DEF Judged
<1>9. Builds(s)
  BY DEF Quiet
<1>10. Judged(s, i, n, fs)
  BY <1>5, <1>8, <1>9 DEF Judged, TaskOver
<1>11. \A c \in bs : ~(c.step = s /\ c.shard = i)
  BY <1>1, <1>2 DEF Known, Reported
<1>12. Known(e, bs, fs)
  BY <1>1, <1>2, <1>3, <1>5, <1>7, <1>10, <1>11, ReshardKnown
<1>13. Reported(e, bs \cup {b}, fs)
  <2>1. b.step = s /\ b.shard = i /\ b.attempt = o.attempt /\ ~b.over
    BY <1>3 DEF BoxOf
  <2>2. /\ i \in DOMAIN e[s].shards /\ e[s].shards[i] = n
    BY <1>2, <1>7 DEF Reshard
  <2>3. Reported(e, bs, fs)
    BY <1>12 DEF Known
  <2>4. ASSUME NEW c \in bs \cup {b}
        PROVE  /\ c.shard \in DOMAIN e[c.step].shards
               /\ e[c.step].shards[c.shard].attempt = c.attempt
               /\ e[c.step].shards[c.shard].task = "dispatched"
               /\ c.over => Fate(c.step, c.shard, c.attempt, c.out) \in fs
               /\ ~c.over => \A f \in fs : f.step = c.step /\ f.shard = c.shard => f.attempt # c.attempt
    <3>1. CASE c \in bs
      BY <2>3, <3>1 DEF Reported
    <3>2. CASE c = b
      BY <1>5, <1>8, <2>1, <2>2, <3>2
    <3> QED BY <3>1, <3>2
  <2>5. \A c, d \in bs \cup {b} : c.step = d.step /\ c.shard = d.shard => c = d
    BY <1>11, <2>1, <2>3 DEF Reported
  <2> QED BY <2>4, <2>5 DEF Reported
<1>14. Divided(e)
  BY <1>1, HandedDivided
<1>15. Follows(e)
  <2>1. st[s].verdict = "running"
    BY DEF Startable
  <2> QED BY <1>1, <1>7, <2>1, ReshardFollows
<1> QED BY <1>12, <1>13, <1>14, <1>15 DEF Meant, Known

\* A container that ends has its one fate.
LEMMA EndedKnown ==
  ASSUME NEW st \in Document, NEW bs \in SUBSET Box, NEW fs, Known(st, bs, fs),
         NEW b \in bs, ~b.over, NEW out \in Out,
         NEW c, c = [b EXCEPT !.over = TRUE, !.out = out],
         NEW f, f = Fate(b.step, b.shard, b.attempt, out)
  PROVE  Known(st, (bs \ {b}) \cup {c}, fs \cup {f})
<1>1. b \in Box
  OBVIOUS
<1>2. /\ c.step = b.step /\ c.shard = b.shard /\ c.attempt = b.attempt /\ c.over /\ c.out = out
  BY <1>1 DEF Box
<1>3. /\ f.step = b.step /\ f.shard = b.shard /\ f.attempt = b.attempt /\ f.out = out
      /\ f \in [step : Names, shard : Nat, attempt : Nat, out : Out]
  BY <1>1 DEF Box, Fate
<1>4. /\ b.shard \in DOMAIN st[b.step].shards
      /\ st[b.step].shards[b.shard].attempt = b.attempt
      /\ st[b.step].shards[b.shard].task = "dispatched"
      /\ \A g \in fs : g.step = b.step /\ g.shard = b.shard => g.attempt # b.attempt
  BY DEF Known, Reported
<1>5. Fated(st, fs \cup {f})
  <2>1. Fated(st, fs)
    BY DEF Known
  <2>2. fs \cup {f} \in SUBSET [step : Names, shard : Nat, attempt : Nat, out : Out]
    BY <1>3, <2>1 DEF Fated
  <2>3. \A g, h \in fs \cup {f} : g.step = h.step /\ g.shard = h.shard /\ g.attempt = h.attempt => g = h
    BY <1>3, <1>4, <2>1 DEF Fated
  <2>4. ASSUME NEW g \in fs \cup {f}
        PROVE  g.shard \in DOMAIN st[g.step].shards /\ g.attempt <= st[g.step].shards[g.shard].attempt
    <3>1. CASE g \in fs
      BY <2>1, <3>1 DEF Fated
    <3>2. CASE g = f
      BY <1>1, <1>3, <1>4, <3>2 DEF Box
    <3> QED BY <3>1, <3>2
  <2> QED BY <2>2, <2>3, <2>4 DEF Fated
<1>6. Heard(st, fs \cup {f})
  <2> SUFFICES ASSUME NEW u \in Names, NEW i \in DOMAIN st[u].shards
               PROVE  Judged(u, i, st[u].shards[i], fs \cup {f})
    BY DEF Heard
  <2>1. Judged(u, i, st[u].shards[i], fs)
    BY DEF Known, Heard
  <2>2. st[u].shards[i].task = "pending" => ~(f.step = u /\ f.shard = i)
    BY <1>3, <1>4
  <2> QED BY <2>1, <2>2 DEF Judged
<1>7. Reported(st, (bs \ {b}) \cup {c}, fs \cup {f})
  <2>1. Reported(st, bs, fs)
    BY DEF Known
  <2>2. \A d \in bs : d.step = b.step /\ d.shard = b.shard => d = b
    BY <2>1 DEF Reported
  <2>3. ASSUME NEW d \in (bs \ {b}) \cup {c}
        PROVE  /\ d.shard \in DOMAIN st[d.step].shards
               /\ st[d.step].shards[d.shard].attempt = d.attempt
               /\ st[d.step].shards[d.shard].task = "dispatched"
               /\ d.over => Fate(d.step, d.shard, d.attempt, d.out) \in fs \cup {f}
               /\ ~d.over => \A g \in fs \cup {f} :
                               g.step = d.step /\ g.shard = d.shard => g.attempt # d.attempt
    <3>1. CASE d = c
      BY <1>2, <1>4, <3>1
    <3>2. CASE d \in bs /\ d # b
      <4>1. /\ d.shard \in DOMAIN st[d.step].shards
            /\ st[d.step].shards[d.shard].attempt = d.attempt
            /\ st[d.step].shards[d.shard].task = "dispatched"
            /\ d.over => Fate(d.step, d.shard, d.attempt, d.out) \in fs
            /\ ~d.over => \A g \in fs : g.step = d.step /\ g.shard = d.shard => g.attempt # d.attempt
        BY <2>1, <3>2 DEF Reported
      <4>2. ~(f.step = d.step /\ f.shard = d.shard)
        BY <1>3, <2>2, <3>2
      <4> QED BY <4>1, <4>2
    <3> QED BY <3>1, <3>2
  <2>4. \A d, e \in (bs \ {b}) \cup {c} : d.step = e.step /\ d.shard = e.shard => d = e
    <3>1. \A d, e \in bs : d.step = e.step /\ d.shard = e.shard => d = e
      BY <2>1 DEF Reported
    <3>2. c.step = b.step /\ c.shard = b.shard
      BY <1>2
    <3>3. ASSUME NEW d \in (bs \ {b}) \cup {c}, NEW e \in (bs \ {b}) \cup {c},
                 d.step = e.step, d.shard = e.shard
          PROVE  d = e
      <4>1. CASE d = c /\ e = c
        BY <4>1
      <4>2. CASE d \in bs \ {b} /\ e \in bs \ {b}
        BY <3>1, <3>3, <4>2
      <4>3. CASE d = c /\ e \in bs \ {b}
        BY <2>2, <3>2, <3>3, <4>3
      <4>4. CASE d \in bs \ {b} /\ e = c
        BY <2>2, <3>2, <3>3, <4>4
      <4> QED BY <4>1, <4>2, <4>3, <4>4
    <3> QED BY <3>3
  <2> QED BY <2>3, <2>4 DEF Reported
<1> QED BY <1>5, <1>6, <1>7 DEF Known

\* Containers that are left are known as they were.
LEMMA FewerKnown ==
  ASSUME NEW st \in Document, NEW bs \in SUBSET Box, NEW fs, Known(st, bs, fs), NEW cs \in SUBSET bs
  PROVE  Known(st, cs, fs)
BY DEF Known, Reported

\* What is meant of the next document at this moment is meant of it at the next.
LEMMA NextMeant ==
  ASSUME flow \in Flows, NoFirst, flow' = flow,
         NEW n, n = steps', NEW bs, bs = boxes', NEW fs, fs = fate', Shaped(n), Meant(n, bs, fs)
  PROVE  Meant(steps, boxes, fate)'
<1>1. Names' = Names /\ \A s : Builds(s)' = Builds(s)
  BY DEF Names, Builds
<1>2. Divided(n) /\ Follows(n) /\ Known(n, bs, fs)
  BY DEF Meant
<1>3. Divided(steps)'
  BY <1>2, NextDivided
<1>4. Known(steps, boxes, fate)'
  <2>1. Fated(steps, fate)'
    BY <1>1, <1>2 DEF Known, Fated, Out, Outs
  <2>2. \A s, i, sh : Judged(s, i, sh, fate)' <=> Judged(s, i, sh, fs)
    BY <1>1 DEF Judged
  <2>3. Heard(steps, fate)'
    BY <1>1, <1>2, <2>2 DEF Known, Heard
  <2>4. Reported(steps, boxes, fate)'
    BY <1>2 DEF Known, Reported
  <2> QED BY <2>1, <2>3, <2>4 DEF Known
<1>5. Follows(steps)'
  <2>1. ASSUME NEW s \in Names, n[s].verdict \in Terminal
        PROVE  /\ \A i \in DOMAIN flow.needs[s] : ~EdgeWaiting(steps, flow.needs[s][i])'
               /\ EndedAs(s, Read(steps, s), steps[s])'
    <3>1. /\ \A i \in DOMAIN flow.needs[s] : ~EdgeWaiting(n, flow.needs[s][i])
          /\ EndedAs(s, Read(n, s), n[s])
      BY <1>2, <2>1 DEF Follows
    <3>2. \A i \in DOMAIN flow.needs[s] : n[flow.needs[s][i]].port # None
      <4> SUFFICES ASSUME NEW i \in DOMAIN flow.needs[s] PROVE n[flow.needs[s][i]].port # None
        OBVIOUS
      <4>1. PICK u \in Names : u = flow.needs[s][i]
        BY NeedsFacts
      <4>2. ~EdgeWaiting(n, u) /\ n[u].verdict # "cancelled"
        BY <1>2, <3>1, <4>1 DEF Divided
      <4> QED BY <4>1, <4>2, OverHasPort
    <3>3. Read(steps, s)' = Read(n, s)
      BY <3>2, NoneFirst, ReadNext
    <3>4. \A r, x : EndedAs(s, r, x)' <=> EndedAs(s, r, x)
      BY DEF EndedAs, EndsAtOnce, FanOut, Runs
    <3>5. EndedAs(s, Read(steps, s), steps[s])'
      BY <3>1, <3>3, <3>4
    <3>6. \A i \in DOMAIN flow.needs[s] : ~EdgeWaiting(steps, flow.needs[s][i])'
      BY <3>1 DEF EdgeWaiting
    <3> QED BY <3>5, <3>6
  <2>2. ASSUME NEW s \in Names, n[s].verdict = "running"
        PROVE  Runs(s)' /\ n[s].shards # <<>>
    BY <1>2, <2>2 DEF Follows, Runs
  <2> QED BY <1>1, <2>1, <2>2 DEF Follows
<1> QED BY <1>3, <1>4, <1>5 DEF Meant

\* What holds of a run that is not cut short.
MeantInv ==
  Deterministic /\ run \notin {"cancelled", "timed_out"} =>
    /\ Meant(steps, boxes, fate)
    /\ run \in {"succeeded", "failed"} => run = RunVerdict(steps)

\* What a pass decides is meant.
LEMMA PassMeant ==
  ASSUME flow \in Flows, clock \in Nat, Deterministic, NEW st \in Document, Shaped(st),
         NEW bs \in SUBSET Box, NEW fs, Meant(st, bs, fs), Pass(st),
         flow' = flow, bs = boxes', fs = fate'
  PROVE  Meant(steps, boxes, fate)' /\ run' = RunVerdict(steps)'
<1>1. PICK r : r = Rounds(st) /\ steps' = r.st /\ run' = RunVerdict(r.st)
  BY DEF Pass
<1>2. PICK d : d = r.st
  OBVIOUS
<1>3. Shaped(d) /\ Meant(d, bs, fs)
  BY <1>1, <1>2, RoundsFacts, RoundsMeant
<1>4. Meant(steps, boxes, fate)'
  BY <1>1, <1>2, <1>3, DeterministicFacts, NextMeant
<1>5. RunVerdict(steps)' = RunVerdict(d)
  BY <1>1, <1>2, NextDocument
<1> QED BY <1>1, <1>2, <1>4, <1>5

\* A run that starts has no shards, no containers and no fates.
LEMMA MeantInvInit == Init => MeantInv
<1> SUFFICES ASSUME Init PROVE Meant(steps, boxes, fate) /\ run = "queued"
  BY DEF MeantInv
<1>1. /\ \A s \in Names : steps[s].verdict = "pending" /\ steps[s].shards = <<>>
      /\ boxes = {} /\ fate = {} /\ run = "queued"
  BY DEF Init, NewStep
<1>2. Divided(steps) /\ Follows(steps)
  BY <1>1 DEF Divided, Follows, Terminal
<1>3. Known(steps, boxes, fate)
  BY <1>1 DEF Known, Fated, Heard, Reported
<1> QED BY <1>1, <1>2, <1>3 DEF Meant

\* Every step keeps it.
LEMMA MeantInvStep ==
  ASSUME RunInv, MeantInv, [Next]_vars
  PROVE  MeantInv'
<1>0. flow' = flow
  BY DEF Next, Decide, HandOut, ContainerEnds, Answer, Cancel, Deadline, Cut, vars
<1> DEFINE Goal == /\ Meant(steps, boxes, fate)'
                   /\ run' \in {"succeeded", "failed"} => run' = RunVerdict(steps)'
<1> SUFFICES ASSUME Deterministic, run' \notin {"cancelled", "timed_out"} PROVE Goal
  <2>1. Deterministic' => Deterministic
    BY <1>0 DEF Deterministic, Names
  <2> QED BY <2>1 DEF MeantInv
<1>12. PICK fs : fs = fate
  OBVIOUS
<1>1. PICK st \in Document, bs \in SUBSET Box : st = steps /\ bs = boxes /\ fs = fate
  BY <1>12 DEF RunInv
<1>2. flow \in Flows /\ clock \in Nat /\ Shaped(st) /\ NoFirst
  BY <1>1, DeterministicFacts DEF RunInv
<1>3. /\ run \notin {"cancelled", "timed_out"} =>
           Meant(st, bs, fs) /\ (run \in {"succeeded", "failed"} => run = RunVerdict(st))
      /\ run \notin RunTerminal => Boxed(st, bs, told)
      /\ run = "running" => Quiet(st) /\ plan = Starts(st)
  BY <1>1 DEF MeantInv, RunInv
<1>4. ASSUME steps' = steps, run' = run, NEW cs, cs = boxes', NEW gs, gs = fate', Known(st, cs, gs)
      PROVE  Goal
  <2>1. st = steps'
    BY <1>1, <1>4
  <2>2. Meant(st, cs, gs)
    BY <1>3, <1>4 DEF Meant
  <2>3. Meant(steps, boxes, fate)'
    BY <1>0, <1>2, <1>4, <2>1, <2>2, NextMeant
  <2>4. RunVerdict(steps)' = RunVerdict(st)
    BY <1>0, <2>1, NextDocument
  <2> QED BY <1>3, <1>4, <2>3, <2>4
<1>5. CASE Decide
  <2>1. run \notin RunTerminal /\ Pass(st) /\ bs = boxes' /\ fs = fate'
    BY <1>1, <1>5 DEF Decide
  <2>2. Meant(st, bs, fs)
    BY <1>3, <2>1 DEF RunTerminal
  <2>3. Meant(steps, boxes, fate)' /\ run' = RunVerdict(steps)'
    BY <1>0, <1>2, <2>1, <2>2, PassMeant
  <2> QED BY <2>3
<1>6. ASSUME NEW t \in plan, HandOut(t) PROVE Goal
  <2>1. run = "running" /\ plan = Starts(st) /\ run' = run /\ fs = fate'
    BY <1>1, <1>3, <1>6 DEF HandOut
  <2>2. PICK s \in Names : \E j \in Startable(st, s) : t = TaskOf(s, j, st[s].shards[j].attempt)
    BY <2>1, InStarts
  <2>3. PICK i \in Startable(st, s) : t = TaskOf(s, i, st[s].shards[i].attempt)
    BY <2>2
  <2>4. PICK a : a = st[s].shards[i].attempt
    OBVIOUS
  <2>5. t[1] = s /\ t[2] = i /\ t[3] = a
    BY <2>3, <2>4 DEF TaskOf
  <2>6. PICK e, b : e = Handed(st, s, i) /\ b = BoxOf(st, s, i)
    OBVIOUS
  <2>7. e = steps'
    BY <1>1, <1>6, <2>5, <2>6 DEF HandOut, Handed
  <2>8. boxes' = bs \cup {b}
    BY <1>1, <1>6, <2>4, <2>5, <2>6 DEF HandOut, BoxOf
  <2>9. Meant(st, bs, fs) /\ Boxed(st, bs, told) /\ Quiet(st)
    BY <1>3, <2>1 DEF RunTerminal
  <2>10. Meant(e, bs \cup {b}, fs)
    BY <1>2, <2>6, <2>9, HandedMeant
  <2>11. Shaped(e)
    BY <1>2, <2>6, <2>9, HandOutFacts
  <2>12. PICK cs : cs = bs \cup {b}
    OBVIOUS
  <2>13. Meant(steps, boxes, fate)'
    BY <1>0, <1>2, <2>1, <2>7, <2>8, <2>10, <2>11, <2>12, NextMeant
  <2> QED BY <2>1, <2>13
<1>7. ASSUME NEW b \in boxes, NEW n \in Counts \cup {-1}, ContainerEnds(b, n) PROVE Goal
  <2>1. PICK out : out = IF n < 0 THEN None ELSE [n |-> n, at |-> clock]
    OBVIOUS
  <2>2. out \in Out
    <3>1. n \in Int
      BY GraphAssumption
    <3>2. CASE n < 0
      BY <2>1, <3>2 DEF Out
    <3>3. CASE ~(n < 0)
      BY <1>2, <2>1, <3>1, <3>3 DEF Out, Outs
    <3> QED BY <3>2, <3>3
  <2>3. PICK o \in bs : o = b
    BY <1>1
  <2>4. PICK c, f : c = [o EXCEPT !.over = TRUE, !.out = out]
                    /\ f = Fate(o.step, o.shard, o.attempt, out)
    OBVIOUS
  <2>5. /\ steps' = steps /\ run' = run /\ ~o.over
        /\ (bs \ {o}) \cup {c} = boxes'
        /\ fs \cup {f} = fate'
    BY <1>1, <1>7, <2>1, <2>3, <2>4 DEF ContainerEnds, Fate
  <2>6. Known(st, bs, fs)
    BY <1>3, <2>5 DEF Meant
  <2>7. Known(st, (bs \ {o}) \cup {c}, fs \cup {f})
    BY <2>2, <2>4, <2>5, <2>6, EndedKnown
  <2> QED BY <1>4, <2>5, <2>7
<1>8. ASSUME NEW b \in boxes, Answer(b) PROVE Goal
  <2>1. PICK cs \in SUBSET bs : cs = bs \ {b}
    OBVIOUS
  <2>2. b \in bs /\ b.over /\ cs = boxes' /\ fs = fate'
    BY <1>1, <1>8, <2>1 DEF Answer
  <2>3. CASE run \in RunTerminal
    <3>1. steps' = steps /\ run' = run
      BY <1>8, <2>3 DEF Answer
    <3>2. Known(st, bs, fs)
      BY <1>3, <3>1 DEF Meant
    <3>3. Known(st, cs, fs)
      BY <3>2, FewerKnown
    <3> QED BY <1>4, <2>2, <3>1, <3>3
  <2>4. CASE run \notin RunTerminal
    <3>1. PICK e : e = Recorded(st, b)
      OBVIOUS
    <3>2. Pass(e)
      BY <1>1, <1>8, <2>4, <3>1 DEF Answer
    <3>3. Meant(st, bs, fs) /\ Boxed(st, bs, told)
      BY <1>3, <2>4 DEF RunTerminal
    <3>4. e \in Document /\ Shaped(e)
      BY <1>2, <2>2, <3>1, <3>3, RecordedFacts
    <3>5. Meant(e, cs, fs)
      BY <1>2, <2>1, <2>2, <3>1, <3>3, RecordedMeant
    <3>6. Meant(steps, boxes, fate)' /\ run' = RunVerdict(steps)'
      BY <1>0, <1>2, <2>2, <3>2, <3>4, <3>5, PassMeant
    <3> QED BY <3>6
  <2> QED BY <2>3, <2>4
<1>9. ASSUME NEW state \in {"cancelled", "timed_out"}, Cut(state) PROVE Goal
  BY <1>9 DEF Cut
<1>10. CASE UNCHANGED vars
  <2>1. steps' = steps /\ run' = run /\ bs = boxes' /\ fs = fate'
    BY <1>1, <1>10 DEF vars
  <2>2. Known(st, bs, fs)
    BY <1>3, <2>1 DEF Meant
  <2> QED BY <1>4, <2>1, <2>2
<1>11. CASE Cancel \/ Deadline
  BY <1>9, <1>11 DEF Cancel, Deadline
<1> HIDE DEF Goal
<1> QED BY <1>5, <1>6, <1>7, <1>8, <1>10, <1>11 DEF Next

\* A run that ends by itself ends every step with the verdict and the items the graph
\* means once the fate of every container is known, in whatever order they ended and
\* were reported.
THEOREM VerdictsFollowFatesHolds == Spec => []VerdictsFollowFates
<1>1. ASSUME RunInv, MeantInv PROVE VerdictsFollowFates
  <2> SUFFICES ASSUME run \in {"succeeded", "failed"}, Deterministic
               PROVE  /\ \A s \in Names : /\ steps[s].verdict = Meaning[s].v
                                          /\ steps[s].port.n = Meaning[s].n
                      /\ (run = "failed") <=>
                           \E s \in Names : Meaning[s].v = "failed" /\ ~flow.tolerated[s]
    BY DEF VerdictsFollowFates
  <2>1. PICK st \in Document : st = steps
    BY <1>1 DEF RunInv
  <2>2. flow \in Flows /\ clock \in Nat /\ Shaped(st)
    BY <1>1, <2>1 DEF RunInv
  <2>3. Meant(st, boxes, fate) /\ run = RunVerdict(st)
    BY <1>1, <2>1 DEF MeantInv
  <2>4. \A s \in Names : st[s].verdict \in Terminal
    BY <2>3 DEF RunVerdict
  <2>5. \A s \in Names : Meaning[s] = Says(st, s)
    BY <2>2, <2>3, <2>4, DeterministicFacts, MeaningSaid DEF Meant, Known
  <2>6. \A s \in Names : Meaning[s].v = st[s].verdict /\ Meaning[s].n = st[s].port.n
    <3> SUFFICES ASSUME NEW s \in Names
                 PROVE  Meaning[s].v = st[s].verdict /\ Meaning[s].n = st[s].port.n
      OBVIOUS
    <3>1. PICK v, n : v = st[s].verdict /\ n = st[s].port.n
      OBVIOUS
    <3>2. PICK x : x = Meaning[s]
      OBVIOUS
    <3>3. x = [v |-> v, n |-> n]
      BY <2>5, <3>1, <3>2 DEF Says
    <3>4. x.v = v /\ x.n = n
      BY ONLY <3>3
    <3> QED BY <3>1, <3>2, <3>4
  <2>7. (run = "failed") <=> \E s \in Names : st[s].verdict = "failed" /\ ~flow.tolerated[s]
    BY <2>3, <2>4 DEF RunVerdict
  <2> QED BY <2>1, <2>6, <2>7
<1>2. Init => RunInv /\ MeantInv
  BY RunInvInit, MeantInvInit
<1>3. RunInv /\ MeantInv /\ [Next]_vars => (RunInv /\ MeantInv)'
  BY RunInvNext, RunInvStill, MeantInvStep
<1> QED BY <1>1, <1>2, <1>3, PTL DEF Spec

-----------------------------------------------------------------------------
(* A pass ends: every round but the last takes a step out of one of two    *)
(* sets, and nothing puts a step into either.                              *)

\* The steps that may still have a shard to start, and those not over.
Opening(st) ==
  {s \in Names : \/ st[s].verdict = "pending"
                 \/ \E i \in DOMAIN st[s].shards : st[s].shards[i].task = "pending"}
Unended(st) == {s \in Names : st[s].verdict = "pending" \/ SomeGoing(st[s].shards)}

Left(st) == Cardinality(Opening(st)) + Cardinality(Unended(st))

\* A workflow has finitely many steps.
LEMMA NamesFinite ==
  ASSUME flow \in Flows
  PROVE  IsFiniteSet(Names) /\ Cardinality(Names) \in Nat
<1>1. PICK o : o = flow.order
  OBVIOUS
<1>2. PICK L \in Nat : L = Len(o) /\ DOMAIN o = 1..L
  BY <1>1, OrderFacts
<1>3. \A k \in 1..L : o[k] \in Names
  BY <1>1, <1>2, OrderFacts
<1>4. o \in [1..L -> Names]
  <2>1. flow.order \in Seq(DOMAIN flow.needs)
    BY GraphAssumption DEF FlowOK
  <2>2. o = [k \in DOMAIN o |-> o[k]]
    BY <1>1, <2>1
  <2> QED BY <1>2, <1>3, <2>2
<1>5. \A s \in Names : \E k \in 1..L : o[k] = s
  BY <1>1, <1>2, OrderFacts
<1>6. o \in Surjection(1..L, Names)
  BY <1>4, <1>5 DEF Surjection
<1>7. IsFiniteSet(1..L)
  BY FS_Interval
<1> QED BY <1>6, <1>7, FS_Surjection, FS_CardinalityType

\* They are finitely many, and fewer where a document has fewer of them.
LEMMA LeftFacts ==
  ASSUME flow \in Flows, NEW p, NEW q,
         Opening(q) \subseteq Opening(p), Unended(q) \subseteq Unended(p)
  PROVE  /\ Left(p) \in Nat /\ Left(q) \in Nat /\ Left(q) <= Left(p)
         /\ Left(p) <= 2 * Cardinality(Names)
         /\ Opening(q) # Opening(p) \/ Unended(q) # Unended(p) => Left(q) < Left(p)
<1>1. IsFiniteSet(Names) /\ Cardinality(Names) \in Nat
  BY NamesFinite
<1>2. ASSUME NEW S \in SUBSET Names
      PROVE  IsFiniteSet(S) /\ Cardinality(S) \in Nat /\ Cardinality(S) <= Cardinality(Names)
  BY <1>1, FS_Subset, FS_CardinalityType
<1>3. ASSUME NEW S \in SUBSET Names, NEW T \in SUBSET S
      PROVE  Cardinality(T) <= Cardinality(S) /\ (Cardinality(S) = Cardinality(T) => S = T)
  BY <1>2, FS_Subset
<1>4. PICK A \in SUBSET Names, B \in SUBSET Names : A = Opening(p) /\ B = Unended(p)
  BY DEF Opening, Unended
<1>5. PICK C \in SUBSET A, D \in SUBSET B : C = Opening(q) /\ D = Unended(q)
  BY <1>4
<1>6. PICK N \in Nat, a \in Nat, b \in Nat, c \in Nat, d \in Nat :
        /\ N = Cardinality(Names) /\ a = Cardinality(A) /\ b = Cardinality(B)
        /\ c = Cardinality(C) /\ d = Cardinality(D)
  BY <1>1, <1>2
<1>7. a <= N /\ b <= N /\ c <= a /\ d <= b /\ (a = c => A = C) /\ (b = d => B = D)
  BY <1>2, <1>3, <1>6
<1>8. Left(p) = a + b /\ Left(q) = c + d
  BY <1>4, <1>5, <1>6 DEF Left
<1> QED BY <1>4, <1>5, <1>6, <1>7, <1>8

\* A sweep puts no step into them.
LEMMA SweepLeft ==
  ASSUME flow \in Flows, clock \in Nat, NEW st \in Document, Shaped(st), NEW a, a = Sweep(st)
  PROVE  Opening(a) \subseteq Opening(st) /\ Unended(a) \subseteq Unended(st)
<1>1. ASSUME NEW s \in Names
      PROVE  \/ st[s].verdict = "pending"
             \/ a[s].shards = st[s].shards /\ a[s].verdict # "pending"
  <2>1. Evolves(st[s], a[s])
    BY SweepQuiet
  <2>2. st[s].verdict \in {"pending", "running"} \cup Terminal
    BY DEF Document, StepType
  <2> QED BY <2>1, <2>2 DEF Evolves, Terminal
<1> QED BY <1>1 DEF Opening, Unended

\* Failing what cannot be built takes a step out of those that may start.
LEMMA UnbuiltLeft ==
  ASSUME NEW a \in Document, NEW d, d = FailUnbuilt(a)
  PROVE  /\ Opening(d) \subseteq Opening(a) /\ Unended(d) \subseteq Unended(a)
         /\ Unbuilt(a) # {} => Opening(d) # Opening(a)
<1>1. ASSUME NEW s \in Names
      PROVE  /\ d[s].verdict = a[s].verdict /\ DOMAIN d[s].shards = DOMAIN a[s].shards
             /\ \A i \in DOMAIN a[s].shards :
                  a[s].shards[i].task # "pending" => d[s].shards[i] = a[s].shards[i]
  BY UnbuiltShards
<1>2. Opening(d) \subseteq Opening(a)
  BY <1>1 DEF Opening
<1>3. Unended(d) \subseteq Unended(a)
  BY <1>1 DEF Unended, SomeGoing, Going
<1>4. ASSUME NEW s \in Unbuilt(a) PROVE s \in Opening(a) /\ s \notin Opening(d)
  <2>1. s \in Names /\ a[s].verdict = "running"
        /\ \E i \in DOMAIN a[s].shards : a[s].shards[i].task = "pending"
    BY DEF Unbuilt, Startable
  <2>2. PICK ss \in StepType : ss = a[s]
    BY <2>1 DEF Document
  <2>3. PICK sh \in Seq(ShardType) : sh = ss.shards
    BY DEF StepType
  <2>4. PICK ns : ns = [i \in DOMAIN sh |-> IF sh[i].task = "pending" THEN [sh[i] EXCEPT !.task = "failed"] ELSE sh[i]]
    OBVIOUS
  <2>5. d[s] = [ss EXCEPT !.shards = ns]
    BY <2>1, <2>2, <2>3, <2>4 DEF FailUnbuilt
  <2>6. d[s].shards = ns
    BY <2>5 DEF StepType
  <2>7. ASSUME NEW i \in DOMAIN ns PROVE ns[i].task # "pending"
    <3>1. PICK e \in ShardType : e = sh[i]
      BY <2>4, <2>7
    <3>2. ns[i] = IF e.task = "pending" THEN [e EXCEPT !.task = "failed"] ELSE e
      BY <2>4, <3>1
    <3>3. [e EXCEPT !.task = "failed"].task = "failed"
      BY DEF ShardType
    <3> QED BY <3>2, <3>3
  <2>8. d[s].verdict = "running"
    BY <1>1, <2>1
  <2>9. s \notin Opening(d)
    BY <2>6, <2>7, <2>8 DEF Opening
  <2> QED BY <2>1, <2>9 DEF Opening
<1> QED BY <1>2, <1>3, <1>4

\* Calling off what is left of a step takes it out of those that are not over.
LEMMA StoppedLeft ==
  ASSUME NEW a \in Document, Shaped(a), NEW d, d = Stopped(a)
  PROVE  /\ Opening(d) \subseteq Opening(a) /\ Unended(d) \subseteq Unended(a)
         /\ StopsOf(a) # {} => Unended(d) # Unended(a)
<1>1. ASSUME NEW s \in Names
      PROVE  /\ d[s].verdict = a[s].verdict /\ DOMAIN d[s].shards = DOMAIN a[s].shards
             /\ \A i \in DOMAIN a[s].shards :
                  d[s].shards[i] = a[s].shards[i] \/ d[s].shards[i].task = "cancelled"
             /\ \A i \in DOMAIN a[s].shards :
                  i \in CalledOff(a, s) => d[s].shards[i].task = "cancelled"
             /\ \A i \in DOMAIN a[s].shards :
                  i \notin CalledOff(a, s) => d[s].shards[i] = a[s].shards[i]
  BY StoppedShards
<1>2. Opening(d) \subseteq Opening(a)
  BY <1>1 DEF Opening
<1>3. Unended(d) \subseteq Unended(a)
  BY <1>1 DEF Unended, SomeGoing, Going
<1>4. ASSUME NEW s \in Names, NEW j \in CalledOff(a, s)
      PROVE  s \in Unended(a) /\ s \notin Unended(d)
  <2>1. /\ j \in DOMAIN a[s].shards /\ ~TaskOver(a[s].shards[j])
        /\ a[s].verdict \in {"running", "cancelled"}
    BY DEF CalledOff
  <2>2. \A i \in DOMAIN a[s].shards : a[s].shards[i].task \in Tasks
    <3>1. a[s].shards \in Seq(ShardType)
      BY DEF Document, StepType
    <3>2. \A i \in DOMAIN a[s].shards : a[s].shards[i] \in ShardType
      BY <3>1
    <3> QED BY <3>2 DEF ShardType
  <2>3. s \in Unended(a)
    BY <2>1, <2>2 DEF Unended, SomeGoing, Going, TaskOver, Tasks
  <2>4. \A i \in DOMAIN a[s].shards : i \in CalledOff(a, s) \/ TaskOver(a[s].shards[i])
    BY DEF CalledOff
  <2>5. \A i \in DOMAIN d[s].shards : ~Going(d[s].shards[i])
    BY <1>1, <2>4 DEF Going, TaskOver
  <2>6. d[s].verdict # "pending"
    BY <1>1, <2>1
  <2> QED BY <2>3, <2>5, <2>6 DEF Unended, SomeGoing
<1>5. StopsOf(a) # {} => \E s \in Names : CalledOff(a, s) # {}
  BY DEF StopsOf
<1> QED BY <1>2, <1>3, <1>4, <1>5

\* A round that is not the last leaves less.
LEMMA RoundLeft ==
  ASSUME flow \in Flows, clock \in Nat, NEW b \in RoundType, ~b.done,
         NEW e, e = Advanced(b, Sweep(b.st))
  PROVE  e.done \/ Left(e.st) < Left(b.st)
<1>1. PICK a : a = Sweep(b.st)
  OBVIOUS
<1>2. b.st \in Document /\ Shaped(b.st)
      /\ b = [st |-> b.st, stops |-> b.stops, done |-> b.done, stuck |-> b.stuck]
  BY DEF RoundType
<1>3. a \in Document /\ Shaped(a)
  BY <1>1, <1>2, SweepQuiet
<1>4. Left(a) \in Nat /\ Left(b.st) \in Nat /\ Left(a) <= Left(b.st)
  BY <1>1, <1>2, SweepLeft, LeftFacts
<1>5. e = Round(b, a, StopsOf(a))
  BY <1>1 DEF Advanced
<1>6. CASE Stuck(a)
  <2>1. e = [b EXCEPT !.done = TRUE, !.stuck = TRUE]
    BY <1>5, <1>6 DEF Round
  <2>2. e.done = TRUE
    BY <1>2, <2>1
  <2> QED BY <2>2
<1>7. CASE ~Stuck(a) /\ Unbuilt(a) # {}
  <2>1. PICK d : d = FailUnbuilt(a)
    OBVIOUS
  <2>2. e = [b EXCEPT !.st = d]
    BY <1>5, <1>7, <2>1 DEF Round
  <2>3. e.st = d
    BY <1>2, <2>2
  <2>4. Left(d) < Left(a) /\ Left(d) \in Nat
    BY <1>3, <1>7, <2>1, UnbuiltLeft, LeftFacts
  <2> QED BY <1>4, <2>3, <2>4
<1>8. CASE ~Stuck(a) /\ Unbuilt(a) = {}
  <2>1. PICK d : d = Stopped(a)
    OBVIOUS
  <2>2. PICK P : P = StopsOf(a)
    OBVIOUS
  <2>3. PICK last : last = (P = {})
    OBVIOUS
  <2>31. e = [st |-> d, stops |-> b.stops \cup P, done |-> last, stuck |-> FALSE]
    BY <1>5, <1>8, <2>1, <2>2, <2>3 DEF Round
  <2>32. e.st = d /\ e.done = last
    BY <2>31
  <2>4. e.st = d /\ (P = {} => e.done)
    BY <2>3, <2>32
  <2>5. P # {} => Left(d) < Left(a) /\ Left(d) \in Nat
    BY <1>3, <2>1, <2>2, StoppedLeft, LeftFacts
  <2> QED BY <1>4, <2>4, <2>5
<1> QED BY <1>6, <1>7, <1>8

\* Two rounds for every step, and one more, are enough.
LEMMA RoundsEnd ==
  ASSUME flow \in Flows, clock \in Nat, NEW st \in Document, Shaped(st),
         2 * Cardinality(Names) < MaxRounds
  PROVE  Rounds(st).done
<1>1. PICK x : Passing(x, st) /\ Rounds(st) = x[MaxRounds]
  BY RoundsExist
<1>2. PICK L \in Nat : L = MaxRounds
  BY GraphAssumption
<1>3. /\ x \in [0..L -> RoundType] /\ x[0] = FirstRound(st)
      /\ \A k \in 1..L : x[k] = NextRound(x[k - 1])
  BY <1>1, <1>2 DEF Passing
<1>4. PICK N \in Nat : N = Cardinality(Names)
  BY NamesFinite
<1>5. \A d : Left(d) \in Nat /\ Left(d) <= 2 * N
  BY <1>4, LeftFacts
<1> DEFINE Q == {k \in 0..L : x[k].done \/ Left(x[k].st) + k <= 2 * N}
<1>6. 0 \in Q
  <2>1. x[0].st = st
    BY <1>3 DEF FirstRound
  <2>2. PICK l \in Nat : l = Left(st) /\ l <= 2 * N
    BY <1>5
  <2> QED BY <2>1, <2>2
<1>7. ASSUME NEW k \in 1..L, k - 1 \in Q PROVE k \in Q
  <2>1. PICK b \in RoundType : b = x[k - 1]
    <3>1. k - 1 \in 0..L
      OBVIOUS
    <3> QED BY <1>3, <3>1
  <2>2. PICK e : e = x[k]
    OBVIOUS
  <2>3. e = NextRound(b) /\ k \in 0..L
    BY <1>3, <2>1, <2>2
  <2>4. CASE b.done
    BY <2>2, <2>3, <2>4 DEF NextRound
  <2>5. CASE ~b.done
    <3>1. e = Advanced(b, Sweep(b.st))
      BY <2>3, <2>5 DEF NextRound
    <3>2. e.done \/ Left(e.st) < Left(b.st)
      BY <2>5, <3>1, RoundLeft
    <3>3. Left(b.st) + (k - 1) <= 2 * N
      BY <1>7, <2>1, <2>5
    <3>4. PICK l \in Nat, m \in Nat : l = Left(b.st) /\ m = Left(e.st)
      BY <1>5
    <3>5. e.done \/ m + k <= 2 * N
      BY <3>2, <3>3, <3>4
    <3> QED BY <2>2, <2>3, <3>4, <3>5
  <2> QED BY <2>4, <2>5
<1>8. L \in Q
  <2> HIDE DEF Q
  <2>1. \A k \in 0..L : k \in Q
    BY <1>6, <1>7, UpTo
  <2> QED BY <2>1
<1>9. PICK l \in Nat : l = Left(x[L].st)
  BY <1>5
<1>10. x[L].done \/ l + L <= 2 * N
  BY <1>8, <1>9
<1> QED BY <1>1, <1>2, <1>4, <1>10

\* A pass over the document of a run, and one over what a report not answered yet
\* would leave of it, comes to a round that fails nothing and calls nothing off (or to
\* one where the pass itself fails): two rounds for every step of the workflow, and one
\* more, are enough.
THEOREM PassesEndHolds == Spec => [](2 * Cardinality(Names) < MaxRounds => PassesEnd)
<1>1. ASSUME RunInv, 2 * Cardinality(Names) < MaxRounds PROVE PassesEnd
  <2>1. PICK st \in Document, bs \in SUBSET Box : st = steps /\ bs = boxes
    BY <1>1 DEF RunInv
  <2>2. flow \in Flows /\ clock \in Nat /\ Shaped(st)
    BY <1>1, <2>1 DEF RunInv
  <2>3. ASSUME NEW d \in Documents PROVE Rounds(d).done
    <3>1. run \notin RunTerminal
      BY <2>3 DEF Documents
    <3>2. Boxed(st, bs, told)
      BY <1>1, <2>1, <3>1 DEF RunInv
    <3>3. d = st \/ \E b \in bs : d = Recorded(st, b)
      BY <2>1, <2>3, <3>1 DEF Documents
    <3>4. CASE d = st
      BY <1>1, <2>2, <3>4, RoundsEnd
    <3>5. ASSUME NEW b \in bs, d = Recorded(st, b) PROVE Rounds(d).done
      <4>1. d \in Document /\ Shaped(d)
        BY <2>2, <3>2, <3>5, RecordedFacts
      <4> QED BY <1>1, <2>2, <4>1, RoundsEnd
    <3> QED BY <3>3, <3>4, <3>5
  <2> QED BY <2>3 DEF PassesEnd
<1>2. RunInv => (2 * Cardinality(Names) < MaxRounds => PassesEnd)
  BY <1>1
<1>3. RunInv /\ [Next]_vars => RunInv'
  BY RunInvNext, RunInvStill
<1> QED BY RunInvInit, <1>2, <1>3, PTL DEF Spec
=============================================================================
