--------------------------- MODULE ScheduleProofs ---------------------------
(***************************************************************************)
(* The schedules, for any declarations, controllers and faults.            *)
(***************************************************************************)
EXTENDS Schedule, WellFoundedInduction, FiniteSetTheorems, TLAPS

\* A non-empty set of naturals has a least element, which is its Min.
LEMMA MinIsLeast ==
  ASSUME NEW S \in SUBSET Nat, S # {}
  PROVE  Min(S) \in S /\ \A y \in S : Min(S) <= y
<1> DEFINE Less == {ss \in Nat \X Nat : ss[1] < ss[2]}
<1>1. IsWellFoundedOn(Less, Nat)
  BY NatLessThanWellFounded DEF OpToRel
<1> HIDE DEF Less
<1>2. PICK x \in S : \A y \in S : <<y, x>> \notin Less
  BY <1>1, WFMin
<1>3. ASSUME NEW y \in S PROVE x <= y
  <2>1. y < x => <<y, x>> \in Less
    BY DEF Less
  <2> QED
    BY <1>2, <2>1
<1> QED
  BY <1>3 DEF Min

\* The later of two instants.
LEMMA MaxOfTwo ==
  ASSUME NEW a \in Nat, NEW b \in Nat
  PROVE  Max({a, b}) \in Nat /\ Max({a, b}) \in {a, b} /\ Max({a, b}) >= a /\ Max({a, b}) >= b
<1>1. CASE a >= b
  BY <1>1 DEF Max
<1>2. CASE b >= a
  BY <1>2 DEF Max
<1> QED
  BY <1>1, <1>2

\* What an expression comes round to next is later than where it is sought from, and the first.
LEMMA NextOccurrenceIsNext ==
  ASSUME NEW s \in Schedules, NEW from \in 0..Horizon
  PROVE  /\ NextOccurrence(s, from) \in Nat
         /\ NextOccurrence(s, from) \in s.at
         /\ NextOccurrence(s, from) > from
         /\ \A o \in s.at : o > from => NextOccurrence(s, from) <= o
<1> DEFINE S == {o \in s.at : o > from}
<1>1. S \in SUBSET Nat /\ S # {}
  BY ScheduleAssumption DEF IsSchedule
<1>2. Min(S) \in S /\ \A y \in S : Min(S) <= y
  BY <1>1, MinIsLeast
<1> QED
  BY <1>1, <1>2 DEF NextOccurrence

\* An entry that is a row declared again takes its state from that row, whatever the state is.
LEMMA CarriedIsOneRows ==
  ASSUME NEW old, NEW ds, NEW i
  PROVE  \/ \E j \in DOMAIN old :
              Again(old, ds, i, j) /\ \A state, fresh : Carried(old, ds, i, state, fresh) = state[j]
         \/ \A state, fresh : Carried(old, ds, i, state, fresh) = fresh
<1>1. CASE \E j \in DOMAIN old : Again(old, ds, i, j)
  <2> DEFINE j == CHOOSE j \in DOMAIN old : Again(old, ds, i, j)
  <2>1. j \in DOMAIN old /\ Again(old, ds, i, j)
    BY <1>1
  <2>2. \A state, fresh : Carried(old, ds, i, state, fresh) = state[j]
    BY <1>1 DEF Carried
  <2> QED
    BY <2>1, <2>2
<1>2. CASE ~ \E j \in DOMAIN old : Again(old, ds, i, j)
  BY <1>2 DEF Carried
<1> QED
  BY <1>1, <1>2

\* The declarations of any head are a sequence of schedules.
LEMMA DeclaredIsSeq ==
  ASSUME NEW h \in Commits \cup {NoCommit}
  PROVE  Declared(h) \in Seq(Schedules) /\ (DOMAIN Declared(h) # {} => h \in Commits)
  BY ScheduleAssumption DEF Declared

\* A function on 1..n is a sequence.
LEMMA FunctionsAreSeqs ==
  ASSUME NEW S, NEW n \in Nat, NEW f \in [1..n -> S]
  PROVE  f \in Seq(S)
  OBVIOUS

\* A fresh row: due for what comes after the instant it is armed at, and late by its jitter.
IsFresh(row, s, h, at) ==
  /\ row = [decl |-> s, commit |-> h, due |-> NextOccurrence(s, at), fire |-> row.fire]
  /\ row.fire \in Nat /\ row.due <= row.fire /\ row.fire <= row.due + s.jitter

\* What an arming leaves at position i, where j was what it was before.
IsCarried(i, h, j) ==
  /\ Again(rows, Declared(h), i, j)
  /\ rows'[i] = [rows[j] EXCEPT !.commit = h]
  /\ past'[i] = past[j]

IsArmed(i, h, at) ==
  /\ IsFresh(rows'[i], Declared(h)[i], h, at)
  /\ past'[i] = [settled |-> at, armedAt |-> now, ran |-> 0]

\* An entry drawn anew is a fresh row.
LEMMA EntryIsFresh ==
  ASSUME NEW s \in Schedules, NEW h \in Commits, NEW at \in 0..Horizon, NEW jitter \in 0..s.jitter
  PROVE  IsFresh(Entry(s, h, at, jitter), s, h, at) /\ Entry(s, h, at, jitter) \in Row
<1>1. NextOccurrence(s, at) \in Nat /\ s.jitter \in Nat
  BY NextOccurrenceIsNext, ScheduleAssumption DEF IsSchedule
<1>2. NextOccurrence(s, at) + jitter \in Nat
  BY <1>1
<1> QED
  BY <1>1, <1>2 DEF Entry, IsFresh, Row

\* An arming replaces the rows by what the head declares: each is fresh, or is one of before.
LEMMA ReplaceIs ==
  ASSUME TypeOK, NEW h \in Commits \cup {NoCommit}, NEW at \in 0..Horizon, Replace(rows, h, at)
  PROVE  /\ DOMAIN rows' = DOMAIN Declared(h)
         /\ rows' \in Seq(Row) /\ past' \in [DOMAIN rows' -> Past]
         /\ armed' \in Commits \cup {NoCommit}
         /\ \A i \in DOMAIN rows' : \/ IsArmed(i, h, at)
                                    \/ \E j \in DOMAIN rows : IsCarried(i, h, j)
<1> DEFINE ds == Declared(h)
<1>1. ds \in Seq(Schedules) /\ (DOMAIN ds # {} => h \in Commits)
  BY DeclaredIsSeq
<1>2. PICK draw \in Draws(ds) : rows' = Arm(rows, h, at, draw)
  BY DEF Replace
<1>3. DOMAIN rows' = DOMAIN ds /\ DOMAIN past' = DOMAIN ds
  BY <1>2 DEF Replace, Arm
<1>4. ASSUME NEW i \in DOMAIN ds
      PROVE  /\ rows'[i] \in Row /\ past'[i] \in Past
             /\ IsArmed(i, h, at) \/ \E j \in DOMAIN rows : IsCarried(i, h, j)
  <2>1. ds[i] \in Schedules /\ h \in Commits /\ draw[i] \in 0..ds[i].jitter
    BY <1>1, <1>2, ScheduleAssumption DEF Draws, IsSchedule
  <2> DEFINE e == Entry(ds[i], h, at, draw[i])
             p == [settled |-> at, armedAt |-> now, ran |-> 0]
  <2>2. IsFresh(e, ds[i], h, at) /\ e \in Row /\ p \in Past
    BY <2>1, EntryIsFresh DEF TypeOK, Past
  <2> HIDE DEF e, p
  <2>3. rows'[i] = [Carried(rows, ds, i, rows, e) EXCEPT !.commit = h]
    BY <1>2 DEF Arm, e
  <2>4. past'[i] = Carried(rows, ds, i, past, p)
    BY DEF Replace, p
  <2>5. CASE \E j \in DOMAIN rows :
              Again(rows, ds, i, j) /\ \A state, fresh : Carried(rows, ds, i, state, fresh) = state[j]
    <3> PICK j \in DOMAIN rows :
              Again(rows, ds, i, j) /\ \A state, fresh : Carried(rows, ds, i, state, fresh) = state[j]
      BY <2>5
    <3>1. IsCarried(i, h, j)
      BY <2>3, <2>4 DEF IsCarried
    <3>2. rows'[i] \in Row /\ past'[i] \in Past
      <4>1. rows \in Seq(Row)
        BY DEF TypeOK
      <4>2. rows[j] \in Row /\ past[j] \in Past
        BY <4>1 DEF TypeOK
      <4> QED
        BY <2>1, <3>1, <4>2 DEF IsCarried, Row
    <3> QED
      BY <3>1, <3>2
  <2>6. CASE \A state, fresh : Carried(rows, ds, i, state, fresh) = fresh
    <3>1. rows'[i] = [e EXCEPT !.commit = h] /\ past'[i] = p
      BY <2>3, <2>4, <2>6
    <3>2. [e EXCEPT !.commit = h] = e
      BY <2>2 DEF IsFresh
    <3> QED
      BY <2>2, <3>1, <3>2 DEF IsArmed, p
  <2> QED
    BY <2>5, <2>6, CarriedIsOneRows
<1>5. rows' \in Seq(Row) /\ past' \in [DOMAIN rows' -> Past]
  <2>1. rows' = [i \in 1..Len(ds) |-> rows'[i]] /\ DOMAIN ds = 1..Len(ds)
    BY <1>1, <1>2 DEF Arm
  <2>2. past' = [i \in DOMAIN past' |-> past'[i]]
    BY DEF Replace
  <2> QED
    BY <1>1, <1>3, <1>4, <2>1, <2>2, FunctionsAreSeqs
<1>6. armed' \in Commits \cup {NoCommit}
  BY DEF Replace, Recorded
<1> QED
  BY <1>3, <1>4, <1>5, <1>6

\* An arming that keeps no state leaves fresh rows; what is remembered follows the declarations.
LEMMA ReplaceAnewIs ==
  ASSUME TypeOK, NEW h \in Commits \cup {NoCommit}, NEW at \in 0..Horizon, Replace(<<>>, h, at)
  PROVE  /\ DOMAIN rows' = DOMAIN Declared(h)
         /\ rows' \in Seq(Row) /\ past' \in [DOMAIN rows' -> Past]
         /\ armed' \in Commits \cup {NoCommit}
         /\ \A i \in DOMAIN rows' :
              /\ IsFresh(rows'[i], Declared(h)[i], h, at)
              /\ \/ past'[i].ran = 0
                 \/ \E j \in DOMAIN rows : past'[i] = past[j]
<1> DEFINE ds == Declared(h)
<1>1. ds \in Seq(Schedules) /\ (DOMAIN ds # {} => h \in Commits)
  BY DeclaredIsSeq
<1>2. PICK draw \in Draws(ds) : rows' = Arm(<<>>, h, at, draw)
  BY DEF Replace
<1>3. DOMAIN rows' = DOMAIN ds /\ DOMAIN past' = DOMAIN ds
  BY <1>2 DEF Replace, Arm
<1>4. ASSUME NEW i \in DOMAIN ds
      PROVE  /\ rows'[i] \in Row /\ past'[i] \in Past
             /\ IsFresh(rows'[i], ds[i], h, at)
             /\ past'[i].ran = 0 \/ \E j \in DOMAIN rows : past'[i] = past[j]
  <2>1. ds[i] \in Schedules /\ h \in Commits /\ draw[i] \in 0..ds[i].jitter
    BY <1>1, <1>2, ScheduleAssumption DEF Draws, IsSchedule
  <2> DEFINE e == Entry(ds[i], h, at, draw[i])
             p == [settled |-> at, armedAt |-> now, ran |-> 0]
  <2>2. IsFresh(e, ds[i], h, at) /\ e \in Row /\ p \in Past
    BY <2>1, EntryIsFresh DEF TypeOK, Past
  <2> HIDE DEF e
  <2>3. rows'[i] = [Carried(<<>>, ds, i, <<>>, e) EXCEPT !.commit = h]
    BY <1>2 DEF Arm, e
  <2>4. rows'[i] = e
    <3>1. Carried(<<>>, ds, i, <<>>, e) = e
      BY DEF Carried
    <3> QED
      BY <2>2, <2>3, <3>1 DEF IsFresh
  <2>5. past'[i] = Carried(rows, ds, i, past, p)
    BY DEF Replace
  <2>6. past'[i] = p \/ \E j \in DOMAIN rows : past'[i] = past[j]
    BY <2>5, CarriedIsOneRows
  <2> QED
    BY <2>2, <2>4, <2>6 DEF TypeOK
<1>5. rows' \in Seq(Row) /\ past' \in [DOMAIN rows' -> Past]
  <2>1. rows' = [i \in 1..Len(ds) |-> rows'[i]] /\ DOMAIN ds = 1..Len(ds)
    BY <1>1, <1>2 DEF Arm
  <2>2. past' = [i \in DOMAIN past' |-> past'[i]]
    BY DEF Replace
  <2> QED
    BY <1>1, <1>3, <1>4, <2>1, <2>2, FunctionsAreSeqs
<1>6. armed' \in Commits \cup {NoCommit}
  BY DEF Replace, Recorded
<1> QED
  BY <1>3, <1>4, <1>5, <1>6

-----------------------------------------------------------------------------

\* No two controllers believe they lead the same term.
OneLeads == \A c, o \in Controllers : leads[c] = leads[o] /\ leads[c] # 0 => c = o

\* While a controller arms, the term is its own, and what ran had run before it began.
ArmingsFenced ==
  \A c \in Controllers : pass[c].at = "arm" =>
    /\ leads[c] = term /\ term # 0
    /\ pass[c].now <= now
    /\ \A i \in DOMAIN rows : past[i].ran <= pass[c].now

\* What a pass has still to fire was due at the instant it goes by.
WasDue(d, at) == d.row.due <= d.row.fire /\ d.row.fire <= at

PassesFoundDue ==
  \A c \in Controllers : pass[c].at = "fire" =>
    /\ pass[c].now <= now
    /\ \A d \in {pass[c].hand} \cup pass[c].due : WasDue(d, pass[c].now)

\* What ran is past, and a firing is never before its occurrence.
RanIsPast == \A i \in DOMAIN rows : past[i].ran <= now /\ rows[i].due <= rows[i].fire

IInv == TypeOK /\ OneLeads /\ ArmingsFenced /\ PassesFoundDue /\ RanIsPast /\ FiredOnceInOrder

\* What a pass is at is told by its place.
LEMMA PassIs ==
  ASSUME TypeOK, NEW c \in Controllers
  PROVE  /\ pass[c].at = "arm" => pass[c] \in Arming
         /\ pass[c].at = "fire" => pass[c] \in Firings
         /\ pass[c] \in {Idle} \cup Arming \cup Firings
  BY DEF TypeOK, Idle, Arming, Firings

\* The bounds are naturals.
LEMMA BoundsAreNat ==
  /\ Missed \in Nat /\ CatchUpBatch \in Nat /\ Lasts \in Nat /\ Horizon \in Nat
  /\ MaxPushes \in Nat /\ MaxUpsets \in Nat
  BY ScheduleAssumption

\* Nothing is armed and nobody leads.
LEMMA ScheduleInit == Init => IInv
<1> SUFFICES ASSUME Init PROVE IInv
    OBVIOUS
<1> USE DEF Init
<1>1. TypeOK
  <2>1. \A S : \A q \in Seq(S) : q \in [DOMAIN q -> S]
    OBVIOUS
  <2>2. rows \in Seq(Row) /\ past \in Seq(Past) /\ past = rows
    OBVIOUS
  <2>3. past \in [DOMAIN rows -> Past]
    BY <2>1, <2>2
  <2>4. leads \in [Controllers -> 0..term] /\ pass \in [Controllers -> {Idle} \cup Arming \cup Firings]
    OBVIOUS
  <2>5. /\ now \in 0..Horizon /\ pushes \in 0..MaxPushes /\ upsets \in 0..MaxUpsets
        /\ {head, armed} \subseteq Commits \cup {NoCommit}
        /\ term \in Nat /\ holder \in Controllers \cup {NoOne}
        /\ lit \in 0..Horizon
    BY BoundsAreNat
  <2>6. passedBy \in BOOLEAN
    BY Zenon
  <2> HIDE DEF Init
  <2> QED
    BY <2>2, <2>3, <2>4, <2>5, <2>6 DEF TypeOK
<1>2. \A c \in Controllers : pass[c].at = "rest" /\ leads[c] = 0
  BY DEF Idle
<1> QED
  BY <1>1, <1>2 DEF IInv, OneLeads, ArmingsFenced, PassesFoundDue, RanIsPast, FiredOnceInOrder

\* A push arms fresh rows and keeps those declared again, with what they ran.
LEMMA PushKeeps ==
  ASSUME IInv, NEW h \in Commits, NEW at \in 0..Horizon, Push(h, at)
  PROVE  IInv'
<1> USE DEF Push, IInv
<1>1. CASE armed = h
  BY <1>1, BoundsAreNat, SMTT(30) DEF TypeOK, OneLeads, ArmingsFenced, PassesFoundDue, RanIsPast, FiredOnceInOrder
<1>2. CASE armed # h
  <2>1. Replace(rows, h, at)
    BY <1>2
  <2>2. /\ rows' \in Seq(Row) /\ past' \in [DOMAIN rows' -> Past]
        /\ armed' \in Commits \cup {NoCommit}
        /\ \A i \in DOMAIN rows' : IsArmed(i, h, at) \/ \E j \in DOMAIN rows : IsCarried(i, h, j)
    BY <2>1, ReplaceIs
  <2>3. /\ pass' \in [Controllers -> {Idle} \cup Arming \cup Firings]
        /\ \A c \in Controllers :
             \/ pass'[c] = pass[c]
             \/ pass[c].at = "arm" /\ pass'[c] = [pass[c] EXCEPT !.behind = TRUE]
    <3>1. pass' = [c \in Controllers |-> IF pass[c].at = "arm"
                                         THEN [pass[c] EXCEPT !.behind = TRUE] ELSE pass[c]]
      BY <1>2
    <3>2. ASSUME NEW c \in Controllers, pass[c].at = "arm"
          PROVE  [pass[c] EXCEPT !.behind = TRUE] \in Arming
      BY <3>2, PassIs DEF Arming
    <3> QED
      BY <3>1, <3>2, PassIs
  <2>4. TypeOK'
    <3>1. pushes' \in 0..MaxPushes
      BY BoundsAreNat, SMTT(30) DEF TypeOK
    <3> QED
      BY <2>2, <2>3, <3>1 DEF TypeOK
  <2>5. ASSUME NEW i \in DOMAIN rows'
        PROVE  /\ past'[i].ran < rows'[i].due /\ past'[i].ran <= now /\ rows'[i].due <= rows'[i].fire
               /\ \A c \in Controllers : pass[c].at = "arm" => past'[i].ran <= pass[c].now
    <3>1. CASE IsArmed(i, h, at)
      <4>1. past'[i].ran = 0 /\ rows'[i].due = NextOccurrence(Declared(h)[i], at)
             /\ rows'[i].due <= rows'[i].fire
        BY <3>1 DEF IsArmed, IsFresh
      <4>2. NextOccurrence(Declared(h)[i], at) > 0
        <5>1. Declared(h)[i] \in Schedules
          BY <2>1, ReplaceIs, DeclaredIsSeq
        <5> QED
          BY <5>1, NextOccurrenceIsNext
      <4>3. \A c \in Controllers : pass[c].at = "arm" => pass[c].now \in Nat
        BY PassIs DEF Arming
      <4> QED
        BY <4>1, <4>2, <4>3, BoundsAreNat, SMTT(30) DEF TypeOK
    <3>2. ASSUME NEW j \in DOMAIN rows, IsCarried(i, h, j)
          PROVE  past'[i] = past[j] /\ rows'[i].due = rows[j].due /\ rows'[i].fire = rows[j].fire
      BY <3>2 DEF IsCarried, TypeOK, Row
    <3> QED
      BY <2>2, <3>1, <3>2 DEF ArmingsFenced, RanIsPast, FiredOnceInOrder
  <2>6. RanIsPast' /\ FiredOnceInOrder'
    BY <2>5 DEF RanIsPast, FiredOnceInOrder
  <2>7. ArmingsFenced'
    <3> SUFFICES ASSUME NEW c \in Controllers, pass'[c].at = "arm"
                 PROVE  /\ leads[c] = term /\ term # 0 /\ pass'[c].now <= now
                        /\ \A i \in DOMAIN rows' : past'[i].ran <= pass'[c].now
        BY DEF ArmingsFenced
    <3>1. pass[c].at = "arm" /\ pass'[c].now = pass[c].now
      BY <2>3, PassIs DEF Arming
    <3> QED
      BY <2>5, <3>1 DEF ArmingsFenced
  <2>8. PassesFoundDue'
    <3> SUFFICES ASSUME NEW c \in Controllers, pass'[c].at = "fire"
                 PROVE  pass'[c] = pass[c]
        BY DEF PassesFoundDue, WasDue
    <3> QED
      BY <2>3, PassIs DEF Arming
  <2> QED
    BY <2>4, <2>6, <2>7, <2>8 DEF OneLeads
<1> QED
  BY <1>1, <1>2

\* The controller's arming writes what it read, and nothing ran since: its transaction holds the
\* term.
LEMMA ArmWritesKeeps ==
  ASSUME IInv, NEW c \in Controllers, ArmWrites(c)
  PROVE  IInv'
<1> USE DEF ArmWrites, IInv
<1> DEFINE h == pass[c].head
           at == pass[c].now
<1>1. pass[c] \in Arming /\ h \in Commits \cup {NoCommit} /\ at \in 0..Horizon
  BY PassIs DEF Arming
<1> HIDE DEF h, at
<1>2. /\ rows' \in Seq(Row) /\ past' \in [DOMAIN rows' -> Past]
      /\ armed' \in Commits \cup {NoCommit}
      /\ DOMAIN rows' = DOMAIN Declared(h)
      /\ \A i \in DOMAIN rows' :
           /\ IsFresh(rows'[i], Declared(h)[i], h, at) \/ \E j \in DOMAIN rows : IsCarried(i, h, j)
           /\ past'[i].ran = 0 \/ \E j \in DOMAIN rows : past'[i] = past[j]
  <2>1. CASE Replace(rows, h, at)
    <3>1. \A i \in DOMAIN rows' : IsArmed(i, h, at) => past'[i].ran = 0
      BY DEF IsArmed
    <3> QED
      BY <1>1, <2>1, <3>1, ReplaceIs DEF IsArmed, IsCarried
  <2>2. CASE Replace(<<>>, h, at)
    BY <1>1, <2>2, ReplaceAnewIs
  <2> QED
    BY <2>1, <2>2 DEF h, at
<1>3. pass' = [pass EXCEPT ![c] = Idle] /\ Idle.at = "rest"
  BY DEF Idle
<1>4. TypeOK'
  <2>1. passedBy' \in BOOLEAN
    BY Zenon DEF TypeOK
  <2>2. pass' \in [Controllers -> {Idle} \cup Arming \cup Firings]
    BY <1>3 DEF TypeOK
  <2> QED
    BY <1>2, <2>1, <2>2 DEF TypeOK
<1>5. ASSUME NEW i \in DOMAIN rows'
      PROVE  past'[i].ran < rows'[i].due /\ past'[i].ran <= now /\ rows'[i].due <= rows'[i].fire
  <2>1. past'[i].ran = 0 \/ past'[i].ran <= at
    BY <1>2 DEF ArmingsFenced, at
  <2>2. past'[i].ran \in Nat /\ at <= now
    BY <1>2 DEF ArmingsFenced, at, Past
  <2>3. CASE IsFresh(rows'[i], Declared(h)[i], h, at)
    <3>1. rows'[i].due = NextOccurrence(Declared(h)[i], at) /\ rows'[i].due <= rows'[i].fire
      BY <2>3 DEF IsFresh
    <3>2. Declared(h)[i] \in Schedules
      BY <1>1, <1>2, DeclaredIsSeq
    <3>3. NextOccurrence(Declared(h)[i], at) \in Nat /\ NextOccurrence(Declared(h)[i], at) > at
      BY <1>1, <3>2, NextOccurrenceIsNext
    <3>4. at \in Nat /\ now \in Nat
      BY <1>1, BoundsAreNat DEF TypeOK
    <3> HIDE DEF ArmWrites, IInv
    <3> QED
      BY <2>1, <2>2, <3>1, <3>3, <3>4
  <2>4. ASSUME NEW j \in DOMAIN rows, IsCarried(i, h, j)
        PROVE  past'[i] = past[j] /\ rows'[i].due = rows[j].due /\ rows'[i].fire = rows[j].fire
    BY <2>4 DEF IsCarried, TypeOK, Row
  <2> QED
    BY <1>2, <2>3, <2>4 DEF RanIsPast, FiredOnceInOrder
<1>6. ASSUME NEW o \in Controllers, pass'[o].at = "arm" PROVE FALSE
  <2>1. o # c /\ pass[o].at = "arm"
    BY <1>3, <1>6 DEF TypeOK
  <2> QED
    BY <2>1 DEF ArmingsFenced, OneLeads
<1>7. PassesFoundDue'
  <2> SUFFICES ASSUME NEW o \in Controllers, pass'[o].at = "fire" PROVE pass'[o] = pass[o]
      BY DEF PassesFoundDue, WasDue
  <2> QED
    BY <1>3 DEF TypeOK
<1> QED
  BY <1>4, <1>5, <1>6, <1>7 DEF OneLeads, ArmingsFenced, RanIsPast, FiredOnceInOrder

\* A pass that turns to another schedule, or ends, had found it due.
LEMMA OnToTheRestIs ==
  ASSUME TypeOK, PassesFoundDue, NEW c \in Controllers, pass[c].at = "fire", OnToTheRest(c)
  PROVE  /\ pass' \in [Controllers -> {Idle} \cup Arming \cup Firings]
         /\ \A o \in Controllers : o # c => pass'[o] = pass[o]
         /\ pass'[c].at # "arm"
         /\ pass'[c].at = "fire" => /\ pass'[c].now = pass[c].now
                                   /\ pass'[c].hand \in pass[c].due
                                   /\ pass'[c].due = pass[c].due \ {pass'[c].hand}
<1>1. CASE pass' = [pass EXCEPT ![c] = Idle]
  BY <1>1 DEF TypeOK, Idle
<1>2. ASSUME NEW d \in Soonest(pass[c].due), pass' = [pass EXCEPT ![c] = AtHand(d, pass[c].due, pass[c].now)]
      PROVE  /\ pass' \in [Controllers -> {Idle} \cup Arming \cup Firings]
             /\ \A o \in Controllers : o # c => pass'[o] = pass[o]
             /\ pass'[c].at # "arm"
             /\ pass'[c].now = pass[c].now /\ pass'[c].hand \in pass[c].due
             /\ pass'[c].due = pass[c].due \ {pass'[c].hand}
  <2>1. pass[c] \in Firings /\ d \in pass[c].due
    BY PassIs DEF Soonest
  <2>2. AtHand(d, pass[c].due, pass[c].now) \in Firings
    BY <2>1 DEF AtHand, Firings
  <2>3. pass'[c] = AtHand(d, pass[c].due, pass[c].now)
    BY <1>2 DEF TypeOK
  <2> QED
    BY <1>2, <2>1, <2>2, <2>3 DEF TypeOK, AtHand
<1> QED
  BY <1>1, <1>2 DEF OnToTheRest

\* A pass that reads what is due finds it due.
LEMMA FireReadsKeeps ==
  ASSUME IInv, NEW c \in Controllers, FireReads(c)
  PROVE  IInv'
<1> USE DEF FireReads, IInv
<1>1. PICK d \in Soonest(DueSchedules) : pass' = [pass EXCEPT ![c] = AtHand(d, DueSchedules, now)]
  OBVIOUS
<1>2. ASSUME NEW e \in DueSchedules PROVE e \in Due /\ WasDue(e, now)
  <2>1. PICK i \in DOMAIN rows : rows[i].fire <= now /\ e = [position |-> i, row |-> rows[i]]
    BY DEF DueSchedules
  <2>2. rows \in Seq(Row)
    BY DEF TypeOK
  <2>3. i \in Nat /\ rows[i] \in Row
    BY <2>2
  <2> QED
    BY <2>1, <2>3 DEF Due, WasDue, RanIsPast
<1>3. d \in DueSchedules /\ DueSchedules \ {d} \subseteq DueSchedules
  BY DEF Soonest
<1>4. AtHand(d, DueSchedules, now) \in Firings
  BY <1>2, <1>3 DEF AtHand, Firings, TypeOK
<1>5. /\ pass' \in [Controllers -> {Idle} \cup Arming \cup Firings]
      /\ pass'[c] = AtHand(d, DueSchedules, now)
      /\ \A o \in Controllers : o # c => pass'[o] = pass[o]
  BY <1>1, <1>4 DEF TypeOK
<1>6. TypeOK'
  BY <1>5 DEF TypeOK
<1>7. ArmingsFenced'
  <2>1. pass'[c].at # "arm"
    BY <1>5 DEF AtHand
  <2> QED
    BY <1>5, <2>1 DEF ArmingsFenced
<1>8. PassesFoundDue'
  <2>1. pass'[c].now = now /\ {pass'[c].hand} \cup pass'[c].due \subseteq DueSchedules
    BY <1>3, <1>5 DEF AtHand
  <2> SUFFICES ASSUME NEW o \in Controllers, pass'[o].at = "fire"
               PROVE  /\ pass'[o].now <= now
                      /\ \A e \in {pass'[o].hand} \cup pass'[o].due : WasDue(e, pass'[o].now)
      BY DEF PassesFoundDue, WasDue
  <2>3. CASE o = c
    BY <1>2, <2>1, <2>3, BoundsAreNat DEF TypeOK
  <2>4. CASE o # c
    BY <1>5, <2>4 DEF PassesFoundDue
  <2> QED
    BY <2>3, <2>4
<1> QED
  BY <1>6, <1>7, <1>8 DEF OneLeads, RanIsPast, FiredOnceInOrder

\* From where a pass goes on: no earlier than the occurrence it answers, and no later than the
\* instant it goes by.
LEMMA OnwardsIs ==
  ASSUME NEW d \in Due, NEW at \in 0..Horizon, WasDue(d, at)
  PROVE  Onwards(d, at) \in 0..Horizon /\ d.row.due <= Onwards(d, at) /\ Onwards(d, at) <= at
<1>1. d.row.due \in Nat /\ d.row.fire \in Nat /\ at \in Nat
  BY BoundsAreNat DEF Due, Row
<1>2. CASE ~Skips(d, at)
  BY <1>1, <1>2, BoundsAreNat DEF Onwards, WasDue
<1>3. CASE Skips(d, at)
  <2>1. at - Missed \in Nat /\ at - Missed <= at
    BY <1>1, <1>3, BoundsAreNat DEF Skips
  <2>2. Onwards(d, at) = Max({at - Missed, d.row.due})
    BY <1>3 DEF Onwards
  <2> QED
    BY <1>1, <2>1, <2>2, MaxOfTwo, BoundsAreNat DEF WasDue
<1> QED
  BY <1>2, <1>3

\* A pass that goes on with the same schedule is that pass with the row it has just written.
CaughtUp(p, e) == [p EXCEPT !.hand = e, !.fired = p.fired + 1]

LEMMA CatchUpIs ==
  ASSUME NEW p \in Firings, NEW e \in Due
  PROVE  /\ CaughtUp(p, e) \in Firings
         /\ CaughtUp(p, e).at = "fire" /\ CaughtUp(p, e).now = p.now
         /\ CaughtUp(p, e).hand = e /\ CaughtUp(p, e).due = p.due
<1> SUFFICES ASSUME NEW q, q = [p EXCEPT !.hand = e, !.fired = p.fired + 1]
             PROVE  q \in Firings /\ q.at = "fire" /\ q.now = p.now /\ q.hand = e /\ q.due = p.due
    BY DEF CaughtUp
<1>1. p.at = "fire" /\ p.now \in 0..Horizon /\ p.due \in SUBSET Due /\ p.fired \in Nat
      /\ DOMAIN p = {"at", "now", "hand", "due", "fired"}
  BY DEF Firings
<1>2. q.at = p.at /\ q.now = p.now /\ q.hand = e /\ q.due = p.due /\ q.fired = p.fired + 1
  BY <1>1
<1>3. q = [at |-> q.at, now |-> q.now, hand |-> q.hand, due |-> q.due, fired |-> q.fired]
  BY <1>1
<1> QED
  BY <1>1, <1>2, <1>3 DEF Firings

\* What firing d at `at` does where the next occurrence is due and the firing late by jitter: its
\* row waits for that occurrence, and the pass goes on with it or with another.
RowFiredTo(d, at, outcome, due, jitter) ==
  /\ due = NextOccurrence(d.row.decl, Onwards(d, at)) /\ due > d.row.due
  /\ jitter <= d.row.decl.jitter
  /\ rows' \in Seq(Row) /\ DOMAIN rows' = DOMAIN rows
  /\ rows'[d.position] = MovedOn(rows[d.position], due, jitter)
  /\ \A j \in DOMAIN rows : j # d.position => rows'[j] = rows[j]
  /\ past' \in [DOMAIN rows' -> Past]
  /\ past'[d.position] = Answered(past[d.position], d, outcome, at)
  /\ \A j \in DOMAIN rows : j # d.position => past'[j] = past[j]

PassGoesOn(c, d, at, due, jitter) ==
  /\ pass' \in [Controllers -> {Idle} \cup Arming \cup Firings]
  /\ \A o \in Controllers : o # c => pass'[o] = pass[o]
  /\ pass'[c].at # "arm"
  /\ pass'[c].at = "fire" =>
       /\ pass'[c].now = at
       /\ \/ /\ due + jitter <= at
             /\ pass'[c].hand = [position |-> d.position, row |-> MovedOn(d.row, due, jitter)]
             /\ pass'[c].due = pass[c].due
          \/ pass'[c].hand \in pass[c].due /\ pass'[c].due = pass[c].due \ {pass'[c].hand}

\* A row moved on waits for the occurrence given, and is otherwise what it was.
LEMMA MovedOnIs ==
  ASSUME NEW row \in Row, NEW due \in Nat, NEW jitter \in Nat
  PROVE  /\ MovedOn(row, due, jitter) \in Row
         /\ MovedOn(row, due, jitter).due = due /\ MovedOn(row, due, jitter).fire = due + jitter
         /\ MovedOn(row, due, jitter).decl = row.decl /\ MovedOn(row, due, jitter).commit = row.commit
<1>1. due + jitter \in Nat
  OBVIOUS
<1> QED
  BY <1>1 DEF MovedOn, Row

\* What is known of a schedule after a firing.
LEMMA AnsweredIs ==
  ASSUME NEW p \in Past, NEW d \in Due, NEW at \in 0..Horizon, WasDue(d, at), NEW outcome,
         lit \in Nat
  PROVE  /\ Answered(p, d, outcome, at) \in Past
         /\ Answered(p, d, outcome, at).ran \in {d.row.due, p.ran}
         /\ Answered(p, d, outcome, at).armedAt = p.armedAt
         /\ NextOccurrence(d.row.decl, p.settled) = d.row.due =>
              \/ outcome # "skipped" /\ Answered(p, d, outcome, at).settled = d.row.due
              \/ /\ outcome = "skipped" /\ lit <= Max({d.row.fire, p.armedAt})
                 /\ Answered(p, d, outcome, at).settled = Onwards(d, at)
              \/ outcome = "skipped" /\ lit > Max({d.row.fire, p.armedAt})
<1> DEFINE ran == IF outcome = "run" THEN d.row.due ELSE p.ran
           next == NextOccurrence(d.row.decl, p.settled)
           outage == lit <= Max({d.row.fire, p.armedAt})
           settled == IF ~(d.row.due = next) THEN p.settled
                      ELSE IF outcome # "skipped" THEN d.row.due
                      ELSE IF outage THEN Onwards(d, at) ELSE p.settled
<1> DEFINE q == Answered(p, d, outcome, at)
<1>1. q = [p EXCEPT !.ran = ran, !.settled = settled]
  BY Zenon DEF Answered
<1>2. Onwards(d, at) \in Nat /\ d.row.due \in Nat
  BY OnwardsIs, BoundsAreNat DEF Due, Row
<1>3. ran \in Nat /\ settled \in Nat /\ ran \in {d.row.due, p.ran}
  BY <1>2 DEF Past
<1>4. next = d.row.due =>
        \/ outcome # "skipped" /\ settled = d.row.due
        \/ outcome = "skipped" /\ outage /\ settled = Onwards(d, at)
        \/ outcome = "skipped" /\ ~outage
  BY Zenon
<1> HIDE DEF ran, settled, next, outage, q
<1>5. q \in Past /\ q.ran = ran /\ q.settled = settled /\ q.armedAt = p.armedAt
  BY <1>1, <1>3 DEF Past
<1>6. lit > Max({d.row.fire, p.armedAt}) \/ outage
  <2>1. Max({d.row.fire, p.armedAt}) \in Nat
    BY MaxOfTwo, BoundsAreNat DEF Due, Row, Past
  <2> QED
    BY <2>1 DEF outage
<1> QED
  BY <1>3, <1>4, <1>5, <1>6 DEF q, next, outage

LEMMA FiredIs ==
  ASSUME IInv, NEW c \in Controllers, Firing(c), NEW d, d = pass[c].hand, NEW at, at = pass[c].now,
         Held(d), NEW outcome, Fired(c, outcome)
  PROVE  /\ d \in Due /\ at \in 0..Horizon /\ at <= now /\ WasDue(d, at)
         /\ d.row \in Row /\ d.row.decl \in Schedules
         /\ d.position \in DOMAIN rows /\ rows \in Seq(Row) /\ rows[d.position] \in Row
         /\ past[d.position] \in Past
         /\ \E due \in Nat, jitter \in Nat :
              RowFiredTo(d, at, outcome, due, jitter) /\ PassGoesOn(c, d, at, due, jitter)
<1> USE DEF IInv
<1> DEFINE i == d.position
           due == NextOccurrence(d.row.decl, Onwards(d, at))
<1>1. pass[c].at = "fire" /\ pass[c] \in Firings /\ d \in Due /\ at \in 0..Horizon /\ at <= now /\ WasDue(d, at)
  BY PassIs DEF Firing, Firings, PassesFoundDue
<1>2. i \in DOMAIN rows /\ rows[i].due = d.row.due
  BY DEF Held
<1>3. d.row \in Row /\ d.row.decl \in Schedules /\ d.row.due \in Nat /\ d.row.decl.jitter \in Nat
  BY <1>1, ScheduleAssumption DEF Due, Row, IsSchedule
<1>4. due \in Nat /\ due > d.row.due
  <2>1. Onwards(d, at) \in 0..Horizon /\ d.row.due <= Onwards(d, at)
    BY <1>1, OnwardsIs
  <2> QED
    BY <1>3, <2>1, NextOccurrenceIsNext, BoundsAreNat
<1>5. PICK jitter \in 0..d.row.decl.jitter :
        /\ rows' = [rows EXCEPT ![i] = MovedOn(rows[i], due, jitter)]
        /\ past' = [past EXCEPT ![i] = Answered(past[i], d, outcome, at)]
        /\ IF due + jitter <= at /\ pass[c].fired + 1 < CatchUpBatch
           THEN pass' = [pass EXCEPT ![c].hand.row = MovedOn(d.row, due, jitter), ![c].fired = @ + 1]
           ELSE OnToTheRest(c)
  BY Zenon DEF Fired
<1>6. jitter \in Nat /\ jitter <= d.row.decl.jitter
  BY <1>3, <1>5
<1> HIDE DEF i, due
<1>7. rows \in Seq(Row) /\ rows[i] \in Row /\ past[i] \in Past
  <2>1. rows \in Seq(Row)
    BY DEF TypeOK
  <2> QED
    BY <1>2, <2>1 DEF TypeOK
<1>8. /\ rows' \in Seq(Row) /\ DOMAIN rows' = DOMAIN rows
      /\ rows'[i] = MovedOn(rows[i], due, jitter)
      /\ \A j \in DOMAIN rows : j # i => rows'[j] = rows[j]
  BY <1>2, <1>4, <1>5, <1>6, <1>7, MovedOnIs
<1>9. /\ past' \in [DOMAIN rows' -> Past]
      /\ past'[i] = Answered(past[i], d, outcome, at)
      /\ \A j \in DOMAIN rows : j # i => past'[j] = past[j]
  <2>1. Answered(past[i], d, outcome, at) \in Past
    <3>1. lit \in Nat
      BY BoundsAreNat DEF TypeOK
    <3> QED
      BY <1>1, <1>7, <3>1, AnsweredIs
  <2> QED
    BY <1>2, <1>5, <1>8, <2>1 DEF TypeOK
<1>10. /\ pass' \in [Controllers -> {Idle} \cup Arming \cup Firings]
       /\ \A o \in Controllers : o # c => pass'[o] = pass[o]
       /\ pass'[c].at # "arm"
       /\ pass'[c].at = "fire" =>
            /\ pass'[c].now = at
            /\ \/ /\ due + jitter <= at
                  /\ pass'[c].hand = [position |-> i, row |-> MovedOn(d.row, due, jitter)]
                  /\ pass'[c].due = pass[c].due
               \/ pass'[c].hand \in pass[c].due /\ pass'[c].due = pass[c].due \ {pass'[c].hand}
  <2>1. CASE due + jitter <= at /\ pass[c].fired + 1 < CatchUpBatch
    <3> DEFINE e == [position |-> i, row |-> MovedOn(d.row, due, jitter)]
    <3>1. e \in Due /\ [d EXCEPT !.row = MovedOn(d.row, due, jitter)] = e
      BY <1>1, <1>3, <1>4, <1>6, MovedOnIs DEF Due, i
    <3> HIDE DEF e
    <3>2. pass'[c] = [pass[c] EXCEPT !.hand = e, !.fired = pass[c].fired + 1]
      BY <1>5, <2>1, <3>1 DEF TypeOK
    <3>3. pass'[c] \in Firings /\ pass'[c].at = "fire" /\ pass'[c].now = at
          /\ pass'[c].hand = e /\ pass'[c].due = pass[c].due
      <4>1. pass'[c] = CaughtUp(pass[c], e)
        BY <3>2 DEF CaughtUp
      <4> QED
        BY <1>1, <3>1, <4>1, CatchUpIs
    <3>4. \A o \in Controllers : o # c => pass'[o] = pass[o]
      BY <1>5, <2>1 DEF TypeOK
    <3>5. pass' \in [Controllers -> {Idle} \cup Arming \cup Firings]
      <4>1. pass' = [o \in Controllers |-> pass'[o]]
        BY <1>5, <2>1 DEF TypeOK
      <4> QED
        BY <3>3, <3>4, <4>1, PassIs
    <3> QED
      BY <2>1, <3>3, <3>4, <3>5 DEF e
  <2>2. CASE OnToTheRest(c)
    BY <1>1, <2>2, OnToTheRestIs
  <2> QED
    BY <1>5, <2>1, <2>2
<1>11. RowFiredTo(d, at, outcome, due, jitter) /\ PassGoesOn(c, d, at, due, jitter)
  BY <1>4, <1>6, <1>8, <1>9, <1>10 DEF RowFiredTo, PassGoesOn, i, due
<1> QED
  BY <1>1, <1>2, <1>3, <1>4, <1>6, <1>7, <1>11 DEF i

\* A firing moves its row on past the occurrence, which is the last that ran if it started a run.
LEMMA FiredKeeps ==
  ASSUME IInv, NEW c \in Controllers, Firing(c), Held(pass[c].hand),
         NEW outcome, Fired(c, outcome),
         UNCHANGED <<now, head, armed, term, holder, leads, lit, passedBy, pushes>>,
         upsets' \in 0..MaxUpsets
  PROVE  IInv'
<1> DEFINE d == pass[c].hand
           at == pass[c].now
           i == d.position
<1>1. /\ d \in Due /\ at \in 0..Horizon /\ at <= now /\ WasDue(d, at)
      /\ d.row \in Row /\ i \in DOMAIN rows /\ rows[i] \in Row /\ past[i] \in Past
  BY FiredIs
<1>2. PICK due \in Nat, jitter \in Nat :
        RowFiredTo(d, at, outcome, due, jitter) /\ PassGoesOn(c, d, at, due, jitter)
  BY FiredIs
<1>3. /\ rows[i].due = d.row.due /\ pass[c].at = "fire"
      /\ \A e \in pass[c].due : WasDue(e, at)
  BY DEF Held, Firing, IInv, PassesFoundDue
<1> HIDE DEF d, at, i
<1> USE DEF IInv
<1>4. d.row.due \in Nat /\ d.row.fire \in Nat /\ at \in Nat /\ now \in Nat /\ lit \in Nat
  <2>1. now \in Nat /\ lit \in Nat
    BY BoundsAreNat DEF TypeOK
  <2> QED
    BY <1>1, <2>1, BoundsAreNat DEF Row
<1>5. /\ DOMAIN rows' = DOMAIN rows
      /\ rows'[i].due = due /\ rows'[i].fire = due + jitter /\ due > d.row.due
      /\ \A j \in DOMAIN rows : j # i => rows'[j] = rows[j]
  <2>1. /\ DOMAIN rows' = DOMAIN rows /\ rows'[i] = MovedOn(rows[i], due, jitter) /\ due > d.row.due
        /\ \A j \in DOMAIN rows : j # i => rows'[j] = rows[j]
    BY <1>2 DEF RowFiredTo, i
  <2>2. rows[i] \in Row
    BY <1>1
  <2>3. MovedOn(rows[i], due, jitter).due = due /\ MovedOn(rows[i], due, jitter).fire = due + jitter
    BY <2>2, MovedOnIs
  <2> QED
    BY <2>1, <2>3
<1>6. /\ past'[i].ran \in {d.row.due, past[i].ran}
      /\ \A j \in DOMAIN rows : j # i => past'[j] = past[j]
  <2>1. /\ past'[i] = Answered(past[i], d, outcome, at)
        /\ \A j \in DOMAIN rows : j # i => past'[j] = past[j]
    BY <1>2 DEF RowFiredTo, i
  <2>2. /\ d \in Due /\ at \in 0..Horizon /\ WasDue(d, at) /\ past[i] \in Past /\ lit \in Nat
    BY <1>1, <1>4
  <2>3. Answered(past[i], d, outcome, at).ran \in {d.row.due, past[i].ran}
    BY <2>2, AnsweredIs
  <2> QED
    BY <2>1, <2>3
<1>7. /\ \A o \in Controllers : o # c => pass'[o] = pass[o]
      /\ pass'[c].at # "arm"
      /\ pass'[c].at = "fire" => /\ pass'[c].now = at
                                /\ \A e \in {pass'[c].hand} \cup pass'[c].due : WasDue(e, at)
  <2> DEFINE f == [position |-> i, row |-> MovedOn(d.row, due, jitter)]
  <2>1. due + jitter <= at => WasDue(f, at)
    <3>1. d.row \in Row
      BY <1>1
    <3>2. MovedOn(d.row, due, jitter).due = due /\ MovedOn(d.row, due, jitter).fire = due + jitter
      BY <3>1, MovedOnIs
    <3> QED
      BY <3>2 DEF WasDue
  <2> HIDE DEF f
  <2> QED
    BY <1>2, <1>3, <2>1 DEF PassGoesOn, f, i
<1>8. TypeOK'
  <2>1. passedBy' \in BOOLEAN
    BY Zenon DEF TypeOK
  <2> QED
    BY <1>2, <2>1 DEF TypeOK, RowFiredTo, PassGoesOn
<1>9. RanIsPast' /\ FiredOnceInOrder'
  <2> SUFFICES ASSUME NEW j \in DOMAIN rows
               PROVE  /\ past'[j].ran <= now /\ rows'[j].due <= rows'[j].fire
                      /\ past'[j].ran < rows'[j].due
      BY <1>5 DEF RanIsPast, FiredOnceInOrder
  <2>1. CASE j # i
    BY <1>5, <1>6, <2>1 DEF RanIsPast, FiredOnceInOrder
  <2>2. CASE j = i
    <3>1. past[i].ran <= now /\ past[i].ran < d.row.due /\ past[i].ran \in Nat
      BY <1>1, <1>3 DEF RanIsPast, FiredOnceInOrder, Past
    <3>2. d.row.due <= now
      BY <1>1, <1>4 DEF WasDue
    <3> QED
      BY <1>4, <1>5, <1>6, <2>2, <3>1, <3>2
  <2> QED
    BY <2>1, <2>2
<1>10. ArmingsFenced'
  <2> SUFFICES ASSUME NEW o \in Controllers, pass'[o].at = "arm" PROVE FALSE
      BY DEF ArmingsFenced
  <2>1. o # c /\ pass[o].at = "arm"
    BY <1>7
  <2> QED
    BY <2>1 DEF ArmingsFenced, OneLeads, Firing
<1>11. PassesFoundDue'
  <2> SUFFICES ASSUME NEW o \in Controllers, pass'[o].at = "fire"
               PROVE  /\ pass'[o].now <= now
                      /\ \A e \in {pass'[o].hand} \cup pass'[o].due : WasDue(e, pass'[o].now)
      BY DEF PassesFoundDue, WasDue
  <2> QED
    BY <1>1, <1>7 DEF PassesFoundDue
<1> QED
  BY <1>8, <1>9, <1>10, <1>11 DEF OneLeads

\* A pass that finds a row moved, or whose transaction fails, leaves the rows as they are.
LEMMA LeftAloneKeeps ==
  ASSUME IInv, NEW c \in Controllers, Firing(c), OnToTheRest(c),
         UNCHANGED <<now, head, armed, rows, past, term, holder, leads, lit, passedBy, pushes>>,
         upsets' \in 0..MaxUpsets
  PROVE  IInv'
<1> USE DEF IInv
<1>1. /\ pass' \in [Controllers -> {Idle} \cup Arming \cup Firings]
      /\ \A o \in Controllers : o # c => pass'[o] = pass[o]
      /\ pass'[c].at # "arm"
      /\ pass'[c].at = "fire" => /\ pass'[c].now = pass[c].now
                                /\ pass'[c].hand \in pass[c].due
                                /\ pass'[c].due = pass[c].due \ {pass'[c].hand}
  BY OnToTheRestIs DEF Firing
<1>2. TypeOK'
  <2>1. passedBy' \in BOOLEAN
    BY Zenon DEF TypeOK
  <2> QED
    BY <1>1, <2>1 DEF TypeOK
<1>3. ArmingsFenced'
  BY <1>1 DEF ArmingsFenced
<1>4. PassesFoundDue'
  <2> SUFFICES ASSUME NEW o \in Controllers, pass'[o].at = "fire"
               PROVE  /\ pass'[o].now <= now
                      /\ \A e \in {pass'[o].hand} \cup pass'[o].due : WasDue(e, pass'[o].now)
      BY DEF PassesFoundDue, WasDue
  <2> QED
    BY <1>1 DEF PassesFoundDue, Firing
<1> QED
  BY <1>2, <1>3, <1>4 DEF OneLeads, RanIsPast, FiredOnceInOrder

\* Every step of a push, an arming, a pass, the election and the clock preserves the invariant.
LEMMA ScheduleStep == IInv /\ [Next]_vars => IInv'
<1> SUFFICES ASSUME IInv, [Next]_vars PROVE IInv'
    OBVIOUS
<1>1. ASSUME NEW h \in Commits, NEW at \in 0..Horizon, Push(h, at) PROVE IInv'
  BY <1>1, PushKeeps
<1>2. ASSUME NEW c \in Controllers, ArmReads(c) PROVE IInv'
  <2> USE <1>2 DEF ArmReads, IInv
  <2> DEFINE p == [at |-> "arm", head |-> head, now |-> now, behind |-> FALSE]
  <2>1. p \in Arming
    BY DEF Arming, TypeOK
  <2>2. p.at = "arm" /\ p.now = now
    OBVIOUS
  <2> HIDE DEF p
  <2>3. /\ pass' \in [Controllers -> {Idle} \cup Arming \cup Firings]
        /\ pass'[c] = p /\ \A o \in Controllers : o # c => pass'[o] = pass[o]
    BY <2>1 DEF TypeOK, p
  <2>4. TypeOK'
    <3>1. passedBy' \in BOOLEAN
      BY Zenon DEF TypeOK
    <3> QED
      BY <2>3, <3>1 DEF TypeOK
  <2>5. ArmingsFenced'
    BY <2>2, <2>3, BoundsAreNat DEF ArmingsFenced, TypeOK, RanIsPast
  <2>6. PassesFoundDue'
    <3> SUFFICES ASSUME NEW o \in Controllers, pass'[o].at = "fire" PROVE pass'[o] = pass[o]
        BY DEF PassesFoundDue, WasDue
    <3> QED
      BY <2>2, <2>3
  <2> QED
    BY <2>4, <2>5, <2>6 DEF OneLeads, RanIsPast, FiredOnceInOrder
<1>3. ASSUME NEW c \in Controllers, ArmWrites(c) PROVE IInv'
  BY <1>3, ArmWritesKeeps
<1>4. ASSUME NEW c \in Controllers,
             pass' = [pass EXCEPT ![c] = Idle],
             leads' = leads \/ leads' = [leads EXCEPT ![c] = 0],
             UNCHANGED <<now, head, armed, rows, past, term, holder, lit, passedBy, pushes, upsets>>
      PROVE  IInv'
  <2> USE <1>4 DEF IInv
  <2>1. /\ pass' \in [Controllers -> {Idle} \cup Arming \cup Firings]
        /\ pass'[c] = Idle /\ \A o \in Controllers : o # c => pass'[o] = pass[o]
        /\ leads' \in [Controllers -> 0..term]
        /\ \A o \in Controllers : (leads'[o] = leads[o]) \/ (o = c /\ leads'[o] = 0)
    <3>1. CASE leads' = leads
      BY <3>1 DEF TypeOK
    <3>2. CASE leads' = [leads EXCEPT ![c] = 0]
      BY <3>2 DEF TypeOK
    <3> QED
      BY <3>1, <3>2
  <2>2. TypeOK'
    <3>1. passedBy' \in BOOLEAN
      BY Zenon DEF TypeOK
    <3> QED
      BY <2>1, <3>1 DEF TypeOK
  <2>3. Idle.at = "rest"
    BY DEF Idle
  <2>4. ArmingsFenced' /\ OneLeads'
    BY <2>1, <2>3 DEF ArmingsFenced, OneLeads
  <2>5. PassesFoundDue'
    <3> SUFFICES ASSUME NEW o \in Controllers, pass'[o].at = "fire" PROVE pass'[o] = pass[o]
        BY DEF PassesFoundDue, WasDue
    <3> QED
      BY <2>1, <2>3
  <2> QED
    BY <2>2, <2>4, <2>5 DEF RanIsPast, FiredOnceInOrder
<1>5. ASSUME NEW c \in Controllers, ArmCollides(c) \/ Deposed(c) PROVE IInv'
  BY <1>4, <1>5 DEF ArmCollides, Deposed
<1>6. ASSUME NEW c \in Controllers, FireReads(c) PROVE IInv'
  BY <1>6, FireReadsKeeps
<1>7. ASSUME NEW c \in Controllers, FireOne(c) PROVE IInv'
  <2>1. upsets' \in 0..MaxUpsets
    BY <1>7 DEF FireOne, IInv, TypeOK
  <2> QED
    BY <1>7, <2>1, FiredKeeps DEF FireOne
<1>8. ASSUME NEW c \in Controllers, FireRefused(c) PROVE IInv'
  <2>1. upsets' \in 0..MaxUpsets
    BY <1>8, BoundsAreNat DEF FireRefused, IInv, TypeOK
  <2> QED
    BY <1>8, <2>1, FiredKeeps DEF FireRefused
<1>9. ASSUME NEW c \in Controllers, FireMoved(c) \/ FireFails(c) PROVE IInv'
  <2>1. upsets' \in 0..MaxUpsets
    BY <1>9, BoundsAreNat DEF FireMoved, FireFails, IInv, TypeOK
  <2> QED
    BY <1>9, <2>1, LeftAloneKeeps DEF FireMoved, FireFails
<1>10. ASSUME NEW c \in Controllers, Elect(c) PROVE IInv'
  <2> USE <1>10 DEF Elect, IInv
  <2>1. TypeOK'
    <3>1. passedBy' \in BOOLEAN
      BY Zenon DEF TypeOK
    <3> QED
      BY <3>1 DEF TypeOK
  <2>2. OneLeads' /\ ArmingsFenced'
    BY DEF OneLeads, ArmingsFenced, TypeOK
  <2> QED
    BY <2>1, <2>2 DEF PassesFoundDue, WasDue, RanIsPast, FiredOnceInOrder
<1>11. CASE LoseLock
  <2> USE <1>11 DEF LoseLock, IInv
  <2>1. TypeOK'
    <3>1. passedBy' \in BOOLEAN
      BY Zenon DEF TypeOK
    <3>2. upsets' \in 0..MaxUpsets
      BY BoundsAreNat DEF TypeOK
    <3> QED
      BY <3>1, <3>2 DEF TypeOK
  <2> QED
    BY <2>1 DEF OneLeads, ArmingsFenced, PassesFoundDue, WasDue, RanIsPast, FiredOnceInOrder
<1>12. CASE Tick
  <2> USE <1>12 DEF Tick, IInv
  <2>1. TypeOK'
    <3>1. passedBy' \in BOOLEAN
      BY Zenon DEF TypeOK
    <3>2. now' \in 0..Horizon /\ lit' \in 0..Horizon
      BY BoundsAreNat DEF TypeOK
    <3> QED
      BY <3>1, <3>2 DEF TypeOK
  <2>2. now' = now + 1 /\ now \in Nat
    BY BoundsAreNat DEF TypeOK
  <2>3. ArmingsFenced'
    <3>1. \A c \in Controllers : pass[c].at = "arm" => pass[c].now \in Nat
      BY PassIs, BoundsAreNat DEF Arming
    <3> QED
      BY <2>2, <3>1 DEF ArmingsFenced
  <2>4. PassesFoundDue'
    <3>1. \A c \in Controllers : pass[c].at = "fire" => pass[c].now \in Nat
      BY PassIs, BoundsAreNat DEF Firings
    <3> QED
      BY <2>2, <3>1 DEF PassesFoundDue, WasDue
  <2>5. RanIsPast'
    BY <2>2 DEF RanIsPast, TypeOK, Past
  <2> QED
    BY <2>1, <2>3, <2>4, <2>5 DEF OneLeads, FiredOnceInOrder
<1>13. CASE UNCHANGED vars
  BY <1>13 DEF vars, IInv, TypeOK, OneLeads, ArmingsFenced, PassesFoundDue, WasDue, RanIsPast,
     FiredOnceInOrder
<1> QED
  BY <1>1, <1>2, <1>3, <1>5, <1>6, <1>7, <1>8, <1>9, <1>10, <1>11, <1>12, <1>13 DEF Next

(***************************************************************************)
(* Whatever is declared, however many pushes, controllers and faults: a    *)
(* schedule is due only for occurrences after those it ran, so that each   *)
(* starts one run and they start in their order.                           *)
(***************************************************************************)
THEOREM FiredOnceInOrderHolds == Spec => []FiredOnceInOrder
<1>1. IInv => FiredOnceInOrder
  BY DEF IInv
<1> QED
  BY <1>1, ScheduleInit, ScheduleStep, PTL DEF Spec

-----------------------------------------------------------------------------
\* A schedule is late by no more than the time to its next occurrence.
JitterWithinPeriod ==
  \A s \in Schedules : ~s.catchUp =>
    \A o, next \in s.at : o < next => o + s.jitter <= next

\* Which schedule a position of a version is, whatever version declares it and wherever.
Lineage(i, h) ==
  LET ds == Declared(h) IN <<ds[i], Cardinality({k \in 1..i : ds[k] = ds[i]})>>

\* The rows are the declarations of one version.
RowsDeclared ==
  \E h \in Commits \cup {NoCommit} :
    /\ DOMAIN rows = DOMAIN Declared(h)
    /\ \A i \in DOMAIN rows : rows[i].commit = h /\ rows[i].decl = Declared(h)[i]

\* A row waits for an occurrence, and fires within its jitter of it.
RowsTimed ==
  \A i \in DOMAIN rows :
    /\ rows[i].due \in rows[i].decl.at
    /\ rows[i].fire <= rows[i].due + rows[i].decl.jitter

\* What a pass found to fire are different schedules, each as its version declares it.
IsDeclared(d) ==
  /\ d.position \in DOMAIN Declared(d.row.commit)
  /\ d.row.decl = Declared(d.row.commit)[d.position]
  /\ d.row.due \in d.row.decl.at

SameSchedule(d, e) == Lineage(d.position, d.row.commit) = Lineage(e.position, e.row.commit)

AreDifferent(hand, due) ==
  \A d \in due : ~SameSchedule(d, hand) /\ \A e \in due : d # e => ~SameSchedule(d, e)

FoundDeclared ==
  \A c \in Controllers : pass[c].at = "fire" =>
    /\ \A d \in {pass[c].hand} \cup pass[c].due : IsDeclared(d)
    /\ AreDifferent(pass[c].hand, pass[c].due)

\* A controller that does not lead is at rest, and no arming outlasts Lasts.
PassesLead ==
  \A c \in Controllers :
    /\ leads[c] = 0 => pass[c].at = "rest"
    /\ pass[c].at = "arm" => now <= pass[c].now + Lasts

\* What the leader found due fires when it found it to, unless it was armed since.
FoundInForce ==
  \A c \in Controllers : pass[c].at = "fire" /\ leads[c] = term =>
    \A d \in {pass[c].hand} \cup pass[c].due : \A j \in DOMAIN rows :
      Lineage(j, rows[j].commit) = Lineage(d.position, d.row.commit) /\ rows[j].due = d.row.due
        => rows[j].fire = d.row.fire \/ past[j].armedAt >= pass[c].now

\* Nobody has led beyond the instant a schedule fires at, but one armed since.
NotOverdue ==
  /\ lit <= now
  /\ \A i \in DOMAIN rows :
       /\ past[i].settled < rows[i].due
       /\ past[i].armedAt <= now /\ past[i].armedAt < rows[i].due + Lasts
       /\ ~rows[i].decl.catchUp => lit <= rows[i].fire \/ lit <= past[i].armedAt

JInv ==
  /\ JitterWithinPeriod /\ Lasts <= Missed
  /\ IInv /\ RowsDeclared /\ RowsTimed /\ FoundDeclared /\ PassesLead
  /\ ~passedBy => FoundInForce /\ NotOverdue
  /\ EveryOccurrenceAnswered

\* Two positions of a version are two schedules, though they declare the same.
LEMMA LineagesDiffer ==
  ASSUME NEW h \in Commits \cup {NoCommit},
         NEW i \in DOMAIN Declared(h), NEW j \in DOMAIN Declared(h), Lineage(i, h) = Lineage(j, h)
  PROVE  i = j
<1> DEFINE ds == Declared(h)
           Upto(n) == {k \in 1..n : ds[k] = ds[i]}
<1>1. i \in Nat /\ j \in Nat /\ i >= 1 /\ j >= 1
  BY DeclaredIsSeq
<1>2. ds[i] = ds[j] /\ Cardinality(Upto(i)) = Cardinality(Upto(j))
  BY DEF Lineage
<1>3. ASSUME NEW n \in Nat, NEW m \in Nat, n < m, ds[m] = ds[i],
             Cardinality(Upto(n)) = Cardinality(Upto(m))
      PROVE  FALSE
  <2>1. IsFiniteSet(Upto(m))
    <3>1. IsFiniteSet(1..m)
      BY FS_Interval
    <3>2. Upto(m) \subseteq 1..m
      OBVIOUS
    <3> QED
      BY <3>1, <3>2, FS_Subset
  <2>2. Upto(n) \subseteq Upto(m)
    BY <1>3
  <2>3. m \in Upto(m) /\ m \notin Upto(n)
    BY <1>3
  <2> HIDE DEF Upto
  <2> QED
    BY <1>3, <2>1, <2>2, <2>3, FS_Subset
<1> HIDE DEF Upto, ds
<1> QED
  BY <1>1, <1>2, <1>3

\* What comes next is the one with none before it.
LEMMA NothingBetween ==
  ASSUME NEW s \in Schedules, NEW from \in Nat, NEW due \in s.at, from < due,
         \A o \in s.at : ~(from < o /\ o < due)
  PROVE  NextOccurrence(s, from) = due
<1> DEFINE S == {o \in s.at : o > from}
<1>1. s.at \subseteq Nat
  BY ScheduleAssumption DEF IsSchedule
<1>2. S \in SUBSET Nat /\ due \in S /\ \A y \in S : due <= y
  BY <1>1
<1>3. Min(S) \in S /\ \A y \in S : Min(S) <= y
  BY <1>2, MinIsLeast
<1>4. Min(S) = due
  <2> HIDE DEF S
  <2>1. Min(S) <= due /\ due <= Min(S) /\ Min(S) \in Nat /\ due \in Nat
    BY <1>2, <1>3
  <2> QED
    BY <2>1
<1> QED
  BY <1>4 DEF NextOccurrence

\* Whatever an arming finds, it leaves the declarations of its head, each waiting for an occurrence.
LEMMA ReplaceDeclares ==
  ASSUME TypeOK, RowsTimed, NEW h \in Commits \cup {NoCommit}, NEW at \in 0..Horizon,
         Replace(rows, h, at) \/ Replace(<<>>, h, at)
  PROVE  /\ DOMAIN rows' = DOMAIN Declared(h)
         /\ \A i \in DOMAIN rows' : rows'[i].commit = h /\ rows'[i].decl = Declared(h)[i]
         /\ RowsDeclared' /\ RowsTimed'
<1>1. /\ DOMAIN rows' = DOMAIN Declared(h)
      /\ \A i \in DOMAIN rows' : \/ IsFresh(rows'[i], Declared(h)[i], h, at)
                                 \/ \E j \in DOMAIN rows : IsCarried(i, h, j)
  BY ReplaceIs, ReplaceAnewIs DEF IsArmed
<1>2. ASSUME NEW i \in DOMAIN rows'
      PROVE  /\ rows'[i].commit = h /\ rows'[i].decl = Declared(h)[i]
             /\ rows'[i].due \in rows'[i].decl.at
             /\ rows'[i].fire <= rows'[i].due + rows'[i].decl.jitter
  <2>1. CASE IsFresh(rows'[i], Declared(h)[i], h, at)
    <3>1. Declared(h)[i] \in Schedules
      BY <1>1, DeclaredIsSeq
    <3> QED
      BY <2>1, <3>1, NextOccurrenceIsNext DEF IsFresh
  <2>2. ASSUME NEW j \in DOMAIN rows, IsCarried(i, h, j)
        PROVE  /\ rows'[i].commit = h /\ rows'[i].decl = Declared(h)[i]
               /\ rows'[i].due \in rows'[i].decl.at
               /\ rows'[i].fire <= rows'[i].due + rows'[i].decl.jitter
    <3>1. rows \in Seq(Row) /\ rows[j] \in Row
      BY DEF TypeOK
    <3>2. /\ rows'[i].commit = h /\ rows'[i].decl = rows[j].decl
          /\ rows'[i].due = rows[j].due /\ rows'[i].fire = rows[j].fire
      BY <2>2, <3>1 DEF IsCarried, Row
    <3>3. rows[j].decl = Declared(h)[i]
      BY <2>2 DEF IsCarried, Again
    <3> QED
      BY <3>2, <3>3 DEF RowsTimed
  <2> QED
    BY <1>1, <2>1, <2>2
<1>3. RowsDeclared'
  BY <1>1, <1>2 DEF RowsDeclared, Declared
<1>4. RowsTimed'
  BY <1>2 DEF RowsTimed
<1> QED
  BY <1>1, <1>2, <1>3, <1>4

\* A row declared again is the same schedule, at whatever position.
LEMMA CarriedIsSameLineage ==
  ASSUME TypeOK, RowsDeclared, NEW h, NEW i, NEW j \in DOMAIN rows, Again(rows, Declared(h), i, j)
  PROVE  Lineage(i, h) = Lineage(j, rows[j].commit)
<1>1. PICK was \in Commits \cup {NoCommit} :
        /\ DOMAIN rows = DOMAIN Declared(was)
        /\ \A k \in DOMAIN rows : rows[k].commit = was /\ rows[k].decl = Declared(was)[k]
  BY DEF RowsDeclared
<1>2. \A k \in 1..j : k \in DOMAIN rows
  <2>1. rows \in Seq(Row)
    BY DEF TypeOK
  <2> QED
    BY <2>1
<1>3. {k \in 1..j : rows[k].decl = Declared(h)[i]} = {k \in 1..j : Declared(was)[k] = Declared(was)[j]}
  BY <1>1, <1>2 DEF Again
<1> QED
  BY <1>1, <1>3 DEF Again, Lineage

\* An arming answers for what it passes over, and gives a fresh row an occurrence still to come.
LEMMA ReplaceAnswers ==
  ASSUME JInv, ~passedBy, NEW h \in Commits \cup {NoCommit}, NEW at \in 0..Horizon,
         at <= now, now <= at + Lasts, Replace(rows, h, at)
  PROVE  \A i \in DOMAIN rows' :
           /\ \A o \in rows'[i].decl.at : ~(past'[i].settled < o /\ o < rows'[i].due)
           /\ past'[i].settled < rows'[i].due
           /\ past'[i].armedAt <= now /\ past'[i].armedAt < rows'[i].due + Lasts
           /\ ~rows'[i].decl.catchUp => lit <= rows'[i].fire \/ lit <= past'[i].armedAt
           /\ \/ past'[i].armedAt = now
              \/ \E j \in DOMAIN rows : /\ Lineage(i, h) = Lineage(j, rows[j].commit)
                                       /\ rows'[i].due = rows[j].due /\ rows'[i].fire = rows[j].fire
                                       /\ past'[i] = past[j]
<1>1. DOMAIN rows' = DOMAIN Declared(h) /\ rows' \in Seq(Row) /\ past' \in [DOMAIN rows' -> Past]
      /\ \A i \in DOMAIN rows' : \/ IsArmed(i, h, at)
                                 \/ \E j \in DOMAIN rows : IsCarried(i, h, j)
  BY ReplaceIs DEF JInv, IInv
<1>2. NotOverdue /\ EveryOccurrenceAnswered /\ RowsDeclared /\ TypeOK
  BY DEF JInv, IInv
<1>3. now \in Nat /\ at \in Nat /\ lit \in Nat
  BY <1>2, BoundsAreNat DEF TypeOK
<1> SUFFICES ASSUME NEW i \in DOMAIN rows'
    PROVE  /\ \A o \in rows'[i].decl.at : ~(past'[i].settled < o /\ o < rows'[i].due)
           /\ past'[i].settled < rows'[i].due
           /\ past'[i].armedAt <= now /\ past'[i].armedAt < rows'[i].due + Lasts
           /\ ~rows'[i].decl.catchUp => lit <= rows'[i].fire \/ lit <= past'[i].armedAt
           /\ \/ past'[i].armedAt = now
              \/ \E j \in DOMAIN rows : /\ Lineage(i, h) = Lineage(j, rows[j].commit)
                                       /\ rows'[i].due = rows[j].due /\ rows'[i].fire = rows[j].fire
                                       /\ past'[i] = past[j]
    OBVIOUS
<1>4. CASE IsArmed(i, h, at)
  <2>1. Declared(h)[i] \in Schedules
    BY <1>1, DeclaredIsSeq
  <2>2. /\ rows'[i].decl = Declared(h)[i] /\ rows'[i].due = NextOccurrence(Declared(h)[i], at)
        /\ past'[i].settled = at /\ past'[i].armedAt = now
    BY <1>4 DEF IsArmed, IsFresh
  <2>3. /\ rows'[i].due \in Nat /\ rows'[i].due > at
        /\ \A o \in rows'[i].decl.at : o > at => rows'[i].due <= o
    BY <2>1, <2>2, NextOccurrenceIsNext
  <2>4. \A o \in rows'[i].decl.at : o \in Nat
    BY <2>1, <2>2, ScheduleAssumption DEF IsSchedule
  <2>5. past'[i].armedAt < rows'[i].due + Lasts
    BY <1>3, <2>2, <2>3, BoundsAreNat
  <2> QED
    BY <1>2, <1>3, <2>2, <2>3, <2>4, <2>5 DEF NotOverdue
<1>5. ASSUME NEW j \in DOMAIN rows, IsCarried(i, h, j)
      PROVE  /\ rows'[i].decl = rows[j].decl /\ rows'[i].due = rows[j].due
             /\ rows'[i].fire = rows[j].fire /\ past'[i] = past[j]
             /\ Lineage(i, h) = Lineage(j, rows[j].commit)
  <2>1. rows \in Seq(Row) /\ rows[j] \in Row
    BY <1>2 DEF TypeOK
  <2> QED
    BY <1>2, <1>5, <2>1, CarriedIsSameLineage DEF IsCarried, Row
<1> QED
  BY <1>1, <1>2, <1>4, <1>5 DEF NotOverdue, EveryOccurrenceAnswered

\* What a pass found is left in force by an arming that keeps state.
LEMMA ReplaceLeavesInForce ==
  ASSUME JInv, ~passedBy, NEW h \in Commits \cup {NoCommit}, NEW at \in 0..Horizon,
         at <= now, now <= at + Lasts, Replace(rows, h, at),
         \A c \in Controllers : pass'[c].at = "fire" => pass'[c] = pass[c],
         UNCHANGED <<now, lit, leads, term>>
  PROVE  FoundInForce' /\ NotOverdue' /\ EveryOccurrenceAnswered'
<1>1. \A i \in DOMAIN rows' :
        /\ \A o \in rows'[i].decl.at : ~(past'[i].settled < o /\ o < rows'[i].due)
        /\ past'[i].settled < rows'[i].due
        /\ past'[i].armedAt <= now /\ past'[i].armedAt < rows'[i].due + Lasts
        /\ ~rows'[i].decl.catchUp => lit <= rows'[i].fire \/ lit <= past'[i].armedAt
        /\ \/ past'[i].armedAt = now
           \/ \E j \in DOMAIN rows : /\ Lineage(i, h) = Lineage(j, rows[j].commit)
                                    /\ rows'[i].due = rows[j].due /\ rows'[i].fire = rows[j].fire
                                    /\ past'[i] = past[j]
  BY ReplaceAnswers
<1>2. NotOverdue' /\ EveryOccurrenceAnswered'
  BY <1>1 DEF NotOverdue, EveryOccurrenceAnswered, JInv
<1>3. FoundInForce'
  <2> SUFFICES ASSUME NEW c \in Controllers, pass'[c].at = "fire", leads[c] = term,
                      NEW d \in {pass'[c].hand} \cup pass'[c].due, NEW i \in DOMAIN rows',
                      Lineage(i, rows'[i].commit) = Lineage(d.position, d.row.commit),
                      rows'[i].due = d.row.due
               PROVE  rows'[i].fire = d.row.fire \/ past'[i].armedAt >= pass'[c].now
      BY DEF FoundInForce, Lineage, Declared
  <2>1. pass'[c] = pass[c] /\ pass[c].now <= now
    BY DEF JInv, IInv, PassesFoundDue
  <2>2. rows'[i].commit = h
    BY ReplaceDeclares DEF JInv, IInv
  <2>3. CASE past'[i].armedAt = now
    BY <2>1, <2>3
  <2>4. ASSUME NEW j \in DOMAIN rows, Lineage(i, h) = Lineage(j, rows[j].commit),
               rows'[i].due = rows[j].due, rows'[i].fire = rows[j].fire, past'[i] = past[j]
        PROVE  rows'[i].fire = d.row.fire \/ past'[i].armedAt >= pass'[c].now
    BY <2>1, <2>2, <2>4 DEF JInv, FoundInForce
  <2> QED
    BY <1>1, <2>3, <2>4
<1> QED
  BY <1>2, <1>3

\* While the rows stand, so does what is known of them.
LEMMA RowsStand ==
  ASSUME JInv, UNCHANGED <<rows, past, passedBy>>
  PROVE  /\ JitterWithinPeriod' /\ Lasts <= Missed
         /\ RowsDeclared' /\ RowsTimed' /\ EveryOccurrenceAnswered'
         /\ UNCHANGED <<now, lit>> /\ NotOverdue => NotOverdue'
<1>1. JitterWithinPeriod' /\ Lasts <= Missed
  BY DEF JInv, JitterWithinPeriod
<1>2. RowsDeclared'
  BY DEF JInv, RowsDeclared, Declared
<1>3. RowsTimed' /\ EveryOccurrenceAnswered'
  BY DEF JInv, RowsTimed, EveryOccurrenceAnswered
<1>4. UNCHANGED <<now, lit>> /\ NotOverdue => NotOverdue'
  BY DEF NotOverdue
<1> QED
  BY <1>1, <1>2, <1>3, <1>4

\* And so does what the passes found, while none begins to fire and nobody is elected.
LEMMA FindsStand ==
  ASSUME JInv, UNCHANGED <<rows, past, term>>,
         \A c \in Controllers : pass'[c].at = "fire" =>
           /\ pass[c].at = "fire" /\ pass'[c].now = pass[c].now
           /\ {pass'[c].hand} \cup pass'[c].due \subseteq {pass[c].hand} \cup pass[c].due
           /\ leads'[c] = leads[c]
  PROVE  FoundInForce => FoundInForce'
  BY DEF FoundInForce, Lineage, Declared

\* A push answers for what is due.
LEMMA PushAnswers ==
  ASSUME JInv, NEW h \in Commits, NEW at \in 0..Horizon, Push(h, at)
  PROVE  JInv'
<1>1. IInv'
  BY PushKeeps DEF JInv
<1>2. \A c \in Controllers : /\ pass'[c].at = pass[c].at
                             /\ pass'[c].at = "fire" => pass'[c] = pass[c]
                             /\ pass'[c].at = "arm" => pass'[c].now = pass[c].now
  BY PassIs DEF Push, JInv, IInv, Arming
<1>3. FoundDeclared' /\ PassesLead'
  <2>1. PassesLead'
    BY <1>2 DEF Push, JInv, PassesLead
  <2>2. FoundDeclared'
    <3> SUFFICES ASSUME NEW c \in Controllers, pass'[c].at = "fire" PROVE pass'[c] = pass[c]
        BY DEF FoundDeclared, JInv
    <3> QED
      BY <1>2
  <2> QED
    BY <2>1, <2>2
<1>4. CASE armed = h
  <2>1. UNCHANGED <<rows, past, pass, now, lit, leads, term, passedBy>>
    BY <1>4 DEF Push
  <2>2. FoundInForce => FoundInForce'
    BY <2>1, FindsStand
  <2> QED
    BY <1>1, <1>3, <2>1, <2>2, RowsStand DEF JInv
<1>5. CASE armed # h
  <2>1. Replace(rows, h, at) /\ UNCHANGED <<now, lit, leads, term, passedBy>> /\ at <= now /\ now <= at + Lasts
    BY <1>5 DEF Push
  <2>2. RowsDeclared' /\ RowsTimed'
    BY <2>1, ReplaceDeclares DEF JInv, IInv
  <2>3. ~passedBy => FoundInForce' /\ NotOverdue' /\ EveryOccurrenceAnswered'
    BY <1>2, <2>1, ReplaceLeavesInForce
  <2> QED
    BY <1>1, <1>3, <2>1, <2>2, <2>3 DEF JInv, JitterWithinPeriod, EveryOccurrenceAnswered
<1> QED
  BY <1>4, <1>5

\* So does the controller's arming, unless it was passed by.
LEMMA ArmWritesAnswers ==
  ASSUME JInv, NEW c \in Controllers, ArmWrites(c)
  PROVE  JInv'
<1> DEFINE h == pass[c].head
           at == pass[c].now
<1>1. IInv'
  BY ArmWritesKeeps DEF JInv
<1>2. /\ pass[c] \in Arming /\ h \in Commits \cup {NoCommit} /\ at \in 0..Horizon
      /\ at <= now /\ now <= at + Lasts
  BY PassIs DEF ArmWrites, JInv, IInv, Arming, ArmingsFenced, PassesLead
<1>3. \A o \in Controllers : pass'[o] = pass[o] \/ pass'[o] = Idle
  BY DEF ArmWrites, JInv, IInv, TypeOK
<1>4. Idle.at = "rest"
  BY DEF Idle
<1>5. UNCHANGED <<now, lit, leads, term>>
  BY DEF ArmWrites
<1>6. FoundDeclared' /\ PassesLead'
  <2>1. PassesLead'
    BY <1>3, <1>4, <1>5 DEF JInv, PassesLead
  <2>2. FoundDeclared'
    <3> SUFFICES ASSUME NEW o \in Controllers, pass'[o].at = "fire" PROVE pass'[o] = pass[o]
        BY DEF FoundDeclared, JInv
    <3> QED
      BY <1>3, <1>4
  <2> QED
    BY <2>1, <2>2
<1>7. RowsDeclared' /\ RowsTimed'
  <2>1. Replace(rows, h, at) \/ Replace(<<>>, h, at)
    BY DEF ArmWrites
  <2> HIDE DEF h, at
  <2> QED
    BY <1>2, <2>1, ReplaceDeclares DEF JInv, IInv
<1>8. CASE Replace(rows, h, at) /\ UNCHANGED passedBy
  <2>1. \A o \in Controllers : pass'[o].at = "fire" => pass'[o] = pass[o]
    BY <1>3, <1>4
  <2>2. ~passedBy => FoundInForce' /\ NotOverdue' /\ EveryOccurrenceAnswered'
    BY <1>2, <1>5, <1>8, <2>1, ReplaceLeavesInForce
  <2> QED
    BY <1>1, <1>6, <1>7, <1>8, <2>2 DEF JInv, JitterWithinPeriod, EveryOccurrenceAnswered
<1>9. CASE passedBy' = TRUE
  <2>1. passedBy'
    BY <1>9
  <2> QED
    BY <1>1, <1>6, <1>7, <2>1 DEF JInv, JitterWithinPeriod, EveryOccurrenceAnswered
<1> QED
  BY <1>8, <1>9 DEF ArmWrites

\* A row still held is the schedule the pass found, as its version declares it.
LEMMA HeldIsDeclared ==
  ASSUME JInv, NEW c \in Controllers, Firing(c), NEW d, d = pass[c].hand, Held(d)
  PROVE  /\ d.position \in DOMAIN rows /\ rows[d.position].decl = d.row.decl
         /\ rows[d.position].due = d.row.due /\ rows[d.position].commit = d.row.commit
         /\ d.row.due \in d.row.decl.at
         /\ \A j \in DOMAIN rows :
              Lineage(j, rows[j].commit) = Lineage(d.position, d.row.commit) => j = d.position
<1>1. d.position \in DOMAIN rows /\ rows[d.position].due = d.row.due /\ rows[d.position].commit = d.row.commit
  BY DEF Held
<1>2. IsDeclared(d)
  BY DEF JInv, FoundDeclared, Firing
<1>3. PICK h \in Commits \cup {NoCommit} :
        /\ DOMAIN rows = DOMAIN Declared(h)
        /\ \A i \in DOMAIN rows : rows[i].commit = h /\ rows[i].decl = Declared(h)[i]
  BY DEF JInv, RowsDeclared
<1>4. \A j \in DOMAIN rows : Lineage(j, h) = Lineage(d.position, h) => j = d.position
  BY <1>1, <1>3, LineagesDiffer
<1> QED
  BY <1>1, <1>2, <1>3, <1>4 DEF IsDeclared

\* What is skipped, nobody led to fire since it was due or armed.
LEMMA SkipsInOutage ==
  ASSUME JInv, ~passedBy, NEW c \in Controllers, Firing(c), NEW d, d = pass[c].hand, Held(d),
         NEW at, at = pass[c].now, Skips(d, at)
  PROVE  lit <= Max({d.row.fire, past[d.position].armedAt})
<1> DEFINE row == rows[d.position]
           p == past[d.position]
<1>1. /\ d.position \in DOMAIN rows /\ row.decl = d.row.decl
      /\ row.due = d.row.due /\ row.commit = d.row.commit
  BY HeldIsDeclared
<1>2. pass[c].at = "fire" /\ pass[c] \in Firings /\ d \in Due /\ at \in Nat /\ WasDue(d, at)
  BY PassIs, BoundsAreNat DEF Firing, Firings, JInv, IInv, PassesFoundDue
<1>3. rows \in Seq(Row) /\ row \in Row /\ p \in Past /\ lit \in Nat
  <2>1. rows \in Seq(Row) /\ past \in [DOMAIN rows -> Past] /\ lit \in Nat
    BY BoundsAreNat DEF JInv, IInv, TypeOK
  <2> QED
    BY <1>1, <2>1
<1>4. d.row.due \in Nat /\ d.row.fire \in Nat /\ row.fire \in Nat /\ p.armedAt \in Nat
  <2> HIDE DEF row, p
  <2>1. d.row \in Row
    BY <1>2 DEF Due
  <2>2. d.row.due \in Nat /\ d.row.fire \in Nat /\ row.fire \in Nat
    BY <1>3, <2>1 DEF Row
  <2>3. p.armedAt \in Nat
    BY <1>3, BoundsAreNat DEF Past
  <2> QED
    BY <2>2, <2>3
<1>5. row.fire = d.row.fire \/ p.armedAt >= at
  BY <1>1, <1>2 DEF JInv, FoundInForce, Firing
<1>6. lit <= row.fire \/ lit <= p.armedAt
  BY <1>1 DEF JInv, NotOverdue, Skips
<1>7. p.armedAt < row.due + Lasts
  BY <1>1 DEF JInv, NotOverdue
<1>8. at > d.row.fire + Missed /\ d.row.due <= d.row.fire /\ Lasts <= Missed
  BY <1>2 DEF Skips, WasDue, JInv
<1> HIDE DEF row, p
<1>9. row.fire = d.row.fire
  BY <1>1, <1>2, <1>4, <1>5, <1>7, <1>8, BoundsAreNat
<1> QED
  <2> DEFINE m == Max({d.row.fire, p.armedAt})
  <2>1. m \in Nat /\ d.row.fire <= m /\ p.armedAt <= m
    BY <1>4, MaxOfTwo
  <2> HIDE DEF m
  <2>2. lit <= m
    BY <1>3, <1>4, <1>6, <1>9, <2>1
  <2> QED
    BY <2>2 DEF m, p

\* A firing answers the occurrence, or what it passes over in an outage, and what the pass has
\* still to fire stays in force.
LEMMA FiredAnswers ==
  ASSUME JInv, NEW c \in Controllers, Firing(c), Held(pass[c].hand),
         NEW outcome, outcome = "skipped" => Skips(pass[c].hand, pass[c].now),
         outcome # "skipped" => ~Skips(pass[c].hand, pass[c].now),
         Fired(c, outcome),
         UNCHANGED <<now, head, armed, term, holder, leads, lit, passedBy, pushes>>,
         upsets' \in 0..MaxUpsets
  PROVE  JInv'
<1> DEFINE d == pass[c].hand
           at == pass[c].now
           i == d.position
           h == d.row.commit
<1>1. /\ d \in Due /\ at \in 0..Horizon /\ at <= now /\ WasDue(d, at)
      /\ d.row \in Row /\ d.row.decl \in Schedules /\ rows \in Seq(Row) /\ rows[i] \in Row
      /\ past[i] \in Past
  BY FiredIs DEF JInv
<1>2. PICK due \in Nat, jitter \in Nat :
        RowFiredTo(d, at, outcome, due, jitter) /\ PassGoesOn(c, d, at, due, jitter)
  BY FiredIs DEF JInv
<1>3. /\ i \in DOMAIN rows /\ rows[i].decl = d.row.decl
      /\ rows[i].due = d.row.due /\ rows[i].commit = h
      /\ d.row.due \in d.row.decl.at
      /\ \A j \in DOMAIN rows : Lineage(j, rows[j].commit) = Lineage(i, h) => j = i
  BY HeldIsDeclared
<1>4. Skips(d, at) /\ ~passedBy => lit <= Max({d.row.fire, past[i].armedAt})
  BY SkipsInOutage
<1>5. /\ IsDeclared(d) /\ AreDifferent(d, pass[c].due) /\ \A e \in pass[c].due : IsDeclared(e)
      /\ pass[c].at = "fire" /\ leads[c] = term
  BY DEF JInv, FoundDeclared, Firing
<1>6. IInv'
  BY FiredKeeps DEF JInv
<1> HIDE DEF d, at, i, h
<1>7. /\ d.row.due \in Nat /\ due > d.row.due /\ Onwards(d, at) \in 0..Horizon
      /\ Onwards(d, at) < due /\ due \in d.row.decl.at
      /\ \A o \in d.row.decl.at : ~(Onwards(d, at) < o /\ o < due)
  <2>1. d.row.due \in Nat
    BY <1>1 DEF Row
  <2>2. due > d.row.due /\ due = NextOccurrence(d.row.decl, Onwards(d, at))
    BY <1>2 DEF RowFiredTo
  <2>3. Onwards(d, at) \in 0..Horizon
    BY <1>1, OnwardsIs
  <2>4. \A o \in d.row.decl.at : o \in Nat
    BY <1>1, ScheduleAssumption DEF IsSchedule
  <2>5. /\ due \in d.row.decl.at /\ due > Onwards(d, at)
        /\ \A o \in d.row.decl.at : o > Onwards(d, at) => due <= o
    BY <1>1, <2>2, <2>3, NextOccurrenceIsNext
  <2> QED
    BY <2>1, <2>2, <2>3, <2>4, <2>5, BoundsAreNat
<1>8. /\ DOMAIN rows' = DOMAIN rows
      /\ rows'[i].due = due /\ rows'[i].fire = due + jitter
      /\ rows'[i].decl = d.row.decl /\ rows'[i].commit = h
      /\ jitter <= d.row.decl.jitter
      /\ \A j \in DOMAIN rows : j # i => rows'[j] = rows[j]
  <2>1. /\ DOMAIN rows' = DOMAIN rows /\ rows'[i] = MovedOn(rows[i], due, jitter)
        /\ jitter <= d.row.decl.jitter
        /\ \A j \in DOMAIN rows : j # i => rows'[j] = rows[j]
    BY <1>2 DEF RowFiredTo, i
  <2>2. rows[i] \in Row
    BY <1>1
  <2>3. /\ MovedOn(rows[i], due, jitter).due = due /\ MovedOn(rows[i], due, jitter).fire = due + jitter
        /\ MovedOn(rows[i], due, jitter).decl = rows[i].decl
        /\ MovedOn(rows[i], due, jitter).commit = rows[i].commit
    BY <2>2, MovedOnIs
  <2> QED
    BY <1>3, <2>1, <2>3
<1>9. RowsDeclared'
  <2>1. PICK was \in Commits \cup {NoCommit} :
          /\ DOMAIN rows = DOMAIN Declared(was)
          /\ \A j \in DOMAIN rows : rows[j].commit = was /\ rows[j].decl = Declared(was)[j]
    BY DEF JInv, RowsDeclared
  <2>2. \A j \in DOMAIN rows : rows'[j].commit = was /\ rows'[j].decl = Declared(was)[j]
    BY <1>3, <1>8, <2>1
  <2> QED
    BY <1>8, <2>1, <2>2 DEF RowsDeclared, Declared
<1>10. RowsTimed'
  <2>1. d.row.decl.jitter \in Nat
    BY <1>1, ScheduleAssumption DEF IsSchedule
  <2> QED
    BY <1>7, <1>8, <2>1 DEF JInv, RowsTimed
<1>11. PassesLead'
  <2>1. leads[c] # 0
    BY <1>5 DEF JInv, PassesLead
  <2> QED
    BY <1>2, <2>1 DEF JInv, PassesLead, PassGoesOn
<1>12. pass'[c].at = "fire" =>
         /\ pass'[c].now = at
         /\ \/ /\ pass'[c].hand.position = i /\ pass'[c].hand.row.commit = h
               /\ pass'[c].hand.row.decl = d.row.decl
               /\ pass'[c].hand.row.due = due /\ pass'[c].hand.row.fire = due + jitter
               /\ pass'[c].due = pass[c].due
            \/ pass'[c].hand \in pass[c].due /\ pass'[c].due = pass[c].due \ {pass'[c].hand}
  <2>1. \A row \in Row : /\ MovedOn(row, due, jitter).due = due
                         /\ MovedOn(row, due, jitter).fire = due + jitter
                         /\ MovedOn(row, due, jitter).decl = row.decl
                         /\ MovedOn(row, due, jitter).commit = row.commit
    BY MovedOnIs
  <2> DEFINE row == MovedOn(d.row, due, jitter)
  <2>2. row.due = due /\ row.fire = due + jitter /\ row.decl = d.row.decl /\ row.commit = d.row.commit
    BY <1>1, <2>1
  <2> HIDE DEF row
  <2> QED
    BY <1>2, <2>2 DEF PassGoesOn, row, i, h
<1>13. FoundDeclared'
  <2> SUFFICES ASSUME NEW o \in Controllers, pass'[o].at = "fire"
               PROVE  /\ \A e \in {pass'[o].hand} \cup pass'[o].due : IsDeclared(e)
                      /\ AreDifferent(pass'[o].hand, pass'[o].due)
      BY DEF FoundDeclared
  <2>1. CASE o # c
    BY <1>2, <2>1 DEF JInv, FoundDeclared, PassGoesOn
  <2>2. CASE o = c /\ pass'[c].hand.position = i /\ pass'[c].hand.row.commit = h
              /\ pass'[c].hand.row.decl = d.row.decl /\ pass'[c].hand.row.due = due
              /\ pass'[c].due = pass[c].due
    BY <1>5, <1>7, <2>2 DEF IsDeclared, AreDifferent, SameSchedule, i, h
  <2>3. CASE o = c /\ pass'[c].hand \in pass[c].due /\ pass'[c].due = pass[c].due \ {pass'[c].hand}
    BY <1>5, <2>3 DEF AreDifferent, SameSchedule
  <2> QED
    BY <1>12, <2>1, <2>2, <2>3
<1>14. ~passedBy => FoundInForce'
  <2> SUFFICES ASSUME ~passedBy, NEW o \in Controllers, pass'[o].at = "fire", leads[o] = term,
                      NEW e \in {pass'[o].hand} \cup pass'[o].due, NEW j \in DOMAIN rows,
                      Lineage(j, rows'[j].commit) = Lineage(e.position, e.row.commit),
                      rows'[j].due = e.row.due
               PROVE  rows'[j].fire = e.row.fire \/ past'[j].armedAt >= pass'[o].now
      BY <1>8 DEF FoundInForce, Lineage, Declared
  <2>1. o = c
    <3>1. leads[c] # 0
      BY <1>5 DEF JInv, PassesLead
    <3> QED
      BY <1>5, <3>1 DEF JInv, IInv, OneLeads
  <2>2. rows'[j].commit = rows[j].commit
    BY <1>3, <1>8
  <2>3. CASE e \in pass[c].due
    <3>1. j # i
      BY <1>3, <1>5, <2>2, <2>3 DEF AreDifferent, SameSchedule, i, h
    <3>2. rows'[j] = rows[j] /\ past'[j] = past[j]
      BY <1>2, <1>8, <3>1 DEF RowFiredTo, i
    <3>3. rows[j].fire = e.row.fire \/ past[j].armedAt >= at
      BY <1>5, <2>2, <2>3, <3>2 DEF JInv, FoundInForce, at
    <3> QED
      BY <1>12, <2>1, <3>2, <3>3
  <2>4. CASE /\ e.position = i /\ e.row.commit = h /\ e.row.fire = due + jitter
    BY <1>3, <1>8, <2>2, <2>4
  <2> QED
    BY <1>12, <2>1, <2>3, <2>4
<1>15. ~passedBy => NotOverdue' /\ EveryOccurrenceAnswered'
  <2> SUFFICES ASSUME ~passedBy PROVE NotOverdue' /\ EveryOccurrenceAnswered'
      OBVIOUS
  <2>1. /\ NotOverdue /\ EveryOccurrenceAnswered /\ JitterWithinPeriod /\ RowsTimed
        /\ lit \in Nat
    BY BoundsAreNat DEF JInv, IInv, TypeOK
  <2>2. past[i].settled \in Nat /\ past[i].armedAt \in Nat
    BY <1>1, BoundsAreNat DEF Past
  <2>3. NextOccurrence(d.row.decl, past[i].settled) = d.row.due
    <3>1. /\ past[i].settled < d.row.due
          /\ \A o \in d.row.decl.at : ~(past[i].settled < o /\ o < d.row.due)
      BY <1>3, <2>1 DEF NotOverdue, EveryOccurrenceAnswered
    <3> QED
      BY <1>1, <1>3, <2>2, <3>1, NothingBetween
  <2>4. /\ past'[i].settled = Onwards(d, at) /\ past'[i].armedAt = past[i].armedAt
        /\ \A j \in DOMAIN rows : j # i => past'[j] = past[j]
    <3>1. /\ past'[i] = Answered(past[i], d, outcome, at)
          /\ \A j \in DOMAIN rows : j # i => past'[j] = past[j]
      BY <1>2 DEF RowFiredTo, i
    <3> DEFINE q == Answered(past[i], d, outcome, at)
    <3>2. /\ q.armedAt = past[i].armedAt
          /\ \/ outcome # "skipped" /\ q.settled = d.row.due
             \/ /\ outcome = "skipped" /\ lit <= Max({d.row.fire, past[i].armedAt})
                /\ q.settled = Onwards(d, at)
             \/ outcome = "skipped" /\ lit > Max({d.row.fire, past[i].armedAt})
      <4> DEFINE p == past[i]
      <4>1. p \in Past /\ d \in Due /\ at \in 0..Horizon /\ WasDue(d, at) /\ lit \in Nat
        BY <1>1, <2>1
      <4>2. NextOccurrence(d.row.decl, p.settled) = d.row.due
        BY <2>3
      <4> HIDE DEF p, q
      <4>3. Answered(p, d, outcome, at).armedAt = p.armedAt
        BY <4>1, AnsweredIs
      <4>4. \/ outcome # "skipped" /\ Answered(p, d, outcome, at).settled = d.row.due
            \/ /\ outcome = "skipped" /\ lit <= Max({d.row.fire, p.armedAt})
               /\ Answered(p, d, outcome, at).settled = Onwards(d, at)
            \/ outcome = "skipped" /\ lit > Max({d.row.fire, p.armedAt})
        BY <4>1, <4>2, AnsweredIs
      <4> QED
        BY <4>3, <4>4 DEF p, q
    <3> HIDE DEF q
    <3>3. CASE outcome # "skipped"
      <4>1. Onwards(d, at) = d.row.due
        BY <3>3 DEF Onwards, d, at
      <4> QED
        BY <3>1, <3>2, <3>3, <4>1 DEF q
    <3>4. CASE outcome = "skipped"
      <4>1. lit <= Max({d.row.fire, past[i].armedAt})
        BY <1>4, <3>4 DEF d, at
      <4>2. Max({d.row.fire, past[i].armedAt}) \in Nat
        BY <1>1, <2>2, MaxOfTwo DEF Row
      <4> QED
        BY <2>1, <3>1, <3>2, <3>4, <4>1, <4>2 DEF q
    <3> QED
      BY <3>3, <3>4
  <2>5. ~d.row.decl.catchUp => lit <= due + jitter \/ lit <= past[i].armedAt
    <3> SUFFICES ASSUME ~d.row.decl.catchUp, lit <= rows[i].fire
                 PROVE  lit <= due + jitter
        BY <1>3, <2>1 DEF NotOverdue
    <3>1. rows[i].fire <= d.row.due + d.row.decl.jitter
      BY <1>3, <2>1 DEF RowsTimed
    <3>2. d.row.due + d.row.decl.jitter <= due
      BY <1>1, <1>3, <1>7, <2>1 DEF JitterWithinPeriod
    <3>3. rows[i].fire \in Nat /\ d.row.decl.jitter \in Nat
      BY <1>1, ScheduleAssumption DEF Row, IsSchedule
    <3> QED
      BY <1>7, <2>1, <3>1, <3>2, <3>3
  <2>6. past[i].armedAt < due + Lasts
    BY <1>3, <1>7, <2>1, <2>2, BoundsAreNat DEF NotOverdue
  <2>7. NotOverdue'
    <3> SUFFICES ASSUME NEW j \in DOMAIN rows
                 PROVE  /\ past'[j].settled < rows'[j].due
                        /\ past'[j].armedAt <= now /\ past'[j].armedAt < rows'[j].due + Lasts
                        /\ ~rows'[j].decl.catchUp => lit <= rows'[j].fire \/ lit <= past'[j].armedAt
        BY <1>8, <2>1 DEF NotOverdue
    <3>1. CASE j # i
      BY <1>8, <2>1, <2>4, <3>1 DEF NotOverdue
    <3>2. CASE j = i
      <4>1. past[i].armedAt <= now
        BY <1>3, <2>1 DEF NotOverdue
      <4> QED
        BY <1>7, <1>8, <2>4, <2>5, <2>6, <3>2, <4>1
    <3> QED
      BY <3>1, <3>2
  <2>8. EveryOccurrenceAnswered'
    <3> SUFFICES ASSUME NEW j \in DOMAIN rows
                 PROVE  ~ \E o \in rows'[j].decl.at : past'[j].settled < o /\ o < rows'[j].due
        BY <1>8 DEF EveryOccurrenceAnswered
    <3>1. CASE j # i
      BY <1>8, <2>1, <2>4, <3>1 DEF EveryOccurrenceAnswered
    <3>2. CASE j = i
      BY <1>7, <1>8, <2>4, <3>2
    <3> QED
      BY <3>1, <3>2
  <2> QED
    BY <2>7, <2>8
<1>16. UNCHANGED passedBy
  OBVIOUS
<1> QED
  BY <1>6, <1>9, <1>10, <1>11, <1>13, <1>14, <1>15, <1>16
     DEF JInv, JitterWithinPeriod, EveryOccurrenceAnswered

\* A step of a pass or of the election leaves the rows, and what is known of them.
LEMMA StandAnswers ==
  ASSUME JInv, [Next]_vars, UNCHANGED <<rows, past, now, lit, passedBy>>,
         FoundDeclared', PassesLead', FoundInForce => FoundInForce'
  PROVE  JInv'
<1>1. IInv'
  BY ScheduleStep DEF JInv
<1>2. /\ JitterWithinPeriod' /\ RowsDeclared' /\ RowsTimed' /\ EveryOccurrenceAnswered'
      /\ NotOverdue => NotOverdue'
  BY RowsStand
<1> QED
  BY <1>1, <1>2 DEF JInv

\* A pass that reads finds different schedules, each as it is armed.
LEMMA FireReadsAnswers ==
  ASSUME JInv, NEW c \in Controllers, FireReads(c)
  PROVE  JInv'
<1>1. PICK d \in Soonest(DueSchedules) : pass' = [pass EXCEPT ![c] = AtHand(d, DueSchedules, now)]
  BY DEF FireReads
<1>2. /\ pass'[c].at = "fire" /\ pass'[c].now = now
      /\ pass'[c].hand \in DueSchedules /\ pass'[c].due = DueSchedules \ {pass'[c].hand}
      /\ \A o \in Controllers : o # c => pass'[o] = pass[o]
  <2>1. d \in DueSchedules
    BY DEF Soonest
  <2>2. pass'[c] = AtHand(d, DueSchedules, now) /\ \A o \in Controllers : o # c => pass'[o] = pass[o]
    BY <1>1 DEF JInv, IInv, TypeOK
  <2> QED
    BY <2>1, <2>2 DEF AtHand
<1>3. UNCHANGED <<now, rows, past, term, leads, lit, passedBy>> /\ leads[c] # 0
  BY DEF FireReads
<1>4. ASSUME NEW e \in DueSchedules
      PROVE  e.position \in DOMAIN rows /\ e.row = rows[e.position]
  BY DEF DueSchedules
<1>5. PICK h \in Commits \cup {NoCommit} :
        /\ DOMAIN rows = DOMAIN Declared(h)
        /\ \A i \in DOMAIN rows : rows[i].commit = h /\ rows[i].decl = Declared(h)[i]
  BY DEF JInv, RowsDeclared
<1>6. \A e \in DueSchedules : IsDeclared(e)
  BY <1>4, <1>5 DEF IsDeclared, JInv, RowsTimed
<1>7. \A e, f \in DueSchedules : e # f => ~SameSchedule(e, f)
  <2> SUFFICES ASSUME NEW e \in DueSchedules, NEW f \in DueSchedules, SameSchedule(e, f)
               PROVE  e = f
      OBVIOUS
  <2>1. /\ e.position \in DOMAIN Declared(h) /\ f.position \in DOMAIN Declared(h)
        /\ e.row.commit = h /\ f.row.commit = h
    BY <1>4, <1>5
  <2>2. Lineage(e.position, h) = Lineage(f.position, h)
    BY <2>1 DEF SameSchedule
  <2>3. e.position = f.position
    BY <2>1, <2>2, LineagesDiffer
  <2> QED
    BY <2>3 DEF DueSchedules
<1>8. FoundDeclared'
  <2> SUFFICES ASSUME NEW o \in Controllers, pass'[o].at = "fire"
               PROVE  /\ \A e \in {pass'[o].hand} \cup pass'[o].due : IsDeclared(e)
                      /\ AreDifferent(pass'[o].hand, pass'[o].due)
      BY DEF FoundDeclared
  <2>1. CASE o = c
    BY <1>2, <1>6, <1>7, <2>1 DEF AreDifferent
  <2>2. CASE o # c
    BY <1>2, <2>2 DEF JInv, FoundDeclared
  <2> QED
    BY <2>1, <2>2
<1>9. PassesLead'
  BY <1>2, <1>3 DEF JInv, PassesLead
<1>10. FoundInForce => FoundInForce'
  <2> SUFFICES ASSUME FoundInForce, NEW o \in Controllers, pass'[o].at = "fire", leads[o] = term,
                      NEW e \in {pass'[o].hand} \cup pass'[o].due, NEW j \in DOMAIN rows,
                      Lineage(j, rows[j].commit) = Lineage(e.position, e.row.commit),
                      rows[j].due = e.row.due
               PROVE  rows[j].fire = e.row.fire \/ past[j].armedAt >= pass'[o].now
      BY <1>3 DEF FoundInForce, Lineage, Declared
  <2>1. CASE o # c
    BY <1>2, <2>1 DEF FoundInForce
  <2>2. CASE o = c
    <3>1. e \in DueSchedules
      BY <1>2, <2>2
    <3>2. e.position \in DOMAIN rows /\ e.row = rows[e.position]
      BY <1>4, <3>1
    <3>3. j \in DOMAIN Declared(h) /\ e.position \in DOMAIN Declared(h)
          /\ Lineage(j, h) = Lineage(e.position, h)
      BY <1>5, <3>2
    <3>4. j = e.position
      BY <3>3, LineagesDiffer
    <3> QED
      BY <3>2, <3>4
  <2> QED
    BY <2>1, <2>2
<1>11. Next
  BY DEF Next
<1> QED
  BY <1>3, <1>8, <1>9, <1>10, <1>11, StandAnswers

\* A pass that goes on to another schedule has that one in force as it had it among the rest.
LEMMA LeftAloneAnswers ==
  ASSUME JInv, NEW c \in Controllers, FireMoved(c) \/ FireFails(c)
  PROVE  JInv'
<1>1. /\ Firing(c) /\ OnToTheRest(c)
      /\ UNCHANGED <<now, rows, past, term, leads, lit, passedBy>>
  BY DEF FireMoved, FireFails
<1>2. /\ \A o \in Controllers : o # c => pass'[o] = pass[o]
      /\ pass'[c].at # "arm"
      /\ pass'[c].at = "fire" => /\ pass'[c].now = pass[c].now
                                /\ pass'[c].hand \in pass[c].due
                                /\ pass'[c].due = pass[c].due \ {pass'[c].hand}
  BY <1>1, OnToTheRestIs DEF Firing, JInv, IInv
<1>3. pass[c].at = "fire"
  BY <1>1 DEF Firing
<1>4. FoundDeclared'
  <2> SUFFICES ASSUME NEW o \in Controllers, pass'[o].at = "fire"
               PROVE  /\ \A e \in {pass'[o].hand} \cup pass'[o].due : IsDeclared(e)
                      /\ AreDifferent(pass'[o].hand, pass'[o].due)
      BY DEF FoundDeclared
  <2>1. CASE o = c
    BY <1>2, <1>3, <2>1 DEF JInv, FoundDeclared, AreDifferent
  <2>2. CASE o # c
    BY <1>2, <2>2 DEF JInv, FoundDeclared
  <2> QED
    BY <2>1, <2>2
<1>5. PassesLead'
  <2>1. leads[c] # 0
    BY <1>3 DEF JInv, PassesLead
  <2> QED
    BY <1>1, <1>2, <2>1 DEF JInv, PassesLead
<1>6. FoundInForce => FoundInForce'
  <2>1. \A o \in Controllers : pass'[o].at = "fire" =>
          /\ pass[o].at = "fire" /\ pass'[o].now = pass[o].now
          /\ {pass'[o].hand} \cup pass'[o].due \subseteq {pass[o].hand} \cup pass[o].due
          /\ leads'[o] = leads[o]
    BY <1>1, <1>2, <1>3
  <2> QED
    BY <1>1, <2>1, FindsStand
<1>7. Next
  BY DEF Next
<1> QED
  BY <1>1, <1>4, <1>5, <1>6, <1>7, StandAnswers

\* Nor does an arming that begins, or a pass that ends, change what is in force.
LEMMA RestAnswers ==
  ASSUME JInv, [Next]_vars, UNCHANGED <<now, rows, past, term, lit, passedBy>>,
         NEW c \in Controllers,
         \A o \in Controllers : o # c => pass'[o] = pass[o] /\ leads'[o] = leads[o],
         \/ pass'[c].at = "rest"
         \/ pass'[c].at = "arm" /\ pass'[c].now = now /\ leads'[c] # 0
  PROVE  JInv'
<1>1. FoundDeclared'
  <2> SUFFICES ASSUME NEW o \in Controllers, pass'[o].at = "fire" PROVE pass'[o] = pass[o]
      BY DEF FoundDeclared, JInv
  <2> QED
    OBVIOUS
<1>2. PassesLead'
  <2>1. now \in Nat
    BY BoundsAreNat DEF JInv, IInv, TypeOK
  <2>2. \A o \in Controllers : o # c =>
          /\ leads'[o] = 0 => pass'[o].at = "rest"
          /\ pass'[o].at = "arm" => now <= pass'[o].now + Lasts
    BY DEF JInv, PassesLead
  <2>3. /\ leads'[c] = 0 => pass'[c].at = "rest"
        /\ pass'[c].at = "arm" => now <= pass'[c].now + Lasts
    BY <2>1, BoundsAreNat
  <2> QED
    BY <2>2, <2>3 DEF PassesLead
<1>3. FoundInForce => FoundInForce'
  <2>1. \A o \in Controllers : pass'[o].at = "fire" =>
          /\ pass[o].at = "fire" /\ pass'[o].now = pass[o].now
          /\ {pass'[o].hand} \cup pass'[o].due \subseteq {pass[o].hand} \cup pass[o].due
          /\ leads'[o] = leads[o]
    OBVIOUS
  <2> QED
    BY <2>1, FindsStand
<1> QED
  BY <1>1, <1>2, <1>3, StandAnswers

\* A controller elected had no pass under way, and those of the others are of an earlier term.
LEMMA ElectAnswers ==
  ASSUME JInv, NEW c \in Controllers, Elect(c)
  PROVE  JInv'
<1>1. UNCHANGED <<now, rows, past, pass, lit, passedBy>> /\ leads[c] = 0 /\ term' = term + 1
  BY DEF Elect
<1>2. \A o \in Controllers : /\ leads[o] \in 0..term /\ term \in Nat
                             /\ leads'[o] = IF o = c THEN term + 1 ELSE leads[o]
  BY DEF Elect, JInv, IInv, TypeOK
<1>3. FoundDeclared'
  BY <1>1 DEF JInv, FoundDeclared
<1>4. PassesLead'
  BY <1>1, <1>2 DEF JInv, PassesLead
<1>5. FoundInForce'
  <2> SUFFICES ASSUME NEW o \in Controllers, pass[o].at = "fire", leads'[o] = term' PROVE FALSE
      BY <1>1 DEF FoundInForce
  <2>1. o = c
    BY <1>1, <1>2
  <2> QED
    BY <1>1, <2>1 DEF JInv, PassesLead
<1>6. Next
  BY DEF Next
<1> QED
  BY <1>1, <1>3, <1>4, <1>5, <1>6, StandAnswers

\* Time passes only where the leader has fired what is due.
LEMMA TickAnswers ==
  ASSUME JInv, Tick
  PROVE  JInv'
<1>1. /\ UNCHANGED <<rows, past, term, leads, pass, passedBy>>
      /\ now' = now + 1 /\ now \in Nat /\ lit \in Nat
      /\ lit' = IF holder = NoOne THEN lit ELSE now + 1
      /\ holder # NoOne => \A i \in DOMAIN rows : rows[i].fire > now
  BY BoundsAreNat DEF Tick, JInv, IInv, TypeOK
<1>2. IInv'
  BY ScheduleStep DEF Next, JInv
<1>3. /\ JitterWithinPeriod' /\ RowsDeclared' /\ RowsTimed' /\ EveryOccurrenceAnswered'
  BY <1>1, RowsStand
<1>4. FoundDeclared'
  BY <1>1 DEF JInv, FoundDeclared
<1>5. PassesLead'
  <2>1. \A c \in Controllers : pass[c].at = "arm" => now < pass[c].now + Lasts /\ pass[c].now \in Nat
    BY PassIs, BoundsAreNat DEF Tick, JInv, IInv, Arming
  <2> QED
    BY <1>1, <2>1, BoundsAreNat DEF JInv, PassesLead
<1>6. FoundInForce => FoundInForce'
  BY <1>1, FindsStand
<1>7. NotOverdue => NotOverdue'
  <2>1. \A i \in DOMAIN rows : rows[i] \in Row /\ past[i] \in Past
    <3>1. rows \in Seq(Row) /\ past \in [DOMAIN rows -> Past]
      BY DEF JInv, IInv, TypeOK
    <3> QED
      BY <3>1
  <2>2. \A i \in DOMAIN rows : rows[i].fire \in Nat /\ past[i].armedAt \in Nat
    BY <2>1, BoundsAreNat DEF Row, Past
  <2> SUFFICES ASSUME NotOverdue
               PROVE  /\ lit' <= now + 1
                      /\ \A i \in DOMAIN rows :
                           /\ past[i].settled < rows[i].due
                           /\ past[i].armedAt <= now + 1 /\ past[i].armedAt < rows[i].due + Lasts
                           /\ ~rows[i].decl.catchUp => lit' <= rows[i].fire \/ lit' <= past[i].armedAt
      BY <1>1 DEF NotOverdue
  <2>3. lit <= now
    BY DEF NotOverdue
  <2>4. lit' <= now + 1
    BY <1>1, <2>3
  <2>5. ASSUME NEW i \in DOMAIN rows
        PROVE  /\ past[i].settled < rows[i].due
               /\ past[i].armedAt <= now + 1 /\ past[i].armedAt < rows[i].due + Lasts
               /\ ~rows[i].decl.catchUp => lit' <= rows[i].fire \/ lit' <= past[i].armedAt
    <3>1. /\ past[i].settled < rows[i].due
          /\ past[i].armedAt <= now /\ past[i].armedAt < rows[i].due + Lasts
          /\ ~rows[i].decl.catchUp => lit <= rows[i].fire \/ lit <= past[i].armedAt
      BY DEF NotOverdue
    <3> QED
      BY <1>1, <2>2, <3>1
  <2> QED
    BY <2>4, <2>5
<1> QED
  BY <1>1, <1>2, <1>3, <1>4, <1>5, <1>6, <1>7 DEF JInv

\* At the start no schedule is armed and no pass is under way.
LEMMA AnswersInit == JitterWithinPeriod /\ Lasts <= Missed /\ Init => JInv
<1> SUFFICES ASSUME JitterWithinPeriod, Lasts <= Missed, Init PROVE JInv
    OBVIOUS
<1>1. IInv
  BY ScheduleInit
<1>2. DOMAIN rows = {} /\ now = 0 /\ lit = 0
  BY DEF Init
<1>3. \A c \in Controllers : pass[c].at = "rest"
  BY DEF Init, Idle
<1>4. RowsDeclared
  BY <1>2 DEF RowsDeclared, Declared, Init
<1> QED
  BY <1>1, <1>2, <1>3, <1>4
     DEF JInv, RowsTimed, FoundDeclared, PassesLead, FoundInForce, NotOverdue, EveryOccurrenceAnswered

\* Every step preserves that invariant.
LEMMA AnswersStep == JInv /\ [Next]_vars => JInv'
<1> SUFFICES ASSUME JInv, [Next]_vars PROVE JInv'
    OBVIOUS
<1>1. ASSUME NEW h \in Commits, NEW at \in 0..Horizon, Push(h, at) PROVE JInv'
  BY <1>1, PushAnswers
<1>2. ASSUME NEW c \in Controllers, ArmReads(c) PROVE JInv'
  <2> DEFINE p == [at |-> "arm", head |-> head, now |-> now, behind |-> FALSE]
  <2>1. p.at = "arm" /\ p.now = now
    OBVIOUS
  <2> HIDE DEF p
  <2>2. pass'[c] = p /\ \A o \in Controllers : o # c => pass'[o] = pass[o]
    BY <1>2 DEF ArmReads, JInv, IInv, TypeOK, p
  <2>3. UNCHANGED <<now, rows, past, term, leads, lit, passedBy>> /\ leads[c] # 0
    BY <1>2 DEF ArmReads
  <2> QED
    BY <2>1, <2>2, <2>3, RestAnswers
<1>3. ASSUME NEW c \in Controllers, ArmWrites(c) PROVE JInv'
  BY <1>3, ArmWritesAnswers
<1>4. ASSUME NEW c \in Controllers, ArmCollides(c) \/ Deposed(c) PROVE JInv'
  <2>1. /\ UNCHANGED <<now, rows, past, term, lit, passedBy>>
        /\ pass'[c] = Idle /\ \A o \in Controllers : o # c => pass'[o] = pass[o] /\ leads'[o] = leads[o]
    BY <1>4 DEF ArmCollides, Deposed, JInv, IInv, TypeOK
  <2>2. Idle.at = "rest"
    BY DEF Idle
  <2> QED
    BY <2>1, <2>2, RestAnswers
<1>5. ASSUME NEW c \in Controllers, FireReads(c) PROVE JInv'
  BY <1>5, FireReadsAnswers
<1>6. ASSUME NEW c \in Controllers, FireOne(c) PROVE JInv'
  <2> DEFINE outcome == IF Skips(pass[c].hand, pass[c].now) THEN "skipped" ELSE "run"
  <2>1. /\ Firing(c) /\ Held(pass[c].hand) /\ Fired(c, outcome)
        /\ UNCHANGED <<now, head, armed, term, holder, leads, lit, passedBy, pushes, upsets>>
    BY <1>6 DEF FireOne
  <2>2. /\ outcome = "skipped" => Skips(pass[c].hand, pass[c].now)
        /\ outcome # "skipped" => ~Skips(pass[c].hand, pass[c].now)
    OBVIOUS
  <2>3. upsets' \in 0..MaxUpsets
    BY <2>1 DEF JInv, IInv, TypeOK
  <2> HIDE DEF outcome
  <2> QED
    BY <2>1, <2>2, <2>3, FiredAnswers
<1>7. ASSUME NEW c \in Controllers, FireRefused(c) PROVE JInv'
  <2>1. upsets' \in 0..MaxUpsets
    BY <1>7, BoundsAreNat DEF FireRefused, JInv, IInv, TypeOK
  <2>2. /\ Firing(c) /\ Held(pass[c].hand) /\ ~Skips(pass[c].hand, pass[c].now) /\ Fired(c, "refused")
        /\ UNCHANGED <<now, head, armed, term, holder, leads, lit, passedBy, pushes>>
    BY <1>7 DEF FireRefused
  <2>3. "refused" # "skipped"
    OBVIOUS
  <2> QED
    BY <2>1, <2>2, <2>3, FiredAnswers
<1>8. ASSUME NEW c \in Controllers, FireMoved(c) \/ FireFails(c) PROVE JInv'
  BY <1>8, LeftAloneAnswers
<1>9. ASSUME NEW c \in Controllers, Elect(c) PROVE JInv'
  BY <1>9, ElectAnswers
<1>10. CASE LoseLock \/ UNCHANGED vars
  <2>1. UNCHANGED <<now, rows, past, pass, term, leads, lit, passedBy>>
    BY <1>10 DEF LoseLock, vars
  <2>2. FoundDeclared' /\ PassesLead'
    BY <2>1 DEF JInv, FoundDeclared, PassesLead
  <2>3. FoundInForce => FoundInForce'
    BY <2>1, FindsStand
  <2> QED
    BY <2>1, <2>2, <2>3, StandAnswers
<1>11. CASE Tick
  BY <1>11, TickAnswers
<1> QED
  BY <1>1, <1>2, <1>3, <1>4, <1>5, <1>6, <1>7, <1>8, <1>9, <1>10, <1>11 DEF Next

(***************************************************************************)
(* Where no schedule without catch-up may be late by more than the time to *)
(* its next occurrence, and a request or an arming is over before an       *)
(* occurrence is too late to fire, every occurrence gone past is answered: *)
(* whatever is pushed and armed, and whichever controllers come and go.    *)
(***************************************************************************)
THEOREM EveryOccurrenceAnsweredHolds ==
  ASSUME JitterWithinPeriod, Lasts <= Missed
  PROVE  Spec => []EveryOccurrenceAnswered
<1>1. Init => JInv
  BY AnswersInit
<1>2. JInv => EveryOccurrenceAnswered
  BY DEF JInv
<1> QED
  BY <1>1, <1>2, AnswersStep, PTL DEF Spec
=============================================================================
