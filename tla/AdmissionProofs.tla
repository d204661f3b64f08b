--------------------------- MODULE AdmissionProofs ---------------------------
(***************************************************************************)
(* Proofs about Admission: that a concurrency group holds one run and lets *)
(* in the oldest, that a step calls one run and succeeds only with it, that no  *)
(* run is stranded and that the ceiling is overrun by no more than itself. *)
(***************************************************************************)
EXTENDS Admission, FiniteSetTheorems, NaturalsInduction, WellFoundedInduction, TLAPS

-----------------------------------------------------------------------------
(* Rows.                                                                   *)

\* A row that is what another was, but for the requests and the clock on it.
Alike(row, was) ==
  /\ row.state = was.state /\ row.wf = was.wf /\ row.seq = was.seq /\ row.caller = was.caller
  /\ row.tasks = was.tasks /\ row.published = was.published /\ row.call = was.call

\* What a row holds.
LEMMA RowHas ==
  ASSUME NEW row \in Row
  PROVE  /\ row.state \in Live \cup Over /\ row.wf \in Workflows /\ row.seq \in Nat /\ row.seq + 1 \in Nat
         /\ row.caller \in Ids \cup {NoRun} /\ row.depth \in Nat /\ row.published \in SUBSET Nat
         /\ row.tasks \in UNION {[1 .. n -> InFlight \cup Over] : n \in Nat}
         /\ row.call \in {"none", "waiting", "dispatched"} \cup Over
<1>1. row.seq \in Nat
  BY DEF Row
<1>2. row.seq + 1 \in Nat
  BY <1>1
<1>3. row.published \in SUBSET Nat
  BY DEF Row
<1>4. row.tasks \in UNION {[1 .. n -> InFlight \cup Over] : n \in Nat}
  BY DEF Row
<1>5. /\ row.state \in Live \cup Over /\ row.wf \in Workflows
      /\ row.caller \in Ids \cup {NoRun} /\ row.depth \in Nat
      /\ row.call \in {"none", "waiting", "dispatched"} \cup Over
  BY DEF Row
<1> QED
  BY <1>1, <1>2, <1>3, <1>4, <1>5

\* A row is not the absence of one.
LEMMA RowIsSomething == \A row \in Row : row # NoRow
<1>1. \A row \in Row : row.state # "absent"
  BY DEF Row, Live, Over
<1>2. NoRow.state = "absent"
  BY DEF NoRow
<1> QED
  BY <1>1, <1>2

\* The rows that are there.
LEMMA CreatedAre ==
  ASSUME TypeOK
  PROVE  Created = {r \in Ids : runs[r] \in Row} /\ \A r \in Created : r \in Ids /\ runs[r] \in Row
  BY RowIsSomething DEF TypeOK, Created

\* A request to cancel, and a clock brought forward or taken back, change nothing else of a row.
LEMMA AskedIs ==
  ASSUME NEW row \in Row
  PROVE  /\ AskedToCancel(row) \in Row /\ Alike(AskedToCancel(row), row)
         /\ AskedToCancel(row).group = row.group /\ AskedToCancel(row).wake = row.wake
  BY DEF AskedToCancel, Row, Alike

LEMMA WokenIs ==
  ASSUME NEW row \in Row
  PROVE  /\ Woken(row) \in Row /\ Alike(Woken(row), row)
         /\ Woken(row).group = row.group /\ Woken(row).wake = TRUE
  BY DEF Woken, Row, Alike

\* A new row is queued, of no group, with nothing handed out and nothing called.
LEMMA NewRowIs ==
  ASSUME NEW wf \in Workflows, NEW caller \in Ids \cup {NoRun}, NEW depth \in Nat,
         NEW row, row = NewRow(wf, caller, depth)
  PROVE  /\ row \in Row /\ row.wf = wf /\ row.state = "queued" /\ row.seq = 0 /\ row.group = NoGroup
         /\ row.caller = caller /\ row.published = {}
         /\ DOMAIN row.tasks = 1 .. TasksOf[wf] /\ \A t \in DOMAIN row.tasks : row.tasks[t] = "pending"
         /\ row.call = IF CalleeOf[wf] = NoWorkflow THEN "none" ELSE "waiting"
<1> DEFINE tasks == [t \in 1 .. TasksOf[wf] |-> "pending"]
<1>1. TasksOf[wf] \in Nat
  BY AdmissionAssumption
<1>2. tasks \in UNION {[1 .. n -> InFlight \cup Over] : n \in Nat}
  <2>1. tasks \in [1 .. TasksOf[wf] -> InFlight \cup Over]
    BY DEF InFlight
  <2> QED
    BY <1>1, <2>1
<1>3. row.tasks = tasks
  BY DEF NewRow
<1>4. DOMAIN tasks = 1 .. TasksOf[wf] /\ \A t \in DOMAIN tasks : tasks[t] = "pending"
  OBVIOUS
<1>5. row.cancelReq = FALSE /\ row.wake = FALSE
  BY DEF NewRow
<1>6. row.seq = 0
  BY DEF NewRow
<1>7. /\ row.state = "queued" /\ row.wf = wf /\ row.group = NoGroup /\ row.caller = caller
      /\ row.depth = depth /\ row.published = {} /\ row.called = NoRun
      /\ row.call = IF CalleeOf[wf] = NoWorkflow THEN "none" ELSE "waiting"
  BY DEF NewRow
<1>8. row = [state |-> row.state, wf |-> row.wf, seq |-> row.seq, group |-> row.group,
             cancelReq |-> row.cancelReq, wake |-> row.wake, caller |-> row.caller, depth |-> row.depth,
             tasks |-> row.tasks, published |-> row.published, call |-> row.call, called |-> row.called]
  BY DEF NewRow
<1> HIDE DEF tasks
<1>9. row \in Row
  <2>1. row.call \in {"none", "waiting", "dispatched"} \cup Over
    BY <1>7
  <2>2. row.state \in Live \cup Over /\ row.group \in {NoGroup} \cup {GroupOf[v] : v \in Workflows}
    BY <1>7 DEF Live
  <2>3. row.cancelReq \in BOOLEAN /\ row.wake \in BOOLEAN
    BY <1>5
  <2>4. row.seq \in Nat
    BY <1>6
  <2>5. row.published \in SUBSET Nat
    BY <1>7
  <2>6. row.called \in Ids \cup {NoRun}
    BY <1>7, Zenon
  <2> QED
    BY <1>2, <1>3, <1>7, <1>8, <2>1, <2>2, <2>3, <2>4, <2>5, <2>6 DEF Row
<1> QED
  BY <1>3, <1>4, <1>6, <1>7, <1>9

\* The tasks of a row, by number.
LEMMA TasksAre ==
  ASSUME NEW row \in Row
  PROVE  /\ \E n \in Nat : row.tasks \in [1 .. n -> InFlight \cup Over]
         /\ \A t \in DOMAIN row.tasks : t \in Nat /\ row.tasks[t] \in InFlight \cup Over
<1>1. row.tasks \in UNION {[1 .. n -> InFlight \cup Over] : n \in Nat}
  BY DEF Row
<1>2. PICK n \in Nat : row.tasks \in [1 .. n -> InFlight \cup Over]
  BY <1>1
<1> QED
  BY <1>2

\* A decision saved is the document, under the next sequence and over the row's own stamps.
LEMMA SavedIs ==
  ASSUME NEW r \in Ids, runs[r] \in Row, NEW doc \in Row, NEW row, row = Saved(r, doc)
  PROVE  /\ row \in Row /\ row.state = doc.state /\ row.wf = doc.wf /\ row.seq = runs[r].seq + 1
         /\ row.group = runs[r].group /\ ~ row.wake /\ row.caller = doc.caller
         /\ row.tasks = doc.tasks /\ row.published = runs[r].published /\ row.call = doc.call
<1> DEFINE was == runs[r]
<1>1. was \in Row /\ row = [doc EXCEPT !.seq = was.seq + 1, !.wake = FALSE,
                            !.cancelReq = was.cancelReq, !.group = was.group, !.published = was.published]
  BY DEF Saved
<1> HIDE DEF was
<1>2. was.seq + 1 \in Nat
  BY <1>1, RowHas
<1>3. row \in Row /\ row.state = doc.state /\ row.wf = doc.wf /\ row.seq = was.seq + 1
      /\ row.group = was.group /\ ~ row.wake /\ row.caller = doc.caller
      /\ row.tasks = doc.tasks /\ row.published = was.published /\ row.call = doc.call
  BY <1>1, <1>2 DEF Row
<1> QED
  BY <1>3 DEF was

\* A run cancelled is over, and whatever of it was in flight with it.
LEMMA CancelRowIs ==
  ASSUME NEW was \in Row, NEW row, row = CancelRow(was)
  PROVE  /\ row \in Row /\ row.state = "cancelled" /\ row.wf = was.wf /\ row.seq = was.seq + 1
         /\ row.group = was.group /\ row.caller = was.caller /\ row.published = was.published
         /\ DOMAIN row.tasks = DOMAIN was.tasks /\ \A t \in DOMAIN row.tasks : row.tasks[t] \notin InFlight
         /\ (row.call = was.call \/ (row.call = "cancelled" /\ was.call \in {"waiting", "dispatched"}))
<1> DEFINE tasks == [t \in DOMAIN was.tasks |->
                       IF was.tasks[t] \in InFlight THEN "cancelled" ELSE was.tasks[t]]
           call  == IF was.call \in {"waiting", "dispatched"} THEN "cancelled" ELSE was.call
<1>1. row = [was EXCEPT !.state = "cancelled", !.seq = was.seq + 1, !.wake = FALSE, !.tasks = tasks, !.call = call]
  BY DEF CancelRow
<1>2. /\ tasks \in UNION {[1 .. n -> InFlight \cup Over] : n \in Nat}
      /\ DOMAIN tasks = DOMAIN was.tasks /\ \A t \in DOMAIN tasks : tasks[t] \notin InFlight
  <2>1. PICK n \in Nat : was.tasks \in [1 .. n -> InFlight \cup Over]
    BY TasksAre
  <2>2. tasks \in [1 .. n -> InFlight \cup Over]
    BY <2>1 DEF Over
  <2>3. "cancelled" \notin InFlight
    BY DEF InFlight
  <2> QED
    BY <2>1, <2>2, <2>3
<1>3. /\ call \in {"none", "waiting", "dispatched"} \cup Over
      /\ (call = was.call \/ (call = "cancelled" /\ was.call \in {"waiting", "dispatched"}))
  <2>1. was.call \in {"none", "waiting", "dispatched"} \cup Over
    BY RowHas
  <2>2. call = was.call \/ (call = "cancelled" /\ was.call \in {"waiting", "dispatched"})
    OBVIOUS
  <2> HIDE DEF call
  <2> QED
    BY <2>1, <2>2 DEF Over
<1> HIDE DEF tasks, call
<1>4. was.seq + 1 \in Nat /\ "cancelled" \in Live \cup Over
  BY RowHas DEF Over
<1>5. /\ row \in Row /\ row.state = "cancelled" /\ row.wf = was.wf /\ row.seq = was.seq + 1
      /\ row.group = was.group /\ row.caller = was.caller /\ row.published = was.published
      /\ row.tasks = tasks /\ row.call = call
  BY <1>1, <1>2, <1>3, <1>4 DEF Row
<1> QED
  BY <1>2, <1>3, <1>5

\* A result recorded is its task's fate, and wakes the run.
AnsweredRow(was, t, fate) == [was EXCEPT !.tasks[t] = fate, !.seq = was.seq + 1, !.wake = TRUE]

LEMMA AnsweredRowIs ==
  ASSUME NEW was \in Row, NEW t \in DOMAIN was.tasks, NEW fate \in Over,
         NEW row, row = AnsweredRow(was, t, fate)
  PROVE  /\ row \in Row /\ row.state = was.state /\ row.wf = was.wf /\ row.seq = was.seq + 1
         /\ row.group = was.group /\ row.caller = was.caller /\ row.published = was.published
         /\ row.call = was.call /\ row.wake
         /\ DOMAIN row.tasks = DOMAIN was.tasks /\ row.tasks[t] = fate
         /\ \A u \in DOMAIN was.tasks : u # t => row.tasks[u] = was.tasks[u]
<1> DEFINE tasks == [was.tasks EXCEPT ![t] = fate]
<1>1. row = [was EXCEPT !.tasks = tasks, !.seq = was.seq + 1, !.wake = TRUE]
  BY DEF AnsweredRow
<1>2. /\ tasks \in UNION {[1 .. n -> InFlight \cup Over] : n \in Nat}
      /\ DOMAIN tasks = DOMAIN was.tasks /\ tasks[t] = fate
      /\ \A u \in DOMAIN was.tasks : u # t => tasks[u] = was.tasks[u]
  <2>1. PICK n \in Nat : was.tasks \in [1 .. n -> InFlight \cup Over]
    BY TasksAre
  <2>2. tasks \in [1 .. n -> InFlight \cup Over]
    BY <2>1
  <2> QED
    BY <2>1, <2>2
<1> HIDE DEF tasks
<1>3. was.seq + 1 \in Nat
  BY RowHas
<1>4. /\ row \in Row /\ row.state = was.state /\ row.wf = was.wf /\ row.seq = was.seq + 1
      /\ row.group = was.group /\ row.caller = was.caller /\ row.published = was.published
      /\ row.call = was.call /\ row.wake /\ row.tasks = tasks
  BY <1>1, <1>2, <1>3 DEF Row
<1> QED
  BY <1>2, <1>4

\* Dispatches recorded are the decision, with the tasks begun out and stamped.
HandedRow(r, doc, start) ==
  [Saved(r, doc) EXCEPT
     !.tasks = [t \in DOMAIN doc.tasks |-> IF t \in start THEN "dispatched" ELSE doc.tasks[t]],
     !.published = @ \cup start]

LEMMA HandedRowIs ==
  ASSUME NEW r \in Ids, runs[r] \in Row, NEW doc \in Row, NEW start \in SUBSET Nat,
         NEW row, row = HandedRow(r, doc, start)
  PROVE  /\ row \in Row /\ row.state = doc.state /\ row.wf = doc.wf /\ row.seq = runs[r].seq + 1
         /\ row.group = runs[r].group /\ row.caller = doc.caller /\ row.call = doc.call
         /\ row.published = runs[r].published \cup start
         /\ DOMAIN row.tasks = DOMAIN doc.tasks
         /\ \A t \in DOMAIN doc.tasks :
              row.tasks[t] = IF t \in start THEN "dispatched" ELSE doc.tasks[t]
<1> DEFINE tasks == [t \in DOMAIN doc.tasks |-> IF t \in start THEN "dispatched" ELSE doc.tasks[t]]
           saved == Saved(r, doc)
<1>1. /\ tasks \in UNION {[1 .. n -> InFlight \cup Over] : n \in Nat}
      /\ DOMAIN tasks = DOMAIN doc.tasks
      /\ \A t \in DOMAIN doc.tasks : tasks[t] = IF t \in start THEN "dispatched" ELSE doc.tasks[t]
  <2>1. PICK n \in Nat : doc.tasks \in [1 .. n -> InFlight \cup Over]
    BY TasksAre
  <2>2. tasks \in [1 .. n -> InFlight \cup Over]
    BY <2>1 DEF InFlight
  <2> QED
    BY <2>1, <2>2
<1>2. row = [saved EXCEPT !.tasks = tasks, !.published = saved.published \cup start]
  BY DEF HandedRow
<1> HIDE DEF tasks, saved
<1>3. /\ saved \in Row /\ saved.state = doc.state /\ saved.wf = doc.wf /\ saved.seq = runs[r].seq + 1
      /\ saved.group = runs[r].group /\ saved.caller = doc.caller
      /\ saved.published = runs[r].published /\ saved.call = doc.call
  <2>1. \A s : s = Saved(r, doc) =>
          s \in Row /\ s.state = doc.state /\ s.wf = doc.wf /\ s.caller = doc.caller
    BY SavedIs
  <2>2. \A s : s = Saved(r, doc) =>
          s.group = runs[r].group /\ s.published = runs[r].published /\ s.call = doc.call
    BY SavedIs
  <2>3. \A s : s = Saved(r, doc) => s.seq = runs[r].seq + 1
    BY SavedIs
  <2> QED
    BY <2>1, <2>2, <2>3 DEF saved
<1>4. saved.published \cup start \in SUBSET Nat
  BY <1>3 DEF Row
<1>5. /\ row \in Row /\ row.state = saved.state /\ row.wf = saved.wf /\ row.seq = saved.seq
      /\ row.group = saved.group /\ row.caller = saved.caller /\ row.call = saved.call
      /\ row.published = saved.published \cup start /\ row.tasks = tasks
  BY <1>1, <1>2, <1>3, <1>4 DEF Row
<1> QED
  BY <1>1, <1>3, <1>5

-----------------------------------------------------------------------------
(* Passes.                                                                 *)

\* What a goroutine is at is told by its place.
LEMMA WorkerIs ==
  ASSUME TypeOK, NEW w \in Workers
  PROVE  /\ Deciding(w) => at[w] \in Passes /\ at[w].run \in Ids /\ at[w].doc \in Row
         /\ at[w].pc \in {"read", "cancel", "refuse", "admit"} => at[w] \in Turns /\ at[w].run \in Ids
         /\ at[w] \in {Idle} \cup Turns \cup Passes
  BY DEF TypeOK, Idle, Turns, Passes, Deciding

\* A pass that sees a row written is otherwise what it was.
SamePass(p, was) ==
  /\ p.pc = was.pc /\ p.run = was.run /\ p.doc = was.doc /\ p.changed = was.changed /\ p.start = was.start

LEMMA SeenIs ==
  ASSUME NEW p \in Passes
  PROVE  Seen(p) \in Passes /\ SamePass(Seen(p), p) /\ Seen(p).touched = TRUE
  BY DEF Seen, Passes, SamePass

\* A pass begun has the document as it is.
LEMMA PassBegun ==
  ASSUME NEW r \in Ids, runs[r] \in Row, NEW touched \in BOOLEAN, NEW p, p = Pass("calls", r, touched)
  PROVE  /\ p \in Passes /\ p.pc = "calls" /\ p.run = r /\ p.doc = runs[r]
         /\ ~ p.changed /\ p.start = {}
  BY DEF Pass, Passes

\* A document with another word on its call.
WithCall(doc, was, call) ==
  /\ doc.state = was.state /\ doc.wf = was.wf /\ doc.seq = was.seq /\ doc.caller = was.caller
  /\ doc.tasks = was.tasks /\ doc.call = call

\* What a pass finds of its call changes its document in that alone.
LEMMA DispatchedIs ==
  ASSUME NEW p \in Passes, NEW c \in Ids, NEW q, q = Dispatched(p, c)
  PROVE  /\ q \in Passes /\ q.pc = "quota" /\ q.run = p.run /\ q.changed /\ q.start = p.start
         /\ (q.touched <=> p.touched) /\ WithCall(q.doc, p.doc, "dispatched")
<1> DEFINE doc == [p.doc EXCEPT !.call = "dispatched", !.called = c]
<1>1. q = [p EXCEPT !.pc = "quota", !.changed = TRUE, !.doc = doc]
  BY DEF Dispatched
<1>2. p.doc \in Row
  BY DEF Passes
<1>3. doc \in Row /\ WithCall(doc, p.doc, "dispatched")
  BY <1>2 DEF Row, WithCall
<1> HIDE DEF doc
<1>4. /\ q \in Passes /\ q.pc = "quota" /\ q.run = p.run /\ q.changed /\ q.start = p.start
      /\ (q.touched <=> p.touched) /\ q.doc = doc
  BY <1>1, <1>3 DEF Passes
<1> QED
  BY <1>3, <1>4

LEMMA EndedCallIs ==
  ASSUME NEW p \in Passes, NEW as \in {"succeeded", "failed"}, NEW q, q = EndedCall(p, as)
  PROVE  /\ q \in Passes /\ q.pc = "quota" /\ q.run = p.run /\ q.changed /\ q.start = p.start
         /\ (q.touched <=> p.touched) /\ WithCall(q.doc, p.doc, as)
<1> DEFINE doc == [p.doc EXCEPT !.call = as]
<1>1. q = [p EXCEPT !.pc = "quota", !.changed = TRUE, !.doc = doc]
  BY DEF EndedCall
<1>2. p.doc \in Row /\ as \in Over
  BY DEF Passes, Over
<1>3. doc \in Row /\ WithCall(doc, p.doc, as)
  BY <1>2 DEF Row, WithCall
<1> HIDE DEF doc
<1>4. /\ q \in Passes /\ q.pc = "quota" /\ q.run = p.run /\ q.changed /\ q.start = p.start
      /\ (q.touched <=> p.touched) /\ q.doc = doc
  BY <1>1, <1>3 DEF Passes
<1> QED
  BY <1>3, <1>4

\* A pass that only goes on to another place.
LEMMA PassTurnsTo ==
  ASSUME NEW p \in Passes, NEW pc \in {"calls", "ask", "create", "quota"}, NEW q, q = [p EXCEPT !.pc = pc]
  PROVE  /\ q \in Passes /\ q.pc = pc /\ q.run = p.run /\ (q.changed <=> p.changed) /\ q.start = p.start
         /\ (q.touched <=> p.touched) /\ q.doc = p.doc
  BY DEF Passes

\* A pass that has its verdict, and what it may hand out.
Decided(p, verdict, go, pc) == [p EXCEPT !.doc.state = verdict, !.start = go, !.pc = pc]

LEMMA PassDecides ==
  ASSUME NEW p \in Passes, NEW pc \in {"save", "hand"}, NEW go \in SUBSET Nat,
         NEW verdict \in Live \cup Over,
         NEW q, q = Decided(p, verdict, go, pc)
  PROVE  /\ q \in Passes /\ q.pc = pc /\ q.run = p.run /\ (q.changed <=> p.changed) /\ q.start = go
         /\ (q.touched <=> p.touched) /\ q.doc.state = verdict /\ q.doc.wf = p.doc.wf
         /\ q.doc.seq = p.doc.seq /\ q.doc.caller = p.doc.caller
         /\ q.doc.tasks = p.doc.tasks /\ q.doc.call = p.doc.call
<1> DEFINE doc == [p.doc EXCEPT !.state = verdict]
<1>1. q = [p EXCEPT !.doc = doc, !.start = go, !.pc = pc]
  BY DEF Decided
<1>2. p.doc \in Row
  BY DEF Passes
<1>3. /\ doc \in Row /\ doc.state = verdict /\ doc.wf = p.doc.wf /\ doc.seq = p.doc.seq
      /\ doc.caller = p.doc.caller /\ doc.tasks = p.doc.tasks /\ doc.call = p.doc.call
  BY <1>2 DEF Row
<1> HIDE DEF doc
<1>4. /\ q \in Passes /\ q.pc = pc /\ q.run = p.run /\ (q.changed <=> p.changed) /\ q.start = go
      /\ (q.touched <=> p.touched) /\ q.doc = doc
  BY <1>1, <1>3 DEF Passes
<1> QED
  BY <1>3, <1>4

-----------------------------------------------------------------------------
(* The invariant.                                                          *)

\* The runs are numbered from the first without a gap.
InOrder == \A r \in Created : 1 .. r \subseteq Created

\* The run a step called has succeeded.
CalledWell(r) == \E c \in CalledBy(r) : runs[c].state = "succeeded"

\* One row: decided means no longer queued, what is handed out is a task of it and decided, a run
\* that is not cancelled has nothing cancelled, and one that runs has something under way or is
\* due to be decided.
RowAgrees(r) ==
  /\ DOMAIN runs[r].tasks = 1 .. TasksOf[runs[r].wf]
  /\ runs[r].published \cup out[r] \subseteq DOMAIN runs[r].tasks
  /\ runs[r].seq = 0 <=> runs[r].state = "queued"
  /\ out[r] # {} => runs[r].seq > 0
  /\ runs[r].state # "cancelled" =>
       runs[r].call # "cancelled" /\ \A t \in DOMAIN runs[r].tasks : runs[r].tasks[t] # "cancelled"
  /\ runs[r].call = "none" <=> CalleeOf[runs[r].wf] = NoWorkflow
  /\ runs[r].state = "succeeded" => runs[r].call \in {"none", "succeeded"}
  /\ runs[r].call = "succeeded" => CalledWell(r)
  /\ runs[r].caller # NoRun => runs[r].caller \in Created

UnderWay(r) ==
  /\ runs[r].state \in Live => OutOf(r) \subseteq out[r]
  /\ runs[r].state = "running" =>
       \/ runs[r].wake
       \/ \E t \in DOMAIN runs[r].tasks : runs[r].tasks[t] \in InFlight
       \/ runs[r].call = "dispatched"

RowsAgree ==
  /\ \A r \in Created : RowAgrees(r) /\ UnderWay(r)
  /\ \A r \in Ids \ Created : out[r] = {}
  /\ \A c, d \in Created : runs[c].caller = runs[d].caller /\ runs[c].caller # NoRun => c = d

\* A turn: only the watch admits, and only what nothing has decided.
TurnAgrees(w) ==
  at[w].pc \in {"read", "cancel", "refuse", "admit"} =>
    /\ at[w].run \in Created
    /\ at[w].pc = "read" \/ w = "answers" => runs[at[w].run].seq > 0
    /\ at[w].pc = "admit" => w = "watch" /\ runs[at[w].run].seq = 0

\* A pass and the row it read: while the sequence stands the row is as it was read.
PassAgrees(w) ==
  Deciding(w) =>
    LET p == at[w] doc == at[w].doc row == runs[at[w].run] IN
    /\ p.run \in Created
    /\ doc.wf = row.wf /\ doc.caller = row.caller /\ DOMAIN doc.tasks = DOMAIN row.tasks
    /\ doc.seq <= row.seq
    /\ doc.seq = row.seq =>
         /\ row.state = IF doc.seq = 0 THEN "queued" ELSE "running"
         /\ doc.tasks = row.tasks
         /\ ~p.changed \/ p.pc = "hand" => doc.call = row.call
    /\ ~p.touched /\ p.pc \in {"calls", "ask", "create", "quota"} => doc.seq = row.seq
    /\ doc.seq = 0 => w = "watch" /\ p.pc # "hand"
    /\ doc.call = "succeeded" => CalledWell(p.run)

\* A pass by itself: what it does in which order.
PassInOrder(w) ==
  Deciding(w) =>
    LET p == at[w] doc == at[w].doc IN
    /\ doc.call # "cancelled" /\ \A t \in DOMAIN doc.tasks : doc.tasks[t] # "cancelled"
    /\ doc.call = "none" <=> CalleeOf[doc.wf] = NoWorkflow
    /\ p.pc \in {"calls", "ask", "create"} => ~p.changed
    /\ p.pc \in {"ask", "create"} => Reached(doc)
    /\ p.pc \in {"quota", "save", "hand"} => ~Reached(doc)
    /\ p.pc \in {"calls", "ask", "create", "quota"} =>
         p.start = {} /\ doc.state = IF doc.seq = 0 THEN "queued" ELSE "running"
    /\ p.pc \in {"save", "hand"} => p.start \subseteq Pending(doc) /\ doc.state = Verdict(doc)
    /\ p.pc = "hand" => p.start # {}

\* While the watch admits a run, nobody holds its group and nobody queues before it.
Admitting ==
  Deciding("watch") /\ at["watch"].doc.seq = 0 =>
    LET r == at["watch"].run g == runs[at["watch"].run].group IN
    g # NoGroup => Holding(g) = {} /\ \A q \in Queued(g) : r <= q

IInv ==
  /\ TypeOK /\ InOrder /\ RowsAgree
  /\ \A w \in Workers : TurnAgrees(w) /\ PassAgrees(w) /\ PassInOrder(w)
  /\ Admitting /\ OneHolder

LEMMA AdmissionInit == Init => IInv
<1> SUFFICES ASSUME Init PROVE IInv
    OBVIOUS
<1>1. Created = {}
  BY DEF Init, Created
<1>2. TypeOK
  BY AdmissionAssumption DEF Init, TypeOK
<1>3. \A w \in Workers : at[w].pc = "idle"
  BY DEF Init, Idle
<1>4. "watch" \in Workers
  BY DEF Workers
<1> QED
  BY <1>1, <1>2, <1>3, <1>4 DEF IInv, InOrder, RowsAgree, TurnAgrees, PassAgrees, PassInOrder,
     Admitting, OneHolder, Deciding, Init

-----------------------------------------------------------------------------
(* What stays.                                                             *)

\* A new run takes the number after the last.
LEMMA FreshIs ==
  ASSUME TypeOK, InOrder
  PROVE  /\ IsFiniteSet(Created) /\ Cardinality(Created) \in Nat
         /\ Created = 1 .. Cardinality(Created) /\ Fresh \notin Created
<1> DEFINE n == Cardinality(Created)
<1>1. MaxRuns \in Nat /\ Created \subseteq 1 .. MaxRuns
  BY AdmissionAssumption DEF Created, Ids
<1>2. IsFiniteSet(Created) /\ n \in Nat
  <2>1. IsFiniteSet(1 .. MaxRuns)
    BY <1>1, FS_Interval
  <2>2. IsFiniteSet(Created)
    BY <1>1, <2>1, FS_Subset
  <2> QED
    BY <2>2, FS_CardinalityType
<1>3. ASSUME NEW m \in Created PROVE m \in Nat /\ m >= 1 /\ m <= n
  <2>1. m \in Nat /\ m >= 1
    BY <1>1
  <2>2. 1 .. m \subseteq Created
    BY DEF InOrder
  <2>3. Cardinality(1 .. m) = m
    BY <2>1, FS_Interval
  <2>4. Cardinality(1 .. m) <= n
    BY <1>2, <2>2, FS_Subset
  <2> QED
    BY <2>1, <2>3, <2>4
<1>4. Created \subseteq 1 .. n
  BY <1>2, <1>3
<1>5. IsFiniteSet(1 .. n) /\ Cardinality(1 .. n) = n
  BY <1>2, FS_Interval
<1>6. Created = 1 .. n
  BY <1>4, <1>5, FS_Subset
<1>7. n + 1 \notin Created
  BY <1>2, <1>6
<1> QED
  BY <1>2, <1>6, <1>7 DEF Fresh

\* The runs go on: none is lost, none goes back, and one that succeeded has.
RowsGoOn ==
  \A c \in Created :
    /\ c \in Created' /\ runs'[c] \in Row
    /\ runs'[c].wf = runs[c].wf /\ runs'[c].caller = runs[c].caller
    /\ runs[c].seq <= runs'[c].seq
    /\ runs[c].state = "succeeded" => runs'[c].state = "succeeded"

LEMMA CalledWellStays ==
  ASSUME RowsGoOn, NEW r
  PROVE  CalledWell(r) => CalledWell(r)'
  BY DEF RowsGoOn, CalledWell, CalledBy

\* A row that only hears a request, or is woken, agrees as it did.
LEMMA RowStays ==
  ASSUME RowsGoOn, NEW x \in Created, RowAgrees(x), UnderWay(x),
         Alike(runs'[x], runs[x]), runs[x].wake => runs'[x].wake, out'[x] = out[x]
  PROVE  RowAgrees(x)' /\ UnderWay(x)'
<1>1. RowAgrees(x)'
  BY CalledWellStays DEF RowsGoOn, RowAgrees, Alike
<1>2. UnderWay(x)'
  BY DEF UnderWay, Alike, OutOf
<1> QED
  BY <1>1, <1>2

\* A pass whose row is as it was, or has moved on under it, agrees as it did.
LEMMA PassStays ==
  ASSUME RowsGoOn, TypeOK, NEW o \in Workers, PassAgrees(o), PassInOrder(o),
         Deciding(o)' => /\ Deciding(o) /\ SamePass(at'[o], at[o])
                         /\ at[o].touched => at'[o].touched,
         Deciding(o) => \/ Alike(runs'[at[o].run], runs[at[o].run])
                        \/ /\ runs'[at[o].run].seq > runs[at[o].run].seq
                           /\ DOMAIN runs'[at[o].run].tasks = DOMAIN runs[at[o].run].tasks
                           /\ at'[o].touched
  PROVE  PassAgrees(o)' /\ PassInOrder(o)'
<1> SUFFICES ASSUME Deciding(o)', NEW r, r = at[o].run, NEW doc, doc = at[o].doc
             PROVE  PassAgrees(o)' /\ PassInOrder(o)'
    BY DEF PassAgrees, PassInOrder
<1>1. /\ at'[o].pc = at[o].pc /\ at'[o].run = at[o].run /\ at'[o].doc = at[o].doc
      /\ at'[o].changed = at[o].changed /\ at'[o].start = at[o].start
      /\ at[o].touched => at'[o].touched
      /\ Deciding(o)
  BY DEF SamePass
<1>2. PassInOrder(o)'
  BY <1>1 DEF PassInOrder, Reached, Fates, Pending, Verdict
<1>3. r \in Created /\ runs[r] \in Row /\ runs'[r] \in Row /\ doc \in Row
  BY <1>1, WorkerIs, CreatedAre DEF PassAgrees, RowsGoOn
<1>4. runs[r].seq \in Nat /\ runs'[r].seq \in Nat /\ doc.seq \in Nat
  BY <1>3, RowHas
<1>5. CalledWell(r) => CalledWell(r)'
  BY CalledWellStays
<1>6. /\ doc.wf = runs[r].wf /\ doc.caller = runs[r].caller /\ DOMAIN doc.tasks = DOMAIN runs[r].tasks
      /\ doc.seq <= runs[r].seq
      /\ doc.seq = runs[r].seq =>
           /\ runs[r].state = IF doc.seq = 0 THEN "queued" ELSE "running"
           /\ doc.tasks = runs[r].tasks
           /\ ~at[o].changed \/ at[o].pc = "hand" => doc.call = runs[r].call
      /\ ~at[o].touched /\ at[o].pc \in {"calls", "ask", "create", "quota"} => doc.seq = runs[r].seq
      /\ doc.seq = 0 => o = "watch" /\ at[o].pc # "hand"
      /\ doc.call = "succeeded" => CalledWell(r)
  BY <1>1 DEF PassAgrees
<1>7. r \in Created' /\ runs'[r].wf = runs[r].wf /\ runs'[r].caller = runs[r].caller
  BY <1>3 DEF RowsGoOn
<1>8. CASE Alike(runs'[r], runs[r])
  <2>1. /\ runs'[r].state = runs[r].state /\ runs'[r].seq = runs[r].seq
        /\ runs'[r].tasks = runs[r].tasks /\ runs'[r].call = runs[r].call
    BY <1>8 DEF Alike
  <2> QED
    BY <1>1, <1>2, <1>5, <1>6, <1>7, <2>1 DEF PassAgrees
<1>9. CASE /\ runs'[r].seq > runs[r].seq /\ DOMAIN runs'[r].tasks = DOMAIN runs[r].tasks
           /\ at'[o].touched
  <2>1. doc.seq < runs'[r].seq
    BY <1>4, <1>6, <1>9
  <2>2. doc.seq <= runs'[r].seq /\ doc.seq # runs'[r].seq
    BY <1>4, <2>1
  <2> QED
    BY <1>1, <1>2, <1>5, <1>6, <1>7, <1>9, <2>2 DEF PassAgrees
<1> QED
  BY <1>1, <1>2, <1>8, <1>9

\* A turn is still good while the rows go on, unless what it would admit has been decided.
LEMMA TurnStays ==
  ASSUME RowsGoOn, TypeOK, NEW o \in Workers, TurnAgrees(o),
         at'[o].pc \in {"read", "cancel", "refuse", "admit"} => at'[o] = at[o],
         at[o].pc = "admit" => runs'[at[o].run].seq = runs[at[o].run].seq
  PROVE  TurnAgrees(o)'
<1> SUFFICES ASSUME at'[o].pc \in {"read", "cancel", "refuse", "admit"} PROVE TurnAgrees(o)'
    BY DEF TurnAgrees
<1>1. at'[o] = at[o]
  OBVIOUS
<1>2. /\ at[o].run \in Created
      /\ at[o].pc = "read" \/ o = "answers" => runs[at[o].run].seq > 0
      /\ at[o].pc = "admit" => o = "watch" /\ runs[at[o].run].seq = 0
  BY <1>1 DEF TurnAgrees
<1> DEFINE r == at[o].run
<1>3. runs[r] \in Row /\ runs'[r] \in Row /\ r \in Created' /\ runs[r].seq <= runs'[r].seq
  BY <1>2, CreatedAre DEF RowsGoOn
<1>4. runs[r].seq \in Nat /\ runs'[r].seq \in Nat
  BY <1>3, RowHas
<1>5. runs[r].seq > 0 => runs'[r].seq > 0
  BY <1>3, <1>4
<1> QED
  BY <1>1, <1>2, <1>3, <1>5 DEF TurnAgrees

\* No run begins to run or to queue, but those of no group.
GroupsStand ==
  \A x \in Created' :
    \/ /\ x \in Created /\ runs'[x].group = runs[x].group
       /\ runs'[x].state = "running" => runs[x].state = "running"
       /\ runs'[x].state = "queued" => runs[x].state = "queued"
    \/ x \notin Created /\ runs'[x].group = NoGroup

LEMMA GroupsStay ==
  ASSUME GroupsStand, RowsGoOn, OneHolder, Admitting, \A w \in Workers : PassAgrees(w),
         Deciding("watch")' /\ at'["watch"].doc.seq = 0 =>
           /\ Deciding("watch") /\ at["watch"].doc.seq = 0 /\ at'["watch"].run = at["watch"].run
  PROVE  OneHolder' /\ Admitting'
<1>1. OneHolder'
  BY DEF GroupsStand, OneHolder
<1>2. Admitting'
  <2> SUFFICES ASSUME Deciding("watch")', at'["watch"].doc.seq = 0,
                      NEW r, r = at["watch"].run, NEW g, g = runs'[r].group, g # NoGroup
               PROVE  Holding(g)' = {} /\ \A q \in Queued(g)' : r <= q
      BY DEF Admitting
  <2>1. Deciding("watch") /\ at["watch"].doc.seq = 0
    OBVIOUS
  <2>2. r \in Created /\ "watch" \in Workers
    BY <2>1 DEF PassAgrees, Workers
  <2>3. r \in Created' /\ g = runs[r].group
    BY <2>2 DEF GroupsStand, RowsGoOn
  <2>4. Holding(g) = {} /\ \A q \in Queued(g) : r <= q
    BY <2>1, <2>3 DEF Admitting
  <2>5. Holding(g)' = {}
    BY <2>4 DEF Holding, GroupsStand
  <2>6. \A q \in Queued(g)' : q \in Queued(g)
    BY DEF Queued, GroupsStand
  <2> QED
    BY <2>4, <2>5, <2>6
<1> QED
  BY <1>1, <1>2

\* The other goroutine's pass is as it was, or sees its row written.
LEMMA OthersStay ==
  ASSUME IInv, RowsGoOn, NEW S, NEW o \in Workers, at'[o] = Touch(S)[o],
         \A x \in Created : \/ Alike(runs'[x], runs[x])
                            \/ /\ x \in S /\ runs'[x].seq > runs[x].seq
                               /\ DOMAIN runs'[x].tasks = DOMAIN runs[x].tasks,
         at[o].pc = "admit" => runs'[at[o].run].seq = runs[at[o].run].seq
  PROVE  /\ TurnAgrees(o)' /\ PassAgrees(o)' /\ PassInOrder(o)'
         /\ at'[o] \in {Idle} \cup Turns \cup Passes
         /\ Deciding(o)' => Deciding(o) /\ at'[o].doc = at[o].doc /\ at'[o].run = at[o].run
                            /\ at'[o].pc = at[o].pc /\ at'[o].start = at[o].start
<1>1. at'[o] = IF Deciding(o) /\ at[o].run \in S THEN Seen(at[o]) ELSE at[o]
  BY DEF Touch
<1>2. TypeOK /\ TurnAgrees(o) /\ PassAgrees(o) /\ PassInOrder(o)
  BY DEF IInv
<1>3. Deciding(o) => at[o] \in Passes /\ at[o].run \in Created
  BY <1>2, WorkerIs DEF PassAgrees
<1>4. at'[o] \in {Idle} \cup Turns \cup Passes
  BY <1>1, <1>2, <1>3, SeenIs, WorkerIs
<1>5. CASE ~(Deciding(o) /\ at[o].run \in S)
  <2>1. at'[o] = at[o]
    BY <1>1, <1>5
  <2>2. TurnAgrees(o)'
    BY <1>2, <2>1, TurnStays
  <2>3. (Deciding(o)' => Deciding(o)) /\ SamePass(at'[o], at[o]) /\ (at[o].touched => at'[o].touched)
    BY <2>1 DEF Deciding, SamePass
  <2>4. Deciding(o) => Alike(runs'[at[o].run], runs[at[o].run])
    BY <1>3, <1>5
  <2>5. PassAgrees(o)' /\ PassInOrder(o)'
    BY <1>2, <2>3, <2>4, PassStays
  <2> QED
    BY <1>4, <2>1, <2>2, <2>3, <2>5
<1>6. CASE Deciding(o) /\ at[o].run \in S
  <2>1. at'[o] = Seen(at[o]) /\ at[o] \in Passes
    BY <1>1, <1>3, <1>6
  <2>2. SamePass(at'[o], at[o]) /\ at'[o].touched
    BY <2>1, SeenIs
  <2>3. at'[o].pc \notin {"read", "cancel", "refuse", "admit"}
    BY <1>6, <2>2 DEF SamePass, Deciding
  <2>4. TurnAgrees(o)'
    BY <2>3 DEF TurnAgrees
  <2>5. \/ Alike(runs'[at[o].run], runs[at[o].run])
        \/ /\ runs'[at[o].run].seq > runs[at[o].run].seq
           /\ DOMAIN runs'[at[o].run].tasks = DOMAIN runs[at[o].run].tasks
           /\ at'[o].touched
    BY <1>3, <1>6, <2>2
  <2>6. PassAgrees(o)' /\ PassInOrder(o)'
    BY <1>2, <1>6, <2>2, <2>5, PassStays
  <2> QED
    BY <1>4, <1>6, <2>2, <2>4, <2>6 DEF SamePass
<1> QED
  BY <1>5, <1>6

\* A run created is queued after the last, and the others are as they were.
LEMMA RunCreated ==
  ASSUME IInv, Fresh \in Ids, NEW wf \in Workflows, NEW caller \in Ids \cup {NoRun}, NEW depth \in Nat,
         caller # NoRun => caller \in Created /\ CalledBy(caller) = {},
         runs' = [runs EXCEPT ![Fresh] = NewRow(wf, caller, depth)], out' = out
  PROVE  /\ runs' \in [Ids -> Row \cup {NoRow}] /\ Created' = Created \cup {Fresh}
         /\ InOrder' /\ RowsAgree' /\ RowsGoOn /\ GroupsStand
         /\ \A x \in Created : runs'[x] = runs[x]
         /\ runs'[Fresh].published = {} /\ runs'[Fresh].caller = caller
<1> SUFFICES ASSUME NEW f, f = Fresh, NEW row, row = NewRow(wf, caller, depth) PROVE
         /\ runs' \in [Ids -> Row \cup {NoRow}] /\ Created' = Created \cup {f}
         /\ InOrder' /\ RowsAgree' /\ RowsGoOn /\ GroupsStand
         /\ \A x \in Created : runs'[x] = runs[x]
         /\ runs'[f].published = {} /\ runs'[f].caller = caller
    OBVIOUS
<1>1. TypeOK /\ InOrder /\ RowsAgree
  BY DEF IInv
<1>2. /\ row \in Row /\ row.wf = wf /\ row.state = "queued" /\ row.seq = 0 /\ row.group = NoGroup
      /\ row.caller = caller /\ row.published = {}
      /\ DOMAIN row.tasks = 1 .. TasksOf[wf] /\ \A t \in DOMAIN row.tasks : row.tasks[t] = "pending"
      /\ row.call = IF CalleeOf[wf] = NoWorkflow THEN "none" ELSE "waiting"
  <2>1. row \in Row /\ row.wf = wf /\ row.state = "queued" /\ row.group = NoGroup /\ row.caller = caller
    BY NewRowIs
  <2>2. row.seq = 0
    BY NewRowIs
  <2>3. row.published = {}
    BY NewRowIs
  <2>4. DOMAIN row.tasks = 1 .. TasksOf[wf] /\ \A t \in DOMAIN row.tasks : row.tasks[t] = "pending"
    BY NewRowIs
  <2>5. row.call = IF CalleeOf[wf] = NoWorkflow THEN "none" ELSE "waiting"
    BY NewRowIs
  <2> QED
    BY <2>1, <2>2, <2>3, <2>4, <2>5
<1>3. f \notin Created /\ f \in Ids
  BY <1>1, FreshIs
<1>4. /\ runs' \in [Ids -> Row \cup {NoRow}] /\ runs'[f] = row
      /\ \A x \in Ids : x # f => runs'[x] = runs[x]
  BY <1>1, <1>2, <1>3 DEF TypeOK
<1>5. Created' = Created \cup {f} /\ \A x \in Created : runs'[x] = runs[x]
  BY <1>2, <1>3, <1>4, RowIsSomething DEF Created
<1>6. RowsGoOn
  <2>1. \A c \in Created : runs[c] \in Row /\ runs[c].seq \in Nat
    BY <1>1, CreatedAre, RowHas
  <2> QED
    BY <1>5, <2>1 DEF RowsGoOn
<1>7. InOrder'
  <2>1. Created = 1 .. Cardinality(Created) /\ Cardinality(Created) \in Nat
    BY <1>1, FreshIs
  <2>2. f = Cardinality(Created) + 1
    BY DEF Fresh
  <2>3. 1 .. f \subseteq Created \cup {f}
    BY <2>1, <2>2
  <2> QED
    BY <1>1, <1>5, <2>3 DEF InOrder
<1>8. ASSUME NEW x \in Created PROVE RowAgrees(x)' /\ UnderWay(x)'
  <2>1. RowAgrees(x) /\ UnderWay(x) /\ runs'[x] = runs[x]
    BY <1>1, <1>5 DEF RowsAgree
  <2> QED
    BY <1>6, <2>1, RowStays DEF Alike
<1>9. RowAgrees(f)' /\ UnderWay(f)'
  <2>1. out'[f] = {}
    BY <1>1, <1>3 DEF RowsAgree
  <2>2. caller # NoRun => caller \in Created'
    BY <1>5
  <2>3. OutOf(f)' = {}
    BY <1>2, <1>4 DEF OutOf
  <2> QED
    BY <1>2, <1>4, <2>1, <2>2, <2>3 DEF RowAgrees, UnderWay
<1>10. \A c, d \in Created' : runs'[c].caller = runs'[d].caller /\ runs'[c].caller # NoRun => c = d
  <2>1. \A c \in Created : runs[c].caller # NoRun => runs[c].caller # caller
    BY DEF CalledBy
  <2>2. \A c, d \in Created : runs[c].caller = runs[d].caller /\ runs[c].caller # NoRun => c = d
    BY <1>1 DEF RowsAgree
  <2>3. runs'[f].caller = caller /\ \A c \in Created' : c = f \/ (c \in Created /\ runs'[c] = runs[c])
    BY <1>2, <1>4, <1>5
  <2> QED
    BY <2>1, <2>2, <2>3
<1>11. \A x \in Ids \ Created' : out'[x] = {}
  BY <1>1, <1>5 DEF RowsAgree
<1>12. RowsAgree'
  BY <1>5, <1>8, <1>9, <1>10, <1>11 DEF RowsAgree
<1>13. GroupsStand
  BY <1>2, <1>3, <1>4, <1>5 DEF GroupsStand
<1> QED
  BY <1>2, <1>4, <1>5, <1>6, <1>7, <1>12, <1>13

-----------------------------------------------------------------------------
(* One row written.                                                        *)

\* Row r is written; of the others, some may hear a request or be woken.
OneWritten(r, row) ==
  /\ runs' \in [Ids -> Row \cup {NoRow}] /\ Created' = Created /\ runs'[r] = row
  /\ \A x \in Created : x # r =>
       /\ Alike(runs'[x], runs[x]) /\ runs'[x].group = runs[x].group
       /\ runs[x].wake => runs'[x].wake

LEMMA ReplacedIs ==
  ASSUME TypeOK, NEW r \in Created, NEW row \in Row, runs' = [runs EXCEPT ![r] = row]
  PROVE  OneWritten(r, row)
<1>1. r \in Ids /\ runs \in [Ids -> Row \cup {NoRow}]
  BY CreatedAre DEF TypeOK
<1>2. /\ runs' \in [Ids -> Row \cup {NoRow}] /\ runs'[r] = row
      /\ \A x \in Ids : x # r => runs'[x] = runs[x]
  BY <1>1
<1>3. Created' = Created
  BY <1>2, RowIsSomething DEF Created
<1> QED
  BY <1>2, <1>3, CreatedAre DEF OneWritten, Alike

LEMMA WrittenIs ==
  ASSUME TypeOK, NEW r \in Created, NEW row \in Row, runs' = Written(r, row)
  PROVE  OneWritten(r, row)
<1>1. r \in Ids /\ \A x \in Created : x \in Ids /\ runs[x] \in Row
  BY CreatedAre
<1>2. \A x \in Ids : runs'[x] = IF x = r THEN row
                                ELSE IF ~ Ended(row) THEN runs[x]
                                ELSE IF x \in Callees(r) THEN AskedToCancel(runs[x])
                                ELSE IF x \in Waking(r) THEN Woken(runs[x])
                                ELSE runs[x]
  BY DEF Written
<1>3. \A x \in Callees(r) : x \in Created
  BY DEF Callees, CalledBy
<1>4. \A x \in Waking(r) : x \in Ids => x \in Created
  <2>1. NoRow.state \notin Live
    BY DEF NoRow, Live
  <2> QED
    BY <2>1 DEF Waking, Created
<1>5. ASSUME NEW x \in Ids, x # r
      PROVE  \/ runs'[x] = runs[x]
             \/ /\ x \in Created /\ runs'[x] \in Row /\ Alike(runs'[x], runs[x])
                /\ runs'[x].group = runs[x].group /\ (runs[x].wake => runs'[x].wake)
  <2>1. CASE runs'[x] = AskedToCancel(runs[x]) /\ x \in Created
    BY <1>1, <2>1, AskedIs
  <2>2. CASE runs'[x] = Woken(runs[x]) /\ x \in Created
    BY <1>1, <2>2, WokenIs
  <2> QED
    BY <1>2, <1>3, <1>4, <1>5, <2>1, <2>2
<1>6. runs'[r] = row
  BY <1>1, <1>2
<1>7. runs' \in [Ids -> Row \cup {NoRow}]
  <2>1. \A x \in Ids : runs'[x] \in Row \cup {NoRow}
    BY <1>5, <1>6 DEF TypeOK
  <2>2. runs' = [x \in Ids |-> runs'[x]]
    BY DEF Written
  <2> QED
    BY <2>1, <2>2
<1>8. Created' = Created
  BY <1>1, <1>5, <1>6, RowIsSomething DEF Created
<1> QED
  BY <1>1, <1>5, <1>6, <1>7, <1>8 DEF OneWritten, Alike

\* A write that goes on with the run, in agreement with it, keeps the invariant.
LEMMA WriteGoesOn ==
  ASSUME TypeOK, NEW r \in Created, NEW row \in Row, OneWritten(r, row),
         row.wf = runs[r].wf, row.caller = runs[r].caller, runs[r].seq <= row.seq,
         runs[r].state = "succeeded" => row.state = "succeeded"
  PROVE  RowsGoOn
<1> SUFFICES ASSUME NEW c \in Created
             PROVE  /\ c \in Created' /\ runs'[c] \in Row
                    /\ runs'[c].wf = runs[c].wf /\ runs'[c].caller = runs[c].caller
                    /\ runs[c].seq <= runs'[c].seq
                    /\ runs[c].state = "succeeded" => runs'[c].state = "succeeded"
    BY DEF RowsGoOn
<1>1. c \in Created' /\ c \in Ids /\ runs'[c] \in Row
  BY CreatedAre, RowIsSomething DEF OneWritten, Created
<1>2. CASE c = r
  BY <1>1, <1>2 DEF OneWritten
<1>3. CASE c # r
  <2>1. runs[c].seq \in Nat
    BY CreatedAre, RowHas
  <2> QED
    BY <1>1, <1>3, <2>1 DEF OneWritten, Alike
<1> QED
  BY <1>2, <1>3

LEMMA WriteKeeps ==
  ASSUME IInv, NEW w \in Workers, NEW r \in Created, NEW row \in Row, NEW S, OneWritten(r, row), RowsGoOn,
         \/ Alike(row, runs[r])
         \/ /\ row.seq > runs[r].seq /\ DOMAIN row.tasks = DOMAIN runs[r].tasks
            /\ w = "answers" => runs[r].seq > 0
            /\ r \in S,
         out' \in [Ids -> SUBSET Nat], \A x \in Ids : x # r => out'[x] = out[x],
         RowAgrees(r)', UnderWay(r)',
         \A o \in Workers : o # w => at'[o] = Touch(S)[o],
         at' = [o \in Workers |-> at'[o]], at'[w] \in {Idle} \cup Turns \cup Passes,
         TurnAgrees(w)', PassAgrees(w)', PassInOrder(w)',
         holds' \in BOOLEAN, upsets' \in 0 .. MaxUpsets, OneHolder', Admitting'
  PROVE  IInv'
<1>1. TypeOK /\ InOrder /\ RowsAgree
  BY DEF IInv
<1>2. ASSUME NEW o \in Workers, o # w
      PROVE  /\ TurnAgrees(o)' /\ PassAgrees(o)' /\ PassInOrder(o)'
             /\ at'[o] \in {Idle} \cup Turns \cup Passes
  <2>1. at'[o] = Touch(S)[o]
    BY <1>2
  <2>2. \A x \in Created : \/ Alike(runs'[x], runs[x])
                           \/ /\ x \in S /\ runs'[x].seq > runs[x].seq
                              /\ DOMAIN runs'[x].tasks = DOMAIN runs[x].tasks
    BY DEF OneWritten
  <2>3. at[o].pc = "admit" => runs'[at[o].run].seq = runs[at[o].run].seq
    <3> SUFFICES ASSUME at[o].pc = "admit" PROVE runs'[at[o].run].seq = runs[at[o].run].seq
        OBVIOUS
    <3>1. o = "watch" /\ at[o].run \in Created /\ runs[at[o].run].seq = 0
      BY DEF IInv, TurnAgrees
    <3>2. w = "answers"
      BY <1>2, <3>1 DEF Workers
    <3>3. CASE at[o].run # r
      BY <3>1, <3>3 DEF OneWritten, Alike
    <3>4. CASE at[o].run = r
      BY <3>1, <3>2, <3>4 DEF OneWritten, Alike
    <3> QED
      BY <3>3, <3>4
  <2> QED
    BY <2>1, <2>2, <2>3, OthersStay
<1>3. TypeOK'
  <2>1. at' \in [Workers -> {Idle} \cup Turns \cup Passes]
    <3>1. \A o \in Workers : at'[o] \in {Idle} \cup Turns \cup Passes
      BY <1>2
    <3> QED
      BY <3>1
  <2> QED
    BY <2>1 DEF TypeOK, OneWritten
<1>4. InOrder'
  BY <1>1 DEF InOrder, OneWritten
<1>5. RowsAgree'
  <2>1. ASSUME NEW x \in Created, x # r PROVE RowAgrees(x)' /\ UnderWay(x)'
    <3>1. /\ Alike(runs'[x], runs[x]) /\ (runs[x].wake => runs'[x].wake)
          /\ out'[x] = out[x] /\ RowAgrees(x) /\ UnderWay(x)
      BY <1>1, <2>1, CreatedAre DEF OneWritten, RowsAgree
    <3> QED
      BY <3>1, RowStays
  <2>2. \A c \in Created : runs'[c].caller = runs[c].caller
    BY DEF RowsGoOn
  <2>3. \A x \in Ids \ Created : out'[x] = {}
    BY <1>1 DEF RowsAgree
  <2>4. Created' = Created
    BY DEF OneWritten
  <2> QED
    BY <1>1, <2>1, <2>2, <2>3, <2>4 DEF RowsAgree
<1> QED
  BY <1>2, <1>3, <1>4, <1>5 DEF IInv

\* Nor does it disturb the groups, where it starts no run and queues none.
LEMMA WriteLeavesGroups ==
  ASSUME IInv, NEW w \in Workers, NEW r \in Created, NEW row \in Row, OneWritten(r, row), RowsGoOn,
         row.group = runs[r].group, row.state = "running" => runs[r].state = "running",
         row.state = "queued" => runs[r].state = "queued",
         NEW S, \A o \in Workers : o # w => at'[o] = Touch(S)[o],
         w = "watch" /\ Deciding(w)' => at'[w].doc.seq # 0
  PROVE  OneHolder' /\ Admitting'
<1>1. GroupsStand
  BY DEF GroupsStand, OneWritten, Alike
<1>2. Deciding("watch")' /\ at'["watch"].doc.seq = 0 =>
        /\ Deciding("watch") /\ at["watch"].doc.seq = 0 /\ at'["watch"].run = at["watch"].run
  <2> SUFFICES ASSUME w # "watch", Deciding("watch")', at'["watch"].doc.seq = 0
               PROVE  /\ Deciding("watch") /\ at["watch"].doc.seq = 0
                      /\ at'["watch"].run = at["watch"].run
      OBVIOUS
  <2> DEFINE o == "watch"
  <2>1. o \in Workers /\ at'[o] = Touch(S)[o]
    BY DEF Workers
  <2>2. at'[o] = IF Deciding(o) /\ at[o].run \in S THEN Seen(at[o]) ELSE at[o]
    BY <2>1 DEF Touch
  <2>3. Deciding(o) => at[o] \in Passes
    BY <2>1, WorkerIs DEF IInv
  <2> QED
    BY <2>2, <2>3, SeenIs DEF SamePass, Deciding
<1> QED
  BY <1>1, <1>2, GroupsStay DEF IInv

\* A goroutine at rest agrees with anything.
LEMMA IdleAgrees ==
  ASSUME NEW w \in Workers, at'[w] = Idle
  PROVE  /\ TurnAgrees(w)' /\ PassAgrees(w)' /\ PassInOrder(w)' /\ ~ Deciding(w)'
         /\ at'[w] \in {Idle} \cup Turns \cup Passes
<1>1. at'[w].pc = "idle"
  BY DEF Idle
<1> QED
  BY <1>1 DEF TurnAgrees, PassAgrees, PassInOrder, Deciding

\* The passes after a write: the writer's as given, the others' seeing it.
LEMMA TouchedExcept ==
  ASSUME NEW w \in Workers, NEW S, NEW q, at' = [Touch(S) EXCEPT ![w] = q]
  PROVE  /\ at'[w] = q /\ at' = [o \in Workers |-> at'[o]]
         /\ \A o \in Workers : o # w => at'[o] = Touch(S)[o]
  BY DEF Touch

-----------------------------------------------------------------------------
(* The steps.                                                              *)

\* A step that changes what one goroutine is at, and no row.
LEMMA PassOnlyKeeps ==
  ASSUME IInv, NEW w \in Workers, NEW q, at' = [at EXCEPT ![w] = q], UNCHANGED <<runs, out>>,
         q \in {Idle} \cup Turns \cup Passes, TurnAgrees(w)', PassAgrees(w)', PassInOrder(w)',
         holds' \in BOOLEAN, upsets' \in 0 .. MaxUpsets,
         w = "watch" => Admitting'
  PROVE  IInv'
<1>1. /\ at' \in [Workers -> {Idle} \cup Turns \cup Passes]
      /\ \A o \in Workers : o # w => at'[o] = at[o]
  BY DEF IInv, TypeOK
<1>2. TypeOK'
  BY <1>1 DEF IInv, TypeOK
<1>3. Created' = Created
  BY DEF Created
<1>4. RowsGoOn
  <2>1. \A c \in Created : runs[c] \in Row /\ runs[c].seq \in Nat
    BY CreatedAre, RowHas DEF IInv
  <2> QED
    BY <1>3, <2>1 DEF RowsGoOn
<1>5. ASSUME NEW o \in Workers, o # w PROVE TurnAgrees(o)' /\ PassAgrees(o)' /\ PassInOrder(o)'
  <2>1. at'[o] = Touch({})[o]
    BY <1>1, <1>5 DEF Touch
  <2>2. \A x \in Created : Alike(runs'[x], runs[x])
    BY DEF Alike
  <2> QED
    BY <1>4, <2>1, <2>2, OthersStay
<1>6. InOrder' /\ OneHolder'
  BY <1>3 DEF IInv, InOrder, OneHolder
<1>7. RowsAgree'
  BY <1>3 DEF IInv, RowsAgree, RowAgrees, UnderWay, CalledWell, CalledBy, OutOf
<1>8. w = "answers" => Admitting'
  <2> SUFFICES ASSUME w = "answers" PROVE Admitting'
      OBVIOUS
  <2>1. at'["watch"] = at["watch"]
    BY <1>1 DEF Workers
  <2> QED
    BY <1>3, <2>1 DEF IInv, Admitting, Deciding, Holding, Queued
<1>9. Admitting'
  BY <1>8 DEF Workers
<1> QED
  BY <1>2, <1>5, <1>6, <1>7, <1>9 DEF IInv

\* A run as it stands is one a pass may begin from.
LEMMA BeginAgrees ==
  ASSUME IInv, NEW w \in Workers, NEW r \in Created, runs[r].state \in Live,
         runs[r].seq = 0 => w = "watch", NEW touched \in BOOLEAN,
         at'[w] = Pass("calls", r, touched),
         Created' = Created, Alike(runs'[r], runs[r]), RowsGoOn
  PROVE  /\ at'[w] \in {Idle} \cup Turns \cup Passes
         /\ TurnAgrees(w)' /\ PassAgrees(w)' /\ PassInOrder(w)'
         /\ Deciding(w)' /\ at'[w].run = r /\ at'[w].doc = runs[r]
<1>1. runs[r] \in Row /\ r \in Ids /\ RowAgrees(r) /\ runs[r].seq \in Nat
  BY CreatedAre, RowHas DEF IInv, RowsAgree
<1>2. /\ at'[w] \in Passes /\ at'[w].pc = "calls" /\ at'[w].run = r /\ at'[w].doc = runs[r]
      /\ ~ at'[w].changed /\ at'[w].start = {}
  <2> SUFFICES ASSUME NEW p, p = Pass("calls", r, touched)
               PROVE  /\ p \in Passes /\ p.pc = "calls" /\ p.run = r /\ p.doc = runs[r]
                      /\ ~ p.changed /\ p.start = {}
      OBVIOUS
  <2> QED
    BY <1>1, PassBegun, Zenon
<1>3. runs[r].state = IF runs[r].seq = 0 THEN "queued" ELSE "running"
  BY <1>1 DEF RowAgrees, Live
<1>4. runs[r].state # "cancelled"
  BY DEF Live
<1>5. TurnAgrees(w)'
  BY <1>2 DEF TurnAgrees
<1>6. PassInOrder(w)'
  BY <1>1, <1>2, <1>3, <1>4 DEF PassInOrder, RowAgrees
<1>7. PassAgrees(w)'
  <2>1. r \in Created'
    OBVIOUS
  <2>2. runs[r].call = "succeeded" => CalledWell(r)'
    BY <1>1, CalledWellStays DEF RowAgrees
  <2> QED
    BY <1>1, <1>2, <1>3, <2>1, <2>2 DEF PassAgrees, Alike
<1> QED
  BY <1>2, <1>5, <1>6, <1>7 DEF Deciding

LEMMA ReadingAgrees ==
  ASSUME IInv, NEW w \in Workers, NEW r \in Created, at'[w] = Reading(r), UNCHANGED runs,
         w = "answers" => runs[r].seq > 0
  PROVE  /\ at'[w] \in {Idle} \cup Turns \cup Passes
         /\ TurnAgrees(w)' /\ PassAgrees(w)' /\ PassInOrder(w)'
         /\ Deciding(w)' => at'[w].doc.seq # 0
<1>1. r \in Ids /\ runs[r] \in Row /\ runs[r].state \in Live \cup Over /\ runs[r].seq \in Nat
  BY CreatedAre, RowHas DEF IInv
<1>2. CASE at'[w] = Idle
  BY <1>2, IdleAgrees
<1>3. ASSUME NEW pc \in {"cancel", "admit", "refuse"}, at'[w] = To(pc, r),
             pc = "admit" => runs[r].seq = 0
      PROVE  /\ at'[w] \in {Idle} \cup Turns \cup Passes
             /\ TurnAgrees(w)' /\ PassAgrees(w)' /\ PassInOrder(w)' /\ ~ Deciding(w)'
  <2>1. at'[w] \in Turns /\ at'[w].pc = pc /\ at'[w].run = r
    BY <1>1, <1>3 DEF To, Turns
  <2>2. Created' = Created
    BY DEF Created
  <2>3. pc = "admit" => w = "watch"
    BY <1>1, <1>3 DEF Workers
  <2> QED
    BY <1>3, <2>1, <2>2, <2>3 DEF TurnAgrees, PassAgrees, PassInOrder, Deciding
<1>4. CASE at'[w] = Pass("calls", r, FALSE) /\ runs[r].state \in Live /\ runs[r].seq # 0
  <2>1. Created' = Created /\ Alike(runs'[r], runs[r])
    BY DEF Created, Alike
  <2>2. RowsGoOn
    <3>1. \A c \in Created : runs[c] \in Row /\ runs[c].seq \in Nat
      BY CreatedAre, RowHas DEF IInv
    <3> QED
      BY <2>1, <3>1 DEF RowsGoOn
  <2> QED
    BY <1>4, <2>1, <2>2, BeginAgrees
<1> QED
  BY <1>1, <1>2, <1>3, <1>4 DEF Reading, Ended

LEMMA SweptKeeps ==
  ASSUME IInv, NEW r \in Ids, Swept(r)
  PROVE  IInv'
<1> DEFINE w == "watch"
<1>1. w \in Workers /\ r \in Created
  BY DEF Workers, Swept, Actionable
<1>2. at' = [at EXCEPT ![w] = Reading(r)] /\ UNCHANGED <<runs, out, holds, upsets>>
  BY DEF Swept
<1>3. at'[w] = Reading(r)
  BY <1>1, <1>2 DEF IInv, TypeOK
<1>4. /\ Reading(r) \in {Idle} \cup Turns \cup Passes
      /\ TurnAgrees(w)' /\ PassAgrees(w)' /\ PassInOrder(w)' /\ (Deciding(w)' => at'[w].doc.seq # 0)
  BY <1>1, <1>2, <1>3, ReadingAgrees
<1>5. holds' \in BOOLEAN
  BY <1>2, Zenon DEF IInv, TypeOK
<1>6. upsets' \in 0 .. MaxUpsets /\ Admitting'
  BY <1>2, <1>4 DEF IInv, TypeOK, Admitting
<1> QED
  BY <1>1, <1>2, <1>4, <1>5, <1>6, PassOnlyKeeps

LEMMA ReadKeeps ==
  ASSUME IInv, NEW w \in Workers, Read(w)
  PROVE  IInv'
<1> SUFFICES ASSUME NEW r, r = at[w].run PROVE IInv'
    OBVIOUS
<1>1. r \in Created /\ runs[r].seq > 0
  BY DEF IInv, TurnAgrees, Read, Busy
<1>2. at' = [at EXCEPT ![w] = Reading(r)] /\ UNCHANGED <<runs, out, holds, upsets>>
  BY DEF Read, Goto
<1>3. at'[w] = Reading(r)
  BY <1>2 DEF IInv, TypeOK
<1>4. /\ Reading(r) \in {Idle} \cup Turns \cup Passes
      /\ TurnAgrees(w)' /\ PassAgrees(w)' /\ PassInOrder(w)' /\ (Deciding(w)' => at'[w].doc.seq # 0)
  BY <1>1, <1>2, <1>3, ReadingAgrees
<1>5. holds' \in BOOLEAN
  BY <1>2, Zenon DEF IInv, TypeOK
<1>6. upsets' \in 0 .. MaxUpsets /\ (w = "watch" => Admitting')
  BY <1>2, <1>4 DEF IInv, TypeOK, Admitting
<1> QED
  BY <1>2, <1>4, <1>5, <1>6, PassOnlyKeeps

LEMMA StartKeeps ==
  ASSUME IInv, NEW wf \in Workflows, Start(wf)
  PROVE  IInv'
<1>1. /\ Fresh \in Ids /\ runs' = [runs EXCEPT ![Fresh] = NewRow(wf, NoRun, 0)]
      /\ UNCHANGED <<out, at, holds, upsets>>
  BY DEF Start
<1>2. /\ runs' \in [Ids -> Row \cup {NoRow}] /\ Created' = Created \cup {Fresh}
      /\ InOrder' /\ RowsAgree' /\ RowsGoOn /\ GroupsStand /\ \A x \in Created : runs'[x] = runs[x]
  BY <1>1, RunCreated
<1>3. TypeOK'
  <2>1. holds' \in BOOLEAN
    BY <1>1, Zenon DEF IInv, TypeOK
  <2> QED
    BY <1>1, <1>2, <2>1 DEF IInv, TypeOK
<1>4. ASSUME NEW o \in Workers PROVE TurnAgrees(o)' /\ PassAgrees(o)' /\ PassInOrder(o)'
  <2>1. at'[o] = Touch({})[o]
    BY <1>1 DEF Touch
  <2>2. \A x \in Created : Alike(runs'[x], runs[x])
    BY <1>2 DEF Alike
  <2>3. at[o].pc = "admit" => runs'[at[o].run].seq = runs[at[o].run].seq
    BY <1>2 DEF IInv, TurnAgrees
  <2> QED
    BY <1>2, <2>1, <2>2, <2>3, OthersStay
<1>5. OneHolder' /\ Admitting'
  BY <1>1, <1>2, GroupsStay DEF IInv, Deciding
<1> QED
  BY <1>2, <1>3, <1>4, <1>5 DEF IInv

LEMMA RequestCancelKeeps ==
  ASSUME IInv, NEW r \in Ids, RequestCancel(r)
  PROVE  IInv'
<1>1. /\ r \in Created /\ runs' = [runs EXCEPT ![r] = AskedToCancel(runs[r])]
      /\ at' = Touch({r}) /\ upsets' = upsets + 1 /\ upsets < MaxUpsets /\ UNCHANGED <<out, holds>>
  BY DEF RequestCancel, IInv, TypeOK
<1> SUFFICES ASSUME NEW row, row = AskedToCancel(runs[r]) PROVE IInv'
    OBVIOUS
<1>2. /\ row \in Row /\ Alike(row, runs[r]) /\ row.group = runs[r].group /\ row.wake = runs[r].wake
      /\ runs[r] \in Row /\ runs[r].seq \in Nat
  BY <1>1, CreatedAre, AskedIs, RowHas DEF IInv
<1>3. OneWritten(r, row)
  BY <1>1, <1>2, ReplacedIs DEF IInv
<1>4. RowsGoOn
  <2>1. row.wf = runs[r].wf /\ row.caller = runs[r].caller /\ row.seq = runs[r].seq /\ row.state = runs[r].state
    BY <1>2 DEF Alike
  <2> QED
    BY <1>1, <1>2, <1>3, <2>1, WriteGoesOn DEF IInv
<1>5. RowAgrees(r)' /\ UnderWay(r)'
  BY <1>1, <1>2, <1>3, <1>4, RowStays DEF IInv, RowsAgree, OneWritten
<1> DEFINE w == "answers"
<1>6. /\ w \in Workers /\ at' = [o \in Workers |-> at'[o]]
      /\ \A o \in Workers : at'[o] = Touch({r})[o]
  BY <1>1 DEF Workers, Touch
<1>7. at[w].pc # "admit"
  BY <1>6 DEF IInv, TurnAgrees
<1>8. /\ TurnAgrees(w)' /\ PassAgrees(w)' /\ PassInOrder(w)'
      /\ at'[w] \in {Idle} \cup Turns \cup Passes
  <2>1. \A x \in Created : Alike(runs'[x], runs[x])
    BY <1>2, <1>3 DEF OneWritten
  <2> QED
    BY <1>4, <1>6, <1>7, <2>1, OthersStay
<1>9. OneHolder' /\ Admitting'
  <2>1. row.state = runs[r].state
    BY <1>2 DEF Alike
  <2> QED
    BY <1>1, <1>2, <1>3, <1>4, <1>6, <2>1, WriteLeavesGroups
<1>10. holds' \in BOOLEAN
  BY <1>1, Zenon DEF IInv, TypeOK
<1>11. upsets' \in 0 .. MaxUpsets
  BY <1>1, AdmissionAssumption DEF IInv, TypeOK
<1>12. out' \in [Ids -> SUBSET Nat] /\ \A x \in Ids : out'[x] = out[x]
  BY <1>1 DEF IInv, TypeOK
<1>13. r \in {r}
  OBVIOUS
<1> HIDE DEF w
<1> QED
  BY <1>1, <1>2, <1>3, <1>4, <1>5, <1>6, <1>8, <1>9, <1>10, <1>11, <1>12, <1>13, WriteKeeps

\* What is neither written nor stepped on agrees as it did.
LEMMA UntouchedStay ==
  ASSUME IInv, UNCHANGED <<runs, at>>
  PROVE  \A o \in Workers : TurnAgrees(o)' /\ PassAgrees(o)' /\ PassInOrder(o)'
<1>1. RowsGoOn
  <2>1. \A c \in Created : runs[c] \in Row /\ runs[c].seq \in Nat
    BY CreatedAre, RowHas DEF IInv
  <2>2. Created' = Created
    BY DEF Created
  <2> QED
    BY <2>1, <2>2 DEF RowsGoOn
<1>2. ASSUME NEW o \in Workers PROVE TurnAgrees(o)' /\ PassAgrees(o)' /\ PassInOrder(o)'
  <2>1. at'[o] = Touch({})[o]
    BY DEF Touch
  <2>2. \A x \in Created : Alike(runs'[x], runs[x])
    BY DEF Alike
  <2> QED
    BY <1>1, <2>1, <2>2, OthersStay
<1> QED
  BY <1>2

\* A grant revoked is no row's, nor a pass's.
LEMMA RevokeKeeps ==
  ASSUME IInv, Revoke
  PROVE  IInv'
<1>1. UNCHANGED <<runs, out, at>> /\ upsets' = upsets + 1 /\ upsets < MaxUpsets
  BY DEF Revoke
<1>2. holds' \in BOOLEAN
  BY DEF Revoke
<1>3. TypeOK'
  <2>1. upsets' \in 0 .. MaxUpsets
    BY <1>1, AdmissionAssumption DEF IInv, TypeOK
  <2> QED
    BY <1>1, <1>2, <2>1 DEF IInv, TypeOK
<1>4. Created' = Created
  BY <1>1 DEF Created
<1>5. InOrder' /\ OneHolder' /\ Admitting'
  BY <1>1, <1>4 DEF IInv, InOrder, OneHolder, Admitting, Deciding, Holding, Queued
<1>6. RowsAgree'
  BY <1>1, <1>4 DEF IInv, RowsAgree, RowAgrees, UnderWay, CalledWell, CalledBy, OutOf
<1>7. \A o \in Workers : TurnAgrees(o)' /\ PassAgrees(o)' /\ PassInOrder(o)'
  BY <1>1, UntouchedStay
<1> QED
  BY <1>3, <1>5, <1>6, <1>7 DEF IInv

\* A controller that dies leaves the rows, and the next one's goroutines are at rest.
LEMMA CrashKeeps ==
  ASSUME IInv, Crash
  PROVE  IInv'
<1>1. /\ UNCHANGED <<runs, out, holds>> /\ upsets' = upsets + 1 /\ upsets < MaxUpsets
      /\ at' = [w \in Workers |-> Idle]
  BY DEF Crash
<1>2. holds' \in BOOLEAN
  BY <1>1, Zenon DEF IInv, TypeOK
<1>3. TypeOK'
  <2>1. upsets' \in 0 .. MaxUpsets
    BY <1>1, AdmissionAssumption DEF IInv, TypeOK
  <2>2. at' \in [Workers -> {Idle} \cup Turns \cup Passes]
    BY <1>1
  <2> QED
    BY <1>1, <1>2, <2>1, <2>2 DEF IInv, TypeOK
<1>4. Created' = Created
  BY <1>1 DEF Created
<1>5. ASSUME NEW o \in Workers PROVE TurnAgrees(o)' /\ PassAgrees(o)' /\ PassInOrder(o)' /\ ~ Deciding(o)'
  BY <1>1, IdleAgrees
<1>6. InOrder' /\ OneHolder' /\ Admitting'
  BY <1>1, <1>4, <1>5 DEF IInv, InOrder, OneHolder, Admitting, Workers
<1>7. RowsAgree'
  BY <1>1, <1>4 DEF IInv, RowsAgree, RowAgrees, UnderWay, CalledWell, CalledBy, OutOf
<1> QED
  BY <1>3, <1>5, <1>6, <1>7 DEF IInv

\* A result recorded: the run is woken, and one less of its tasks is in flight and out.
LEMMA AnswerKeeps ==
  ASSUME IInv, NEW r \in Ids, NEW t \in out[r], NEW fate \in {"succeeded", "failed"}, Answer(r, t, fate)
  PROVE  IInv'
<1>1. TypeOK /\ RowsAgree
  BY DEF IInv
<1>2. /\ r \in Created /\ runs[r] \in Row /\ RowAgrees(r) /\ UnderWay(r)
  BY <1>1, CreatedAre DEF RowsAgree
<1>3. t \in DOMAIN runs[r].tasks /\ runs[r].seq > 0 /\ runs[r].seq \in Nat
  BY <1>2, RowHas DEF RowAgrees
<1>4. /\ out' \in [Ids -> SUBSET Nat] /\ out'[r] = out[r] \ {t}
      /\ \A x \in Ids : x # r => out'[x] = out[x]
  BY <1>1 DEF Answer, TypeOK
<1>5. holds' \in BOOLEAN
  BY Zenon DEF IInv, TypeOK, Answer
<1>6. upsets' \in 0 .. MaxUpsets
  BY DEF IInv, TypeOK, Answer
<1> DEFINE w == "answers"
<1>7. w \in Workers
  BY DEF Workers
<1>8. CASE Ended(runs[r]) \/ runs[r].tasks[t] \notin InFlight
  <2>1. UNCHANGED <<runs, at, holds, upsets>>
    BY <1>8 DEF Answer
  <2>2. Created' = Created
    BY <2>1 DEF Created
  <2>3. TypeOK'
    BY <1>4, <1>5, <1>6, <2>1 DEF IInv, TypeOK
  <2>4. RowAgrees(r)'
    BY <1>2, <1>4, <2>1, <2>2 DEF RowAgrees, CalledWell, CalledBy
  <2>5. UnderWay(r)'
    <3>1. runs[r].state \in Live => t \notin OutOf(r)
      BY <1>8 DEF OutOf, Ended, Over, Live
    <3> QED
      BY <1>2, <1>4, <2>1, <3>1 DEF UnderWay, OutOf
  <2>6. ASSUME NEW x \in Created, x # r PROVE RowAgrees(x)' /\ UnderWay(x)'
    <3>1. x \in Ids /\ out'[x] = out[x]
      BY <1>1, <1>4, <2>6, CreatedAre
    <3> QED
      BY <1>1, <2>1, <2>2, <3>1 DEF RowsAgree, RowAgrees, UnderWay, CalledWell, CalledBy, OutOf
  <2>7. RowsAgree'
    <3>1. \A x \in Ids \ Created : out'[x] = {}
      BY <1>1, <1>2, <1>4 DEF RowsAgree
    <3> QED
      BY <1>1, <2>1, <2>2, <2>4, <2>5, <2>6, <3>1 DEF RowsAgree
  <2>8. InOrder' /\ OneHolder' /\ Admitting'
    BY <2>1, <2>2 DEF IInv, InOrder, OneHolder, Admitting, Deciding, Holding, Queued
  <2>9. \A o \in Workers : TurnAgrees(o)' /\ PassAgrees(o)' /\ PassInOrder(o)'
    BY <2>1, UntouchedStay
  <2> QED
    BY <2>3, <2>7, <2>8, <2>9 DEF IInv
<1>9. CASE ~ (Ended(runs[r]) \/ runs[r].tasks[t] \notin InFlight)
  <2> SUFFICES ASSUME NEW row, row = AnsweredRow(runs[r], t, fate) PROVE IInv'
      OBVIOUS
  <2>1. /\ runs' = [runs EXCEPT ![r] = row]
        /\ at' = [Touch({r}) EXCEPT ![w] = To("read", r)]
    BY <1>1, <1>9 DEF Answer, AnsweredRow, TypeOK
  <2>2. /\ row \in Row /\ row.state = runs[r].state /\ row.wf = runs[r].wf /\ row.seq = runs[r].seq + 1
        /\ row.group = runs[r].group /\ row.caller = runs[r].caller /\ row.published = runs[r].published
        /\ row.call = runs[r].call /\ row.wake
        /\ DOMAIN row.tasks = DOMAIN runs[r].tasks /\ row.tasks[t] = fate
        /\ \A u \in DOMAIN runs[r].tasks : u # t => row.tasks[u] = runs[r].tasks[u]
    <3>1. fate \in Over
      BY DEF Over
    <3>2. /\ row \in Row /\ row.state = runs[r].state /\ row.wf = runs[r].wf
          /\ row.group = runs[r].group /\ row.caller = runs[r].caller /\ row.published = runs[r].published
          /\ row.call = runs[r].call
      BY <1>2, <1>3, <3>1, AnsweredRowIs
    <3>3. row.seq = runs[r].seq + 1
      BY <1>2, <1>3, <3>1, AnsweredRowIs
    <3>4. row.wake
      BY <1>2, <1>3, <3>1, AnsweredRowIs
    <3>5. /\ DOMAIN row.tasks = DOMAIN runs[r].tasks /\ row.tasks[t] = fate
          /\ \A u \in DOMAIN runs[r].tasks : u # t => row.tasks[u] = runs[r].tasks[u]
      BY <1>2, <1>3, <3>1, AnsweredRowIs
    <3> QED
      BY <3>2, <3>3, <3>4, <3>5
  <2>3. OneWritten(r, row)
    BY <1>1, <1>2, <2>1, <2>2, ReplacedIs
  <2>4. runs[r].seq <= row.seq /\ row.seq > runs[r].seq /\ row.seq > 0 /\ row.seq # 0 /\ runs[r].seq # 0
    BY <1>3, <2>2
  <2>5. RowsGoOn
    BY <1>1, <1>2, <2>2, <2>3, <2>4, WriteGoesOn
  <2>6. runs'[r] = row /\ Created' = Created
    BY <2>3 DEF OneWritten
  <2>7. RowAgrees(r)'
    <3>1. \A u \in DOMAIN row.tasks : row.tasks[u] = fate \/ row.tasks[u] = runs[r].tasks[u]
      BY <2>2
    <3>2. /\ DOMAIN row.tasks = 1 .. TasksOf[row.wf] /\ row.published \cup out'[r] \subseteq DOMAIN row.tasks
          /\ (row.seq = 0 <=> row.state = "queued")
      BY <1>2, <1>4, <2>2, <2>4 DEF RowAgrees
    <3>3. row.state # "cancelled" =>
            row.call # "cancelled" /\ \A u \in DOMAIN row.tasks : row.tasks[u] # "cancelled"
      BY <1>2, <2>2, <3>1 DEF RowAgrees
    <3>4. CalledWell(r) => CalledWell(r)'
      BY <2>5, CalledWellStays
    <3> QED
      BY <1>2, <2>2, <2>4, <2>6, <3>2, <3>3, <3>4 DEF RowAgrees
  <2>8. UnderWay(r)'
    <3>1. fate \notin InFlight
      BY DEF InFlight
    <3>2. runs[r].state \in Live => OutOf(r)' \subseteq out'[r]
      BY <1>2, <1>4, <2>2, <2>6, <3>1 DEF UnderWay, OutOf, RowAgrees
    <3> QED
      BY <2>2, <2>6, <3>2 DEF UnderWay
  <2>9. /\ at'[w] = To("read", r) /\ at' = [o \in Workers |-> at'[o]]
        /\ \A o \in Workers : o # w => at'[o] = Touch({r})[o]
    BY <1>7, <2>1, TouchedExcept
  <2>10. at'[w] \in Turns /\ at'[w].pc = "read" /\ at'[w].run = r
    BY <2>9 DEF To, Turns
  <2>11. TurnAgrees(w)' /\ PassAgrees(w)' /\ PassInOrder(w)'
    BY <1>2, <2>4, <2>6, <2>10 DEF TurnAgrees, PassAgrees, PassInOrder, Deciding
  <2>12. OneHolder' /\ Admitting'
    BY <1>2, <1>7, <2>2, <2>3, <2>5, <2>9, WriteLeavesGroups
  <2>13. r \in {r}
    OBVIOUS
  <2> HIDE DEF w
  <2> QED
    BY <1>2, <1>3, <1>4, <1>5, <1>6, <1>7, <2>2, <2>3, <2>4, <2>5, <2>7, <2>8, <2>9, <2>10, <2>11, <2>12,
       <2>13, WriteKeeps
<1> QED
  BY <1>8, <1>9

\* A goroutine that leaves its pass changes nothing else.
LEMMA LeaveKeeps ==
  ASSUME IInv, NEW w \in Workers, Goto(w, Idle), UNCHANGED <<runs, out, holds, upsets>>
  PROVE  IInv'
<1>1. at' = [at EXCEPT ![w] = Idle] /\ at'[w] = Idle
  BY DEF Goto, IInv, TypeOK
<1>2. /\ TurnAgrees(w)' /\ PassAgrees(w)' /\ PassInOrder(w)' /\ ~ Deciding(w)'
      /\ Idle \in {Idle} \cup Turns \cup Passes
  BY <1>1, IdleAgrees
<1>3. holds' \in BOOLEAN
  BY Zenon DEF IInv, TypeOK
<1>4. upsets' \in 0 .. MaxUpsets /\ (w = "watch" => Admitting')
  BY <1>2 DEF IInv, TypeOK, Admitting
<1> QED
  BY <1>1, <1>2, <1>3, <1>4, PassOnlyKeeps

\* A run cancelled is over, and hands its group on.
LEMMA CancelKeeps ==
  ASSUME IInv, NEW w \in Workers, Cancel(w)
  PROVE  IInv'
<1>0. SUFFICES ASSUME NEW r, r = at[w].run, NEW row, row = CancelRow(runs[r]) PROVE IInv'
    OBVIOUS
<1>1. TypeOK /\ RowsAgree
  BY DEF IInv
<1>2. UNCHANGED <<out, holds, upsets>>
  BY DEF Cancel
<1>3. at[w].pc \in {"cancel", "refuse"}
  BY DEF Cancel, Busy
<1>4. r \in Created /\ (w = "answers" => runs[r].seq > 0)
  BY <1>0, <1>3 DEF IInv, TurnAgrees
<1>5. CASE Goto(w, Idle) /\ UNCHANGED runs
  BY <1>2, <1>5, LeaveKeeps
<1>6. CASE /\ ~ Ended(runs[r]) /\ runs' = Written(r, row)
           /\ at' = [Touch({r} \cup Told(r, row)) EXCEPT ![w] = Idle]
  <2>1. runs[r] \in Row /\ runs[r].seq \in Nat /\ RowAgrees(r) /\ r \in Ids
    BY <1>1, <1>4, CreatedAre, RowHas DEF RowsAgree
  <2>2. /\ row \in Row /\ row.state = "cancelled" /\ row.wf = runs[r].wf
        /\ row.group = runs[r].group /\ row.caller = runs[r].caller /\ row.published = runs[r].published
    BY <1>0, <2>1, CancelRowIs
  <2>3. row.seq = runs[r].seq + 1
    BY <1>0, <2>1, CancelRowIs
  <2>4. DOMAIN row.tasks = DOMAIN runs[r].tasks
    BY <1>0, <2>1, CancelRowIs
  <2>5. row.call = runs[r].call \/ (row.call = "cancelled" /\ runs[r].call \in {"waiting", "dispatched"})
    BY <1>0, <2>1, CancelRowIs
  <2>6. OneWritten(r, row)
    BY <1>1, <1>4, <1>6, <2>2, WrittenIs
  <2>7. runs[r].seq <= row.seq /\ row.seq > runs[r].seq /\ row.seq > 0 /\ row.seq # 0
    BY <2>1, <2>3
  <2>8. runs[r].state # "succeeded"
    BY <1>6 DEF Ended, Over
  <2>9. RowsGoOn
    BY <1>1, <1>4, <2>2, <2>6, <2>7, <2>8, WriteGoesOn
  <2>10. runs'[r] = row /\ Created' = Created
    BY <2>6 DEF OneWritten
  <2>11. RowAgrees(r)'
    <3>1. CalledWell(r) => CalledWell(r)'
      BY <2>9, CalledWellStays
    <3>2. row.call = "none" <=> runs[r].call = "none"
      BY <2>5
    <3>3. row.call = "succeeded" => runs[r].call = "succeeded"
      BY <2>5
    <3> QED
      BY <1>2, <2>1, <2>2, <2>4, <2>7, <2>10, <3>1, <3>2, <3>3 DEF RowAgrees
  <2>12. UnderWay(r)'
    BY <2>2, <2>10 DEF UnderWay, Live
  <2> DEFINE S == {r} \cup Told(r, row)
  <2>13. /\ at'[w] = Idle /\ at' = [o \in Workers |-> at'[o]] /\ r \in S
         /\ \A o \in Workers : o # w => at'[o] = Touch(S)[o]
    BY <1>6, TouchedExcept
  <2> HIDE DEF S
  <2>14. /\ TurnAgrees(w)' /\ PassAgrees(w)' /\ PassInOrder(w)' /\ ~ Deciding(w)'
         /\ at'[w] \in {Idle} \cup Turns \cup Passes
    BY <2>13, IdleAgrees
  <2>15. OneHolder' /\ Admitting'
    BY <1>4, <2>2, <2>6, <2>9, <2>13, <2>14, WriteLeavesGroups
  <2>16. holds' \in BOOLEAN
    BY <1>1, <1>2, Zenon DEF TypeOK
  <2>17. upsets' \in 0 .. MaxUpsets /\ out' \in [Ids -> SUBSET Nat] /\ \A x \in Ids : out'[x] = out[x]
    BY <1>1, <1>2 DEF TypeOK
  <2> QED
    BY <1>4, <2>2, <2>4, <2>6, <2>7, <2>9, <2>11, <2>12, <2>13, <2>14, <2>15, <2>16, <2>17, WriteKeeps
<1> QED
  BY <1>0, <1>5, <1>6 DEF Cancel

\* A run's group stamped on it.
InGroup(row, g) == [row EXCEPT !.group = g]

LEMMA InGroupIs ==
  ASSUME NEW was \in Row, NEW v \in Workflows, NEW row, row = InGroup(was, GroupOf[v])
  PROVE  row \in Row /\ Alike(row, was) /\ row.group = GroupOf[v] /\ (row.wake <=> was.wake)
  BY DEF InGroup, Row, Alike

\* A run is let in by the watch alone, while nobody holds its group and none queues before it.
LEMMA AdmittedKeeps ==
  ASSUME IInv, NEW w \in Workers, Admitted(w)
  PROVE  IInv'
<1>0. SUFFICES ASSUME NEW r, r = at[w].run, NEW g, g = GroupOf[runs[r].wf], NEW row, row = InGroup(runs[r], g)
                 PROVE  IInv'
    OBVIOUS
<1>1. TypeOK /\ RowsAgree
  BY DEF IInv
<1>2. UNCHANGED <<out, holds, upsets>>
  BY SMTT(30) DEF Admitted
<1>3. w = "watch" /\ r \in Created /\ runs[r].seq = 0
  BY <1>0 DEF IInv, TurnAgrees, Admitted, Busy
<1>4. /\ runs[r] \in Row /\ runs[r].seq \in Nat /\ runs[r].wf \in Workflows /\ r \in Ids
      /\ RowAgrees(r) /\ UnderWay(r)
  BY <1>1, <1>3, CreatedAre, RowHas DEF RowsAgree
<1>5. row \in Row /\ Alike(row, runs[r]) /\ row.group = g /\ (row.wake <=> runs[r].wake)
  BY <1>0, <1>4, InGroupIs
<1>6. runs' = [runs EXCEPT ![r] = row]
  BY <1>0, <1>1, <1>4 DEF Admitted, InGroup, TypeOK
<1>7. OneWritten(r, row)
  BY <1>1, <1>3, <1>5, <1>6, ReplacedIs
<1>8. RowsGoOn
  <2>1. row.wf = runs[r].wf /\ row.caller = runs[r].caller /\ row.seq = runs[r].seq /\ row.state = runs[r].state
    BY <1>5 DEF Alike
  <2>2. runs[r].seq \in Nat
    BY <1>4
  <2>3. runs[r].seq <= row.seq
    BY <2>1, <2>2
  <2>4. row \in Row /\ r \in Created
    BY <1>3, <1>5
  <2> QED
    BY <1>1, <1>7, <2>1, <2>3, <2>4, WriteGoesOn
<1>9. runs'[r] = row /\ Created' = Created
  BY <1>7 DEF OneWritten
<1>10. runs[r].state = "queued" /\ row.state = "queued"
  BY <1>3, <1>4, <1>5 DEF RowAgrees, Alike
<1>11. RowAgrees(r)' /\ UnderWay(r)'
  BY <1>2, <1>3, <1>4, <1>5, <1>8, <1>9, RowStays
<1>12. \E q : /\ at' = [Touch({r}) EXCEPT ![w] = q]
              /\ \/ q = Idle
                 \/ \E h \in Holding(g) : q = To("cancel", h)
                 \/ /\ q = Pass("calls", r, TRUE)
                    /\ g # NoGroup => Holding(g) = {} /\ NextInLine(r, Queued(g) \cup {r})
  <2>1. g # NoGroup /\ Holding(g) # {} => (CHOOSE h \in Holding(g) : TRUE) \in Holding(g)
    OBVIOUS
  <2> DEFINE q == IF g # NoGroup /\ Holding(g) # {}
                  THEN IF runs[r].wf \in CancelInProgress
                       THEN To("cancel", CHOOSE h \in Holding(g) : TRUE)
                       ELSE Idle
                  ELSE IF (g = NoGroup \/ NextInLine(r, Queued(g) \cup {r})) /\ Slots > 0
                       THEN Pass("calls", r, TRUE)
                       ELSE Idle
  <2>2. at' = [Touch({r}) EXCEPT ![w] = q]
    BY <1>0 DEF Admitted
  <2>3. \/ q = Idle
        \/ \E h \in Holding(g) : q = To("cancel", h)
        \/ /\ q = Pass("calls", r, TRUE)
           /\ g # NoGroup => Holding(g) = {} /\ NextInLine(r, Queued(g) \cup {r})
    BY <2>1
  <2> QED
    BY <2>2, <2>3
<1>13. PICK q : /\ at' = [Touch({r}) EXCEPT ![w] = q]
                /\ \/ q = Idle
                   \/ \E h \in Holding(g) : q = To("cancel", h)
                   \/ /\ q = Pass("calls", r, TRUE)
                      /\ g # NoGroup => Holding(g) = {} /\ NextInLine(r, Queued(g) \cup {r})
  BY <1>12
<1>14. /\ at'[w] = q /\ at' = [o \in Workers |-> at'[o]]
       /\ \A o \in Workers : o # w => at'[o] = Touch({r})[o]
  BY <1>13, TouchedExcept
<1>15. OneHolder'
  <2>1. \A a \in Created' : runs'[a].state = "running" =>
          a \in Created /\ runs[a].state = "running" /\ runs'[a].group = runs[a].group
    BY <1>7, <1>9, <1>10 DEF OneWritten, Alike
  <2> QED
    BY <2>1 DEF IInv, OneHolder
<1>16. /\ at'[w] \in {Idle} \cup Turns \cup Passes
       /\ TurnAgrees(w)' /\ PassAgrees(w)' /\ PassInOrder(w)' /\ Admitting'
  <2>1. CASE q = Idle
    BY <1>3, <1>14, <2>1, IdleAgrees DEF Admitting
  <2>2. CASE \E h \in Holding(g) : q = To("cancel", h)
    <3>1. PICK h \in Holding(g) : q = To("cancel", h)
      BY <2>2
    <3>2. h \in Created /\ h \in Ids
      BY <1>1, CreatedAre DEF Holding
    <3>3. at'[w] \in Turns /\ at'[w].pc = "cancel" /\ at'[w].run = h
      BY <1>14, <3>1, <3>2 DEF To, Turns
    <3> QED
      BY <1>3, <1>9, <3>2, <3>3 DEF TurnAgrees, PassAgrees, PassInOrder, Deciding, Admitting
  <2>3. CASE /\ q = Pass("calls", r, TRUE)
             /\ g # NoGroup => Holding(g) = {} /\ NextInLine(r, Queued(g) \cup {r})
    <3>1. runs[r].state \in Live /\ at'[w] = Pass("calls", r, TRUE) /\ TRUE \in BOOLEAN
      BY <1>10, <1>14, <2>3 DEF Live
    <3>2. /\ at'[w] \in {Idle} \cup Turns \cup Passes
          /\ TurnAgrees(w)' /\ PassAgrees(w)' /\ PassInOrder(w)'
          /\ Deciding(w)' /\ at'[w].run = r /\ at'[w].doc = runs[r]
      BY <1>3, <1>5, <1>8, <1>9, <3>1, BeginAgrees
    <3>3. ASSUME g # NoGroup PROVE Holding(g)' = {} /\ \A x \in Queued(g)' : r <= x
      <4>1. Holding(g) = {} /\ \A x \in Queued(g) \cup {r} : r <= x
        BY <2>3, <3>3 DEF NextInLine
      <4>2. Holding(g)' = {}
        BY <1>7, <1>9, <1>10, <4>1 DEF Holding, OneWritten, Alike
      <4>3. \A x \in Queued(g)' : x \in Queued(g) \cup {r}
        BY <1>7, <1>9 DEF Queued, OneWritten, Alike
      <4> QED
        BY <4>1, <4>2, <4>3
    <3>4. Admitting'
      BY <1>3, <1>5, <1>9, <3>2, <3>3 DEF Admitting
    <3> QED
      BY <3>2, <3>4
  <2> QED
    BY <1>13, <2>1, <2>2, <2>3
<1>17. holds' \in BOOLEAN
  BY <1>1, <1>2, Zenon DEF TypeOK
<1>18. upsets' \in 0 .. MaxUpsets /\ out' \in [Ids -> SUBSET Nat] /\ \A x \in Ids : out'[x] = out[x]
  BY <1>1, <1>2 DEF TypeOK
<1>19. PICK S : S = {r}
  OBVIOUS
<1>20. \A o \in Workers : o # w => at'[o] = Touch(S)[o]
  BY <1>14, <1>19
<1>21. at' = [o \in Workers |-> at'[o]]
  BY <1>14
<1>22. r \in Created /\ row \in Row /\ Alike(row, runs[r])
  BY <1>3, <1>5
<1>23. \A x \in Ids : x # r => out'[x] = out[x]
  BY <1>18
<1> QED
  BY <1>7, <1>8, <1>11, <1>15, <1>16, <1>17, <1>18, <1>20, <1>21, <1>22, <1>23, WriteKeeps

\* A pass that looks to its call: its document is as it was, but for the word on the call.
LEMMA CallStepAgrees ==
  ASSUME IInv, NEW w \in Workers, at[w].pc \in {"calls", "ask", "create"}, NEW q \in Passes, at'[w] = q,
         RowsGoOn, Alike(runs'[at[w].run], runs[at[w].run]),
         q.pc \in {"calls", "ask", "create", "quota"}, q.run = at[w].run, q.start = at[w].start,
         q.touched <=> at[w].touched, WithCall(q.doc, at[w].doc, q.doc.call),
         q.changed \/ q.doc.call = at[w].doc.call, q.pc \in {"calls", "ask", "create"} => ~ q.changed,
         q.pc \in {"ask", "create"} => Reached(q.doc), q.pc = "quota" => ~ Reached(q.doc),
         q.doc.call # "cancelled", q.doc.call = "none" <=> at[w].doc.call = "none",
         q.doc.call = "succeeded" => CalledWell(at[w].run)'
  PROVE  TurnAgrees(w)' /\ PassAgrees(w)' /\ PassInOrder(w)' /\ Deciding(w) /\ Deciding(w)'
         /\ at'[w].doc.seq = at[w].doc.seq /\ at'[w].run = at[w].run
<1> SUFFICES ASSUME NEW r, r = at[w].run, NEW was, was = at[w].doc, NEW doc, doc = q.doc
             PROVE  TurnAgrees(w)' /\ PassAgrees(w)' /\ PassInOrder(w)' /\ Deciding(w) /\ Deciding(w)'
                    /\ at'[w].doc.seq = at[w].doc.seq /\ at'[w].run = at[w].run
    OBVIOUS
<1>1. Deciding(w) /\ Deciding(w)'
  BY DEF Deciding
<1>2. /\ doc.state = was.state /\ doc.wf = was.wf /\ doc.seq = was.seq /\ doc.caller = was.caller
      /\ doc.tasks = was.tasks
  BY DEF WithCall
<1>3. TurnAgrees(w)'
  BY <1>1 DEF TurnAgrees, Deciding
<1>4. PassInOrder(w)'
  BY <1>1, <1>2 DEF IInv, PassInOrder
<1>5. /\ r \in Created /\ was.wf = runs[r].wf /\ was.caller = runs[r].caller
      /\ DOMAIN was.tasks = DOMAIN runs[r].tasks /\ was.seq <= runs[r].seq
      /\ was.seq = runs[r].seq =>
           /\ runs[r].state = IF was.seq = 0 THEN "queued" ELSE "running"
           /\ was.tasks = runs[r].tasks
           /\ ~at[w].changed => was.call = runs[r].call
      /\ ~at[w].touched => was.seq = runs[r].seq
      /\ was.seq = 0 => w = "watch"
      /\ ~at[w].changed
  BY <1>1 DEF IInv, PassAgrees, PassInOrder
<1>6. /\ runs'[r].state = runs[r].state /\ runs'[r].wf = runs[r].wf /\ runs'[r].seq = runs[r].seq
      /\ runs'[r].caller = runs[r].caller /\ runs'[r].tasks = runs[r].tasks
      /\ runs'[r].call = runs[r].call /\ r \in Created'
  BY <1>5 DEF Alike, RowsGoOn
<1>7. PassAgrees(w)'
  BY <1>1, <1>2, <1>5, <1>6 DEF PassAgrees
<1> QED
  BY <1>1, <1>2, <1>3, <1>4, <1>7

\* The same, where no row is written.
LEMMA CallStepKeeps ==
  ASSUME IInv, NEW w \in Workers, at[w].pc \in {"calls", "ask", "create"}, NEW q \in Passes,
         Goto(w, q), UNCHANGED <<runs, out, holds, upsets>>,
         q.pc \in {"calls", "ask", "create", "quota"}, q.run = at[w].run, q.start = at[w].start,
         q.touched <=> at[w].touched, WithCall(q.doc, at[w].doc, q.doc.call),
         q.changed \/ q.doc.call = at[w].doc.call, q.pc \in {"calls", "ask", "create"} => ~ q.changed,
         q.pc \in {"ask", "create"} => Reached(q.doc), q.pc = "quota" => ~ Reached(q.doc),
         q.doc.call # "cancelled", q.doc.call = "none" <=> at[w].doc.call = "none",
         q.doc.call = "succeeded" => CalledWell(at[w].run)
  PROVE  IInv'
<1>1. at' = [at EXCEPT ![w] = q] /\ at'[w] = q
  BY DEF Goto, IInv, TypeOK
<1>2. Created' = Created
  BY DEF Created
<1>3. RowsGoOn
  <2>1. \A c \in Created : runs[c] \in Row /\ runs[c].seq \in Nat
    BY CreatedAre, RowHas DEF IInv
  <2> QED
    BY <1>2, <2>1 DEF RowsGoOn
<1>4. Alike(runs'[at[w].run], runs[at[w].run])
  BY DEF Alike
<1>5. CalledWell(at[w].run) => CalledWell(at[w].run)'
  <2>1. \A x : CalledWell(x) => CalledWell(x)'
    BY <1>3, CalledWellStays
  <2> QED
    BY <1>1, <2>1
<1>6. /\ TurnAgrees(w)' /\ PassAgrees(w)' /\ PassInOrder(w)' /\ Deciding(w) /\ Deciding(w)'
      /\ at'[w].doc.seq = at[w].doc.seq /\ at'[w].run = at[w].run
  BY <1>1, <1>3, <1>4, <1>5, CallStepAgrees
<1>7. w = "watch" => Admitting'
  BY <1>2, <1>6 DEF IInv, Admitting, Holding, Queued
<1>8. holds' \in BOOLEAN
  BY Zenon DEF IInv, TypeOK
<1>9. upsets' \in 0 .. MaxUpsets
  BY DEF IInv, TypeOK
<1> QED
  BY <1>1, <1>6, <1>7, <1>8, <1>9, PassOnlyKeeps

\* A call whose ending is found, or that cannot be made, is over.
LEMMA EndedCallKeeps ==
  ASSUME IInv, NEW w \in Workers, at[w].pc \in {"calls", "ask", "create"},
         at[w].doc.call \in {"waiting", "dispatched"},
         NEW as \in {"succeeded", "failed"}, as = "succeeded" => CalledWell(at[w].run),
         Goto(w, EndedCall(at[w], as)), UNCHANGED <<runs, out, holds, upsets>>
  PROVE  IInv'
<1> SUFFICES ASSUME NEW p, p = at[w], NEW q, q = EndedCall(p, as) PROVE IInv'
    OBVIOUS
<1>1. p \in Passes
  BY WorkerIs DEF IInv, Deciding
<1>2. /\ q \in Passes /\ q.pc = "quota" /\ q.run = p.run /\ q.changed /\ q.start = p.start
      /\ (q.touched <=> p.touched) /\ WithCall(q.doc, p.doc, as)
  BY <1>1, EndedCallIs
<1>3. q.doc.call = as /\ ~ Reached(q.doc)
  BY <1>2 DEF WithCall, Reached
<1> QED
  BY <1>2, <1>3, CallStepKeeps

\* A pass that goes on with its document as it is.
LEMMA TurnsToKeeps ==
  ASSUME IInv, NEW w \in Workers, at[w].pc \in {"calls", "ask", "create"}, NEW pc \in {"calls", "ask", "create", "quota"},
         pc \in {"ask", "create"} => Reached(at[w].doc), pc = "quota" => ~ Reached(at[w].doc),
         Goto(w, [at[w] EXCEPT !.pc = pc]), UNCHANGED <<runs, out, holds, upsets>>
  PROVE  IInv'
<1> SUFFICES ASSUME NEW p, p = at[w], NEW q, q = [p EXCEPT !.pc = pc] PROVE IInv'
    OBVIOUS
<1>1. p \in Passes
  BY WorkerIs DEF IInv, Deciding
<1>2. /\ q \in Passes /\ q.pc = pc /\ q.run = p.run /\ (q.changed <=> p.changed) /\ q.start = p.start
      /\ (q.touched <=> p.touched) /\ q.doc = p.doc
  BY <1>1, PassTurnsTo
<1>3. /\ WithCall(q.doc, p.doc, q.doc.call) /\ q.doc.call # "cancelled" /\ ~ p.changed
      /\ q.doc.call = "succeeded" => CalledWell(p.run)
  BY <1>2 DEF WithCall, IInv, PassInOrder, PassAgrees, Deciding
<1> QED
  BY <1>2, <1>3, CallStepKeeps

LEMMA CallsKeeps ==
  ASSUME IInv, NEW w \in Workers, Calls(w)
  PROVE  IInv'
<1> SUFFICES ASSUME NEW p, p = at[w], NEW r, r = at[w].run PROVE IInv'
    OBVIOUS
<1>1. /\ at[w].pc \in {"calls", "ask", "create"} /\ UNCHANGED <<runs, out, holds, upsets>> /\ p \in Passes
      /\ TypeOK
  BY WorkerIs DEF Calls, Busy, IInv, Deciding
<1>2. CASE p.doc.call = "dispatched"
  <2>1. ~ Reached(p.doc)
    BY <1>2 DEF Reached
  <2>2. Goto(w, Returned(p))
    BY <1>2, <2>1 DEF Calls
  <2> DEFINE over == {c \in CalledBy(r) : Ended(runs[c])}
  <2>3. CASE over = {}
    <3>1. Goto(w, [p EXCEPT !.pc = "quota"])
      BY <2>2, <2>3 DEF Returned
    <3> QED
      BY <1>1, <2>1, <3>1, TurnsToKeeps
  <2>4. CASE over # {} /\ \E c \in over : runs[c].state = "succeeded"
    <3>1. Goto(w, EndedCall(p, "succeeded"))
      BY <2>2, <2>4 DEF Returned
    <3>2. CalledWell(r)
      BY <2>4 DEF CalledWell
    <3> QED
      BY <1>1, <1>2, <3>1, <3>2, EndedCallKeeps
  <2>5. CASE over # {} /\ ~ \E c \in over : runs[c].state = "succeeded"
    <3>1. Goto(w, EndedCall(p, "failed"))
      BY <2>2, <2>5 DEF Returned
    <3> QED
      BY <1>1, <1>2, <3>1, EndedCallKeeps
  <2> QED
    BY <2>3, <2>4, <2>5
<1>3. CASE p.doc.call # "dispatched" /\ Reached(p.doc)
  <2>1. Goto(w, Call(p)) /\ p.doc.call = "waiting"
    BY <1>3 DEF Calls, Reached
  <2>2. CASE CalledBy(r) # {}
    <3> SUFFICES ASSUME NEW c, c = (CHOOSE x \in CalledBy(r) : TRUE), NEW q, q = Dispatched(p, c) PROVE IInv'
        OBVIOUS
    <3>1. c \in Ids
      BY <1>1, <2>2, CreatedAre DEF CalledBy
    <3>2. /\ q \in Passes /\ q.pc = "quota" /\ q.run = p.run /\ q.changed /\ q.start = p.start
          /\ (q.touched <=> p.touched) /\ WithCall(q.doc, p.doc, "dispatched")
      BY <1>1, <3>1, DispatchedIs
    <3>3. q.doc.call = "dispatched" /\ ~ Reached(q.doc)
      BY <3>2 DEF WithCall, Reached
    <3>4. Goto(w, q)
      BY <2>1, <2>2 DEF Call
    <3> QED
      BY <1>1, <2>1, <3>2, <3>3, <3>4, CallStepKeeps
  <2>3. CASE Goto(w, EndedCall(p, "failed"))
    BY <1>1, <2>1, <2>3, EndedCallKeeps
  <2>4. CASE Goto(w, [p EXCEPT !.pc = "ask"])
    BY <1>1, <1>3, <2>4, TurnsToKeeps
  <2> QED
    BY <2>1, <2>2, <2>3, <2>4 DEF Call
<1>4. CASE p.doc.call # "dispatched" /\ ~ Reached(p.doc)
  <2>1. Goto(w, [p EXCEPT !.pc = "quota"])
    BY <1>4 DEF Calls
  <2> QED
    BY <1>1, <1>4, <2>1, TurnsToKeeps
<1> QED
  BY <1>2, <1>3, <1>4

\* A call that the principal may make goes on to be made, and any other is over.
LEMMA AskKeeps ==
  ASSUME IInv, NEW w \in Workers, Ask(w)
  PROVE  IInv'
<1> SUFFICES ASSUME NEW p, p = at[w] PROVE IInv'
    OBVIOUS
<1>1. /\ at[w].pc \in {"calls", "ask", "create"} /\ UNCHANGED <<runs, out, holds, upsets>>
      /\ Deciding(w)
  BY DEF Ask, Busy, Deciding
<1>2. Reached(p.doc) /\ p.doc.call = "waiting"
  BY <1>1 DEF Ask, Busy, IInv, PassInOrder, Reached
<1>3. CASE Goto(w, [p EXCEPT !.pc = "create"])
  BY <1>1, <1>2, <1>3, TurnsToKeeps
<1>4. CASE Goto(w, EndedCall(p, "failed"))
  BY <1>1, <1>2, <1>4, EndedCallKeeps
<1> QED
  BY <1>3, <1>4 DEF Ask

\* One dispatch calls one run: a pass that finds the hour full fails the call, and one that does
\* not looks for the first run in the transaction that would make the second.
LEMMA CreateKeeps ==
  ASSUME IInv, NEW w \in Workers, Create(w)
  PROVE  IInv'
<1> SUFFICES ASSUME NEW p, p = at[w], NEW r, r = at[w].run PROVE IInv'
    OBVIOUS
<1>1. /\ at[w].pc \in {"calls", "ask", "create"} /\ UNCHANGED <<out, holds, upsets>> /\ p \in Passes /\ TypeOK
      /\ Deciding(w)
  BY WorkerIs DEF Create, Busy, IInv, Deciding
<1>2. Reached(p.doc) /\ p.doc.call = "waiting" /\ r \in Created /\ r \in Ids /\ p.doc \in Row
  BY <1>1, WorkerIs DEF Create, Busy, IInv, PassInOrder, PassAgrees, Reached
<1>3. CASE Goto(w, [p EXCEPT !.pc = "calls"]) /\ UNCHANGED runs
  BY <1>1, <1>3, TurnsToKeeps
<1>4. CASE Goto(w, EndedCall(p, "failed")) /\ UNCHANGED runs
  BY <1>1, <1>2, <1>4, EndedCallKeeps
<1>5. CASE /\ CalledBy(r) = {} /\ Fresh \in Ids
           /\ runs' = [runs EXCEPT ![Fresh] = NewRow(CalleeOf[p.doc.wf], r, p.doc.depth + 1)]
           /\ Goto(w, Dispatched(p, Fresh))
  <2> SUFFICES ASSUME NEW q, q = Dispatched(p, Fresh) PROVE IInv'
      OBVIOUS
  <2>1. CalleeOf[p.doc.wf] \in Workflows
    <3>1. p.doc.wf \in Workflows
      BY <1>2, RowHas
    <3>2. CalleeOf[p.doc.wf] # NoWorkflow
      BY <1>1, <1>2 DEF IInv, PassInOrder
    <3> QED
      BY <3>1, <3>2, AdmissionAssumption
  <2>2. p.doc.depth + 1 \in Nat
    BY <1>2, RowHas
  <2>3. /\ runs' \in [Ids -> Row \cup {NoRow}] /\ Created' = Created \cup {Fresh}
        /\ InOrder' /\ RowsAgree' /\ RowsGoOn /\ GroupsStand /\ \A x \in Created : runs'[x] = runs[x]
    <3>1. r \in Ids \cup {NoRun} /\ out' = out
      BY <1>1, <1>2
    <3> QED
      BY <1>2, <1>5, <2>1, <2>2, <3>1, RunCreated
  <2>4. /\ q \in Passes /\ q.pc = "quota" /\ q.run = p.run /\ q.changed /\ q.start = p.start
        /\ (q.touched <=> p.touched) /\ WithCall(q.doc, p.doc, "dispatched")
    BY <1>1, <1>5, DispatchedIs
  <2>5. q.doc.call = "dispatched" /\ ~ Reached(q.doc)
    BY <2>4 DEF WithCall, Reached
  <2>6. /\ at' = [at EXCEPT ![w] = q] /\ at'[w] = q /\ \A o \in Workers : o # w => at'[o] = at[o]
        /\ at' \in [Workers -> {Idle} \cup Turns \cup Passes]
    BY <1>1, <1>5, <2>4 DEF Goto, TypeOK
  <2>7. Alike(runs'[at[w].run], runs[at[w].run])
    BY <1>2, <2>3 DEF Alike
  <2>8. /\ TurnAgrees(w)' /\ PassAgrees(w)' /\ PassInOrder(w)' /\ Deciding(w) /\ Deciding(w)'
        /\ at'[w].doc.seq = at[w].doc.seq /\ at'[w].run = at[w].run
    BY <1>1, <1>2, <2>3, <2>4, <2>5, <2>6, <2>7, CallStepAgrees
  <2>9. ASSUME NEW o \in Workers, o # w PROVE TurnAgrees(o)' /\ PassAgrees(o)' /\ PassInOrder(o)'
    <3>1. at'[o] = Touch({})[o]
      BY <2>6, <2>9 DEF Touch
    <3>2. \A x \in Created : Alike(runs'[x], runs[x])
      BY <2>3 DEF Alike
    <3>3. at[o].pc = "admit" => runs'[at[o].run].seq = runs[at[o].run].seq
      BY <2>3 DEF IInv, TurnAgrees
    <3> QED
      BY <2>3, <3>1, <3>2, <3>3, OthersStay
  <2>10. TypeOK'
    <3>1. holds' \in BOOLEAN
      BY <1>1, Zenon DEF TypeOK
    <3> QED
      BY <1>1, <2>3, <2>6, <3>1 DEF TypeOK
  <2>11. Deciding("watch")' /\ at'["watch"].doc.seq = 0 =>
           /\ Deciding("watch") /\ at["watch"].doc.seq = 0 /\ at'["watch"].run = at["watch"].run
    <3>1. CASE w = "watch"
      BY <2>8, <3>1
    <3>2. CASE w # "watch"
      BY <2>6, <3>2 DEF Workers, Deciding
    <3> QED
      BY <3>1, <3>2
  <2>12. OneHolder' /\ Admitting'
    BY <2>3, <2>11, GroupsStay DEF IInv
  <2> QED
    BY <2>3, <2>8, <2>9, <2>10, <2>12 DEF IInv
<1> QED
  BY <1>3, <1>4, <1>5 DEF Create

\* The verdict on a document, and what it takes to be one of success or to go on.
LEMMA VerdictIs ==
  ASSUME NEW doc \in Row, ~ Reached(doc)
  PROVE  /\ Verdict(doc) \in {"running", "failed", "succeeded"}
         /\ Verdict(doc) = "running" <=>
              doc.call = "dispatched" \/ \E t \in DOMAIN doc.tasks : doc.tasks[t] \in InFlight
         /\ Verdict(doc) = "succeeded" /\ doc.call # "cancelled"
              /\ (\A t \in DOMAIN doc.tasks : doc.tasks[t] # "cancelled")
              => doc.call \in {"none", "succeeded"}
<1>1. Fates(doc) \cap InFlight # {} <=> \E t \in DOMAIN doc.tasks : doc.tasks[t] \in InFlight
  BY DEF Fates
<1>2. /\ Verdict(doc) \in {"running", "failed", "succeeded"}
      /\ Verdict(doc) = "running" <=> doc.call = "dispatched" \/ Fates(doc) \cap InFlight # {}
  BY DEF Verdict
<1>3. ASSUME Verdict(doc) = "succeeded", doc.call # "cancelled",
             \A t \in DOMAIN doc.tasks : doc.tasks[t] # "cancelled"
      PROVE  doc.call \in {"none", "succeeded"}
  <2>1. /\ Fates(doc) \cap InFlight = {} /\ doc.call # "dispatched"
        /\ "failed" \notin Fates(doc) /\ doc.call # "failed"
    BY <1>3 DEF Verdict
  <2>2. doc.call \in {"none", "waiting", "dispatched"} \cup Over
    BY RowHas
  <2>3. doc.call # "waiting"
    <3>1. \A t \in DOMAIN doc.tasks : doc.tasks[t] \in InFlight \cup Over
      BY TasksAre
    <3>2. Fates(doc) \subseteq {"succeeded"}
      BY <1>3, <2>1, <3>1 DEF Fates, Over
    <3> QED
      BY <3>2 DEF Reached
  <2> QED
    BY <1>3, <2>1, <2>2, <2>3 DEF Over
<1> QED
  BY <1>1, <1>2, <1>3

\* Tasks to begin are tasks that wait, and a run with one goes on.
LEMMA StartsArePending ==
  ASSUME NEW doc \in Row, NEW start, start \subseteq Pending(doc), start # {}
  PROVE  start \subseteq DOMAIN doc.tasks /\ Verdict(doc) = "running"
<1>1. PICK t \in start : TRUE
  OBVIOUS
<1>2. t \in DOMAIN doc.tasks /\ doc.tasks[t] \in InFlight
  BY DEF Pending, InFlight
<1>3. Fates(doc) \cap InFlight # {}
  BY <1>2 DEF Fates
<1> QED
  BY <1>3 DEF Verdict, Pending

\* A pass with its verdict: what it found is what it will write.
LEMMA DecidesAgrees ==
  ASSUME IInv, NEW w \in Workers, at[w].pc = "quota", UNCHANGED runs,
         NEW pc \in {"save", "hand"}, NEW go, go \subseteq Pending(at[w].doc),
         NEW verdict, verdict = Verdict(at[w].doc),
         pc = "hand" => go # {} /\ ~ at[w].changed /\ verdict = at[w].doc.state,
         at'[w] = Decided(at[w], verdict, go, pc)
  PROVE  /\ at'[w] \in {Idle} \cup Turns \cup Passes
         /\ TurnAgrees(w)' /\ PassAgrees(w)' /\ PassInOrder(w)' /\ Deciding(w)
         /\ at'[w].doc.seq = at[w].doc.seq /\ at'[w].run = at[w].run
<1>0. SUFFICES ASSUME NEW p, p = at[w], NEW r, r = at[w].run, NEW was, was = at[w].doc, NEW q, q = at'[w]
                PROVE  /\ q \in {Idle} \cup Turns \cup Passes
                       /\ TurnAgrees(w)' /\ PassAgrees(w)' /\ PassInOrder(w)' /\ Deciding(w)
                       /\ q.doc.seq = was.seq /\ q.run = r
    OBVIOUS
<1>1. p \in Passes /\ was \in Row /\ Deciding(w) /\ ~ Reached(was)
  BY <1>0, WorkerIs DEF IInv, Deciding, PassInOrder
<1>2. go \in SUBSET Nat /\ verdict \in Live \cup Over /\ verdict # "queued"
  <2>1. go \in SUBSET Nat
    BY <1>0, <1>1, TasksAre DEF Pending
  <2>2. verdict \in {"running", "failed", "succeeded"}
    BY <1>0, <1>1, VerdictIs
  <2> QED
    BY <2>1, <2>2 DEF Live, Over
<1> SUFFICES ASSUME NEW doc, doc = q.doc
             PROVE  /\ q \in {Idle} \cup Turns \cup Passes
                    /\ TurnAgrees(w)' /\ PassAgrees(w)' /\ PassInOrder(w)' /\ Deciding(w)
                    /\ q.doc.seq = was.seq /\ q.run = r
    OBVIOUS
<1>3. /\ q \in Passes /\ q.pc = pc /\ q.run = p.run /\ (q.changed <=> p.changed) /\ q.start = go
      /\ doc.state = verdict /\ doc.wf = was.wf /\ doc.seq = was.seq /\ doc.caller = was.caller
      /\ doc.tasks = was.tasks /\ doc.call = was.call
  <2>1. q = Decided(p, verdict, go, pc)
    BY <1>0
  <2>2. /\ q \in Passes /\ q.pc = pc /\ q.run = p.run /\ (q.changed <=> p.changed) /\ q.start = go
        /\ q.doc.state = verdict /\ q.doc.wf = p.doc.wf
        /\ q.doc.seq = p.doc.seq /\ q.doc.caller = p.doc.caller
        /\ q.doc.tasks = p.doc.tasks /\ q.doc.call = p.doc.call
    BY <1>1, <1>2, <2>1, PassDecides
  <2> QED
    BY <1>0, <2>2
<1>4. Deciding(w)' /\ TurnAgrees(w)'
  BY <1>0, <1>3 DEF Deciding, TurnAgrees
<1>5. PassInOrder(w)'
  <2>1. ~ Reached(doc) /\ Pending(doc) = Pending(was) /\ Verdict(doc) = Verdict(was)
    <3>1. doc.tasks = was.tasks /\ doc.call = was.call
      BY <1>3
    <3>2. Fates(doc) = Fates(was) /\ Pending(doc) = Pending(was)
      BY <3>1 DEF Fates, Pending
    <3>3. Reached(doc) <=> Reached(was)
      BY <3>1, <3>2 DEF Reached
    <3>4. Verdict(doc) = Verdict(was)
      BY <3>1, <3>2, <3>3 DEF Verdict
    <3> QED
      BY <1>1, <3>2, <3>3, <3>4
  <2>2. /\ was.call # "cancelled" /\ \A t \in DOMAIN was.tasks : was.tasks[t] # "cancelled"
        /\ was.call = "none" <=> CalleeOf[was.wf] = NoWorkflow
    BY <1>0, <1>1 DEF IInv, PassInOrder
  <2> QED
    BY <1>0, <1>3, <1>4, <2>1, <2>2 DEF PassInOrder
<1>6. PassAgrees(w)'
  <2>1. /\ r \in Created /\ was.wf = runs[r].wf /\ was.caller = runs[r].caller
        /\ DOMAIN was.tasks = DOMAIN runs[r].tasks /\ was.seq <= runs[r].seq
        /\ was.seq = runs[r].seq =>
             /\ runs[r].state = IF was.seq = 0 THEN "queued" ELSE "running"
             /\ was.tasks = runs[r].tasks
             /\ ~p.changed => was.call = runs[r].call
        /\ was.seq = 0 => w = "watch"
        /\ was.call = "succeeded" => CalledWell(r)
    BY <1>0, <1>1 DEF IInv, PassAgrees
  <2>2. was.seq = 0 => pc # "hand"
    <3>1. was.state = IF was.seq = 0 THEN "queued" ELSE "running"
      BY <1>0, <1>1 DEF IInv, PassInOrder
    <3> QED
      BY <1>0, <1>2, <3>1
  <2>3. Created' = Created /\ (CalledWell(r) <=> CalledWell(r)')
    BY DEF Created, CalledWell, CalledBy
  <2> QED
    BY <1>0, <1>3, <1>4, <2>1, <2>2, <2>3 DEF PassAgrees
<1> QED
  BY <1>0, <1>1, <1>3, <1>4, <1>5, <1>6

\* A run whose clock is taken back.
Rested(row) == [row EXCEPT !.wake = FALSE]

LEMMA RestedIs ==
  ASSUME NEW was \in Row, NEW row, row = Rested(was)
  PROVE  row \in Row /\ Alike(row, was) /\ row.group = was.group
  BY DEF Rested, Row, Alike

\* The clock is taken back only from a run that has something under way.
LEMMA WithinTheQuotaKeeps ==
  ASSUME IInv, NEW w \in Workers, WithinTheQuota(w)
  PROVE  IInv'
<1>0. SUFFICES ASSUME NEW p, p = at[w], NEW r, r = at[w].run, NEW doc, doc = at[w].doc,
                       NEW verdict, verdict = Verdict(doc), NEW go, go = LeastOf(Pending(doc), Slots),
                       NEW row, row = Rested(runs[r])
                PROVE  IInv'
    OBVIOUS
<1>1. UNCHANGED <<out, holds, upsets>> /\ at[w].pc = "quota" /\ Deciding(w) /\ TypeOK /\ RowsAgree
  BY DEF WithinTheQuota, Busy, Deciding, IInv
<1>2. /\ doc \in Row /\ r \in Created /\ r \in Ids /\ runs[r] \in Row /\ runs[r].seq \in Nat
      /\ RowAgrees(r) /\ UnderWay(r) /\ ~ Reached(doc)
  BY <1>0, <1>1, WorkerIs, CreatedAre, RowHas DEF IInv, RowsAgree, PassAgrees, PassInOrder
<1>3. go \subseteq Pending(doc)
  BY <1>0 DEF LeastOf
<1>4. holds' \in BOOLEAN
  BY <1>1, Zenon DEF TypeOK
<1>5. upsets' \in 0 .. MaxUpsets /\ out' \in [Ids -> SUBSET Nat] /\ \A x \in Ids : out'[x] = out[x]
  BY <1>1 DEF TypeOK
<1> DEFINE changed == p.changed \/ verdict # doc.state
<1>6. CASE changed \/ go # {}
  <2> SUFFICES ASSUME NEW pc, pc = (IF changed THEN "save" ELSE "hand"),
                      NEW q, q = Decided(at[w], verdict, go, pc)
               PROVE  IInv'
      OBVIOUS
  <2>1. at' = [at EXCEPT ![w] = q] /\ UNCHANGED runs
    BY <1>0, <1>6 DEF WithinTheQuota, Goto, Decided
  <2>2. at'[w] = q /\ pc \in {"save", "hand"}
    BY <1>1, <2>1 DEF TypeOK
  <2>3. pc = "hand" => go # {} /\ ~ at[w].changed /\ verdict = at[w].doc.state
    BY <1>0, <1>6
  <2> HIDE DEF changed
  <2>4. /\ at'[w] \in {Idle} \cup Turns \cup Passes
        /\ TurnAgrees(w)' /\ PassAgrees(w)' /\ PassInOrder(w)' /\ Deciding(w)
        /\ at'[w].doc.seq = at[w].doc.seq /\ at'[w].run = at[w].run
    <3>1. at'[w] = Decided(at[w], verdict, go, pc)
      BY <2>2
    <3>2. verdict = Verdict(at[w].doc) /\ go \subseteq Pending(at[w].doc) /\ UNCHANGED runs
      BY <1>0, <1>3, <2>1
    <3> QED
      BY <1>1, <2>2, <2>3, <3>1, <3>2, DecidesAgrees
  <2>5. Created' = Created
    BY <2>1 DEF Created
  <2>6. w = "watch" => Admitting'
    BY <2>1, <2>4, <2>5 DEF IInv, Admitting, Holding, Queued
  <2> QED
    BY <1>1, <1>4, <1>5, <2>1, <2>2, <2>4, <2>6, PassOnlyKeeps
<1>7. CASE Goto(w, Idle) /\ UNCHANGED runs
  BY <1>1, <1>7, LeaveKeeps
<1>8. CASE /\ ~ changed /\ go = {} /\ ~ p.touched
           /\ runs' = [runs EXCEPT ![r].wake = FALSE] /\ at' = [Touch({r}) EXCEPT ![w] = Idle]
  <2>1. row \in Row /\ Alike(row, runs[r]) /\ row.group = runs[r].group
    BY <1>0, <1>2, RestedIs
  <2>2. runs' = [runs EXCEPT ![r] = row]
    BY <1>0, <1>1, <1>2, <1>8 DEF Rested, TypeOK
  <2>3. OneWritten(r, row)
    BY <1>1, <1>2, <2>1, <2>2, ReplacedIs
  <2>4. row.wf = runs[r].wf /\ row.caller = runs[r].caller /\ row.seq = runs[r].seq /\ row.state = runs[r].state
    BY <2>1 DEF Alike
  <2>5. RowsGoOn
    <3>1. runs[r].seq <= row.seq
      BY <1>2, <2>4
    <3> QED
      BY <1>1, <1>2, <2>1, <2>3, <2>4, <3>1, WriteGoesOn
  <2>6. runs'[r] = row /\ Created' = Created
    BY <2>3 DEF OneWritten
  <2>7. RowAgrees(r)'
    BY <1>1, <1>2, <2>1, <2>5, <2>6, CalledWellStays DEF RowAgrees, Alike
  <2>8. UnderWay(r)'
    <3>1. /\ doc.seq = runs[r].seq /\ doc.tasks = runs[r].tasks /\ doc.call = runs[r].call
          /\ doc.state = IF doc.seq = 0 THEN "queued" ELSE "running"
      BY <1>0, <1>1, <1>8 DEF IInv, PassAgrees, PassInOrder
    <3>2. verdict \in {"running", "failed", "succeeded"} /\ verdict = doc.state
      BY <1>0, <1>2, <1>8, VerdictIs
    <3>3. verdict = "running"
      BY <3>1, <3>2
    <3>4. doc.call = "dispatched" \/ \E t \in DOMAIN doc.tasks : doc.tasks[t] \in InFlight
      BY <1>0, <1>2, <3>3, VerdictIs
    <3>5. row.tasks = runs[r].tasks /\ row.call = runs[r].call /\ row.published = runs[r].published
      BY <2>1 DEF Alike
    <3>6. row.state \in Live => OutOf(r)' \subseteq out'[r]
      BY <1>1, <1>2, <2>4, <2>6, <3>5 DEF UnderWay, OutOf
    <3> QED
      BY <2>6, <3>1, <3>4, <3>5, <3>6 DEF UnderWay
  <2>9. /\ at'[w] = Idle /\ at' = [o \in Workers |-> at'[o]]
        /\ \A o \in Workers : o # w => at'[o] = Touch({r})[o]
    BY <1>8, TouchedExcept
  <2>10. /\ TurnAgrees(w)' /\ PassAgrees(w)' /\ PassInOrder(w)' /\ ~ Deciding(w)'
         /\ at'[w] \in {Idle} \cup Turns \cup Passes
    BY <2>9, IdleAgrees
  <2>11. OneHolder' /\ Admitting'
    BY <1>2, <2>1, <2>3, <2>4, <2>5, <2>9, <2>10, WriteLeavesGroups
  <2> QED
    BY <1>2, <1>4, <1>5, <2>1, <2>3, <2>5, <2>7, <2>8, <2>9, <2>10, <2>11, WriteKeeps
<1>9. \/ changed \/ go # {}
      \/ Goto(w, Idle) /\ UNCHANGED runs
      \/ /\ ~ changed /\ go = {} /\ ~ p.touched
         /\ runs' = [runs EXCEPT ![r].wake = FALSE] /\ at' = [Touch({r}) EXCEPT ![w] = Idle]
  BY <1>0 DEF WithinTheQuota
<1> QED
  BY <1>6, <1>7, <1>8, <1>9

\* A pass that goes on from its saved decision to hand out.
ToHand(p, row) == [p EXCEPT !.pc = "hand", !.doc = row]

LEMMA ToHandIs ==
  ASSUME NEW p \in Passes, NEW row \in Row, NEW q, q = ToHand(p, row)
  PROVE  /\ q \in Passes /\ q.pc = "hand" /\ q.run = p.run /\ q.start = p.start /\ q.doc = row
  BY DEF ToHand, Passes

\* What a pass with its verdict knows of its run, where nothing was decided meanwhile.
LEMMA DecisionHolds ==
  ASSUME IInv, NEW w \in Workers, at[w].pc \in {"save", "hand"},
         NEW r, r = at[w].run, NEW doc, doc = at[w].doc, doc.seq = runs[r].seq
  PROVE  /\ r \in Created /\ r \in Ids /\ runs[r] \in Row /\ runs[r].seq \in Nat /\ doc \in Row
         /\ at[w] \in Passes /\ at[w].start \subseteq Pending(doc) /\ ~ Reached(doc)
         /\ doc.state = Verdict(doc) /\ doc.state \in {"running", "failed", "succeeded"}
         /\ runs[r].state = (IF doc.seq = 0 THEN "queued" ELSE "running")
         /\ doc.wf = runs[r].wf /\ doc.caller = runs[r].caller /\ doc.tasks = runs[r].tasks
         /\ doc.call # "cancelled" /\ \A t \in DOMAIN doc.tasks : doc.tasks[t] # "cancelled"
         /\ doc.call = "none" <=> CalleeOf[doc.wf] = NoWorkflow
         /\ doc.state = "succeeded" => doc.call \in {"none", "succeeded"}
         /\ doc.call = "succeeded" => CalledWell(r)
         /\ doc.seq = 0 => w = "watch" /\ at[w].pc # "hand"
<1>1. Deciding(w) /\ TypeOK
  BY DEF Deciding, IInv
<1>2. at[w] \in Passes /\ doc \in Row
  BY <1>1, WorkerIs
<1>3. /\ r \in Created /\ doc.wf = runs[r].wf /\ doc.caller = runs[r].caller /\ doc.tasks = runs[r].tasks
      /\ runs[r].state = (IF doc.seq = 0 THEN "queued" ELSE "running")
      /\ doc.call = "succeeded" => CalledWell(r)
      /\ doc.seq = 0 => w = "watch" /\ at[w].pc # "hand"
  BY <1>1 DEF IInv, PassAgrees
<1>4. r \in Ids /\ runs[r] \in Row /\ runs[r].seq \in Nat
  BY <1>1, <1>3, CreatedAre, RowHas
<1>5. /\ at[w].start \subseteq Pending(doc) /\ ~ Reached(doc) /\ doc.state = Verdict(doc)
      /\ doc.call # "cancelled" /\ \A t \in DOMAIN doc.tasks : doc.tasks[t] # "cancelled"
      /\ doc.call = "none" <=> CalleeOf[doc.wf] = NoWorkflow
  BY <1>1 DEF IInv, PassInOrder
<1>6. /\ doc.state \in {"running", "failed", "succeeded"}
      /\ doc.state = "succeeded" => doc.call \in {"none", "succeeded"}
  BY <1>2, <1>5, VerdictIs
<1> QED
  BY <1>2, <1>3, <1>4, <1>5, <1>6

\* A decision is saved over the row it was made from, and a run that it starts finds its group free.
LEMMA SaveKeeps ==
  ASSUME IInv, NEW w \in Workers, Save(w)
  PROVE  IInv'
<1>0. SUFFICES ASSUME NEW p, p = at[w], NEW r, r = at[w].run, NEW doc, doc = at[w].doc,
                       NEW row, row = Saved(r, doc), NEW S, S = {r} \cup Told(r, row)
                PROVE  IInv'
    OBVIOUS
<1>1. UNCHANGED <<out, holds, upsets>> /\ at[w].pc \in {"save", "hand"} /\ TypeOK /\ RowsAgree
  BY DEF Save, Busy, IInv
<1>2. CASE Goto(w, Idle) /\ UNCHANGED runs
  BY <1>1, <1>2, LeaveKeeps
<1>3. CASE /\ doc.seq = runs[r].seq /\ runs' = Written(r, row)
           /\ at' = [Touch(S) EXCEPT ![w] = IF p.start = {} THEN Idle ELSE ToHand(p, row)]
  <2>1. /\ r \in Created /\ r \in Ids /\ runs[r] \in Row /\ runs[r].seq \in Nat /\ doc \in Row
        /\ p \in Passes /\ p.start \subseteq Pending(doc) /\ ~ Reached(doc)
        /\ doc.state = Verdict(doc) /\ doc.state \in {"running", "failed", "succeeded"}
        /\ runs[r].state = (IF doc.seq = 0 THEN "queued" ELSE "running")
        /\ doc.wf = runs[r].wf /\ doc.caller = runs[r].caller /\ doc.tasks = runs[r].tasks
        /\ doc.call # "cancelled" /\ \A t \in DOMAIN doc.tasks : doc.tasks[t] # "cancelled"
        /\ doc.call = "none" <=> CalleeOf[doc.wf] = NoWorkflow
        /\ doc.state = "succeeded" => doc.call \in {"none", "succeeded"}
        /\ doc.call = "succeeded" => CalledWell(r)
        /\ doc.seq = 0 => w = "watch"
    BY <1>0, <1>1, <1>3, DecisionHolds
  <2>2. RowAgrees(r) /\ UnderWay(r)
    BY <1>1, <2>1 DEF RowsAgree
  <2>3. /\ row \in Row /\ row.state = doc.state /\ row.wf = doc.wf
        /\ row.group = runs[r].group /\ row.caller = doc.caller
        /\ row.tasks = doc.tasks /\ row.published = runs[r].published /\ row.call = doc.call
    BY <1>0, <2>1, SavedIs
  <2>4. row.seq = runs[r].seq + 1
    BY <1>0, <2>1, SavedIs
  <2>5. runs[r].seq <= row.seq /\ row.seq > runs[r].seq /\ row.seq > 0 /\ row.seq # 0
    BY <2>1, <2>4
  <2>6. OneWritten(r, row)
    BY <1>1, <1>3, <2>1, <2>3, WrittenIs
  <2>7. row.wf = runs[r].wf /\ row.caller = runs[r].caller /\ runs[r].state # "succeeded"
    BY <2>1, <2>3
  <2>8. RowsGoOn
    BY <1>1, <2>1, <2>3, <2>5, <2>6, <2>7, WriteGoesOn
  <2>9. runs'[r] = row /\ Created' = Created
    BY <2>6 DEF OneWritten
  <2>10. CalledWell(r) => CalledWell(r)'
    BY <2>8, CalledWellStays
  <2>11. RowAgrees(r)'
    <3>1. row.state # "queued" /\ row.tasks = runs[r].tasks /\ out'[r] = out[r]
      BY <1>1, <2>1, <2>3
    <3>2. row.caller # NoRun => row.caller \in Created'
      BY <2>2, <2>7, <2>9 DEF RowAgrees
    <3>3. /\ DOMAIN row.tasks = 1 .. TasksOf[row.wf] /\ row.published \cup out'[r] \subseteq DOMAIN row.tasks
      BY <2>2, <2>3, <2>7, <3>1 DEF RowAgrees
    <3>4. /\ row.call # "cancelled" /\ \A t \in DOMAIN row.tasks : row.tasks[t] # "cancelled"
          /\ row.call = "none" <=> CalleeOf[row.wf] = NoWorkflow
          /\ row.state = "succeeded" => row.call \in {"none", "succeeded"}
          /\ row.call = "succeeded" => CalledWell(r)'
      BY <2>1, <2>3, <2>10
    <3> QED
      BY <2>5, <2>9, <3>1, <3>2, <3>3, <3>4 DEF RowAgrees
  <2>12. UnderWay(r)'
    <3>1. OutOf(r) \subseteq out[r]
      BY <2>1, <2>2 DEF UnderWay, Live
    <3>2. OutOf(r)' \subseteq out'[r]
      BY <1>1, <2>1, <2>3, <2>9, <3>1 DEF OutOf
    <3>3. row.state = "running" =>
            row.call = "dispatched" \/ \E t \in DOMAIN row.tasks : row.tasks[t] \in InFlight
      BY <2>1, <2>3, VerdictIs
    <3> QED
      BY <2>9, <3>2, <3>3 DEF UnderWay
  <2>13. PICK next : next = (IF p.start = {} THEN Idle ELSE ToHand(p, row))
    OBVIOUS
  <2>14. /\ at'[w] = (IF p.start = {} THEN Idle ELSE ToHand(p, row)) /\ at' = [o \in Workers |-> at'[o]]
         /\ \A o \in Workers : o # w => at'[o] = Touch(S)[o]
    <3>1. at' = [Touch(S) EXCEPT ![w] = next]
      BY <1>3, <2>13
    <3>2. /\ at'[w] = next /\ at' = [o \in Workers |-> at'[o]]
          /\ \A o \in Workers : o # w => at'[o] = Touch(S)[o]
      BY <3>1, TouchedExcept
    <3> QED
      BY <2>13, <3>2
  <2>15. /\ TurnAgrees(w)' /\ PassAgrees(w)' /\ PassInOrder(w)'
         /\ at'[w] \in {Idle} \cup Turns \cup Passes
         /\ Deciding(w)' => at'[w].doc.seq # 0
    <3>1. CASE p.start = {}
      BY <2>14, <3>1, IdleAgrees
    <3>2. CASE p.start # {}
      <4> SUFFICES ASSUME NEW q, q = at'[w]
                   PROVE  /\ TurnAgrees(w)' /\ PassAgrees(w)' /\ PassInOrder(w)'
                          /\ q \in {Idle} \cup Turns \cup Passes
                          /\ Deciding(w)' => q.doc.seq # 0
          OBVIOUS
      <4>1. /\ q \in Passes /\ q.pc = "hand" /\ q.run = r /\ q.start = p.start /\ q.doc = row
        BY <1>0, <2>1, <2>3, <2>14, <3>2, ToHandIs, SMTT(30)
      <4>2. Deciding(w)' /\ TurnAgrees(w)'
        BY <4>1 DEF Deciding, TurnAgrees
      <4>3. row.state = "running"
        BY <2>1, <2>3, <3>2, StartsArePending
      <4>4. PassAgrees(w)'
        <5>1. row.seq <= row.seq
          BY <2>1, <2>4
        <5> QED
          BY <2>1, <2>3, <2>5, <2>9, <2>10, <4>1, <4>2, <4>3, <5>1 DEF PassAgrees
      <4>5. PassInOrder(w)'
        <5>1. Fates(row) = Fates(doc) /\ Pending(row) = Pending(doc)
          BY <2>3 DEF Fates, Pending
        <5>2. Reached(row) <=> Reached(doc)
          BY <2>3, <5>1 DEF Reached
        <5>3. Verdict(row) = Verdict(doc)
          BY <2>3, <5>1, <5>2 DEF Verdict
        <5> QED
          BY <2>1, <2>3, <3>2, <4>1, <4>2, <5>1, <5>2, <5>3 DEF PassInOrder
      <4> QED
        BY <2>5, <4>1, <4>2, <4>4, <4>5
    <3> QED
      BY <3>1, <3>2
  <2>16. OneHolder' /\ Admitting'
    <3>1. CASE doc.seq # 0
      BY <2>1, <2>3, <2>6, <2>8, <2>14, <2>15, <3>1, WriteLeavesGroups
    <3>2. CASE doc.seq = 0
      <4>1. Admitting'
        BY <2>1, <2>15, <3>2 DEF Admitting
      <4>2. runs[r].group # NoGroup => Holding(runs[r].group) = {}
        BY <1>0, <1>1, <2>1, <3>2 DEF IInv, Admitting, Deciding
      <4>3. \A a \in Created : a # r /\ runs'[a].state = "running" =>
              runs[a].state = "running" /\ runs'[a].group = runs[a].group
                /\ (runs[a].group = runs[r].group => runs[r].group = NoGroup)
        BY <2>6, <4>2 DEF OneWritten, Alike, Holding
      <4>4. OneHolder'
        BY <2>3, <2>9, <4>3 DEF IInv, OneHolder
      <4> QED
        BY <4>1, <4>4
    <3> QED
      BY <3>1, <3>2
  <2>17. holds' \in BOOLEAN
    BY <1>1, Zenon DEF TypeOK
  <2>18. upsets' \in 0 .. MaxUpsets /\ out' \in [Ids -> SUBSET Nat] /\ \A x \in Ids : out'[x] = out[x]
    BY <1>1, SMTT(30) DEF TypeOK
  <2>19. DOMAIN row.tasks = DOMAIN runs[r].tasks /\ r \in S /\ (w = "answers" => runs[r].seq > 0)
    BY <1>0, <1>3, <2>1, <2>3
  <2> QED
    BY <2>1, <2>3, <2>5, <2>6, <2>8, <2>11, <2>12, <2>14, <2>15, <2>16, <2>17, <2>18, <2>19, WriteKeeps
<1> QED
  BY <1>0, <1>2, <1>3 DEF Save, ToHand

\* The messages have gone; the record of them is of the row as it was read, or is refused.
LEMMA HandKeeps ==
  ASSUME IInv, NEW w \in Workers, Hand(w)
  PROVE  IInv'
<1>0. SUFFICES ASSUME NEW p, p = at[w], NEW r, r = at[w].run, NEW doc, doc = at[w].doc,
                       NEW start, start = at[w].start, NEW row, row = HandedRow(r, doc, start)
                PROVE  IInv'
    OBVIOUS
<1>1. UNCHANGED <<holds, upsets>> /\ at[w].pc = "hand" /\ Deciding(w) /\ TypeOK /\ RowsAgree
  BY DEF Hand, Busy, IInv, Deciding
<1>2. /\ p \in Passes /\ doc \in Row /\ r \in Created /\ r \in Ids /\ runs[r] \in Row
      /\ runs[r].seq \in Nat /\ doc.seq \in Nat /\ RowAgrees(r) /\ UnderWay(r)
  BY <1>0, <1>1, WorkerIs, CreatedAre, RowHas DEF IInv, PassAgrees, RowsAgree
<1>3. /\ start \subseteq Pending(doc) /\ start # {} /\ DOMAIN doc.tasks = DOMAIN runs[r].tasks
      /\ doc.seq # 0 /\ doc.seq <= runs[r].seq
  BY <1>0, <1>1 DEF IInv, PassAgrees, PassInOrder
<1>4. start \subseteq DOMAIN doc.tasks /\ start \subseteq DOMAIN runs[r].tasks /\ start \in SUBSET Nat
      /\ runs[r].seq > 0 /\ runs[r].seq # 0
  BY <1>2, <1>3, TasksAre, StartsArePending, SMTT(30)
<1>5. /\ out' \in [Ids -> SUBSET Nat] /\ out'[r] = out[r] \cup start
      /\ \A x \in Ids : x # r => out'[x] = out[x]
  <2>1. out' = [out EXCEPT ![r] = out[r] \cup start]
    BY <1>0, <1>1 DEF Hand, TypeOK
  <2> QED
    BY <1>1, <1>2, <1>4, <2>1 DEF TypeOK
<1>6. holds' \in BOOLEAN
  BY <1>1, Zenon DEF TypeOK
<1>7. upsets' \in 0 .. MaxUpsets
  BY <1>1 DEF TypeOK
<1>8. CASE Goto(w, Idle) /\ UNCHANGED runs
  <2>1. /\ at'[w] = Idle /\ at' = [o \in Workers |-> at'[o]] /\ \A o \in Workers : o # w => at'[o] = at[o]
    BY <1>1, <1>8 DEF Goto, TypeOK
  <2>2. PICK S : S = {}
    OBVIOUS
  <2>3. \A o \in Workers : o # w => at'[o] = Touch(S)[o]
    BY <2>1, <2>2 DEF Touch
  <2>4. OneWritten(r, runs[r]) /\ Alike(runs[r], runs[r])
    BY <1>1, <1>8 DEF OneWritten, Alike, TypeOK, Created
  <2>5. RowsGoOn
    <3>1. runs[r].seq <= runs[r].seq
      BY <1>2
    <3> QED
      BY <1>1, <1>2, <2>4, <3>1, WriteGoesOn
  <2>6. Created' = Created /\ runs'[r] = runs[r] /\ (CalledWell(r) => CalledWell(r)')
    BY <1>8, <2>5, CalledWellStays DEF Created
  <2>7. RowAgrees(r)'
    BY <1>2, <1>4, <1>5, <2>6 DEF RowAgrees
  <2>8. UnderWay(r)'
    BY <1>2, <1>5, <2>6 DEF UnderWay, OutOf
  <2>9. /\ TurnAgrees(w)' /\ PassAgrees(w)' /\ PassInOrder(w)' /\ ~ Deciding(w)'
        /\ at'[w] \in {Idle} \cup Turns \cup Passes
    BY <2>1, IdleAgrees
  <2>10. OneHolder' /\ Admitting'
    BY <1>2, <2>3, <2>4, <2>5, <2>9, WriteLeavesGroups
  <2>11. at' = [o \in Workers |-> at'[o]]
    BY <2>1
  <2> QED
    BY <1>2, <1>5, <1>6, <1>7, <2>3, <2>4, <2>5, <2>7, <2>8, <2>9, <2>10, <2>11, WriteKeeps
<1>9. CASE /\ doc.seq = runs[r].seq /\ runs' = [runs EXCEPT ![r] = row]
           /\ at' = [Touch({r}) EXCEPT ![w] = Idle]
  <2>1. /\ runs[r].state = "running" /\ doc.state = Verdict(doc) /\ doc.call # "cancelled"
        /\ doc.wf = runs[r].wf /\ doc.caller = runs[r].caller /\ doc.tasks = runs[r].tasks
        /\ \A t \in DOMAIN doc.tasks : doc.tasks[t] # "cancelled"
        /\ doc.call = "none" <=> CalleeOf[doc.wf] = NoWorkflow
        /\ doc.call = "succeeded" => CalledWell(r)
    <3>1. at[w].pc \in {"save", "hand"}
      BY <1>1
    <3> QED
      BY <1>0, <1>3, <1>9, <3>1, DecisionHolds
  <2>2. doc.state = "running"
    BY <1>2, <1>3, <2>1, StartsArePending
  <2>3. /\ row \in Row /\ row.state = doc.state /\ row.wf = doc.wf
        /\ row.group = runs[r].group /\ row.caller = doc.caller /\ row.call = doc.call
    BY <1>0, <1>2, <1>4, HandedRowIs
  <2>4. row.seq = runs[r].seq + 1
    BY <1>0, <1>2, <1>4, HandedRowIs
  <2>5. row.published = runs[r].published \cup start
    BY <1>0, <1>2, <1>4, HandedRowIs
  <2>6. /\ DOMAIN row.tasks = DOMAIN doc.tasks
        /\ \A t \in DOMAIN doc.tasks : row.tasks[t] = IF t \in start THEN "dispatched" ELSE doc.tasks[t]
    BY <1>0, <1>2, <1>4, HandedRowIs
  <2>7. runs[r].seq <= row.seq /\ row.seq > runs[r].seq /\ row.seq > 0 /\ row.seq # 0
    BY <1>2, <2>4
  <2>8. OneWritten(r, row)
    BY <1>1, <1>2, <1>9, <2>3, ReplacedIs
  <2>9. row.wf = runs[r].wf /\ row.caller = runs[r].caller /\ runs[r].state # "succeeded"
    BY <2>1, <2>3
  <2>10. RowsGoOn
    BY <1>1, <1>2, <2>3, <2>7, <2>8, <2>9, WriteGoesOn
  <2>11. runs'[r] = row /\ Created' = Created /\ (CalledWell(r) => CalledWell(r)')
    BY <2>8, <2>10, CalledWellStays DEF OneWritten
  <2>12. RowAgrees(r)'
    <3>1. row.state = "running" /\ row.caller # NoRun => row.caller \in Created'
      BY <1>2, <2>9, <2>11 DEF RowAgrees
    <3>2. /\ DOMAIN row.tasks = 1 .. TasksOf[row.wf] /\ row.published \cup out'[r] \subseteq DOMAIN row.tasks
      BY <1>2, <1>3, <1>4, <1>5, <2>5, <2>6, <2>9 DEF RowAgrees
    <3>3. \A t \in DOMAIN row.tasks : row.tasks[t] # "cancelled"
      BY <2>1, <2>6
    <3> QED
      BY <2>1, <2>2, <2>3, <2>7, <2>11, <3>1, <3>2, <3>3 DEF RowAgrees
  <2>13. UnderWay(r)'
    <3>1. OutOf(r) \subseteq out[r] /\ runs[r].published \subseteq DOMAIN doc.tasks
      BY <1>2, <1>3, <2>1 DEF UnderWay, RowAgrees, Live
    <3>2. OutOf(r)' \subseteq out'[r]
      BY <1>5, <2>1, <2>5, <2>6, <2>11, <3>1 DEF OutOf
    <3>3. \E t \in DOMAIN row.tasks : row.tasks[t] \in InFlight
      BY <1>3, <1>4, <2>6 DEF InFlight
    <3> QED
      BY <2>11, <3>2, <3>3 DEF UnderWay
  <2>14. PICK S : S = {r}
    OBVIOUS
  <2>15. /\ at'[w] = Idle /\ at' = [o \in Workers |-> at'[o]]
         /\ \A o \in Workers : o # w => at'[o] = Touch(S)[o]
    BY <1>9, <2>14, TouchedExcept
  <2>16. /\ TurnAgrees(w)' /\ PassAgrees(w)' /\ PassInOrder(w)' /\ ~ Deciding(w)'
         /\ at'[w] \in {Idle} \cup Turns \cup Passes
    BY <2>15, IdleAgrees
  <2>17. OneHolder' /\ Admitting'
    BY <1>2, <2>1, <2>2, <2>3, <2>8, <2>10, <2>15, <2>16, WriteLeavesGroups
  <2>18. r \in S /\ DOMAIN row.tasks = DOMAIN runs[r].tasks
    BY <1>3, <2>6, <2>14
  <2> QED
    BY <1>2, <1>4, <1>5, <1>6, <1>7, <2>3, <2>7, <2>8, <2>10, <2>12, <2>13, <2>15, <2>16, <2>17, <2>18, WriteKeeps
<1>10. \/ Goto(w, Idle) /\ UNCHANGED runs
       \/ /\ doc.seq = runs[r].seq /\ runs' = [runs EXCEPT ![r] = row]
          /\ at' = [Touch({r}) EXCEPT ![w] = Idle]
  BY <1>0 DEF Hand, HandedRow
<1> QED
  BY <1>8, <1>9, <1>10

-----------------------------------------------------------------------------
(* The invariant holds, and what follows from it.                          *)

LEMMA AdmissionStep == IInv /\ [Next]_vars => IInv'
<1> SUFFICES ASSUME IInv, [Next]_vars PROVE IInv'
    OBVIOUS
<1>1. ASSUME NEW wf \in Workflows, Start(wf) PROVE IInv'
  BY <1>1, StartKeeps
<1>2. ASSUME NEW r \in Ids, RequestCancel(r) PROVE IInv'
  BY <1>2, RequestCancelKeeps
<1>3. ASSUME NEW r \in Ids, Swept(r) PROVE IInv'
  BY <1>3, SweptKeeps
<1>4. ASSUME NEW r \in Ids, NEW t \in out[r], NEW fate \in {"succeeded", "failed"}, Answer(r, t, fate) PROVE IInv'
  BY <1>4, AnswerKeeps
<1>5. ASSUME NEW w \in Workers, Decide(w) PROVE IInv'
  BY <1>5, ReadKeeps, CancelKeeps, AdmittedKeeps, CallsKeeps, AskKeeps, CreateKeeps, WithinTheQuotaKeeps, SaveKeeps,
     HandKeeps DEF Decide
<1>6. CASE Revoke
  BY <1>6, RevokeKeeps
<1>7. CASE Crash
  BY <1>7, CrashKeeps
<1>8. CASE UNCHANGED vars
  <2>1. UNCHANGED <<runs, out, at, holds, upsets>>
    BY <1>8 DEF vars
  <2>2. Created' = Created
    BY <2>1 DEF Created
  <2>3. holds' \in BOOLEAN
    BY <2>1, Zenon DEF IInv, TypeOK
  <2>4. TypeOK'
    BY <2>1, <2>3 DEF IInv, TypeOK
  <2>5. InOrder' /\ OneHolder' /\ Admitting'
    BY <2>1, <2>2 DEF IInv, InOrder, OneHolder, Admitting, Deciding, Holding, Queued
  <2>6. RowsAgree'
    BY <2>1, <2>2 DEF IInv, RowsAgree, RowAgrees, UnderWay, CalledWell, CalledBy, OutOf
  <2>7. \A o \in Workers : TurnAgrees(o)' /\ PassAgrees(o)' /\ PassInOrder(o)'
    BY <2>1, UntouchedStay
  <2> QED
    BY <2>4, <2>5, <2>6, <2>7 DEF IInv
<1> QED
  BY <1>1, <1>2, <1>3, <1>4, <1>5, <1>6, <1>7, <1>8 DEF Next

LEMMA AdmissionInvariant == Spec => []IInv
<1> QED
  BY AdmissionInit, AdmissionStep, PTL DEF Spec

\* A run that has not ended is one a sweep finds, or something of it is out.
LEMMA NothingStranded == IInv => NeverStranded
<1> SUFFICES ASSUME IInv, NEW r \in Created, runs[r].state \in Live PROVE r \in Actionable \/ out[r] # {}
    BY DEF NeverStranded
<1>1. RowAgrees(r) /\ UnderWay(r)
  BY DEF IInv, RowsAgree
<1>2. CASE runs[r].state = "queued"
  BY <1>1, <1>2 DEF RowAgrees, Actionable
<1>3. CASE runs[r].state = "running" /\ (runs[r].wake \/ runs[r].call = "dispatched")
  BY <1>3 DEF Actionable
<1>4. CASE runs[r].state = "running" /\ \E t \in DOMAIN runs[r].tasks : runs[r].tasks[t] \in InFlight
  <2>1. PICK t \in DOMAIN runs[r].tasks : runs[r].tasks[t] \in InFlight
    BY <1>4
  <2>2. CASE t \notin runs[r].published
    BY <2>1, <2>2 DEF Actionable
  <2>3. CASE t \in runs[r].published
    BY <1>1, <2>1, <2>3 DEF UnderWay, OutOf
  <2> QED
    BY <2>2, <2>3
<1> QED
  BY <1>1, <1>2, <1>3, <1>4 DEF UnderWay, Live

\* One step calls one run, and succeeds with it.
LEMMA OneCalled == IInv => CalledOnce
<1> SUFFICES ASSUME IInv, NEW r \in Created
             PROVE  /\ Cardinality(CalledBy(r)) <= 1
                    /\ (runs[r].state = "succeeded" /\ CalleeOf[runs[r].wf] # NoWorkflow)
                          => \E c \in CalledBy(r) : runs[c].state = "succeeded"
    BY DEF CalledOnce
<1>1. r # NoRun
  BY AdmissionAssumption DEF Created, Ids, NoRun
<1>2. \A c, d \in CalledBy(r) : c = d
  BY <1>1 DEF IInv, RowsAgree, CalledBy
<1>3. CalledBy(r) = {} \/ \E c : CalledBy(r) = {c}
  BY <1>2
<1>4. Cardinality(CalledBy(r)) <= 1
  <2>1. CASE CalledBy(r) = {}
    BY <2>1, FS_EmptySet
  <2>2. CASE \E c : CalledBy(r) = {c}
    <3>1. PICK c : CalledBy(r) = {c}
      BY <2>2
    <3>2. Cardinality({c}) = 1
      BY FS_Singleton
    <3> QED
      BY <3>1, <3>2
  <2> QED
    BY <1>3, <2>1, <2>2
<1>5. RowAgrees(r)
  BY DEF IInv, RowsAgree
<1> QED
  BY <1>4, <1>5 DEF RowAgrees, CalledWell

-----------------------------------------------------------------------------
(* What a step starts and what it puts out.                                *)

\* What a goroutine has counted on handing out.
StartOf(w) == IF at[w].pc \in {"save", "hand"} THEN at[w].start ELSE {}

\* No run is started, and nothing is put out but what was.
NobodyStarts == \A x \in Created : runs[x].state = "queued" => runs'[x].state # "running"
OutStays     == \A x \in Created' : \A t \in OutOf(x)' : x \in Created /\ t \in OutOf(x)
StartsStay   == \A o \in Workers : StartOf(o)' \subseteq StartOf(o)

LEMMA HeldStays ==
  ASSUME OutStays
  PROVE  Held' \subseteq Held
  BY DEF OutStays, Held

LEMMA SameRowsCalm ==
  ASSUME UNCHANGED runs
  PROVE  OutStays /\ NobodyStarts
<1>1. Created' = Created
  BY DEF Created
<1> QED
  BY <1>1 DEF OutStays, NobodyStarts, OutOf

LEMMA NewRowCalm ==
  ASSUME NEW f, Created' = Created \cup {f}, \A x \in Created : runs'[x] = runs[x], runs'[f].published = {}
  PROVE  OutStays /\ NobodyStarts
  BY DEF OutStays, NobodyStarts, OutOf

LEMMA WrittenCalm ==
  ASSUME NEW r \in Created, NEW row, OneWritten(r, row),
         \A t \in row.published : row.tasks[t] \in InFlight => t \in OutOf(r)
  PROVE  /\ OutStays
         /\ (runs[r].state = "queued" => row.state # "running") => NobodyStarts
<1>1. Created' = Created /\ runs'[r] = row
  BY DEF OneWritten
<1>2. \A x \in Created : x # r =>
        /\ runs'[x].published = runs[x].published /\ runs'[x].tasks = runs[x].tasks
        /\ runs'[x].state = runs[x].state
  BY DEF OneWritten, Alike
<1>3. OutStays
  <2>1. \A x \in Created : \A t \in OutOf(x)' : t \in OutOf(x)
    BY <1>1, <1>2 DEF OutOf
  <2> QED
    BY <1>1, <2>1 DEF OutStays
<1>4. (runs[r].state = "queued" => row.state # "running") => NobodyStarts
  BY <1>1, <1>2 DEF NobodyStarts
<1> QED
  BY <1>3, <1>4

LEMMA AlikeCalm ==
  ASSUME NEW r \in Created, NEW row, OneWritten(r, row), Alike(row, runs[r])
  PROVE  OutStays /\ NobodyStarts
<1>1. \A t \in row.published : row.tasks[t] \in InFlight => t \in OutOf(r)
  BY DEF Alike, OutOf
<1>2. runs[r].state = "queued" => row.state # "running"
  BY DEF Alike
<1> QED
  BY <1>1, <1>2, WrittenCalm

LEMMA TouchedStarts ==
  ASSUME TypeOK, NEW o \in Workers, NEW S, at'[o] = Touch(S)[o]
  PROVE  StartOf(o)' = StartOf(o)
<1>1. at'[o] = IF Deciding(o) /\ at[o].run \in S THEN Seen(at[o]) ELSE at[o]
  BY DEF Touch
<1>2. Deciding(o) => at[o] \in Passes
  BY WorkerIs
<1> QED
  BY <1>1, <1>2, SeenIs DEF StartOf, SamePass

\* A goroutine that has counted on nothing yet.
LEMMA NothingCounted ==
  ASSUME NEW w \in Workers, at'[w].pc \notin {"save", "hand"}
  PROVE  StartOf(w)' = {}
  BY DEF StartOf

\* A step of one goroutine, and the others' passes at most see a write.
LEMMA OneStepsOn ==
  ASSUME TypeOK, NEW w \in Workers, NEW S, NEW q, at' = [Touch(S) EXCEPT ![w] = q]
  PROVE  /\ \A o \in Workers : o # w => StartOf(o)' = StartOf(o)
         /\ q.pc \notin {"save", "hand"} => StartOf(w)' = {} /\ StartsStay
<1>1. at'[w] = q /\ \A o \in Workers : o # w => at'[o] = Touch(S)[o]
  BY TouchedExcept
<1>2. \A o \in Workers : o # w => StartOf(o)' = StartOf(o)
  BY <1>1, TouchedStarts
<1>3. q.pc \notin {"save", "hand"} => StartOf(w)' = {}
  BY <1>1, NothingCounted
<1> QED
  BY <1>2, <1>3 DEF StartsStay

LEMMA OneGoesTo ==
  ASSUME TypeOK, NEW w \in Workers, NEW q, at' = [at EXCEPT ![w] = q]
  PROVE  /\ \A o \in Workers : o # w => StartOf(o)' = StartOf(o)
         /\ q.pc \notin {"save", "hand"} => StartOf(w)' = {} /\ StartsStay
<1>1. at' = [Touch({}) EXCEPT ![w] = q]
  BY DEF Touch, TypeOK
<1> QED
  BY <1>1, OneStepsOn

\* A turn or a rest counts on nothing.
LEMMA TurnsCountNothing ==
  /\ Idle.pc \notin {"save", "hand"}
  /\ \A pc, r : To(pc, r).pc = pc
  /\ \A pc, r, touched : Pass(pc, r, touched).pc = pc
  BY DEF Idle, To, Pass

LEMMA ReadingCountsNothing ==
  ASSUME NEW r
  PROVE  Reading(r).pc \notin {"save", "hand"}
  BY TurnsCountNothing DEF Reading

\* The steps that start nothing and put nothing out.
Calm == OutStays /\ NobodyStarts /\ StartsStay

LEMMA OutsideIsCalm ==
  ASSUME IInv, \/ \E wf \in Workflows : Start(wf)
               \/ \E r \in Ids : RequestCancel(r) \/ Swept(r)
               \/ Revoke \/ Crash
  PROVE  Calm
<1>1. TypeOK
  BY DEF IInv
<1>2. ASSUME UNCHANGED at PROVE StartsStay
  BY <1>2 DEF StartsStay, StartOf
<1>3. ASSUME NEW wf \in Workflows, Start(wf) PROVE Calm
  <2>1. /\ Fresh \in Ids /\ runs' = [runs EXCEPT ![Fresh] = NewRow(wf, NoRun, 0)] /\ UNCHANGED <<out, at>>
    BY <1>3 DEF Start
  <2>2. /\ Created' = Created \cup {Fresh} /\ \A x \in Created : runs'[x] = runs[x]
        /\ runs'[Fresh].published = {}
    BY <2>1, RunCreated
  <2> QED
    BY <1>2, <2>1, <2>2, NewRowCalm DEF Calm
<1>4. ASSUME NEW r \in Ids, RequestCancel(r) PROVE Calm
  <2> SUFFICES ASSUME NEW row, row = AskedToCancel(runs[r]) PROVE Calm
      OBVIOUS
  <2>1. r \in Created /\ runs' = [runs EXCEPT ![r] = row] /\ at' = Touch({r})
    BY <1>1, <1>4 DEF RequestCancel, TypeOK
  <2>2. row \in Row /\ Alike(row, runs[r])
    BY <1>1, <2>1, CreatedAre, AskedIs
  <2>3. OneWritten(r, row)
    BY <1>1, <2>1, <2>2, ReplacedIs
  <2>4. StartsStay
    BY <1>1, <2>1, TouchedStarts DEF StartsStay
  <2> QED
    BY <2>1, <2>2, <2>3, <2>4, AlikeCalm DEF Calm
<1>5. ASSUME NEW r \in Ids, Swept(r) PROVE Calm
  <2>1. at' = [at EXCEPT !["watch"] = Reading(r)] /\ UNCHANGED runs /\ "watch" \in Workers
    BY <1>5 DEF Swept, Workers
  <2> QED
    BY <1>1, <2>1, OneGoesTo, ReadingCountsNothing, SameRowsCalm DEF Calm
<1>6. ASSUME Revoke PROVE Calm
  BY <1>2, <1>6, SameRowsCalm DEF Calm, Revoke
<1>7. ASSUME Crash PROVE Calm
  <2>1. UNCHANGED runs /\ \A o \in Workers : at'[o].pc \notin {"save", "hand"}
    BY <1>7, TurnsCountNothing DEF Crash
  <2> QED
    BY <2>1, SameRowsCalm, NothingCounted DEF Calm, StartsStay
<1> QED
  BY <1>3, <1>4, <1>5, <1>6, <1>7

LEMMA AnswerIsCalm ==
  ASSUME IInv, NEW r \in Ids, NEW t \in out[r], NEW fate \in {"succeeded", "failed"}, Answer(r, t, fate)
  PROVE  Calm
<1>1. TypeOK /\ r \in Created /\ runs[r] \in Row /\ t \in DOMAIN runs[r].tasks
      /\ runs[r].published \subseteq DOMAIN runs[r].tasks
  <2>1. TypeOK /\ r \in Created
    BY DEF IInv, RowsAgree
  <2> QED
    BY <2>1, CreatedAre DEF IInv, RowsAgree, RowAgrees
<1>2. CASE UNCHANGED <<runs, at>>
  BY <1>2, SameRowsCalm DEF Calm, StartsStay, StartOf
<1>3. CASE /\ runs' = [runs EXCEPT ![r].tasks[t] = fate, ![r].seq = @ + 1, ![r].wake = TRUE]
           /\ at' = [Touch({r}) EXCEPT !["answers"] = To("read", r)]
  <2> SUFFICES ASSUME NEW row, row = AnsweredRow(runs[r], t, fate) PROVE Calm
      OBVIOUS
  <2>1. runs' = [runs EXCEPT ![r] = row]
    BY <1>1, <1>3 DEF AnsweredRow, TypeOK
  <2>2. fate \in Over /\ fate \notin InFlight
    BY DEF Over, InFlight
  <2>3. row \in Row /\ row.state = runs[r].state /\ row.published = runs[r].published
    BY <1>1, <2>2, AnsweredRowIs
  <2>4. row.tasks[t] = fate /\ \A u \in DOMAIN runs[r].tasks : u # t => row.tasks[u] = runs[r].tasks[u]
    BY <1>1, <2>2, AnsweredRowIs
  <2>5. OneWritten(r, row)
    BY <1>1, <2>1, <2>3, ReplacedIs
  <2>6. \A u \in row.published : row.tasks[u] \in InFlight => u \in OutOf(r)
    BY <1>1, <2>2, <2>3, <2>4 DEF OutOf
  <2>7. runs[r].state = "queued" => row.state # "running"
    BY <2>3
  <2>8. OutStays /\ NobodyStarts
    BY <1>1, <2>5, <2>6, <2>7, WrittenCalm
  <2>9. "answers" \in Workers /\ To("read", r).pc \notin {"save", "hand"}
    BY TurnsCountNothing DEF Workers
  <2>10. StartsStay
    BY <1>1, <1>3, <2>9, OneStepsOn
  <2> QED
    BY <2>8, <2>10 DEF Calm
<1> QED
  BY <1>2, <1>3 DEF Answer

LEMMA CancelIsCalm ==
  ASSUME IInv, NEW w \in Workers, Cancel(w)
  PROVE  Calm
<1> SUFFICES ASSUME NEW r, r = at[w].run, NEW row, row = CancelRow(runs[r]) PROVE Calm
    OBVIOUS
<1>1. TypeOK /\ r \in Created
  BY DEF IInv, TurnAgrees, Cancel, Busy
<1>2. CASE Goto(w, Idle) /\ UNCHANGED runs
  BY <1>1, <1>2, OneGoesTo, TurnsCountNothing, SameRowsCalm DEF Calm, Goto
<1>3. CASE /\ runs' = Written(r, row) /\ at' = [Touch({r} \cup Told(r, row)) EXCEPT ![w] = Idle]
  <2>1. runs[r] \in Row /\ runs[r].published \subseteq DOMAIN runs[r].tasks
    BY <1>1, CreatedAre DEF IInv, RowsAgree, RowAgrees
  <2>2. row \in Row /\ row.state = "cancelled" /\ row.published = runs[r].published
    BY <2>1, CancelRowIs
  <2>3. DOMAIN row.tasks = DOMAIN runs[r].tasks /\ \A t \in DOMAIN row.tasks : row.tasks[t] \notin InFlight
    BY <2>1, CancelRowIs
  <2>4. OneWritten(r, row)
    BY <1>1, <1>3, <2>2, WrittenIs
  <2>5. \A u \in row.published : row.tasks[u] \in InFlight => u \in OutOf(r)
    BY <2>1, <2>2, <2>3
  <2>6. OutStays /\ NobodyStarts
    BY <1>1, <2>2, <2>4, <2>5, WrittenCalm
  <2>7. StartsStay
    BY <1>1, <1>3, OneStepsOn, TurnsCountNothing
  <2> QED
    BY <2>6, <2>7 DEF Calm
<1> QED
  BY <1>2, <1>3 DEF Cancel

LEMMA AdmittedIsCalm ==
  ASSUME IInv, NEW w \in Workers, Admitted(w)
  PROVE  Calm
<1>0. SUFFICES ASSUME NEW r, r = at[w].run, NEW g, g = GroupOf[runs[r].wf], NEW row, row = InGroup(runs[r], g)
                PROVE  Calm
    OBVIOUS
<1>1. TypeOK /\ r \in Created
  BY <1>0 DEF IInv, TurnAgrees, Admitted, Busy
<1>2. runs[r] \in Row /\ runs[r].wf \in Workflows
  BY <1>1, CreatedAre, RowHas
<1>3. row \in Row /\ Alike(row, runs[r])
  BY <1>0, <1>2, InGroupIs
<1>4. runs' = [runs EXCEPT ![r] = row]
  BY <1>0, <1>1, <1>2 DEF Admitted, InGroup, TypeOK
<1>5. OneWritten(r, row)
  BY <1>1, <1>3, <1>4, ReplacedIs
<1>6. \E q : at' = [Touch({r}) EXCEPT ![w] = q] /\ q.pc \notin {"save", "hand"}
  <2> DEFINE q == IF g # NoGroup /\ Holding(g) # {}
                  THEN IF runs[r].wf \in CancelInProgress
                       THEN To("cancel", CHOOSE h \in Holding(g) : TRUE)
                       ELSE Idle
                  ELSE IF (g = NoGroup \/ NextInLine(r, Queued(g) \cup {r})) /\ Slots > 0
                       THEN Pass("calls", r, TRUE)
                       ELSE Idle
  <2>1. at' = [Touch({r}) EXCEPT ![w] = q]
    BY <1>0 DEF Admitted
  <2>2. q.pc \notin {"save", "hand"}
    BY TurnsCountNothing
  <2> QED
    BY <2>1, <2>2
<1>7. StartsStay
  BY <1>1, <1>6, OneStepsOn
<1> QED
  BY <1>1, <1>3, <1>5, <1>7, AlikeCalm DEF Calm

LEMMA ReadIsCalm ==
  ASSUME IInv, NEW w \in Workers, Read(w)
  PROVE  Calm
<1>1. at' = [at EXCEPT ![w] = Reading(at[w].run)] /\ UNCHANGED runs /\ TypeOK
  BY DEF Read, Goto, IInv
<1> QED
  BY <1>1, OneGoesTo, ReadingCountsNothing, SameRowsCalm DEF Calm

\* Looking to a call counts on nothing.
LEMMA CallsCountNothing ==
  ASSUME NEW p \in Passes
  PROVE  /\ \A c : Dispatched(p, c).pc = "quota"
         /\ \A as : EndedCall(p, as).pc = "quota"
         /\ \A pc : [p EXCEPT !.pc = pc].pc = pc
         /\ Returned(p).pc = "quota" /\ Call(p).pc \in {"quota", "ask"}
<1>1. \A c : Dispatched(p, c).pc = "quota"
  BY DEF Dispatched, Passes
<1>2. \A as : EndedCall(p, as).pc = "quota"
  BY DEF EndedCall, Passes
<1>3. \A pc : [p EXCEPT !.pc = pc].pc = pc
  BY DEF Passes
<1>4. Returned(p).pc = "quota"
  BY <1>2, <1>3 DEF Returned
<1>5. Call(p).pc \in {"quota", "ask"}
  BY <1>1, <1>2, <1>3 DEF Call
<1> QED
  BY <1>1, <1>2, <1>3, <1>4, <1>5

LEMMA CallsIsCalm ==
  ASSUME IInv, NEW w \in Workers, Calls(w)
  PROVE  Calm
<1> SUFFICES ASSUME NEW p, p = at[w] PROVE Calm
    OBVIOUS
<1>1. TypeOK /\ p \in Passes /\ UNCHANGED runs
  BY WorkerIs DEF IInv, Calls, Busy, Deciding
<1>2. p.doc.call = "dispatched" => ~ Reached(p.doc)
  BY DEF Reached
<1>3. \E q : at' = [at EXCEPT ![w] = q] /\ q.pc \in {"quota", "ask"}
  <2>1. \/ Goto(w, Returned(p)) \/ Goto(w, Call(p)) \/ Goto(w, [p EXCEPT !.pc = "quota"])
    BY <1>2 DEF Calls
  <2>2. \A q : q \in {Returned(p), Call(p), [p EXCEPT !.pc = "quota"]} => q.pc \in {"quota", "ask"}
    <3>1. \A q : q = [p EXCEPT !.pc = "quota"] => q.pc = "quota"
      BY <1>1 DEF Passes
    <3> QED
      BY <1>1, <3>1, CallsCountNothing
  <2>3. \E q \in {Returned(p), Call(p), [p EXCEPT !.pc = "quota"]} : Goto(w, q)
    BY <2>1
  <2> QED
    BY <2>2, <2>3 DEF Goto
<1> QED
  BY <1>1, <1>3, OneGoesTo, SameRowsCalm DEF Calm

LEMMA AskIsCalm ==
  ASSUME IInv, NEW w \in Workers, Ask(w)
  PROVE  Calm
<1> SUFFICES ASSUME NEW p, p = at[w], NEW q, q = [p EXCEPT !.pc = "create"] PROVE Calm
    OBVIOUS
<1>1. TypeOK /\ p \in Passes /\ UNCHANGED runs
  BY WorkerIs DEF IInv, Ask, Busy, Deciding
<1>2. q.pc = "create"
  BY <1>1 DEF Passes
<1>3. at' = [at EXCEPT ![w] = q] \/ at' = [at EXCEPT ![w] = EndedCall(p, "failed")]
  BY DEF Ask, Goto
<1> QED
  BY <1>1, <1>2, <1>3, CallsCountNothing, OneGoesTo, SameRowsCalm DEF Calm

LEMMA CreateIsCalm ==
  ASSUME IInv, NEW w \in Workers, Create(w)
  PROVE  Calm
<1> SUFFICES ASSUME NEW p, p = at[w], NEW r, r = at[w].run PROVE Calm
    OBVIOUS
<1>1. TypeOK /\ p \in Passes /\ Deciding(w) /\ p.doc \in Row /\ r \in Created /\ r \in Ids /\ UNCHANGED out
  BY WorkerIs DEF IInv, Create, Busy, Deciding, PassAgrees
<1>2. CASE Goto(w, [p EXCEPT !.pc = "calls"]) /\ UNCHANGED runs
  <2> SUFFICES ASSUME NEW q, q = [p EXCEPT !.pc = "calls"] PROVE Calm
      OBVIOUS
  <2>1. q.pc = "calls" /\ at' = [at EXCEPT ![w] = q]
    BY <1>1, <1>2 DEF Passes, Goto
  <2> QED
    BY <1>1, <1>2, <2>1, OneGoesTo, SameRowsCalm DEF Calm
<1>3. CASE Goto(w, EndedCall(p, "failed")) /\ UNCHANGED runs
  BY <1>1, <1>3, CallsCountNothing, OneGoesTo, SameRowsCalm DEF Calm, Goto
<1>4. CASE /\ CalledBy(r) = {} /\ Fresh \in Ids
           /\ runs' = [runs EXCEPT ![Fresh] = NewRow(CalleeOf[p.doc.wf], r, p.doc.depth + 1)]
           /\ Goto(w, Dispatched(p, Fresh))
  <2>1. CalleeOf[p.doc.wf] \in Workflows
    <3>1. p.doc.wf \in Workflows
      BY <1>1, RowHas
    <3>2. CalleeOf[p.doc.wf] # NoWorkflow
      BY <1>1 DEF IInv, PassInOrder, Create, Busy, Reached
    <3> QED
      BY <3>1, <3>2, AdmissionAssumption
  <2>2. p.doc.depth + 1 \in Nat /\ r \in Ids \cup {NoRun} /\ out' = out
    BY <1>1, RowHas
  <2>3. /\ Created' = Created \cup {Fresh} /\ \A x \in Created : runs'[x] = runs[x]
        /\ runs'[Fresh].published = {}
    BY <1>1, <1>4, <2>1, <2>2, RunCreated
  <2>4. StartsStay
    BY <1>1, <1>4, CallsCountNothing, OneGoesTo DEF Goto
  <2> QED
    BY <2>3, <2>4, NewRowCalm DEF Calm
<1> QED
  BY <1>2, <1>3, <1>4 DEF Create

\* Counting what may still be handed out puts nothing out.
LEMMA WithinTheQuotaCounts ==
  ASSUME IInv, NEW w \in Workers, WithinTheQuota(w)
  PROVE  /\ OutStays /\ NobodyStarts /\ StartOf(w) = {}
         /\ \A o \in Workers : o # w => StartOf(o)' = StartOf(o)
         /\ StartOf(w)' \subseteq LeastOf(Pending(at[w].doc), Slots)
<1> SUFFICES ASSUME NEW p, p = at[w], NEW r, r = at[w].run, NEW row, row = Rested(runs[r]),
                    NEW verdict, verdict = Verdict(at[w].doc),
                    NEW go, go = LeastOf(Pending(at[w].doc), Slots)
             PROVE  /\ OutStays /\ NobodyStarts /\ StartOf(w) = {}
                    /\ \A o \in Workers : o # w => StartOf(o)' = StartOf(o)
                    /\ StartOf(w)' \subseteq go
    OBVIOUS
<1>1. at[w].pc = "quota" /\ Deciding(w) /\ TypeOK
  BY DEF WithinTheQuota, Busy, Deciding, IInv
<1>2. p \in Passes /\ r \in Created /\ runs[r] \in Row /\ at[w].doc \in Row
  BY <1>1, WorkerIs, CreatedAre DEF IInv, PassAgrees
<1>3. StartOf(w) = {}
  BY <1>1 DEF StartOf
<1>4. CASE \E pc \in {"save", "hand"} : at' = [at EXCEPT ![w] = Decided(p, verdict, go, pc)] /\ UNCHANGED runs
  <2>1. PICK pc \in {"save", "hand"} :
          at' = [at EXCEPT ![w] = Decided(p, verdict, go, pc)] /\ UNCHANGED runs
    BY <1>4
  <2> SUFFICES ASSUME NEW q, q = Decided(p, verdict, go, pc)
               PROVE  /\ OutStays /\ NobodyStarts /\ StartOf(w) = {}
                      /\ \A o \in Workers : o # w => StartOf(o)' = StartOf(o)
                      /\ StartOf(w)' \subseteq go
      OBVIOUS
  <2>2. at'[w] = q
    BY <1>1, <2>1 DEF TypeOK
  <2>3. go \in SUBSET Nat /\ verdict \in Live \cup Over
    <3>1. go \in SUBSET Nat
      BY <1>2, TasksAre DEF Pending, LeastOf
    <3>2. verdict \in {"running", "failed", "succeeded"}
      BY DEF Verdict
    <3> QED
      BY <3>1, <3>2 DEF Live, Over
  <2>4. q.start = go
    BY <1>2, <2>3, PassDecides
  <2>5. StartOf(w)' \subseteq go
    BY <2>2, <2>4 DEF StartOf
  <2> QED
    BY <1>1, <1>3, <2>1, <2>5, OneGoesTo, SameRowsCalm
<1>5. CASE Goto(w, Idle) /\ UNCHANGED runs
  BY <1>1, <1>3, <1>5, OneGoesTo, TurnsCountNothing, SameRowsCalm DEF Goto
<1>6. CASE /\ runs' = [runs EXCEPT ![r].wake = FALSE] /\ at' = [Touch({r}) EXCEPT ![w] = Idle]
  <2>1. row \in Row /\ Alike(row, runs[r])
    BY <1>2, RestedIs
  <2>2. runs' = [runs EXCEPT ![r] = row]
    BY <1>1, <1>2, <1>6 DEF Rested, TypeOK
  <2>3. OneWritten(r, row)
    BY <1>1, <1>2, <2>1, <2>2, ReplacedIs
  <2>4. OutStays /\ NobodyStarts
    BY <1>2, <2>1, <2>3, AlikeCalm
  <2> QED
    BY <1>1, <1>3, <1>6, <2>4, OneStepsOn, TurnsCountNothing
<1>7. \/ \E pc \in {"save", "hand"} : at' = [at EXCEPT ![w] = Decided(p, verdict, go, pc)] /\ UNCHANGED runs
      \/ Goto(w, Idle) /\ UNCHANGED runs
      \/ /\ runs' = [runs EXCEPT ![r].wake = FALSE] /\ at' = [Touch({r}) EXCEPT ![w] = Idle]
  BY DEF WithinTheQuota, Goto, Decided
<1> QED
  BY <1>4, <1>5, <1>6, <1>7

\* A decision saved puts nothing out, and starts no run but the one the watch has let in.
LEMMA SaveStartsTheAdmitted ==
  ASSUME IInv, NEW w \in Workers, Save(w)
  PROVE  /\ OutStays /\ StartsStay
         /\ \A x \in Created : runs[x].state = "queued" /\ runs'[x].state = "running" =>
              /\ w = "watch" /\ Deciding(w) /\ x = at[w].run /\ at[w].doc.seq = 0
<1>0. SUFFICES ASSUME NEW p, p = at[w], NEW r, r = at[w].run, NEW doc, doc = at[w].doc,
                       NEW row, row = Saved(r, doc), NEW S, S = {r} \cup Told(r, row)
                PROVE  /\ OutStays /\ StartsStay
                       /\ \A x \in Created : runs[x].state = "queued" /\ runs'[x].state = "running" =>
                            /\ w = "watch" /\ Deciding(w) /\ x = r /\ doc.seq = 0
    OBVIOUS
<1>1. at[w].pc = "save" /\ Deciding(w) /\ TypeOK /\ at[w].pc \in {"save", "hand"}
  BY DEF Save, Busy, IInv, Deciding
<1>2. CASE Goto(w, Idle) /\ UNCHANGED runs
  BY <1>1, <1>2, OneGoesTo, TurnsCountNothing, SameRowsCalm DEF Goto
<1>3. CASE /\ doc.seq = runs[r].seq /\ runs' = Written(r, row)
           /\ at' = [Touch(S) EXCEPT ![w] = IF p.start = {} THEN Idle ELSE ToHand(p, row)]
  <2>1. /\ r \in Created /\ r \in Ids /\ runs[r] \in Row /\ doc \in Row /\ p \in Passes
        /\ runs[r].state = (IF doc.seq = 0 THEN "queued" ELSE "running")
        /\ doc.tasks = runs[r].tasks /\ (doc.seq = 0 => w = "watch")
    BY <1>0, <1>1, <1>3, DecisionHolds
  <2>2. row \in Row /\ row.tasks = doc.tasks /\ row.published = runs[r].published
    BY <1>0, <2>1, SavedIs
  <2>3. OneWritten(r, row)
    BY <1>1, <1>3, <2>1, <2>2, WrittenIs
  <2>4. \A u \in row.published : row.tasks[u] \in InFlight => u \in OutOf(r)
    BY <2>1, <2>2 DEF OutOf
  <2>5. OutStays
    BY <2>1, <2>3, <2>4, WrittenCalm
  <2>6. \A x \in Created : x # r => runs'[x].state = runs[x].state
    BY <2>3 DEF OneWritten, Alike
  <2>7. PICK q : q = IF p.start = {} THEN Idle ELSE ToHand(p, row)
    OBVIOUS
  <2>8. at' = [Touch(S) EXCEPT ![w] = q]
    BY <1>3, <2>7
  <2>9. at'[w] = q
    BY <2>8, TouchedExcept
  <2>10. p.start # {} => q.start = p.start
    BY <2>1, <2>2, <2>7, ToHandIs
  <2>11. StartOf(w)' \subseteq StartOf(w)
    <3>1. CASE p.start = {}
      BY <2>7, <2>9, <3>1, TurnsCountNothing DEF StartOf
    <3>2. CASE p.start # {}
      BY <1>0, <1>1, <2>9, <2>10, <3>2 DEF StartOf
    <3> QED
      BY <3>1, <3>2
  <2>12. StartsStay
    <3>1. \A o \in Workers : o # w => StartOf(o)' = StartOf(o)
      BY <1>1, <2>8, OneStepsOn
    <3> QED
      BY <2>11, <3>1 DEF StartsStay
  <2> QED
    BY <1>1, <2>1, <2>5, <2>6, <2>12
<1> QED
  BY <1>0, <1>2, <1>3 DEF Save, ToHand

\* What is handed out is what was counted on, and no run is started by it.
LEMMA HandPutsOut ==
  ASSUME IInv, NEW w \in Workers, Hand(w)
  PROVE  /\ NobodyStarts /\ StartOf(w)' = {}
         /\ \A o \in Workers : o # w => StartOf(o)' = StartOf(o)
         /\ Held' \subseteq Held \cup ({at[w].run} \X StartOf(w))
<1> SUFFICES ASSUME NEW p, p = at[w], NEW r, r = at[w].run, NEW doc, doc = at[w].doc,
                    NEW start, start = at[w].start, NEW row, row = HandedRow(r, doc, start)
             PROVE  /\ NobodyStarts /\ StartOf(w)' = {}
                    /\ \A o \in Workers : o # w => StartOf(o)' = StartOf(o)
                    /\ Held' \subseteq Held \cup ({r} \X StartOf(w))
    OBVIOUS
<1>1. at[w].pc = "hand" /\ Deciding(w) /\ TypeOK /\ at[w].pc \in {"save", "hand"} /\ StartOf(w) = start
  BY DEF Hand, Busy, IInv, Deciding, StartOf
<1>2. CASE Goto(w, Idle) /\ UNCHANGED runs
  BY <1>1, <1>2, OneGoesTo, TurnsCountNothing, SameRowsCalm, HeldStays DEF Goto
<1>3. CASE /\ doc.seq = runs[r].seq /\ runs' = [runs EXCEPT ![r] = row]
           /\ at' = [Touch({r}) EXCEPT ![w] = Idle]
  <2>1. /\ r \in Created /\ r \in Ids /\ runs[r] \in Row /\ doc \in Row
        /\ runs[r].state = (IF doc.seq = 0 THEN "queued" ELSE "running")
        /\ doc.tasks = runs[r].tasks /\ doc.seq # 0 /\ start \subseteq Pending(doc)
    BY <1>1, <1>3, DecisionHolds
  <2>2. start \in SUBSET Nat
    BY <2>1, TasksAre DEF Pending
  <2>3. row \in Row
    BY <2>1, <2>2, HandedRowIs
  <2>4. row.published = runs[r].published \cup start
    BY <2>1, <2>2, HandedRowIs
  <2>5. \A t \in DOMAIN doc.tasks : row.tasks[t] = IF t \in start THEN "dispatched" ELSE doc.tasks[t]
    BY <2>1, <2>2, HandedRowIs
  <2>6. OneWritten(r, row)
    BY <1>1, <1>3, <2>1, <2>3, ReplacedIs
  <2>7. NobodyStarts
    <3>1. \A x \in Created : x # r => runs'[x].state = runs[x].state
      BY <2>6 DEF OneWritten, Alike
    <3> QED
      BY <2>1, <3>1 DEF NobodyStarts
  <2>8. \A x \in Created : x # r => OutOf(x)' = OutOf(x)
    BY <2>6 DEF OneWritten, Alike, OutOf
  <2>9. OutOf(r)' \subseteq OutOf(r) \cup start
    <3>1. runs'[r] = row /\ runs[r].published \subseteq DOMAIN runs[r].tasks
      BY <2>1, <2>6 DEF OneWritten, IInv, RowsAgree, RowAgrees
    <3> QED
      BY <2>1, <2>4, <2>5, <3>1 DEF OutOf
  <2>10. Held' \subseteq Held \cup ({r} \X start)
    <3>1. Created' = Created
      BY <2>6 DEF OneWritten
    <3> QED
      BY <2>8, <2>9, <3>1 DEF Held
  <2> QED
    BY <1>1, <1>3, <2>7, <2>10, OneStepsOn, TurnsCountNothing
<1>4. \/ Goto(w, Idle) /\ UNCHANGED runs
      \/ /\ doc.seq = runs[r].seq /\ runs' = [runs EXCEPT ![r] = row]
         /\ at' = [Touch({r}) EXCEPT ![w] = Idle]
  BY DEF Hand, HandedRow
<1> QED
  BY <1>2, <1>3, <1>4

\* Every other step is calm.
LEMMA OthersAreCalm ==
  ASSUME IInv, [Next]_vars, \A w \in Workers : ~ WithinTheQuota(w) /\ ~ Save(w) /\ ~ Hand(w)
  PROVE  Calm
<1>1. ASSUME NEW w \in Workers, Decide(w) PROVE Calm
  BY <1>1, ReadIsCalm, CancelIsCalm, AdmittedIsCalm, CallsIsCalm, AskIsCalm, CreateIsCalm DEF Decide
<1>2. ASSUME NEW r \in Ids, NEW t \in out[r], NEW fate \in {"succeeded", "failed"}, Answer(r, t, fate) PROVE Calm
  BY <1>2, AnswerIsCalm
<1>3. CASE UNCHANGED vars
  BY <1>3, SameRowsCalm DEF Calm, StartsStay, StartOf, vars
<1> QED
  BY <1>1, <1>2, <1>3, OutsideIsCalm DEF Next

LEMMA OldestStep ==
  ASSUME IInv, [Next]_vars, NEW r \in Created,
         runs[r].state = "queued", runs'[r].state = "running", runs[r].group # NoGroup
  PROVE  \A q \in Queued(runs[r].group) : r <= q
<1>1. PICK w \in Workers : Save(w)
  <2>1. \A w \in Workers : ~ WithinTheQuota(w) /\ ~ Hand(w)
    BY WithinTheQuotaCounts, HandPutsOut DEF NobodyStarts
  <2> QED
    BY <2>1, OthersAreCalm DEF Calm, NobodyStarts
<1>2. w = "watch" /\ Deciding(w) /\ r = at[w].run /\ at[w].doc.seq = 0
  BY <1>1, SaveStartsTheAdmitted
<1> QED
  BY <1>2 DEF IInv, Admitting

-----------------------------------------------------------------------------
(* The ceiling.                                                            *)

\* A set of numbers with a bound has a greatest.
LEMMA GreatestIs ==
  ASSUME NEW S \in SUBSET Nat, S # {}, NEW n \in Nat, \A s \in S : s <= n
  PROVE  \E m \in S : \A s \in S : s <= m
<1> DEFINE Less == {ss \in Nat \X Nat : ss[1] < ss[2]}
           Above == {k \in Nat : \A s \in S : s <= k}
<1>1. IsWellFoundedOn(Less, Nat)
  BY NatLessThanWellFounded DEF OpToRel
<1>2. Above \in SUBSET Nat /\ Above # {}
  BY DEF Above
<1> HIDE DEF Less
<1>3. PICK m \in Above : \A k \in Above : <<k, m>> \notin Less
  BY <1>1, <1>2, WFMin
<1>4. m \in Nat /\ \A s \in S : s <= m
  BY DEF Above
<1>5. m \in S
  <2> SUFFICES ASSUME m \notin S PROVE FALSE
      OBVIOUS
  <2>1. \A s \in S : s < m
    BY <1>4
  <2>2. m > 0
    <3>1. PICK s \in S : TRUE
      OBVIOUS
    <3>2. s \in Nat /\ s < m
      BY <2>1
    <3> QED
      BY <1>4, <3>2
  <2>3. m - 1 \in Nat /\ \A s \in S : s <= m - 1
    BY <1>4, <2>1, <2>2
  <2>4. m - 1 \in Above
    BY <2>3 DEF Above
  <2>5. <<m - 1, m>> \in Less
    BY <1>4, <2>3 DEF Less
  <2> QED
    BY <1>3, <2>4, <2>5
<1> QED
  BY <1>4, <1>5

\* The least n of a set of numbers are n at most.
LEMMA LeastAreFew ==
  ASSUME NEW S \in SUBSET Nat, NEW b \in Nat, \A s \in S : s <= b, NEW n \in Nat
  PROVE  IsFiniteSet(LeastOf(S, n)) /\ Cardinality(LeastOf(S, n)) <= n
<1> DEFINE L == LeastOf(S, n)
<1>1. IsFiniteSet(S)
  BY FS_BoundedSetOfNaturals
<1>2. L \subseteq S /\ \A t \in L : Cardinality({s \in S : s < t}) < n
  BY DEF LeastOf
<1> HIDE DEF L
<1>3. IsFiniteSet(L) /\ Cardinality(L) \in Nat
  BY <1>1, <1>2, FS_Subset, FS_CardinalityType
<1>4. CASE L = {}
  BY <1>3, <1>4, FS_EmptySet DEF L
<1>5. CASE L # {}
  <2>1. PICK m \in L : \A s \in L : s <= m
    BY <1>2, <1>5, GreatestIs
  <2> DEFINE Below == {s \in S : s < m}
  <2>2. m \in Nat /\ Cardinality(Below) < n
    BY <1>2
  <2>3. L \ {m} \subseteq Below /\ Below \subseteq S
    BY <1>2, <2>1, <2>2
  <2> HIDE DEF Below
  <2>4. IsFiniteSet(Below) /\ Cardinality(Below) \in Nat
    BY <1>1, <2>3, FS_Subset, FS_CardinalityType
  <2>5. Cardinality(L \ {m}) <= Cardinality(Below)
    BY <2>3, <2>4, FS_Subset
  <2>6. Cardinality(L \ {m}) = Cardinality(L) - 1
    BY <1>3, <2>1, FS_RemoveElement
  <2>7. Cardinality(L) <= n
    BY <1>3, <2>2, <2>4, <2>5, <2>6
  <2> QED
    BY <1>3, <2>7 DEF L
<1> QED
  BY <1>4, <1>5

\* What is out and what the goroutines count on handing out: each counted on no more than the
\* ceiling, and when the later of them counted, all that was out was counted too.
Bounded ==
  /\ IsFiniteSet(Held)
  /\ \A w \in Workers : IsFiniteSet(StartOf(w)) /\ Cardinality(StartOf(w)) <= Ceiling
  /\ Cardinality(Held) + Cardinality(StartOf("watch")) + Cardinality(StartOf("answers")) <= 2 * Ceiling

\* The ceiling and the sizes are numbers.
LEMMA SizesAreNumbers == (\A S : IsFiniteSet(S) => Cardinality(S) \in Nat) /\ Ceiling \in Nat
  BY FS_CardinalityType, AdmissionAssumption

\* A step that leaves less out and less counted on.
LEMMA LessIsBounded ==
  ASSUME Bounded, OutStays, StartsStay
  PROVE  Bounded'
<1>1. Held' \subseteq Held /\ \A w \in Workers : StartOf(w)' \subseteq StartOf(w)
  BY HeldStays DEF StartsStay
<1>2. IsFiniteSet(Held') /\ Cardinality(Held') <= Cardinality(Held)
  BY <1>1, FS_Subset DEF Bounded
<1>3. ASSUME NEW w \in Workers
      PROVE  /\ IsFiniteSet(StartOf(w)) /\ IsFiniteSet(StartOf(w)')
             /\ Cardinality(StartOf(w)') <= Cardinality(StartOf(w)) /\ Cardinality(StartOf(w)) <= Ceiling
  BY <1>1, FS_Subset DEF Bounded
<1>4. /\ Cardinality(Held) \in Nat /\ Cardinality(Held') \in Nat
      /\ \A w \in Workers : Cardinality(StartOf(w)) \in Nat /\ Cardinality(StartOf(w)') \in Nat
  BY <1>2, <1>3, SizesAreNumbers DEF Bounded
<1>5. \A w \in Workers : Cardinality(StartOf(w)') <= Ceiling
  BY <1>3, <1>4, SizesAreNumbers
<1>6. Cardinality(Held') + Cardinality(StartOf("watch")') + Cardinality(StartOf("answers")') <= 2 * Ceiling
  <2> DEFINE a == "watch" b == "answers"
  <2>1. a \in Workers /\ b \in Workers
    BY DEF Workers
  <2>2. Cardinality(Held) + Cardinality(StartOf(a)) + Cardinality(StartOf(b)) <= 2 * Ceiling
    BY DEF Bounded
  <2> HIDE DEF a, b
  <2>3. Cardinality(Held') + Cardinality(StartOf(a)') + Cardinality(StartOf(b)') <= 2 * Ceiling
    BY <1>2, <1>3, <1>4, <2>1, <2>2, SizesAreNumbers
  <2> QED
    BY <2>3 DEF a, b
<1> QED
  BY <1>2, <1>3, <1>5, <1>6 DEF Bounded

\* The bound, of one goroutine w and the other.
LEMMA BoundedOf ==
  ASSUME Bounded, NEW w \in Workers, NEW o \in Workers, o # w
  PROVE  /\ Cardinality(Held) \in Nat /\ Cardinality(StartOf(w)) \in Nat /\ Cardinality(StartOf(o)) \in Nat
         /\ Cardinality(StartOf(w)) <= Ceiling /\ Cardinality(StartOf(o)) <= Ceiling
         /\ Cardinality(Held) + Cardinality(StartOf(w)) + Cardinality(StartOf(o)) <= 2 * Ceiling
<1>1. /\ Cardinality(Held) \in Nat /\ Cardinality(StartOf(w)) \in Nat /\ Cardinality(StartOf(o)) \in Nat
      /\ Cardinality(StartOf(w)) <= Ceiling /\ Cardinality(StartOf(o)) <= Ceiling
  BY SizesAreNumbers DEF Bounded
<1>2. (w = "watch" /\ o = "answers") \/ (w = "answers" /\ o = "watch")
  BY DEF Workers
<1> QED
  BY <1>1, <1>2 DEF Bounded

LEMMA BoundedAgain ==
  ASSUME NEW w \in Workers, NEW o \in Workers, o # w,
         IsFiniteSet(Held'), IsFiniteSet(StartOf(w)'), IsFiniteSet(StartOf(o)'),
         Cardinality(StartOf(w)') <= Ceiling, Cardinality(StartOf(o)') <= Ceiling,
         Cardinality(Held') + Cardinality(StartOf(w)') + Cardinality(StartOf(o)') <= 2 * Ceiling
  PROVE  Bounded'
<1>1. /\ Cardinality(Held') \in Nat /\ Cardinality(StartOf(w)') \in Nat /\ Cardinality(StartOf(o)') \in Nat
  BY SizesAreNumbers
<1>2. CASE w = "watch" /\ o = "answers"
  BY <1>2 DEF Bounded, Workers
<1>3. CASE w = "answers" /\ o = "watch"
  BY <1>1, <1>3 DEF Bounded, Workers
<1> QED
  BY <1>2, <1>3 DEF Workers

LEMMA CountingIsBounded ==
  ASSUME IInv, Bounded, NEW w \in Workers, WithinTheQuota(w)
  PROVE  Bounded'
<1>1. PICK o \in Workers : o # w
  BY DEF Workers
<1> DEFINE S == Pending(at[w].doc)
<1>2. /\ OutStays /\ StartOf(w) = {} /\ StartOf(o)' = StartOf(o)
      /\ StartOf(w)' \subseteq LeastOf(S, Slots)
  BY <1>1, WithinTheQuotaCounts
<1>3. Held' \subseteq Held
  BY <1>2, HeldStays
<1>4. IsFiniteSet(Held') /\ Cardinality(Held') <= Cardinality(Held) /\ Cardinality(Held') \in Nat
  BY <1>3, FS_Subset, SizesAreNumbers DEF Bounded
<1>5. /\ Cardinality(Held) \in Nat /\ Cardinality(StartOf(w)) \in Nat /\ Cardinality(StartOf(o)) \in Nat
      /\ Cardinality(StartOf(o)) <= Ceiling
      /\ Cardinality(Held) + Cardinality(StartOf(w)) + Cardinality(StartOf(o)) <= 2 * Ceiling
  BY <1>1, BoundedOf
<1>6. Slots \in Nat /\ Slots <= Ceiling /\ (Cardinality(Held) >= Ceiling => Slots = 0)
      /\ (Cardinality(Held) < Ceiling => Slots = Ceiling - Cardinality(Held))
  BY <1>5, SizesAreNumbers DEF Slots
<1>7. S \in SUBSET Nat /\ \E b \in Nat : \A s \in S : s <= b
  <2>1. Deciding(w) /\ TypeOK
    BY DEF WithinTheQuota, Busy, Deciding, IInv
  <2>2. at[w].doc \in Row
    BY <2>1, WorkerIs
  <2>3. PICK n \in Nat : at[w].doc.tasks \in [1 .. n -> InFlight \cup Over]
    BY <2>2, TasksAre
  <2> QED
    BY <2>3 DEF Pending
<1> HIDE DEF S
<1>8. IsFiniteSet(LeastOf(S, Slots)) /\ Cardinality(LeastOf(S, Slots)) <= Slots
  BY <1>6, <1>7, LeastAreFew
<1>9. IsFiniteSet(StartOf(w)') /\ Cardinality(StartOf(w)') <= Cardinality(LeastOf(S, Slots))
  BY <1>2, <1>8, FS_Subset
<1>10. Cardinality(StartOf(w)') <= Slots /\ Cardinality(StartOf(w)') \in Nat
  BY <1>6, <1>8, <1>9, SizesAreNumbers
<1>11. Cardinality(StartOf(w)') <= Ceiling
  BY <1>6, <1>10, SizesAreNumbers
<1>12. Cardinality(StartOf(w)) = 0
  BY <1>2, FS_EmptySet
<1>13. Cardinality(Held') + Cardinality(StartOf(w)') + Cardinality(StartOf(o)) <= 2 * Ceiling
  BY <1>4, <1>5, <1>6, <1>10, <1>12, SizesAreNumbers
<1>14. IsFiniteSet(StartOf(o)') /\ Cardinality(StartOf(o)') = Cardinality(StartOf(o))
  BY <1>2 DEF Bounded
<1> QED
  BY <1>1, <1>4, <1>5, <1>9, <1>11, <1>13, <1>14, BoundedAgain

LEMMA HandingIsBounded ==
  ASSUME IInv, Bounded, NEW w \in Workers, Hand(w)
  PROVE  Bounded'
<1>1. PICK o \in Workers : o # w
  BY DEF Workers
<1> SUFFICES ASSUME NEW r, r = at[w].run, NEW S, S = StartOf(w) PROVE Bounded'
    OBVIOUS
<1>2. StartOf(w)' = {} /\ StartOf(o)' = StartOf(o) /\ Held' \subseteq Held \cup ({r} \X S)
  BY <1>1, HandPutsOut
<1>3. /\ Cardinality(Held) \in Nat /\ Cardinality(S) \in Nat /\ Cardinality(StartOf(o)) \in Nat
      /\ Cardinality(StartOf(o)) <= Ceiling
      /\ Cardinality(Held) + Cardinality(S) + Cardinality(StartOf(o)) <= 2 * Ceiling
  BY <1>1, BoundedOf
<1>4. IsFiniteSet(S) /\ IsFiniteSet(Held) /\ IsFiniteSet(StartOf(o))
  BY DEF Bounded
<1>5. IsFiniteSet({r} \X S) /\ Cardinality({r} \X S) = Cardinality(S)
  <2>1. IsFiniteSet({r}) /\ Cardinality({r}) = 1
    BY FS_Singleton
  <2>2. IsFiniteSet({r} \X S) /\ Cardinality({r} \X S) = 1 * Cardinality(S)
    BY <1>4, <2>1, FS_Product
  <2> QED
    BY <1>3, <2>2
<1>6. /\ IsFiniteSet(Held \cup ({r} \X S))
      /\ Cardinality(Held \cup ({r} \X S)) <= Cardinality(Held) + Cardinality(S)
  <2> DEFINE P == {r} \X S
  <2>1. IsFiniteSet(P) /\ Cardinality(P) = Cardinality(S)
    BY <1>5
  <2> HIDE DEF P
  <2>2. IsFiniteSet(Held \cap P) /\ Cardinality(Held \cap P) \in Nat
    BY <1>4, FS_Intersection, SizesAreNumbers
  <2>3. /\ IsFiniteSet(Held \cup P)
        /\ Cardinality(Held \cup P) = Cardinality(Held) + Cardinality(P) - Cardinality(Held \cap P)
    BY <1>4, <2>1, FS_Union
  <2>4. Cardinality(Held \cup P) <= Cardinality(Held) + Cardinality(S)
    BY <1>3, <2>1, <2>2, <2>3
  <2> QED
    BY <2>3, <2>4 DEF P
<1>7. IsFiniteSet(Held') /\ Cardinality(Held') <= Cardinality(Held \cup ({r} \X S))
  BY <1>2, <1>6, FS_Subset
<1>8. Cardinality(Held') \in Nat /\ Cardinality(Held') <= Cardinality(Held) + Cardinality(S)
  <2>1. Cardinality(Held \cup ({r} \X S)) \in Nat
    BY <1>6, SizesAreNumbers
  <2> QED
    BY <1>3, <1>6, <1>7, <2>1, SizesAreNumbers
<1>9. IsFiniteSet(StartOf(w)') /\ Cardinality(StartOf(w)') = 0
  BY <1>2, FS_EmptySet
<1>10. IsFiniteSet(StartOf(o)') /\ Cardinality(StartOf(o)') = Cardinality(StartOf(o))
  BY <1>2, <1>4
<1>11. Cardinality(Held') + Cardinality(StartOf(w)') + Cardinality(StartOf(o)') <= 2 * Ceiling
  BY <1>3, <1>8, <1>9, <1>10, SizesAreNumbers
<1>12. Cardinality(StartOf(w)') <= Ceiling /\ Cardinality(StartOf(o)') <= Ceiling
  BY <1>3, <1>9, <1>10, SizesAreNumbers
<1> QED
  BY <1>1, <1>7, <1>9, <1>10, <1>11, <1>12, BoundedAgain

LEMMA BoundedInit == Init => Bounded
<1> SUFFICES ASSUME Init PROVE Bounded
    OBVIOUS
<1>1. Held = {}
  BY DEF Init, Held, Created
<1>2. \A w \in Workers : StartOf(w) = {}
  BY DEF Init, StartOf, Idle
<1>3. StartOf("watch") = {} /\ StartOf("answers") = {}
  BY <1>2 DEF Workers
<1>4. IsFiniteSet({}) /\ Cardinality({}) = 0 /\ 0 <= Ceiling /\ 0 + 0 + 0 <= 2 * Ceiling
  BY FS_EmptySet, SizesAreNumbers
<1> QED
  BY <1>1, <1>2, <1>3, <1>4, Zenon DEF Bounded

LEMMA BoundedStep == IInv /\ Bounded /\ [Next]_vars => Bounded'
<1> SUFFICES ASSUME IInv, Bounded, [Next]_vars PROVE Bounded'
    OBVIOUS
<1>1. ASSUME NEW w \in Workers, WithinTheQuota(w) PROVE Bounded'
  BY <1>1, CountingIsBounded
<1>2. ASSUME NEW w \in Workers, Save(w) PROVE Bounded'
  BY <1>2, SaveStartsTheAdmitted, LessIsBounded
<1>3. ASSUME NEW w \in Workers, Hand(w) PROVE Bounded'
  BY <1>3, HandingIsBounded
<1>4. CASE \A w \in Workers : ~ WithinTheQuota(w) /\ ~ Save(w) /\ ~ Hand(w)
  BY <1>4, OthersAreCalm, LessIsBounded DEF Calm
<1> QED
  BY <1>1, <1>2, <1>3, <1>4

\* A group holds one started run, for any workflows, groups, calls and quotas, and whatever the
\* controller's two goroutines and its deaths interleave (controller/admit.go, admitted).
THEOREM OneHolderHolds == Spec => []OneHolder
<1>1. IInv => OneHolder
  BY DEF IInv
<1> QED
  BY <1>1, AdmissionInvariant, PTL

\* A group lets in the oldest run it knows to queue, for any workflows and quotas and in every
\* step (db/runs.go, Holding; controller/admit.go, admitted).
THEOREM OldestFirstHolds == Spec => OldestFirst
<1>1. IInv /\ [Next]_vars =>
        [\A r \in Created :
            (runs[r].state = "queued" /\ runs'[r].state = "running" /\ runs[r].group # NoGroup)
               => \A q \in Queued(runs[r].group) : r <= q]_vars
  BY OldestStep
<1> QED
  BY <1>1, AdmissionInvariant, PTL DEF Spec, OldestFirst

\* A run that has not ended is found by a sweep or has a task out whose answer will come, for any
\* workflows and quotas: the sweep needs no notification (controller/decide.go, Rewake).
THEOREM NeverStrandedHolds == Spec => []NeverStranded
  BY AdmissionInvariant, NothingStranded, PTL

\* One dispatch of a call step starts one run and succeeds only with it, for any workflows, depths
\* and quotas (controller/call.go, call; db/calls.go).
THEOREM CalledOnceHolds == Spec => []CalledOnce
  BY AdmissionInvariant, OneCalled, PTL

\* The namespace holds at most twice its ceiling, for any ceiling, though what may be handed out is
\* counted in one transaction and used in a later one on two goroutines (controller/admit.go,
\* withinTheQuota; db/runs.go, Slots).
THEOREM OverrunBoundedHolds == Spec => []OverrunBounded
<1>1. Bounded => OverrunBounded
  <2> SUFFICES ASSUME Bounded PROVE Cardinality(Held) <= 2 * Ceiling
      BY DEF OverrunBounded
  <2>1. "watch" \in Workers /\ "answers" \in Workers /\ "watch" # "answers"
    BY DEF Workers
  <2> QED
    BY <2>1, BoundedOf, SizesAreNumbers
<1> QED
  BY <1>1, AdmissionInvariant, BoundedInit, BoundedStep, PTL DEF Spec
=============================================================================
