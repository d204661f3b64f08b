------------------------------ MODULE MCGraph ------------------------------
(***************************************************************************)
(* Workflows for TLC.  Each is the plainest one in which a rule of the     *)
(* graph meets another: retries under max_parallel below a barrier, a      *)
(* handler of failures, fail_fast, zip, conditions and tasks that cannot   *)
(* be built, merge: first with and without a second consumer.              *)
(***************************************************************************)
EXTENDS Graph

Plain(names, needs) ==
  [order |-> names, needs |-> needs,
   merge |-> [s \in Range(names) |-> "wait_all"],
   when |-> [s \in Range(names) |-> {"succeeded"}],
   fed |-> [s \in Range(names) |-> -1],
   cond |-> [s \in Range(names) |-> "none"],
   tries |-> [s \in Range(names) |-> 1],
   parallel |-> [s \in Range(names) |-> 0],
   fanOut |-> [s \in Range(names) |-> FALSE],
   failFast |-> [s \in Range(names) |-> FALSE],
   tolerated |-> [s \in Range(names) |-> FALSE],
   builds |-> [s \in Range(names) |-> TRUE],
   outputs |-> {}, cuts |-> FALSE]

\* a feeds b, divided and retried one at a time, and c; d takes both.
Diamond ==
  [Plain(<<"a", "b", "c", "d">>,
         [a |-> <<>>, b |-> <<"a">>, c |-> <<"a">>, d |-> <<"b", "c">>])
   EXCEPT !.fanOut["b"] = TRUE, !.parallel["b"] = 1, !.tries["b"] = 2, !.tolerated["c"] = TRUE,
          !.when["d"] = {"succeeded", "failed"}]

\* b handles the failure of a; c runs whatever happened; a may be stopped early.
Handler ==
  [Plain(<<"a", "b", "c">>, [a |-> <<>>, b |-> <<"a">>, c |-> <<"a", "b">>])
   EXCEPT !.fed["a"] = 2, !.fanOut["a"] = TRUE, !.failFast["a"] = TRUE, !.tries["a"] = 2,
          !.when["b"] = {"failed"}, !.when["c"] = {"always"}, !.cuts = TRUE]

\* zip of two, a condition, and a step whose task cannot be built.
Zipped ==
  [Plain(<<"a", "b", "c", "d", "e">>,
         [a |-> <<>>, b |-> <<>>, c |-> <<"a", "b">>, d |-> <<"c">>, e |-> <<"c", "d">>])
   EXCEPT !.merge["c"] = "zip", !.fanOut["c"] = TRUE, !.builds["d"] = FALSE,
          !.fanOut["d"] = TRUE, !.tolerated["d"] = TRUE, !.cond["e"] = "false",
          !.when["e"] = {"succeeded", "failed", "skipped"}]

\* c takes the first of a and b; b is superseded when a wins.
First ==
  [Plain(<<"a", "b", "c">>, [a |-> <<>>, b |-> <<>>, c |-> <<"a", "b">>])
   EXCEPT !.merge["c"] = "first", !.fed["b"] = 2, !.fanOut["b"] = TRUE, !.parallel["b"] = 1,
          !.fanOut["c"] = TRUE, !.parallel["c"] = 1, !.cuts = TRUE]

\* As First, where d takes b too, so that b goes on after a has won.
FirstShared ==
  [Plain(<<"a", "b", "c", "d">>,
         [a |-> <<>>, b |-> <<>>, c |-> <<"a", "b">>, d |-> <<"b">>])
   EXCEPT !.merge["c"] = "first", !.fed["b"] = 2, !.fanOut["b"] = TRUE,
          !.fanOut["c"] = TRUE, !.parallel["c"] = 1]

MCFlows == {Diamond, Handler, Zipped, First}
MCShared == {FirstShared}
=============================================================================
