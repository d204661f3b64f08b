---------------------------- MODULE MCAdmission ----------------------------
EXTENDS Admission
MCTasks  == [w \in Workflows |-> IF w = "wide" THEN 2 ELSE 1]
MCGroup  == [w \in Workflows |-> IF w \in {"wide", "eager"} THEN "g" ELSE NoGroup]
MCCallee == [w \in Workflows |-> IF w = "caller" THEN "eager" ELSE NoWorkflow]
=============================================================================
