---------------------------- MODULE MCPlanExecutor ----------------------------
(* A small instance of PlanExecutor: one file, or a corrected name for it.   *)
EXTENDS PlanExecutor

CONSTANTS f1, f2, g1

MCWriter == Position \cup {Upload, Earlier}

Step(label, group, file, overwrite) ==
  [label |-> label, group |-> group, file |-> file, overwrite |-> overwrite]

(* Two writers in a group, and a step that follows; a writer alone; a plan  *)
(* beyond the cap; an empty one.                                            *)
MCPlans ==
  { << >>,
    <<Step(1, g1, f1, FALSE), Step(2, g1, f1, TRUE)>>,
    <<Step(1, NoGroup, f1, FALSE), Step(2, NoGroup, NoFile, FALSE)>>,
    <<Step(1, g1, NoFile, FALSE), Step(2, g1, NoFile, FALSE), Step(3, NoGroup, NoFile, FALSE)>>,
    [i \in 1..(MaxSteps + 1) |-> Step(i, NoGroup, NoFile, FALSE)] }

MCContinuations == { << >>, <<Step(11, NoGroup, f1, FALSE)>> }
=============================================================================
