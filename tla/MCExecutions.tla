---------------------------- MODULE MCExecutions ----------------------------
(* Small instances of ExecutionLifecycle. *)
EXTENDS ExecutionLifecycle, TLC

(* Runs per execution *)
Two == [e \in Executions |-> 2]
ThreeOfOne == LET first == CHOOSE e \in Executions : TRUE
              IN  [e \in Executions |-> IF e = first THEN 3 ELSE 1]
=============================================================================
