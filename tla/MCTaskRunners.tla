--------------------------- MODULE MCTaskRunners ----------------------------
(* Small instances of TaskRunners. *)
EXTENDS TaskRunners, TLC

CONSTANTS r1, r2, q1, q2

(* All runners and requests of one type *)
OneType == [x \in Runners \cup Requests |-> "javascript"]

(* r1 and q1 of one type, r2 and q2 of another *)
TwoTypes == [x \in Runners \cup Requests |-> IF x \in {r1, q1} THEN "javascript" ELSE "python"]

Symmetric == Permutations({q1, q2})
=============================================================================
