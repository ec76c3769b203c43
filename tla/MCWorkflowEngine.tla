-------------------------- MODULE MCWorkflowEngine --------------------------
(***************************************************************************)
(* Every workflow over five nodes whose connections are among the          *)
(* candidates: 1 starts and has two outputs, 2 and 3 have one input, 4 and *)
(* 5 up to two.                                                            *)
(***************************************************************************)
EXTENDS WorkflowEngine

FiveNodes == 1 .. 5

Edge(p, o, n, k) == <<p, [output |-> o, node |-> n, index |-> k]>>

Candidates ==
  {Edge(1, 0, 2, 0), Edge(1, 1, 3, 0), Edge(2, 0, 3, 0), Edge(1, 0, 4, 0), Edge(2, 0, 4, 0),
   Edge(3, 0, 4, 0), Edge(3, 0, 4, 1), Edge(4, 0, 5, 0), Edge(3, 0, 5, 1), Edge(5, 0, 4, 1)}

(* The arrays of connections in one order and in the other *)
Arrays(edges) ==
  LET of(n)      == {e[2] : e \in {f \in edges : f[1] = n}}
      up(c, d)   == c.node < d.node \/ (c.node = d.node /\ c.index < d.index)
      down(c, d) == up(d, c)
  IN  {[n \in FiveNodes |-> SetToSortSeq(of(n), up)], [n \in FiveNodes |-> SetToSortSeq(of(n), down)]}

Connected(edges) == \A e \in edges : e[1] = 1 \/ \E f \in edges : f[2].node = e[1]

AllWorkflows == UNION {Arrays(edges) : edges \in {s \in SUBSET Candidates : Connected(s)}}

TopDown == {[n \in FiveNodes |-> n], [n \in FiveNodes |-> 6 - n]}

TwoOutputs == [n \in FiveNodes |-> IF n = 1 THEN {0, 1} ELSE {0}]

OneInput == [n \in FiveNodes |-> 1]
=============================================================================
