--------------------------- MODULE WorkflowEngine ---------------------------
(***************************************************************************)
(* The main loop of WorkflowExecute in execution order v1: the stack of    *)
(* nodes to be executed, the nodes with several inputs that wait for data, *)
(* and the records of what was executed.  A workflow is an array of        *)
(* connections per node.  Data is told apart by where it comes from: the   *)
(* node, its run and its output.                                           *)
(***************************************************************************)
EXTENDS Integers, Sequences, SequencesExt, FiniteSetsExt

CONSTANTS
  Nodes, Start,
  Outputs,      \* Outputs[n] : the outputs of n
  Workflows,    \* the workflows to be executed
  Positions,    \* the places of nodes on the canvas: which one is more to the top-left
  Required,     \* Required[n] : inputs that need data before n is executed
  Nothing,      \* no data at an input
  Trigger,      \* the data the start node is given
  MaxRuns,      \* bound of the model: runs of a node
  MaxWaits      \* bound of the model: nodes that put the execution to wait

Output     == UNION {Outputs[n] : n \in Nodes}
Source     == Nodes \X (1 .. MaxRuns) \X Output
Connection == [output : Output, node : Nodes, index : Nat]

ASSUME StartAssumption    == Start \in Nodes
ASSUME OutputsAssumption  == Outputs \in [Nodes -> SUBSET Nat] /\ \A n \in Nodes : 0 \in Outputs[n]
ASSUME WorkflowAssumption == Workflows \subseteq [Nodes -> Seq(Connection)]
ASSUME PositionAssumption == Positions \subseteq [Nodes -> Nat]
ASSUME RequiredAssumption == Required \in [Nodes -> Nat]
ASSUME DataAssumption     == Nothing \notin Source \cup {Trigger} /\ Trigger \notin Source
ASSUME BoundAssumption    == MaxRuns \in Nat \ {0} /\ MaxWaits \in Nat

VARIABLES
  workflow,
  parents,    \* parents[n] : the nodes from which n can be reached
  position,
  stack,      \* nodeExecutionStack
  waiting,    \* waiting[n][i] : the inputs in entry i of waitingExecution[n]
  names,      \* the keys of waitingExecution, in the order they were added
  runData,    \* runData[n][i] : the outputs on which run i of n gave data
  status,
  waits,
  sent,       \* history: the <<data, node, input>> that nodes have sent
  received,   \* history: the <<data, node, input>> that were executed
  unfed       \* history: the <<node, input>> that were executed without data

vars == <<workflow, parents, position, stack, waiting, names, runData, status, waits, sent, received, unfed>>

(* The inputs of a node, up to the last that has a connection *)
Inputs(n) ==
  LET used == {c.index : c \in {d \in UNION {Range(workflow[k]) : k \in Nodes} : d.node = n}}
  IN  UNION {0 .. k : k \in used \cup {0}}

(* getParentNodes of each node, the least set that has the nodes before n  *)
(* and before its members; a node in a loop is among its own.              *)
ParentNodes(w) ==
  LET before(s) == {p \in Nodes : \E c \in Range(w[p]) : c.node \in s}
      closed(n) == {s \in SUBSET Nodes : before(s \cup {n}) \subseteq s}
  IN  [n \in Nodes |-> {p \in Nodes : \A s \in closed(n) : p \in s}]

TypeOK ==
  /\ \A s \in Range(stack) :
       /\ s.node \in Nodes
       /\ s.data \in [Inputs(s.node) -> Source \cup {Nothing, Trigger}]
       /\ s.made \in 0 .. MaxWaits
       /\ s.disabled \in BOOLEAN
  /\ names \in Seq(Nodes) /\ IsInjective(names)
  /\ DOMAIN waiting = Nodes
  /\ \A n \in Nodes :
       /\ DOMAIN waiting[n] \subseteq Nat
       /\ \A i \in DOMAIN waiting[n] : waiting[n][i] \in [Inputs(n) -> Source \cup {Nothing}]
       /\ n \in Range(names) <=> DOMAIN waiting[n] # {}
  /\ runData \in [Nodes -> Seq(SUBSET Output)]
  /\ status \in {"running", "success", "error", "waiting", "canceled"}
  /\ waits \in 0 .. MaxWaits

(* WorkflowExecute.run *)
Init ==
  /\ workflow \in Workflows
  /\ parents = ParentNodes(workflow)
  /\ position \in Positions
  /\ stack = <<[node |-> Start, data |-> [i \in Inputs(Start) |-> Trigger], made |-> 0, disabled |-> FALSE]>>
  /\ waiting = [n \in Nodes |-> <<>>]
  /\ names = <<>>
  /\ runData = [n \in Nodes |-> <<>>]
  /\ status = "running"
  /\ waits = 0
  /\ sent = {}
  /\ received = {}
  /\ unfed = {}

-----------------------------------------------------------------------------
(* addNodeToBeExecuted                                                     *)

(* Items made since the execution was last resumed refer to the same       *)
(* object for the same node, also after they were saved and read again.    *)
Unshift(s, n, data) == <<[node |-> n, data |-> data, made |-> waits, disabled |-> FALSE]>> \o s

(* Mutant: n is kept without entries *)
RemoveEntryOnly(q, n, i) == [q EXCEPT !.waiting[n] = Restrict(@, DOMAIN @ \ {i})]

(* Removes entry i of n, and n when it was the last. *)
RemoveEntry(q, n, i) ==
  LET rest == Restrict(q.waiting[n], DOMAIN q.waiting[n] \ {i})
  IN  [stack |-> q.stack, waiting |-> [q.waiting EXCEPT ![n] = rest],
       names |-> IF DOMAIN rest = {} THEN RemoveFirst(q.names, n) ELSE q.names]

(* The first entry that lacks data for the input, or a new one whose index *)
(* is the number of entries                                                *)
EntryFor(entries, input) ==
  LET lacking == {i \in DOMAIN entries : entries[i][input] = Nothing}
  IN  IF lacking # {} THEN Min(lacking) ELSE Cardinality(DOMAIN entries)

(* The entries with new as entry i, in place of the one that was there *)
SetEntry(entries, i, new) == [k \in DOMAIN entries \cup {i} |-> IF k = i THEN new ELSE entries[k]]

(* The queue q (stack, waiting, names) when data comes for an input of n: a *)
(* node with one input is executed next, one with several once it has data  *)
(* for all of them.                                                         *)
AddNodeToBeExecuted(q, n, input, data) ==
  LET entries == q.waiting[n]
      i       == EntryFor(entries, input)
      joins   == i \in DOMAIN entries /\ entries[i][input] = Nothing
      old     == IF joins THEN entries[i] ELSE [k \in Inputs(n) |-> Nothing]
      new     == [old EXCEPT ![input] = data]
      added   == [stack |-> q.stack, waiting |-> [q.waiting EXCEPT ![n] = SetEntry(@, i, new)],
                  names |-> IF n \in Range(q.names) THEN q.names ELSE Append(q.names, n)]
  IN  IF Inputs(n) = {0}
      THEN [q EXCEPT !.stack = Unshift(@, n, [k \in Inputs(n) |-> data])]
      ELSE IF \A k \in Inputs(n) : new[k] # Nothing
      THEN [RemoveEntry(added, n, i) EXCEPT !.stack = Unshift(@, n, new)]
      ELSE added

-----------------------------------------------------------------------------
(* Nodes that wait when the stack is empty                                 *)

(* Mutant: parents that wait are not looked at *)
ExecutableAnyway(q, n) ==
  LET first == q.waiting[n][Min(DOMAIN q.waiting[n])]
  IN  Cardinality({k \in DOMAIN first : first[k] # Nothing}) >= Required[n]

(* The earliest entry of n has enough data, and no node before n waits. *)
Executable(q, n) ==
  LET first == q.waiting[n][Min(DOMAIN q.waiting[n])]
  IN  /\ (parents[n] \ {n}) \cap Range(q.names) = {}
      /\ Cardinality({k \in DOMAIN first : first[k] # Nothing}) >= Required[n]

(* Mutant: the entry stays *)
ExecuteWaitingAndKeep(q) ==
  LET ready == {k \in DOMAIN q.names : Executable(q, q.names[k])}
      n     == q.names[Min(ready)]
  IN  IF q.stack # <<>> \/ ready = {} THEN q
      ELSE [q EXCEPT !.stack = Unshift(@, n, q.waiting[n][Min(DOMAIN q.waiting[n])])]

(* The first node found executable is executed with the data it has. *)
ExecuteWaiting(q) ==
  LET ready == {k \in DOMAIN q.names : Executable(q, q.names[k])}
      n     == q.names[Min(ready)]
      i     == Min(DOMAIN q.waiting[n])
  IN  IF q.stack # <<>> \/ ready = {} THEN q
      ELSE [RemoveEntry(q, n, i) EXCEPT !.stack = Unshift(@, n, q.waiting[n][i])]

-----------------------------------------------------------------------------
(* The loop of processRunExecutionData                                     *)

item == Head(stack)

Deliveries(s) == {<<s.data[k], s.node, k>> : k \in {i \in DOMAIN s.data : s.data[i] # Nothing}}

(* The node at the head of the stack has been executed. *)
Executed ==
  /\ received' = received \cup Deliveries(item)
  /\ unfed' = unfed \cup {<<item.node, k>> : k \in {i \in DOMAIN item.data : item.data[i] = Nothing}}

Running ==
  /\ status = "running"
  /\ stack # <<>>
  /\ Len(runData[item.node]) < MaxRuns

(* Connections of node n whose output has data, in the order in which they *)
(* are added: the node most to the top-left last, and so executed first    *)
NodesToAdd(n, outputs) ==
  LET place(i)  == position[workflow[n][i].node]
      used      == {i \in DOMAIN workflow[n] : workflow[n][i].output \in outputs}
      before(i) == {j \in used : place(j) > place(i) \/ (place(j) = place(i) /\ j < i)}
      nth(k)    == CHOOSE i \in used : Cardinality(before(i)) = k - 1
  IN  [k \in 1 .. Cardinality(used) |-> workflow[n][nth(k)]]

(* The data that run number run of n gives on the output of c *)
DataOf(n, run, c) == <<n, run, c.output>>

(* The queue when data of a run of n was added along each connection in turn *)
AddNodes(q, n, run, adds) ==
  LET after[k \in 0 .. Len(adds)] ==
        IF k = 0 THEN q
        ELSE AddNodeToBeExecuted(after[k - 1], adds[k].node, adds[k].index, DataOf(n, run, adds[k]))
  IN  after[Len(adds)]

(* The node gives data, none on some outputs.  A disabled node gives what  *)
(* its first input has.                                                    *)
RunNode(outputs) ==
  LET n    == item.node
      run  == Len(runData[n]) + 1
      adds == NodesToAdd(n, outputs)
      rest == [stack |-> Tail(stack), waiting |-> waiting, names |-> names]
      q    == ExecuteWaiting(AddNodes(rest, n, run, adds))
  IN  /\ Running
      /\ outputs \subseteq Outputs[n]
      /\ item.disabled => outputs = {0}
      /\ stack' = q.stack
      /\ waiting' = q.waiting
      /\ names' = q.names
      /\ runData' = [runData EXCEPT ![n] = Append(@, outputs)]
      /\ sent' = sent \cup {<<DataOf(n, run, c), c.node, c.index>> : c \in Range(adds)}
      /\ Executed
      /\ UNCHANGED <<workflow, parents, position, status, waits>>

(* The node returns null: its branch ends, and the loop goes on at once. *)
ReturnNull ==
  /\ Running
  /\ ~item.disabled
  /\ stack' = Tail(stack)
  /\ Executed
  /\ UNCHANGED <<workflow, parents, position, waiting, names, runData, status, waits, sent>>

(* The node fails and does not continue: it stays on the stack for a retry. *)
Fail ==
  /\ Running
  /\ ~item.disabled
  /\ runData' = [runData EXCEPT ![item.node] = Append(@, {})]
  /\ status' = "error"
  /\ UNCHANGED <<workflow, parents, position, stack, waiting, names, waits, sent, received, unfed>>

(* A node with one input puts the execution to wait, and stays on the stack. *)
PutToWait ==
  /\ Running
  /\ ~item.disabled
  /\ Inputs(item.node) = {0}
  /\ waits < MaxWaits
  /\ waits' = waits + 1
  /\ runData' = [runData EXCEPT ![item.node] = Append(@, {0})]
  /\ status' = "waiting"
  /\ UNCHANGED <<workflow, parents, position, stack, waiting, names, sent, received, unfed>>

(* The node of the first item is disabled, in all items that refer to it. *)
DisableNode ==
  [i \in DOMAIN stack |->
    IF stack[i].node = item.node /\ stack[i].made = item.made
    THEN [stack[i] EXCEPT !.disabled = TRUE] ELSE stack[i]]

(* Mutant: all runs of the node are removed *)
ResumeAfresh ==
  /\ status = "waiting"
  /\ status' = "running"
  /\ stack' = DisableNode
  /\ runData' = [runData EXCEPT ![item.node] = <<>>]
  /\ UNCHANGED <<workflow, parents, position, waiting, names, waits, sent, received, unfed>>

(* Mutant: the node that waited is taken off the stack *)
ResumeNext ==
  /\ status = "waiting"
  /\ status' = "running"
  /\ stack' = Tail(stack)
  /\ runData' = [runData EXCEPT ![item.node] = Front(@)]
  /\ UNCHANGED <<workflow, parents, position, waiting, names, waits, sent, received, unfed>>

(* handleWaitingState: the node that waited is disabled, and its run removed. *)
Resume ==
  /\ status = "waiting"
  /\ status' = "running"
  /\ stack' = DisableNode
  /\ runData' = [runData EXCEPT ![item.node] = Front(@)]
  /\ UNCHANGED <<workflow, parents, position, waiting, names, waits, sent, received, unfed>>

(* The execution is cancelled or times out; the loop returns. *)
Cancel ==
  /\ status = "running"
  /\ stack # <<>>
  /\ status' = "canceled"
  /\ UNCHANGED <<workflow, parents, position, stack, waiting, names, runData, waits, sent, received, unfed>>

Finish ==
  /\ status = "running"
  /\ stack = <<>>
  /\ status' = "success"
  /\ UNCHANGED <<workflow, parents, position, stack, waiting, names, runData, waits, sent, received, unfed>>

Step == Finish \/ ReturnNull \/ Fail \/ PutToWait \/ \E outputs \in SUBSET Output : RunNode(outputs)

Next == Step \/ Resume \/ Cancel

Spec == Init /\ [][Next]_vars

-----------------------------------------------------------------------------
Acyclic == \A n \in Nodes : n \notin parents[n]

(* No input has two connections. *)
SingleConnections ==
  \A p, q \in Nodes : \A i \in DOMAIN workflow[p], j \in DOMAIN workflow[q] :
    workflow[p][i].node = workflow[q][j].node /\ workflow[p][i].index = workflow[q][j].index
      => <<p, i>> = <<q, j>>

(* The places where data that was sent to an input is found *)
HeldBy(d) ==
  {<<"stack", i>> : i \in {j \in DOMAIN stack : d \in Deliveries(stack[j])}}
  \cup {<<"waiting", i>> : i \in {j \in DOMAIN waiting[d[2]] : waiting[d[2]][j][d[3]] = d[1]}}
  \cup {<<"received", 0>> : r \in received \cap {d}}

(* No connection is listed twice. *)
DistinctConnections == \A n \in Nodes : IsInjective(workflow[n])

(* Nothing that a node sends is executed twice, or is yet to be executed   *)
(* in two places, however entries of waitingExecution are joined,          *)
(* completed, taken early and overwritten, and whatever waits, fails or is *)
(* cancelled; in any workflow, with loops and several connections to an    *)
(* input (addNodeToBeExecuted, and the choice among waiting nodes).        *)
NothingTwice == DistinctConnections => \A d \in sent : \A p, r \in HeldBy(d) : p = r

(* Whatever a node sends to the input of another is executed there once:   *)
(* it is not lost when entries of waitingExecution are joined, completed   *)
(* and removed, nor when an execution waits, fails or is cancelled         *)
(* (addNodeToBeExecuted, and the end of the loop).  For workflows without  *)
(* loops in which an input has one connection; see EverythingArrives.      *)
DataConserved == SingleConnections /\ Acyclic => \A d \in sent : Cardinality(HeldBy(d)) = 1

(* "There is currently no node waiting that does not already have data for *)
(* the given input, so create a new entry" (addNodeToBeExecuted): the new  *)
(* entry is beside those that wait, whose data arrives in the end.         *)
EverythingArrives == \A d \in sent : HeldBy(d) # {}

(* The source of data that is on the stack or waits is a recorded run that *)
(* gave it, also after the run of a node that waited was removed           *)
(* (previousNodeRun, and handleWaitingState).                              *)
SourceIsRecorded ==
  LET held == (UNION {Range(stack[i].data) : i \in DOMAIN stack})
              \cup (UNION {UNION {Range(waiting[n][i]) : i \in DOMAIN waiting[n]} : n \in Nodes})
  IN  \A d \in held \ {Nothing, Trigger} :
        d[2] \in DOMAIN runData[d[1]] /\ d[3] \in runData[d[1]][d[2]]

(* A node is executed without data for an input only when none will come:  *)
(* in a workflow without loops nothing is sent to that input afterwards    *)
(* (the choice among waiting nodes, parentIsWaiting).                      *)
PartialIsFinal ==
  [][Acyclic => \A d \in sent' \ sent : <<d[2], d[3]>> \notin unfed]_vars

(* "disabling the currently executing node (which should be the node that  *)
(* put the execution into waiting) making sure it won't be executed again" *)
(* (handleWaitingState): no other run of the node is left out.  Not so     *)
(* when it is on the stack twice.                                          *)
OnlyWaiterDisabled == \A i \in DOMAIN stack : stack[i].disabled => i = 1
=============================================================================
