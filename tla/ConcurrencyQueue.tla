-------------------------- MODULE ConcurrencyQueue --------------------------
(***************************************************************************)
(* Concurrency control of an n8n process in regular mode                   *)
(* (packages/cli/src/concurrency): a limit on the production executions    *)
(* that run at the same time, and the queue of those that must wait.       *)
(* Nothing here awaits but enqueue, so every operation is one step.        *)
(***************************************************************************)
EXTENDS Integers, FiniteSets, Sequences

CONSTANTS
  Executions,  \* executions of workflows, in a mode the limit applies to
  MaxRuns,     \* bound of the model: MaxRuns[e] calls of WorkflowRunner.run for e
  Limit        \* the production concurrency limit

ASSUME ExecutionsAssumption == IsFiniteSet(Executions)
ASSUME MaxRunsAssumption    == MaxRuns \in [Executions -> Nat \ {0}]
ASSUME LimitAssumption      == Limit \in Nat \ {0}

(* <<e, 1>> is the run that creates execution e; the others restart it. *)
Run == UNION {{e} \X (1 .. MaxRuns[e]) : e \in Executions}
Execution(x) == x[1]

VARIABLES
  isEnabled,  \* ConcurrencyControlService.isEnabled
  capacity,   \* ConcurrencyQueue.capacity; negative while runs are queued
  queue,      \* ConcurrencyQueue.queue
  reserved    \* runs whose ConcurrencyCapacityReservation is acquired

queueVars == <<isEnabled, capacity, queue, reserved>>

QueueTypeOK ==
  /\ isEnabled \in BOOLEAN
  /\ capacity \in Int
  /\ queue \in Seq(Run)
  /\ reserved \subseteq Run

QueueInit ==
  /\ isEnabled = TRUE
  /\ capacity = Limit
  /\ queue = << >>
  /\ reserved = {}

(* Mutant: the last free slot lets two runs through *)
ThrottleOffByOne(x) ==
  /\ capacity' = IF isEnabled THEN capacity - 1 ELSE capacity
  /\ IF isEnabled /\ capacity - 1 < -1
     THEN queue' = Append(queue, x) /\ UNCHANGED reserved
     ELSE reserved' = reserved \cup {x} /\ UNCHANGED queue
  /\ UNCHANGED isEnabled

(* reserve, throttle, enqueue: x gets a slot, or waits in the queue. *)
Throttle(x) ==
  /\ capacity' = IF isEnabled THEN capacity - 1 ELSE capacity
  /\ IF isEnabled /\ capacity - 1 < 0
     THEN queue' = Append(queue, x) /\ UNCHANGED reserved
     ELSE reserved' = reserved \cup {x} /\ UNCHANGED queue
  /\ UNCHANGED isEnabled

(* resolveNext on the array rest: the first in it gets a slot.             *)
ResolveNext(held, rest) ==
  /\ reserved' = IF rest = << >> THEN held ELSE held \cup {Head(rest)}
  /\ queue' = IF rest = << >> THEN rest ELSE Tail(rest)

(* Mutant: the slot is returned and nobody is woken *)
ReleaseWithoutWakeup(x) ==
  /\ reserved' = reserved \ {x}
  /\ capacity' = IF isEnabled /\ x \in reserved THEN capacity + 1 ELSE capacity
  /\ UNCHANGED <<isEnabled, queue>>

(* Mutant: a disabled control still releases *)
ReleaseAlways(x) ==
  /\ IF x \in reserved
     THEN capacity' = capacity + 1 /\ ResolveNext(reserved \ {x}, queue)
     ELSE UNCHANGED <<capacity, queue, reserved>>
  /\ UNCHANGED isEnabled

(* ConcurrencyCapacityReservation.release, release, dequeue *)
Release(x) ==
  /\ IF isEnabled /\ x \in reserved
     THEN capacity' = capacity + 1 /\ ResolveNext(reserved \ {x}, queue)
     ELSE reserved' = reserved \ {x} /\ UNCHANGED <<capacity, queue>>
  /\ UNCHANGED isEnabled

(* has *)
IsQueued(e) == isEnabled /\ \E i \in DOMAIN queue : Execution(queue[i]) = e

(* The array without its first entry for execution e *)
WithoutFirst(e) ==
  LET i == CHOOSE i \in DOMAIN queue :
             /\ Execution(queue[i]) = e
             /\ \A j \in 1 .. i - 1 : Execution(queue[j]) # e
  IN  SubSeq(queue, 1, i - 1) \o SubSeq(queue, i + 1, Len(queue))

(* Mutant: the entry goes and its share of the capacity stays taken *)
RemoveKeepsCapacity(e) ==
  /\ ResolveNext(reserved, WithoutFirst(e))
  /\ UNCHANGED <<isEnabled, capacity>>

(* remove, for an execution that is queued: its promise never resolves,    *)
(* and the next in the queue is let through.                               *)
RemoveQueued(e) ==
  /\ capacity' = capacity + 1
  /\ ResolveNext(reserved, WithoutFirst(e))
  /\ UNCHANGED isEnabled

(* disable, at shutdown.  removeAll, which is called next, then returns at *)
(* once.                                                                   *)
Disable == isEnabled' = FALSE /\ UNCHANGED <<capacity, queue, reserved>>

(* A new process *)
QueueReset ==
  /\ isEnabled' = TRUE
  /\ capacity' = Limit
  /\ queue' = << >>
  /\ reserved' = {}
=============================================================================
