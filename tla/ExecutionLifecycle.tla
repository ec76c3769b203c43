------------------------- MODULE ExecutionLifecycle -------------------------
(***************************************************************************)
(* The life of executions in an n8n process in regular mode: WorkflowRunner*)
(* runs them, ActiveExecutions registers them and releases their slot,     *)
(* WaitTracker and the waiting webhooks resume those that wait,            *)
(* ExecutionService stops them, and a restart of the process finds what is *)
(* left in the execution table.  A run is one call of WorkflowRunner.run,  *)
(* a coroutine that is suspended at every await; each action is what       *)
(* happens between two awaits, or the commit of one database statement.    *)
(***************************************************************************)
EXTENDS ConcurrencyQueue

CONSTANTS
  NoRun,
  Stops,        \* executions a user stops, or that may exceed their timeout
  MaxRestarts   \* bound of the model: restarts of the process

ASSUME NoRunAssumption    == NoRun \notin Run
ASSUME StopsAssumption    == Stops \subseteq Executions
ASSUME RestartsAssumption == MaxRestarts \in Nat

VARIABLES
  (* the execution table *)
  row,          \* row[e] : its status, "none" before it is inserted
  waits,        \* waits[e] : how often it was saved as waiting; names the saved data
  (* the runs *)
  pc,           \* pc[x] : where run x stands
  data,         \* data[x] : the value of waits when x read the data it resumes from
  outcome,      \* outcome[x] : the status that x is about to save, while it saves
  unwritten,    \* history: executions of which the last statement failed and left the row
  cancelled,    \* runs whose workflowExecution is pending and has been cancelled
  cancelSaves,  \* cancelled runs whose hooks have yet to save "canceled"
  (* ActiveExecutions *)
  active,       \* active[e] : the run whose entry is activeExecutions[e]
  entryStatus,  \* entryStatus[x] : the status in the entry of run x
  attached,     \* runs whose entry has its workflowExecution
  settled,      \* runs whose postExecutePromise has settled and left the entry
  (* WaitTracker, ExecutionService and the process *)
  polled,       \* executions found waiting whose timer is not set yet
  tracking,     \* WaitTracker polls
  tracked,      \* WaitTracker.waitingExecutions
  armed,        \* the executions whose timer in it is set
  stopping,     \* stopping[e] : where the call of stop stands
  enqueued,     \* executions that runEnqueuedExecutions found and has not run
  restarts      \* number of restarts

rowVars   == <<row, waits>>
runVars   == <<data, outcome, cancelled, cancelSaves, unwritten>>
entryVars == <<active, entryStatus, attached, settled>>
trackVars == <<polled, tracking, tracked, armed>>
envVars   == <<trackVars, stopping, enqueued, restarts>>
vars      == <<queueVars, rowVars, pc, runVars, entryVars, envVars>>

RowStatus == {"none", "new", "running", "waiting", "canceled", "success", "error"}
Ended     == {"success", "error"}

(* The workflow of x is under way: its promise is pending. *)
Pending == {"executing", "putToWait", "saving", "saved"}
Control == {"idle", "loading", "adding", "reserving", "marked", "registered", "starting"}
             \cup Pending \cup {"closing", "over", "refused", "failed", "lost"}

TypeOK ==
  /\ QueueTypeOK
  /\ row \in [Executions -> RowStatus]
  /\ waits \in [Executions -> Nat]
  /\ pc \in [Run -> Control]
  /\ data \in [Run -> Nat]
  /\ outcome \in [Run -> {"waiting", "canceled"} \cup Ended]
  /\ cancelled \subseteq Run
  /\ cancelSaves \subseteq Run
  /\ unwritten \subseteq Executions
  /\ active \in [Executions -> Run \cup {NoRun}]
  /\ entryStatus \in [Run -> {"running", "waiting"}]
  /\ attached \subseteq Run
  /\ settled \subseteq Run
  /\ polled \subseteq Executions
  /\ tracking \in BOOLEAN
  /\ tracked \subseteq Executions
  /\ armed \subseteq Executions
  /\ stopping \in [Executions -> {"no", "read", "write", "done"}]
  /\ enqueued \subseteq Executions
  /\ restarts \in 0 .. MaxRestarts

Init ==
  /\ QueueInit
  /\ row = [e \in Executions |-> "none"]
  /\ waits = [e \in Executions |-> 0]
  /\ pc = [x \in Run |-> "idle"]
  /\ data = [x \in Run |-> 0]
  /\ outcome = [x \in Run |-> "success"]
  /\ cancelled = {}
  /\ cancelSaves = {}
  /\ unwritten = {}
  /\ active = [e \in Executions |-> NoRun]
  /\ entryStatus = [x \in Run |-> "running"]
  /\ attached = {}
  /\ settled = {}
  /\ polled = {}
  /\ tracking = TRUE
  /\ tracked = {}
  /\ armed = {}
  /\ stopping = [e \in Executions |-> "no"]
  /\ enqueued = {}
  /\ restarts = 0

IsNew(x) == x[2] = 1

(* x is the next run that can restart its execution. *)
Fresh(x) ==
  /\ ~IsNew(x)
  /\ pc[x] = "idle"
  /\ \A y \in Run : Execution(y) = Execution(x) /\ y[2] < x[2] => pc[y] # "idle"

Goto(x, label) == pc' = [pc EXCEPT ![x] = label]

(* A statement sets the status of e, or fails. *)
Write(e, status) == row' = [row EXCEPT ![e] = status] /\ unwritten' = unwritten \ {e}
WriteFails(e)    == UNCHANGED row /\ unwritten' = unwritten \cup {e}

-----------------------------------------------------------------------------
(* ActiveExecutions.add                                                    *)

(* run of a new execution: add inserts the row. *)
Create(x) ==
  /\ IsNew(x)
  /\ pc[x] = "idle"
  /\ Write(Execution(x), "new")
  /\ Goto(x, "adding")
  /\ UNCHANGED <<queueVars, waits, data, outcome, cancelled, cancelSaves, entryVars, envVars>>

Reserve(x) ==
  /\ pc[x] = "adding"
  /\ Throttle(x)
  /\ Goto(x, "reserving")
  /\ UNCHANGED <<rowVars, runVars, entryVars, envVars>>

(* Mutant: the update of a resumed execution has no condition *)
MarkRunningAlways(x) ==
  /\ pc[x] = "reserving"
  /\ x \in reserved
  /\ Write(Execution(x), "running")
  /\ Goto(x, "marked")
  /\ UNCHANGED <<queueVars, waits, data, outcome, cancelled, cancelSaves, entryVars, envVars>>

(* setRunning of a new execution is unconditional; an existing one is      *)
(* updated only if it is waiting.                                          *)
MarkRunning(x) ==
  /\ pc[x] = "reserving"
  /\ x \in reserved
  /\ IsNew(x) \/ row[Execution(x)] = "waiting"
  /\ Write(Execution(x), "running")
  /\ Goto(x, "marked")
  /\ UNCHANGED <<queueVars, waits, data, outcome, cancelled, cancelSaves, entryVars, envVars>>

(* Mutant: the error leaves the reservation as it is *)
AddFailsKeepingSlot(x) ==
  /\ pc[x] = "reserving"
  /\ x \in reserved
  /\ Goto(x, "failed")
  /\ UNCHANGED <<queueVars, rowVars, runVars, entryVars, envVars>>

(* ExecutionAlreadyResumingError, or an error of the database *)
AddFails(x) ==
  /\ pc[x] = "reserving"
  /\ x \in reserved
  /\ Release(x)
  /\ \/ ~IsNew(x) /\ row[Execution(x)] # "waiting" /\ Goto(x, "refused")
     \/ Goto(x, "failed")
  /\ UNCHANGED <<rowVars, runVars, entryVars, envVars>>

(* The entry replaces the one a waiting execution left behind. *)
Register(x) ==
  /\ pc[x] = "marked"
  /\ active' = [active EXCEPT ![Execution(x)] = x]
  /\ Goto(x, "registered")
  /\ UNCHANGED <<queueVars, rowVars, runVars, entryStatus, attached, settled, envVars>>

(* The postExecutePromise of y settles, and its finally runs: the entry    *)
(* goes unless the execution waits.                                        *)
SettleEntry(y) ==
  IF y \in settled THEN UNCHANGED <<queueVars, active, attached, settled>>
  ELSE /\ Release(y)
       /\ \/ /\ entryStatus[y] = "waiting"
             /\ attached' = attached \ {y}
             /\ settled' = settled \cup {y}
             /\ UNCHANGED active
          \/ /\ entryStatus[y] # "waiting"
             /\ active' = [active EXCEPT ![Execution(y)] = NoRun]
             /\ UNCHANGED <<attached, settled>>

(* finalizeExecution: the entry is found by the id of the execution. *)
SettleFound(e) ==
  IF active[e] = NoRun THEN UNCHANGED <<queueVars, active, attached, settled>>
  ELSE SettleEntry(active[e])

(* Mutant: a cancelled workflow runs no hooks *)
StopExecutionNoHooks(e) ==
  LET y == active[e]
  IN  IF y = NoRun THEN UNCHANGED <<queueVars, cancelled, cancelSaves, entryVars>>
      ELSE IF entryStatus[y] = "waiting"
      THEN /\ active' = [active EXCEPT ![e] = NoRun]
           /\ UNCHANGED <<queueVars, cancelled, cancelSaves, entryStatus, attached, settled>>
      ELSE /\ cancelled' = cancelled \cup ({y} \cap attached)
           /\ SettleEntry(y)
           /\ UNCHANGED <<cancelSaves, entryStatus>>

(* stopExecution.  The entry of a waiting execution is only dropped. *)
StopExecution(e) ==
  LET y == active[e]
  IN  \/ /\ y = NoRun
         /\ UNCHANGED <<queueVars, cancelled, cancelSaves, entryVars>>
      \/ /\ y # NoRun
         /\ entryStatus[y] = "waiting"
         /\ active' = [active EXCEPT ![e] = NoRun]
         /\ UNCHANGED <<queueVars, cancelled, cancelSaves, entryStatus, attached, settled>>
      \/ /\ y # NoRun
         /\ entryStatus[y] = "running"
         /\ LET cancels == {z \in attached \ cancelled : z = y /\ pc[z] \in Pending}
            IN  cancelled' = cancelled \cup cancels /\ cancelSaves' = cancelSaves \cup cancels
         /\ SettleEntry(y)
         /\ UNCHANGED entryStatus

-----------------------------------------------------------------------------
(* WorkflowRunner.run after add                                            *)

(* The credentials check fails: failExecution saves the error. *)
PreflightFails(x) ==
  /\ pc[x] = "registered"
  /\ outcome' = [outcome EXCEPT ![x] = "error"]
  /\ Goto(x, "saving")
  /\ UNCHANGED <<queueVars, rowVars, data, cancelled, cancelSaves, unwritten, entryVars, envVars>>

(* attachResponsePromise finds no entry: run throws and nothing starts. *)
ResponseFails(x) ==
  /\ pc[x] = "registered"
  /\ active[Execution(x)] = NoRun
  /\ Goto(x, "over")
  /\ UNCHANGED <<queueVars, rowVars, runVars, entryVars, envVars>>

(* runMainProcess: the second setRunning *)
SetRunning(x) ==
  /\ pc[x] = "registered"
  /\ Write(Execution(x), "running")
  /\ Goto(x, "starting")
  /\ UNCHANGED <<queueVars, waits, data, outcome, cancelled, cancelSaves, entryVars, envVars>>

(* A statement of runMainProcess up to setRunning fails, outside its try:  *)
(* run rejects, and nobody takes back the row, the entry and the slot.     *)
RunFails(x) ==
  /\ pc[x] = "registered"
  /\ WriteFails(Execution(x))
  /\ Goto(x, "over")
  /\ UNCHANGED <<queueVars, waits, data, outcome, cancelled, cancelSaves, entryVars, envVars>>

(* The workflow starts, and is then attached to the entry.  If that is     *)
(* gone run throws, and the workflow goes on with nobody awaiting it.      *)
StartWorkflow(x) ==
  /\ pc[x] = "starting"
  /\ attached' = IF active[Execution(x)] = x THEN attached \cup {x} ELSE attached
  /\ Goto(x, "executing")
  /\ UNCHANGED <<queueVars, rowVars, runVars, active, entryStatus, settled, envVars>>

(* The workflow has issues and processRunExecutionData throws:             *)
(* processError settles the entry first and then runs the hooks.           *)
StartThrows(x) ==
  /\ pc[x] = "starting"
  /\ outcome' = [outcome EXCEPT ![x] = "error"]
  /\ Goto(x, "closing")
  /\ SettleFound(Execution(x))
  /\ UNCHANGED <<rowVars, data, cancelled, cancelSaves, unwritten, entryStatus, envVars>>

(* A node calls putExecutionToWait, which sets the status in the entry. *)
PutToWait(x) ==
  /\ pc[x] = "executing"
  /\ active[Execution(x)] # NoRun
  /\ entryStatus' = [entryStatus EXCEPT ![active[Execution(x)]] = "waiting"]
  /\ Goto(x, "putToWait")
  /\ UNCHANGED <<queueVars, rowVars, runVars, active, attached, settled, envVars>>

(* What a workflow ends with; "canceled" if a node took it past its time.  *)
Outcomes(e) == IF e \in Stops THEN Ended \cup {"canceled"} ELSE Ended

(* The promise of the workflow of x is awaited by runMainProcess. *)
Awaited(x) == x \in attached \cup settled

(* The last node has run: processSuccessExecution runs the hooks that save *)
(* the outcome, unless the workflow was cancelled.                         *)
WorkflowEnds(x) ==
  /\ \/ /\ x \notin cancelled
        /\ \/ /\ pc[x] = "executing"
              /\ \E o \in Outcomes(Execution(x)) : outcome' = [outcome EXCEPT ![x] = o]
           \/ /\ pc[x] = "putToWait"
              /\ outcome' = [outcome EXCEPT ![x] = "waiting"]
        /\ Goto(x, IF Awaited(x) THEN "saving" ELSE "closing")
     \/ /\ x \in cancelled
        /\ pc[x] \in {"executing", "putToWait"}
        /\ Goto(x, "saved")
        /\ UNCHANGED outcome
  /\ UNCHANGED <<queueVars, rowVars, data, cancelled, cancelSaves, unwritten, entryVars, envVars>>

(* hookFunctionsSave: the row gets the outcome, whatever it holds.  What   *)
(* follows is in the run, which is over for one that is closing.           *)
Save(x) ==
  /\ pc[x] \in {"saving", "closing"}
  /\ Write(Execution(x), outcome[x])
  /\ waits' = IF outcome[x] = "waiting" THEN [waits EXCEPT ![Execution(x)] = @ + 1] ELSE waits
  /\ outcome' = [outcome EXCEPT ![x] = "success"]
  /\ Goto(x, IF pc[x] = "saving" THEN "saved" ELSE "over")
  /\ UNCHANGED <<queueVars, data, cancelled, cancelSaves, entryVars, envVars>>

(* The hook fails.  The workflow runs it once more and then resolves all   *)
(* the same; for failExecution and processError it is the end of run.      *)
SaveFails(x) ==
  /\ pc[x] \in {"saving", "closing"}
  /\ WriteFails(Execution(x))
  /\ outcome' = [outcome EXCEPT ![x] = "success"]
  /\ Goto(x, IF pc[x] = "saving" /\ Awaited(x) THEN "saved" ELSE "over")
  /\ UNCHANGED <<queueVars, waits, data, cancelled, cancelSaves, entryVars, envVars>>

(* The same hook, run by the cancellation, which does not await it *)
CancelSave(x) ==
  /\ x \in cancelSaves
  /\ cancelSaves' = cancelSaves \ {x}
  /\ Write(Execution(x), "canceled")
  /\ UNCHANGED <<queueVars, waits, pc, data, outcome, cancelled, entryVars, envVars>>

CancelSaveFails(x) ==
  /\ x \in cancelSaves
  /\ cancelSaves' = cancelSaves \ {x}
  /\ WriteFails(Execution(x))
  /\ UNCHANGED <<queueVars, waits, pc, data, outcome, cancelled, entryVars, envVars>>

(* The workflow's promise resolves after the remaining hooks, and          *)
(* finalizeExecution settles the entry it finds.                           *)
Finalize(x) ==
  /\ pc[x] = "saved"
  /\ Goto(x, "over")
  /\ SettleFound(Execution(x))
  /\ cancelled' = cancelled \ {x}
  /\ UNCHANGED <<rowVars, data, outcome, cancelSaves, unwritten, entryStatus, envVars>>

(* The timeout of the workflow fires; it was set once x was attached. *)
ExecutionTimeout(x) ==
  /\ Execution(x) \in Stops
  /\ pc[x] \in Pending
  /\ x \in attached \/ entryStatus[x] = "waiting"
  /\ StopExecution(Execution(x))
  /\ UNCHANGED <<rowVars, pc, data, outcome, unwritten, envVars>>

-----------------------------------------------------------------------------
(* WaitTracker and the waiting webhooks                                    *)

(* getWaitingExecutions up to its await, and after it *)
Poll(e) ==
  /\ tracking
  /\ row[e] = "waiting"
  /\ polled' = polled \cup {e}
  /\ UNCHANGED <<queueVars, rowVars, pc, runVars, entryVars, tracking, tracked, armed, stopping,
                 enqueued, restarts>>

Track(e) ==
  /\ e \in polled
  /\ polled' = polled \ {e}
  /\ tracked' = tracked \cup {e}
  /\ armed' = IF e \in tracked THEN armed ELSE armed \cup {e}
  /\ UNCHANGED <<queueVars, rowVars, pc, runVars, entryVars, tracking, stopping, enqueued, restarts>>

(* startExecution up to its await *)
TimerFires(x) ==
  /\ Fresh(x)
  /\ Execution(x) \in armed
  /\ armed' = armed \ {Execution(x)}
  /\ tracked' = tracked \ {Execution(x)}
  /\ Goto(x, "loading")
  /\ UNCHANGED <<queueVars, rowVars, runVars, entryVars, polled, tracking, stopping, enqueued,
                 restarts>>

(* The data has been read: run is called unless the execution succeeded,   *)
(* or the statement failed.                                                *)
Load(x) ==
  /\ pc[x] = "loading"
  /\ \/ Goto(x, "failed") /\ UNCHANGED data
     \/ /\ row[Execution(x)] # "success"
        /\ Goto(x, "adding")
        /\ data' = [data EXCEPT ![x] = waits[Execution(x)]]
  /\ UNCHANGED <<queueVars, rowVars, outcome, cancelled, cancelSaves, unwritten, entryVars, envVars>>

(* executeWebhook of a waiting webhook reads an execution that waits; the   *)
(* others it answers with an error.                                        *)
WebhookResumes(x) ==
  /\ Fresh(x)
  /\ row[Execution(x)] = "waiting"
  /\ data' = [data EXCEPT ![x] = waits[Execution(x)]]
  /\ Goto(x, "adding")
  /\ UNCHANGED <<queueVars, rowVars, outcome, cancelled, cancelSaves, unwritten, entryVars, envVars>>

-----------------------------------------------------------------------------
(* ExecutionService.stop                                                   *)

(* The row is read, and assertStoppable passes. *)
StopRequest(e) ==
  /\ e \in Stops
  /\ stopping[e] = "no"
  /\ row[e] \in {"new", "waiting", "running"}
  /\ stopping' = [stopping EXCEPT ![e] = "read"]
  /\ UNCHANGED <<queueVars, rowVars, pc, runVars, entryVars, trackVars, enqueued, restarts>>

(* stopInRegularMode up to the database *)
StopInRegularMode(e) ==
  /\ stopping[e] = "read"
  /\ stopping' = [stopping EXCEPT ![e] = "write"]
  /\ IF IsQueued(e)
     THEN RemoveQueued(e) /\ UNCHANGED <<cancelled, cancelSaves, entryVars, tracked, armed>>
     ELSE StopExecution(e) /\ tracked' = tracked \ {e} /\ armed' = armed \ {e}
  /\ UNCHANGED <<rowVars, pc, data, outcome, unwritten, polled, tracking, enqueued, restarts>>

(* Mutant: the wrong status is written *)
StopWritesCrashed(e) ==
  /\ stopping[e] = "write"
  /\ stopping' = [stopping EXCEPT ![e] = "done"]
  /\ Write(e, "crashed")
  /\ UNCHANGED <<queueVars, waits, pc, data, outcome, cancelled, cancelSaves, entryVars, trackVars, enqueued, restarts>>

(* stopBeforeRun, stopDuringRun: neither looks at the row. *)
StopWrites(e) ==
  /\ stopping[e] = "write"
  /\ stopping' = [stopping EXCEPT ![e] = "done"]
  /\ Write(e, "canceled")
  /\ UNCHANGED <<queueVars, waits, pc, data, outcome, cancelled, cancelSaves, entryVars, trackVars, enqueued, restarts>>

StopFails(e) ==
  /\ stopping[e] = "write"
  /\ stopping' = [stopping EXCEPT ![e] = "done"]
  /\ WriteFails(e)
  /\ UNCHANGED <<queueVars, waits, pc, data, outcome, cancelled, cancelSaves, entryVars, trackVars,
                 enqueued, restarts>>

-----------------------------------------------------------------------------
(* Shutdown and restart of the process                                     *)

(* stopTracking clears the timers and keeps their entries. *)
StopTracking ==
  /\ tracking
  /\ restarts < MaxRestarts
  /\ tracking' = FALSE
  /\ armed' = {}
  /\ UNCHANGED <<queueVars, rowVars, pc, runVars, entryVars, polled, tracked, stopping, enqueued,
                 restarts>>

(* ActiveExecutions.shutdown up to its loop: the entries of waiting        *)
(* executions go, those of running ones are awaited.                       *)
Shutdown ==
  /\ ~tracking
  /\ isEnabled
  /\ Disable
  /\ active' = [e \in Executions |->
                  IF active[e] # NoRun /\ entryStatus[active[e]] = "waiting" THEN NoRun ELSE active[e]]
  /\ UNCHANGED <<rowVars, pc, runVars, entryStatus, attached, settled, envVars>>

(* The process exits or crashes and a new one starts, which finds the rows *)
(* that are still "new".                                                   *)
Restart ==
  /\ restarts < MaxRestarts
  /\ restarts' = restarts + 1
  /\ QueueReset
  /\ pc' = [x \in Run |-> IF pc[x] \in {"idle", "over", "refused", "failed"} THEN pc[x] ELSE "lost"]
  /\ outcome' = [x \in Run |-> "success"]
  /\ cancelled' = {}
  /\ cancelSaves' = {}
  /\ unwritten' = {}
  /\ active' = [e \in Executions |-> NoRun]
  /\ entryStatus' = [x \in Run |-> "running"]
  /\ attached' = {}
  /\ settled' = {}
  /\ polled' = {}
  /\ tracking' = TRUE
  /\ tracked' = {}
  /\ armed' = {}
  /\ stopping' = [e \in Executions |-> IF stopping[e] = "done" THEN "done" ELSE "no"]
  /\ enqueued' = {e \in Executions : row[e] = "new"}
  /\ UNCHANGED <<rowVars, data>>

(* runEnqueuedExecutions *)
RunEnqueued(x) ==
  /\ Fresh(x)
  /\ Execution(x) \in enqueued
  /\ enqueued' = enqueued \ {Execution(x)}
  /\ data' = [data EXCEPT ![x] = waits[Execution(x)]]
  /\ Goto(x, "adding")
  /\ UNCHANGED <<queueVars, rowVars, outcome, cancelled, cancelSaves, unwritten, entryVars, trackVars, stopping,
                 restarts>>

-----------------------------------------------------------------------------
RunStep(x) ==
  \/ Create(x) \/ Reserve(x) \/ MarkRunning(x) \/ AddFails(x) \/ Register(x)
  \/ PreflightFails(x) \/ ResponseFails(x) \/ RunFails(x) \/ SetRunning(x) \/ StartWorkflow(x)
  \/ StartThrows(x) \/ PutToWait(x) \/ WorkflowEnds(x) \/ Save(x) \/ SaveFails(x) \/ CancelSave(x)
  \/ CancelSaveFails(x) \/ Finalize(x)

Next ==
  \/ \E x \in Run : RunStep(x) \/ ExecutionTimeout(x) \/ TimerFires(x) \/ Load(x) \/ WebhookResumes(x)
                    \/ RunEnqueued(x)
  \/ \E e \in Executions : Poll(e) \/ Track(e) \/ StopRequest(e) \/ StopInRegularMode(e)
                           \/ StopWrites(e) \/ StopFails(e)
  \/ StopTracking \/ Shutdown \/ Restart

Spec == Init /\ [][Next]_vars

-----------------------------------------------------------------------------
(* The capacity is the limit less what is held and what is queued, after   *)
(* any sequence of runs, failures, stops and resumptions.  (A slot may be  *)
(* held by a run that is over, which counts as held.)                      *)
CapacityAccounts ==
  isEnabled => capacity = Limit - Cardinality(reserved) - Len(queue)

(* Nobody waits in the queue while a slot is free: no wakeup is lost. *)
WorkConserving ==
  isEnabled /\ queue # << >> => Cardinality(reserved) >= Limit

(* Where a run counts as executing: past the throttle, not yet saved *)
InProgress == {"marked", "registered", "starting", "executing", "putToWait", "saving"}

(* "Max production executions allowed to run concurrently": the runs past  *)
(* the throttle that nobody has stopped stay within the limit.             *)
LimitRespected ==
  isEnabled => Cardinality({x \in Run : /\ pc[x] \in InProgress
                                        /\ x \notin cancelled
                                        /\ stopping[Execution(x)] = "no"}) <= Limit

(* Where a run may yet write its row; a run that is closing has given back *)
(* its slot.                                                               *)
Unfinished == InProgress \cup {"closing"}

(* An execution is never executed by two runs at a time, although timers,  *)
(* webhooks and a restart may all try to resume it.                        *)
OneRunAtATime ==
  \A x, y \in Run : /\ Execution(x) = Execution(y)
                    /\ pc[x] \in Unfinished
                    /\ pc[y] \in Unfinished
                    => x = y

(* In the process that created it, and until it is resumed, the row of an  *)
(* execution is not left "running" with nobody to update it: a run is      *)
(* carrying it out, or a cancellation is about to write.  Only a statement *)
(* that failed can leave it so: before the try of runMainProcess, in the   *)
(* hook that saves, whoever runs it, or in stop.                           *)
RunningIsCarriedOut ==
  \A e \in Executions :
    /\ row[e] = "running"
    /\ restarts = 0
    /\ \A x \in Run : Execution(x) = e /\ ~IsNew(x) => pc[x] = "idle"
    => \/ \E x \in Run : Execution(x) = e /\ (pc[x] \in Unfinished \/ x \in cancelSaves)
       \/ stopping[e] \in {"read", "write"}
       \/ e \in unwritten

(* "throttled executions cannot resume during shutdown": once concurrency  *)
(* control is disabled nobody leaves the queue until the process is gone.  *)
ShutdownHoldsQueue ==
  [][~isEnabled /\ ~isEnabled' => queue' = queue]_vars

-----------------------------------------------------------------------------
(* What comments and docs say and the code does not guarantee              *)

(* "Only update if status is 'waiting'", else "another process is already  *)
(* resuming this execution": what was saved when an execution began to     *)
(* wait is resumed by one run only.                                        *)
EachWaitResumedOnce ==
  \A x, y \in Run : /\ ~IsNew(x) /\ ~IsNew(y)
                    /\ Execution(x) = Execution(y)
                    /\ pc[x] \in Unfinished \cup {"saved", "over"}
                    /\ pc[y] \in Unfinished \cup {"saved", "over"}
                    /\ data[x] = data[y]
                    => x = y

(* "start running any such executions concurrently up to the concurrency   *)
(* limit": an execution found enqueued at startup is not refused.          *)
EnqueuedAreRun ==
  \A x \in Run : ~IsNew(x) /\ pc[x] = "refused" => row[Execution(x)] # "new"

-----------------------------------------------------------------------------
(* Database statements complete, with or without an error, and promises    *)
(* resolve; and, of the users' workflows, every one ends.                  *)
Proceeds(x) ==
  \/ Reserve(x) \/ MarkRunning(x) \/ AddFails(x) \/ Register(x) \/ SetRunning(x) \/ RunFails(x)
  \/ StartWorkflow(x) \/ StartThrows(x) \/ WorkflowEnds(x) \/ Save(x) \/ SaveFails(x) \/ Finalize(x)

Fairness == \A x \in Run : WF_vars(Proceeds(x))

FairSpec == Spec /\ Fairness

(* Runs that are over and hold a slot: run rejected outside its try or in  *)
(* failExecution, a stop or timeout found a status that said waiting, or   *)
(* the entry was that of another run of the execution.                     *)
Leaked == {x \in reserved : pc[x] = "over"}

(* Whoever is throttled is let through in the end, unless the process is   *)
(* shut down, its execution is stopped, or runs that are over have leaked  *)
(* all slots.                                                              *)
ThrottledProceeds ==
  \A x \in Run :
    pc[x] = "reserving" ~> \/ pc[x] # "reserving"
                           \/ ~isEnabled
                           \/ stopping[Execution(x)] # "no"
                           \/ Cardinality(Leaked) >= Limit
=============================================================================
