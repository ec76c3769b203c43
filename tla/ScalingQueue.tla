---------------------------- MODULE ScalingQueue ----------------------------
(***************************************************************************)
(* Executions in queue mode.  A main process writes the row, adds a job to *)
(* Bull's queue and awaits the end of the job; a worker takes the job,     *)
(* runs the workflow, saves the outcome and reports it to every main by a  *)
(* progress message; the leader marks as crashed what is in progress in    *)
(* the table and absent from the queue.  A job is <<e, n>>, the n-th run   *)
(* of execution e: the first, or one that resumes it after it waited.      *)
(***************************************************************************)
EXTENDS Integers, Sequences, SequencesExt

CONSTANTS
  Executions,
  MaxJobs,      \* bound of the model: runs of an execution
  Mains,
  NoMain, NoJob,
  Timeout,      \* whether the workflows have an execution timeout
  MaxUpsets     \* bound of the model: stops, and failures of workers, mains and calls

ASSUME JobsAssumption    == MaxJobs \in Nat \ {0}
ASSUME NoMainAssumption  == NoMain \notin Mains
ASSUME TimeoutAssumption == Timeout \in BOOLEAN
ASSUME UpsetsAssumption  == MaxUpsets \in Nat

Job == Executions \X (1 .. MaxJobs)
ASSUME NoJobAssumption == NoJob \notin Job

Execution(j) == j[1]

VARIABLES
  row,        \* row[e] : status in the execution table, "none" before it is inserted
  (* Bull *)
  job,        \* job[j] : its state in the queue, and how it ended
  aborts,     \* jobs whose abort-job message is on its way
  inbox,      \* inbox[m] : job-finished messages on their way to m
  (* the mains *)
  owner,      \* owner[j] : the main that runs j
  pc,         \* pc[j] : where enqueueExecution and the promise of j stand in it
  entry,      \* entry[m][e] : the job of activeExecutions[e] in m
  promise,    \* promise[j] : whether the promise exists, and is in the entry
  jobResults, \* jobResults[m][e] : the job whose result is kept
  stopping,   \* stopping[e] : where the call of stop stands
  cancelling, \* cancelling[j] : where stopJob stands
  (* the workers *)
  wpc,        \* wpc[j] : where processJob stands
  outcome,    \* outcome[j] : what the workflow ended with
  cancelled,  \* cancelled[j] : whether the run was cancelled, and the hook saved it
  (* queue recovery *)
  recovery,   \* where recoverFromQueue stands
  stored,     \* storedIds, later danglingIds
  upsets

queueVars    == <<job, aborts, inbox>>
mainVars     == <<owner, pc, entry, promise, jobResults>>
stopVars     == <<stopping, cancelling>>
workerVars   == <<wpc, outcome, cancelled>>
recoveryVars == <<recovery, stored>>
vars == <<row, queueVars, mainVars, stopVars, workerVars, recoveryVars, upsets>>

Ended      == {"success", "error", "waiting", "canceled"}
InProgress == {"new", "running"}

TypeOK ==
  /\ row \in [Executions -> {"none", "crashed"} \cup InProgress \cup Ended]
  /\ job \in [Job -> {"none", "waiting", "active", "completed", "failed", "cancelled", "removed"}]
  /\ aborts \subseteq Job
  /\ inbox \in [Mains -> Seq(Job)]
  /\ owner \in [Job -> Mains \cup {NoMain}]
  /\ pc \in [Job -> {"idle", "resuming", "refused", "registered", "added", "awaiting", "deaf",
                     "fetching", "failing", "erring", "over", "lost"}]
  /\ entry \in [Mains -> [Executions -> Job \cup {NoJob}]]
  /\ promise \in [Job -> {"none", "detached", "attached"}]
  /\ jobResults \in [Mains -> [Executions -> Job \cup {NoJob}]]
  /\ stopping \in [Executions -> {"no", "read", "write", "done"}]
  /\ cancelling \in [Job -> {"no", "asked", "remove", "done"}]
  /\ wpc \in [Job -> {"idle", "loading", "loaded", "preparing", "running", "saving", "saved",
                      "reported", "done", "dead"}]
  /\ outcome \in [Job -> Ended \cup {"none"}]
  /\ cancelled \in [Job -> {"no", "saving", "saved"}]
  /\ recovery \in {"idle", "rows", "jobs"}
  /\ stored \subseteq Executions
  /\ upsets \in 0 .. MaxUpsets

Init ==
  /\ row = [e \in Executions |-> "none"]
  /\ job = [j \in Job |-> "none"]
  /\ aborts = {}
  /\ inbox = [m \in Mains |-> <<>>]
  /\ owner = [j \in Job |-> NoMain]
  /\ pc = [j \in Job |-> "idle"]
  /\ entry = [m \in Mains |-> [e \in Executions |-> NoJob]]
  /\ promise = [j \in Job |-> "none"]
  /\ jobResults = [m \in Mains |-> [e \in Executions |-> NoJob]]
  /\ stopping = [e \in Executions |-> "no"]
  /\ cancelling = [j \in Job |-> "no"]
  /\ wpc = [j \in Job |-> "idle"]
  /\ outcome = [j \in Job |-> "none"]
  /\ cancelled = [j \in Job |-> "no"]
  /\ recovery = "idle"
  /\ stored = {}
  /\ upsets = 0

Goto(j, label)  == pc' = [pc EXCEPT ![j] = label]
WGoto(j, label) == wpc' = [wpc EXCEPT ![j] = label]
SetRow(e, status) == row' = [row EXCEPT ![e] = status]

(* j is the next run of its execution. *)
Fresh(j) ==
  /\ pc[j] = "idle"
  /\ \A k \in Job : Execution(k) = Execution(j) /\ k[2] < j[2] => pc[k] # "idle"

Upset ==
  /\ upsets < MaxUpsets
  /\ upsets' = upsets + 1

-----------------------------------------------------------------------------
(* A main: WorkflowRunner.run and enqueueExecution                         *)

(* ActiveExecutions.add of a new execution; the row stays "new". *)
Create(m, j) ==
  /\ Fresh(j)
  /\ j[2] = 1
  /\ SetRow(Execution(j), "new")
  /\ owner' = [owner EXCEPT ![j] = m]
  /\ entry' = [entry EXCEPT ![m][Execution(j)] = j]
  /\ Goto(j, "registered")
  /\ UNCHANGED <<queueVars, promise, jobResults, stopVars, workerVars, recoveryVars, upsets>>

(* WaitTracker or a waiting webhook of m finds the execution waiting. *)
FindWaiting(m, j) ==
  /\ Fresh(j)
  /\ j[2] > 1
  /\ row[Execution(j)] = "waiting"
  /\ owner' = [owner EXCEPT ![j] = m]
  /\ Goto(j, "resuming")
  /\ UNCHANGED <<row, queueVars, entry, promise, jobResults, stopVars, workerVars,
                 recoveryVars, upsets>>

(* add of an existing execution: updated only if it still waits *)
Resume(j) ==
  LET e == Execution(j)
  IN  /\ pc[j] = "resuming"
      /\ \/ /\ row[e] = "waiting"
            /\ SetRow(e, "running")
            /\ entry' = [entry EXCEPT ![owner[j]][e] = j]
            /\ Goto(j, "registered")
         \/ /\ row[e] # "waiting"
            /\ Goto(j, "refused")
            /\ UNCHANGED <<row, entry>>
      /\ UNCHANGED <<queueVars, owner, promise, jobResults, stopVars, workerVars,
                     recoveryVars, upsets>>

AddJob(j) ==
  /\ pc[j] = "registered"
  /\ job' = [job EXCEPT ![j] = "waiting"]
  /\ Goto(j, "added")
  /\ UNCHANGED <<row, aborts, inbox, owner, entry, promise, jobResults, stopVars, workerVars,
                 recoveryVars, upsets>>

(* addJob, or the hook that follows it, throws. *)
EnqueueFails(j) ==
  /\ pc[j] \in {"registered", "added"}
  /\ Upset
  /\ Goto(j, "failing")
  /\ UNCHANGED <<row, queueVars, owner, entry, promise, jobResults, stopVars, workerVars,
                 recoveryVars>>

(* The promise is attached unless the entry has gone, and job.finished()   *)
(* listens for the end of the job.  The options of addJob remove a job as  *)
(* it ends: of one that has ended by now there is nothing left to read and *)
(* no event to come, and the promise never settles.                        *)
Attach(j) ==
  /\ pc[j] = "added"
  /\ promise' = [promise EXCEPT ![j] = IF entry[owner[j]][Execution(j)] = NoJob
                                       THEN "detached" ELSE "attached"]
  /\ Goto(j, IF job[j] \in {"waiting", "active"} THEN "awaiting" ELSE "deaf")
  /\ UNCHANGED <<row, queueVars, owner, entry, jobResults, stopVars, workerVars,
                 recoveryVars, upsets>>

popJobResult(j) == jobResults' = [jobResults EXCEPT ![owner[j]][Execution(j)] = NoJob]

(* finalizeExecution settles whatever entry the execution has, and the     *)
(* entry is removed.                                                       *)
finalizeExecution(j) == entry' = [entry EXCEPT ![owner[j]][Execution(j)] = NoJob]

(* job.finished() resolves, after the messages that the worker sent before. *)
(* The row is fetched if there is no result, or if all data is needed.      *)
JobFinished(j) ==
  LET result == jobResults[owner[j]][Execution(j)]
  IN  /\ pc[j] = "awaiting"
      /\ job[j] = "completed"
      /\ ~Contains(inbox[owner[j]], j)
      /\ popJobResult(j)
      /\ \/ Goto(j, "fetching") /\ UNCHANGED entry
         \/ result # NoJob /\ Goto(j, "over") /\ finalizeExecution(j)
      /\ UNCHANGED <<row, queueVars, owner, promise, stopVars, workerVars, recoveryVars, upsets>>

FetchRow(j) ==
  /\ pc[j] = "fetching"
  /\ finalizeExecution(j)
  /\ Goto(j, "over")
  /\ UNCHANGED <<row, queueVars, owner, promise, jobResults, stopVars, workerVars,
                 recoveryVars, upsets>>

(* Mutant: the end of a stalled job is not handled *)
JobFailedByCancelOnly(j) ==
  /\ pc[j] = "awaiting"
  /\ job[j] = "cancelled"
  /\ Goto(j, "over")
  /\ popJobResult(j)
  /\ UNCHANGED <<row, queueVars, owner, entry, promise, stopVars, workerVars, recoveryVars,
                 upsets>>

(* job.finished() rejects.  For an error that says "cancelled" processError *)
(* does nothing.                                                            *)
JobFailed(j) ==
  /\ pc[j] = "awaiting"
  /\ \/ job[j] = "failed" /\ Goto(j, "failing") /\ UNCHANGED jobResults
     \/ job[j] = "cancelled" /\ Goto(j, "over") /\ popJobResult(j)
  /\ UNCHANGED <<row, queueVars, owner, entry, promise, stopVars, workerVars, recoveryVars,
                 upsets>>

(* processError is done; the promise pops a result that may have come. *)
ErrorProcessed(j) ==
  /\ Goto(j, "over")
  /\ IF promise[j] = "none" THEN UNCHANGED jobResults ELSE popJobResult(j)

(* processError reads the row.  A success is a "false positive", and the   *)
(* entry stays; else it is settled, and the hooks of a worker save "error". *)
ProcessError(j) ==
  /\ pc[j] = "failing"
  /\ \/ row[Execution(j)] = "success" /\ ErrorProcessed(j) /\ UNCHANGED entry
     \/ /\ row[Execution(j)] # "success"
        /\ Goto(j, "erring")
        /\ finalizeExecution(j)
        /\ UNCHANGED jobResults
  /\ UNCHANGED <<row, queueVars, owner, promise, stopVars, workerVars, recoveryVars, upsets>>

SaveError(j) ==
  /\ pc[j] = "erring"
  /\ SetRow(Execution(j), "error")
  /\ ErrorProcessed(j)
  /\ UNCHANGED <<queueVars, owner, entry, promise, stopVars, workerVars, recoveryVars, upsets>>

(* A statement of the main fails: the row cannot be fetched, or processError *)
(* cannot read or save it.  The promise is over and does nothing more.       *)
StatementFails(j) ==
  /\ pc[j] \in {"fetching", "failing", "erring"}
  /\ Upset
  /\ Goto(j, "over")
  /\ UNCHANGED <<row, queueVars, owner, entry, promise, jobResults, stopVars, workerVars,
                 recoveryVars>>

(* global:progress reaches every main, not only the one that awaits the job. *)
ReceiveResult(m) ==
  /\ inbox[m] # <<>>
  /\ jobResults' = [jobResults EXCEPT ![m][Execution(Head(inbox[m]))] = Head(inbox[m])]
  /\ inbox' = [inbox EXCEPT ![m] = Tail(@)]
  /\ UNCHANGED <<row, job, aborts, owner, pc, entry, promise, stopVars, workerVars,
                 recoveryVars, upsets>>

-----------------------------------------------------------------------------
(* ExecutionService.stop in scaling mode                                   *)

StopRequest(e) ==
  /\ stopping[e] = "no"
  /\ Upset
  /\ row[e] \in InProgress \cup {"waiting"}
  /\ stopping' = [stopping EXCEPT ![e] = "read"]
  /\ UNCHANGED <<row, queueVars, mainVars, cancelling, workerVars, recoveryVars>>

(* stopInScalingMode up to the database, on a main that may have no entry: *)
(* an entry is removed, and its promise, if there, is cancelled.           *)
StopInScalingMode(m, e) ==
  LET j == entry[m][e]
  IN  /\ stopping[e] = "read"
      /\ stopping' = [stopping EXCEPT ![e] = "write"]
      /\ entry' = [entry EXCEPT ![m][e] = NoJob]
      /\ cancelling' = [k \in Job |-> IF k = j /\ promise[k] = "attached" /\ pc[k] # "over"
                                      THEN "asked" ELSE cancelling[k]]
      /\ UNCHANGED <<row, queueVars, owner, pc, promise, jobResults, workerVars, recoveryVars,
                     upsets>>

(* Mutant: the status is misspelt *)
StopWritesCancelled(e) ==
  /\ stopping[e] = "write"
  /\ stopping' = [stopping EXCEPT ![e] = "done"]
  /\ SetRow(e, "cancelled")
  /\ UNCHANGED <<queueVars, mainVars, cancelling, workerVars, recoveryVars, upsets>>

(* stopDuringRun *)
StopWrites(e) ==
  /\ stopping[e] = "write"
  /\ stopping' = [stopping EXCEPT ![e] = "done"]
  /\ SetRow(e, "canceled")
  /\ UNCHANGED <<queueVars, mainVars, cancelling, workerVars, recoveryVars, upsets>>

(* stopJob: an active job is aborted by a message, else it is removed. *)
StopJob(j) ==
  /\ cancelling[j] = "asked"
  /\ \/ /\ job[j] = "active"
        /\ aborts' = aborts \cup {j}
        /\ cancelling' = [cancelling EXCEPT ![j] = "done"]
     \/ /\ job[j] # "active"
        /\ cancelling' = [cancelling EXCEPT ![j] = "remove"]
        /\ UNCHANGED aborts
  /\ UNCHANGED <<row, job, inbox, mainVars, stopping, workerVars, recoveryVars, upsets>>

(* A job that a worker has taken meanwhile is locked and cannot be removed. *)
RemoveJob(j) ==
  /\ cancelling[j] = "remove"
  /\ cancelling' = [cancelling EXCEPT ![j] = "done"]
  /\ job' = IF job[j] = "waiting" THEN [job EXCEPT ![j] = "removed"] ELSE job
  /\ UNCHANGED <<row, aborts, inbox, mainVars, stopping, workerVars, recoveryVars, upsets>>

-----------------------------------------------------------------------------
(* A worker: JobProcessor.processJob                                       *)

TakeJob(j) ==
  /\ job[j] = "waiting"
  /\ job' = [job EXCEPT ![j] = "active"]
  /\ WGoto(j, "loading")
  /\ UNCHANGED <<row, aborts, inbox, mainVars, stopVars, outcome, cancelled, recoveryVars, upsets>>

(* Bull moves the job, unless the worker has lost its lock. *)
MoveJob(j, state) == job' = IF job[j] = "active" THEN [job EXCEPT ![j] = state] ELSE job

(* A crashed execution is not processed, and no message says so. *)
LoadExecution(j) ==
  /\ wpc[j] = "loading"
  /\ \/ row[Execution(j)] = "crashed" /\ WGoto(j, "done") /\ MoveJob(j, "completed")
     \/ row[Execution(j)] # "crashed" /\ WGoto(j, "loaded") /\ UNCHANGED job
  /\ UNCHANGED <<row, aborts, inbox, mainVars, stopVars, outcome, cancelled, recoveryVars, upsets>>

SetRunning(j) ==
  /\ wpc[j] = "loaded"
  /\ SetRow(Execution(j), "running")
  /\ WGoto(j, "preparing")
  /\ UNCHANGED <<queueVars, mainVars, stopVars, outcome, cancelled, recoveryVars, upsets>>

(* The workflow starts and is entered in runningJobs. *)
StartRun(j) ==
  /\ wpc[j] = "preparing"
  /\ WGoto(j, "running")
  /\ UNCHANGED <<row, queueVars, mainVars, stopVars, outcome, cancelled, recoveryVars, upsets>>

(* processJob throws before the run, and reportJobProcessingError rethrows. *)
PrepareFails(j) ==
  /\ wpc[j] \in {"loading", "loaded", "preparing"}
  /\ Upset
  /\ MoveJob(j, "failed")
  /\ WGoto(j, "done")
  /\ UNCHANGED <<row, aborts, inbox, mainVars, stopVars, outcome, cancelled, recoveryVars>>

(* JobProcessor.stopJob finds running jobs only; cancelling a run starts   *)
(* its hook at once.                                                       *)
ReceiveAbort(j) ==
  /\ j \in aborts
  /\ aborts' = aborts \ {j}
  /\ cancelled' = IF wpc[j] \in {"running", "saving"} THEN [cancelled EXCEPT ![j] = "saving"] ELSE cancelled
  /\ UNCHANGED <<row, job, inbox, mainVars, stopVars, wpc, outcome, recoveryVars, upsets>>

SaveCancelled(j) ==
  /\ cancelled[j] = "saving"
  /\ wpc[j] # "dead"
  /\ cancelled' = [cancelled EXCEPT ![j] = "saved"]
  /\ SetRow(Execution(j), "canceled")
  /\ UNCHANGED <<queueVars, mainVars, stopVars, wpc, outcome, recoveryVars, upsets>>

(* A run that was cancelled does not run the hook again.  One that times   *)
(* out ends as cancelled by itself.                                        *)
EndRun(j) ==
  /\ wpc[j] = "running"
  /\ \/ /\ cancelled[j] # "no"
        /\ outcome' = [outcome EXCEPT ![j] = "canceled"]
        /\ WGoto(j, "saved")
     \/ /\ cancelled[j] = "no"
        /\ \E o \in {"success", "error", "waiting"} \cup (IF Timeout THEN {"canceled"} ELSE {}) :
             outcome' = [outcome EXCEPT ![j] = o]
        /\ WGoto(j, "saving")
  /\ UNCHANGED <<row, queueVars, mainVars, stopVars, cancelled, recoveryVars, upsets>>

(* hookFunctionsSaveWorker: the row gets the outcome, whatever it holds. *)
SaveOutcome(j) ==
  /\ wpc[j] = "saving"
  /\ SetRow(Execution(j), outcome[j])
  /\ WGoto(j, "saved")
  /\ UNCHANGED <<queueVars, mainVars, stopVars, outcome, cancelled, recoveryVars, upsets>>

(* The hook fails, and again when the catch of the workflow runs it: the   *)
(* error is logged, and the run goes on as if it were saved.               *)
SaveFails(j) ==
  /\ wpc[j] = "saving"
  /\ Upset
  /\ WGoto(j, "saved")
  /\ UNCHANGED <<row, queueVars, mainVars, stopVars, outcome, cancelled, recoveryVars>>

(* job.progress(job-finished); it throws if the job has failed meanwhile. *)
Report(j) ==
  /\ wpc[j] = "saved"
  /\ outcome[j] # "canceled"
  /\ \/ /\ job[j] = "active"
        /\ inbox' = [m \in Mains |-> Append(inbox[m], j)]
        /\ WGoto(j, "reported")
        /\ UNCHANGED outcome
     \/ /\ job[j] # "active"
        /\ outcome' = [outcome EXCEPT ![j] = "none"]
        /\ WGoto(j, "done")
        /\ UNCHANGED inbox
  /\ UNCHANGED <<row, job, aborts, mainVars, stopVars, cancelled, recoveryVars, upsets>>

(* processJob returns, or throws ManualExecutionCancelledError. *)
EndJob(j) ==
  /\ \/ wpc[j] = "reported" /\ MoveJob(j, "completed")
     \/ wpc[j] = "saved" /\ outcome[j] = "canceled" /\ MoveJob(j, "cancelled")
  /\ WGoto(j, "done")
  /\ outcome' = [outcome EXCEPT ![j] = "none"]
  /\ UNCHANGED <<row, aborts, inbox, mainVars, stopVars, cancelled, recoveryVars, upsets>>

-----------------------------------------------------------------------------
(* Failures                                                                *)

WorkerDies(j) ==
  /\ wpc[j] \notin {"idle", "done", "dead"}
  /\ Upset
  /\ WGoto(j, "dead")
  /\ outcome' = [outcome EXCEPT ![j] = "none"]
  /\ UNCHANGED <<row, queueVars, mainVars, stopVars, cancelled, recoveryVars>>

(* The lock of an active job is not renewed: the worker is dead, or its    *)
(* event loop is blocked.  maxStalledCount is 0, so the job fails.         *)
JobStalls(j) ==
  /\ job[j] = "active"
  /\ IF wpc[j] = "dead" THEN UNCHANGED upsets ELSE Upset
  /\ job' = [job EXCEPT ![j] = "failed"]
  /\ UNCHANGED <<row, aborts, inbox, mainVars, stopVars, workerVars, recoveryVars>>

(* Main m dies and comes back with nothing in memory. *)
MainDies(m) ==
  /\ Upset
  /\ pc' = [j \in Job |-> IF owner[j] = m /\ pc[j] \notin {"refused", "over"} THEN "lost" ELSE pc[j]]
  /\ entry' = [entry EXCEPT ![m] = [e \in Executions |-> NoJob]]
  /\ jobResults' = [jobResults EXCEPT ![m] = [e \in Executions |-> NoJob]]
  /\ inbox' = [inbox EXCEPT ![m] = <<>>]
  /\ cancelling' = [j \in Job |-> IF owner[j] = m THEN "done" ELSE cancelling[j]]
  /\ UNCHANGED <<row, job, aborts, owner, promise, stopping, workerVars, recoveryVars>>

-----------------------------------------------------------------------------
(* recoverFromQueue on the leader: two reads and a write, each awaited     *)

ReadRows ==
  /\ recovery = "idle"
  /\ stored' = {e \in Executions : row[e] \in InProgress}
  /\ stored' # {}
  /\ recovery' = "rows"
  /\ UNCHANGED <<row, queueVars, mainVars, stopVars, workerVars, upsets>>

Queued(e) == \E j \in Job : Execution(j) = e /\ job[j] \in {"active", "waiting"}

ReadJobs ==
  /\ recovery = "rows"
  /\ stored' = {e \in stored : ~Queued(e)}
  /\ recovery' = IF stored' = {} THEN "idle" ELSE "jobs"
  /\ UNCHANGED <<row, queueVars, mainVars, stopVars, workerVars, upsets>>

(* Mutant: only executions that have started are marked *)
MarkStartedAsCrashed ==
  /\ recovery = "jobs"
  /\ row' = [e \in Executions |-> IF e \in stored /\ row[e] = "running" THEN "crashed" ELSE row[e]]
  /\ stored' = {}
  /\ recovery' = "idle"
  /\ UNCHANGED <<queueVars, mainVars, stopVars, workerVars, upsets>>

(* Mutant: what is not in the queue is made to resume *)
MarkAsWaiting ==
  /\ recovery = "jobs"
  /\ row' = [e \in Executions |-> IF e \in stored THEN "waiting" ELSE row[e]]
  /\ stored' = {}
  /\ recovery' = "idle"
  /\ UNCHANGED <<queueVars, mainVars, stopVars, workerVars, upsets>>

(* markAsCrashed does not look at the rows. *)
MarkAsCrashed ==
  /\ recovery = "jobs"
  /\ row' = [e \in Executions |-> IF e \in stored THEN "crashed" ELSE row[e]]
  /\ stored' = {}
  /\ recovery' = "idle"
  /\ UNCHANGED <<queueVars, mainVars, stopVars, workerVars, upsets>>

-----------------------------------------------------------------------------
MainStep(j) ==
  \/ Resume(j) \/ AddJob(j) \/ Attach(j) \/ JobFinished(j) \/ FetchRow(j) \/ JobFailed(j)
  \/ ProcessError(j) \/ SaveError(j) \/ StopJob(j) \/ RemoveJob(j)

WorkerStep(j) ==
  \/ TakeJob(j) \/ LoadExecution(j) \/ SetRunning(j) \/ StartRun(j) \/ SaveCancelled(j) \/ EndRun(j)
  \/ SaveOutcome(j) \/ Report(j) \/ EndJob(j)

RecoveryStep == ReadRows \/ ReadJobs \/ MarkAsCrashed

Next ==
  \/ \E m \in Mains, j \in Job : Create(m, j) \/ FindWaiting(m, j)
  \/ \E j \in Job : MainStep(j) \/ WorkerStep(j) \/ ReceiveAbort(j)
  \/ \E j \in Job : \/ EnqueueFails(j) \/ StatementFails(j) \/ PrepareFails(j) \/ SaveFails(j)
                   \/ WorkerDies(j) \/ JobStalls(j)
  \/ \E m \in Mains : ReceiveResult(m) \/ MainDies(m)
  \/ \E e \in Executions : StopRequest(e) \/ StopWrites(e)
  \/ \E m \in Mains, e \in Executions : StopInScalingMode(m, e)
  \/ RecoveryStep

Spec == Init /\ [][Next]_vars

(* Mains and workers that live take their steps, messages arrive, Bull's   *)
(* check for stalled jobs and the leader's recovery run time and again.    *)
FairSpec ==
  /\ Spec
  /\ \A j \in Job : WF_vars(MainStep(j)) /\ WF_vars(WorkerStep(j))
  /\ \A j \in Job : WF_vars(wpc[j] = "dead" /\ JobStalls(j))
  /\ \A m \in Mains : WF_vars(ReceiveResult(m))
  /\ WF_vars(RecoveryStep)

-----------------------------------------------------------------------------
Working(j) == wpc[j] \in {"preparing", "running", "saving"}

(* No two workers run an execution at a time: not when a job lost its lock *)
(* while its worker goes on, nor when two mains resume the execution or    *)
(* a stop, a recovery and a resumption meet (add's requireStatus and       *)
(* processJob's check for crashed executions).                             *)
OneWorkerPerExecution ==
  \A j, k \in Job : Execution(j) = Execution(k) /\ Working(j) /\ Working(k) => j = k

(* A main that listens for the end of a job (job.finished() in             *)
(* enqueueExecution) hears of it, whatever becomes of the worker, unless   *)
(* the job is stopped or the main dies.  A job that has ended before the   *)
(* main listens is not promised: see Attach.                               *)
EveryJobSettles ==
  \A j \in Job : pc[j] = "awaiting" ~> pc[j] \in {"over", "lost"} \/ cancelling[j] # "no"

(* No execution stays in progress: its worker ends it, its main saves the  *)
(* error, or the queue recovery marks it (recoverFromQueue).               *)
EveryExecutionEnds == \A e \in Executions : row[e] \in InProgress ~> row[e] \notin InProgress

(* recoverFromQueue marks executions "if stored in DB as new or running    *)
(* but absent from the queue" (scaling.service.ts): when the rows are      *)
(* written they are still in progress.                                     *)
RecoveryMarksInProgress == [][MarkAsCrashed => \A e \in stored : row[e] \in InProgress]_vars
=============================================================================
