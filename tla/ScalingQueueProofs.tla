------------------------- MODULE ScalingQueueProofs -------------------------
(***************************************************************************)
(* Proofs about queue mode, for any executions, mains, number of jobs,     *)
(* stops and failures: every state is well typed, and no two workers run   *)
(* an execution at a time.                                                 *)
(***************************************************************************)
EXTENDS ScalingQueue, TLAPS

USE DEF Execution

-----------------------------------------------------------------------------
(* Type correctness                                                        *)

Rows     == {"none", "crashed"} \cup InProgress \cup Ended
Table    == [Mains -> [Executions -> Job \cup {NoJob}]]
JobState == {"none", "waiting", "active", "completed", "failed", "cancelled", "removed"}

(* What a worker is about to save is a status. *)
SavesAStatus == \A j \in Job : wpc[j] = "saving" => outcome[j] \in Ended

TypeInv == TypeOK /\ SavesAStatus

(* The execution of a job is an execution. *)
LEMMA JobExecution == \A j \in Job : Execution(j) \in Executions
  BY DEF Job

(* A change of one place of entry or jobResults *)
LEMMA PlaceType ==
  ASSUME NEW f \in Table, NEW a, NEW b, NEW v \in Job \cup {NoJob}
  PROVE  [f EXCEPT ![a][b] = v] \in Table
  BY DEF Table

LEMMA SetRowType ==
  ASSUME TypeInv, NEW e, NEW status \in Rows, SetRow(e, status)
  PROVE  row' \in [Executions -> Rows]
  BY DEF TypeInv, TypeOK, SetRow, Rows

LEMMA PopType ==
  ASSUME TypeInv, NEW j \in Job, popJobResult(j)
  PROVE  jobResults' \in Table
  <1>1. jobResults \in Table
    BY DEF TypeInv, TypeOK, Table
  <1>2. [jobResults EXCEPT ![owner[j]][Execution(j)] = NoJob] \in Table
    BY <1>1, PlaceType
  <1>. QED
    BY <1>2 DEF popJobResult

LEMMA FinalizeType ==
  ASSUME TypeInv, NEW j \in Job, finalizeExecution(j)
  PROVE  entry' \in Table
  <1>1. entry \in Table
    BY DEF TypeInv, TypeOK, Table
  <1>2. [entry EXCEPT ![owner[j]][Execution(j)] = NoJob] \in Table
    BY <1>1, PlaceType
  <1>. QED
    BY <1>2 DEF finalizeExecution

LEMMA MoveType ==
  ASSUME TypeInv, NEW j \in Job, NEW state \in JobState, MoveJob(j, state)
  PROVE  job' \in [Job -> JobState]
  BY DEF TypeInv, TypeOK, MoveJob, JobState

LEMMA InboxType ==
  ASSUME inbox \in [Mains -> Seq(Job)], NEW j \in Job
  PROVE  [m \in Mains |-> Append(inbox[m], j)] \in [Mains -> Seq(Job)]
  OBVIOUS

LEMMA TypeInit == Init => TypeInv
  <1>. SUFFICES ASSUME Init PROVE TypeInv
    OBVIOUS
  <1>1. inbox \in [Mains -> Seq(Job)]
    BY DEF Init
  <1>. QED
    BY <1>1, UpsetsAssumption DEF Init, TypeInv, TypeOK, SavesAStatus, Ended, InProgress

LEMMA MainType ==
  ASSUME TypeInv, NEW j \in Job, MainStep(j)
  PROVE  TypeInv'
  <1>. USE DEF TypeInv, TypeOK, SavesAStatus, queueVars, mainVars, stopVars, workerVars,
               recoveryVars, Table, Goto
  <1>0. {"running", "error"} \subseteq Rows
    BY DEF Rows, InProgress, Ended
  <1>1. CASE Resume(j)
    <2>1. row' \in [Executions -> Rows]
      BY <1>0, <1>1, SetRowType DEF Resume, Rows
    <2>2. entry' \in Table
      <3>1. entry \in Table
        BY DEF Table
      <3>2. [entry EXCEPT ![owner[j]][Execution(j)] = j] \in Table
        BY <3>1, PlaceType
      <3>. QED
        BY <1>1, <3>1, <3>2 DEF Resume
    <2>3. (Goto(j, "registered") \/ Goto(j, "refused"))
          /\ UNCHANGED <<queueVars, owner, promise, jobResults, stopVars, workerVars, recoveryVars,
                         upsets>>
      BY <1>1 DEF Resume
    <2>. QED
      BY <2>1, <2>2, <2>3, ZenonT(40) DEF Rows
  <1>2. CASE AddJob(j)
    BY <1>2 DEF AddJob
  <1>3. CASE Attach(j)
    <2>1. promise' \in [Job -> {"none", "detached", "attached"}]
      BY <1>3 DEF Attach
    <2>2. Goto(j, "awaiting") \/ Goto(j, "deaf")
      BY <1>3 DEF Attach
    <2>3. UNCHANGED <<row, queueVars, owner, entry, jobResults, stopVars, workerVars, recoveryVars,
                      upsets>>
      BY <1>3 DEF Attach
    <2>. QED
      BY <2>1, <2>2, <2>3, ZenonT(40)
  <1>4. CASE JobFinished(j)
    <2>1. entry' \in Table
      BY <1>4, FinalizeType DEF JobFinished
    <2>2. jobResults' \in Table
      BY <1>4, PopType DEF JobFinished
    <2>. QED
      BY <1>4, <2>1, <2>2, ZenonT(40) DEF JobFinished
  <1>5. CASE FetchRow(j)
    <2>1. entry' \in Table
      BY <1>5, FinalizeType DEF FetchRow
    <2>. QED
      BY <1>5, <2>1 DEF FetchRow
  <1>6. CASE JobFailed(j)
    <2>1. jobResults' \in Table
      BY <1>6, PopType DEF JobFailed
    <2>. QED
      BY <1>6, <2>1, ZenonT(40) DEF JobFailed
  <1>7. CASE ProcessError(j)
    <2>1. entry' \in Table
      BY <1>7, FinalizeType DEF ProcessError
    <2>2. jobResults' \in Table
      BY <1>7, PopType DEF ProcessError, ErrorProcessed
    <2>. QED
      BY <1>7, <2>1, <2>2 DEF ProcessError, ErrorProcessed
  <1>8. CASE SaveError(j)
    <2>1. row' \in [Executions -> Rows]
      BY <1>0, <1>8, SetRowType DEF SaveError
    <2>2. jobResults' \in Table
      BY <1>8, PopType DEF SaveError, ErrorProcessed
    <2>. QED
      BY <1>8, <2>1, <2>2 DEF SaveError, ErrorProcessed, Rows
  <1>9. CASE StopJob(j)
    BY <1>9, ZenonT(40) DEF StopJob
  <1>10. CASE RemoveJob(j)
    BY <1>10 DEF RemoveJob
  <1>. QED
    BY <1>1, <1>2, <1>3, <1>4, <1>5, <1>6, <1>7, <1>8, <1>9, <1>10 DEF MainStep

LEMMA WorkerType ==
  ASSUME TypeInv, NEW j \in Job, WorkerStep(j)
  PROVE  TypeInv'
  <1>. USE DEF TypeInv, TypeOK, SavesAStatus, queueVars, mainVars, stopVars, workerVars,
               recoveryVars, Table, WGoto
  <1>0. {"running", "canceled"} \subseteq Rows /\ Ended \subseteq Rows
        /\ {"completed", "cancelled", "failed"} \subseteq JobState
    BY DEF Rows, InProgress, Ended, JobState
  <1>1. CASE TakeJob(j)
    BY <1>1 DEF TakeJob
  <1>2. CASE LoadExecution(j)
    <2>1. job' \in [Job -> JobState]
      BY <1>0, <1>2, MoveType DEF LoadExecution, JobState
    <2>2. /\ WGoto(j, "done") \/ WGoto(j, "loaded")
          /\ UNCHANGED <<row, aborts, inbox, mainVars, stopVars, outcome, cancelled, recoveryVars, upsets>>
      BY <1>2 DEF LoadExecution
    <2>3. wpc' \in [Job -> {"idle", "loading", "loaded", "preparing", "running", "saving", "saved",
                            "reported", "done", "dead"}]
      BY <2>2, ZenonT(40)
    <2>4. SavesAStatus'
      BY <2>2
    <2>. HIDE DEF SavesAStatus
    <2>. QED
      BY <2>1, <2>2, <2>3, <2>4 DEF JobState
  <1>3. CASE SetRunning(j)
    <2>1. row' \in [Executions -> Rows]
      BY <1>0, <1>3, SetRowType DEF SetRunning
    <2>. QED
      BY <1>3, <2>1 DEF SetRunning, Rows
  <1>4. CASE StartRun(j)
    BY <1>4 DEF StartRun
  <1>5. CASE SaveCancelled(j)
    <2>1. row' \in [Executions -> Rows]
      BY <1>0, <1>5, SetRowType DEF SaveCancelled
    <2>. QED
      BY <1>5, <2>1 DEF SaveCancelled, Rows
  <1>6. CASE EndRun(j)
    <2>1. \/ WGoto(j, "saved") /\ outcome' = [outcome EXCEPT ![j] = "canceled"]
          \/ WGoto(j, "saving") /\ \E o \in Ended : outcome' = [outcome EXCEPT ![j] = o]
      BY <1>6 DEF EndRun, Ended
    <2>2. outcome' \in [Job -> Ended \cup {"none"}] /\ SavesAStatus'
      <3>1. CASE WGoto(j, "saved") /\ outcome' = [outcome EXCEPT ![j] = "canceled"]
        BY <3>1 DEF Ended
      <3>2. CASE WGoto(j, "saving") /\ \E o \in Ended : outcome' = [outcome EXCEPT ![j] = o]
        BY <3>2
      <3>. QED
        BY <2>1, <3>1, <3>2
    <2>3. UNCHANGED <<row, queueVars, mainVars, stopVars, cancelled, recoveryVars, upsets>>
      BY <1>6 DEF EndRun
    <2>. QED
      BY <2>1, <2>2, <2>3, ZenonT(40)
  <1>7. CASE SaveOutcome(j)
    <2>1. row' \in [Executions -> Rows]
      BY <1>0, <1>7, SetRowType DEF SaveOutcome
    <2>. QED
      BY <1>7, <2>1 DEF SaveOutcome, Rows
  <1>8. CASE Report(j)
    <2>1. inbox' \in [Mains -> Seq(Job)]
      <3>1. [m \in Mains |-> Append(inbox[m], j)] \in [Mains -> Seq(Job)]
        BY InboxType
      <3>2. inbox' = inbox \/ inbox' = [m \in Mains |-> Append(inbox[m], j)]
        BY <1>8 DEF Report
      <3>. QED
        BY <3>1, <3>2
    <2>2. \/ WGoto(j, "reported") /\ UNCHANGED outcome
          \/ WGoto(j, "done") /\ outcome' = [outcome EXCEPT ![j] = "none"]
      BY <1>8 DEF Report
    <2>3. UNCHANGED <<row, job, aborts, mainVars, stopVars, cancelled, recoveryVars, upsets>>
      BY <1>8 DEF Report
    <2>4. SavesAStatus'
      BY <2>2
    <2>5. (outcome \in [Job -> Ended \cup {"none"}])'
      BY <2>2, ZenonT(40)
    <2>6. wpc' \in [Job -> {"idle", "loading", "loaded", "preparing", "running", "saving", "saved",
                            "reported", "done", "dead"}]
      BY <2>2, ZenonT(40)
    <2>. HIDE DEF SavesAStatus
    <2>. QED
      BY <2>1, <2>3, <2>4, <2>5, <2>6
  <1>9. CASE EndJob(j)
    <2>1. job' \in [Job -> JobState]
      BY <1>0, <1>9, MoveType DEF EndJob
    <2>. QED
      BY <1>9, <2>1, ZenonT(40) DEF EndJob, JobState
  <1>. QED
    BY <1>1, <1>2, <1>3, <1>4, <1>5, <1>6, <1>7, <1>8, <1>9 DEF WorkerStep

LEMMA TypeNext == TypeInv /\ [Next]_vars => TypeInv'
  <1>. SUFFICES ASSUME TypeInv, [Next]_vars PROVE TypeInv'
    OBVIOUS
  <1>. USE DEF TypeInv, TypeOK, SavesAStatus, queueVars, mainVars, stopVars,
               workerVars, recoveryVars, Table, Goto, WGoto
  <1>0. {"new", "canceled"} \subseteq Rows /\ "failed" \in JobState
    BY DEF Rows, InProgress, Ended, JobState
  <1>u. Upset => upsets' \in 0 .. MaxUpsets
    BY UpsetsAssumption DEF Upset
  <1>1. ASSUME NEW m \in Mains, NEW j \in Job, Create(m, j) PROVE TypeInv'
    <2>1. row' \in [Executions -> Rows]
      BY <1>0, <1>1, SetRowType DEF Create
    <2>2. entry' \in Table
      <3>1. entry \in Table
        BY DEF Table
      <3>2. [entry EXCEPT ![m][Execution(j)] = j] \in Table
        BY <3>1, PlaceType
      <3>. QED
        BY <1>1, <3>2 DEF Create
    <2>. QED
      BY <1>1, <2>1, <2>2 DEF Create, Rows
  <1>2. ASSUME NEW m \in Mains, NEW j \in Job, FindWaiting(m, j) PROVE TypeInv'
    BY <1>2 DEF FindWaiting
  <1>3. ASSUME NEW j \in Job, MainStep(j) \/ WorkerStep(j) PROVE TypeInv'
    BY <1>3, MainType, WorkerType
  <1>4. ASSUME NEW j \in Job, ReceiveAbort(j) PROVE TypeInv'
    BY <1>4 DEF ReceiveAbort
  <1>5. ASSUME NEW j \in Job, EnqueueFails(j) PROVE TypeInv'
    BY <1>u, <1>5 DEF EnqueueFails
  <1>6. ASSUME NEW j \in Job, JobStalls(j) PROVE TypeInv'
    BY <1>u, <1>6 DEF JobStalls
  <1>7. ASSUME NEW j \in Job, PrepareFails(j) PROVE TypeInv'
    <2>1. job' \in [Job -> JobState]
      BY <1>0, <1>7, MoveType DEF PrepareFails
    <2>. QED
      BY <1>u, <1>7, <2>1, ZenonT(40) DEF PrepareFails, JobState
  <1>8. ASSUME NEW j \in Job, WorkerDies(j) PROVE TypeInv'
    BY <1>u, <1>8 DEF WorkerDies
  <1>9. ASSUME NEW m \in Mains, ReceiveResult(m) PROVE TypeInv'
    <2>1. Head(inbox[m]) \in Job /\ Tail(inbox[m]) \in Seq(Job)
      BY <1>9 DEF ReceiveResult
    <2>2. jobResults' \in Table
      <3>1. jobResults \in Table
        BY DEF Table
      <3>2. [jobResults EXCEPT ![m][Execution(Head(inbox[m]))] = Head(inbox[m])] \in Table
        BY <2>1, <3>1, PlaceType
      <3>. QED
        BY <1>9, <3>2 DEF ReceiveResult
    <2>3. inbox' \in [Mains -> Seq(Job)]
      BY <1>9, <2>1 DEF ReceiveResult
    <2>. QED
      BY <1>9, <2>2, <2>3 DEF ReceiveResult
  <1>10. ASSUME NEW m \in Mains, MainDies(m) PROVE TypeInv'
    <2>1. inbox' \in [Mains -> Seq(Job)]
      BY <1>10 DEF MainDies
    <2>2. /\ entry' \in Table
          /\ jobResults' \in Table
      BY <1>10 DEF MainDies
    <2>. QED
      BY <1>u, <1>10, <2>1, <2>2 DEF MainDies
  <1>11. ASSUME NEW e \in Executions, StopRequest(e) PROVE TypeInv'
    BY <1>u, <1>11 DEF StopRequest
  <1>12. ASSUME NEW e \in Executions, StopWrites(e) PROVE TypeInv'
    <2>1. row' \in [Executions -> Rows]
      BY <1>0, <1>12, SetRowType DEF StopWrites
    <2>. QED
      BY <1>12, <2>1 DEF StopWrites, Rows
  <1>13. ASSUME NEW m \in Mains, NEW e \in Executions, StopInScalingMode(m, e) PROVE TypeInv'
    <2>1. entry' \in Table
      <3>1. entry \in Table
        BY DEF Table
      <3>2. [entry EXCEPT ![m][e] = NoJob] \in Table
        BY <3>1, PlaceType
      <3>. QED
        BY <1>13, <3>2 DEF StopInScalingMode
    <2>. QED
      BY <1>13, <2>1 DEF StopInScalingMode
  <1>14. CASE RecoveryStep
    BY <1>14 DEF RecoveryStep, ReadRows, ReadJobs, MarkAsCrashed
  <1>15. ASSUME NEW j \in Job, StatementFails(j) PROVE TypeInv'
    BY <1>u, <1>15 DEF StatementFails
  <1>16. ASSUME NEW j \in Job, SaveFails(j) PROVE TypeInv'
    BY <1>u, <1>16 DEF SaveFails
  <1>17. CASE UNCHANGED vars
    BY <1>17 DEF vars
  <1>. QED
    BY <1>1, <1>2, <1>3, <1>4, <1>5, <1>6, <1>7, <1>8, <1>9, <1>10, <1>11, <1>12, <1>13, <1>14,
       <1>15, <1>16, <1>17 DEF Next

(* Every state of queue mode is well typed: whatever mains, workers and    *)
(* the recovery do, a row holds a status, and a worker saves one.          *)
THEOREM QueueTypeCorrect == Spec => []TypeOK
  <1>1. TypeInv => TypeOK
    BY DEF TypeInv
  <1>. QED
    BY <1>1, TypeInit, TypeNext, PTL DEF Spec

-----------------------------------------------------------------------------
(* An execution is run by one worker at a time                             *)

(* A job that has yet to be run, or is being run: it is about to be added, *)
(* it waits in the queue, or a worker has it and has not saved.            *)
Live(j) ==
  \/ pc[j] = "registered"
  \/ job[j] = "waiting"
  \/ wpc[j] \in {"loading", "loaded", "preparing", "running", "saving"}

(* What the conditional update of add relies on: an execution has one live *)
(* job, and none while its row says "waiting", whatever became of the      *)
(* locks, the mains and the rows of its earlier jobs.                      *)
OneLive == \A j, k \in Job : Execution(j) = Execution(k) /\ Live(j) /\ Live(k) => j = k

WaitingHasNone == \A j \in Job : row[Execution(j)] = "waiting" => ~Live(j)

(* Jobs are used in their order. *)
InOrder ==
  \A j, k \in Job : Execution(j) = Execution(k) /\ k[2] < j[2] /\ pc[k] = "idle" => pc[j] = "idle"

Unowned == \A j \in Job : pc[j] = "idle" => owner[j] = NoMain

(* A job is not in the queue before it is added, nor with a worker before  *)
(* it is taken.                                                            *)
Unadded == {"idle", "resuming", "refused", "registered"}

Stages ==
  \A j \in Job : /\ pc[j] \in Unadded => job[j] = "none"
                 /\ job[j] \in {"none", "waiting"} => wpc[j] = "idle"

WorkerInv == OneLive /\ WaitingHasNone /\ InOrder /\ Unowned

(* The stages of a job follow each other. *)
LEMMA StagesNext == TypeInv /\ Unowned /\ Stages /\ [Next]_vars => Stages'
  <1>. SUFFICES ASSUME TypeInv, Unowned, Stages, [Next]_vars PROVE Stages'
    OBVIOUS
  <1>. USE DEF TypeInv, TypeOK, Stages, Unadded, queueVars, mainVars, workerVars, Goto, WGoto
  <1>1. ASSUME NEW m \in Mains, NEW j \in Job, Create(m, j) \/ FindWaiting(m, j) PROVE Stages'
    BY <1>1 DEF Create, FindWaiting, Fresh
  <1>2. ASSUME NEW j \in Job, Resume(j) \/ AddJob(j) \/ Attach(j) PROVE Stages'
    BY <1>2 DEF Resume, AddJob, Attach
  <1>3. ASSUME NEW j \in Job, JobFinished(j) \/ FetchRow(j) \/ JobFailed(j) PROVE Stages'
    BY <1>3 DEF JobFinished, FetchRow, JobFailed
  <1>4. ASSUME NEW j \in Job,
               ProcessError(j) \/ SaveError(j) \/ EnqueueFails(j) \/ StatementFails(j)
        PROVE  Stages'
    BY <1>4 DEF ProcessError, SaveError, EnqueueFails, StatementFails, ErrorProcessed
  <1>5. ASSUME NEW j \in Job, StopJob(j) \/ RemoveJob(j) \/ JobStalls(j) \/ ReceiveAbort(j)
        PROVE  Stages'
    BY <1>5 DEF StopJob, RemoveJob, JobStalls, ReceiveAbort
  <1>6. ASSUME NEW j \in Job, TakeJob(j) \/ LoadExecution(j) PROVE Stages'
    BY <1>6 DEF TakeJob, LoadExecution, MoveJob
  <1>7. ASSUME NEW j \in Job,
               SetRunning(j) \/ StartRun(j) \/ SaveCancelled(j) \/ SaveOutcome(j) \/ SaveFails(j)
        PROVE  Stages'
    BY <1>7 DEF SetRunning, StartRun, SaveCancelled, SaveOutcome, SaveFails
  <1>8. ASSUME NEW j \in Job, EndRun(j) \/ WorkerDies(j) PROVE Stages'
    BY <1>8 DEF EndRun, WorkerDies
  <1>9. ASSUME NEW j \in Job, Report(j) PROVE Stages'
    <2>1. /\ wpc[j] = "saved" /\ UNCHANGED <<pc, job>>
          /\ WGoto(j, "reported") \/ WGoto(j, "done")
      BY <1>9 DEF Report
    <2>. QED
      BY <2>1
  <1>10. ASSUME NEW j \in Job, EndJob(j) \/ PrepareFails(j) PROVE Stages'
    BY <1>10 DEF EndJob, PrepareFails, MoveJob
  <1>11. ASSUME NEW m \in Mains, ReceiveResult(m) PROVE Stages'
    BY <1>11 DEF ReceiveResult
  <1>12. ASSUME NEW m \in Mains, MainDies(m) PROVE Stages'
    BY <1>12 DEF MainDies
  <1>13. ASSUME NEW e \in Executions, StopRequest(e) \/ StopWrites(e) PROVE Stages'
    BY <1>13 DEF StopRequest, StopWrites
  <1>14. ASSUME NEW m \in Mains, NEW e \in Executions, StopInScalingMode(m, e) PROVE Stages'
    BY <1>14 DEF StopInScalingMode
  <1>15. CASE RecoveryStep \/ UNCHANGED vars
    BY <1>15 DEF RecoveryStep, ReadRows, ReadJobs, MarkAsCrashed, vars
  <1>. QED
    BY <1>1, <1>2, <1>3, <1>4, <1>5, <1>6, <1>7, <1>8, <1>9, <1>10, <1>11, <1>12, <1>13, <1>14,
       <1>15 DEF Next, MainStep, WorkerStep

LEMMA WorkerInit == Init => WorkerInv /\ Stages
  BY JobExecution DEF Init, WorkerInv, OneLive, WaitingHasNone, InOrder, Unowned, Live, Stages

(* A step by which no job becomes live, none is begun, and no row becomes  *)
(* "waiting".                                                              *)
LEMMA QuietStep ==
  ASSUME WorkerInv,
         \A j \in Job : /\ Live(j)' => Live(j)
                        /\ pc'[j] = "idle" <=> pc[j] = "idle"
                        /\ pc'[j] = "idle" => owner'[j] = owner[j],
         \A e \in Executions : row'[e] = "waiting" => row[e] = "waiting"
  PROVE  WorkerInv'
  <1>1. OneLive'
    BY DEF WorkerInv, OneLive
  <1>2. WaitingHasNone'
    BY JobExecution DEF WorkerInv, WaitingHasNone
  <1>3. InOrder' /\ Unowned'
    BY DEF WorkerInv, InOrder, Unowned
  <1>. QED
    BY <1>1, <1>2, <1>3 DEF WorkerInv

(* An execution without a live job gets one. *)
LEMMA LiveBegins ==
  ASSUME TypeInv, WorkerInv, NEW j \in Job, Goto(j, "registered"),
         UNCHANGED <<job, wpc>>,
         \A k \in Job : k # j => owner'[k] = owner[k],
         \A k \in Job : Execution(k) = Execution(j) => ~Live(k),
         \A k \in Job : Execution(k) = Execution(j) /\ k[2] < j[2] => pc[k] # "idle",
         \A e \in Executions : row'[e] = "waiting" => row[e] = "waiting" /\ e # Execution(j)
  PROVE  WorkerInv'
  <1>1. pc'[j] = "registered" /\ \A k \in Job : k # j => pc'[k] = pc[k]
    BY DEF TypeInv, TypeOK, Goto
  <1>2. \A k \in Job : k # j => (Live(k)' <=> Live(k))
    BY <1>1 DEF Live
  <1>3. OneLive'
    BY <1>2 DEF WorkerInv, OneLive
  <1>4. WaitingHasNone'
    BY <1>2, JobExecution DEF WorkerInv, WaitingHasNone
  <1>5. InOrder'
    BY <1>1 DEF WorkerInv, InOrder
  <1>6. Unowned'
    BY <1>1 DEF WorkerInv, Unowned
  <1>. QED
    BY <1>3, <1>4, <1>5, <1>6 DEF WorkerInv

LEMMA OneWorkerNext == TypeInv /\ Stages /\ WorkerInv /\ [Next]_vars => WorkerInv'
  <1>. SUFFICES ASSUME TypeInv, Stages, WorkerInv, [Next]_vars PROVE WorkerInv'
    OBVIOUS
  <1>. USE DEF TypeInv, TypeOK, queueVars, mainVars, workerVars, Goto, WGoto, SetRow
  <1>1. ASSUME NEW m \in Mains, NEW j \in Job, Create(m, j) PROVE WorkerInv'
    <2>1. \A k \in Job : Execution(k) = Execution(j) => pc[k] = "idle"
      <3>. SUFFICES ASSUME NEW k \in Job, Execution(k) = Execution(j) PROVE pc[k] = "idle"
        OBVIOUS
      <3>1. k = j \/ j[2] < k[2]
        BY <1>1 DEF Create, Job
      <3>. QED
        BY <1>1, <3>1 DEF Create, Fresh, WorkerInv, InOrder
    <2>2. \A k \in Job : Execution(k) = Execution(j) => ~Live(k)
      BY <2>1 DEF Stages, Unadded, Live
    <2>3. \A k \in Job : k # j => owner'[k] = owner[k]
      BY <1>1 DEF Create
    <2>4. \A e \in Executions : row'[e] = "waiting" => row[e] = "waiting" /\ e # Execution(j)
      BY <1>1, JobExecution DEF Create
    <2>5. /\ Goto(j, "registered") /\ UNCHANGED <<job, wpc>>
          /\ \A k \in Job : Execution(k) = Execution(j) /\ k[2] < j[2] => pc[k] # "idle"
      BY <1>1 DEF Create, Fresh
    <2>. QED
      BY <2>2, <2>3, <2>4, <2>5, LiveBegins
  <1>2. ASSUME NEW m \in Mains, NEW j \in Job, FindWaiting(m, j) PROVE WorkerInv'
    <2>1. /\ pc[j] = "idle" /\ pc'[j] = "resuming"
          /\ \A k \in Job : k # j => pc'[k] = pc[k] /\ owner'[k] = owner[k]
          /\ \A k \in Job : Execution(k) = Execution(j) /\ k[2] < j[2] => pc[k] # "idle"
          /\ UNCHANGED <<row, job, wpc>>
      BY <1>2 DEF FindWaiting, Fresh
    <2>2. \A k \in Job : Live(k)' <=> Live(k)
      BY <2>1 DEF Live
    <2>3. OneLive' /\ WaitingHasNone'
      BY <2>1, <2>2 DEF WorkerInv, OneLive, WaitingHasNone
    <2>4. InOrder'
      <3>. SUFFICES ASSUME NEW k \in Job, NEW i \in Job, Execution(k) = Execution(i), i[2] < k[2],
                           pc'[i] = "idle"
                    PROVE  pc'[k] = "idle"
        BY DEF InOrder
      <3>1. i # j /\ pc[i] = "idle"
        BY <2>1
      <3>2. pc[k] = "idle"
        BY <3>1 DEF WorkerInv, InOrder
      <3>3. k # j
        BY <2>1, <3>1
      <3>. QED
        BY <2>1, <3>2, <3>3
    <2>5. Unowned'
      BY <2>1, ZenonT(40) DEF WorkerInv, Unowned
    <2>. QED
      BY <2>3, <2>4, <2>5 DEF WorkerInv
  <1>3. ASSUME NEW j \in Job, Resume(j) PROVE WorkerInv'
    <2>1. CASE row[Execution(j)] = "waiting"
      <3>1. \A k \in Job : Execution(k) = Execution(j) => ~Live(k)
        BY <2>1 DEF WorkerInv, WaitingHasNone
      <3>2. /\ \A e \in Executions : row'[e] = "waiting" => row[e] = "waiting" /\ e # Execution(j)
            /\ Goto(j, "registered") /\ UNCHANGED <<job, wpc, owner>>
        BY <1>3, <2>1, JobExecution DEF Resume
      <3>3. \A k \in Job : Execution(k) = Execution(j) /\ k[2] < j[2] => pc[k] # "idle"
        BY <1>3 DEF Resume, WorkerInv, InOrder
      <3>. QED
        BY <3>1, <3>2, <3>3, LiveBegins
    <2>2. CASE row[Execution(j)] # "waiting"
      BY <1>3, <2>2, QuietStep DEF Resume, Live
    <2>. QED
      BY <2>1, <2>2
  <1>4. ASSUME NEW j \in Job, AddJob(j) PROVE WorkerInv'
    BY <1>4, QuietStep DEF AddJob, Live
  <1>5. ASSUME NEW j \in Job,
               Attach(j) \/ JobFinished(j) \/ FetchRow(j) \/ JobFailed(j) \/ ProcessError(j)
               \/ EnqueueFails(j) \/ StatementFails(j)
        PROVE  WorkerInv'
    <2>1. /\ UNCHANGED <<row, job, wpc, owner>>
          /\ \E l \in {"awaiting", "deaf", "fetching", "failing", "erring", "over"} : Goto(j, l)
          /\ pc[j] # "idle"
      BY <1>5 DEF Attach, JobFinished, FetchRow, JobFailed, ProcessError, EnqueueFails,
         StatementFails, ErrorProcessed
    <2>. QED
      BY <2>1, QuietStep DEF Live
  <1>6. ASSUME NEW j \in Job, SaveError(j) PROVE WorkerInv'
    BY <1>6, JobExecution, QuietStep DEF SaveError, ErrorProcessed, Live
  <1>7. ASSUME NEW j \in Job, StopJob(j) \/ RemoveJob(j) \/ JobStalls(j) PROVE WorkerInv'
    BY <1>7, QuietStep DEF StopJob, RemoveJob, JobStalls, Live
  <1>8. ASSUME NEW j \in Job, TakeJob(j) \/ LoadExecution(j) \/ StartRun(j) \/ EndRun(j) PROVE WorkerInv'
    <2>1. /\ Live(j)
          /\ UNCHANGED <<row, pc, owner>>
          /\ \A k \in Job : k # j => job'[k] = job[k] /\ wpc'[k] = wpc[k]
      BY <1>8 DEF TakeJob, LoadExecution, StartRun, EndRun, MoveJob, Live
    <2>. QED
      BY <2>1, QuietStep DEF Live
  <1>9. ASSUME NEW j \in Job, SetRunning(j) PROVE WorkerInv'
    <2>1. /\ Live(j)
          /\ UNCHANGED <<pc, owner, job>>
          /\ \A k \in Job : k # j => wpc'[k] = wpc[k]
          /\ \A e \in Executions : row'[e] = "waiting" => row[e] = "waiting"
      BY <1>9 DEF SetRunning, Live
    <2>. QED
      BY <2>1, QuietStep DEF Live
  <1>10. ASSUME NEW j \in Job, SaveOutcome(j) PROVE WorkerInv'
    <2>1. /\ wpc[j] = "saving" /\ wpc'[j] = "saved"
          /\ UNCHANGED <<pc, owner, job>>
          /\ \A k \in Job : k # j => wpc'[k] = wpc[k]
          /\ \A e \in Executions : e # Execution(j) => row'[e] = row[e]
      BY <1>10 DEF SaveOutcome
    <2>2. \A k \in Job : k # j => (Live(k)' <=> Live(k))
      BY <2>1 DEF Live
    <2>3. Live(j) /\ ~Live(j)'
      BY <2>1 DEF Live, Stages, Unadded
    <2>4. \A k \in Job : Live(k)' => Execution(k) # Execution(j)
      BY <2>2, <2>3 DEF WorkerInv, OneLive
    <2>5. OneLive'
      BY <2>2, <2>3 DEF WorkerInv, OneLive
    <2>6. WaitingHasNone'
      <3>. SUFFICES ASSUME NEW k \in Job, Live(k)' PROVE row'[Execution(k)] # "waiting"
        BY DEF WaitingHasNone
      <3>1. k # j /\ Live(k) /\ Execution(k) # Execution(j)
        BY <2>2, <2>3, <2>4
      <3>2. row'[Execution(k)] = row[Execution(k)]
        BY <2>1, <3>1, JobExecution
      <3>. QED
        BY <3>1, <3>2 DEF WorkerInv, WaitingHasNone
    <2>7. InOrder' /\ Unowned'
      BY <2>1 DEF WorkerInv, InOrder, Unowned
    <2>. QED
      BY <2>5, <2>6, <2>7 DEF WorkerInv
  <1>11. ASSUME NEW j \in Job, SaveCancelled(j) PROVE WorkerInv'
    BY <1>11, JobExecution, QuietStep DEF SaveCancelled, Live
  <1>12. ASSUME NEW j \in Job, Report(j) PROVE WorkerInv'
    <2>1. /\ wpc[j] = "saved" /\ UNCHANGED <<row, pc, owner, job>>
          /\ WGoto(j, "reported") \/ WGoto(j, "done")
      BY <1>12 DEF Report
    <2>. QED
      BY <2>1, QuietStep DEF Live
  <1>13. ASSUME NEW j \in Job, EndJob(j) \/ PrepareFails(j) \/ WorkerDies(j) PROVE WorkerInv'
    <2>1. /\ UNCHANGED <<row, pc, owner>>
          /\ WGoto(j, "done") \/ WGoto(j, "dead")
          /\ \A k \in Job : job'[k] = "waiting" => job[k] = "waiting"
      BY <1>13 DEF EndJob, PrepareFails, WorkerDies, MoveJob
    <2>. QED
      BY <2>1, QuietStep DEF Live
  <1>14. ASSUME NEW j \in Job, ReceiveAbort(j) PROVE WorkerInv'
    BY <1>14, QuietStep DEF ReceiveAbort, Live
  <1>15. ASSUME NEW m \in Mains, ReceiveResult(m) PROVE WorkerInv'
    BY <1>15, QuietStep DEF ReceiveResult, Live
  <1>16. ASSUME NEW m \in Mains, MainDies(m) PROVE WorkerInv'
    <2>1. /\ UNCHANGED <<row, job, wpc, owner>>
          /\ \A k \in Job : pc'[k] = IF owner[k] = m /\ pc[k] \notin {"refused", "over"}
                                     THEN "lost" ELSE pc[k]
      BY <1>16 DEF MainDies
    <2>2. \A k \in Job : pc[k] = "idle" => owner[k] # m
      BY NoMainAssumption DEF WorkerInv, Unowned
    <2>3. \A k \in Job : pc'[k] = "idle" <=> pc[k] = "idle"
      BY <2>1, <2>2
    <2>4. \A k \in Job : Live(k)' => Live(k)
      BY <2>1 DEF Live
    <2>. QED
      BY <2>1, <2>3, <2>4, QuietStep
  <1>17. ASSUME NEW e \in Executions, StopRequest(e) \/ StopWrites(e) PROVE WorkerInv'
    BY <1>17, QuietStep DEF StopRequest, StopWrites, Live
  <1>18. ASSUME NEW m \in Mains, NEW e \in Executions, StopInScalingMode(m, e) PROVE WorkerInv'
    BY <1>18, QuietStep DEF StopInScalingMode, Live
  <1>19. CASE RecoveryStep \/ UNCHANGED vars
    BY <1>19, QuietStep DEF RecoveryStep, ReadRows, ReadJobs, MarkAsCrashed, vars, Live
  <1>20. ASSUME NEW j \in Job, SaveFails(j) PROVE WorkerInv'
    <2>1. wpc[j] = "saving" /\ WGoto(j, "saved") /\ UNCHANGED <<row, pc, owner, job>>
      BY <1>20 DEF SaveFails
    <2>. QED
      BY <2>1, QuietStep DEF Live
  <1>. QED
    BY <1>1, <1>2, <1>3, <1>4, <1>5, <1>6, <1>7, <1>8, <1>9, <1>10, <1>11, <1>12, <1>13, <1>14,
       <1>15, <1>16, <1>17, <1>18, <1>19, <1>20 DEF Next, MainStep, WorkerStep

(* add's requireStatus is enough: however many mains find an execution     *)
(* waiting, and whichever locks are lost, workers die or rows are marked   *)
(* meanwhile, no two workers run an execution at a time.                   *)
THEOREM OneWorkerTheorem == Spec => []OneWorkerPerExecution
  <1>1. WorkerInv => OneWorkerPerExecution
    BY DEF WorkerInv, OneLive, OneWorkerPerExecution, Working, Live
  <1>2. WorkerInv => Unowned
    BY DEF WorkerInv
  <1>. QED
    BY <1>1, <1>2, TypeInit, TypeNext, WorkerInit, StagesNext, OneWorkerNext, PTL DEF Spec
=============================================================================
