---------------------------- MODULE TaskRunners -----------------------------
(***************************************************************************)
(* The task runner subsystem: the broker and the requester of one n8n      *)
(* process (TaskBroker), the runner processes (TaskRunner), the channels   *)
(* between them (TaskProtocol), and the steps in which the broker's        *)
(* process ends a runner: the timeout of a task, a failed heartbeat and    *)
(* the removal of a connection.                                            *)
(***************************************************************************)
EXTENDS TaskRunner, TaskBroker

vars == <<channelVars, runnerVars, brokerVars>>

Open == {r \in Runners : conn[r] = "open"}

(* handleTaskTimeout.  An external runner is told to cancel; internal      *)
(* runners are the children of this process and one event force-restarts   *)
(* them, all of them: every TaskRunnerProcessBase listens to it.           *)
TaskTimeout(t) ==
  /\ t \in taskTimeout
  /\ taskTimeout' = taskTimeout \ {t}
  /\ IF t \in tasks
     THEN /\ FailTasks({t})
          /\ \/ /\ Mode = "internal"
                /\ Die(Open)
             \/ /\ Mode = "external"
                /\ toRunner' = Posted(Runner(t), <<TaskMsg("taskcancel", t)>>)
                /\ UNCHANGED <<conn, toBroker, runnerVars>>
     ELSE UNCHANGED <<channelVars, runnerVars, tasks, reqState>>
  /\ UNCHANGED <<listVars, acceptVars, requestTimeout, isDraining, reqTask, rpcs>>

(* A registered runner misses its heartbeat.  Internal runners are killed  *)
(* at once, again all of them; their connections are removed later.        *)
HeartbeatFails(r) ==
  /\ Mode = "internal"
  /\ r \in knownRunners
  /\ conn[r] = "open"
  /\ Die(Open)
  /\ UNCHANGED brokerVars

(* removeConnection after its await: the connection was closed, a          *)
(* heartbeat failed, or the server is stopping.  The broker closes the     *)
(* connection, which ends the runner, and reads nothing more from it.      *)
RemoveConnection(r) ==
  /\ r \in knownRunners
  /\ conn[r] = "closed" \/ Mode = "external" \/ isDraining
  /\ DeregisterRunner(r)
  /\ ProcessesExit({r})
  /\ toBroker' = [toBroker EXCEPT ![r] = << >>]

Init == ChannelInit /\ RunnerInit /\ BrokerInit

Next ==
  \/ RunnerNext /\ UNCHANGED brokerVars
  \/ BrokerNext /\ UNCHANGED runnerVars
  \/ \E t \in Task : TaskTimeout(t)
  \/ \E r \in Runners : HeartbeatFails(r) \/ RemoveConnection(r)

Spec == Init /\ [][Next]_vars

TypeOK == ChannelTypeOK /\ RunnerTypeOK /\ BrokerTypeOK

-----------------------------------------------------------------------------
InFlight(m, channel) == m \in ToSet(channel)

(* A runner never promises more than its maxConcurrency: its open offers   *)
(* and its running tasks together stay within it, whatever becomes stale,  *)
(* is accepted late or is offered again by finishTask.                     *)
CapacityRespected ==
  \A r \in Runners : Cardinality(OffersOf(r)) + Cardinality(RunningTasks(r)) <= MaxConcurrency

(* No promise of startTask is forgotten: while it awaits a runner its      *)
(* request is in the broker's list with the request timeout armed, and     *)
(* while it awaits a result its task is in broker.tasks, with the task     *)
(* timeout armed.  Every step that drops one of these settles the promise. *)
PromiseIsGuarded ==
  \A q \in Requests :
    /\ reqState[q] = "awaitReady" => q \in pendingTaskRequests \cap requestTimeout
    /\ reqState[q] = "awaitResult" => /\ reqTask[q] \in tasks \cap taskTimeout
                                      /\ request[reqTask[q]] = q

(* The code of a request is executed by one runner at most, although       *)
(* acceptOffer may give up on a runner that has accepted and match the     *)
(* request with another: a task is executed only if it is the one whose id *)
(* startTask was given.                                                    *)
ExecutedForItsRequest ==
  \A t \in Task :
    status[t] \in {"running", "aborting:timeout", "aborting:cancelled"} =>
      request[t] \in Requests /\ reqTask[request[t]] = t

(* A pending request marked acceptInProgress is skipped by settleTasks, so *)
(* some acceptOffer must be serving it, and only one: otherwise it could   *)
(* never be matched again, or be matched twice.                            *)
ServedOnce ==
  \A q \in pendingTaskRequests :
    Cardinality({t \in accepting : request[t] = q}) = IF q \in acceptInProgress THEN 1 ELSE 0

(* Every task the broker counts as active can end without the broker's own *)
(* timeout: its runner is registered and still has the task, has reported  *)
(* its end, or is gone and will be deregistered.                           *)
ActiveTaskEnds ==
  \A t \in tasks :
    /\ Runner(t) \in knownRunners
    /\ \/ status[t] # "none"
       \/ InFlight(TaskMsg("taskdone", t), toBroker[Runner(t)])
       \/ InFlight(TaskMsg("taskerror", t), toBroker[Runner(t)])
       \/ conn[Runner(t)] = "closed"

(* The runner's throwUnexpectedTaskStatus is never reached: settings find  *)
(* the task waiting for them or gone, the timer finds it not yet timed     *)
(* out, and a task that executes has received settings.                    *)
NoUnexpectedTaskStatus ==
  /\ \A t \in Task : t \in timeoutTimer => status[t] \in Status \ {"none", "aborting:timeout"}
  /\ \A r \in Open, t \in Task :
       InFlight(TaskMsg("tasksettings", t), toRunner[r]) => status[t] \in {"none", "waitingForSettings"}

(* A call that a running task awaits is never dropped: as long as the      *)
(* broker has the task, the request, the requester's work on it or the     *)
(* response is under way.                                                  *)
NoLostCall ==
  \A t \in tasks, k \in CallKinds :
    status[t] = "running" /\ <<t, k>> \in calls =>
      \/ InFlight(CallMsg("request", t, k), toBroker[Runner(t)])
      \/ k = "rpc" /\ t \in rpcs
      \/ InFlight(CallMsg("response", t, k), toRunner[Runner(t)])

-----------------------------------------------------------------------------
(* What the comments say and the code does not guarantee                   *)

(* acceptOffer, on not finding the request of an accepted task: "This      *)
(* shouldn't happen".  Every task in broker.tasks would then be awaited by *)
(* some startTask.                                                         *)
NoOrphanTask ==
  \A t \in tasks : \E q \in Requests : reqTask[q] = t /\ reqState[q] = "awaitResult"

-----------------------------------------------------------------------------
(* Timers fire, sockets deliver, a closed socket is noticed, and code that *)
(* has been aborted stops: executeTask rejects when its signal fires.      *)
BrokerProgress(r) ==
  \/ OnInfo(r) \/ OnUnknownRunner(r)
  \/ \E t \in Task :
       \/ OnTaskOffer(r, t) \/ OnTaskAccepted(r, t) \/ OnTaskEnded(r, t, "taskdone")
       \/ OnTaskEnded(r, t, "taskerror")
       \/ \E type \in {"taskrejected", "taskdeferred"} : OnTaskRefused(r, t, type)
       \/ \E type \in {"taskaccepted", "taskrejected", "taskdeferred"} : OnLateAnswer(r, t, type)
       \/ \E k \in CallKinds : OnRequest(r, t, k)

Aborted(t) ==
  /\ status[t] \in {"aborting:timeout", "aborting:cancelled"}
  /\ ExecutionEnds(t, "taskerror")

Fairness ==
  /\ \A r \in Runners : WF_vars(BrokerProgress(r) /\ UNCHANGED runnerVars)
  /\ \A r \in Runners : WF_vars(conn[r] = "closed" /\ RemoveConnection(r))
  /\ \A q \in Requests : WF_vars(RequestTimeout(q) /\ UNCHANGED runnerVars)
  /\ \A t \in Task :
       /\ WF_vars(AcceptTimeout(t) /\ UNCHANGED runnerVars)
       /\ WF_vars(TaskTimeout(t))
       /\ WF_vars(RunnerTaskTimeout(t) /\ UNCHANGED brokerVars)
       /\ WF_vars(Aborted(t) /\ UNCHANGED brokerVars)

FairSpec == Spec /\ Fairness

(* Every startTask settles: with a result, an error, a timeout or a        *)
(* cancellation, even if every runner crashes or never answers.            *)
EveryRequestSettles ==
  \A q \in Requests : reqState[q] \in Waiting ~> reqState[q] \in Settled

(* The broker forgets every task, those accepted after their request       *)
(* expired included, so that drainActiveTasks does not wait in vain.       *)
EveryTaskEnds == \A t \in Task : t \in tasks ~> t \notin tasks

(* A runner gets its slot back from every task it accepted, also from one  *)
(* the broker no longer wants.                                             *)
EverySlotIsFreed == \A t \in Task : status[t] # "none" ~> status[t] = "none"
=============================================================================
