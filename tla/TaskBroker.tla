----------------------------- MODULE TaskBroker -----------------------------
(***************************************************************************)
(* The task broker and the local task requester of an n8n process          *)
(* (packages/cli/src/task-runners).  They live in one event loop and call  *)
(* each other directly: from the runner's acceptance of an offer to the    *)
(* task settings sent back to it only promise jobs run, so each handler    *)
(* below, with the requester's part of it, is one step.                    *)
(*                                                                         *)
(* acceptOffer is a coroutine.  It is suspended at one place only, while   *)
(* it awaits the runner's answer: the tasks in accepting.                  *)
(***************************************************************************)
EXTENDS TaskProtocol

CONSTANTS NoRequest, NoTask
ASSUME NoRequestAssumption == NoRequest \notin Requests
ASSUME NoTaskAssumption    == NoTask \notin Task

VARIABLES
  knownRunners,         \* registered runners
  pendingTaskOffers,    \* offers not yet matched ...
  offerLog,             \* ... in the order of this log of all offers received
  pendingTaskRequests,  \* requests no runner has accepted yet ...
  requestLog,           \* ... in the order of this log of all requests received
  acceptInProgress,     \* requests whose acceptInProgress flag is set
  accepting,            \* tasks whose acceptOffer awaits the runner's answer
  runnerAcceptRejects,  \* tasks with an entry in runnerAcceptRejects
  request,              \* request[t] : the request acceptOffer matched with offer t
  tasks,                \* broker.tasks
  requestTimeout,       \* requests whose timeout is armed
  taskTimeout,          \* tasks whose timeout is armed
  isDraining,
  reqState,             \* reqState[q] : where the promise of startTask stands
  reqTask,              \* reqTask[q] : the task id startTask was given
  rpcs                  \* tasks for which the requester is executing an rpc

listVars    == <<knownRunners, pendingTaskOffers, offerLog, pendingTaskRequests, requestLog>>
acceptVars  == <<acceptInProgress, accepting, runnerAcceptRejects, request>>
timerVars   == <<requestTimeout, taskTimeout>>
reqVars     == <<reqState, reqTask, rpcs>>
brokerVars  == <<listVars, acceptVars, tasks, timerVars, isDraining, reqVars>>

Waiting == {"awaitReady", "awaitResult"}
Settled == {"done", "error", "expired", "cancelled"}

BrokerTypeOK ==
  /\ knownRunners \subseteq Runners
  /\ pendingTaskOffers \subseteq Task
  /\ offerLog \in Seq(Task)
  /\ pendingTaskRequests \subseteq Requests
  /\ requestLog \in Seq(Requests)
  /\ acceptInProgress \subseteq Requests
  /\ accepting \subseteq Task
  /\ runnerAcceptRejects \subseteq Task
  /\ request \in [Task -> Requests \cup {NoRequest}]
  /\ tasks \subseteq Task
  /\ requestTimeout \subseteq Requests
  /\ taskTimeout \subseteq Task
  /\ isDraining \in BOOLEAN
  /\ reqState \in [Requests -> {"idle"} \cup Waiting \cup Settled]
  /\ reqTask \in [Requests -> Task \cup {NoTask}]
  /\ rpcs \subseteq Task

BrokerInit ==
  /\ knownRunners = {}
  /\ pendingTaskOffers = {}
  /\ offerLog = << >>
  /\ pendingTaskRequests = {}
  /\ requestLog = << >>
  /\ acceptInProgress = {}
  /\ accepting = {}
  /\ runnerAcceptRejects = {}
  /\ request = [t \in Task |-> NoRequest]
  /\ tasks = {}
  /\ requestTimeout = {}
  /\ taskTimeout = {}
  /\ isDraining = FALSE
  /\ reqState = [q \in Requests |-> "idle"]
  /\ reqTask = [q \in Requests |-> NoTask]
  /\ rpcs = {}

-----------------------------------------------------------------------------
(* settleTasks                                                             *)

(* The order in which r is sent the acceptances of its offers: all of one  *)
(* type, so they are matched in the order they were made.                  *)
AcceptOrders(r, matched) ==
  LET mine == {o \in matched : Runner(o) = r}
  IN  {s \in [1 .. Cardinality(mine) -> mine] :
         /\ ToSet(s) = mine
         /\ \A i, j \in DOMAIN s : i < j => s[i][2] < s[j][2]}

AcceptMsgs(s) == [i \in DOMAIN s |-> TaskMsg("taskofferaccept", s[i])]

(* The offers that expireTasks may find past their validUntil. *)
Expirable(offers) == {o \in offers : Runner(o) \notin Launchers}

(* The offers of pairs leave the list, and for every pair acceptOffer runs *)
(* up to its await.                                                        *)
AcceptOffers(offers, pairs) ==
  /\ pendingTaskOffers' = offers \ Taken(pairs)
  /\ acceptInProgress' = acceptInProgress \cup Served(pairs)
  /\ accepting' = accepting \cup Taken(pairs)
  /\ runnerAcceptRejects' = runnerAcceptRejects \cup Taken(pairs)
  /\ request' = [t \in Task |-> IF t \in Taken(pairs)
                                THEN CHOOSE q \in Served(pairs) : <<q, t>> \in pairs
                                ELSE request[t]]
  /\ \E s \in [Runners -> UNION {AcceptOrders(r, Taken(pairs)) : r \in Runners}] :
       /\ \A r \in Runners : s[r] \in AcceptOrders(r, Taken(pairs))
       /\ toRunner' = [r \in Runners |->
                         IF r \in knownRunners /\ conn[r] = "open"
                         THEN toRunner[r] \o AcceptMsgs(s[r]) ELSE toRunner[r]]

(* settleTasks with the given requests and offers in the lists *)
SettleTasks(requests, rlog, offers, olog) ==
  \E expired \in SUBSET Expirable(offers) :
    AcceptOffers(offers \ expired,
                 Matches(requests \ acceptInProgress, rlog, offers \ expired, olog))

-----------------------------------------------------------------------------
(* The requester                                                           *)

(* The promise awaiting the result of any task in ts is settled. *)
Settle(ts, outcome) ==
  reqState' = [q \in Requests |->
                 IF reqState[q] = "awaitResult" /\ reqTask[q] \in ts
                 THEN outcome ELSE reqState[q]]

(* startTask up to the await of taskIdPromise, with broker.taskRequested *)
StartTask(q) ==
  /\ reqState[q] = "idle"
  /\ IF isDraining
     THEN /\ reqState' = [reqState EXCEPT ![q] = "expired"]
          /\ UNCHANGED <<listVars, acceptVars, requestTimeout, toRunner>>
     ELSE /\ reqState' = [reqState EXCEPT ![q] = "awaitReady"]
          /\ requestTimeout' = requestTimeout \cup {q}
          /\ pendingTaskRequests' = pendingTaskRequests \cup {q}
          /\ requestLog' = Append(requestLog, q)
          /\ SettleTasks(pendingTaskRequests', requestLog', pendingTaskOffers, offerLog)
          /\ UNCHANGED <<knownRunners, offerLog>>
  /\ UNCHANGED <<conn, toBroker, tasks, taskTimeout, isDraining, reqTask, rpcs>>

(* cancelTasks of the execution that made the request, with the broker's   *)
(* cancelTask.  A request that has no task id yet is not affected, and the *)
(* broker's task timer stays armed.                                        *)
CancelTasks(q) ==
  LET t == reqTask[q]
  IN  /\ reqState[q] = "awaitResult"
      /\ reqState' = [reqState EXCEPT ![q] = "cancelled"]
      /\ IF t \in tasks
         THEN /\ tasks' = tasks \ {t}
              /\ toRunner' = Posted(Runner(t), <<TaskMsg("taskcancel", t)>>)
         ELSE UNCHANGED <<tasks, toRunner>>
      /\ UNCHANGED <<conn, toBroker, listVars, acceptVars, timerVars, isDraining, reqTask, rpcs>>

(* Mutant: the timeout spares a request that a runner is being asked to accept *)
RequestTimeoutIfIdle(q) ==
  /\ q \in requestTimeout
  /\ requestTimeout' = requestTimeout \ {q}
  /\ IF q \in pendingTaskRequests \ acceptInProgress
     THEN /\ pendingTaskRequests' = pendingTaskRequests \ {q}
          /\ reqState' = [reqState EXCEPT ![q] = "expired"]
     ELSE UNCHANGED <<pendingTaskRequests, reqState>>
  /\ UNCHANGED <<channelVars, knownRunners, pendingTaskOffers, offerLog, requestLog,
                 acceptVars, tasks, taskTimeout, isDraining, reqTask, rpcs>>

(* handleRequestTimeout: the request goes even while a runner is being     *)
(* asked to accept it.                                                     *)
RequestTimeout(q) ==
  /\ q \in requestTimeout
  /\ requestTimeout' = requestTimeout \ {q}
  /\ pendingTaskRequests' = pendingTaskRequests \ {q}
  /\ reqState' = IF q \in pendingTaskRequests /\ reqState[q] = "awaitReady"
                 THEN [reqState EXCEPT ![q] = "expired"] ELSE reqState
  /\ UNCHANGED <<channelVars, knownRunners, pendingTaskOffers, offerLog, requestLog,
                 acceptVars, tasks, taskTimeout, isDraining, reqTask, rpcs>>

(* Mutant: the method fails and the error is not reported *)
RpcReturnsNothing(t) ==
  /\ t \in rpcs
  /\ rpcs' = rpcs \ {t}
  /\ UNCHANGED <<channelVars, listVars, acceptVars, tasks, timerVars, isDraining, reqState,
                 reqTask>>

(* handleRpc continues after the method of the executing node has returned *)
(* and answers, if the broker still has the task.                          *)
RpcReturns(t) ==
  /\ t \in rpcs
  /\ rpcs' = rpcs \ {t}
  /\ toRunner' = IF t \in tasks THEN Posted(Runner(t), <<CallMsg("response", t, "rpc")>>)
                 ELSE toRunner
  /\ UNCHANGED <<conn, toBroker, listVars, acceptVars, tasks, timerVars, isDraining,
                 reqState, reqTask>>

-----------------------------------------------------------------------------
(* The broker's handlers of runner messages                                *)

(* runner:info registers the connection. *)
OnInfo(r) ==
  /\ BrokerReads(r, Msg("info"))
  /\ knownRunners' = knownRunners \cup {r}
  /\ toRunner' = Posted(r, <<Msg("runnerregistered")>>)
  /\ UNCHANGED <<conn, pendingTaskOffers, offerLog, pendingTaskRequests, requestLog,
                 acceptVars, tasks, timerVars, isDraining, reqVars>>

(* taskOffered *)
OnTaskOffer(r, t) ==
  /\ r \in knownRunners
  /\ BrokerReads(r, TaskMsg("taskoffer", t))
  /\ offerLog' = Append(offerLog, t)
  /\ SettleTasks(pendingTaskRequests, requestLog, pendingTaskOffers \cup {t}, offerLog')
  /\ UNCHANGED <<conn, knownRunners, pendingTaskRequests, requestLog, tasks, timerVars,
                 isDraining, reqVars>>

(* The rest of acceptOffer when the request is still pending: it leaves    *)
(* the list, startTask gets its task id and answers with the settings,     *)
(* which go to the runner with the task timeout armed.                     *)
TaskReady(t, q) ==
  /\ q \in pendingTaskRequests
  /\ pendingTaskRequests' = pendingTaskRequests \ {q}
  /\ reqState' = [reqState EXCEPT ![q] = "awaitResult"]
  /\ reqTask' = [reqTask EXCEPT ![q] = t]
  /\ taskTimeout' = taskTimeout \cup {t}
  /\ toRunner' = Posted(Runner(t), <<TaskMsg("tasksettings", t)>>)

(* Mutant: the settings are sent before the request is looked up *)
RequestGoneAfterSettings(t, q) ==
  /\ q \notin pendingTaskRequests
  /\ toRunner' = Posted(Runner(t), <<TaskMsg("tasksettings", t)>>)
  /\ taskTimeout' = taskTimeout \cup {t}
  /\ UNCHANGED <<pendingTaskRequests, reqState, reqTask>>

(* ... and when the request expired while the runner was asked: an error   *)
(* is logged and the task stays in broker.tasks.                           *)
RequestGone(t, q) ==
  /\ q \notin pendingTaskRequests
  /\ UNCHANGED <<pendingTaskRequests, reqState, reqTask, taskTimeout, toRunner>>

(* handleRunnerAccept when acceptOffer still waits *)
OnTaskAccepted(r, t) ==
  LET q == request[t]
  IN  /\ r \in knownRunners
      /\ BrokerReads(r, TaskMsg("taskaccepted", t))
      /\ t \in accepting
      /\ accepting' = accepting \ {t}
      /\ runnerAcceptRejects' = runnerAcceptRejects \ {t}
      /\ requestTimeout' = requestTimeout \ {q}
      /\ tasks' = tasks \cup {t}
      /\ TaskReady(t, q) \/ RequestGone(t, q)
      /\ UNCHANGED <<conn, knownRunners, pendingTaskOffers, offerLog, requestLog,
                     acceptInProgress, request, isDraining, rpcs>>

(* Mutant: a deferral clears the request's timeout and sets no other *)
OnTaskRefusedNoTimer(r, t, type) ==
  /\ r \in knownRunners
  /\ BrokerReads(r, TaskMsg(type, t))
  /\ t \in accepting
  /\ accepting' = accepting \ {t}
  /\ runnerAcceptRejects' = runnerAcceptRejects \ {t}
  /\ acceptInProgress' = acceptInProgress \ {request[t]}
  /\ requestTimeout' = requestTimeout \ {request[t]}
  /\ UNCHANGED <<conn, toRunner, listVars, request, tasks, taskTimeout, isDraining, reqVars>>

(* handleRunnerReject, handleRunnerDeferred when acceptOffer still waits:  *)
(* the request may be matched again by the next settleTasks.  A deferral   *)
(* restarts the request's timeout.                                         *)
OnTaskRefused(r, t, type) ==
  /\ r \in knownRunners
  /\ BrokerReads(r, TaskMsg(type, t))
  /\ t \in accepting
  /\ accepting' = accepting \ {t}
  /\ runnerAcceptRejects' = runnerAcceptRejects \ {t}
  /\ acceptInProgress' = acceptInProgress \ {request[t]}
  /\ requestTimeout' = IF type = "taskdeferred" THEN requestTimeout \cup {request[t]}
                       ELSE requestTimeout
  /\ UNCHANGED <<conn, toRunner, listVars, request, tasks, taskTimeout, isDraining, reqVars>>

(* The same messages after acceptOffer gave up waiting *)
OnLateAnswer(r, t, type) ==
  /\ r \in knownRunners
  /\ BrokerReads(r, TaskMsg(type, t))
  /\ t \notin accepting
  /\ runnerAcceptRejects' = runnerAcceptRejects \ {t}
  /\ UNCHANGED <<conn, toRunner, listVars, acceptInProgress, accepting, request, tasks,
                 timerVars, isDraining, reqVars>>

(* Mutant: the flag is reset on rejection only *)
AcceptTimeoutKeepsFlag(t) ==
  /\ t \in accepting
  /\ accepting' = accepting \ {t}
  /\ UNCHANGED <<channelVars, listVars, acceptInProgress, runnerAcceptRejects, request, tasks,
                 timerVars, isDraining, reqVars>>

(* acceptOffer's own two second timeout.  Nothing tells the runner. *)
AcceptTimeout(t) ==
  /\ t \in accepting
  /\ accepting' = accepting \ {t}
  /\ acceptInProgress' = acceptInProgress \ {request[t]}
  /\ UNCHANGED <<channelVars, listVars, runnerAcceptRejects, request, tasks, timerVars,
                 isDraining, reqVars>>

(* taskDoneHandler, taskErrorHandler *)
OnTaskEnded(r, t, type) ==
  /\ r \in knownRunners
  /\ BrokerReads(r, TaskMsg(type, t))
  /\ IF t \in tasks
     THEN /\ tasks' = tasks \ {t}
          /\ taskTimeout' = taskTimeout \ {t}
          /\ Settle({t}, IF type = "taskdone" THEN "done" ELSE "error")
     ELSE UNCHANGED <<tasks, taskTimeout, reqState>>
  /\ UNCHANGED <<conn, toRunner, listVars, acceptVars, requestTimeout, isDraining, reqTask, rpcs>>

(* handleDataRequest, handleNodeTypesRequest and handleRpcRequest with the *)
(* requester's sendTaskData, sendNodeTypes and handleRpc.  The requester   *)
(* has the task as long as it awaits its result; node types are sent       *)
(* without looking.                                                        *)
OnRequest(r, t, k) ==
  LET known == \E q \in Requests : reqState[q] = "awaitResult" /\ reqTask[q] = t
  IN  /\ r \in knownRunners
      /\ BrokerReads(r, CallMsg("request", t, k))
      /\ toRunner' = IF t \in tasks /\ (k = "nodetypes" \/ (k = "data" /\ known))
                     THEN Posted(r, <<CallMsg("response", t, k)>>) ELSE toRunner
      /\ rpcs' = IF t \in tasks /\ k = "rpc" /\ known THEN rpcs \cup {t} ELSE rpcs
      /\ UNCHANGED <<conn, listVars, acceptVars, tasks, timerVars, isDraining, reqState, reqTask>>

(* A message of a runner that is not registered, or no longer *)
OnUnknownRunner(r) ==
  /\ r \notin knownRunners
  /\ \E m \in ToBroker : m # Msg("info") /\ BrokerReads(r, m)
  /\ UNCHANGED <<conn, toRunner, brokerVars>>

(* Mutant: the tasks are dropped and nobody is told *)
FailTasksSilently(ts) ==
  /\ tasks' = tasks \ ts
  /\ UNCHANGED reqState

(* taskErrorHandler, called by handleTaskTimeout and by deregisterRunner's *)
(* failTask for the tasks ts                                               *)
FailTasks(ts) ==
  /\ tasks' = tasks \ ts
  /\ Settle(tasks \cap ts, "error")

(* Mutant: only the runner and its offers are removed *)
DeregisterRunnerOnly(r) ==
  /\ knownRunners' = knownRunners \ {r}
  /\ pendingTaskOffers' = {t \in pendingTaskOffers : Runner(t) # r}
  /\ UNCHANGED <<offerLog, pendingTaskRequests, requestLog, acceptVars, tasks, timerVars,
                 isDraining, reqVars>>

(* deregisterRunner.  The acceptOffers waiting for r are not told: none of *)
(* their tasks is in tasks yet.                                            *)
DeregisterRunner(r) ==
  /\ knownRunners' = knownRunners \ {r}
  /\ pendingTaskOffers' = {t \in pendingTaskOffers : Runner(t) # r}
  /\ FailTasks({t \in tasks : Runner(t) = r})
  /\ UNCHANGED <<offerLog, pendingTaskRequests, requestLog, acceptVars, timerVars, isDraining,
                 reqTask, rpcs>>

(* drainActiveTasks up to its first sleep: new requests are refused from   *)
(* now on, and the runners connected at this moment stop offering.         *)
StartDraining ==
  /\ ~isDraining
  /\ isDraining' = TRUE
  /\ toRunner' = [r \in Runners |-> IF r \in knownRunners /\ conn[r] = "open"
                                    THEN Append(toRunner[r], Msg("drain")) ELSE toRunner[r]]
  /\ UNCHANGED <<conn, toBroker, listVars, acceptVars, tasks, timerVars, reqVars>>

BrokerNext ==
  \/ \E q \in Requests : StartTask(q) \/ CancelTasks(q) \/ RequestTimeout(q)
  \/ \E t \in Task : RpcReturns(t) \/ AcceptTimeout(t)
  \/ StartDraining
  \/ \E r \in Runners :
       \/ OnInfo(r) \/ OnUnknownRunner(r)
       \/ \E t \in Task :
            \/ OnTaskOffer(r, t) \/ OnTaskAccepted(r, t)
            \/ OnTaskRefused(r, t, "taskrejected") \/ OnTaskRefused(r, t, "taskdeferred")
            \/ OnLateAnswer(r, t, "taskaccepted") \/ OnLateAnswer(r, t, "taskrejected")
            \/ OnLateAnswer(r, t, "taskdeferred")
            \/ OnTaskEnded(r, t, "taskdone") \/ OnTaskEnded(r, t, "taskerror")
            \/ \E k \in CallKinds : OnRequest(r, t, k)
=============================================================================
