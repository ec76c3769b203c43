----------------------------- MODULE TaskRunner -----------------------------
(***************************************************************************)
(* A task runner process (packages/@n8n/task-runner): it offers its free   *)
(* slots to the broker, turns an accepted offer into a task, waits for the *)
(* task's settings, executes it and reports the outcome.  Every action is  *)
(* one callback of the process: a message, a timer, the end of executeTask *)
(* or a signal.                                                            *)
(***************************************************************************)
EXTENDS TaskProtocol

VARIABLES
  canSendOffers,   \* runners whose offer interval is active
  isShuttingDown,  \* runners whose stop() has been called
  openOffers,      \* offers made and neither accepted nor found stale
  offersSent,      \* offersSent[r] : offers r has made
  status,          \* status[t] : TaskState.status, "none" for a task not in runningTasks
  timeoutTimer,    \* tasks whose TaskState.timeoutTimer is armed
  calls            \* <<t, k>> : t awaits the answer to a call of kind k

runnerVars == <<canSendOffers, isShuttingDown, openOffers, offersSent, status,
                timeoutTimer, calls>>

Status == {"none", "waitingForSettings", "running", "aborting:cancelled",
           "aborting:timeout"}

RunnerTypeOK ==
  /\ canSendOffers \subseteq Runners
  /\ isShuttingDown \subseteq Runners
  /\ openOffers \subseteq Task
  /\ offersSent \in [Runners -> 0 .. MaxOffers]
  /\ status \in [Task -> Status]
  /\ timeoutTimer \subseteq Task
  /\ calls \subseteq Task \X CallKinds

RunnerInit ==
  /\ canSendOffers = {}
  /\ isShuttingDown = {}
  /\ openOffers = {}
  /\ offersSent = [r \in Runners |-> 0]
  /\ status = [t \in Task |-> "none"]
  /\ timeoutTimer = {}
  /\ calls = {}

OffersOf(r)     == {t \in openOffers : Runner(t) = r}
RunningTasks(r) == {t \in Task : Runner(t) = r /\ status[t] # "none"}

(* Mutant: the slots of running tasks are offered too *)
OffersToSendOpenOnly(r, stale, done) == MaxConcurrency - Cardinality(OffersOf(r) \ stale)

(* offersToSend of sendOffers once the stale offers are deleted and the     *)
(* tasks done have left runningTasks                                        *)
OffersToSend(r, stale, done) ==
  MaxConcurrency - (Cardinality(OffersOf(r) \ stale) + Cardinality(RunningTasks(r) \ done))

(* The numbers of the offers sendOffers makes: none while offers are        *)
(* stopped, and none beyond MaxOffers.                                      *)
NewOffers(r, stale, done) ==
  LET wanted == offersSent[r] + OffersToSend(r, stale, done)
      last   == IF wanted <= MaxOffers THEN wanted ELSE MaxOffers
  IN  IF r \in canSendOffers THEN offersSent[r] + 1 .. last ELSE {}

(* Mutant: the id sent is not the one recorded in openOffers *)
OfferMsgsOffByOne(r, new) ==
  [i \in 1 .. Cardinality(new) |-> TaskMsg("taskoffer", <<r, offersSent[r] + i + 1>>)]

OfferMsgs(r, new) ==
  [i \in 1 .. Cardinality(new) |-> TaskMsg("taskoffer", <<r, offersSent[r] + i>>)]

SendOffers(r, stale, done) ==
  LET new == NewOffers(r, stale, done)
  IN  /\ openOffers' = (openOffers \ stale) \cup ({r} \X new)
      /\ offersSent' = [offersSent EXCEPT ![r] = @ + Cardinality(new)]

(* Mutant: finishTask without taskState.cleanup() *)
FinishTaskKeepsTimer(t, stale) ==
  /\ status' = [status EXCEPT ![t] = "none"]
  /\ UNCHANGED timeoutTimer
  /\ SendOffers(Runner(t), stale, {t})

(* finishTask: the task leaves runningTasks, its timer is cleared and its   *)
(* slot offered again.                                                      *)
FinishTask(t, stale) ==
  /\ status' = [status EXCEPT ![t] = "none"]
  /\ timeoutTimer' = timeoutTimer \ {t}
  /\ SendOffers(Runner(t), stale, {t})

FinishMsgs(t, stale) == OfferMsgs(Runner(t), NewOffers(Runner(t), stale, {t}))

(* The offers that have outlived validUntil are any of the open ones. *)
Stale(r) == SUBSET OffersOf(r)

-----------------------------------------------------------------------------
(* The process starts and opens its WebSocket; the broker's add() answers  *)
(* with an info request.                                                   *)
Connect(r) ==
  /\ conn[r] = "new"
  /\ conn' = [conn EXCEPT ![r] = "open"]
  /\ toRunner' = [toRunner EXCEPT ![r] = <<Msg("inforequest")>>]
  /\ UNCHANGED <<toBroker, runnerVars>>

OnInfoRequest(r) ==
  /\ RunnerReads(r, Msg("inforequest"), <<Msg("info")>>)
  /\ UNCHANGED runnerVars

(* startTaskOffers: the interval's first tick is a later OfferInterval.    *)
OnRunnerRegistered(r) ==
  /\ r \notin Launchers
  /\ RunnerReads(r, Msg("runnerregistered"), << >>)
  /\ canSendOffers' = canSendOffers \cup {r}
  /\ UNCHANGED <<isShuttingDown, openOffers, offersSent, status, timeoutTimer, calls>>

OfferInterval(r) ==
  /\ conn[r] = "open"
  /\ r \in canSendOffers
  /\ \E stale \in Stale(r) :
       /\ SendOffers(r, stale, {})
       /\ toBroker' = [toBroker EXCEPT ![r] = @ \o OfferMsgs(r, NewOffers(r, stale, {}))]
  /\ UNCHANGED <<conn, toRunner, canSendOffers, isShuttingDown, status, timeoutTimer, calls>>

HasOpenTaskSlots(r) == Cardinality(RunningTasks(r)) < MaxConcurrency

(* Mutant: the task is accepted without its timer *)
OnOfferAcceptNoTimer(r, t) ==
  /\ r \notin Launchers
  /\ IF r \notin isShuttingDown /\ HasOpenTaskSlots(r) /\ t \in openOffers
     THEN /\ RunnerReads(r, TaskMsg("taskofferaccept", t), <<TaskMsg("taskaccepted", t)>>)
          /\ openOffers' = openOffers \ {t}
          /\ status' = [status EXCEPT ![t] = "waitingForSettings"]
     ELSE /\ RunnerReads(r, TaskMsg("taskofferaccept", t), <<TaskMsg("taskrejected", t)>>)
          /\ openOffers' = openOffers \ {t}
          /\ UNCHANGED status
  /\ UNCHANGED <<canSendOffers, isShuttingDown, offersSent, timeoutTimer, calls>>

(* offerAccepted *)
OnOfferAccept(r, t) ==
  /\ r \notin Launchers
  /\ IF r \notin isShuttingDown /\ HasOpenTaskSlots(r) /\ t \in openOffers
     THEN /\ RunnerReads(r, TaskMsg("taskofferaccept", t), <<TaskMsg("taskaccepted", t)>>)
          /\ openOffers' = openOffers \ {t}
          /\ status' = [status EXCEPT ![t] = "waitingForSettings"]
          /\ timeoutTimer' = timeoutTimer \cup {t}
     ELSE /\ RunnerReads(r, TaskMsg("taskofferaccept", t), <<TaskMsg("taskrejected", t)>>)
          /\ openOffers' = IF r \in isShuttingDown THEN openOffers ELSE openOffers \ {t}
          /\ UNCHANGED <<status, timeoutTimer>>
  /\ UNCHANGED <<canSendOffers, isShuttingDown, offersSent, calls>>

(* cancelTaskRequests: data and node type requests are rejected, rpc calls *)
(* are not.                                                                *)
CancelTaskRequests(t) == calls \ ({t} \X {"data", "nodetypes"})

(* taskCancelled *)
OnTaskCancel(r, t) ==
  /\ \/ /\ status[t] = "waitingForSettings"
        /\ \E stale \in Stale(Runner(t)) :
             /\ RunnerReads(r, TaskMsg("taskcancel", t), FinishMsgs(t, stale))
             /\ FinishTask(t, stale)
        /\ UNCHANGED calls
     \/ /\ status[t] = "running"
        /\ RunnerReads(r, TaskMsg("taskcancel", t), << >>)
        /\ status' = [status EXCEPT ![t] = "aborting:cancelled"]
        /\ calls' = CancelTaskRequests(t)
        /\ UNCHANGED <<openOffers, offersSent, timeoutTimer>>
     \/ /\ status[t] \in {"none", "aborting:timeout", "aborting:cancelled"}
        /\ RunnerReads(r, TaskMsg("taskcancel", t), << >>)
        /\ UNCHANGED <<openOffers, offersSent, status, timeoutTimer, calls>>
  /\ UNCHANGED <<canSendOffers, isShuttingDown>>

(* receivedSettings.  In any other status the code fails an assertion and  *)
(* the task stays as it is: NoUnexpectedTaskStatus shows it never does.    *)
OnTaskSettings(r, t) ==
  /\ RunnerReads(r, TaskMsg("tasksettings", t), << >>)
  /\ status' = IF status[t] = "waitingForSettings"
               THEN [status EXCEPT ![t] = "running"] ELSE status
  /\ UNCHANGED <<canSendOffers, isShuttingDown, openOffers, offersSent, timeoutTimer, calls>>

(* processDataResponse, processNodeTypesResponse, handleRpcResponse *)
OnResponse(r, t, k) ==
  /\ RunnerReads(r, CallMsg("response", t, k), << >>)
  /\ calls' = calls \ {<<t, k>>}
  /\ UNCHANGED <<canSendOffers, isShuttingDown, openOffers, offersSent, status, timeoutTimer>>

(* broker:drain stops the offers; the open ones stay open. *)
OnDrain(r) ==
  /\ RunnerReads(r, Msg("drain"), << >>)
  /\ canSendOffers' = canSendOffers \ {r}
  /\ UNCHANGED <<isShuttingDown, openOffers, offersSent, status, timeoutTimer, calls>>

-----------------------------------------------------------------------------
(* requestData, requestNodeTypes, makeRpcCall of a task being executed *)
Call(t, k) ==
  /\ conn[Runner(t)] = "open"
  /\ status[t] = "running"
  /\ <<t, k>> \notin calls
  /\ calls' = calls \cup {<<t, k>>}
  /\ toBroker' = [toBroker EXCEPT ![Runner(t)] = Append(@, CallMsg("request", t, k))]
  /\ UNCHANGED <<conn, toRunner, canSendOffers, isShuttingDown, openOffers, offersSent,
                 status, timeoutTimer>>

(* Mutant: a task that timed out reports nothing either *)
ReportOnlyIfRunning(t, outcome) ==
  IF status[t] = "running" THEN <<TaskMsg(outcome, t)>> ELSE << >>

(* A cancelled task reports nothing; one that timed out still reports. *)
Report(t, outcome) ==
  IF status[t] = "aborting:cancelled" THEN << >> ELSE <<TaskMsg(outcome, t)>>

(* taskExecutionSucceeded, taskExecutionFailed: executeTask has settled. *)
ExecutionEnds(t, outcome) ==
  /\ conn[Runner(t)] = "open"
  /\ status[t] \in {"running", "aborting:timeout", "aborting:cancelled"}
  /\ \E stale \in Stale(Runner(t)) :
       /\ toBroker' = [toBroker EXCEPT ![Runner(t)] =
                         @ \o Report(t, outcome) \o FinishMsgs(t, stale)]
       /\ FinishTask(t, stale)
  /\ UNCHANGED <<conn, toRunner, canSendOffers, isShuttingDown, calls>>

(* Mutant: a task that never got its settings times out silently *)
NoTimeoutReport(t) == << >>

TimeoutReport(t) == <<TaskMsg("taskerror", t)>>

(* taskTimedOut: the timer set when the offer was accepted fires, once. *)
RunnerTaskTimeout(t) ==
  /\ conn[Runner(t)] = "open"
  /\ t \in timeoutTimer
  /\ \/ /\ status[t] = "waitingForSettings"
        /\ \E stale \in Stale(Runner(t)) :
             /\ toBroker' = [toBroker EXCEPT ![Runner(t)] =
                               @ \o TimeoutReport(t) \o FinishMsgs(t, stale)]
             /\ FinishTask(t, stale)
        /\ UNCHANGED calls
     \/ /\ status[t] = "running"
        /\ status' = [status EXCEPT ![t] = "aborting:timeout"]
        /\ calls' = CancelTaskRequests(t)
        /\ timeoutTimer' = timeoutTimer \ {t}
        /\ UNCHANGED <<toBroker, openOffers, offersSent>>
     \/ /\ status[t] = "aborting:cancelled"
        /\ timeoutTimer' = timeoutTimer \ {t}
        /\ UNCHANGED <<toBroker, openOffers, offersSent, status, calls>>
  /\ UNCHANGED <<conn, toRunner, canSendOffers, isShuttingDown>>

(* stop(), on SIGINT, SIGTERM or the idle timeout *)
Stop(r) ==
  /\ conn[r] = "open"
  /\ r \notin isShuttingDown
  /\ isShuttingDown' = isShuttingDown \cup {r}
  /\ canSendOffers' = canSendOffers \ {r}
  /\ openOffers' = openOffers \ OffersOf(r)
  /\ UNCHANGED <<channelVars, offersSent, status, timeoutTimer, calls>>

(* The processes rs are gone, and with them all of their state. *)
ProcessesExit(rs) ==
  /\ conn' = [r \in Runners |-> IF r \in rs THEN "closed" ELSE conn[r]]
  /\ toRunner' = [r \in Runners |-> IF r \in rs THEN << >> ELSE toRunner[r]]
  /\ canSendOffers' = canSendOffers \ rs
  /\ openOffers' = {t \in openOffers : Runner(t) \notin rs}
  /\ status' = [t \in Task |-> IF Runner(t) \in rs THEN "none" ELSE status[t]]
  /\ timeoutTimer' = {t \in timeoutTimer : Runner(t) \notin rs}
  /\ calls' = {c \in calls : Runner(c[1]) \notin rs}
  /\ UNCHANGED <<isShuttingDown, offersSent>>

(* stop() continues once waitUntilAllTasksAreDone returns. *)
CloseConnection(r) ==
  /\ conn[r] = "open"
  /\ r \in isShuttingDown
  /\ RunningTasks(r) = {}
  /\ ProcessesExit({r})
  /\ UNCHANGED toBroker

(* The processes die with any suffix of what each wrote still unsent:      *)
(* killed, out of memory, a lost connection (onConnectionClose), or the    *)
(* timeout of a shutdown.                                                  *)
Die(rs) ==
  /\ ProcessesExit(rs)
  /\ \E left \in [rs -> UNION {Prefixes(toBroker[r]) : r \in rs}] :
       /\ \A r \in rs : left[r] \in Prefixes(toBroker[r])
       /\ toBroker' = [r \in Runners |-> IF r \in rs THEN left[r] ELSE toBroker[r]]

Crash(r) == conn[r] = "open" /\ Die({r})

(* The launcher stands in for a runner that is not started yet: it makes   *)
(* one offer that never expires and defers the task that claims it.        *)
LauncherRegistered(r) ==
  /\ r \in Launchers
  /\ offersSent[r] < MaxOffers
  /\ RunnerReads(r, Msg("runnerregistered"), <<TaskMsg("taskoffer", <<r, offersSent[r] + 1>>)>>)
  /\ offersSent' = [offersSent EXCEPT ![r] = @ + 1]
  /\ UNCHANGED <<canSendOffers, isShuttingDown, openOffers, status, timeoutTimer, calls>>

LauncherDefers(r, t) ==
  /\ r \in Launchers
  /\ RunnerReads(r, TaskMsg("taskofferaccept", t), <<TaskMsg("taskdeferred", t)>>)
  /\ UNCHANGED runnerVars

RunnerNext ==
  \/ \E r \in Runners :
       \/ Connect(r) \/ OnInfoRequest(r) \/ OnRunnerRegistered(r) \/ OfferInterval(r)
       \/ OnDrain(r) \/ Stop(r) \/ CloseConnection(r) \/ Crash(r) \/ LauncherRegistered(r)
       \/ \E t \in Task : OnOfferAccept(r, t) \/ OnTaskCancel(r, t) \/ OnTaskSettings(r, t)
                          \/ LauncherDefers(r, t)
       \/ \E t \in Task, k \in CallKinds : OnResponse(r, t, k)
  \/ \E t \in Task :
       \/ RunnerTaskTimeout(t)
       \/ \E outcome \in {"taskdone", "taskerror"} : ExecutionEnds(t, outcome)
       \/ \E k \in CallKinds : Call(t, k)
=============================================================================
