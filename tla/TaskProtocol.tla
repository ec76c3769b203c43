---------------------------- MODULE TaskProtocol ----------------------------
(***************************************************************************)
(* The WebSocket connections between the task broker of an n8n main or     *)
(* worker process and the task runner processes that execute user code:    *)
(* the messages of message-types.ts and one FIFO channel per direction and *)
(* runner.  The broker and the runners (TaskBroker, TaskRunner) both       *)
(* extend this module and change its variables only through Deliver... and *)
(* Post... below.                                                          *)
(***************************************************************************)
EXTENDS TaskMatching

CONSTANTS
  Runners,         \* runner processes; a restarted process has a new id, so it is another member
  Launchers,       \* those that are the launcher posing as a runner until one is needed
  Requests,        \* calls of TaskRequester.startTask
  MaxConcurrency,  \* TaskRunner.maxConcurrency
  MaxOffers,       \* bound of the model: offers one runner process may send
  CallKinds,       \* what a running task asks of the requester: "data", "nodetypes", "rpc"
  Mode             \* TaskRunnersConfig.mode: "internal" or "external"

ASSUME RunnersAssumption  == IsFiniteSet(Runners) /\ Launchers \subseteq Runners
ASSUME RequestsAssumption == IsFiniteSet(Requests)
ASSUME BoundsAssumption   == MaxConcurrency \in Nat \ {0} /\ MaxOffers \in Nat
ASSUME ModeAssumption     == Mode \in {"internal", "external"}
ASSUME KindsAssumption    == CallKinds \subseteq {"data", "nodetypes", "rpc"}

(* An offer leaves the broker's list before its task is created, so at most *)
(* one task is ever created from an offer: the offer's id names both.       *)
Task == Runners \X (1 .. MaxOffers)

ToRunner ==
  [type : {"inforequest", "runnerregistered", "drain"}]
    \cup [type : {"taskofferaccept", "tasksettings", "taskcancel"}, task : Task]
    \cup [type : {"response"}, task : Task, kind : CallKinds]

ToBroker ==
  [type : {"info"}]
    \cup [type : {"taskoffer", "taskaccepted", "taskrejected", "taskdeferred",
                  "taskdone", "taskerror"}, task : Task]
    \cup [type : {"request"}, task : Task, kind : CallKinds]

Msg(type)        == [type |-> type]
TaskMsg(type, t) == [type |-> type, task |-> t]
CallMsg(type, t, k) == [type |-> type, task |-> t, kind |-> k]

VARIABLES
  conn,      \* conn[r] : "new", "open" or "closed"
  toRunner,  \* toRunner[r] : messages the broker sent that r has not read
  toBroker   \* toBroker[r] : messages r sent that the broker has not read

channelVars == <<conn, toRunner, toBroker>>

ChannelTypeOK ==
  /\ conn \in [Runners -> {"new", "open", "closed"}]
  /\ toRunner \in [Runners -> Seq(ToRunner)]
  /\ toBroker \in [Runners -> Seq(ToBroker)]

ChannelInit ==
  /\ conn = [r \in Runners |-> "new"]
  /\ toRunner = [r \in Runners |-> << >>]
  /\ toBroker = [r \in Runners |-> << >>]

(* ws.send: a message to a closed connection is lost. *)
Posted(r, msgs) ==
  [toRunner EXCEPT ![r] = IF conn[r] = "open" THEN @ \o msgs ELSE @]

(* The next message the broker reads from r.  What a runner wrote before it *)
(* closed the connection is still read.                                     *)
BrokerReads(r, m) ==
  /\ toBroker[r] # << >>
  /\ m = Head(toBroker[r])
  /\ toBroker' = [toBroker EXCEPT ![r] = Tail(@)]

(* Runner r reads its next message m and answers with out. *)
RunnerReads(r, m, out) ==
  /\ conn[r] = "open"
  /\ toRunner[r] # << >>
  /\ m = Head(toRunner[r])
  /\ toRunner' = [toRunner EXCEPT ![r] = Tail(@)]
  /\ toBroker' = [toBroker EXCEPT ![r] = @ \o out]
  /\ UNCHANGED conn
=============================================================================
