------------------------- MODULE TaskRunnersProofs --------------------------
(***************************************************************************)
(* Theorems about TaskRunners, for every set of runners and requests and   *)
(* every bound.                                                            *)
(***************************************************************************)
EXTENDS TaskRunners, SequenceTheorems, FiniteSetTheorems, TLAPS

(* The messages the handlers build are messages of the protocol. *)
LEMMA MessageTypes ==
  /\ \A type \in {"inforequest", "runnerregistered", "drain"} : Msg(type) \in ToRunner
  /\ Msg("info") \in ToBroker
  /\ \A t \in Task, type \in {"taskofferaccept", "tasksettings", "taskcancel"} :
       TaskMsg(type, t) \in ToRunner
  /\ \A t \in Task, type \in {"taskoffer", "taskaccepted", "taskrejected", "taskdeferred",
                              "taskdone", "taskerror"} : TaskMsg(type, t) \in ToBroker
  /\ \A t \in Task, k \in CallKinds : /\ CallMsg("response", t, k) \in ToRunner
                                      /\ CallMsg("request", t, k) \in ToBroker
BY DEF ToRunner, ToBroker, Msg, TaskMsg, CallMsg

(* Tasks are finitely many, so every set of them has a cardinality. *)
LEMMA TaskFinite == IsFiniteSet(Task)
<1>1. IsFiniteSet(1 .. MaxOffers)
  BY FS_Interval, BoundsAssumption
<1> QED BY <1>1, FS_Product, RunnersAssumption DEF Task

LEMMA TaskSetCardinality ==
  ASSUME NEW S \in SUBSET Task
  PROVE  IsFiniteSet(S) /\ Cardinality(S) \in Nat
BY TaskFinite, FS_Subset, FS_CardinalityType

(* Posting, and reading with an answer, keep the channels well typed. *)
LEMMA PostedType ==
  ASSUME ChannelTypeOK, NEW r \in Runners, NEW msgs \in Seq(ToRunner)
  PROVE  Posted(r, msgs) \in [Runners -> Seq(ToRunner)]
<1>1. toRunner[r] \o msgs \in Seq(ToRunner)
  BY ConcatProperties DEF ChannelTypeOK
<1> QED BY <1>1 DEF ChannelTypeOK, Posted

LEMMA BrokerReadsType ==
  ASSUME ChannelTypeOK, NEW r \in Runners, NEW m, BrokerReads(r, m)
  PROVE  toBroker' \in [Runners -> Seq(ToBroker)]
<1>1. Tail(toBroker[r]) \in Seq(ToBroker)
  BY HeadTailProperties DEF ChannelTypeOK, BrokerReads
<1> QED BY <1>1 DEF ChannelTypeOK, BrokerReads

LEMMA RunnerReadsType ==
  ASSUME ChannelTypeOK, NEW r \in Runners, NEW m, NEW out \in Seq(ToBroker),
         RunnerReads(r, m, out)
  PROVE  ChannelTypeOK'
<1>1. Tail(toRunner[r]) \in Seq(ToRunner)
  BY HeadTailProperties DEF ChannelTypeOK, RunnerReads
<1>2. toBroker[r] \o out \in Seq(ToBroker)
  BY ConcatProperties DEF ChannelTypeOK
<1> QED BY <1>1, <1>2 DEF ChannelTypeOK, RunnerReads

(* What sendOffers offers: numbers never used before and within the bound. *)
LEMMA NewOffersType ==
  ASSUME RunnerTypeOK, NEW r \in Runners, NEW stale, NEW done,
         NEW new, new = NewOffers(r, stale, done)
  PROVE  /\ IsFiniteSet(new)
         /\ Cardinality(new) \in Nat
         /\ offersSent[r] + Cardinality(new) \in 0 .. MaxOffers
         /\ new = offersSent[r] + 1 .. offersSent[r] + Cardinality(new)
         /\ {r} \X new \subseteq Task
         /\ OfferMsgs(r, new) \in Seq(ToBroker)
<1> DEFINE n == OffersToSend(r, stale, done)
           last == IF offersSent[r] + n <= MaxOffers THEN offersSent[r] + n ELSE MaxOffers
<1>1. n \in Int
  <2>1. Cardinality(OffersOf(r) \ stale) \in Nat
    BY TaskSetCardinality DEF OffersOf, RunnerTypeOK
  <2>2. Cardinality(RunningTasks(r) \ done) \in Nat
    BY TaskSetCardinality DEF RunningTasks
  <2> QED BY <2>1, <2>2, BoundsAssumption DEF OffersToSend
<1>2. offersSent[r] \in 0 .. MaxOffers /\ MaxOffers \in Nat
  BY BoundsAssumption DEF RunnerTypeOK
<1>3. last \in Int /\ last <= MaxOffers
  BY <1>1, <1>2
<1> HIDE DEF n
<1>4. new = offersSent[r] + 1 .. last \/ new = {}
  BY DEF NewOffers, n
<1> HIDE DEF last
<1>5. /\ IsFiniteSet(new) /\ Cardinality(new) \in Nat
      /\ offersSent[r] + Cardinality(new) \in 0 .. MaxOffers
      /\ new = offersSent[r] + 1 .. offersSent[r] + Cardinality(new)
  <2>1. CASE new = {}
    <3>1. IsFiniteSet(new) /\ Cardinality(new) = 0
      BY <2>1, FS_EmptySet
    <3>2. offersSent[r] + 1 .. offersSent[r] + Cardinality(new) = {}
      BY <3>1, <1>2
    <3>3. offersSent[r] + Cardinality(new) \in 0 .. MaxOffers
      BY <3>1, <1>2
    <3> QED BY <3>1, <3>2, <3>3, <2>1
  <2>2. CASE new = offersSent[r] + 1 .. last
    <3>1. /\ IsFiniteSet(new)
          /\ Cardinality(new) = IF offersSent[r] + 1 > last THEN 0 ELSE last - (offersSent[r] + 1) + 1
      <4>1. offersSent[r] + 1 \in Int /\ last \in Int
        BY <1>2, <1>3
      <4> QED BY <4>1, <2>2, FS_Interval
    <3>2. Cardinality(new) \in Nat /\ offersSent[r] + Cardinality(new) \in 0 .. MaxOffers
      BY <3>1, <1>2, <1>3
    <3>3. new = offersSent[r] + 1 .. offersSent[r] + Cardinality(new)
      BY <3>1, <2>2, <1>2, <1>3
    <3> QED BY <3>1, <3>2, <3>3
  <2> QED BY <1>4, <2>1, <2>2
<1>6. \A k \in new : k \in 1 .. MaxOffers
  BY <1>5, <1>2
<1>7. {r} \X new \subseteq Task
  BY <1>6 DEF Task
<1>8. OfferMsgs(r, new) \in Seq(ToBroker)
  <2>1. \A i \in 1 .. Cardinality(new) : <<r, offersSent[r] + i>> \in Task
    BY <1>5, <1>2 DEF Task
  <2>2. OfferMsgs(r, new) \in [1 .. Cardinality(new) -> ToBroker]
    BY <2>1, MessageTypes DEF OfferMsgs
  <2> QED BY <2>2, <1>5
<1> QED BY <1>5, <1>7, <1>8

-----------------------------------------------------------------------------
(* Types of the runner's state *)

(* A task that finishes: its slot is offered again, within the types. *)
LEMMA FinishTaskType ==
  ASSUME RunnerTypeOK, NEW t \in Task, NEW stale, FinishTask(t, stale)
  PROVE  /\ openOffers' \subseteq Task
         /\ offersSent' \in [Runners -> 0 .. MaxOffers]
         /\ status' \in [Task -> Status]
         /\ timeoutTimer' \subseteq Task
         /\ FinishMsgs(t, stale) \in Seq(ToBroker)
<1> DEFINE new == NewOffers(Runner(t), stale, {t})
<1>1. Runner(t) \in Runners
  BY DEF Task, Runner
<1>2. /\ Cardinality(new) \in Nat
      /\ offersSent[Runner(t)] + Cardinality(new) \in 0 .. MaxOffers
      /\ {Runner(t)} \X new \subseteq Task
      /\ OfferMsgs(Runner(t), new) \in Seq(ToBroker)
  BY <1>1, NewOffersType
<1> HIDE DEF new
<1>3. /\ openOffers' = (openOffers \ stale) \cup ({Runner(t)} \X new)
      /\ offersSent' = [offersSent EXCEPT ![Runner(t)] = @ + Cardinality(new)]
  BY DEF FinishTask, SendOffers, new
<1>4. openOffers' \subseteq Task
  BY <1>2, <1>3 DEF RunnerTypeOK
<1>5. offersSent' \in [Runners -> 0 .. MaxOffers]
  BY <1>1, <1>2, <1>3 DEF RunnerTypeOK
<1>6. status' \in [Task -> Status] /\ timeoutTimer' \subseteq Task
  BY DEF FinishTask, RunnerTypeOK, Status
<1>7. FinishMsgs(t, stale) \in Seq(ToBroker)
  BY <1>2 DEF FinishMsgs, new
<1> QED BY <1>4, <1>5, <1>6, <1>7

LEMMA OfferIntervalType ==
  ASSUME ChannelTypeOK, RunnerTypeOK, NEW r \in Runners, OfferInterval(r)
  PROVE  ChannelTypeOK' /\ RunnerTypeOK'
<1> PICK stale \in Stale(r) :
       /\ SendOffers(r, stale, {})
       /\ toBroker' = [toBroker EXCEPT ![r] = @ \o OfferMsgs(r, NewOffers(r, stale, {}))]
  BY DEF OfferInterval
<1> DEFINE new == NewOffers(r, stale, {})
<1>1. /\ Cardinality(new) \in Nat
      /\ offersSent[r] + Cardinality(new) \in 0 .. MaxOffers
      /\ {r} \X new \subseteq Task
      /\ OfferMsgs(r, new) \in Seq(ToBroker)
  BY NewOffersType
<1> HIDE DEF new
<1>2. /\ openOffers' = (openOffers \ stale) \cup ({r} \X new)
      /\ offersSent' = [offersSent EXCEPT ![r] = @ + Cardinality(new)]
      /\ toBroker' = [toBroker EXCEPT ![r] = @ \o OfferMsgs(r, new)]
  BY DEF SendOffers, new
<1>3. toBroker[r] \o OfferMsgs(r, new) \in Seq(ToBroker)
  BY <1>1, ConcatProperties DEF ChannelTypeOK
<1>4. ChannelTypeOK'
  BY <1>2, <1>3 DEF ChannelTypeOK, OfferInterval
<1>5. RunnerTypeOK'
  BY <1>1, <1>2 DEF RunnerTypeOK, OfferInterval
<1> QED BY <1>4, <1>5

(* The processes that exit keep a prefix of what they wrote, at most. *)
LEMMA ProcessesExitType ==
  ASSUME ChannelTypeOK, RunnerTypeOK, NEW rs, ProcessesExit(rs)
  PROVE  /\ RunnerTypeOK'
         /\ conn' \in [Runners -> {"new", "open", "closed"}]
         /\ toRunner' \in [Runners -> Seq(ToRunner)]
<1>1. RunnerTypeOK'
  BY DEF RunnerTypeOK, ProcessesExit, Status
<1>2. << >> \in Seq(ToRunner)
  OBVIOUS
<1> QED BY <1>1, <1>2 DEF ChannelTypeOK, ProcessesExit

LEMMA DieType ==
  ASSUME ChannelTypeOK, RunnerTypeOK, NEW rs, Die(rs)
  PROVE  ChannelTypeOK' /\ RunnerTypeOK'
<1>1. PICK left \in [rs -> UNION {Prefixes(toBroker[r]) : r \in rs}] :
        /\ \A r \in rs : left[r] \in Prefixes(toBroker[r])
        /\ toBroker' = [r \in Runners |-> IF r \in rs THEN left[r] ELSE toBroker[r]]
  BY DEF Die
<1>2. ASSUME NEW r \in Runners, r \in rs
      PROVE  left[r] \in Seq(ToBroker)
  <2>1. toBroker[r] \in Seq(ToBroker)
    BY DEF ChannelTypeOK
  <2>2. PICK n \in 0 .. Len(toBroker[r]) : left[r] = SubSeq(toBroker[r], 1, n)
    BY <1>1, <1>2 DEF Prefixes
  <2> QED BY <2>1, <2>2
<1>3. toBroker' \in [Runners -> Seq(ToBroker)]
  BY <1>1, <1>2 DEF ChannelTypeOK
<1> QED BY <1>3, ProcessesExitType DEF Die, ChannelTypeOK

LEMMA RunnerNextType ==
  ASSUME ChannelTypeOK, RunnerTypeOK, RunnerNext
  PROVE  ChannelTypeOK' /\ RunnerTypeOK'
<1>0. << >> \in Seq(ToBroker)
  OBVIOUS
<1>1. ASSUME NEW r \in Runners, Connect(r)
      PROVE  ChannelTypeOK' /\ RunnerTypeOK'
  <2>1. <<Msg("inforequest")>> \in Seq(ToRunner)
    BY MessageTypes
  <2> QED BY <1>1, <2>1 DEF Connect, ChannelTypeOK, RunnerTypeOK, runnerVars
<1>2. ASSUME NEW r \in Runners, OnInfoRequest(r)
      PROVE  ChannelTypeOK' /\ RunnerTypeOK'
  <2>1. <<Msg("info")>> \in Seq(ToBroker)
    BY MessageTypes
  <2>2. ChannelTypeOK'
    BY <1>2, <2>1, RunnerReadsType DEF OnInfoRequest
  <2> QED BY <1>2, <2>2 DEF OnInfoRequest, RunnerTypeOK, runnerVars
<1>3. ASSUME NEW r \in Runners, OnRunnerRegistered(r) \/ OnDrain(r)
      PROVE  ChannelTypeOK' /\ RunnerTypeOK'
  <2>1. ChannelTypeOK'
    BY <1>3, <1>0, RunnerReadsType DEF OnRunnerRegistered, OnDrain
  <2> QED BY <1>3, <2>1 DEF OnRunnerRegistered, OnDrain, RunnerTypeOK
<1>4. ASSUME NEW r \in Runners, OfferInterval(r)
      PROVE  ChannelTypeOK' /\ RunnerTypeOK'
  BY <1>4, OfferIntervalType
<1>5. ASSUME NEW r \in Runners, Stop(r)
      PROVE  ChannelTypeOK' /\ RunnerTypeOK'
  BY <1>5 DEF Stop, ChannelTypeOK, RunnerTypeOK, channelVars
<1>6. ASSUME NEW r \in Runners, CloseConnection(r)
      PROVE  ChannelTypeOK' /\ RunnerTypeOK'
  BY <1>6, ProcessesExitType DEF CloseConnection, ChannelTypeOK
<1>7. ASSUME NEW r \in Runners, Crash(r)
      PROVE  ChannelTypeOK' /\ RunnerTypeOK'
  BY <1>7, DieType DEF Crash
<1>8. ASSUME NEW r \in Runners, LauncherRegistered(r)
      PROVE  ChannelTypeOK' /\ RunnerTypeOK'
  <2>1. offersSent[r] + 1 \in 1 .. MaxOffers
    BY <1>8, BoundsAssumption DEF LauncherRegistered, RunnerTypeOK
  <2>2. <<TaskMsg("taskoffer", <<r, offersSent[r] + 1>>)>> \in Seq(ToBroker)
    BY <2>1, MessageTypes DEF Task
  <2>3. ChannelTypeOK'
    BY <1>8, <2>2, RunnerReadsType DEF LauncherRegistered
  <2> QED BY <1>8, <2>1, <2>3 DEF LauncherRegistered, RunnerTypeOK
<1>9. ASSUME NEW r \in Runners, NEW t \in Task, OnOfferAccept(r, t)
      PROVE  ChannelTypeOK' /\ RunnerTypeOK'
  <2>1. <<TaskMsg("taskaccepted", t)>> \in Seq(ToBroker) /\ <<TaskMsg("taskrejected", t)>> \in Seq(ToBroker)
    BY MessageTypes
  <2>2. ChannelTypeOK'
    BY <1>9, <2>1, RunnerReadsType DEF OnOfferAccept
  <2>3. RunnerTypeOK'
    BY <1>9 DEF OnOfferAccept, RunnerTypeOK, Status
  <2> QED BY <2>2, <2>3
<1>10. ASSUME NEW r \in Runners, NEW t \in Task, OnTaskCancel(r, t)
       PROVE  ChannelTypeOK' /\ RunnerTypeOK'
  <2>1. CASE \E stale \in Stale(Runner(t)) :
               /\ RunnerReads(r, TaskMsg("taskcancel", t), FinishMsgs(t, stale))
               /\ FinishTask(t, stale)
               /\ UNCHANGED calls
    BY <1>10, <2>1, FinishTaskType, RunnerReadsType DEF OnTaskCancel, RunnerTypeOK
  <2>2. CASE /\ RunnerReads(r, TaskMsg("taskcancel", t), << >>)
             /\ status' = [status EXCEPT ![t] = "aborting:cancelled"]
             /\ calls' = CancelTaskRequests(t)
             /\ UNCHANGED <<openOffers, offersSent, timeoutTimer>>
    <3>1. ChannelTypeOK'
      BY <2>2, <1>0, RunnerReadsType
    <3> QED BY <1>10, <2>2, <3>1 DEF OnTaskCancel, RunnerTypeOK, CancelTaskRequests, Status
  <2>3. CASE /\ RunnerReads(r, TaskMsg("taskcancel", t), << >>)
             /\ UNCHANGED <<openOffers, offersSent, status, timeoutTimer, calls>>
    <3>1. ChannelTypeOK'
      BY <2>3, <1>0, RunnerReadsType
    <3> QED BY <1>10, <2>3, <3>1 DEF OnTaskCancel, RunnerTypeOK
  <2> QED BY <1>10, <2>1, <2>2, <2>3 DEF OnTaskCancel
<1>11. ASSUME NEW r \in Runners, NEW t \in Task, OnTaskSettings(r, t)
       PROVE  ChannelTypeOK' /\ RunnerTypeOK'
  <2>1. ChannelTypeOK'
    BY <1>11, <1>0, RunnerReadsType DEF OnTaskSettings
  <2> QED BY <1>11, <2>1 DEF OnTaskSettings, RunnerTypeOK, Status
<1>12. ASSUME NEW r \in Runners, NEW t \in Task, LauncherDefers(r, t)
       PROVE  ChannelTypeOK' /\ RunnerTypeOK'
  <2>1. <<TaskMsg("taskdeferred", t)>> \in Seq(ToBroker)
    BY MessageTypes
  <2>2. ChannelTypeOK'
    BY <1>12, <2>1, RunnerReadsType DEF LauncherDefers
  <2> QED BY <1>12, <2>2 DEF LauncherDefers, RunnerTypeOK, runnerVars
<1>13. ASSUME NEW r \in Runners, NEW t \in Task, NEW k \in CallKinds, OnResponse(r, t, k)
       PROVE  ChannelTypeOK' /\ RunnerTypeOK'
  <2>1. ChannelTypeOK'
    BY <1>13, <1>0, RunnerReadsType DEF OnResponse
  <2> QED BY <1>13, <2>1 DEF OnResponse, RunnerTypeOK
<1>14. ASSUME NEW t \in Task, RunnerTaskTimeout(t)
       PROVE  ChannelTypeOK' /\ RunnerTypeOK'
  <2> DEFINE r == Runner(t)
  <2>1. r \in Runners /\ <<TaskMsg("taskerror", t)>> \in Seq(ToBroker)
    BY MessageTypes DEF Task, Runner
  <2>2. CASE \E stale \in Stale(r) :
               /\ toBroker' = [toBroker EXCEPT ![r] = @ \o TimeoutReport(t) \o FinishMsgs(t, stale)]
               /\ FinishTask(t, stale)
               /\ UNCHANGED calls
    <3>1. PICK stale \in Stale(r) :
               /\ toBroker' = [toBroker EXCEPT ![r] = @ \o TimeoutReport(t) \o FinishMsgs(t, stale)]
               /\ FinishTask(t, stale)
               /\ UNCHANGED calls
      BY <2>2
    <3>2. FinishMsgs(t, stale) \in Seq(ToBroker)
      BY <3>1, FinishTaskType
    <3>3. toBroker[r] \o TimeoutReport(t) \o FinishMsgs(t, stale) \in Seq(ToBroker)
      BY <2>1, <3>2, ConcatProperties DEF ChannelTypeOK, TimeoutReport
    <3>4. ChannelTypeOK'
      BY <1>14, <3>1, <3>3 DEF RunnerTaskTimeout, ChannelTypeOK
    <3> QED BY <1>14, <3>1, <3>4, FinishTaskType DEF RunnerTaskTimeout, RunnerTypeOK
  <2>3. CASE UNCHANGED toBroker
    <3>1. ChannelTypeOK'
      BY <1>14, <2>3 DEF RunnerTaskTimeout, ChannelTypeOK
    <3>2. CASE \E stale \in Stale(r) : FinishTask(t, stale) /\ UNCHANGED calls
      BY <1>14, <3>1, <3>2, FinishTaskType DEF RunnerTaskTimeout, RunnerTypeOK
    <3>3. CASE ~ \E stale \in Stale(r) : FinishTask(t, stale) /\ UNCHANGED calls
      BY <1>14, <3>1, <3>3 DEF RunnerTaskTimeout, RunnerTypeOK, CancelTaskRequests, Status
    <3> QED BY <3>2, <3>3
  <2> QED BY <1>14, <2>2, <2>3 DEF RunnerTaskTimeout
<1>15. ASSUME NEW t \in Task, NEW outcome \in {"taskdone", "taskerror"}, ExecutionEnds(t, outcome)
       PROVE  ChannelTypeOK' /\ RunnerTypeOK'
  <2> DEFINE r == Runner(t)
  <2>0. <<TaskMsg(outcome, t)>> \in Seq(ToBroker)
    <3>1. TaskMsg(outcome, t) \in ToBroker
      BY MessageTypes
    <3> QED BY <3>1
  <2>1. r \in Runners /\ Report(t, outcome) \in Seq(ToBroker)
    <3>1. r \in Runners
      BY DEF Task, Runner
    <3> QED BY <2>0, <1>0, <3>1 DEF Report
  <2>2. PICK stale \in Stale(r) :
             /\ toBroker' = [toBroker EXCEPT ![r] = @ \o Report(t, outcome) \o FinishMsgs(t, stale)]
             /\ FinishTask(t, stale)
    BY <1>15 DEF ExecutionEnds
  <2>3. FinishMsgs(t, stale) \in Seq(ToBroker)
    BY <2>2, FinishTaskType
  <2>4. toBroker[r] \o Report(t, outcome) \o FinishMsgs(t, stale) \in Seq(ToBroker)
    BY <2>1, <2>3, ConcatProperties DEF ChannelTypeOK
  <2>5. ChannelTypeOK'
    BY <1>15, <2>2, <2>4 DEF ExecutionEnds, ChannelTypeOK
  <2> QED BY <1>15, <2>2, <2>5, FinishTaskType DEF ExecutionEnds, RunnerTypeOK
<1>16. ASSUME NEW t \in Task, NEW k \in CallKinds, Call(t, k)
       PROVE  ChannelTypeOK' /\ RunnerTypeOK'
  <2>1. Runner(t) \in Runners /\ CallMsg("request", t, k) \in ToBroker
    BY MessageTypes DEF Task, Runner
  <2>2. Append(toBroker[Runner(t)], CallMsg("request", t, k)) \in Seq(ToBroker)
    BY <2>1, AppendProperties DEF ChannelTypeOK
  <2>3. ChannelTypeOK'
    BY <1>16, <2>1, <2>2 DEF Call, ChannelTypeOK
  <2>4. RunnerTypeOK'
    BY <1>16 DEF Call, RunnerTypeOK
  <2> QED BY <2>3, <2>4
<1> QED
  BY <1>1, <1>2, <1>3, <1>4, <1>5, <1>6, <1>7, <1>8, <1>9, <1>10, <1>11, <1>12, <1>13, <1>14,
     <1>15, <1>16 DEF RunnerNext

-----------------------------------------------------------------------------
(* What settleTasks does *)

(* The pairs settleTasks accepts join a request of the list to an offer of *)
(* the list.                                                               *)
LEMMA MatchesType ==
  ASSUME NEW reqs, NEW rlog, NEW valid, NEW olog
  PROVE  Matches(reqs, rlog, valid, olog) \in SUBSET (reqs \X valid)
BY DEF Matches

(* Every offer taken remembers a request it was matched with. *)
LEMMA AcceptOffersFacts ==
  ASSUME NEW reqs, NEW valid \in SUBSET Task, NEW pairs,
         pairs \in SUBSET (reqs \X valid), AcceptOffers(valid, pairs)
  PROVE  /\ Served(pairs) \subseteq reqs
         /\ Taken(pairs) \subseteq valid
         /\ \A t \in Taken(pairs) : <<request'[t], t>> \in pairs /\ request'[t] \in Served(pairs)
         /\ \A t \in Task \ Taken(pairs) : request'[t] = request[t]
<1>1. \A m \in pairs : m = <<m[1], m[2]>>
  OBVIOUS
<1>2. Served(pairs) \subseteq reqs /\ Taken(pairs) \subseteq valid
  BY DEF Served, Taken
<1>3. ASSUME NEW t \in Taken(pairs)
      PROVE  <<request'[t], t>> \in pairs /\ request'[t] \in Served(pairs)
  <2>1. t \in Task
    BY <1>2
  <2>2. request'[t] = CHOOSE q \in Served(pairs) : <<q, t>> \in pairs
    BY <2>1 DEF AcceptOffers
  <2>3. PICK m \in pairs : m[2] = t
    BY DEF Taken
  <2>4. m[1] \in Served(pairs) /\ <<m[1], t>> \in pairs
    BY <1>1, <2>3 DEF Served
  <2> QED BY <2>2, <2>4, Zenon
<1>4. \A t \in Task \ Taken(pairs) : request'[t] = request[t]
  BY DEF AcceptOffers
<1> QED BY <1>2, <1>3, <1>4

LEMMA SettleTasksPairs ==
  ASSUME NEW requests \in SUBSET Requests, NEW rlog, NEW offers \in SUBSET Task, NEW olog,
         SettleTasks(requests, rlog, offers, olog)
  PROVE  \E valid \in SUBSET Task : \E pairs \in SUBSET (Requests \X valid) : AcceptOffers(valid, pairs)
<1>1. PICK expired \in SUBSET Expirable(offers) :
           AcceptOffers(offers \ expired,
                        Matches(requests \ acceptInProgress, rlog, offers \ expired, olog))
  BY DEF SettleTasks
<1>2. Matches(requests \ acceptInProgress, rlog, offers \ expired, olog)
        \in SUBSET ((requests \ acceptInProgress) \X (offers \ expired))
  BY MatchesType
<1>3. Matches(requests \ acceptInProgress, rlog, offers \ expired, olog)
        \in SUBSET (Requests \X (offers \ expired))
  BY <1>2
<1> QED BY <1>1, <1>3

LEMMA SettleTasksType ==
  ASSUME ChannelTypeOK, BrokerTypeOK, NEW requests \in SUBSET Requests, NEW rlog,
         NEW offers \in SUBSET Task, NEW olog, SettleTasks(requests, rlog, offers, olog)
  PROVE  /\ pendingTaskOffers' \subseteq Task /\ acceptInProgress' \subseteq Requests
         /\ accepting' \subseteq Task /\ runnerAcceptRejects' \subseteq Task
         /\ request' \in [Task -> Requests \cup {NoRequest}]
         /\ toRunner' \in [Runners -> Seq(ToRunner)]
<1>1. PICK valid \in SUBSET Task : \E pairs \in SUBSET (Requests \X valid) : AcceptOffers(valid, pairs)
  BY SettleTasksPairs
<1>2. PICK pairs \in SUBSET (Requests \X valid) : AcceptOffers(valid, pairs)
  BY <1>1
<1>3. /\ Served(pairs) \subseteq Requests
      /\ Taken(pairs) \subseteq Task
      /\ \A t \in Taken(pairs) : request'[t] \in Requests
      /\ \A t \in Task \ Taken(pairs) : request'[t] = request[t]
  <2>1. /\ Served(pairs) \subseteq Requests
        /\ Taken(pairs) \subseteq valid
        /\ \A t \in Taken(pairs) : <<request'[t], t>> \in pairs /\ request'[t] \in Served(pairs)
        /\ \A t \in Task \ Taken(pairs) : request'[t] = request[t]
    BY <1>2, AcceptOffersFacts
  <2> QED BY <2>1
<1>4. request' \in [Task -> Requests \cup {NoRequest}]
  <2>1. request' = [t \in Task |-> request'[t]]
    BY <1>2 DEF AcceptOffers
  <2>2. \A t \in Task : request'[t] \in Requests \cup {NoRequest}
    BY <1>3 DEF BrokerTypeOK
  <2> QED BY <2>1, <2>2
<1>5. toRunner' \in [Runners -> Seq(ToRunner)]
  <2>1. PICK s \in [Runners -> UNION {AcceptOrders(r, Taken(pairs)) : r \in Runners}] :
               /\ \A r \in Runners : s[r] \in AcceptOrders(r, Taken(pairs))
               /\ toRunner' = [r \in Runners |->
                                 IF r \in knownRunners /\ conn[r] = "open"
                                 THEN toRunner[r] \o AcceptMsgs(s[r]) ELSE toRunner[r]]
    BY <1>2 DEF AcceptOffers
  <2>2. ASSUME NEW r \in Runners
        PROVE  toRunner[r] \o AcceptMsgs(s[r]) \in Seq(ToRunner)
    <3> DEFINE mine == {o \in Taken(pairs) : Runner(o) = r}
    <3>1. mine \subseteq Task /\ Cardinality(mine) \in Nat
      BY <1>3, TaskSetCardinality
    <3>2. s[r] \in [1 .. Cardinality(mine) -> mine]
      BY <2>1, <2>2 DEF AcceptOrders
    <3> HIDE DEF mine
    <3>3. \A i \in 1 .. Cardinality(mine) : TaskMsg("taskofferaccept", s[r][i]) \in ToRunner
      BY <3>1, <3>2, MessageTypes
    <3>4. AcceptMsgs(s[r]) \in [1 .. Cardinality(mine) -> ToRunner]
      BY <3>2, <3>3 DEF AcceptMsgs
    <3>5. AcceptMsgs(s[r]) \in Seq(ToRunner)
      BY <3>1, <3>4
    <3> QED BY <3>5, ConcatProperties DEF ChannelTypeOK
  <2> QED BY <2>1, <2>2 DEF ChannelTypeOK
<1>6. /\ pendingTaskOffers' \subseteq Task /\ acceptInProgress' \subseteq Requests
      /\ accepting' \subseteq Task /\ runnerAcceptRejects' \subseteq Task
  BY <1>2, <1>3 DEF AcceptOffers, BrokerTypeOK
<1> QED BY <1>4, <1>5, <1>6

-----------------------------------------------------------------------------
(* Types of the broker's state *)

LEMMA SettleType ==
  ASSUME BrokerTypeOK, NEW ts, NEW outcome \in Settled, Settle(ts, outcome)
  PROVE  reqState' \in [Requests -> {"idle"} \cup Waiting \cup Settled]
BY DEF Settle, BrokerTypeOK

LEMMA StartTaskType ==
  ASSUME ChannelTypeOK, BrokerTypeOK, NEW q \in Requests, StartTask(q)
  PROVE  ChannelTypeOK' /\ BrokerTypeOK'
<1>1. CASE isDraining
  <2>1. ChannelTypeOK'
    BY <1>1 DEF StartTask, ChannelTypeOK
  <2>2. BrokerTypeOK'
    BY <1>1 DEF StartTask, BrokerTypeOK, listVars, acceptVars, Settled
  <2> QED BY <2>1, <2>2
<1>2. CASE ~isDraining
  <2>1. Append(requestLog, q) \in Seq(Requests)
    BY AppendProperties DEF BrokerTypeOK
  <2>2. pendingTaskRequests' \in SUBSET Requests /\ pendingTaskOffers \in SUBSET Task
    BY <1>2 DEF StartTask, BrokerTypeOK
  <2>3. /\ pendingTaskOffers' \subseteq Task /\ acceptInProgress' \subseteq Requests
        /\ accepting' \subseteq Task /\ runnerAcceptRejects' \subseteq Task
        /\ request' \in [Task -> Requests \cup {NoRequest}]
        /\ toRunner' \in [Runners -> Seq(ToRunner)]
    <3>1. SettleTasks(pendingTaskRequests', requestLog', pendingTaskOffers, offerLog)
      BY <1>2 DEF StartTask
    <3> QED BY <2>2, <3>1, SettleTasksType
  <2>4. ChannelTypeOK'
    BY <1>2, <2>3 DEF StartTask, ChannelTypeOK
  <2>5. reqState' \in [Requests -> {"idle"} \cup Waiting \cup Settled]
    BY <1>2 DEF StartTask, BrokerTypeOK, Waiting
  <2>6. BrokerTypeOK'
    BY <1>2, <2>1, <2>2, <2>3, <2>5 DEF StartTask, BrokerTypeOK
  <2> QED BY <2>4, <2>6
<1> QED BY <1>1, <1>2

LEMMA OnTaskOfferType ==
  ASSUME ChannelTypeOK, BrokerTypeOK, NEW r \in Runners, NEW t \in Task, OnTaskOffer(r, t)
  PROVE  ChannelTypeOK' /\ BrokerTypeOK'
<1>1. Append(offerLog, t) \in Seq(Task)
  BY AppendProperties DEF BrokerTypeOK
<1>2. /\ pendingTaskOffers' \subseteq Task /\ acceptInProgress' \subseteq Requests
      /\ accepting' \subseteq Task /\ runnerAcceptRejects' \subseteq Task
      /\ request' \in [Task -> Requests \cup {NoRequest}]
      /\ toRunner' \in [Runners -> Seq(ToRunner)]
  <2>1. SettleTasks(pendingTaskRequests, requestLog, pendingTaskOffers \cup {t}, offerLog')
    BY DEF OnTaskOffer
  <2>2. pendingTaskRequests \in SUBSET Requests /\ pendingTaskOffers \cup {t} \in SUBSET Task
    BY DEF BrokerTypeOK
  <2> QED BY <2>1, <2>2, SettleTasksType
<1>3. toBroker' \in [Runners -> Seq(ToBroker)]
  BY BrokerReadsType DEF OnTaskOffer
<1>4. ChannelTypeOK'
  BY <1>2, <1>3 DEF OnTaskOffer, ChannelTypeOK
<1>5. BrokerTypeOK'
  BY <1>1, <1>2 DEF OnTaskOffer, BrokerTypeOK, timerVars, reqVars
<1> QED BY <1>4, <1>5

LEMMA TaskRunnerType == \A t \in Task : Runner(t) \in Runners
BY DEF Task, Runner

LEMMA OnTaskAcceptedType ==
  ASSUME ChannelTypeOK, BrokerTypeOK, NEW r \in Runners, NEW t \in Task, OnTaskAccepted(r, t)
  PROVE  ChannelTypeOK' /\ BrokerTypeOK'
<1> DEFINE q == request[t]
<1>1. toBroker' \in [Runners -> Seq(ToBroker)]
  BY BrokerReadsType DEF OnTaskAccepted
<1>2. /\ reqState' \in [Requests -> {"idle"} \cup Waiting \cup Settled]
      /\ reqTask' \in [Requests -> Task \cup {NoTask}]
      /\ pendingTaskRequests' \subseteq Requests
      /\ taskTimeout' \subseteq Task
      /\ toRunner' \in [Runners -> Seq(ToRunner)]
  <2>1. CASE TaskReady(t, q)
    <3>1. <<TaskMsg("tasksettings", t)>> \in Seq(ToRunner)
      BY MessageTypes
    <3>2. toRunner' \in [Runners -> Seq(ToRunner)]
      BY <2>1, <3>1, PostedType, TaskRunnerType DEF TaskReady
    <3>3. reqState' \in [Requests -> {"idle"} \cup Waiting \cup Settled]
      BY <2>1 DEF TaskReady, BrokerTypeOK, Waiting
    <3>4. reqTask' \in [Requests -> Task \cup {NoTask}]
      BY <2>1 DEF TaskReady, BrokerTypeOK
    <3>5. pendingTaskRequests' \subseteq Requests /\ taskTimeout' \subseteq Task
      BY <2>1 DEF TaskReady, BrokerTypeOK
    <3> QED BY <3>2, <3>3, <3>4, <3>5
  <2>2. CASE RequestGone(t, q)
    BY <2>2 DEF RequestGone, BrokerTypeOK, ChannelTypeOK
  <2> QED BY <2>1, <2>2 DEF OnTaskAccepted
<1>3. ChannelTypeOK'
  BY <1>1, <1>2 DEF OnTaskAccepted, ChannelTypeOK
<1>4. BrokerTypeOK'
  BY <1>2 DEF OnTaskAccepted, BrokerTypeOK
<1> QED BY <1>3, <1>4

LEMMA OnTaskRefusedType ==
  ASSUME ChannelTypeOK, BrokerTypeOK, NEW r \in Runners, NEW t \in accepting, NEW type,
         OnTaskRefused(r, t, type), request[t] \in Requests
  PROVE  ChannelTypeOK' /\ BrokerTypeOK'
<1>1. ChannelTypeOK'
  BY BrokerReadsType DEF OnTaskRefused, ChannelTypeOK
<1>2. BrokerTypeOK'
  BY DEF OnTaskRefused, BrokerTypeOK, listVars, reqVars
<1> QED BY <1>1, <1>2

LEMMA OnTaskEndedType ==
  ASSUME ChannelTypeOK, BrokerTypeOK, NEW r \in Runners, NEW t \in Task, NEW type,
         OnTaskEnded(r, t, type)
  PROVE  ChannelTypeOK' /\ BrokerTypeOK'
<1>1. ChannelTypeOK'
  BY BrokerReadsType DEF OnTaskEnded, ChannelTypeOK
<1>2. reqState' \in [Requests -> {"idle"} \cup Waiting \cup Settled]
  BY SettleType DEF OnTaskEnded, BrokerTypeOK, Settled
<1>3. tasks' \subseteq Task /\ taskTimeout' \subseteq Task
  BY DEF OnTaskEnded, BrokerTypeOK
<1>4. BrokerTypeOK'
  BY <1>2, <1>3 DEF OnTaskEnded, BrokerTypeOK, listVars, acceptVars
<1> QED BY <1>1, <1>4

LEMMA OnRequestType ==
  ASSUME ChannelTypeOK, BrokerTypeOK, NEW r \in Runners, NEW t \in Task, NEW k \in CallKinds,
         OnRequest(r, t, k)
  PROVE  ChannelTypeOK' /\ BrokerTypeOK'
<1>1. <<CallMsg("response", t, k)>> \in Seq(ToRunner)
  BY MessageTypes
<1>2. toRunner' \in [Runners -> Seq(ToRunner)]
  BY <1>1, PostedType DEF OnRequest, ChannelTypeOK
<1>3. ChannelTypeOK'
  BY <1>2, BrokerReadsType DEF OnRequest, ChannelTypeOK
<1>4. BrokerTypeOK'
  BY DEF OnRequest, BrokerTypeOK, listVars, acceptVars, timerVars
<1> QED BY <1>3, <1>4

LEMMA OnInfoType ==
  ASSUME ChannelTypeOK, BrokerTypeOK, NEW r \in Runners, OnInfo(r)
  PROVE  ChannelTypeOK' /\ BrokerTypeOK'
<1>1. <<Msg("runnerregistered")>> \in Seq(ToRunner)
  BY MessageTypes
<1>2. ChannelTypeOK'
  BY <1>1, PostedType, BrokerReadsType DEF OnInfo, ChannelTypeOK
<1>3. BrokerTypeOK'
  BY DEF OnInfo, BrokerTypeOK, acceptVars, timerVars, reqVars
<1> QED BY <1>2, <1>3

LEMMA CancelTasksType ==
  ASSUME ChannelTypeOK, BrokerTypeOK, NEW q \in Requests, CancelTasks(q)
  PROVE  ChannelTypeOK' /\ BrokerTypeOK'
<1>1. toRunner' \in [Runners -> Seq(ToRunner)]
  <2>1. CASE reqTask[q] \in tasks
    <3>1. reqTask[q] \in Task
      BY <2>1 DEF BrokerTypeOK
    <3>2. <<TaskMsg("taskcancel", reqTask[q])>> \in Seq(ToRunner)
      BY <3>1, MessageTypes
    <3> QED BY <2>1, <3>1, <3>2, PostedType, TaskRunnerType, ZenonT(40) DEF CancelTasks
  <2>2. CASE reqTask[q] \notin tasks
    BY <2>2 DEF CancelTasks, ChannelTypeOK
  <2> QED BY <2>1, <2>2
<1>2. ChannelTypeOK'
  BY <1>1 DEF CancelTasks, ChannelTypeOK
<1>3. reqState' \in [Requests -> {"idle"} \cup Waiting \cup Settled]
  BY DEF CancelTasks, BrokerTypeOK, Settled
<1>4. BrokerTypeOK'
  BY <1>3 DEF CancelTasks, BrokerTypeOK, listVars, acceptVars, timerVars
<1> QED BY <1>2, <1>4

LEMMA RequestTimeoutType ==
  ASSUME ChannelTypeOK, BrokerTypeOK, NEW q \in Requests, RequestTimeout(q)
  PROVE  ChannelTypeOK' /\ BrokerTypeOK'
<1>1. ChannelTypeOK'
  BY DEF RequestTimeout, ChannelTypeOK, channelVars
<1>2. reqState' \in [Requests -> {"idle"} \cup Waiting \cup Settled]
  BY DEF RequestTimeout, BrokerTypeOK, Settled
<1>3. BrokerTypeOK'
  BY <1>2 DEF RequestTimeout, BrokerTypeOK, acceptVars
<1> QED BY <1>1, <1>3

LEMMA RpcReturnsType ==
  ASSUME ChannelTypeOK, BrokerTypeOK, NEW t \in Task, RpcReturns(t), "rpc" \in CallKinds
  PROVE  ChannelTypeOK' /\ BrokerTypeOK'
<1>1. <<CallMsg("response", t, "rpc")>> \in Seq(ToRunner)
  BY MessageTypes
<1>2. toRunner' \in [Runners -> Seq(ToRunner)]
  BY <1>1, PostedType, TaskRunnerType DEF RpcReturns, ChannelTypeOK
<1>3. ChannelTypeOK'
  BY <1>2 DEF RpcReturns, ChannelTypeOK
<1>4. BrokerTypeOK'
  BY DEF RpcReturns, BrokerTypeOK, listVars, acceptVars, timerVars
<1> QED BY <1>3, <1>4

LEMMA StartDrainingType ==
  ASSUME ChannelTypeOK, BrokerTypeOK, StartDraining
  PROVE  ChannelTypeOK' /\ BrokerTypeOK'
<1>1. ASSUME NEW r \in Runners
      PROVE  Append(toRunner[r], Msg("drain")) \in Seq(ToRunner)
  BY AppendProperties, MessageTypes DEF ChannelTypeOK
<1>2. toRunner' \in [Runners -> Seq(ToRunner)]
  BY <1>1 DEF StartDraining, ChannelTypeOK
<1>3. ChannelTypeOK'
  BY <1>2 DEF StartDraining, ChannelTypeOK
<1>4. BrokerTypeOK'
  BY DEF StartDraining, BrokerTypeOK, listVars, acceptVars, timerVars, reqVars
<1> QED BY <1>3, <1>4

-----------------------------------------------------------------------------
(* TypeOK is not inductive: a refused request gets its timeout back, so    *)
(* what acceptOffer serves must be a request, and only an rpc that was     *)
(* made can return.                                                        *)
TypeInv ==
  /\ TypeOK
  /\ \A t \in accepting : request[t] \in Requests
  /\ rpcs # {} => "rpc" \in CallKinds

LEMMA SettleTasksServes ==
  ASSUME BrokerTypeOK, \A t \in accepting : request[t] \in Requests,
         NEW requests \in SUBSET Requests, NEW rlog, NEW offers \in SUBSET Task, NEW olog,
         SettleTasks(requests, rlog, offers, olog)
  PROVE  \A t \in accepting' : request'[t] \in Requests
<1>1. PICK valid \in SUBSET Task : \E pairs \in SUBSET (Requests \X valid) : AcceptOffers(valid, pairs)
  BY SettleTasksPairs
<1>2. PICK pairs \in SUBSET (Requests \X valid) : AcceptOffers(valid, pairs)
  BY <1>1
<1>3. /\ Served(pairs) \subseteq Requests
      /\ Taken(pairs) \subseteq valid
      /\ \A t \in Taken(pairs) : <<request'[t], t>> \in pairs /\ request'[t] \in Served(pairs)
      /\ \A t \in Task \ Taken(pairs) : request'[t] = request[t]
  BY <1>2, AcceptOffersFacts
<1>4. accepting' = accepting \cup Taken(pairs)
  BY <1>2 DEF AcceptOffers
<1> QED BY <1>3, <1>4 DEF BrokerTypeOK

LEMMA BrokerNextType ==
  ASSUME TypeInv, BrokerNext
  PROVE  /\ ChannelTypeOK' /\ BrokerTypeOK'
         /\ \A t \in accepting' : request'[t] \in Requests
         /\ rpcs' # {} => "rpc" \in CallKinds
<1> USE DEF TypeInv, TypeOK
<1> DEFINE Goal == /\ ChannelTypeOK' /\ BrokerTypeOK'
                   /\ \A t \in accepting' : request'[t] \in Requests
                   /\ rpcs' # {} => "rpc" \in CallKinds
<1>1. ASSUME NEW q \in Requests, StartTask(q)
      PROVE  Goal
  <2>1. \A t \in accepting' : request'[t] \in Requests
    <3>1. CASE isDraining
      BY <1>1, <3>1 DEF StartTask, acceptVars
    <3>2. CASE ~isDraining
      <4>1. SettleTasks(pendingTaskRequests', requestLog', pendingTaskOffers, offerLog)
        BY <1>1, <3>2 DEF StartTask
      <4>2. pendingTaskRequests' \in SUBSET Requests /\ pendingTaskOffers \in SUBSET Task
        BY <1>1, <3>2 DEF StartTask, BrokerTypeOK
      <4> QED BY <4>1, <4>2, SettleTasksServes
    <3> QED BY <3>1, <3>2
  <2> QED BY <1>1, <2>1, StartTaskType DEF StartTask
<1>2. ASSUME NEW q \in Requests, CancelTasks(q)
      PROVE  Goal
  BY <1>2, CancelTasksType DEF CancelTasks, acceptVars
<1>3. ASSUME NEW q \in Requests, RequestTimeout(q)
      PROVE  Goal
  BY <1>3, RequestTimeoutType DEF RequestTimeout, acceptVars
<1>4. ASSUME NEW t \in Task, RpcReturns(t)
      PROVE  Goal
  BY <1>4, RpcReturnsType DEF RpcReturns, acceptVars
<1>5. ASSUME NEW t \in Task, AcceptTimeout(t)
      PROVE  Goal
  <2>1. ChannelTypeOK' /\ BrokerTypeOK'
    BY <1>5 DEF AcceptTimeout, ChannelTypeOK, BrokerTypeOK, channelVars, listVars, timerVars, reqVars
  <2> QED BY <1>5, <2>1 DEF AcceptTimeout, reqVars
<1>6. ASSUME StartDraining
      PROVE  Goal
  BY <1>6, StartDrainingType DEF StartDraining, acceptVars, reqVars
<1>7. ASSUME NEW r \in Runners, OnInfo(r)
      PROVE  Goal
  BY <1>7, OnInfoType DEF OnInfo, acceptVars, reqVars
<1>8. ASSUME NEW r \in Runners, OnUnknownRunner(r)
      PROVE  Goal
  <2>1. ChannelTypeOK'
    BY <1>8, BrokerReadsType DEF OnUnknownRunner, ChannelTypeOK
  <2>2. BrokerTypeOK'
    BY <1>8 DEF OnUnknownRunner, BrokerTypeOK, brokerVars, listVars, acceptVars, timerVars, reqVars
  <2> QED BY <1>8, <2>1, <2>2 DEF OnUnknownRunner, brokerVars, acceptVars, reqVars
<1>9. ASSUME NEW r \in Runners, NEW t \in Task, OnTaskOffer(r, t)
      PROVE  Goal
  <2>1. SettleTasks(pendingTaskRequests, requestLog, pendingTaskOffers \cup {t}, offerLog')
    BY <1>9 DEF OnTaskOffer
  <2>2. pendingTaskRequests \in SUBSET Requests /\ pendingTaskOffers \cup {t} \in SUBSET Task
    BY DEF BrokerTypeOK
  <2>3. \A u \in accepting' : request'[u] \in Requests
    BY <2>1, <2>2, SettleTasksServes
  <2> QED BY <1>9, <2>3, OnTaskOfferType DEF OnTaskOffer, reqVars
<1>10. ASSUME NEW r \in Runners, NEW t \in Task, OnTaskAccepted(r, t)
       PROVE  Goal
  BY <1>10, OnTaskAcceptedType DEF OnTaskAccepted
<1>11. ASSUME NEW r \in Runners, NEW t \in Task, NEW type, OnTaskRefused(r, t, type)
       PROVE  Goal
  <2>1. ChannelTypeOK' /\ BrokerTypeOK'
    BY <1>11, OnTaskRefusedType DEF OnTaskRefused
  <2> QED BY <1>11, <2>1 DEF OnTaskRefused, reqVars
<1>12. ASSUME NEW r \in Runners, NEW t \in Task, NEW type, OnLateAnswer(r, t, type)
       PROVE  Goal
  <2>1. ChannelTypeOK'
    BY <1>12, BrokerReadsType DEF OnLateAnswer, ChannelTypeOK
  <2>2. BrokerTypeOK'
    BY <1>12 DEF OnLateAnswer, BrokerTypeOK, listVars, timerVars, reqVars
  <2> QED BY <1>12, <2>1, <2>2 DEF OnLateAnswer, reqVars
<1>13. ASSUME NEW r \in Runners, NEW t \in Task, NEW type, OnTaskEnded(r, t, type)
       PROVE  Goal
  BY <1>13, OnTaskEndedType DEF OnTaskEnded, acceptVars
<1>14. ASSUME NEW r \in Runners, NEW t \in Task, NEW k \in CallKinds, OnRequest(r, t, k)
       PROVE  Goal
  <2>1. ChannelTypeOK' /\ BrokerTypeOK'
    BY <1>14, OnRequestType
  <2>2. rpcs' # {} => "rpc" \in CallKinds
    BY <1>14 DEF OnRequest
  <2> QED BY <1>14, <2>1, <2>2 DEF OnRequest, acceptVars
<1> HIDE DEF Goal
<1>15. Goal
  BY <1>1, <1>2, <1>3, <1>4, <1>5, <1>6, <1>7, <1>8, <1>9, <1>10, <1>11, <1>12, <1>13, <1>14
     DEF BrokerNext
<1> QED BY <1>15 DEF Goal

LEMMA FailTasksType ==
  ASSUME BrokerTypeOK, NEW ts, FailTasks(ts)
  PROVE  tasks' \subseteq Task /\ reqState' \in [Requests -> {"idle"} \cup Waiting \cup Settled]
BY SettleType DEF FailTasks, BrokerTypeOK, Settled

(* Every step keeps TypeInv. *)
LEMMA TypeInvInductive ==
  ASSUME TypeInv, [Next]_vars
  PROVE  TypeInv'
<1> USE DEF TypeInv, TypeOK
<1>1. CASE RunnerNext /\ UNCHANGED brokerVars
  <2>1. ChannelTypeOK' /\ RunnerTypeOK'
    BY <1>1, RunnerNextType
  <2>2. BrokerTypeOK'
    BY <1>1 DEF BrokerTypeOK, brokerVars, listVars, acceptVars, timerVars, reqVars
  <2> QED BY <1>1, <2>1, <2>2 DEF brokerVars, acceptVars, reqVars
<1>2. CASE BrokerNext /\ UNCHANGED runnerVars
  <2>1. RunnerTypeOK'
    BY <1>2 DEF RunnerTypeOK, runnerVars
  <2> QED BY <1>2, <2>1, BrokerNextType
<1>3. ASSUME NEW t \in Task, TaskTimeout(t)
      PROVE  TypeInv'
  <2>1. tasks' \subseteq Task /\ reqState' \in [Requests -> {"idle"} \cup Waiting \cup Settled]
    BY <1>3, FailTasksType DEF TaskTimeout, BrokerTypeOK
  <2>2. BrokerTypeOK'
    BY <1>3, <2>1 DEF TaskTimeout, BrokerTypeOK, listVars, acceptVars
  <2>3. ChannelTypeOK' /\ RunnerTypeOK'
    <3>1. CASE Die(Open)
      BY <3>1, DieType
    <3>2. CASE UNCHANGED <<channelVars, runnerVars>>
      BY <3>2 DEF ChannelTypeOK, RunnerTypeOK, channelVars, runnerVars
    <3>3. CASE /\ toRunner' = Posted(Runner(t), <<TaskMsg("taskcancel", t)>>)
               /\ UNCHANGED <<conn, toBroker, runnerVars>>
      <4>1. <<TaskMsg("taskcancel", t)>> \in Seq(ToRunner)
        BY MessageTypes
      <4>2. ChannelTypeOK'
        BY <3>3, <4>1, PostedType, TaskRunnerType DEF ChannelTypeOK
      <4> QED BY <3>3, <4>2 DEF RunnerTypeOK, runnerVars
    <3> QED BY <1>3, <3>1, <3>2, <3>3 DEF TaskTimeout
  <2> QED BY <1>3, <2>2, <2>3 DEF TaskTimeout, acceptVars
<1>4. ASSUME NEW r \in Runners, HeartbeatFails(r)
      PROVE  TypeInv'
  <2>1. ChannelTypeOK' /\ RunnerTypeOK'
    BY <1>4, DieType DEF HeartbeatFails
  <2>2. BrokerTypeOK'
    BY <1>4 DEF HeartbeatFails, BrokerTypeOK, brokerVars, listVars, acceptVars, timerVars, reqVars
  <2> QED BY <1>4, <2>1, <2>2 DEF HeartbeatFails, brokerVars, acceptVars, reqVars
<1>5. ASSUME NEW r \in Runners, RemoveConnection(r)
      PROVE  TypeInv'
  <2>1. tasks' \subseteq Task /\ reqState' \in [Requests -> {"idle"} \cup Waiting \cup Settled]
    BY <1>5, FailTasksType DEF RemoveConnection, DeregisterRunner
  <2>2. BrokerTypeOK'
    BY <1>5, <2>1 DEF RemoveConnection, DeregisterRunner, BrokerTypeOK, acceptVars, timerVars
  <2>3. << >> \in Seq(ToBroker)
    OBVIOUS
  <2>4. toBroker' \in [Runners -> Seq(ToBroker)]
    BY <1>5, <2>3 DEF RemoveConnection, ChannelTypeOK
  <2>5. ChannelTypeOK' /\ RunnerTypeOK'
    BY <1>5, <2>4, ProcessesExitType DEF RemoveConnection, ChannelTypeOK
  <2> QED BY <1>5, <2>2, <2>5 DEF RemoveConnection, DeregisterRunner, acceptVars
<1>6. CASE UNCHANGED vars
  BY <1>6 DEF vars, channelVars, runnerVars, brokerVars, listVars, acceptVars, timerVars, reqVars,
              ChannelTypeOK, RunnerTypeOK, BrokerTypeOK
<1> HIDE DEF TypeInv
<1> QED BY <1>1, <1>2, <1>3, <1>4, <1>5, <1>6 DEF Next

LEMMA TypeInvInit ==
  ASSUME Init
  PROVE  TypeInv
<1>1. ChannelTypeOK
  BY DEF Init, ChannelInit, ChannelTypeOK
<1>2. RunnerTypeOK
  BY BoundsAssumption DEF Init, RunnerInit, RunnerTypeOK, Status
<1>3. BrokerTypeOK
  <2> USE DEF Init, BrokerInit
  <2>1. offerLog \in Seq(Task) /\ requestLog \in Seq(Requests)
    OBVIOUS
  <2>2. request \in [Task -> Requests \cup {NoRequest}]
    OBVIOUS
  <2>3. reqState \in [Requests -> {"idle"} \cup Waiting \cup Settled]
    OBVIOUS
  <2>4. reqTask \in [Requests -> Task \cup {NoTask}]
    OBVIOUS
  <2>5. isDraining \in BOOLEAN
    OBVIOUS
  <2> QED BY <2>1, <2>2, <2>3, <2>4, <2>5 DEF BrokerTypeOK
<1> QED BY <1>1, <1>2, <1>3 DEF TypeInv, TypeOK, Init, BrokerInit

(* In every reachable state of the broker, its runners and the channels    *)
(* between them, every variable has its type: in particular a runner never *)
(* numbers an offer beyond the bound, and every message is one of the      *)
(* protocol about an existing offer.                                       *)
THEOREM TypeCorrect == Spec => []TypeOK
<1>1. Spec => []TypeInv
  BY TypeInvInit, TypeInvInductive, PTL DEF Spec
<1>2. TypeInv => TypeOK
  BY DEF TypeInv
<1> QED BY <1>1, <1>2, PTL

-----------------------------------------------------------------------------
(* CapacityRespected                                                       *)

Load(r) == Cardinality(OffersOf(r)) + Cardinality(RunningTasks(r))

LEMMA SubsetCardinality ==
  ASSUME NEW S \in SUBSET Task, NEW T \in SUBSET S
  PROVE  Cardinality(T) \in Nat /\ Cardinality(S) \in Nat /\ Cardinality(T) <= Cardinality(S)
BY TaskSetCardinality, FS_Subset

(* A step that only takes offers and tasks away from r *)
LEMMA LoadShrinks ==
  ASSUME TypeOK, TypeOK', NEW r \in Runners, Load(r) <= MaxConcurrency,
         OffersOf(r)' \subseteq OffersOf(r), RunningTasks(r)' \subseteq RunningTasks(r)
  PROVE  Load(r)' <= MaxConcurrency
<1>1. OffersOf(r) \in SUBSET Task /\ RunningTasks(r) \in SUBSET Task
  BY DEF OffersOf, RunningTasks, TypeOK, RunnerTypeOK
<1>2. /\ Cardinality(OffersOf(r)') \in Nat /\ Cardinality(OffersOf(r)) \in Nat
      /\ Cardinality(OffersOf(r)') <= Cardinality(OffersOf(r))
  BY <1>1, SubsetCardinality
<1>3. /\ Cardinality(RunningTasks(r)') \in Nat /\ Cardinality(RunningTasks(r)) \in Nat
      /\ Cardinality(RunningTasks(r)') <= Cardinality(RunningTasks(r))
  BY <1>1, SubsetCardinality
<1> QED BY <1>2, <1>3, BoundsAssumption DEF Load

(* sendOffers fills the slots that are free and no more.                   *)
LEMMA SendOffersLoad ==
  ASSUME TypeOK, TypeOK', NEW r \in Runners, Load(r) <= MaxConcurrency,
         NEW stale, NEW done, SendOffers(r, stale, done),
         RunningTasks(r)' \subseteq RunningTasks(r) \ done
  PROVE  Load(r)' <= MaxConcurrency
<1> DEFINE new  == NewOffers(r, stale, done)
           kept == OffersOf(r) \ stale
           busy == RunningTasks(r) \ done
<1>1. /\ OffersOf(r) \in SUBSET Task /\ RunningTasks(r) \in SUBSET Task
      /\ kept \in SUBSET OffersOf(r) /\ busy \in SUBSET RunningTasks(r)
      /\ RunningTasks(r)' \in SUBSET busy /\ kept \in SUBSET Task /\ busy \in SUBSET Task
  BY DEF OffersOf, RunningTasks, TypeOK, RunnerTypeOK
<1>2. /\ IsFiniteSet(new) /\ Cardinality(new) \in Nat
      /\ new = offersSent[r] + 1 .. offersSent[r] + Cardinality(new)
      /\ {r} \X new \subseteq Task
  BY NewOffersType DEF TypeOK
<1>3. /\ Cardinality(kept) \in Nat /\ Cardinality(OffersOf(r)) \in Nat
      /\ Cardinality(kept) <= Cardinality(OffersOf(r))
  BY <1>1, SubsetCardinality
<1>4. /\ Cardinality(busy) \in Nat /\ Cardinality(RunningTasks(r)) \in Nat
      /\ Cardinality(busy) <= Cardinality(RunningTasks(r))
  BY <1>1, SubsetCardinality
<1>5. Cardinality(RunningTasks(r)') \in Nat /\ Cardinality(RunningTasks(r)') <= Cardinality(busy)
  BY <1>1, SubsetCardinality
<1>6. Cardinality(kept) + Cardinality(busy) + Cardinality(new) <= MaxConcurrency
  <2> DEFINE n == OffersToSend(r, stale, done)
             last == IF offersSent[r] + n <= MaxOffers THEN offersSent[r] + n ELSE MaxOffers
  <2>1. n = MaxConcurrency - (Cardinality(kept) + Cardinality(busy))
    BY DEF OffersToSend
  <2>2. offersSent[r] \in Nat /\ MaxOffers \in Nat /\ MaxConcurrency \in Nat
    BY BoundsAssumption DEF TypeOK, RunnerTypeOK
  <2>3. Cardinality(kept) + Cardinality(busy) <= MaxConcurrency
    BY <1>3, <1>4, <2>2 DEF Load
  <2>4. n \in Int
    BY <1>3, <1>4, <2>1, <2>2
  <2> HIDE DEF n, kept, busy
  <2>5. last \in Int /\ last <= offersSent[r] + n
    BY <2>2, <2>4
  <2>6. new = offersSent[r] + 1 .. last \/ new = {}
    BY DEF NewOffers, n
  <2> HIDE DEF last, new
  <2>7. CASE new = {}
    <3>1. Cardinality(new) = 0
      BY <2>7, FS_EmptySet
    <3> QED BY <3>1, <2>3, <1>3, <1>4
  <2>8. CASE new # {}
    <3>1. new = offersSent[r] + 1 .. last
      BY <2>6, <2>8
    <3>2. offersSent[r] + 1 \in Int
      BY <2>2
    <3>3. Cardinality(new) = IF offersSent[r] + 1 > last THEN 0 ELSE last - (offersSent[r] + 1) + 1
      BY <3>1, <3>2, <2>5, FS_Interval
    <3>4. offersSent[r] + 1 <= last
      BY <3>1, <3>2, <2>5, <2>8
    <3>5. Cardinality(new) <= n
      BY <3>3, <3>4, <2>2, <2>4, <2>5
    <3> QED BY <3>5, <2>1, <2>2, <1>2, <1>3, <1>4
  <2> QED BY <2>7, <2>8
<1>7. Cardinality(OffersOf(r)') \in Nat /\ Cardinality(OffersOf(r)') <= Cardinality(kept) + Cardinality(new)
  <2>1. OffersOf(r)' = kept \cup ({r} \X new)
    BY DEF OffersOf, SendOffers, Runner
  <2> HIDE DEF kept, new
  <2>2. IsFiniteSet({r}) /\ Cardinality({r}) = 1
    BY FS_Singleton
  <2>3. IsFiniteSet({r} \X new) /\ Cardinality({r} \X new) = Cardinality({r}) * Cardinality(new)
    BY <1>2, <2>2, FS_Product
  <2>4. Cardinality({r} \X new) = Cardinality(new)
    BY <1>2, <2>2, <2>3
  <2>5. IsFiniteSet(kept)
    BY <1>1, TaskSetCardinality
  <2>6. /\ IsFiniteSet(kept \cup ({r} \X new))
        /\ Cardinality(kept \cup ({r} \X new)) = Cardinality(kept) + Cardinality({r} \X new)
                                                 - Cardinality(kept \cap ({r} \X new))
    BY <2>3, <2>5, FS_Union
  <2>7. Cardinality(kept \cap ({r} \X new)) \in Nat /\ Cardinality(kept \cup ({r} \X new)) \in Nat
    BY <1>1, <1>2, TaskSetCardinality
  <2> QED BY <2>1, <2>4, <2>6, <2>7, <1>2, <1>3
<1> QED BY <1>2, <1>3, <1>4, <1>5, <1>6, <1>7, BoundsAssumption DEF Load

(* A task that is accepted takes the slot of its offer. *)
LEMMA AcceptLoad ==
  ASSUME TypeOK, TypeOK', NEW r \in Runners, Load(r) <= MaxConcurrency, NEW t \in OffersOf(r),
         OffersOf(r)' = OffersOf(r) \ {t}, RunningTasks(r)' \subseteq RunningTasks(r) \cup {t}
  PROVE  Load(r)' <= MaxConcurrency
<1>1. OffersOf(r) \in SUBSET Task /\ RunningTasks(r) \in SUBSET Task
  BY DEF OffersOf, RunningTasks, TypeOK, RunnerTypeOK
<1>2. /\ IsFiniteSet(OffersOf(r)) /\ Cardinality(OffersOf(r)) \in Nat
      /\ IsFiniteSet(RunningTasks(r)) /\ Cardinality(RunningTasks(r)) \in Nat
  BY <1>1, TaskSetCardinality
<1>3. Cardinality(OffersOf(r)') = Cardinality(OffersOf(r)) - 1
  BY <1>2, FS_RemoveElement
<1>4. Cardinality(RunningTasks(r) \cup {t}) <= Cardinality(RunningTasks(r)) + 1
  <2>1. Cardinality(RunningTasks(r) \cup {t}) =
          IF t \in RunningTasks(r) THEN Cardinality(RunningTasks(r)) ELSE Cardinality(RunningTasks(r)) + 1
    BY <1>2, FS_AddElement
  <2> QED BY <1>2, <2>1
<1>5. RunningTasks(r) \cup {t} \in SUBSET Task
  BY <1>1
<1>6. /\ Cardinality(RunningTasks(r)') \in Nat /\ Cardinality(RunningTasks(r) \cup {t}) \in Nat
      /\ Cardinality(RunningTasks(r)') <= Cardinality(RunningTasks(r) \cup {t})
  BY <1>5, SubsetCardinality
<1> QED BY <1>2, <1>3, <1>4, <1>6, BoundsAssumption DEF Load

(* The other runners do not notice what r offers. *)
LEMMA SendOffersOthers ==
  ASSUME NEW r \in Runners, NEW stale \in Stale(r), NEW done, SendOffers(r, stale, done),
         NEW o \in Runners \ {r}
  PROVE  OffersOf(o)' = OffersOf(o)
BY DEF SendOffers, OffersOf, Stale, Runner

LEMMA FinishTaskLoad ==
  ASSUME TypeOK, TypeOK', NEW t \in Task, NEW stale \in Stale(Runner(t)), FinishTask(t, stale),
         NEW r \in Runners, Load(r) <= MaxConcurrency
  PROVE  Load(r)' <= MaxConcurrency
<1>1. SendOffers(Runner(t), stale, {t}) /\ status' = [status EXCEPT ![t] = "none"]
  BY DEF FinishTask
<1>2. RunningTasks(r)' \subseteq RunningTasks(r) \ {t}
  BY <1>1 DEF RunningTasks, TypeOK, RunnerTypeOK
<1>3. CASE r = Runner(t)
  BY <1>1, <1>2, <1>3, SendOffersLoad
<1>4. CASE r # Runner(t)
  <2>1. OffersOf(r)' = OffersOf(r)
    BY <1>1, <1>4, SendOffersOthers, TaskRunnerType
  <2> QED BY <1>2, <2>1, LoadShrinks
<1> QED BY <1>3, <1>4

LEMMA ExitLoad ==
  ASSUME TypeOK, TypeOK', NEW rs, ProcessesExit(rs), NEW r \in Runners, Load(r) <= MaxConcurrency
  PROVE  Load(r)' <= MaxConcurrency
<1>1. OffersOf(r)' \subseteq OffersOf(r)
  BY DEF ProcessesExit, OffersOf
<1>2. RunningTasks(r)' \subseteq RunningTasks(r)
  BY DEF ProcessesExit, RunningTasks, TypeOK, RunnerTypeOK
<1> QED BY <1>1, <1>2, LoadShrinks

(* A step that changes neither the offers nor the status of any task *)
LEMMA IdleLoad ==
  ASSUME TypeOK, TypeOK', UNCHANGED <<openOffers, status>>, NEW r \in Runners,
         Load(r) <= MaxConcurrency
  PROVE  Load(r)' <= MaxConcurrency
<1>1. OffersOf(r)' = OffersOf(r) /\ RunningTasks(r)' = RunningTasks(r)
  BY DEF OffersOf, RunningTasks
<1> QED BY <1>1, LoadShrinks

LEMMA RunnerNextLoad ==
  ASSUME TypeOK, TypeOK', RunnerNext, NEW r \in Runners, Load(r) <= MaxConcurrency
  PROVE  Load(r)' <= MaxConcurrency
<1>1. ASSUME NEW o \in Runners, \/ Connect(o) \/ OnInfoRequest(o) \/ OnRunnerRegistered(o)
                                \/ OnDrain(o) \/ LauncherRegistered(o)
      PROVE  Load(r)' <= MaxConcurrency
  <2>1. UNCHANGED <<openOffers, status>>
    BY <1>1 DEF Connect, OnInfoRequest, OnRunnerRegistered, OnDrain, LauncherRegistered, runnerVars
  <2> QED BY <2>1, IdleLoad
<1>2. ASSUME NEW o \in Runners, OfferInterval(o)
      PROVE  Load(r)' <= MaxConcurrency
  <2>1. PICK stale \in Stale(o) : SendOffers(o, stale, {})
    BY <1>2 DEF OfferInterval
  <2>2. RunningTasks(r)' = RunningTasks(r)
    BY <1>2 DEF OfferInterval, RunningTasks
  <2>3. CASE r = o
    BY <2>1, <2>2, <2>3, SendOffersLoad
  <2>4. CASE r # o
    BY <2>1, <2>2, <2>4, SendOffersOthers, LoadShrinks
  <2> QED BY <2>3, <2>4
<1>3. ASSUME NEW o \in Runners, Stop(o)
      PROVE  Load(r)' <= MaxConcurrency
  <2>1. OffersOf(r)' \subseteq OffersOf(r) /\ RunningTasks(r)' = RunningTasks(r)
    BY <1>3 DEF Stop, OffersOf, RunningTasks
  <2> QED BY <2>1, LoadShrinks
<1>4. ASSUME NEW o \in Runners, CloseConnection(o) \/ Crash(o)
      PROVE  Load(r)' <= MaxConcurrency
  <2>1. ProcessesExit({o})
    BY <1>4 DEF CloseConnection, Crash, Die
  <2> QED BY <2>1, ExitLoad
<1>5. ASSUME NEW o \in Runners, NEW t \in Task, OnOfferAccept(o, t)
      PROVE  Load(r)' <= MaxConcurrency
  <2>1. openOffers' \subseteq openOffers
    BY <1>5 DEF OnOfferAccept
  <2>2. CASE UNCHANGED status
    <3>1. OffersOf(r)' \subseteq OffersOf(r) /\ RunningTasks(r)' = RunningTasks(r)
      BY <2>1, <2>2 DEF OffersOf, RunningTasks
    <3> QED BY <3>1, LoadShrinks
  <2>3. CASE /\ t \in openOffers
             /\ openOffers' = openOffers \ {t}
             /\ status' = [status EXCEPT ![t] = "waitingForSettings"]
    <3>1. CASE r = Runner(t)
      <4>1. t \in OffersOf(r) /\ OffersOf(r)' = OffersOf(r) \ {t}
        BY <2>3, <3>1 DEF OffersOf
      <4>2. RunningTasks(r)' \subseteq RunningTasks(r) \cup {t}
        BY <2>3 DEF RunningTasks, TypeOK, RunnerTypeOK
      <4> QED BY <4>1, <4>2, AcceptLoad
    <3>2. CASE r # Runner(t)
      <4>1. OffersOf(r)' \subseteq OffersOf(r)
        BY <2>1 DEF OffersOf
      <4>2. RunningTasks(r)' \subseteq RunningTasks(r)
        BY <2>3, <3>2 DEF RunningTasks, TypeOK, RunnerTypeOK
      <4> QED BY <4>1, <4>2, LoadShrinks
    <3> QED BY <3>1, <3>2
  <2> QED BY <1>5, <2>2, <2>3 DEF OnOfferAccept
<1>6. ASSUME NEW o \in Runners, NEW t \in Task, OnTaskCancel(o, t)
      PROVE  Load(r)' <= MaxConcurrency
  <2>1. CASE \E stale \in Stale(Runner(t)) : FinishTask(t, stale)
    BY <2>1, FinishTaskLoad
  <2>2. CASE /\ status[t] = "running"
             /\ status' = [status EXCEPT ![t] = "aborting:cancelled"]
             /\ UNCHANGED openOffers
    <3>1. OffersOf(r)' = OffersOf(r) /\ RunningTasks(r)' = RunningTasks(r)
      BY <2>2 DEF OffersOf, RunningTasks, TypeOK, RunnerTypeOK
    <3> QED BY <3>1, LoadShrinks
  <2>3. CASE UNCHANGED <<openOffers, status>>
    BY <2>3, IdleLoad
  <2> QED BY <1>6, <2>1, <2>2, <2>3 DEF OnTaskCancel
<1>7. ASSUME NEW o \in Runners, NEW t \in Task, OnTaskSettings(o, t)
      PROVE  Load(r)' <= MaxConcurrency
  <2>1. OffersOf(r)' = OffersOf(r)
    BY <1>7 DEF OnTaskSettings, OffersOf
  <2>2. RunningTasks(r)' = RunningTasks(r)
    BY <1>7 DEF OnTaskSettings, RunningTasks, TypeOK, RunnerTypeOK
  <2> QED BY <2>1, <2>2, LoadShrinks
<1>8. ASSUME NEW o \in Runners, NEW t \in Task, NEW k \in CallKinds, OnResponse(o, t, k)
      PROVE  Load(r)' <= MaxConcurrency
  <2>1. UNCHANGED <<openOffers, status>>
    BY <1>8 DEF OnResponse
  <2> QED BY <2>1, IdleLoad
<1>9. ASSUME NEW t \in Task, RunnerTaskTimeout(t)
      PROVE  Load(r)' <= MaxConcurrency
  <2>1. CASE \E stale \in Stale(Runner(t)) : FinishTask(t, stale)
    BY <2>1, FinishTaskLoad
  <2>2. CASE /\ status[t] = "running"
             /\ status' = [status EXCEPT ![t] = "aborting:timeout"]
             /\ UNCHANGED openOffers
    <3>1. OffersOf(r)' = OffersOf(r) /\ RunningTasks(r)' = RunningTasks(r)
      BY <2>2 DEF OffersOf, RunningTasks, TypeOK, RunnerTypeOK
    <3> QED BY <3>1, LoadShrinks
  <2>3. CASE UNCHANGED <<openOffers, status>>
    BY <2>3, IdleLoad
  <2> QED BY <1>9, <2>1, <2>2, <2>3 DEF RunnerTaskTimeout
<1>10. ASSUME NEW t \in Task, NEW outcome, ExecutionEnds(t, outcome)
       PROVE  Load(r)' <= MaxConcurrency
  BY <1>10, FinishTaskLoad DEF ExecutionEnds
<1>11. ASSUME NEW o \in Runners, NEW t \in Task, LauncherDefers(o, t)
       PROVE  Load(r)' <= MaxConcurrency
  <2>1. UNCHANGED <<openOffers, status>>
    BY <1>11 DEF LauncherDefers, runnerVars
  <2> QED BY <2>1, IdleLoad
<1>12. ASSUME NEW t \in Task, NEW k \in CallKinds, Call(t, k)
       PROVE  Load(r)' <= MaxConcurrency
  <2>1. UNCHANGED <<openOffers, status>>
    BY <1>12 DEF Call
  <2> QED BY <2>1, IdleLoad
<1> QED
  BY <1>1, <1>2, <1>3, <1>4, <1>5, <1>6, <1>7, <1>8, <1>9, <1>10, <1>11, <1>12 DEF RunnerNext

(* A runner never promises more than its maxConcurrency, however many      *)
(* offers and runners there are and whatever expires, crashes or is late.  *)
THEOREM CapacityTheorem == Spec => []CapacityRespected
<1> DEFINE Inv == TypeInv /\ CapacityRespected
<1>1. ASSUME Init
      PROVE  Inv
  <2>1. ASSUME NEW r \in Runners
        PROVE  OffersOf(r) = {} /\ RunningTasks(r) = {}
    BY <1>1 DEF Init, RunnerInit, OffersOf, RunningTasks
  <2>2. Cardinality({}) = 0
    BY FS_EmptySet
  <2>3. CapacityRespected
    BY <2>1, <2>2, BoundsAssumption DEF CapacityRespected
  <2> QED BY <1>1, <2>3, TypeInvInit
<1>2. ASSUME Inv, [Next]_vars
      PROVE  Inv'
  <2>1. TypeInv'
    BY <1>2, TypeInvInductive
  <2>2. TypeOK /\ TypeOK'
    BY <1>2, <2>1 DEF TypeInv
  <2>3. ASSUME NEW r \in Runners
        PROVE  Load(r)' <= MaxConcurrency
    <3>1. Load(r) <= MaxConcurrency
      BY <1>2 DEF CapacityRespected, Load
    <3>2. CASE RunnerNext
      BY <2>2, <3>1, <3>2, RunnerNextLoad
    <3>3. CASE UNCHANGED <<openOffers, status>>
      BY <2>2, <3>1, <3>3, IdleLoad
    <3>4. CASE \E rs \in SUBSET Runners : ProcessesExit(rs)
      BY <2>2, <3>1, <3>4, ExitLoad
    <3>5. ASSUME NEW t \in Task, TaskTimeout(t)
          PROVE  UNCHANGED <<openOffers, status>> \/ \E rs \in SUBSET Runners : ProcessesExit(rs)
      <4>1. Open \in SUBSET Runners
        BY DEF Open
      <4> QED BY <3>5, <4>1 DEF TaskTimeout, Die, runnerVars
    <3>6. ASSUME NEW o \in Runners, HeartbeatFails(o) \/ RemoveConnection(o)
          PROVE  \E rs \in SUBSET Runners : ProcessesExit(rs)
      <4>1. Open \in SUBSET Runners /\ {o} \in SUBSET Runners
        BY DEF Open
      <4> QED BY <3>6, <4>1 DEF HeartbeatFails, RemoveConnection, Die
    <3>7. CASE UNCHANGED runnerVars
      BY <3>3, <3>7 DEF runnerVars
    <3>8. CASE UNCHANGED vars
      BY <3>7, <3>8 DEF vars
    <3> QED BY <1>2, <3>2, <3>3, <3>4, <3>5, <3>6, <3>7, <3>8 DEF Next
  <2>4. CapacityRespected'
    BY <2>3 DEF CapacityRespected, Load
  <2> QED BY <2>1, <2>4
<1>3. Inv => CapacityRespected
  OBVIOUS
<1> HIDE DEF Inv
<1> QED BY <1>1, <1>2, <1>3, PTL DEF Spec
=============================================================================
