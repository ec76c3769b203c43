----------------------------- MODULE SettleLoop -----------------------------
(***************************************************************************)
(* The loop of TaskBroker.settleTasks, one iteration a step, on any two    *)
(* lists it may find: the requests, some of them flagged acceptInProgress, *)
(* and the offers left by expireTasks.                                     *)
(***************************************************************************)
EXTENDS TaskMatching

CONSTANTS Requests, Offers
ASSUME ListsAssumption == IsFiniteSet(Requests) /\ IsFiniteSet(Offers)

VARIABLES
  requestLog,        \* pendingTaskRequests when settleTasks is called
  offerLog,          \* pendingTaskOffers after expireTasks
  inProgress,        \* the requests flagged when settleTasks is called
  pendingTaskOffers, \* what is left of the offers
  i,                 \* the iteration to come
  pairs              \* the calls acceptOffer(offer, request) made so far

vars == <<requestLog, offerLog, inProgress, pendingTaskOffers, i, pairs>>

Init ==
  /\ requestLog \in {s \in BoundedSeq(Requests, Cardinality(Requests)) : IsInjective(s)}
  /\ offerLog \in {s \in BoundedSeq(Offers, Cardinality(Offers)) : IsInjective(s)}
  /\ inProgress \in SUBSET ToSet(requestLog)
  /\ pendingTaskOffers = offerLog
  /\ i = 1
  /\ pairs = {}

Fitting(q) == {n \in DOMAIN pendingTaskOffers : TypeOf[Runner(pendingTaskOffers[n])] = TypeOf[q]}

Skip ==
  /\ i \in DOMAIN requestLog
  /\ requestLog[i] \in inProgress \/ Fitting(requestLog[i]) = {}
  /\ i' = i + 1
  /\ UNCHANGED <<requestLog, offerLog, inProgress, pendingTaskOffers, pairs>>

(* Mutant: the newest offer is taken, not the oldest *)
AcceptNewest ==
  /\ i \in DOMAIN requestLog
  /\ requestLog[i] \notin inProgress
  /\ Fitting(requestLog[i]) # {}
  /\ LET n == Max(Fitting(requestLog[i]))
     IN  /\ pairs' = pairs \cup {<<requestLog[i], pendingTaskOffers[n]>>}
         /\ pendingTaskOffers' = RemoveAt(pendingTaskOffers, n)
  /\ i' = i + 1
  /\ UNCHANGED <<requestLog, offerLog, inProgress>>

Accept ==
  /\ i \in DOMAIN requestLog
  /\ requestLog[i] \notin inProgress
  /\ Fitting(requestLog[i]) # {}
  /\ LET n == Min(Fitting(requestLog[i]))
     IN  /\ pairs' = pairs \cup {<<requestLog[i], pendingTaskOffers[n]>>}
         /\ pendingTaskOffers' = RemoveAt(pendingTaskOffers, n)
  /\ i' = i + 1
  /\ UNCHANGED <<requestLog, offerLog, inProgress>>

Next == Skip \/ Accept
Spec == Init /\ [][Next]_vars

(* Oldest first, of the right type, an offer for one request only: after   *)
(* each iteration the loop has made exactly the matches of the requests it *)
(* has passed, and removed exactly their offers.                           *)
LoopComputesMatches ==
  LET eligible == ToSet(requestLog) \ inProgress
      all      == Matches(eligible, requestLog, ToSet(offerLog), offerLog)
  IN  /\ pairs = {m \in all : \E n \in 1 .. i - 1 : requestLog[n] = m[1]}
      /\ ToSet(pendingTaskOffers) = ToSet(offerLog) \ Taken(pairs)
=============================================================================
