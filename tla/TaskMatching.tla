---------------------------- MODULE TaskMatching ----------------------------
(***************************************************************************)
(* The result of the matching loop of TaskBroker.settleTasks, without the  *)
(* loop.  SettleLoop has the loop and shows that it computes this.         *)
(***************************************************************************)
EXTENDS Integers, FiniteSets, SequencesExt

CONSTANT TypeOf    \* the task type of each runner and of each request

(* An offer, and the task created from it, names the runner that made it.  *)
Runner(t) == t[1]

(* x is before y in the array that log orders. *)
Ahead(log, x, y) ==
  \E i, j \in DOMAIN log : i < j /\ log[i] = x /\ log[j] = y

RequestsAhead(reqs, rlog, q) ==
  {p \in reqs : TypeOf[p] = TypeOf[q] /\ Ahead(rlog, p, q)}
OffersAhead(offers, olog, o) ==
  {p \in offers : TypeOf[Runner(p)] = TypeOf[Runner(o)] /\ Ahead(olog, p, o)}

(* The loop takes the requests that no acceptOffer is serving in order and *)
(* gives each the first offer left of its type: the n-th such request of a *)
(* type gets the n-th offer of that type.                                  *)
Matches(reqs, rlog, offers, olog) ==
  {m \in reqs \X offers :
     /\ TypeOf[m[1]] = TypeOf[Runner(m[2])]
     /\ Cardinality(RequestsAhead(reqs, rlog, m[1]))
          = Cardinality(OffersAhead(offers, olog, m[2]))}

Served(pairs) == {m[1] : m \in pairs}
Taken(pairs)  == {m[2] : m \in pairs}
=============================================================================
