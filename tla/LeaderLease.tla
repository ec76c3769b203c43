---------------------------- MODULE LeaderLease -----------------------------
(***************************************************************************)
(* What leader election promises to the services of the main processes: a  *)
(* lease that one main holds at a time, and leadership that is exercised   *)
(* under the lease only.  While a main leads nobody can take its lease.    *)
(***************************************************************************)
CONSTANTS Mains, NoMain

VARIABLES
  lease,     \* the main that holds the lease, or NoMain
  leading    \* the mains that act as leader

leaseVars == <<lease, leading>>

Init ==
  /\ lease = NoMain
  /\ leading = {}

(* A main obtains the lease nobody holds. *)
Acquire(m) ==
  /\ lease = NoMain
  /\ lease' = m
  /\ UNCHANGED leading

(* Whoever holds the lease may start to act as leader. *)
Lead(m) ==
  /\ lease = m
  /\ leading' = {m}
  /\ UNCHANGED lease

Resign(m) ==
  /\ leading' = leading \ {m}
  /\ UNCHANGED lease

(* The lease runs out, or is given back. *)
End ==
  /\ leading = {}
  /\ lease' = NoMain
  /\ UNCHANGED leading

(* The store stops answering in time, and nothing is promised any more. *)
Outage ==
  /\ lease' = NoMain
  /\ leading' = {}

Next ==
  \/ \E m \in Mains : Acquire(m) \/ Lead(m) \/ Resign(m)
  \/ End
  \/ Outage

Spec == Init /\ [][Next]_leaseVars

(* No two mains lead, and a leader holds the lease. *)
Exclusive == leading \subseteq {lease}
=============================================================================
