-------------------------- MODULE MultiMainSetupV2 --------------------------
(***************************************************************************)
(* The new leader election: one check at a time, a lease that is renewed   *)
(* by a script only while the key is one's own, and commands that fail     *)
(* after a timeout.  Each action is a handler between two awaits.          *)
(***************************************************************************)
EXTENDS MultiMainSetup

(* The defaults are 10 and 3 seconds: Redis has to answer within 2 seconds. *)
ASSUME LeaseAssumption == Interval + 3 * Latency < TTL

(* takeOverAsLeader and stepDownToFollower, at the end of a call *)
ReturnLeading(m, s) ==
  /\ TakeOver(m)
  /\ Return(m, s)

ReturnFollowing(m, s) ==
  /\ StepDown(m)
  /\ Return(m, s)

ReturnUnchanged(m, s) ==
  /\ Return(m, s)
  /\ UNCHANGED <<role, trackVars>>

(* Mutant: the answer of SET NX is not looked at *)
InitDoneUnchecked(m) ==
  /\ Answered(m, "check1", "init")
  /\ Started(m)
  /\ \/ Result(m, "check1") # "error" /\ TakeOver(m)
     \/ Result(m, "check1") = "error" /\ role' = [role EXCEPT ![m] = "follower"] /\ UNCHANGED trackVars
  /\ Return(m, "check1")
  /\ UNCHANGED <<redisVars, budgetVars>>

InitDone(m) ==
  /\ Answered(m, "check1", "init")
  /\ Started(m)
  /\ \/ Result(m, "check1") = "ok" /\ TakeOver(m)
     \/ Result(m, "check1") # "ok" /\ role' = [role EXCEPT ![m] = "follower"] /\ UNCHANGED trackVars
  /\ Return(m, "check1")
  /\ UNCHANGED <<redisVars, budgetVars>>

leaderCheckInProgress(m) == \E s \in Checks : Busy(m, s)

(* Mutant: a check starts while the previous one is in progress *)
CheckLeaderOverlapping(m) ==
  /\ Ticking(m)
  /\ timer[m] = 0
  /\ timer' = [timer EXCEPT ![m] = Interval]
  /\ \/ \E s \in Checks : ~Busy(m, s) /\ Await(m, s, IF role[m] = "leader" THEN "renew" ELSE "get")
     \/ (\A s \in Checks : Busy(m, s)) /\ UNCHANGED callVars
  /\ UNCHANGED <<redisVars, phase, role, trackVars, budgetVars>>

(* The interval fires: checkLeader up to its first await *)
CheckLeader(m) ==
  /\ Ticking(m)
  /\ timer[m] = 0
  /\ timer' = [timer EXCEPT ![m] = Interval]
  /\ \/ leaderCheckInProgress(m) /\ UNCHANGED callVars
     \/ ~leaderCheckInProgress(m) /\ Await(m, "check1", IF role[m] = "leader" THEN "renew" ELSE "get")
  /\ UNCHANGED <<redisVars, phase, role, trackVars, budgetVars>>

(* Mutant: another leader is taken for a failed renewal *)
RenewDoneTolerant(m, s) ==
  /\ Answered(m, s, "renew")
  /\ \/ Result(m, s) \in {"error", "success", "other"} /\ ReturnUnchanged(m, s)
     \/ Result(m, s) = "missing" /\ Await(m, s, "reclaim") /\ UNCHANGED <<role, trackVars>>
  /\ UNCHANGED <<redisVars, phase, timer, budgetVars>>

(* checkAreWeStillLeader: a failed renewal leaves the leader as it is. *)
RenewDone(m, s) ==
  /\ Answered(m, s, "renew")
  /\ \/ Result(m, s) \in {"error", "success"} /\ ReturnUnchanged(m, s)
     \/ Result(m, s) = "other" /\ ReturnFollowing(m, s)
     \/ Result(m, s) = "missing" /\ Await(m, s, "reclaim") /\ UNCHANGED <<role, trackVars>>
  /\ UNCHANGED <<redisVars, phase, timer, budgetVars>>

(* Mutant: the role is dropped and the services are not told *)
ReclaimDoneSilently(m, s) ==
  /\ Answered(m, s, "reclaim")
  /\ \/ Result(m, s) = "ok" /\ ReturnUnchanged(m, s)
     \/ /\ Result(m, s) \in {"error", "taken"}
        /\ role' = [role EXCEPT ![m] = "follower"]
        /\ Return(m, s)
        /\ UNCHANGED trackVars
  /\ UNCHANGED <<redisVars, phase, timer, budgetVars>>

ReclaimDone(m, s) ==
  /\ Answered(m, s, "reclaim")
  /\ \/ Result(m, s) = "ok" /\ ReturnUnchanged(m, s)
     \/ Result(m, s) \in {"error", "taken"} /\ ReturnFollowing(m, s)
  /\ UNCHANGED <<redisVars, phase, timer, budgetVars>>

(* checkCanBecomeLeader: a key that holds our own id makes us leader. *)
GetDone(m, s) ==
  /\ Answered(m, s, "get")
  /\ \/ Result(m, s) \in {"error", "other"} /\ ReturnUnchanged(m, s)
     \/ Result(m, s) = "self" /\ ReturnLeading(m, s)
     \/ Result(m, s) = "vacant" /\ Await(m, s, "claim") /\ UNCHANGED <<role, trackVars>>
  /\ UNCHANGED <<redisVars, phase, timer, budgetVars>>

ClaimDone(m, s) ==
  /\ Answered(m, s, "claim")
  /\ \/ Result(m, s) \in {"error", "taken"} /\ ReturnUnchanged(m, s)
     \/ Result(m, s) = "ok" /\ ReturnLeading(m, s)
  /\ UNCHANGED <<redisVars, phase, timer, budgetVars>>

Handle(m) ==
  \/ InitDone(m)
  \/ CheckLeader(m)
  \/ \E s \in Checks : RenewDone(m, s) \/ ReclaimDone(m, s) \/ GetDone(m, s) \/ ClaimDone(m, s)

Next ==
  \/ Tick
  \/ Environment
  \/ \E m \in Mains : Progress(m) \/ Handle(m)

Spec == Init /\ [][Next]_vars

(* Redis answers, Node's event loop runs every handler, time passes. *)
FairSpec ==
  /\ Spec
  /\ WF_vars(Tick)
  /\ \A m \in Mains : WF_vars(Progress(m)) /\ WF_vars(Handle(m))

-----------------------------------------------------------------------------
(* Nothing was lost and no process came back under the id of a dead one. *)
Undisturbed == faults = 0 /\ restarts = 0

Lease == INSTANCE LeaderLease WITH
           lease   <- IF Undisturbed THEN holder ELSE NoMain,
           leading <- IF Undisturbed THEN Leaders ELSE {}

(* Until the first command is lost, leader election implements the lease:  *)
(* a main acts as leader only while the key is its own, so no two mains do *)
(* (multi-main-setup-v2.ts, checkAreWeStillLeader).                        *)
ImplementsLease == Lease!Spec

(* The asserts of checkAreWeStillLeader, checkCanBecomeLeader,             *)
(* takeOverAsLeader and stepDownToFollower hold when they are reached:     *)
(* the role does not change under a check that awaits Redis.               *)
AssertsHold ==
  \A m \in Mains, s \in Checks :
    /\ calls[m][s].at \in {"renew", "reclaim"} => role[m] = "leader"
    /\ calls[m][s].at \in {"get", "claim", "init"} => role[m] # "leader"

(* The services keep step with the role: until it is stopped, a main that  *)
(* has booted tracks waiting executions if and only if it is marked as     *)
(* leader.  The one exception is a role that changed after WaitTracker.init *)
(* read it and before registerEventHandlers: the next event mends it,      *)
(* unless it starts a second interval over one that then runs on.          *)
ServicesFollowRole ==
  \A m \in Mains \ (missed \cup orphaned) :
    phase[m] = "up" => (m \in serving <=> role[m] = "leader")

(* Once commands are no longer lost and processes no longer end, the mains *)
(* agree on one leader, and its key is the one in Redis: what the comment  *)
(* in checkAreWeStillLeader says of a partition ("eventually the system    *)
(* will recover").                                                         *)
OneLeaderInTheEnd ==
  <>[]((\E m \in Mains : phase[m] = "up") => \E m \in Mains : Leaders = {m} /\ holder = m)
=============================================================================
