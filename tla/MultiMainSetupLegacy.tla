------------------------ MODULE MultiMainSetupLegacy ------------------------
(***************************************************************************)
(* The leader election that is in use unless the new one is switched on:   *)
(* every firing of the interval starts a check of its own, on a connection *)
(* whose commands wait until Redis answers.                                *)
(***************************************************************************)
EXTENDS MultiMainSetup

(* tryBecomeLeader after its await: a follower is marked without an event. *)
TriedToBecomeLeader(m, s) ==
  /\ \/ Result(m, s) = "ok" /\ TakeOver(m)
     \/ Result(m, s) # "ok" /\ role' = [role EXCEPT ![m] = "follower"] /\ UNCHANGED trackVars
  /\ Return(m, s)

InitDone(m) ==
  /\ Answered(m, "check1", "init")
  /\ Started(m)
  /\ TriedToBecomeLeader(m, "check1")
  /\ UNCHANGED <<redisVars, budgetVars>>

(* Bound of the model: the interval does not start a third check. *)
CheckLeader(m) ==
  /\ Ticking(m)
  /\ timer[m] = 0
  /\ timer' = [timer EXCEPT ![m] = Interval]
  /\ \/ \E s \in Checks : ~Busy(m, s) /\ Await(m, s, "get")
     \/ (\A s \in Checks : Busy(m, s)) /\ UNCHANGED callVars
  /\ UNCHANGED <<redisVars, phase, role, trackVars, budgetVars>>

(* checkLeader after the key was read *)
GetDone(m, s) ==
  /\ Answered(m, s, "get")
  /\ \/ /\ Result(m, s) = "self"
        /\ IF role[m] = "leader" THEN UNCHANGED <<role, trackVars>> ELSE TakeOver(m)
        /\ Await(m, s, "expire")
     \/ /\ Result(m, s) = "other"
        /\ IF role[m] = "leader" THEN StepDown(m) ELSE UNCHANGED <<role, trackVars>>
        /\ Return(m, s)
     \/ /\ Result(m, s) = "vacant"
        /\ StepDown(m)
        /\ Await(m, s, "claim")
     \/ /\ Result(m, s) = "error"
        /\ Return(m, s)
        /\ UNCHANGED <<role, trackVars>>
  /\ UNCHANGED <<redisVars, phase, timer, budgetVars>>

ExpireDone(m, s) ==
  /\ Answered(m, s, "expire")
  /\ Return(m, s)
  /\ UNCHANGED <<redisVars, localVars, budgetVars>>

ClaimDone(m, s) ==
  /\ Answered(m, s, "claim")
  /\ \/ Result(m, s) # "error" /\ TriedToBecomeLeader(m, s)
     \/ Result(m, s) = "error" /\ Return(m, s) /\ UNCHANGED <<role, trackVars>>
  /\ UNCHANGED <<redisVars, phase, timer, budgetVars>>

Handle(m) ==
  \/ InitDone(m)
  \/ CheckLeader(m)
  \/ \E s \in Checks : GetDone(m, s) \/ ExpireDone(m, s) \/ ClaimDone(m, s)

Next ==
  \/ Tick
  \/ Environment
  \/ \E m \in Mains : Progress(m) \/ Handle(m)

Spec == Init /\ [][Next]_vars

(* leader-stepdown is "emitted when this instance loses leadership"        *)
(* (multi-main-setup.ee.ts): until it is stopped, a main that is marked as *)
(* follower does not run the services of a leader, if it has heard every   *)
(* event since it booted.                                                  *)
FollowersDoNotServe ==
  \A m \in Mains \ missed : phase[m] = "up" /\ role[m] = "follower" => m \notin serving
=============================================================================
