------------------------ MODULE LeaderElectionProofs ------------------------
(***************************************************************************)
(* Proofs about the new leader election, for any main processes, times     *)
(* that satisfy the assumptions, and any number of lost commands, stops    *)
(* and restarts: the asserts of the code hold, the services follow the     *)
(* role, and until a command is lost the election implements the lease.    *)
(***************************************************************************)
EXTENDS MultiMainSetupV2, TLAPS

USE DEF redisVars, trackVars, localVars, callVars, budgetVars

-----------------------------------------------------------------------------
(* Type correctness                                                        *)

CallsTyped == calls \in [Mains -> [Slots -> Calls]] /\ ahead \in [Mains -> [Slots -> SUBSET Slots]]

(* The slot s of m, and no other, gets c. *)
CallBecomes(m, s, c) ==
  /\ calls'[m][s] = c
  /\ \A n \in Mains, t \in Slots : n # m \/ t # s => calls'[n][t] = calls[n][t]

LEMMA LineType ==
  ASSUME CallsTyped, NEW m \in Mains, NEW s \in Slots, NEW earlier \in SUBSET Slots,
         Line(m, s, earlier)
  PROVE  ahead' \in [Mains -> [Slots -> SUBSET Slots]]
  <1>1. [t \in Slots |-> IF t = s THEN earlier ELSE ahead[m][t] \ {s}] \in [Slots -> SUBSET Slots]
    BY DEF CallsTyped
  <1>. QED
    BY <1>1 DEF CallsTyped, Line

LEMMA SlotType ==
  ASSUME CallsTyped, NEW m \in Mains, NEW s \in Slots, NEW c \in Calls,
         calls' = [calls EXCEPT ![m][s] = c]
  PROVE  calls' \in [Mains -> [Slots -> Calls]] /\ CallBecomes(m, s, c)
  <1>1. [calls[m] EXCEPT ![s] = c] \in [Slots -> Calls]
    BY DEF CallsTyped
  <1>2. calls' = [calls EXCEPT ![m] = [calls[m] EXCEPT ![s] = c]]
    OBVIOUS
  <1>3. calls' \in [Mains -> [Slots -> Calls]]
    BY <1>1, <1>2 DEF CallsTyped
  <1>4. CallBecomes(m, s, c)
    BY <1>2 DEF CallsTyped, CallBecomes
  <1>. QED
    BY <1>3, <1>4

(* A call sends a command. *)
LEMMA AwaitCall ==
  ASSUME CallsTyped, NEW m \in Mains, NEW s \in Slots, NEW label \in Labels, Await(m, s, label)
  PROVE  CallsTyped' /\ CallBecomes(m, s, [at |-> label, reply |-> "pending", age |-> 0])
  <1>1. [at |-> label, reply |-> "pending", age |-> 0] \in Calls
    BY TimeAssumption DEF Calls
  <1>2. ahead' \in [Mains -> [Slots -> SUBSET Slots]]
    <2>1. Sent(m) \ {s} \in SUBSET Slots
      BY DEF Sent
    <2>. QED
      BY <2>1, LineType DEF Await
  <1>. QED
    BY <1>1, <1>2, SlotType DEF Await, CallsTyped

(* A call returns. *)
LEMMA ReturnCall ==
  ASSUME CallsTyped, NEW m \in Mains, NEW s \in Slots, Return(m, s)
  PROVE  CallsTyped' /\ CallBecomes(m, s, Idle)
  <1>1. Idle \in Calls
    BY TimeAssumption DEF Calls, Idle
  <1>2. ahead' \in [Mains -> [Slots -> SUBSET Slots]]
    BY LineType DEF Return
  <1>. QED
    BY <1>1, <1>2, SlotType DEF Return, CallsTyped

(* A call gets a reply. *)
Replies == {"none", "pending", "lost", "error", "ok", "taken", "success", "missing", "self", "other",
            "vacant"}

LEMMA ReplyCall ==
  ASSUME CallsTyped, NEW m \in Mains, NEW s \in Slots, NEW r \in Replies,
         calls' = [calls EXCEPT ![m][s].reply = r]
  PROVE  /\ calls' \in [Mains -> [Slots -> Calls]]
         /\ CallBecomes(m, s, [at |-> calls[m][s].at, reply |-> r, age |-> calls[m][s].age])
  <1>1. calls[m][s] \in Calls
    BY DEF CallsTyped
  <1>2. [calls[m][s] EXCEPT !.reply = r] = [at |-> calls[m][s].at, reply |-> r, age |-> calls[m][s].age]
    BY <1>1 DEF Calls
  <1>3. [at |-> calls[m][s].at, reply |-> r, age |-> calls[m][s].age] \in Calls
    BY <1>1 DEF Calls, Replies
  <1>4. calls' = [calls EXCEPT ![m][s] = [at |-> calls[m][s].at, reply |-> r, age |-> calls[m][s].age]]
    BY <1>2
  <1>. QED
    BY <1>3, <1>4, SlotType

LEMMA ReplyType == \A m, command : Reply(m, command) \in Replies \ {"none", "pending", "lost", "error"}
  BY DEF Reply, Replies

LEMMA CommandType == \A label \in Labels : Command(label) \in Commands
  BY DEF Labels, Command, Commands

(* What a command does to the key *)
LEMMA EffectType ==
  ASSUME holder \in Mains \cup {NoMain}, ttl \in 0 .. TTL, NEW m \in Mains, NEW command \in Commands,
         Effect(m, command)
  PROVE  holder' \in Mains \cup {NoMain} /\ ttl' \in 0 .. TTL
  <1>. USE TimeAssumption
  <1>1. CASE command = "setnx"
    BY <1>1 DEF Effect, SetKey
  <1>2. CASE command = "renew"
    BY <1>2 DEF Effect
  <1>3. CASE command = "expire"
    BY <1>3 DEF Effect
  <1>4. CASE command = "del"
    BY <1>4 DEF Effect
  <1>5. CASE command = "get"
    BY <1>5 DEF Effect
  <1>. QED
    BY <1>1, <1>2, <1>3, <1>4, <1>5 DEF Commands

(* A call that is not under way holds nothing of the last one. *)
IdleCalls == \A m \in Mains, s \in Slots : ~Busy(m, s) => calls[m][s] = Idle

TypeInv == TypeOK /\ IdleCalls

LEMMA PendingLabel ==
  ASSUME TypeInv, NEW m \in Mains, NEW s \in Slots, calls[m][s].reply = "pending"
  PROVE  calls[m][s].at \in Labels /\ Command(calls[m][s].at) \in Commands
  <1>1. calls[m][s] \in Calls /\ Busy(m, s)
    BY DEF TypeInv, TypeOK, IdleCalls, Idle
  <1>2. calls[m][s].at \in Labels
    BY <1>1 DEF Calls, Busy
  <1>. QED
    BY <1>2, CommandType

LEMMA IdleCallsKept ==
  ASSUME IdleCalls, NEW m, NEW s, NEW c, CallBecomes(m, s, c), c.at = "idle" => c = Idle
  PROVE  IdleCalls'
  BY DEF IdleCalls, CallBecomes, Busy

(* The commands that a closing connection may still deliver *)
LEMMA DisconnectType ==
  ASSUME TypeInv, NEW m \in Mains, Disconnect(m)
  PROVE  /\ late' \subseteq Mains \X Commands \X Nat
         /\ ahead' \in [Mains -> [Slots -> SUBSET Slots]]
         /\ \A l \in late' \ late : \E s \in Slots :
              l = <<m, Command(calls[m][s].at), Latency>> /\ calls[m][s].reply = "pending"
  <1>1. Latency \in Nat
    BY TimeAssumption
  <1>2. Unsent(m) \subseteq Mains \X Commands \X Nat
    BY <1>1, PendingLabel DEF Unsent
  <1>3. ahead' \in [Mains -> [Slots -> SUBSET Slots]]
    BY DEF Disconnect, TypeInv, TypeOK
  <1>4. \A l \in late' \ late : l \in Unsent(m)
    BY DEF Disconnect
  <1>5. late' \subseteq Mains \X Commands \X Nat
    BY <1>2, <1>4 DEF TypeInv, TypeOK
  <1>. QED
    BY <1>3, <1>4, <1>5 DEF Unsent

LEMMA TypeInit == Init => TypeInv
  <1>. SUFFICES ASSUME Init PROVE TypeInv
    OBVIOUS
  <1>1. Idle \in Calls
    BY TimeAssumption DEF Calls, Idle
  <1>. QED
    BY <1>1, TimeAssumption, BoundAssumption DEF Init, TypeInv, TypeOK, IdleCalls, Phases

(* A tick of the clock *)
LEMMA TickType ==
  ASSUME TypeInv, Tick
  PROVE  TypeInv'
  <1>. USE DEF TypeInv, TypeOK
  <1>1. calls' \in [Mains -> [Slots -> Calls]]
    <2>. SUFFICES ASSUME NEW m \in Mains, NEW s \in Slots
                  PROVE  (IF Busy(m, s) THEN [calls[m][s] EXCEPT !.age = @ + 1] ELSE Idle) \in Calls
      BY DEF Tick
    <2>1. CASE Busy(m, s)
      <3>1. calls[m][s] \in Calls /\ calls[m][s].age < Limit(calls[m][s])
        BY <2>1 DEF Tick
      <3>2. calls[m][s].age + 1 \in 0 .. CommandTimeout
        BY <3>1, TimeAssumption DEF Limit, Calls
      <3>. QED
        BY <2>1, <3>1, <3>2 DEF Calls
    <2>2. CASE ~Busy(m, s)
      BY <2>2, TimeAssumption DEF Calls, Idle
    <2>. QED
      BY <2>1, <2>2
  <1>2. IdleCalls'
    <2>1. \A m \in Mains, s \in Slots :
            calls'[m][s] = IF Busy(m, s) THEN [calls[m][s] EXCEPT !.age = @ + 1] ELSE Idle
      BY DEF Tick
    <2>2. \A m \in Mains, s \in Slots : Busy(m, s) => [calls[m][s] EXCEPT !.age = @ + 1].at # "idle"
      BY DEF Busy, Calls
    <2>. QED
      BY <2>1, <2>2, ZenonT(40) DEF IdleCalls, Busy
  <1>3. late' \subseteq Mains \X Commands \X Nat
    BY TimeAssumption DEF Tick
  <1>4. holder' \in Mains \cup {NoMain} /\ ttl' \in 0 .. TTL
    BY TimeAssumption DEF Tick
  <1>5. timer' \in [Mains -> 0 .. Interval]
    BY TimeAssumption DEF Tick, Ticking
  <1>6. UNCHANGED <<phase, role, trackVars, ahead, budgetVars>>
    BY DEF Tick
  <1>. QED
    BY <1>1, <1>2, <1>3, <1>4, <1>5, <1>6

(* The tracking of a main that a step does not concern *)
SameTracking(n) == /\ n \in serving' <=> n \in serving
                   /\ n \in orphaned' <=> n \in orphaned
                   /\ n \in missed' <=> n \in missed

TrackingTyped == serving \subseteq Mains /\ orphaned \subseteq Mains /\ missed \subseteq Mains

(* An event concerns the main that emits it. *)
LEMMA EventTracking ==
  ASSUME TypeInv, NEW m \in Mains, TakeOver(m) \/ StepDown(m)
  PROVE  TrackingTyped' /\ \A n \in Mains \ {m} : SameTracking(n)
  <1>. USE DEF TypeInv, TypeOK, TrackingTyped, SameTracking
  <1>1. CASE Emit(m, startTracking(m))
    BY <1>1 DEF Emit, startTracking
  <1>2. CASE Emit(m, stopTracking(m))
    BY <1>2 DEF Emit, stopTracking
  <1>. QED
    BY <1>1, <1>2 DEF TakeOver, StepDown

(* What the handlers of V2 do to a call, the role and the services *)
LEMMA RoleType ==
  ASSUME TypeInv, NEW m \in Mains,
         TakeOver(m) \/ StepDown(m) \/ (role' = [role EXCEPT ![m] = "follower"] /\ UNCHANGED trackVars)
         \/ UNCHANGED <<role, trackVars>>
  PROVE  role' \in [Mains -> {"unset", "leader", "follower"}] /\ TrackingTyped'
  <1>1. role' \in [Mains -> {"unset", "leader", "follower"}]
    BY DEF TypeInv, TypeOK, TakeOver, StepDown
  <1>2. TrackingTyped'
    BY EventTracking DEF TypeInv, TypeOK, TrackingTyped
  <1>. QED
    BY <1>1, <1>2

LEMMA CallType ==
  ASSUME TypeInv, NEW m \in Mains, NEW s \in Slots,
         Return(m, s) \/ (\E label \in Labels : Await(m, s, label)) \/ UNCHANGED callVars
  PROVE  CallsTyped' /\ IdleCalls'
  <1>1. CallsTyped
    BY DEF TypeInv, TypeOK, CallsTyped
  <1>2. CASE Return(m, s)
    BY <1>1, <1>2, ReturnCall, IdleCallsKept DEF TypeInv
  <1>3. ASSUME NEW label \in Labels, Await(m, s, label) PROVE CallsTyped' /\ IdleCalls'
    <2>1. CallsTyped' /\ CallBecomes(m, s, [at |-> label, reply |-> "pending", age |-> 0])
      BY <1>1, <1>3, AwaitCall
    <2>2. label # "idle"
      BY DEF Labels
    <2>. QED
      BY <2>1, <2>2, IdleCallsKept DEF TypeInv
  <1>4. CASE UNCHANGED callVars
    BY <1>1, <1>4 DEF CallsTyped, TypeInv, IdleCalls, Busy
  <1>. QED
    BY <1>2, <1>3, <1>4

LEMMA HandleType ==
  ASSUME TypeInv, NEW m \in Mains, Handle(m)
  PROVE  TypeInv'
  <1>. USE DEF TypeInv, TypeOK
  <1>0. Checks \subseteq Slots /\ {"init", "renew", "reclaim", "get", "claim"} \subseteq Labels
    BY DEF Checks, Slots, Labels
  <1>1. CASE InitDone(m)
    <2>1. CallsTyped' /\ IdleCalls'
      BY <1>1, CallType DEF InitDone, Slots, Checks
    <2>2. role' \in [Mains -> {"unset", "leader", "follower"}] /\ TrackingTyped'
      BY <1>1, RoleType DEF InitDone
    <2>3. phase' \in [Mains -> Phases] /\ timer' \in [Mains -> 0 .. Interval]
      BY <1>1, TimeAssumption DEF InitDone, Started, Phases
    <2>. QED
      BY <1>1, <2>1, <2>2, <2>3 DEF InitDone, CallsTyped, TrackingTyped
  <1>2. CASE CheckLeader(m)
    <2>1. CallsTyped' /\ IdleCalls'
      BY <1>0, <1>2, CallType DEF CheckLeader, Slots, Checks
    <2>2. timer' \in [Mains -> 0 .. Interval]
      BY <1>2, TimeAssumption DEF CheckLeader
    <2>. QED
      BY <1>2, <2>1, <2>2 DEF CheckLeader, CallsTyped
  <1>3. ASSUME NEW s \in Checks, RenewDone(m, s) \/ ReclaimDone(m, s) \/ GetDone(m, s) \/ ClaimDone(m, s)
        PROVE  TypeInv'
    <2>1. /\ Return(m, s) \/ \E label \in Labels : Await(m, s, label)
          /\ TakeOver(m) \/ StepDown(m) \/ UNCHANGED <<role, trackVars>>
          /\ UNCHANGED <<redisVars, phase, timer, budgetVars>>
      BY <1>0, <1>3 DEF RenewDone, ReclaimDone, GetDone, ClaimDone, ReturnLeading, ReturnFollowing,
         ReturnUnchanged
    <2>2. CallsTyped' /\ IdleCalls'
      BY <1>0, <2>1, CallType
    <2>3. role' \in [Mains -> {"unset", "leader", "follower"}] /\ TrackingTyped'
      BY <2>1, RoleType
    <2>. QED
      BY <2>1, <2>2, <2>3 DEF CallsTyped, TrackingTyped
  <1>. QED
    BY <1>1, <1>2, <1>3 DEF Handle

(* What the end of a process leaves of it *)
LEMMA EndedType ==
  ASSUME TypeInv, NEW m \in Mains, Ended(m), stops' \in 0 .. MaxStops
  PROVE  TypeInv'
  <1>. USE DEF TypeInv, TypeOK
  <1>1. late' \subseteq Mains \X Commands \X Nat /\ ahead' \in [Mains -> [Slots -> SUBSET Slots]]
    BY DisconnectType DEF Ended
  <1>2. calls' \in [Mains -> [Slots -> Calls]]
    <2>1. [s \in Slots |-> Idle] \in [Slots -> Calls]
      BY TimeAssumption DEF Calls, Idle
    <2>. QED
      BY <2>1 DEF Ended
  <1>3. IdleCalls'
    BY DEF Ended, IdleCalls, Busy, Idle
  <1>4. /\ phase' \in [Mains -> Phases]
        /\ role' \in [Mains -> {"unset", "leader", "follower"}]
        /\ serving' \subseteq Mains /\ orphaned' \subseteq Mains /\ missed' \subseteq Mains
        /\ timer' \in [Mains -> 0 .. Interval]
    BY TimeAssumption DEF Ended, Phases
  <1>. QED
    BY <1>1, <1>2, <1>3, <1>4 DEF Ended

LEMMA ProgressType ==
  ASSUME TypeInv, NEW m \in Mains, Progress(m)
  PROVE  TypeInv'
  <1>. USE DEF TypeInv, TypeOK
  <1>1. CASE RunCommand(m)
    <2>1. PICK s \in Slots :
            /\ calls[m][s].reply = "pending"
            /\ Effect(m, Command(calls[m][s].at))
            /\ calls' = [calls EXCEPT ![m][s].reply = Reply(m, Command(calls[m][s].at))]
            /\ UNCHANGED <<late, ahead, localVars, budgetVars>>
      BY <1>1 DEF RunCommand
    <2>2. Command(calls[m][s].at) \in Commands /\ calls[m][s].at \in Labels
      BY <2>1, PendingLabel
    <2>3. holder' \in Mains \cup {NoMain} /\ ttl' \in 0 .. TTL
      BY <2>1, <2>2, EffectType
    <2>4. Reply(m, Command(calls[m][s].at)) \in Replies
      BY ReplyType
    <2>5. /\ calls' \in [Mains -> [Slots -> Calls]]
          /\ CallBecomes(m, s, [at |-> calls[m][s].at, reply |-> Reply(m, Command(calls[m][s].at)),
                                age |-> calls[m][s].age])
      BY <2>1, <2>4, ReplyCall DEF CallsTyped
    <2>6. calls[m][s].at # "idle"
      BY <2>2 DEF Labels
    <2>7. IdleCalls'
      BY <2>5, <2>6, IdleCallsKept
    <2>. QED
      BY <2>1, <2>3, <2>5, <2>7
  <1>2. CASE Shutdown(m)
    <2>1. CallsTyped' /\ IdleCalls'
      BY <1>2, CallType DEF Shutdown, Slots, Labels
    <2>2. phase' \in [Mains -> Phases]
      BY <1>2 DEF Shutdown, Phases
    <2>. QED
      BY <1>2, <2>1, <2>2 DEF Shutdown, CallsTyped
  <1>3. CASE Close(m)
    <2>1. late' \subseteq Mains \X Commands \X Nat /\ ahead' \in [Mains -> [Slots -> SUBSET Slots]]
      BY <1>3, DisconnectType DEF Close
    <2>2. \A s \in Slots : (IF s \in Checks /\ Busy(m, s) THEN [calls[m][s] EXCEPT !.reply = "error"]
                             ELSE Idle) \in Calls
      <3>1. Idle \in Calls
        BY TimeAssumption DEF Calls, Idle
      <3>2. \A s \in Slots : [calls[m][s] EXCEPT !.reply = "error"] \in Calls
        <4>1. \A c \in Calls : [c EXCEPT !.reply = "error"] \in Calls
          BY DEF Calls
        <4>. QED
          BY <4>1
      <3>. QED
        BY <3>1, <3>2
    <2>3. calls' \in [Mains -> [Slots -> Calls]]
      BY <1>3, <2>2 DEF Close
    <2>4. \A s \in Slots : Busy(m, s) => [calls[m][s] EXCEPT !.reply = "error"].at # "idle"
      BY DEF Busy, Calls
    <2>5. IdleCalls'
      BY <1>3, <2>4 DEF Close, IdleCalls, Busy
    <2>6. phase' \in [Mains -> Phases]
      BY <1>3 DEF Close, Phases
    <2>. QED
      BY <1>3, <2>1, <2>3, <2>5, <2>6 DEF Close
  <1>4. CASE Exit(m)
    BY <1>4, EndedType DEF Exit
  <1>5. CASE InitWaitTracker(m)
    <2>1. phase' \in [Mains -> Phases] /\ serving' \subseteq Mains /\ orphaned' \subseteq Mains
      BY <1>5 DEF InitWaitTracker, startTracking, Phases
    <2>2. IdleCalls'
      BY <1>5 DEF InitWaitTracker, IdleCalls, Busy
    <2>. QED
      BY <1>5, <2>1, <2>2 DEF InitWaitTracker
  <1>6. CASE registerEventHandlers(m)
    <2>1. phase' \in [Mains -> Phases]
      BY <1>6 DEF registerEventHandlers, Phases
    <2>2. IdleCalls'
      BY <1>6 DEF registerEventHandlers, IdleCalls, Busy
    <2>. QED
      BY <1>6, <2>1, <2>2 DEF registerEventHandlers
  <1>. QED
    BY <1>1, <1>2, <1>3, <1>4, <1>5, <1>6 DEF Progress

LEMMA EnvironmentType ==
  ASSUME TypeInv, Environment
  PROVE  TypeInv'
  <1>. USE DEF TypeInv, TypeOK
  <1>1. ASSUME NEW m \in Mains, NEW s \in Slots, Lose(m, s) PROVE TypeInv'
    <2>1. /\ calls' \in [Mains -> [Slots -> Calls]]
          /\ CallBecomes(m, s, [at |-> calls[m][s].at, reply |-> "lost", age |-> calls[m][s].age])
      BY <1>1, ReplyCall DEF Lose, CallsTyped, Replies
    <2>2. ahead' \in [Mains -> [Slots -> SUBSET Slots]]
      BY <1>1, LineType DEF Lose, CallsTyped
    <2>3. IdleCalls'
      BY <1>1, <2>1, IdleCallsKept DEF Lose, Busy
    <2>4. late' \subseteq Mains \X Commands \X Nat
      BY <1>1, PendingLabel, TimeAssumption DEF Lose
    <2>5. faults' \in 0 .. MaxFaults
      BY <1>1, BoundAssumption DEF Lose
    <2>. QED
      BY <1>1, <2>1, <2>2, <2>3, <2>4, <2>5 DEF Lose
  <1>2. ASSUME NEW l \in late, ArriveLate(l) PROVE TypeInv'
    <2>1. l[1] \in Mains /\ l[2] \in Commands
      OBVIOUS
    <2>2. holder' \in Mains \cup {NoMain} /\ ttl' \in 0 .. TTL
      BY <1>2, <2>1, EffectType DEF ArriveLate
    <2>3. IdleCalls'
      BY <1>2 DEF ArriveLate, IdleCalls, Busy
    <2>. QED
      BY <1>2, <2>2, <2>3 DEF ArriveLate
  <1>3. ASSUME NEW m \in Mains, Start(m) PROVE TypeInv'
    <2>1. CallsTyped' /\ IdleCalls'
      BY <1>3, CallType DEF Start, Slots, Checks, Labels
    <2>2. phase' \in [Mains -> Phases] /\ restarts' \in 0 .. MaxRestarts
      BY <1>3, BoundAssumption DEF Start, Phases
    <2>. QED
      BY <1>3, <2>1, <2>2 DEF Start, CallsTyped
  <1>4. ASSUME NEW m \in Mains, StopProcess(m) PROVE TypeInv'
    <2>1. /\ phase' \in [Mains -> Phases]
          /\ stops' \in 0 .. MaxStops
          /\ serving' \subseteq Mains /\ orphaned' \subseteq Mains
      BY <1>4, BoundAssumption DEF StopProcess, stopTracking, Phases
    <2>2. IdleCalls'
      BY <1>4 DEF StopProcess, IdleCalls, Busy
    <2>. QED
      BY <1>4, <2>1, <2>2 DEF StopProcess
  <1>5. ASSUME NEW m \in Mains, Crash(m) PROVE TypeInv'
    <2>1. Ended(m) /\ stops' \in 0 .. MaxStops
      BY <1>5, BoundAssumption DEF Crash
    <2>. QED
      BY <2>1, EndedType
  <1>. QED
    BY <1>1, <1>2, <1>3, <1>4, <1>5 DEF Environment

LEMMA TypeNext == TypeInv /\ [Next]_vars => TypeInv'
  <1>. SUFFICES ASSUME TypeInv, [Next]_vars PROVE TypeInv'
    OBVIOUS
  <1>1. CASE UNCHANGED vars
    BY <1>1 DEF vars, TypeInv, TypeOK, IdleCalls, Busy
  <1>. QED
    BY <1>1, TickType, EnvironmentType, ProgressType, HandleType DEF Next

(* Every state of leader election is well typed; in particular a call ends *)
(* before its time is over, and the interval is never longer than set.     *)
THEOREM LeaderTypeCorrect == Spec => []TypeOK
  <1>1. TypeInv => TypeOK
    BY DEF TypeInv
  <1>. QED
    BY <1>1, TypeInit, TypeNext, PTL DEF Spec

-----------------------------------------------------------------------------
(* The roles                                                               *)

check(m) == calls[m]["check1"]
clear(m) == calls[m]["shutdown"]

(* WaitTracker is not started before it is initialized, and from then on   *)
(* follows the role, unless a change was missed or an interval orphaned.   *)
TrackingOf(m) ==
  /\ phase[m] \in {"new", "starting", "booting", "off"} => m \notin serving \cup orphaned \cup missed
  /\ phase[m] \in {"tracked", "up"} /\ m \notin missed \cup orphaned =>
       (m \in serving <=> role[m] = "leader")

(* leaderCheckInProgress admits one check at a time, and leaves clearing to *)
(* shutdown; where a process stands tells what it has under way.            *)
RoleOf(m) ==
  /\ calls[m]["check2"] = Idle
  /\ check(m).at \in {"idle", "init", "renew", "reclaim", "get", "claim"}
  /\ clear(m).at \in {"idle", "clear"}
  /\ phase[m] \in {"new", "starting", "off"} => role[m] = "unset"
  /\ phase[m] \in {"new", "off"} => check(m) = Idle
  /\ phase[m] = "starting" <=> check(m).at = "init"
  /\ phase[m] # "closing" => clear(m) = Idle
  /\ check(m).at \in {"renew", "reclaim"} => role[m] = "leader"
  /\ check(m).at \in {"get", "claim", "init"} => role[m] # "leader"
  /\ TrackingOf(m)

RoleInv == \A m \in Mains : RoleOf(m)

LEMMA RoleInit == Init => RoleInv
  <1>. SUFFICES ASSUME Init, NEW m \in Mains PROVE RoleOf(m)
    BY DEF RoleInv
  <1>1. \A s \in Slots : calls[m][s] = Idle
    BY DEF Init
  <1>2. phase[m] = "new" /\ role[m] = "unset" /\ TrackingOf(m)
    BY DEF Init, TrackingOf
  <1>. QED
    BY <1>1, <1>2 DEF RoleOf, check, clear, Idle, Slots, Checks

(* A main that a step does not concern *)
Same(n) == /\ phase'[n] = phase[n] /\ role'[n] = role[n] /\ SameTracking(n)
           /\ \A s \in Slots : calls'[n][s] = calls[n][s]

LEMMA RoleSame ==
  ASSUME NEW n, RoleOf(n), Same(n)
  PROVE  RoleOf(n)'
  BY DEF RoleOf, TrackingOf, Same, SameTracking, check, clear, Slots, Checks

LEMMA RoleStep ==
  ASSUME RoleInv, NEW m \in Mains, \A n \in Mains \ {m} : Same(n), RoleOf(m)'
  PROVE  RoleInv'
  BY RoleSame DEF RoleInv

(* A handler moves one call of one main. *)
LEMMA OthersSame ==
  ASSUME NEW m \in Mains, NEW s \in Slots, NEW c, CallBecomes(m, s, c),
         \A n \in Mains \ {m} : phase'[n] = phase[n] /\ role'[n] = role[n] /\ SameTracking(n)
  PROVE  \A n \in Mains \ {m} : Same(n)
  BY DEF CallBecomes, Same

(* An event that is heard brings the services to the role. *)
LEMMA EventHeard ==
  ASSUME TypeInv, NEW m \in Mains, TakeOver(m) \/ StepDown(m), UNCHANGED phase, TrackingOf(m),
         phase[m] \notin {"new", "starting", "off"}
  PROVE  TrackingOf(m)'
  <1>. USE DEF TypeInv, TypeOK, TrackingOf, Hears, Emit
  <1>1. CASE TakeOver(m)
    BY <1>1 DEF TakeOver, startTracking
  <1>2. CASE StepDown(m)
    BY <1>2 DEF StepDown, stopTracking
  <1>. QED
    BY <1>1, <1>2

(* A step that leaves the phase, the role and the services as they are *)
LEMMA TrackingKept ==
  ASSUME NEW m, TrackingOf(m), UNCHANGED <<phase, role, trackVars>>
  PROVE  TrackingOf(m)'
  BY DEF TrackingOf

LEMMA RoleHandle ==
  ASSUME TypeInv, RoleInv, NEW m \in Mains, Handle(m)
  PROVE  RoleInv'
  <1>. USE DEF TypeInv, TypeOK
  <1>0. Checks \subseteq Slots /\ {"init", "renew", "reclaim", "get", "claim"} \subseteq Labels
        /\ Slots = {"check1", "check2", "shutdown"}
    BY DEF Checks, Slots, Labels
  <1>c. CallsTyped /\ RoleOf(m)
    BY DEF CallsTyped, RoleInv
  <1>1. CASE InitDone(m)
    <2>1. CallBecomes(m, "check1", Idle)
      BY <1>0, <1>1, <1>c, ReturnCall DEF InitDone
    <2>2. \A n \in Mains \ {m} : SameTracking(n)
      BY <1>1, EventTracking DEF InitDone, SameTracking
    <2>3. \A n \in Mains \ {m} : Same(n)
      BY <1>0, <1>1, <2>1, <2>2, OthersSame DEF InitDone, Started, TakeOver
    <2>4. /\ phase[m] = "starting" /\ phase'[m] = "booting"
          /\ m \notin serving \cup orphaned \cup missed
      BY <1>1, <1>c DEF InitDone, Answered, Started, RoleOf, TrackingOf, check
    <2>5. TrackingOf(m)'
      BY <1>1, <2>4 DEF InitDone, TakeOver, Emit, Hears, TrackingOf
    <2>6. RoleOf(m)'
      BY <1>0, <1>1, <1>c, <2>1, <2>4, <2>5 DEF CallBecomes, RoleOf, check, clear, Idle
    <2>. QED
      BY <2>3, <2>6, RoleStep
  <1>2. CASE CheckLeader(m)
    <2>1. CASE UNCHANGED callVars
      BY <1>2, <2>1 DEF CheckLeader, RoleInv, RoleOf, TrackingOf, check, clear
    <2>2. CASE ~leaderCheckInProgress(m) /\ Await(m, "check1", IF role[m] = "leader" THEN "renew" ELSE "get")
      <3>1. CallBecomes(m, "check1", [at |-> IF role[m] = "leader" THEN "renew" ELSE "get",
                                      reply |-> "pending", age |-> 0])
        BY <1>0, <1>c, <2>2, AwaitCall
      <3>2. \A n \in Mains \ {m} : Same(n)
        BY <1>0, <1>2, <3>1, OthersSame DEF CheckLeader, SameTracking
      <3>3. RoleOf(m)'
        BY <1>0, <1>2, <1>c, <3>1, TrackingKept DEF CheckLeader, Ticking, CallBecomes, RoleOf, check, clear,
           Idle
      <3>. QED
        BY <3>2, <3>3, RoleStep
    <2>. QED
      BY <1>2, <2>1, <2>2 DEF CheckLeader
  <1>3. ASSUME NEW s \in Checks, RenewDone(m, s) \/ ReclaimDone(m, s) \/ GetDone(m, s) \/ ClaimDone(m, s)
        PROVE  RoleInv'
    <2>1. s = "check1" /\ phase[m] \notin {"new", "starting", "off"}
      BY <1>3, <1>c DEF RenewDone, ReclaimDone, GetDone, ClaimDone, Answered, RoleOf, Idle, Checks, check
    <2>2. \/ Return(m, "check1") /\ (TakeOver(m) \/ StepDown(m) \/ UNCHANGED <<role, trackVars>>)
          \/ Await(m, "check1", "reclaim") /\ role[m] = "leader" /\ UNCHANGED <<role, trackVars>>
          \/ Await(m, "check1", "claim") /\ role[m] # "leader" /\ UNCHANGED <<role, trackVars>>
      BY <1>3, <1>c, <2>1 DEF RenewDone, ReclaimDone, GetDone, ClaimDone, ReturnLeading, ReturnFollowing,
         ReturnUnchanged, Answered, RoleOf, check
    <2>3. UNCHANGED <<redisVars, phase, timer, budgetVars>>
      BY <1>3 DEF RenewDone, ReclaimDone, GetDone, ClaimDone
    <2>4. PICK c \in Calls : /\ CallBecomes(m, "check1", c)
                             /\ \/ c = Idle
                                \/ c.at = "reclaim" /\ role[m] = "leader" /\ UNCHANGED <<role, trackVars>>
                                \/ c.at = "claim" /\ role[m] # "leader" /\ UNCHANGED <<role, trackVars>>
      <3>1. CASE Return(m, "check1")
        <4>1. CallBecomes(m, "check1", Idle)
          BY <1>0, <1>c, <3>1, ReturnCall
        <4>2. Idle \in Calls
          BY TimeAssumption DEF Idle, Calls
        <4>. QED
          BY <4>1, <4>2
      <3>2. CASE Await(m, "check1", "reclaim") /\ role[m] = "leader" /\ UNCHANGED <<role, trackVars>>
        <4>1. CallBecomes(m, "check1", [at |-> "reclaim", reply |-> "pending", age |-> 0])
          BY <1>0, <1>c, <3>2, AwaitCall
        <4>2. [at |-> "reclaim", reply |-> "pending", age |-> 0] \in Calls
          BY <1>0, TimeAssumption DEF Calls
        <4>. QED
          BY <3>2, <4>1, <4>2
      <3>3. CASE Await(m, "check1", "claim") /\ role[m] # "leader" /\ UNCHANGED <<role, trackVars>>
        <4>1. CallBecomes(m, "check1", [at |-> "claim", reply |-> "pending", age |-> 0])
          BY <1>0, <1>c, <3>3, AwaitCall
        <4>2. [at |-> "claim", reply |-> "pending", age |-> 0] \in Calls
          BY <1>0, TimeAssumption DEF Calls
        <4>. QED
          BY <3>3, <4>1, <4>2
      <3>. QED
        BY <2>2, <3>1, <3>2, <3>3
    <2>5. \A n \in Mains \ {m} : Same(n)
      <3>1. \A n \in Mains \ {m} : role'[n] = role[n]
        BY <2>2 DEF TakeOver, StepDown
      <3>2. \A n \in Mains \ {m} : SameTracking(n)
        BY <2>2, EventTracking DEF SameTracking
      <3>. QED
        BY <1>0, <2>3, <2>4, <3>1, <3>2, OthersSame
    <2>6. TrackingOf(m)'
      BY <1>c, <2>1, <2>2, <2>3, EventHeard, TrackingKept DEF RoleOf
    <2>7. RoleOf(m)'
      BY <1>0, <1>c, <2>1, <2>3, <2>4, <2>6 DEF CallBecomes, RoleOf, check, clear, Idle
    <2>. QED
      BY <2>5, <2>7, RoleStep
  <1>. QED
    BY <1>1, <1>2, <1>3 DEF Handle

(* The end of a process leaves nothing of it. *)
LEMMA RoleEnded ==
  ASSUME TypeInv, RoleInv, NEW m \in Mains, Ended(m)
  PROVE  RoleInv'
  <1>1. \A n \in Mains \ {m} : Same(n)
    BY DEF Ended, Same, SameTracking, TypeInv, TypeOK
  <1>2. \A s \in Slots : calls'[m][s] = Idle
    BY DEF Ended, TypeInv, TypeOK
  <1>3. phase'[m] = "off" /\ role'[m] = "unset" /\ TrackingOf(m)'
    BY DEF Ended, TrackingOf, TypeInv, TypeOK
  <1>4. RoleOf(m)'
    BY <1>2, <1>3 DEF RoleOf, check, clear, Idle, Slots, Checks
  <1>. QED
    BY <1>1, <1>4, RoleStep

(* A change of a reply or of the ages of the calls leaves the roles alone. *)
LEMMA RoleReplies ==
  ASSUME RoleInv, UNCHANGED <<phase, role, trackVars>>,
         \A m \in Mains, s \in Slots : calls'[m][s].at = calls[m][s].at
                                      /\ (calls[m][s] = Idle => calls'[m][s] = Idle)
  PROVE  RoleInv'
  BY DEF RoleInv, RoleOf, TrackingOf, check, clear, Slots, Checks

LEMMA RoleNext == TypeInv /\ RoleInv /\ [Next]_vars => RoleInv'
  <1>. SUFFICES ASSUME TypeInv, RoleInv, [Next]_vars PROVE RoleInv'
    OBVIOUS
  <1>. USE DEF TypeInv, TypeOK
  <1>0. Slots = {"check1", "check2", "shutdown"} /\ CallsTyped /\ {"init", "clear"} \subseteq Labels
    BY DEF Slots, Checks, CallsTyped, Labels
  <1>1. CASE UNCHANGED vars
    BY <1>1 DEF vars, RoleInv, RoleOf, TrackingOf, check, clear
  <1>2. CASE Tick
    <2>1. \A m \in Mains, s \in Slots : calls'[m][s].at = calls[m][s].at
                                       /\ (calls[m][s] = Idle => calls'[m][s] = Idle)
      <3>1. \A m \in Mains, s \in Slots :
              calls'[m][s] = IF Busy(m, s) THEN [calls[m][s] EXCEPT !.age = @ + 1] ELSE Idle
        BY <1>2 DEF Tick
      <3>. TAKE m \in Mains, s \in Slots
      <3>2. CASE Busy(m, s)
        <4>1. calls'[m][s] = [calls[m][s] EXCEPT !.age = @ + 1] /\ calls[m][s] \in Calls
          BY <3>1, <3>2
        <4>2. calls'[m][s].at = calls[m][s].at
          BY <4>1 DEF Calls
        <4>. QED
          BY <3>2, <4>2 DEF Busy, Idle
      <3>3. CASE ~Busy(m, s)
        <4>1. calls'[m][s] = Idle
          BY <3>1, <3>3
        <4>. QED
          BY <3>3, <4>1 DEF Busy, Idle
      <3>. QED
        BY <3>2, <3>3
    <2>. QED
      BY <1>2, <2>1, RoleReplies DEF Tick
  <1>3. ASSUME NEW m \in Mains, NEW s \in Slots, Lose(m, s) PROVE RoleInv'
    <2>1. CallBecomes(m, s, [at |-> calls[m][s].at, reply |-> "lost", age |-> calls[m][s].age])
      BY <1>0, <1>3, ReplyCall DEF Lose, Replies
    <2>2. calls[m][s] # Idle
      BY <1>3 DEF Lose, Busy, Idle
    <2>. QED
      BY <1>3, <2>1, <2>2, RoleReplies DEF Lose, CallBecomes
  <1>4. ASSUME NEW l \in late, ArriveLate(l) PROVE RoleInv'
    BY <1>4 DEF ArriveLate, RoleInv, RoleOf, TrackingOf, check, clear
  <1>5. ASSUME NEW m \in Mains, Start(m) PROVE RoleInv'
    <2>1. CallBecomes(m, "check1", [at |-> "init", reply |-> "pending", age |-> 0])
      BY <1>0, <1>5, AwaitCall DEF Start
    <2>2. \A n \in Mains \ {m} : Same(n)
      BY <1>0, <1>5, <2>1, OthersSame DEF Start, SameTracking
    <2>3. RoleOf(m)'
      BY <1>0, <1>5, <2>1 DEF Start, CallBecomes, RoleInv, RoleOf, TrackingOf, check, clear
    <2>. QED
      BY <2>2, <2>3, RoleStep
  <1>6. ASSUME NEW m \in Mains, StopProcess(m) PROVE RoleInv'
    <2>1. \A n \in Mains \ {m} : Same(n)
      BY <1>6 DEF StopProcess, stopTracking, Same, SameTracking
    <2>2. RoleOf(m)'
      BY <1>6 DEF StopProcess, RoleInv, RoleOf, TrackingOf, check, clear
    <2>. QED
      BY <2>1, <2>2, RoleStep
  <1>7. ASSUME NEW m \in Mains, Crash(m) \/ Exit(m) PROVE RoleInv'
    BY <1>7, RoleEnded DEF Crash, Exit
  <1>8. ASSUME NEW m \in Mains, RunCommand(m) PROVE RoleInv'
    <2>1. PICK s \in Slots :
            /\ calls[m][s].reply = "pending"
            /\ calls' = [calls EXCEPT ![m][s].reply = Reply(m, Command(calls[m][s].at))]
            /\ UNCHANGED <<late, ahead, localVars, budgetVars>>
      BY <1>8 DEF RunCommand
    <2>2. Reply(m, Command(calls[m][s].at)) \in Replies
      BY ReplyType
    <2>3. CallBecomes(m, s, [at |-> calls[m][s].at, reply |-> Reply(m, Command(calls[m][s].at)),
                             age |-> calls[m][s].age])
      BY <1>0, <2>1, <2>2, ReplyCall
    <2>4. calls[m][s] # Idle
      BY <2>1 DEF Idle
    <2>. QED
      BY <2>1, <2>3, <2>4, RoleReplies DEF CallBecomes
  <1>9. ASSUME NEW m \in Mains, Shutdown(m) PROVE RoleInv'
    <2>1. CASE role[m] = "leader"
      <3>1. CallBecomes(m, "shutdown", [at |-> "clear", reply |-> "pending", age |-> 0])
        BY <1>0, <1>9, <2>1, AwaitCall DEF Shutdown
      <3>2. \A n \in Mains \ {m} : Same(n)
        BY <1>0, <1>9, <3>1, OthersSame DEF Shutdown, SameTracking
      <3>3. RoleOf(m)'
        BY <1>0, <1>9, <3>1 DEF Shutdown, CallBecomes, RoleInv, RoleOf, TrackingOf, check, clear
      <3>. QED
        BY <3>2, <3>3, RoleStep
    <2>2. CASE role[m] # "leader"
      <3>1. \A n \in Mains \ {m} : Same(n)
        BY <1>9, <2>2 DEF Shutdown, Same, SameTracking
      <3>2. RoleOf(m)'
        BY <1>9, <2>2 DEF Shutdown, RoleInv, RoleOf, TrackingOf, check, clear
      <3>. QED
        BY <3>1, <3>2, RoleStep
    <2>. QED
      BY <2>1, <2>2
  <1>10. ASSUME NEW m \in Mains, Close(m) PROVE RoleInv'
    <2>1. \A n \in Mains \ {m} : Same(n)
      BY <1>10 DEF Close, Same, SameTracking
    <2>2. /\ \A s \in Checks : calls'[m][s] = IF Busy(m, s) THEN [calls[m][s] EXCEPT !.reply = "error"]
                                               ELSE Idle
          /\ clear(m)' = Idle
          /\ phase'[m] = "closed" /\ phase[m] = "closing"
          /\ UNCHANGED <<role, trackVars>>
      BY <1>10 DEF Close, clear, Checks, Slots
    <2>3. check(m)'.at = check(m).at /\ calls'[m]["check2"] = Idle
      BY <1>0, <2>2 DEF RoleInv, RoleOf, check, Busy, Idle, Checks, Calls
    <2>4. RoleOf(m)'
      BY <2>2, <2>3 DEF RoleInv, RoleOf, TrackingOf, Idle
    <2>. QED
      BY <2>1, <2>4, RoleStep
  <1>11. ASSUME NEW m \in Mains, InitWaitTracker(m) PROVE RoleInv'
    <2>1. \A n \in Mains \ {m} : Same(n)
      BY <1>11 DEF InitWaitTracker, startTracking, Same, SameTracking
    <2>2. RoleOf(m)'
      BY <1>11 DEF InitWaitTracker, startTracking, RoleInv, RoleOf, TrackingOf, check, clear
    <2>. QED
      BY <2>1, <2>2, RoleStep
  <1>12. ASSUME NEW m \in Mains, registerEventHandlers(m) PROVE RoleInv'
    <2>1. \A n \in Mains \ {m} : Same(n)
      BY <1>12 DEF registerEventHandlers, Same, SameTracking
    <2>2. RoleOf(m)'
      BY <1>12 DEF registerEventHandlers, RoleInv, RoleOf, TrackingOf, check, clear
    <2>. QED
      BY <2>1, <2>2, RoleStep
  <1>. QED
    BY <1>1, <1>2, <1>3, <1>4, <1>5, <1>6, <1>7, <1>8, <1>9, <1>10, <1>11, <1>12, RoleHandle
       DEF Next, Environment, Progress

(* The asserts on the role hold wherever the code reaches them: no         *)
(* interleaving of checks, stops, losses and restarts changes the role of  *)
(* a main under a check that awaits Redis.                                 *)
THEOREM AssertsTheorem == Spec => []AssertsHold
  <1>1. RoleInv => AssertsHold
    BY DEF RoleInv, RoleOf, AssertsHold, check, Checks, Idle
  <1>. QED
    BY <1>1, TypeInit, TypeNext, RoleInit, RoleNext, PTL DEF Spec

(* A main that has booted tracks waiting executions if and only if it is   *)
(* marked as leader, whatever commands are lost or late and however its    *)
(* start goes, but for a role that changed between WaitTracker.init and    *)
(* registerEventHandlers, and an interval that was orphaned in consequence. *)
THEOREM ServicesTheorem == Spec => []ServicesFollowRole
  <1>1. RoleInv => ServicesFollowRole
    BY DEF RoleInv, RoleOf, TrackingOf, ServicesFollowRole
  <1>. QED
    BY <1>1, TypeInit, TypeNext, RoleInit, RoleNext, PTL DEF Spec

-----------------------------------------------------------------------------
(* The lease                                                               *)

Alive == {"starting", "booting", "tracked", "up", "stopping"}

(* Commands are answered in time, and fail when the connection has closed. *)
Prompt(m) ==
  \A s \in Slots : /\ calls[m][s].age <= Latency
                   /\ calls[m][s].reply # "lost"
                   /\ calls[m][s].reply = "error" => phase[m] = "closed"

(* A follower whose id is in the key has just taken it, and for long. *)
Claimed(m) ==
  /\ role[m] # "leader" /\ holder = m => check(m).at \in {"init", "claim"} /\ check(m).reply = "ok"
  /\ check(m).at \in {"init", "claim"} /\ check(m).reply = "ok" => holder = m /\ TTL <= ttl + check(m).age
  /\ check(m).at = "get" => check(m).reply # "self"

(* A leader holds the key, for long enough to renew it. *)
Held(m) ==
  /\ holder = m
  /\ \/ check(m).at = "idle" /\ TTL + timer[m] <= ttl + Latency + Interval
     \/ /\ check(m).at = "renew"
        /\ check(m).reply = "pending"
        /\ TTL <= ttl + Latency + Interval + check(m).age
     \/ /\ check(m).at = "renew"
        /\ check(m).reply = "success"
        /\ TTL <= ttl + check(m).age

(* A main that is about to delete the key holds it until then. *)
Kept(m) ==
  /\ holder = m
  /\ \/ 2 * Latency < ttl + clear(m).age
     \/ /\ check(m).at = "renew"
        /\ check(m).reply = "pending"
        /\ 2 * Latency < ttl + check(m).age

LeaseOf(m) ==
  /\ Prompt(m)
  /\ phase[m] = "new" => holder # m
  /\ phase[m] \in Alive => Claimed(m)
  /\ m \in Leaders => Held(m)
  /\ clear(m).reply = "pending" => Kept(m)

(* Only processes that are gone have late commands.  The one that deletes  *)
(* the key finds its own there.                                            *)
LateInv ==
  /\ \A l \in late :
       /\ phase[l[1]] \in {"closed", "off"}
       /\ l[2] # "expire"
       /\ l[3] <= Latency
       /\ l[2] = "del" => holder = l[1] /\ l[3] < ttl
  /\ \A k, l \in late : k[2] = "del" /\ l[2] = "del" => k = l

Timely == LateInv /\ \A m \in Mains : LeaseOf(m)

LeaseInv == Undisturbed => Timely

LEMMA Times ==
  /\ TTL \in Nat /\ Interval \in Nat /\ Latency \in Nat /\ CommandTimeout \in Nat
  /\ TTL > 0 /\ Interval > 0 /\ Latency > 0
  /\ Interval + 3 * Latency < TTL
  BY TimeAssumption, LeaseAssumption

LEMMA LeaseInit == Init => LeaseInv
  <1>. SUFFICES ASSUME Init, NEW m \in Mains PROVE LeaseOf(m)
    BY DEF LeaseInv, Timely, LateInv, Init
  <1>1. \A s \in Slots : calls[m][s] = Idle
    BY DEF Init
  <1>2. phase[m] = "new" /\ role[m] = "unset" /\ holder # m
    BY NoMainAssumption DEF Init
  <1>. QED
    BY <1>1, <1>2, Times DEF LeaseOf, Prompt, Alive, Leaders, check, clear, Idle, Slots, Checks

(* What a command does to the key, but for EXPIRE *)
LEMMA EffectCases ==
  ASSUME NEW m, NEW command \in Commands \ {"expire"}, Effect(m, command)
  PROVE  \/ UNCHANGED <<holder, ttl>> /\ command # "del"
         \/ command = "setnx" /\ holder = NoMain /\ holder' = m /\ ttl' = TTL
         \/ command = "renew" /\ holder = m /\ holder' = m /\ ttl' = TTL
         \/ command = "del" /\ holder' = NoMain /\ ttl' = 0
  <1>1. CASE command = "setnx"
    BY <1>1 DEF Effect, SetKey
  <1>2. CASE command = "renew"
    BY <1>2 DEF Effect
  <1>3. CASE command = "del"
    BY <1>3 DEF Effect
  <1>4. CASE command = "get"
    BY <1>4 DEF Effect
  <1>. QED
    BY <1>1, <1>2, <1>3, <1>4 DEF Commands

(* A main that does not move keeps its share of the invariant when its own *)
(* key is extended, or when the key is neither before nor after its own.   *)
LEMMA LeaseOther ==
  ASSUME TypeInv, TypeInv', NEW n \in Mains, LeaseOf(n), Same(n), timer'[n] = timer[n],
         (holder' = holder /\ ttl <= ttl') \/ (holder # n /\ holder' # n)
  PROVE  LeaseOf(n)'
  <1>1. \A s \in Slots : calls'[n][s] = calls[n][s]
    BY DEF Same
  <1>2. check(n)' = check(n) /\ clear(n)' = clear(n)
    BY <1>1 DEF check, clear, Slots, Checks
  <1>3. Prompt(n)'
    BY <1>1 DEF LeaseOf, Prompt, Same
  <1>4. phase'[n] \in Alive => Claimed(n)'
    BY <1>2, Times DEF LeaseOf, Same, Claimed, TypeInv, TypeOK, check, Calls, Slots, Checks
  <1>5. n \in Leaders' => Held(n)'
    BY <1>2, Times DEF LeaseOf, Same, Held, Leaders, Ticking, TypeInv, TypeOK, check, Calls, Slots, Checks
  <1>6. clear(n)'.reply = "pending" => Kept(n)'
    BY <1>2, Times DEF LeaseOf, Same, Kept, TypeInv, TypeOK, check, clear, Calls, Slots, Checks
  <1>. QED
    BY <1>3, <1>4, <1>5, <1>6 DEF LeaseOf, Same

(* A call that sends a command or returns is prompt. *)
LEMMA PromptCall ==
  ASSUME NEW m \in Mains, Prompt(m), NEW s \in Slots, NEW c, CallBecomes(m, s, c),
         c.age <= Latency, c.reply \notin {"lost", "error"},
         phase'[m] = phase[m] \/ phase[m] # "closed"
  PROVE  Prompt(m)'
  <1>1. \A t \in Slots : t # s => calls'[m][t] = calls[m][t]
    BY DEF CallBecomes
  <1>2. calls'[m][s] = c
    BY DEF CallBecomes
  <1>. QED
    BY <1>1, <1>2 DEF Prompt

(* A process that is gone is bound to nothing. *)
LEMMA LeaseGone ==
  ASSUME NEW n \in Mains, LeaseOf(n), Same(n), RoleOf(n)', phase'[n] \in {"closed", "off"}
  PROVE  LeaseOf(n)'
  <1>1. Prompt(n)'
    BY DEF LeaseOf, Prompt, Same
  <1>2. clear(n)' = Idle
    BY DEF RoleOf
  <1>. QED
    BY <1>1, <1>2 DEF LeaseOf, Alive, Leaders, Ticking, Idle

(* Late commands find the key as they did when it is extended. *)
LEMMA LateKept ==
  ASSUME TypeInv, TypeInv', LateInv, late' \subseteq late,
         \A l \in late' : phase'[l[1]] = phase[l[1]],
         \/ holder' = holder /\ ttl <= ttl'
         \/ \A l \in late' : l[2] # "del"
  PROVE  LateInv'
  BY Times DEF LateInv, TypeInv, TypeOK

(* The clock *)
LEMMA LeaseTick ==
  ASSUME TypeInv, TypeInv', RoleInv, Timely, Tick
  PROVE  Timely'
  <1>. USE DEF TypeInv, TypeOK
  <1>0. Slots = {"check1", "check2", "shutdown"}
    BY DEF Slots, Checks
  <1>1. /\ 2 <= ttl => holder' = holder /\ ttl' = ttl - 1
        /\ holder' \in {holder, NoMain}
        /\ UNCHANGED <<phase, role, trackVars, ahead, budgetVars>>
    BY Times DEF Tick
  <1>2. \A m \in Mains, s \in Slots :
          /\ calls'[m][s].at = calls[m][s].at
          /\ calls'[m][s].reply = calls[m][s].reply
          /\ \/ Busy(m, s) /\ calls'[m][s].age = calls[m][s].age + 1
             \/ ~Busy(m, s) /\ calls'[m][s].age = 0 /\ calls[m][s].age = 0
    <2>. SUFFICES ASSUME NEW m \in Mains, NEW s \in Slots
                  PROVE  /\ calls'[m][s].at = calls[m][s].at
                         /\ calls'[m][s].reply = calls[m][s].reply
                         /\ \/ Busy(m, s) /\ calls'[m][s].age = calls[m][s].age + 1
                            \/ ~Busy(m, s) /\ calls'[m][s].age = 0 /\ calls[m][s].age = 0
      OBVIOUS
    <2>1. calls'[m][s] = IF Busy(m, s) THEN [calls[m][s] EXCEPT !.age = @ + 1] ELSE Idle
      BY DEF Tick
    <2>2. CASE Busy(m, s)
      <3>1. calls'[m][s] = [calls[m][s] EXCEPT !.age = @ + 1] /\ calls[m][s] \in Calls
        BY <2>1, <2>2
      <3>. QED
        BY <2>2, <3>1 DEF Calls
    <2>3. CASE ~Busy(m, s)
      <3>1. calls'[m][s] = Idle /\ calls[m][s] = Idle
        BY <2>1, <2>3 DEF IdleCalls
      <3>. QED
        BY <2>3, <3>1 DEF Idle
    <2>. QED
      BY <2>2, <2>3
  <1>3. \A m \in Mains, s \in Slots : Busy(m, s) => calls[m][s].age < Latency
    BY DEF Tick, Limit, Timely, LeaseOf, Prompt
  <1>4. LateInv'
    <2>1. \A l \in late' : \E k \in late : l = <<k[1], k[2], k[3] - 1>> /\ k[3] > 0
      BY DEF Tick
    <2>2. \A l \in late' : l[2] = "del" => \E k \in late : l = <<k[1], k[2], k[3] - 1>> /\ k[2] = "del"
      BY <2>1
    <2>3. \A k, l \in late' : k[2] = "del" /\ l[2] = "del" => k = l
      BY <2>2, ZenonT(40) DEF Timely, LateInv
    <2>4. ASSUME NEW l \in late'
          PROVE  /\ phase'[l[1]] \in {"closed", "off"}
                 /\ l[2] # "expire"
                 /\ l[3] <= Latency
                 /\ l[2] = "del" => holder' = l[1] /\ l[3] < ttl'
      <3>1. PICK k \in late : l = <<k[1], k[2], k[3] - 1>> /\ k[3] > 0
        BY <2>1
      <3>2. k[3] \in Nat /\ ttl \in Nat
        BY Times
      <3>3. l[1] = k[1] /\ l[2] = k[2] /\ l[3] = k[3] - 1
        BY <3>1
      <3>. QED
        BY <1>1, <3>1, <3>2, <3>3, Times DEF Timely, LateInv
    <2>. QED
      BY <2>3, <2>4 DEF LateInv
  <1>5. ASSUME NEW m \in Mains PROVE LeaseOf(m)'
    <2>1. LeaseOf(m) /\ RoleOf(m) /\ m # NoMain
      BY NoMainAssumption DEF Timely, RoleInv
    <2>2. /\ check(m)'.at = check(m).at /\ check(m)'.reply = check(m).reply
          /\ clear(m)'.at = clear(m).at /\ clear(m)'.reply = clear(m).reply
          /\ check(m).at # "idle" => check(m)'.age = check(m).age + 1 /\ check(m).age < Latency
          /\ clear(m).at # "idle" => clear(m)'.age = clear(m).age + 1 /\ clear(m).age < Latency
          /\ check(m).age \in Nat /\ clear(m).age \in Nat /\ check(m)'.age \in Nat /\ clear(m)'.age \in Nat
      BY <1>0, <1>2, <1>3, Times DEF check, clear, Busy, Calls
    <2>3. Prompt(m)'
      <3>1. ASSUME NEW s \in Slots PROVE calls'[m][s].age <= Latency
        <4>1. calls[m][s].age \in Nat
          BY Times DEF Calls
        <4>2. calls[m][s].age <= Latency
          BY <2>1 DEF LeaseOf, Prompt
        <4>3. Busy(m, s) => calls'[m][s].age = calls[m][s].age + 1 /\ calls[m][s].age < Latency
          BY <1>2, <1>3
        <4>4. ~Busy(m, s) => calls'[m][s].age = 0
          BY <1>2
        <4>. QED
          BY <4>1, <4>2, <4>3, <4>4, Times
      <3>. QED
        BY <1>1, <1>2, <2>1, <3>1 DEF LeaseOf, Prompt
    <2>4. phase'[m] \in Alive => Claimed(m)'
      BY <1>1, <2>1, <2>2, Times DEF LeaseOf, Claimed
    <2>5. m \in Leaders' => Held(m)'
      <3>1. SUFFICES ASSUME m \in Leaders' PROVE Held(m)'
        OBVIOUS
      <3>2. Held(m) /\ timer[m] > 0 /\ timer'[m] = timer[m] - 1 /\ timer[m] \in Nat
        BY <1>1, <2>1, <3>1, Times DEF Leaders, Ticking, LeaseOf, Tick
      <3>3. 2 <= ttl
        BY <2>2, <3>2, Times DEF Held
      <3>. QED
        BY <1>1, <2>2, <3>2, <3>3, Times DEF Held
    <2>6. clear(m)'.reply = "pending" => Kept(m)'
      <3>1. SUFFICES ASSUME clear(m).reply = "pending" PROVE Kept(m)'
        BY <2>2
      <3>2. Kept(m) /\ clear(m).at # "idle"
        BY <1>0, <2>1, <3>1 DEF LeaseOf, IdleCalls, Busy, clear, Idle
      <3>3. 2 <= ttl
        BY <2>2, <3>2, Times DEF Kept
      <3>. QED
        BY <1>1, <2>2, <3>2, <3>3, Times DEF Kept
    <2>. QED
      BY <1>1, <2>1, <2>3, <2>4, <2>5, <2>6 DEF LeaseOf
  <1>. QED
    BY <1>4, <1>5 DEF Timely

(* Redis runs a command. *)
LEMMA LeaseRun ==
  ASSUME TypeInv, TypeInv', RoleInv, Timely, NEW m \in Mains, RunCommand(m)
  PROVE  Timely'
  <1>. USE DEF TypeInv, TypeOK
  <1>0. Slots = {"check1", "check2", "shutdown"}
    BY DEF Slots, Checks
  <1>1. PICK s \in Slots :
          /\ calls[m][s].reply = "pending"
          /\ Effect(m, Command(calls[m][s].at))
          /\ calls' = [calls EXCEPT ![m][s].reply = Reply(m, Command(calls[m][s].at))]
          /\ UNCHANGED <<late, ahead, localVars, budgetVars>>
    BY DEF RunCommand
  <1>2. Reply(m, Command(calls[m][s].at)) \in Replies \ {"none", "pending", "lost", "error"}
    BY ReplyType
  <1>3. CallBecomes(m, s, [at |-> calls[m][s].at, reply |-> Reply(m, Command(calls[m][s].at)),
                           age |-> calls[m][s].age])
    BY <1>1, <1>2, ReplyCall DEF CallsTyped
  <1>4. \A n \in Mains \ {m} : Same(n) /\ timer'[n] = timer[n] /\ LeaseOf(n)
    BY <1>1, <1>3, OthersSame DEF Timely, SameTracking
  <1>5. RoleOf(m) /\ LeaseOf(m) /\ m # NoMain
    BY NoMainAssumption DEF RoleInv, Timely
  <1>6. Prompt(m)'
    <2>1. \A t \in Slots : /\ calls'[m][t].age = calls[m][t].age
                           /\ calls'[m][t].reply \in {calls[m][t].reply, Reply(m, Command(calls[m][s].at))}
      <3>. TAKE t \in Slots
      <3>1. CASE t = s
        BY <1>3, <3>1 DEF CallBecomes
      <3>2. CASE t # s
        BY <1>3, <3>2 DEF CallBecomes
      <3>. QED
        BY <3>1, <3>2
    <2>. QED
      BY <1>1, <1>2, <1>5, <2>1 DEF LeaseOf, Prompt
  <1>7. /\ check(m).age \in Nat /\ clear(m).age \in Nat /\ check(m).age <= Latency /\ clear(m).age <= Latency
        /\ ttl \in Nat /\ ttl <= TTL
    BY <1>0, <1>5, Times DEF check, clear, Calls, LeaseOf, Prompt
  <1>8. \A l \in late : l[1] \in Mains /\ l[1] # NoMain
    BY NoMainAssumption
  (* shutdown deletes the key. *)
  <1>9. CASE s = "shutdown"
    <2>1. clear(m).reply = "pending" /\ clear(m).at = "clear" /\ phase[m] = "closing"
      <3>1. clear(m).reply = "pending" /\ clear(m) # Idle
        BY <1>1, <1>9 DEF clear, Idle
      <3>2. clear(m).at # "idle"
        BY <1>0, <3>1 DEF IdleCalls, Busy, clear
      <3>. QED
        BY <1>5, <3>1, <3>2 DEF RoleOf
    <2>2. holder = m /\ holder' = NoMain
      BY <1>1, <1>5, <1>9, <2>1 DEF LeaseOf, Kept, Effect, Command, clear
    <2>3. \A l \in late : l[2] # "del"
      BY <2>1, <2>2 DEF Timely, LateInv
    <2>4. LateInv'
      BY <1>1, <2>3, LateKept DEF Timely
    <2>5. \A n \in Mains \ {m} : LeaseOf(n)'
      BY <1>4, <2>2, NoMainAssumption, LeaseOther
    <2>6. clear(m)'.reply # "pending" /\ phase'[m] = "closing"
      BY <1>1, <1>2, <1>3, <1>9, <2>1 DEF CallBecomes, clear
    <2>7. LeaseOf(m)'
      BY <1>6, <2>6 DEF LeaseOf, Alive, Leaders, Ticking
    <2>. QED
      BY <2>4, <2>5, <2>7 DEF Timely
  (* A check *)
  <1>10. CASE s = "check1"
    <2>1. /\ check(m).reply = "pending"
          /\ check(m).at \in {"init", "renew", "reclaim", "get", "claim"}
      BY <1>1, <1>5, <1>10 DEF RoleOf, check, IdleCalls, Busy, Idle
    <2>2. /\ clear(m)' = clear(m)
          /\ check(m)'.at = check(m).at
          /\ check(m)'.age = check(m).age
          /\ check(m)'.reply = Reply(m, Command(check(m).at))
      BY <1>0, <1>3, <1>10 DEF CallBecomes, check, clear
    <2>3. phase[m] \notin {"new", "off"} /\ UNCHANGED <<phase, role, timer, late>>
      BY <1>1, <1>5, <2>1 DEF RoleOf, Idle
    <2>4. /\ check(m).at \in {"init", "claim", "reclaim"} => Command(check(m).at) = "setnx"
          /\ check(m).at = "renew" => Command(check(m).at) = "renew"
          /\ check(m).at = "get" => Command(check(m).at) = "get"
      BY DEF Command
    <2>5. Effect(m, Command(check(m).at))
      BY <1>1, <1>10 DEF check
    <2>6. \/ UNCHANGED <<holder, ttl>>
          \/ holder = NoMain /\ holder' = m /\ ttl' = TTL
          \/ holder = m /\ holder' = m /\ ttl' = TTL
      BY <2>1, <2>4, <2>5, EffectCases DEF Commands
    <2>7. LateInv'
      <3>1. CASE holder = NoMain
        <4>1. \A l \in late : l[2] # "del"
          BY <1>8, <3>1 DEF Timely, LateInv
        <4>. QED
          BY <2>3, <4>1, LateKept DEF Timely
      <3>2. CASE holder' = holder /\ ttl <= ttl'
        BY <2>3, <3>2, LateKept DEF Timely
      <3>. QED
        BY <1>7, <2>6, <3>1, <3>2
    <2>8. \A n \in Mains \ {m} : LeaseOf(n)'
      <3>. SUFFICES ASSUME NEW n \in Mains \ {m} PROVE LeaseOf(n)'
        OBVIOUS
      <3>1. (holder' = holder /\ ttl <= ttl') \/ (holder # n /\ holder' # n)
        BY <1>7, <2>6, NoMainAssumption
      <3>. QED
        BY <1>4, <3>1, LeaseOther
    <2>9. phase'[m] \in Alive => Claimed(m)'
      <3>. SUFFICES ASSUME phase[m] \in Alive PROVE Claimed(m)'
        BY <2>3
      <3>0. Claimed(m)
        BY <1>5 DEF LeaseOf
      <3>1. CASE check(m).at \in {"init", "claim"}
        <4>1. role[m] # "leader" /\ Effect(m, "setnx") /\ check(m)'.reply = Reply(m, "setnx")
          BY <1>5, <2>2, <2>4, <2>5, <3>1 DEF RoleOf
        <4>. QED
          BY <1>5, <1>7, <2>1, <2>2, <2>3, <3>0, <3>1, <4>1, Times DEF Claimed, Effect, SetKey, Reply
      <3>2. CASE check(m).at \in {"renew", "reclaim"}
        BY <1>5, <2>2, <2>3, <3>2 DEF RoleOf, Claimed
      <3>3. CASE check(m).at = "get"
        <4>1. role[m] # "leader" /\ Effect(m, "get") /\ check(m)'.reply = Reply(m, "get")
          BY <1>5, <2>2, <2>4, <2>5, <3>3 DEF RoleOf
        <4>. QED
          BY <1>5, <2>2, <2>3, <3>0, <3>3, <4>1 DEF Claimed, Effect, Reply
      <3>. QED
        BY <2>1, <3>1, <3>2, <3>3
    <2>10. m \in Leaders' => Held(m)'
      <3>. SUFFICES ASSUME m \in Leaders PROVE Held(m)'
        BY <2>3 DEF Leaders, Ticking
      <3>1. Held(m) /\ check(m).at = "renew"
        BY <1>5, <2>1 DEF LeaseOf, Held
      <3>2. holder = m /\ Effect(m, "renew") /\ check(m)'.reply = Reply(m, "renew")
        BY <2>2, <2>4, <2>5, <3>1 DEF Held
      <3>. QED
        BY <1>7, <2>2, <3>1, <3>2, Times DEF Held, Effect, Reply
    <2>11. clear(m)'.reply = "pending" => Kept(m)'
      <3>. SUFFICES ASSUME clear(m).reply = "pending" PROVE Kept(m)'
        BY <2>2
      <3>1. Kept(m)
        BY <1>5 DEF LeaseOf
      <3>2. CASE check(m).at = "renew"
        <4>1. holder = m /\ Effect(m, "renew")
          BY <2>4, <2>5, <3>1, <3>2 DEF Kept
        <4>. QED
          BY <1>7, <2>2, <4>1, Times DEF Kept, Effect
      <3>3. CASE check(m).at # "renew"
        BY <1>5, <1>7, <2>2, <2>6, <3>1, <3>3, Times DEF Kept
      <3>. QED
        BY <3>2, <3>3
    <2>. QED
      BY <1>6, <2>3, <2>7, <2>8, <2>9, <2>10, <2>11 DEF LeaseOf, Timely
  <1>. QED
    BY <1>0, <1>1, <1>5, <1>9, <1>10 DEF RoleOf, Idle

(* The handlers leave the key alone. *)
LEMMA LeaseHandle ==
  ASSUME TypeInv, TypeInv', RoleInv, RoleInv', Timely, NEW m \in Mains, Handle(m)
  PROVE  Timely'
  <1>. USE DEF TypeInv, TypeOK
  <1>0. Slots = {"check1", "check2", "shutdown"} /\ CallsTyped
        /\ {"init", "renew", "reclaim", "get", "claim"} \subseteq Labels
    BY DEF Slots, Checks, CallsTyped, Labels
  <1>1. RoleOf(m) /\ LeaseOf(m) /\ m # NoMain
    BY NoMainAssumption DEF RoleInv, Timely
  <1>2. /\ check(m).age \in Nat /\ clear(m).age \in Nat /\ check(m).age <= Latency /\ clear(m).age <= Latency
        /\ ttl \in Nat /\ ttl <= TTL /\ timer[m] \in Nat /\ timer[m] <= Interval
    BY <1>0, <1>1, Times DEF check, clear, Calls, LeaseOf, Prompt
  <1>3. UNCHANGED redisVars
    BY DEF Handle, InitDone, CheckLeader, RenewDone, ReclaimDone, GetDone, ClaimDone
  (* It suffices to look at m. *)
  <1>4. ASSUME LeaseOf(m)', \A n \in Mains \ {m} : Same(n) /\ timer'[n] = timer[n],
               phase[m] \notin {"closed", "off"} \/ phase' = phase
        PROVE  Timely'
    <2>1. \A n \in Mains \ {m} : LeaseOf(n)'
      BY <1>2, <1>3, <1>4, LeaseOther DEF Timely
    <2>2. \A l \in late' : phase'[l[1]] = phase[l[1]]
      BY <1>3, <1>4 DEF Timely, LateInv, Same
    <2>3. LateInv'
      BY <1>2, <1>3, <2>2, LateKept DEF Timely
    <2>. QED
      BY <1>4, <2>1, <2>3 DEF Timely
  (* What remains of the other calls of m *)
  <1>5. ASSUME NEW c, CallBecomes(m, "check1", c), c = Idle \/ (c.reply = "pending" /\ c.age = 0),
               phase'[m] = phase[m] \/ phase[m] # "closed"
        PROVE  Prompt(m)' /\ clear(m)' = clear(m) /\ check(m)' = c
    <2>1. clear(m)' = clear(m) /\ check(m)' = c /\ calls'[m]["check2"] = calls[m]["check2"]
      BY <1>0, <1>5 DEF CallBecomes, clear, check
    <2>2. c.age <= Latency /\ c.reply # "lost" /\ c.reply # "error"
      BY <1>5, Times DEF Idle
    <2>3. \A s \in Slots : calls'[m][s] = IF s = "check1" THEN c ELSE calls[m][s]
      BY <1>0, <2>1 DEF clear, check
    <2>. QED
      BY <1>1, <1>5, <2>1, <2>2, <2>3 DEF LeaseOf, Prompt
  <1>6. CASE InitDone(m)
    <2>1. CallBecomes(m, "check1", Idle)
      BY <1>0, <1>6, ReturnCall DEF InitDone
    <2>2. \A n \in Mains \ {m} : Same(n) /\ timer'[n] = timer[n]
      <3>1. \A n \in Mains \ {m} : SameTracking(n)
        BY <1>6, EventTracking DEF InitDone, SameTracking
      <3>. QED
        BY <1>0, <1>6, <2>1, <3>1, OthersSame DEF InitDone, Started, TakeOver
    <2>3. /\ phase[m] = "starting" /\ phase'[m] = "booting" /\ role[m] = "unset" /\ timer'[m] = Interval
          /\ check(m).at = "init" /\ check(m).reply \notin {"pending", "lost", "error"}
          /\ Result(m, "check1") = check(m).reply
          /\ clear(m) = Idle
      BY <1>0, <1>1, <1>6 DEF InitDone, Answered, Started, Result, RoleOf, LeaseOf, Prompt, check
    <2>4. \/ check(m).reply = "ok" /\ role'[m] = "leader"
          \/ check(m).reply # "ok" /\ role'[m] = "follower"
      BY <1>6, <2>3 DEF InitDone, TakeOver
    <2>5. Prompt(m)' /\ clear(m)' = Idle /\ check(m)' = Idle
      BY <1>5, <2>1, <2>3
    <2>6. Claimed(m)
      BY <1>1, <2>3 DEF LeaseOf, Alive
    <2>7. Claimed(m)' /\ (m \in Leaders' => Held(m)')
      BY <1>2, <1>3, <2>3, <2>4, <2>5, <2>6, Times DEF Claimed, Held, Leaders, Idle
    <2>8. LeaseOf(m)'
      BY <2>3, <2>5, <2>7 DEF LeaseOf, Idle
    <2>. QED
      BY <1>4, <2>2, <2>3, <2>8
  <1>7. CASE CheckLeader(m)
    <2>1. /\ phase[m] \in Alive \ {"starting"} /\ timer[m] = 0 /\ timer'[m] = Interval
          /\ UNCHANGED <<phase, role, trackVars>>
          /\ \A n \in Mains \ {m} : timer'[n] = timer[n]
      BY <1>7 DEF CheckLeader, Ticking, Alive
    <2>2. Claimed(m) /\ (m \in Leaders => Held(m)) /\ clear(m) = Idle
      BY <1>1, <2>1 DEF LeaseOf, Alive, RoleOf
    <2>3. CASE leaderCheckInProgress(m) /\ UNCHANGED callVars
      <3>1. check(m).at # "idle"
        BY <1>1, <2>3 DEF leaderCheckInProgress, Busy, Checks, RoleOf, check, Idle
      <3>2. check(m)' = check(m) /\ clear(m)' = clear(m) /\ Prompt(m)'
        BY <1>1, <2>1, <2>3 DEF check, clear, LeaseOf, Prompt
      <3>3. Claimed(m)' /\ (m \in Leaders' => Held(m)')
        BY <1>3, <2>1, <2>2, <3>1, <3>2 DEF Claimed, Held, Leaders, Ticking
      <3>4. LeaseOf(m)'
        BY <2>1, <2>2, <3>2, <3>3 DEF LeaseOf, Alive, Idle
      <3>5. \A n \in Mains \ {m} : Same(n)
        BY <2>1, <2>3 DEF Same, SameTracking
      <3>. QED
        BY <1>4, <2>1, <3>4, <3>5
    <2>4. CASE ~leaderCheckInProgress(m) /\ Await(m, "check1", IF role[m] = "leader" THEN "renew" ELSE "get")
      <3>. DEFINE c == [at |-> IF role[m] = "leader" THEN "renew" ELSE "get", reply |-> "pending", age |-> 0]
      <3>1. CallBecomes(m, "check1", c)
        BY <1>0, <2>4, AwaitCall
      <3>2. \A n \in Mains \ {m} : Same(n)
        BY <1>0, <2>1, <3>1, OthersSame DEF SameTracking
      <3>3. Prompt(m)' /\ clear(m)' = Idle /\ check(m)' = c
        <4>1. c.reply = "pending" /\ c.age = 0
          OBVIOUS
        <4>. HIDE DEF c
        <4>. QED
          BY <1>5, <2>1, <2>2, <3>1, <4>1
      <3>4. check(m).at = "idle"
        BY <2>4 DEF leaderCheckInProgress, Busy, Checks, check
      <3>5. Claimed(m)' /\ (m \in Leaders' => Held(m)')
        BY <1>2, <1>3, <2>1, <2>2, <3>3, <3>4, Times DEF Claimed, Held, Leaders, Ticking
      <3>6. LeaseOf(m)'
        BY <2>1, <2>2, <3>3, <3>5 DEF LeaseOf, Alive, Idle
      <3>. QED
        BY <1>4, <2>1, <3>2, <3>6
    <2>. QED
      BY <1>7, <2>3, <2>4 DEF CheckLeader
  <1>8. ASSUME NEW s \in Checks, RenewDone(m, s) \/ ReclaimDone(m, s) \/ GetDone(m, s) \/ ClaimDone(m, s)
        PROVE  Timely'
    <2>1. s = "check1"
      BY <1>1, <1>8 DEF RenewDone, ReclaimDone, GetDone, ClaimDone, Answered, RoleOf, Idle, Checks
    <2>2. /\ check(m).at \in {"renew", "reclaim", "get", "claim"}
          /\ check(m).reply \notin {"pending", "lost"}
          /\ Result(m, "check1") = check(m).reply
          /\ UNCHANGED <<phase, timer>>
      BY <1>0, <1>1, <1>8, <2>1 DEF RenewDone, ReclaimDone, GetDone, ClaimDone, Answered, Result, LeaseOf,
         Prompt, check
    <2>3. phase[m] \notin {"new", "starting", "off"}
      BY <1>1, <2>2 DEF RoleOf, Idle
    <2>4. phase[m] \in Alive => check(m).reply # "error"
      BY <1>0, <1>1 DEF LeaseOf, Prompt, Alive, check
    <2>5. \/ Return(m, "check1")
          \/ Await(m, "check1", "reclaim") /\ check(m).at = "renew"
          \/ Await(m, "check1", "claim") /\ check(m).at = "get"
      BY <1>8, <2>1 DEF RenewDone, ReclaimDone, GetDone, ClaimDone, ReturnLeading, ReturnFollowing,
         ReturnUnchanged, Answered, check
    <2>6. PICK c \in Calls :
            /\ CallBecomes(m, "check1", c)
            /\ \/ c = Idle
               \/ c.reply = "pending" /\ c.age = 0 /\ c.at = "reclaim" /\ check(m).at = "renew"
               \/ c.reply = "pending" /\ c.age = 0 /\ c.at = "claim" /\ check(m).at = "get"
      <3>1. CASE Return(m, "check1")
        <4>1. Idle \in Calls /\ CallBecomes(m, "check1", Idle)
          BY <1>0, <3>1, ReturnCall, TimeAssumption DEF Idle, Calls
        <4>. QED
          BY <4>1
      <3>2. CASE Await(m, "check1", "reclaim") /\ check(m).at = "renew"
        <4>1. CallBecomes(m, "check1", [at |-> "reclaim", reply |-> "pending", age |-> 0])
          BY <1>0, <3>2, AwaitCall
        <4>2. [at |-> "reclaim", reply |-> "pending", age |-> 0] \in Calls
          BY <1>0, TimeAssumption DEF Calls
        <4>. QED
          BY <3>2, <4>1, <4>2
      <3>3. CASE Await(m, "check1", "claim") /\ check(m).at = "get"
        <4>1. CallBecomes(m, "check1", [at |-> "claim", reply |-> "pending", age |-> 0])
          BY <1>0, <3>3, AwaitCall
        <4>2. [at |-> "claim", reply |-> "pending", age |-> 0] \in Calls
          BY <1>0, TimeAssumption DEF Calls
        <4>. QED
          BY <3>3, <4>1, <4>2
      <3>. QED
        BY <2>5, <3>1, <3>2, <3>3
    <2>r. Return(m, "check1") => c = Idle
      BY <1>0, <2>6, ReturnCall DEF CallBecomes
    <2>7. \A n \in Mains \ {m} : Same(n) /\ timer'[n] = timer[n]
      <3>1. TakeOver(m) \/ StepDown(m) \/ UNCHANGED <<role, trackVars>>
        BY <1>8 DEF RenewDone, ReclaimDone, GetDone, ClaimDone, ReturnLeading, ReturnFollowing,
           ReturnUnchanged
      <3>2. \A n \in Mains \ {m} : role'[n] = role[n]
        BY <3>1 DEF TakeOver, StepDown
      <3>3. \A n \in Mains \ {m} : SameTracking(n)
        BY <3>1, EventTracking DEF SameTracking
      <3>. QED
        BY <1>0, <2>2, <2>6, <3>2, <3>3, OthersSame
    <2>8. Prompt(m)' /\ clear(m)' = clear(m) /\ check(m)' = c
      BY <1>5, <2>2, <2>6
    <2>9. clear(m)'.reply = "pending" => Kept(m)'
      BY <1>1, <1>3, <2>2, <2>8 DEF LeaseOf, Kept
    (* The role and the call of a main that is up *)
    <2>10. ASSUME phase[m] \in Alive PROVE Claimed(m)' /\ (m \in Leaders' => Held(m)')
      <3>0. phase[m] \in Alive \ {"starting"} /\ Claimed(m) /\ (role[m] = "leader" => Held(m))
        BY <1>1, <2>3, <2>10 DEF Alive, LeaseOf, Leaders, Ticking
      <3>1. CASE check(m).at \in {"renew", "reclaim"}
        <4>1. role[m] = "leader" /\ Held(m)
          BY <1>1, <3>0, <3>1 DEF RoleOf
        <4>2. check(m).at = "renew" /\ check(m).reply = "success" /\ TTL <= ttl + check(m).age /\ holder = m
          BY <2>2, <3>1, <4>1 DEF Held
        <4>3. c = Idle /\ role'[m] = "leader"
          BY <1>8, <2>1, <2>2, <2>r, <4>1, <4>2 DEF RenewDone, ReclaimDone, GetDone, ClaimDone, Answered,
             ReturnUnchanged, ReturnFollowing, check
        <4>. QED
          BY <1>2, <1>3, <2>2, <2>8, <4>2, <4>3, Times DEF Claimed, Held, Idle
      <3>2. CASE check(m).at = "get"
        <4>1. role[m] # "leader" /\ check(m).reply # "self" /\ holder # m
          BY <1>1, <3>0, <3>2 DEF RoleOf, Claimed
        <4>2. role'[m] # "leader"
          BY <1>8, <2>1, <2>2, <3>2, <4>1 DEF RenewDone, ReclaimDone, GetDone, ClaimDone, Answered,
             ReturnUnchanged, check
        <4>. QED
          BY <1>3, <2>6, <2>8, <4>1, <4>2, <3>2 DEF Claimed, Leaders, Idle
      <3>3. CASE check(m).at = "claim"
        <4>1. role[m] # "leader"
          BY <1>1, <3>3 DEF RoleOf
        <4>2. \/ check(m).reply = "ok" /\ role'[m] = "leader"
              \/ check(m).reply # "ok" /\ role'[m] # "leader"
          BY <1>8, <2>1, <2>2, <3>3, <4>1 DEF RenewDone, ReclaimDone, GetDone, ClaimDone, Answered,
             ReturnUnchanged, ReturnLeading, TakeOver, check
        <4>3. c = Idle
          BY <2>6, <3>3
        <4>. QED
          BY <1>2, <1>3, <2>2, <2>8, <3>0, <3>3, <4>1, <4>2, <4>3, Times DEF Claimed, Held, Leaders, Idle
      <3>. QED
        BY <2>2, <3>1, <3>2, <3>3
    <2>11. LeaseOf(m)'
      BY <2>2, <2>3, <2>8, <2>9, <2>10 DEF LeaseOf, Leaders, Ticking, Alive
    <2>. QED
      BY <1>4, <2>2, <2>7, <2>11
  <1>. QED
    BY <1>6, <1>7, <1>8 DEF Handle

(* The connection of m closes. *)
LEMMA LateDisconnect ==
  ASSUME TypeInv, TypeInv', RoleInv, Timely, NEW m \in Mains, Disconnect(m), UNCHANGED <<holder, ttl>>,
         phase'[m] \in {"closed", "off"}, \A n \in Mains \ {m} : phase'[n] = phase[n]
  PROVE  LateInv'
  <1>. USE DEF TypeInv, TypeOK
  <1>0. Slots = {"check1", "check2", "shutdown"}
    BY DEF Slots, Checks
  <1>1. RoleOf(m) /\ LeaseOf(m) /\ LateInv
    BY DEF RoleInv, Timely
  <1>2. ASSUME NEW l \in late' \ late
        PROVE  /\ l[1] = m /\ l[2] # "expire" /\ l[3] = Latency
               /\ l[2] = "del" => holder = m /\ Latency < ttl /\ phase[m] = "closing"
    <2>1. PICK s \in Slots : l = <<m, Command(calls[m][s].at), Latency>> /\ calls[m][s].reply = "pending"
      BY DisconnectType
    <2>2. calls[m][s].at # "idle"
      BY <2>1 DEF IdleCalls, Busy, Idle
    <2>3. /\ s \in {"check1", "shutdown"}
          /\ s = "check1" => check(m).at \in {"init", "renew", "reclaim", "get", "claim"}
          /\ s = "shutdown" => clear(m).at = "clear" /\ clear(m).reply = "pending" /\ phase[m] = "closing"
      BY <1>0, <1>1, <2>1, <2>2 DEF RoleOf, check, clear, Idle
    <2>4. l[1] = m /\ l[2] = Command(calls[m][s].at) /\ l[3] = Latency
      BY <2>1
    <2>5. CASE s = "check1"
      BY <2>3, <2>4, <2>5 DEF Command, check
    <2>6. CASE s = "shutdown"
      <3>1. Kept(m) /\ check(m).age <= Latency /\ clear(m).age <= Latency
        BY <1>0, <1>1, <2>3, <2>6 DEF LeaseOf, Prompt, check, clear
      <3>2. check(m).age \in Nat /\ clear(m).age \in Nat /\ ttl \in Nat
        BY <1>0, Times DEF check, clear, Calls
      <3>3. holder = m /\ Latency < ttl
        BY <3>1, <3>2, Times DEF Kept
      <3>. QED
        BY <2>3, <2>4, <2>6, <3>3 DEF Command, clear
    <2>. QED
      BY <2>3, <2>5, <2>6
  <1>3. ASSUME NEW l \in late' \ late, NEW k \in late, l[2] = "del", k[2] = "del" PROVE FALSE
    BY <1>1, <1>2, <1>3 DEF LateInv
  <1>4. \A k, l \in late' : k[2] = "del" /\ l[2] = "del" => k = l
    <2>1. ASSUME NEW k \in late' \ late, NEW l \in late' \ late, k[2] = "del", l[2] = "del"
          PROVE  k = l
      <3>1. k = <<k[1], k[2], k[3]>> /\ l = <<l[1], l[2], l[3]>>
        OBVIOUS
      <3>2. k[1] = l[1] /\ k[2] = l[2] /\ k[3] = l[3]
        BY <1>2, <2>1
      <3>. QED
        BY <3>1, <3>2
    <2>. QED
      BY <1>1, <1>3, <2>1 DEF LateInv
  <1>5. \A l \in late' : phase'[l[1]] \in {"closed", "off"}
    BY <1>1, <1>2 DEF LateInv
  <1>6. \A l \in late' : /\ l[2] # "expire"
                         /\ l[3] <= Latency
                         /\ l[2] = "del" => holder' = l[1] /\ l[3] < ttl'
    BY <1>1, <1>2, Times DEF LateInv
  <1>. QED
    BY <1>4, <1>5, <1>6 DEF LateInv

(* The steps of a process that ends, and a restart *)
LEMMA LeaseProcess ==
  ASSUME TypeInv, TypeInv', RoleInv, RoleInv', Timely, NEW m \in Mains,
         InitWaitTracker(m) \/ registerEventHandlers(m) \/ StopProcess(m) \/ Shutdown(m) \/ Close(m)
         \/ Ended(m)
         \/ (Start(m) /\ phase[m] = "new")
  PROVE  Timely'
  <1>. USE DEF TypeInv, TypeOK
  <1>0. Slots = {"check1", "check2", "shutdown"} /\ CallsTyped /\ {"init", "clear"} \subseteq Labels
    BY DEF Slots, Checks, CallsTyped, Labels
  <1>1. RoleOf(m) /\ RoleOf(m)' /\ LeaseOf(m) /\ m # NoMain
    BY NoMainAssumption DEF RoleInv, Timely
  <1>2. /\ check(m).age \in Nat /\ clear(m).age \in Nat /\ check(m).age <= Latency /\ clear(m).age <= Latency
        /\ ttl \in Nat /\ ttl <= TTL /\ timer[m] \in Nat /\ timer[m] <= Interval
    BY <1>0, <1>1, Times DEF check, clear, Calls, LeaseOf, Prompt
  <1>3. UNCHANGED <<holder, ttl>>
    BY DEF InitWaitTracker, registerEventHandlers, StopProcess, Shutdown, Close, Ended, Start
  <1>4. ASSUME LeaseOf(m)', LateInv', \A n \in Mains \ {m} : Same(n) /\ timer'[n] = timer[n] PROVE Timely'
    <2>1. holder' = holder /\ ttl <= ttl'
      BY <1>2, <1>3
    <2>2. \A n \in Mains \ {m} : LeaseOf(n)'
      BY <1>4, <2>1, LeaseOther DEF Timely
    <2>. QED
      BY <1>4, <2>2 DEF Timely
  <1>5. ASSUME late' = late, phase[m] \notin {"closed", "off"}, \A n \in Mains \ {m} : phase'[n] = phase[n]
        PROVE  LateInv'
    <2>1. \A l \in late' : phase'[l[1]] = phase[l[1]]
      BY <1>5 DEF Timely, LateInv
    <2>. QED
      BY <1>2, <1>3, <1>5, <2>1, LateKept DEF Timely
  <1>6. CASE InitWaitTracker(m) \/ registerEventHandlers(m) \/ StopProcess(m)
    <2>1. \A n \in Mains \ {m} : Same(n) /\ timer'[n] = timer[n]
      BY <1>6 DEF InitWaitTracker, registerEventHandlers, StopProcess, startTracking, stopTracking, Same,
         SameTracking
    <2>2. /\ phase[m] \in {"booting", "tracked", "up"} /\ phase'[m] \in {"tracked", "up", "stopping"}
          /\ UNCHANGED <<role, timer, calls, late>>
      BY <1>6 DEF InitWaitTracker, registerEventHandlers, StopProcess
    <2>3. check(m)' = check(m) /\ clear(m)' = clear(m)
      BY <2>2 DEF check, clear
    <2>4. Prompt(m)'
      BY <1>1, <2>2 DEF LeaseOf, Prompt
    <2>5. Claimed(m)' /\ (m \in Leaders' => Held(m)') /\ (clear(m)'.reply = "pending" => Kept(m)')
      BY <1>1, <1>3, <2>2, <2>3 DEF LeaseOf, Alive, Claimed, Leaders, Ticking, Held, Kept
    <2>6. LeaseOf(m)'
      BY <2>2, <2>4, <2>5 DEF LeaseOf
    <2>. QED
      BY <1>4, <1>5, <2>1, <2>2, <2>6 DEF Same
  <1>7. CASE Shutdown(m)
    <2>1. /\ phase[m] = "stopping" /\ phase'[m] = "closing" /\ UNCHANGED <<role, timer, late, trackVars>>
          /\ \A n \in Mains \ {m} : phase'[n] = phase[n]
      BY <1>7 DEF Shutdown
    <2>2. LateInv'
      BY <1>5, <2>1
    <2>3. CASE role[m] = "leader"
      <3>. DEFINE c == [at |-> "clear", reply |-> "pending", age |-> 0]
      <3>1. CallBecomes(m, "shutdown", c)
        BY <1>0, <1>7, <2>3, AwaitCall DEF Shutdown
      <3>2. \A n \in Mains \ {m} : Same(n) /\ timer'[n] = timer[n]
        BY <1>0, <2>1, <3>1, OthersSame DEF SameTracking
      <3>3. clear(m)' = c /\ check(m)' = check(m)
        BY <1>0, <3>1 DEF CallBecomes, check, clear
      <3>4. Prompt(m)'
        <4>1. c.age <= Latency /\ c.reply \notin {"lost", "error"}
          BY Times
        <4>. HIDE DEF c
        <4>. QED
          BY <1>0, <1>1, <2>1, <3>1, <4>1, PromptCall DEF LeaseOf
      <3>5. Held(m)
        BY <1>1, <2>1, <2>3 DEF LeaseOf, Leaders, Ticking
      <3>6. Kept(m)'
        BY <1>2, <1>3, <3>3, <3>5, Times DEF Held, Kept
      <3>7. LeaseOf(m)'
        BY <2>1, <3>4, <3>6 DEF LeaseOf, Alive, Leaders, Ticking
      <3>. QED
        BY <1>4, <2>2, <3>2, <3>7
    <2>4. CASE role[m] # "leader"
      <3>1. calls' = calls
        BY <1>7, <2>4 DEF Shutdown
      <3>2. \A n \in Mains \ {m} : Same(n) /\ timer'[n] = timer[n]
        BY <2>1, <3>1 DEF Same, SameTracking
      <3>3. Prompt(m)' /\ clear(m)' = Idle
        BY <1>1, <2>1, <3>1 DEF LeaseOf, Prompt, RoleOf, clear
      <3>4. LeaseOf(m)'
        BY <2>1, <3>3 DEF LeaseOf, Alive, Leaders, Ticking, Idle
      <3>. QED
        BY <1>4, <2>2, <3>2, <3>4
    <2>. QED
      BY <2>3, <2>4
  <1>8. CASE Close(m) \/ Ended(m)
    <2>1. /\ phase'[m] \in {"closed", "off"} /\ Disconnect(m)
          /\ \A n \in Mains \ {m} : Same(n) /\ timer'[n] = timer[n]
      BY <1>8 DEF Close, Ended, Same, SameTracking
    <2>2. LateInv'
      BY <1>3, <2>1, LateDisconnect DEF Same
    <2>3. Prompt(m)'
      <3>1. CASE Ended(m)
        <4>1. \A s \in Slots : calls'[m][s] = Idle
          BY <3>1 DEF Ended
        <4>. QED
          BY <4>1, Times DEF Prompt, Idle
      <3>2. CASE Close(m)
        <4>1. \A s \in Slots : calls'[m][s] = IF s \in Checks /\ Busy(m, s)
                                               THEN [calls[m][s] EXCEPT !.reply = "error"] ELSE Idle
          BY <3>2 DEF Close
        <4>2. \A s \in Slots : /\ [calls[m][s] EXCEPT !.reply = "error"].reply = "error"
                               /\ [calls[m][s] EXCEPT !.reply = "error"].age = calls[m][s].age
          BY DEF Calls
        <4>3. phase'[m] = "closed"
          BY <3>2 DEF Close
        <4>4. Idle.age <= Latency /\ Idle.reply = "none"
          BY Times DEF Idle
        <4>5. \A s \in Slots : calls'[m][s].age <= Latency /\ calls'[m][s].reply \in {"error", "none"}
          BY <1>1, <4>1, <4>2, <4>4 DEF LeaseOf, Prompt
        <4>. QED
          BY <4>3, <4>5 DEF Prompt
      <3>. QED
        BY <1>8, <3>1, <3>2
    <2>4. clear(m)' = Idle
      BY <1>1, <2>1 DEF RoleOf
    <2>5. LeaseOf(m)'
      BY <2>1, <2>3, <2>4 DEF LeaseOf, Alive, Leaders, Ticking, Idle
    <2>. QED
      BY <1>4, <2>1, <2>2, <2>5
  <1>9. CASE Start(m) /\ phase[m] = "new"
    <2>. DEFINE c == [at |-> "init", reply |-> "pending", age |-> 0]
    <2>1. CallBecomes(m, "check1", c)
      BY <1>0, <1>9, AwaitCall DEF Start
    <2>2. /\ phase'[m] = "starting" /\ UNCHANGED <<role, timer, late, trackVars>>
          /\ \A n \in Mains \ {m} : phase'[n] = phase[n]
      BY <1>9 DEF Start
    <2>3. \A n \in Mains \ {m} : Same(n) /\ timer'[n] = timer[n]
      BY <1>0, <2>1, <2>2, OthersSame DEF SameTracking
    <2>4. check(m)' = c /\ clear(m)' = Idle
      BY <1>1, <2>1, <2>2 DEF CallBecomes, check, RoleOf
    <2>5. Prompt(m)'
      <3>1. c.age <= Latency /\ c.reply \notin {"lost", "error"}
        BY Times
      <3>. HIDE DEF c
      <3>. QED
        BY <1>0, <1>1, <1>9, <2>1, <3>1, PromptCall DEF LeaseOf
    <2>6. holder # m
      BY <1>1, <1>9 DEF LeaseOf
    <2>7. LeaseOf(m)'
      BY <1>3, <2>2, <2>4, <2>5, <2>6 DEF LeaseOf, Claimed, Leaders, Ticking, Idle
    <2>. QED
      BY <1>4, <1>5, <1>9, <2>2, <2>3, <2>7
  <1>. QED
    BY <1>6, <1>7, <1>8, <1>9

(* A command of a process that is gone arrives. *)
LEMMA LeaseLate ==
  ASSUME TypeInv, TypeInv', RoleInv, RoleInv', Timely, NEW l \in late, ArriveLate(l)
  PROVE  Timely'
  <1>. USE DEF TypeInv, TypeOK
  <1>1. /\ l[1] \in Mains /\ l[2] \in Commands \ {"expire"} /\ phase[l[1]] \in {"closed", "off"}
        /\ l[2] = "del" => holder = l[1]
        /\ \A k \in late' : k \in late /\ k # l /\ k[1] # NoMain
    BY NoMainAssumption DEF Timely, LateInv, ArriveLate
  <1>2. UNCHANGED <<localVars, callVars, budgetVars>> /\ Effect(l[1], l[2])
    BY DEF ArriveLate
  <1>3. \/ UNCHANGED <<holder, ttl>>
        \/ holder = NoMain /\ holder' = l[1] /\ ttl' = TTL
        \/ holder = l[1] /\ holder' = l[1] /\ ttl' = TTL
        \/ holder = l[1] /\ holder' = NoMain /\ l[2] = "del"
    BY <1>1, <1>2, EffectCases
  <1>4. ttl \in Nat /\ ttl <= TTL
    BY Times
  <1>5. LateInv'
    <2>1. (holder' = holder /\ ttl <= ttl') \/ \A k \in late' : k[2] # "del"
      BY <1>1, <1>3, <1>4 DEF Timely, LateInv
    <2>. QED
      BY <1>1, <1>2, <2>1, LateKept DEF Timely
  <1>6. ASSUME NEW n \in Mains PROVE LeaseOf(n)'
    <2>1. LeaseOf(n) /\ RoleOf(n)' /\ Same(n) /\ timer'[n] = timer[n] /\ phase' = phase
      BY <1>2 DEF Timely, RoleInv, Same, SameTracking
    <2>2. CASE n = l[1]
      BY <1>1, <2>1, <2>2, LeaseGone
    <2>3. CASE n # l[1]
      <3>1. (holder' = holder /\ ttl <= ttl') \/ (holder # n /\ holder' # n)
        BY <1>3, <1>4, <2>3, NoMainAssumption
      <3>. QED
        BY <2>1, <3>1, LeaseOther
    <2>. QED
      BY <2>2, <2>3
  <1>. QED
    BY <1>5, <1>6 DEF Timely

LEMMA LeaseNext ==
  ASSUME TypeInv, TypeInv', RoleInv, RoleInv', LeaseInv, [Next]_vars
  PROVE  LeaseInv'
  <1>. SUFFICES ASSUME Undisturbed' PROVE Timely'
    BY DEF LeaseInv
  <1>0. faults \in Nat /\ restarts \in Nat
    BY BoundAssumption DEF TypeInv, TypeOK
  <1>1. CASE UNCHANGED vars
    <2>1. Undisturbed /\ Timely
      BY <1>1 DEF vars, Undisturbed, LeaseInv
    <2>. QED
      BY <1>1, <2>1 DEF vars, Timely, LateInv, LeaseOf, Prompt, Claimed, Held, Kept, Leaders, Ticking, check,
         clear
  <1>2. CASE Tick
    BY <1>2, LeaseTick DEF Tick, Undisturbed, LeaseInv
  <1>3. ASSUME NEW m \in Mains, NEW s \in Slots, Lose(m, s) PROVE FALSE
    BY <1>0, <1>3 DEF Lose, Undisturbed
  <1>4. ASSUME NEW l \in late, ArriveLate(l) PROVE Timely'
    BY <1>4, LeaseLate DEF ArriveLate, Undisturbed, LeaseInv
  <1>5. ASSUME NEW m \in Mains, Start(m) PROVE Timely'
    <2>1. phase[m] = "new" /\ Undisturbed
      BY <1>0, <1>5 DEF Start, Undisturbed
    <2>. QED
      BY <1>5, <2>1, LeaseProcess DEF LeaseInv
  <1>6. ASSUME NEW m \in Mains,
               InitWaitTracker(m) \/ registerEventHandlers(m) \/ StopProcess(m) \/ Crash(m)
               \/ Shutdown(m) \/ Close(m) \/ Exit(m)
        PROVE  Timely'
    <2>1. Undisturbed
      BY <1>6 DEF InitWaitTracker, registerEventHandlers, StopProcess, Crash, Shutdown, Close, Exit, Ended, Undisturbed
    <2>. QED
      BY <1>6, <2>1, LeaseProcess DEF LeaseInv, Crash, Exit
  <1>7. ASSUME NEW m \in Mains, RunCommand(m) PROVE Timely'
    BY <1>7, LeaseRun DEF RunCommand, Undisturbed, LeaseInv
  <1>8. ASSUME NEW m \in Mains, Handle(m) PROVE Timely'
    <2>1. Undisturbed
      BY <1>8 DEF Handle, InitDone, CheckLeader, RenewDone, ReclaimDone, GetDone, ClaimDone, Undisturbed
    <2>. QED
      BY <1>8, <2>1, LeaseHandle DEF LeaseInv
  <1>. QED
    BY <1>1, <1>2, <1>3, <1>4, <1>5, <1>6, <1>7, <1>8 DEF Next, Environment, Progress

(* Until a command is lost or a main comes back under the id of a dead     *)
(* one, only the main whose id is in the key acts as leader, so no two do. *)
OneLeader == Undisturbed => Leaders \subseteq {holder}

LEMMA LeaseLeads == LeaseInv => OneLeader
  BY DEF LeaseInv, Timely, LeaseOf, Held, OneLeader, Leaders

(* Until the first fault a main acts as leader only while the key holds    *)
(* its id: the renewals of the interval come before the key expires, and   *)
(* no late command of a process that is gone takes the key away.           *)
THEOREM OneLeaderTheorem == Spec => []OneLeader
  BY TypeInit, TypeNext, RoleInit, RoleNext, LeaseInit, LeaseNext, LeaseLeads, PTL DEF Spec

(* The holder of the key changes only from or to nobody, and the roles do  *)
(* not change with it.                                                     *)
LEMMA HolderChanges ==
  ASSUME TypeInv, [Next]_vars, holder' # holder
  PROVE  /\ UNCHANGED <<phase, role>>
         /\ \/ holder = NoMain /\ holder' \in Mains
            \/ holder' = NoMain
  <1>. USE DEF TypeInv, TypeOK
  <1>1. ASSUME NEW m \in Mains, NEW command \in Commands, Effect(m, command)
        PROVE  (holder = NoMain /\ holder' \in Mains) \/ holder' = NoMain
    <2>1. command # "expire"
      BY <1>1 DEF Effect
    <2>. QED
      BY <1>1, <2>1, EffectCases
  <1>2. CASE UNCHANGED vars
    BY <1>2 DEF vars
  <1>3. CASE Tick
    BY <1>3 DEF Tick
  <1>4. ASSUME NEW l \in late, ArriveLate(l)
        PROVE  /\ UNCHANGED <<phase, role>>
               /\ (holder = NoMain /\ holder' \in Mains) \/ holder' = NoMain
    BY <1>1, <1>4 DEF ArriveLate
  <1>5. ASSUME NEW m \in Mains, RunCommand(m)
        PROVE  /\ UNCHANGED <<phase, role>>
               /\ (holder = NoMain /\ holder' \in Mains) \/ holder' = NoMain
    BY <1>1, <1>5, PendingLabel DEF RunCommand
  <1>6. ASSUME NEW m \in Mains,
               Start(m) \/ InitWaitTracker(m) \/ registerEventHandlers(m) \/ StopProcess(m) \/ Crash(m)
               \/ Shutdown(m) \/ Close(m) \/ Exit(m)
        PROVE  FALSE
    BY <1>6 DEF Start, InitWaitTracker, registerEventHandlers, StopProcess, Crash, Shutdown, Close, Exit, Ended
  <1>7. ASSUME NEW m \in Mains, NEW s \in Slots, Lose(m, s) PROVE FALSE
    BY <1>7 DEF Lose
  <1>8. ASSUME NEW m \in Mains, Handle(m) PROVE FALSE
    BY <1>8 DEF Handle, InitDone, CheckLeader, RenewDone, ReclaimDone, GetDone, ClaimDone
  <1>. QED
    BY <1>2, <1>3, <1>4, <1>5, <1>6, <1>7, <1>8 DEF Next, Environment, Progress

(* What was disturbed stays so. *)
LEMMA Disturbances ==
  ASSUME TypeInv, [Next]_vars, ~Undisturbed
  PROVE  ~Undisturbed'
  <1>0. faults \in Nat /\ restarts \in Nat
    BY BoundAssumption DEF TypeInv, TypeOK
  <1>1. faults' \in {faults, faults + 1} /\ restarts' \in {restarts, restarts + 1}
    <2>1. CASE UNCHANGED vars
      BY <2>1 DEF vars
    <2>2. CASE Tick
      BY <2>2 DEF Tick
    <2>3. CASE Environment
      BY <2>3 DEF Environment, Lose, ArriveLate, Start, StopProcess, Crash, Ended
    <2>4. ASSUME NEW m \in Mains, Progress(m) PROVE UNCHANGED <<faults, restarts>>
      BY <2>4 DEF Progress, RunCommand, InitWaitTracker, registerEventHandlers, Shutdown, Close, Exit,
         Ended
    <2>5. ASSUME NEW m \in Mains, Handle(m) PROVE UNCHANGED <<faults, restarts>>
      BY <2>5 DEF Handle, InitDone, CheckLeader, RenewDone, ReclaimDone, GetDone, ClaimDone
    <2>. QED
      BY <2>1, <2>2, <2>3, <2>4, <2>5 DEF Next
  <1>. QED
    BY <1>0, <1>1 DEF Undisturbed

LEMMA LeaseStep ==
  ASSUME TypeInv, TypeInv', OneLeader, OneLeader', [Next]_vars
  PROVE  [Lease!Next]_(Lease!leaseVars)
  <1>. USE DEF Lease!Next, Lease!leaseVars
  <1>1. CASE ~Undisturbed
    BY <1>1, Disturbances
  <1>2. CASE Undisturbed /\ ~Undisturbed'
    <2>1. Lease!Outage
      BY <1>2 DEF Lease!Outage
    <2>. QED
      BY <2>1
  <1>3. CASE Undisturbed /\ Undisturbed'
    <2>0. Leaders \subseteq {holder} /\ Leaders' \subseteq {holder'} /\ Leaders \subseteq Mains /\ Leaders' \subseteq Mains
      BY <1>3 DEF OneLeader, Leaders
    <2>1. CASE holder' = holder /\ Leaders' = Leaders
      BY <1>3, <2>1
    <2>2. CASE holder' = holder /\ Leaders' # Leaders
      <3>1. holder \in Mains
        BY <2>0, <2>2
      <3>2. CASE Leaders' = {}
        <4>1. Lease!Resign(holder)
          BY <1>3, <2>0, <2>2, <3>2 DEF Lease!Resign
        <4>. QED
          BY <3>1, <4>1
      <3>3. CASE Leaders' = {holder}
        <4>1. Lease!Lead(holder)
          BY <1>3, <2>2, <3>3 DEF Lease!Lead
        <4>. QED
          BY <3>1, <4>1
      <3>. QED
        BY <2>0, <2>2, <3>2, <3>3
    <2>3. CASE holder' # holder
      <3>1. /\ Leaders' = Leaders
            /\ (holder = NoMain /\ holder' \in Mains) \/ holder' = NoMain
        BY <2>3, HolderChanges DEF Leaders, Ticking
      <3>2. Leaders = {}
        BY <2>0, <2>3, <3>1
      <3>3. CASE holder = NoMain /\ holder' \in Mains
        <4>1. Lease!Acquire(holder')
          BY <1>3, <3>1, <3>3 DEF Lease!Acquire
        <4>. QED
          BY <3>3, <4>1
      <3>4. CASE holder' = NoMain
        <4>1. Lease!End
          BY <1>3, <3>1, <3>2, <3>4 DEF Lease!End
        <4>. QED
          BY <4>1
      <3>. QED
        BY <3>1, <3>3, <3>4
    <2>. QED
      BY <2>1, <2>2, <2>3
  <1>. QED
    BY <1>1, <1>2, <1>3

(* Leader election implements the lease: every step of Redis, the clock,   *)
(* the handlers and the processes obtains the lease, leads under it, gives *)
(* leadership or the lease up, or is none of its business.  A lost command *)
(* or a restart under an old id is an outage, after which nothing is       *)
(* promised.                                                               *)
THEOREM LeaseRefinement == Spec => ImplementsLease
  <1>1. Init => Lease!Init
    BY DEF Init, Lease!Init, Leaders
  <1>. QED
    BY <1>1, TypeInit, TypeNext, RoleInit, RoleNext, LeaseInit, LeaseNext, LeaseLeads, LeaseStep, PTL
    DEF Spec, ImplementsLease, Lease!Spec

=============================================================================
