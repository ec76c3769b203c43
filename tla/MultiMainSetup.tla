--------------------------- MODULE MultiMainSetup ---------------------------
(***************************************************************************)
(* The main processes of a multi-main setup and what the two strategies of *)
(* leader election share: the key in Redis with its time to live, the      *)
(* commands under way on each main's connection, the interval that starts  *)
(* the leader checks, the events that start and stop the services of a     *)
(* leader, and the start and shutdown of a process.  WaitTracker stands    *)
(* for the services.  Time passes in ticks.                                *)
(***************************************************************************)
EXTENDS Integers

CONSTANTS
  Mains,           \* host ids of the main processes
  NoMain,
  TTL,             \* time to live of the leader key
  Interval,        \* ticks between two leader checks
  Latency,         \* ticks within which a command is answered and the answer handled
  CommandTimeout,  \* ticks after which a lost command fails
  Lateness,        \* bound of the model: ticks within which a lost command may arrive
  Slow,            \* bound of the model: mains in which time passes while they boot
  MaxFaults,       \* bound of the model: commands lost
  MaxStops,        \* bound of the model: processes that end
  MaxRestarts      \* bound of the model: processes started again under their host id

ASSUME NoMainAssumption == NoMain \notin Mains
ASSUME TimeAssumption ==
  /\ {TTL, Interval, Latency, CommandTimeout} \subseteq Nat \ {0}
  /\ Lateness \in Nat
  /\ Latency <= CommandTimeout
ASSUME BoundAssumption == {MaxFaults, MaxStops, MaxRestarts} \subseteq Nat

VARIABLES
  (* Redis *)
  holder,    \* value of the leader key, NoMain if it is absent
  ttl,       \* ticks until the key expires, 0 if it is absent
  late,      \* commands of broken connections, and the ticks in which they may still arrive
  (* the mains *)
  phase,     \* phase[m] : where the process stands
  role,      \* role[m] : instanceRole
  serving,   \* mains whose WaitTracker polls, by the interval in its mainTimer
  orphaned,  \* mains with a poll interval that mainTimer has lost
  missed,    \* mains that changed role unheard after WaitTracker.init, and not since
  timer,     \* timer[m] : ticks until the interval fires
  calls,     \* calls[m][s] : the asynchronous call s of m
  ahead,     \* ahead[m][s] : calls that sent a command before s and await its reply
  (* budgets *)
  faults, stops, restarts

redisVars  == <<holder, ttl, late>>
trackVars  == <<serving, orphaned, missed>>
localVars  == <<phase, role, trackVars, timer>>
callVars   == <<calls, ahead>>
budgetVars == <<faults, stops, restarts>>
vars       == <<redisVars, localVars, callVars, budgetVars>>

(* Two leader checks can be under way, were it not for leaderCheckInProgress. *)
Checks == {"check1", "check2"}
Slots  == Checks \cup {"shutdown"}
Labels == {"init", "renew", "reclaim", "get", "claim", "expire", "clear"}
Phases == {"new", "starting", "booting", "tracked", "up", "stopping", "closing", "closed", "off"}

(* The command that the call awaits at each place *)
Command(label) ==
  CASE label \in {"init", "reclaim", "claim"} -> "setnx"
    [] label = "clear"                        -> "del"
    [] OTHER                                  -> label

Commands == {"setnx", "del", "renew", "get", "expire"}
Idle     == [at |-> "idle", reply |-> "none", age |-> 0]
Calls    == [at    : Labels \cup {"idle"},
             reply : {"none", "pending", "lost", "error", "ok", "taken", "success", "missing",
                      "self", "other", "vacant"},
             age   : 0 .. CommandTimeout]

TypeOK ==
  /\ holder \in Mains \cup {NoMain}
  /\ ttl \in 0 .. TTL
  /\ late \subseteq Mains \X Commands \X Nat
  /\ phase \in [Mains -> Phases]
  /\ role \in [Mains -> {"unset", "leader", "follower"}]
  /\ serving \subseteq Mains
  /\ orphaned \subseteq Mains
  /\ missed \subseteq Mains
  /\ timer \in [Mains -> 0 .. Interval]
  /\ calls \in [Mains -> [Slots -> Calls]]
  /\ ahead \in [Mains -> [Slots -> SUBSET Slots]]
  /\ faults \in 0 .. MaxFaults
  /\ stops \in 0 .. MaxStops
  /\ restarts \in 0 .. MaxRestarts

Init ==
  /\ holder = NoMain
  /\ ttl = 0
  /\ late = {}
  /\ phase = [m \in Mains |-> "new"]
  /\ role = [m \in Mains |-> "unset"]
  /\ serving = {}
  /\ orphaned = {}
  /\ missed = {}
  /\ timer = [m \in Mains |-> 0]
  /\ calls = [m \in Mains |-> [s \in Slots |-> Idle]]
  /\ ahead = [m \in Mains |-> [s \in Slots |-> {}]]
  /\ faults = 0
  /\ stops = 0
  /\ restarts = 0

Busy(m, s) == calls[m][s].at # "idle"

(* The calls whose command or reply is on its way *)
Sent(m) == {s \in Slots : Busy(m, s) /\ calls[m][s].reply \notin {"lost", "error"}}

(* The command of s goes out behind those of earlier, or is gone. *)
Line(m, s, earlier) ==
  ahead' = [ahead EXCEPT ![m] = [t \in Slots |-> IF t = s THEN earlier ELSE ahead[m][t] \ {s}]]

(* The call s of m sends a command and awaits its result at label; what it *)
(* awaited before has reached it.                                          *)
Await(m, s, label) ==
  /\ calls' = [calls EXCEPT ![m][s] = [at |-> label, reply |-> "pending", age |-> 0]]
  /\ Line(m, s, Sent(m) \ {s})

Return(m, s) ==
  /\ calls' = [calls EXCEPT ![m][s] = Idle]
  /\ Line(m, s, {})

(* The result has reached the call: a reply, after the replies to earlier  *)
(* commands, or the error that the command timeout or the closed           *)
(* connection raises.                                                      *)
Result(m, s) ==
  LET c == calls[m][s]
  IN  IF c.reply = "lost" /\ c.age = CommandTimeout THEN "error" ELSE c.reply

Answered(m, s, label) ==
  /\ calls[m][s].at = label
  /\ Result(m, s) \notin {"pending", "lost"}
  /\ ahead[m][s] = {}

-----------------------------------------------------------------------------
(* Redis                                                                   *)

SetKey(m) ==
  IF holder = NoMain THEN holder' = m /\ ttl' = TTL ELSE UNCHANGED <<holder, ttl>>

(* INCREASE_TTL_IF_LEADER extends the key of m only; EXPIRE any. *)
Effect(m, command) ==
  CASE command = "setnx"  -> SetKey(m)
    [] command = "renew"  -> ttl' = (IF holder = m THEN TTL ELSE ttl) /\ UNCHANGED holder
    [] command = "expire" -> ttl' = (IF holder = NoMain THEN 0 ELSE TTL) /\ UNCHANGED holder
    [] command = "del"    -> holder' = NoMain /\ ttl' = 0
    [] command = "get"    -> UNCHANGED <<holder, ttl>>

Reply(m, command) ==
  CASE command = "setnx"  -> IF holder = NoMain THEN "ok" ELSE "taken"
    [] command = "renew"  -> IF holder = m THEN "success"
                             ELSE IF holder = NoMain THEN "missing" ELSE "other"
    [] command = "get"    -> IF holder = m THEN "self"
                             ELSE IF holder = NoMain THEN "vacant" ELSE "other"
    [] OTHER              -> "ok"

(* Redis runs the commands of a connection in the order they were sent. *)
RunCommand(m) ==
  \E s \in Slots :
    LET command == Command(calls[m][s].at)
    IN  /\ calls[m][s].reply = "pending"
        /\ \A t \in ahead[m][s] : calls[m][t].reply # "pending"
        /\ Effect(m, command)
        /\ calls' = [calls EXCEPT ![m][s].reply = Reply(m, command)]
        /\ UNCHANGED <<late, ahead, localVars, budgetVars>>

(* A command or its answer is lost.  A lost command may be sent again when *)
(* the connection is back, and arrive after its call has failed.           *)
Lose(m, s) ==
  /\ faults < MaxFaults
  /\ Busy(m, s)
  /\ calls[m][s].reply \notin {"lost", "error"}
  /\ faults' = faults + 1
  /\ calls' = [calls EXCEPT ![m][s].reply = "lost"]
  /\ Line(m, s, {})
  /\ \/ UNCHANGED late
     \/ calls[m][s].reply = "pending" /\ late' = late \cup {<<m, Command(calls[m][s].at), Lateness>>}
  /\ UNCHANGED <<holder, ttl, localVars, stops, restarts>>

ArriveLate(l) ==
  /\ late' = late \ {l}
  /\ Effect(l[1], l[2])
  /\ UNCHANGED <<localVars, callVars, budgetVars>>

(* The connection of m closes: commands that were sent may still arrive. *)
Unsent(m) ==
  {<<m, Command(calls[m][s].at), Latency>> : s \in {t \in Slots : calls[m][t].reply = "pending"}}

Disconnect(m) ==
  /\ \E arriving \in SUBSET Unsent(m) : late' = late \cup arriving
  /\ ahead' = [ahead EXCEPT ![m] = [s \in Slots |-> {}]]

-----------------------------------------------------------------------------
(* Time                                                                    *)

Limit(c) == IF c.reply = "lost" THEN CommandTimeout ELSE Latency

(* The interval of init runs until shutdown clears it. *)
Ticking(m) == phase[m] \in {"booting", "tracked", "up", "stopping"}

Tick ==
  /\ \A m \in Mains, s \in Slots : Busy(m, s) => calls[m][s].age < Limit(calls[m][s])
  /\ \A m \in Mains : Ticking(m) => timer[m] > 0
  /\ \A m \in Mains : phase[m] \in {"booting", "tracked"} => m \in Slow
  /\ ttl' = IF ttl = 0 THEN 0 ELSE ttl - 1
  /\ holder' = IF ttl <= 1 THEN NoMain ELSE holder
  /\ late' = {<<l[1], l[2], l[3] - 1>> : l \in {k \in late : k[3] > 0}}
  /\ timer' = [m \in Mains |-> IF Ticking(m) THEN timer[m] - 1 ELSE timer[m]]
  /\ calls' = [m \in Mains |-> [s \in Slots |->
                 IF Busy(m, s) THEN [calls[m][s] EXCEPT !.age = @ + 1] ELSE Idle]]
  /\ UNCHANGED <<phase, role, trackVars, ahead, budgetVars>>

-----------------------------------------------------------------------------
(* The processes                                                           *)

(* startTracking puts a new interval in mainTimer, where one may run;      *)
(* stopTracking clears the one that is there.                              *)
startTracking(m) ==
  /\ serving' = serving \cup {m}
  /\ orphaned' = IF m \in serving THEN orphaned \cup {m} ELSE orphaned

stopTracking(m) ==
  /\ serving' = serving \ {m}
  /\ UNCHANGED orphaned

(* registerEventHandlers has run. *)
Hears(m) == phase[m] \notin {"starting", "booting", "tracked"}

(* The event that goes with a change of role, and its handler; before      *)
(* registerEventHandlers it is emitted to nobody.                          *)
Emit(m, handler) ==
  \/ Hears(m) /\ handler /\ missed' = missed \ {m}
  \/ /\ ~Hears(m)
     /\ missed' = IF phase[m] = "tracked" THEN missed \cup {m} ELSE missed
     /\ UNCHANGED <<serving, orphaned>>

(* leader-takeover and leader-stepdown *)
TakeOver(m) ==
  /\ role' = [role EXCEPT ![m] = "leader"]
  /\ Emit(m, startTracking(m))

StepDown(m) ==
  /\ role' = [role EXCEPT ![m] = "follower"]
  /\ Emit(m, stopTracking(m))

(* init up to its await; a process restarted in its container has its host id. *)
Start(m) ==
  /\ \/ phase[m] = "new" /\ UNCHANGED restarts
     \/ phase[m] = "off" /\ restarts < MaxRestarts /\ restarts' = restarts + 1
  /\ phase' = [phase EXCEPT ![m] = "starting"]
  /\ Await(m, "check1", "init")
  /\ UNCHANGED <<redisVars, role, trackVars, timer, faults, stops>>

(* Mutant: the first check comes a tick late *)
StartedLate(m) ==
  /\ phase' = [phase EXCEPT ![m] = "booting"]
  /\ timer' = [timer EXCEPT ![m] = Interval + 1]

(* init after its await: the leader checks begin while the process boots. *)
Started(m) ==
  /\ phase' = [phase EXCEPT ![m] = "booting"]
  /\ timer' = [timer EXCEPT ![m] = Interval]

(* WaitTracker.init looks at the role once. *)
InitWaitTracker(m) ==
  /\ phase[m] = "booting"
  /\ phase' = [phase EXCEPT ![m] = "tracked"]
  /\ IF role[m] = "leader" THEN startTracking(m) ELSE UNCHANGED <<serving, orphaned>>
  /\ UNCHANGED <<redisVars, role, missed, timer, callVars, budgetVars>>

registerEventHandlers(m) ==
  /\ phase[m] = "tracked"
  /\ phase' = [phase EXCEPT ![m] = "up"]
  /\ UNCHANGED <<redisVars, role, trackVars, timer, callVars, budgetVars>>

(* stopProcess stops tracking and removes triggers and pollers; the leader *)
(* checks go on meanwhile.                                                 *)
StopProcess(m) ==
  /\ phase[m] = "up"
  /\ stops < MaxStops
  /\ stops' = stops + 1
  /\ phase' = [phase EXCEPT ![m] = "stopping"]
  /\ stopTracking(m)
  /\ UNCHANGED <<redisVars, role, missed, timer, callVars, faults, restarts>>

(* shutdown up to its await: the leader deletes the key. *)
Shutdown(m) ==
  /\ phase[m] = "stopping"
  /\ phase' = [phase EXCEPT ![m] = "closing"]
  /\ IF role[m] = "leader" THEN Await(m, "shutdown", "clear") ELSE UNCHANGED callVars
  /\ UNCHANGED <<redisVars, role, trackVars, timer, budgetVars>>

(* The key is cleared, or was not ours: the connection closes, and the     *)
(* commands under way fail.                                                *)
Close(m) ==
  /\ phase[m] = "closing"
  /\ ~Busy(m, "shutdown") \/ Answered(m, "shutdown", "clear")
  /\ phase' = [phase EXCEPT ![m] = "closed"]
  /\ Disconnect(m)
  /\ calls' = [calls EXCEPT ![m] = [s \in Slots |->
                 IF s \in Checks /\ Busy(m, s) THEN [calls[m][s] EXCEPT !.reply = "error"] ELSE Idle]]
  /\ UNCHANGED <<holder, ttl, role, trackVars, timer, budgetVars>>

Ended(m) ==
  /\ phase' = [phase EXCEPT ![m] = "off"]
  /\ role' = [role EXCEPT ![m] = "unset"]
  /\ serving' = serving \ {m}
  /\ orphaned' = orphaned \ {m}
  /\ missed' = missed \ {m}
  /\ timer' = [timer EXCEPT ![m] = 0]
  /\ calls' = [calls EXCEPT ![m] = [s \in Slots |-> Idle]]
  /\ Disconnect(m)
  /\ UNCHANGED <<holder, ttl, faults, restarts>>

(* The process exits once its executions are over. *)
Exit(m) ==
  /\ phase[m] = "closed"
  /\ Ended(m)
  /\ UNCHANGED stops

Crash(m) ==
  /\ phase[m] \notin {"new", "off"}
  /\ stops < MaxStops
  /\ stops' = stops + 1
  /\ Ended(m)

Environment ==
  \/ \E m \in Mains, s \in Slots : Lose(m, s)
  \/ \E l \in late : ArriveLate(l)
  \/ \E m \in Mains : Start(m) \/ StopProcess(m) \/ Crash(m)

Progress(m) ==
  \/ RunCommand(m)
  \/ InitWaitTracker(m) \/ registerEventHandlers(m)
  \/ Shutdown(m) \/ Close(m) \/ Exit(m)

(* The mains that act as leader: they are marked so and have not begun to  *)
(* give the key back.                                                      *)
Leaders == {m \in Mains : role[m] = "leader" /\ Ticking(m)}
=============================================================================
