--------------------------- MODULE TaskLifeProofs ---------------------------
(***************************************************************************)
(* What the life of a task may look like, from the offer a runner sends to *)
(* the report of its end, and what the broker and the requester make of    *)
(* it: the theorems behind PromiseIsGuarded, ExecutedForItsRequest,        *)
(* NoUnexpectedTaskStatus, ActiveTaskEnds, NoLostCall and ServedOnce.      *)
(***************************************************************************)
EXTENDS TaskRunnersProofs, TaskMatchingProofs

-----------------------------------------------------------------------------
(* Channels                                                                *)

(* Message m is in the channel s at most once. *)
Once(s, m) == \A i, j \in 1 .. Len(s) : s[i] = m /\ s[j] = m => i = j

(* Whatever a's and b's the channel s holds, the a's come first. *)
Before(s, a, b) == \A i, j \in 1 .. Len(s) : s[i] = a /\ s[j] = b => i < j

(* Reading the head *)
LEMMA ReadFacts ==
  ASSUME NEW S, NEW s \in Seq(S), s # << >>
  PROVE  /\ Head(s) \in ToSet(s)
         /\ ToSet(Tail(s)) \subseteq ToSet(s)
         /\ ToSet(s) \subseteq ToSet(Tail(s)) \cup {Head(s)}
         /\ Once(s, Head(s)) => Head(s) \notin ToSet(Tail(s))
         /\ \A m : Once(s, m) => Once(Tail(s), m)
         /\ \A a, b : Before(s, a, b) => Before(Tail(s), a, b)
         /\ \A a : Before(s, a, Head(s)) => a \notin ToSet(s)
<1> DEFINE u == Tail(s)
<1>1. /\ u \in Seq(S) /\ Len(s) \in Nat /\ Len(s) > 0 /\ Len(u) = Len(s) - 1
      /\ \A i \in 1 .. Len(u) : u[i] = s[i + 1]
      /\ Head(s) = s[1]
  BY HeadTailProperties
<1> HIDE DEF u
<1>2. \A m : m \in ToSet(s) <=> \E i \in 1 .. Len(s) : s[i] = m
  BY InChannel
<1>3. \A m : m \in ToSet(u) <=> \E i \in 1 .. Len(u) : u[i] = m
  BY <1>1, InChannel
<1>4. Head(s) \in ToSet(s)
  BY <1>1, <1>2
<1>5. ToSet(u) \subseteq ToSet(s)
  <2>1. \A i \in 1 .. Len(u) : i + 1 \in 1 .. Len(s)
    BY <1>1
  <2> QED BY <1>1, <1>2, <1>3, <2>1
<1>6. ToSet(s) \subseteq ToSet(u) \cup {Head(s)}
  <2>1. ASSUME NEW i \in 1 .. Len(s)
        PROVE  s[i] = Head(s) \/ \E j \in 1 .. Len(u) : u[j] = s[i]
    <3>1. CASE i = 1
      BY <1>1, <3>1
    <3>2. CASE i # 1
      <4>1. i - 1 \in 1 .. Len(u) /\ (i - 1) + 1 = i
        BY <1>1, <3>2
      <4> QED BY <1>1, <4>1
    <3> QED BY <3>1, <3>2
  <2> QED BY <1>2, <1>3, <2>1
<1>7. ASSUME Once(s, Head(s))
      PROVE  Head(s) \notin ToSet(u)
  <2>1. \A i \in 1 .. Len(u) : i + 1 \in 1 .. Len(s) /\ i + 1 # 1
    BY <1>1
  <2> QED BY <1>1, <1>3, <1>7, <2>1 DEF Once
<1>8. ASSUME NEW m, Once(s, m)
      PROVE  Once(u, m)
  <2>1. \A i \in 1 .. Len(u) : i + 1 \in 1 .. Len(s) /\ i \in Int
    BY <1>1
  <2> QED BY <1>1, <1>8, <2>1 DEF Once
<1>9. ASSUME NEW a, NEW b, Before(s, a, b)
      PROVE  Before(u, a, b)
  <2>1. \A i \in 1 .. Len(u) : i + 1 \in 1 .. Len(s) /\ i \in Int
    BY <1>1
  <2> QED BY <1>1, <1>9, <2>1 DEF Before
<1>10. ASSUME NEW a, Before(s, a, Head(s))
       PROVE  a \notin ToSet(s)
  <2>1. 1 \in 1 .. Len(s) /\ \A i \in 1 .. Len(s) : ~(i < 1)
    BY <1>1
  <2> QED BY <1>1, <1>2, <1>10, <2>1 DEF Before
<1> QED BY <1>4, <1>5, <1>6, <1>7, <1>8, <1>9, <1>10 DEF u

(* Writing behind what is there *)
LEMMA WriteFacts ==
  ASSUME NEW S, NEW s \in Seq(S), NEW out \in Seq(S)
  PROVE  /\ ToSet(s \o out) = ToSet(s) \cup ToSet(out)
         /\ \A m : Once(s, m) /\ Once(out, m) /\ (m \notin ToSet(s) \/ m \notin ToSet(out))
                     => Once(s \o out, m)
         /\ \A a, b : Before(s, a, b) /\ Before(out, a, b) /\ (b \notin ToSet(s) \/ a \notin ToSet(out))
                        => Before(s \o out, a, b)
<1> DEFINE w == s \o out
<1>1. /\ w \in Seq(S) /\ Len(s) \in Nat /\ Len(out) \in Nat /\ Len(w) = Len(s) + Len(out)
      /\ \A i \in 1 .. Len(w) : w[i] = IF i <= Len(s) THEN s[i] ELSE out[i - Len(s)]
  BY ConcatProperties
<1> HIDE DEF w
<1>2. \A i \in 1 .. Len(w) : /\ i \in Int
                             /\ i <= Len(s) => i \in 1 .. Len(s) /\ w[i] = s[i]
                             /\ ~(i <= Len(s)) => i - Len(s) \in 1 .. Len(out) /\ w[i] = out[i - Len(s)]
  BY <1>1
<1>3. \A m : m \in ToSet(s) <=> \E i \in 1 .. Len(s) : s[i] = m
  BY InChannel
<1>4. \A m : m \in ToSet(out) <=> \E i \in 1 .. Len(out) : out[i] = m
  BY InChannel
<1>5. \A m : m \in ToSet(w) <=> \E i \in 1 .. Len(w) : w[i] = m
  BY <1>1, InChannel
<1>6. ToSet(w) \subseteq ToSet(s) \cup ToSet(out)
  BY <1>2, <1>3, <1>4, <1>5
<1>7. ToSet(s) \subseteq ToSet(w)
  <2>1. \A i \in 1 .. Len(s) : i \in 1 .. Len(w) /\ w[i] = s[i]
    BY <1>1
  <2> QED BY <1>3, <1>5, <2>1
<1>8. ToSet(out) \subseteq ToSet(w)
  <2>1. ASSUME NEW i \in 1 .. Len(out)
        PROVE  i + Len(s) \in 1 .. Len(w) /\ w[i + Len(s)] = out[i]
    <3>1. i + Len(s) \in 1 .. Len(w) /\ ~(i + Len(s) <= Len(s)) /\ (i + Len(s)) - Len(s) = i
      BY <1>1
    <3> QED BY <1>2, <3>1
  <2> QED BY <1>4, <1>5, <2>1
<1>9. ASSUME NEW m, Once(s, m), Once(out, m), m \notin ToSet(s) \/ m \notin ToSet(out)
      PROVE  Once(w, m)
  <2> SUFFICES ASSUME NEW i \in 1 .. Len(w), NEW j \in 1 .. Len(w), w[i] = m, w[j] = m
               PROVE  i = j
    BY DEF Once
  <2>1. CASE m \notin ToSet(out)
    <3>1. i <= Len(s) /\ j <= Len(s)
      BY <1>2, <1>4, <2>1
    <3> QED BY <1>2, <1>9, <3>1 DEF Once
  <2>2. CASE m \notin ToSet(s)
    <3>1. ~(i <= Len(s)) /\ ~(j <= Len(s))
      BY <1>2, <1>3, <2>2
    <3>2. i - Len(s) = j - Len(s)
      BY <1>2, <1>9, <3>1 DEF Once
    <3> QED BY <1>1, <1>2, <3>2
  <2> QED BY <1>9, <2>1, <2>2
<1>10. ASSUME NEW a, NEW b, Before(s, a, b), Before(out, a, b), b \notin ToSet(s) \/ a \notin ToSet(out)
       PROVE  Before(w, a, b)
  <2> SUFFICES ASSUME NEW i \in 1 .. Len(w), NEW j \in 1 .. Len(w), w[i] = a, w[j] = b
               PROVE  i < j
    BY DEF Before
  <2>0. i \in Int /\ j \in Int
    BY <1>2
  <2>1. CASE i <= Len(s) /\ j <= Len(s)
    BY <1>2, <1>10, <2>1 DEF Before
  <2>2. CASE i <= Len(s) /\ ~(j <= Len(s))
    BY <1>1, <2>0, <2>2
  <2>3. CASE ~(i <= Len(s)) /\ j <= Len(s)
    BY <1>2, <1>3, <1>4, <1>10, <2>3
  <2>4. CASE ~(i <= Len(s)) /\ ~(j <= Len(s))
    <3>1. i - Len(s) < j - Len(s)
      BY <1>2, <1>10, <2>4 DEF Before
    <3> QED BY <1>1, <2>0, <3>1
  <2> QED BY <2>1, <2>2, <2>3, <2>4
<1> QED BY <1>6, <1>7, <1>8, <1>9, <1>10 DEF w

(* Losing an end that was not sent *)
LEMMA PrefixFacts ==
  ASSUME NEW S, NEW s \in Seq(S), NEW u \in Prefixes(s)
  PROVE  /\ ToSet(u) \subseteq ToSet(s)
         /\ \A m : Once(s, m) => Once(u, m)
         /\ \A a, b : Before(s, a, b) => Before(u, a, b)
<1>1. PICK n \in 0 .. Len(s) : u = SubSeq(s, 1, n)
  BY DEF Prefixes
<1>2. /\ u \in Seq(S) /\ Len(u) = n /\ Len(s) \in Nat
      /\ \A i \in 1 .. Len(u) : i \in 1 .. Len(s) /\ u[i] = s[i]
  BY <1>1
<1>3. \A m : m \in ToSet(s) <=> \E i \in 1 .. Len(s) : s[i] = m
  BY InChannel
<1>4. \A m : m \in ToSet(u) <=> \E i \in 1 .. Len(u) : u[i] = m
  BY <1>2, InChannel
<1>5. ToSet(u) \subseteq ToSet(s)
  BY <1>2, <1>3, <1>4
<1>6. \A m : Once(s, m) => Once(u, m)
  BY <1>2 DEF Once
<1>7. \A a, b : Before(s, a, b) => Before(u, a, b)
  BY <1>2 DEF Before
<1> QED BY <1>5, <1>6, <1>7

LEMMA EmptyFacts ==
  /\ ToSet(<< >>) = {}
  /\ \A m : Once(<< >>, m)
  /\ \A a, b : Before(<< >>, a, b)
BY DEF ToSet, Once, Before

LEMMA SingleFacts ==
  ASSUME NEW x
  PROVE  /\ ToSet(<<x>>) = {x}
         /\ \A m : Once(<<x>>, m)
         /\ \A a, b : a # x \/ b # x => Before(<<x>>, a, b)
<1>1. Len(<<x>>) = 1 /\ <<x>>[1] = x
  OBVIOUS
<1>2. ToSet(<<x>>) = {x}
  BY <1>1 DEF ToSet
<1> QED BY <1>1, <1>2 DEF Once, Before

-----------------------------------------------------------------------------
(* Messages about a task                                                   *)

(* The messages about a task that matter to its life *)
BrokerNews == {"taskoffer", "taskaccepted", "taskdone", "taskerror"}
RunnerNews == {"taskofferaccept", "tasksettings", "taskcancel"}

Inbound(type, t)  == InFlight(TaskMsg(type, t), toBroker[Runner(t)])
Outbound(type, t) == InFlight(TaskMsg(type, t), toRunner[Runner(t)])

(* Only the runner of t writes about t, offers it once, accepts it once    *)
(* and reports its end after that.                                         *)
InOrder(t) ==
  /\ \A r \in Runners \ {Runner(t)}, type \in BrokerNews : ~InFlight(TaskMsg(type, t), toBroker[r])
  /\ Once(toBroker[Runner(t)], TaskMsg("taskoffer", t))
  /\ Once(toBroker[Runner(t)], TaskMsg("taskaccepted", t))
  /\ Before(toBroker[Runner(t)], TaskMsg("taskaccepted", t), TaskMsg("taskdone", t))
  /\ Before(toBroker[Runner(t)], TaskMsg("taskaccepted", t), TaskMsg("taskerror", t))

(* Only the runner of t is written to about t, and it gets settings once.  *)
OutOrder(t) ==
  /\ \A r \in Runners \ {Runner(t)}, type \in RunnerNews : ~InFlight(TaskMsg(type, t), toRunner[r])
  /\ Once(toRunner[Runner(t)], TaskMsg("tasksettings", t))

(* A step that does nothing to the messages about t *)
InboundKept(t) ==
  /\ \A type \in BrokerNews : Inbound(type, t)' <=> Inbound(type, t)
  /\ InOrder(t) => InOrder(t)'

OutboundKept(t) ==
  /\ \A type \in RunnerNews : Outbound(type, t)' => Outbound(type, t)
  /\ OutOrder(t) => OutOrder(t)'

LEMMA MsgFacts ==
  /\ \A a, b, t, u : TaskMsg(a, t) = TaskMsg(b, u) <=> a = b /\ t = u
  /\ \A a, b, t : a # b => TaskMsg(a, t) # Msg(b)
  /\ \A a, b, t, u, k : a # b => TaskMsg(a, t) # CallMsg(b, u, k)
<1>1. \A a, b, t, u : TaskMsg(a, t) = TaskMsg(b, u) <=> a = b /\ t = u
  BY DEF TaskMsg
<1>2. \A a, t : TaskMsg(a, t).type = a
  BY DEF TaskMsg
<1>3. \A b : Msg(b).type = b
  BY DEF Msg
<1>4. \A b, u, k : CallMsg(b, u, k).type = b
  BY DEF CallMsg
<1> QED BY <1>1, <1>2, <1>3, <1>4

LEMMA InboundUntouched ==
  ASSUME UNCHANGED toBroker, NEW u \in Task
  PROVE  InboundKept(u)
BY DEF InboundKept, Inbound, InOrder

LEMMA OutboundUntouched ==
  ASSUME UNCHANGED toRunner, NEW u \in Task
  PROVE  OutboundKept(u)
BY DEF OutboundKept, Outbound, OutOrder

(* What a channel keeps about u, whatever else it is read or written *)
LEMMA InboundStep ==
  ASSUME ChannelTypeOK, NEW r \in Runners, NEW s, toBroker' = [toBroker EXCEPT ![r] = s],
         NEW u \in Task,
         \A type \in BrokerNews : TaskMsg(type, u) \in ToSet(s) <=> TaskMsg(type, u) \in ToSet(toBroker[r]),
         \A type \in BrokerNews : Once(toBroker[r], TaskMsg(type, u)) => Once(s, TaskMsg(type, u)),
         \A a, b \in BrokerNews :
           Before(toBroker[r], TaskMsg(a, u), TaskMsg(b, u)) => Before(s, TaskMsg(a, u), TaskMsg(b, u))
  PROVE  InboundKept(u)
<1>1. toBroker'[r] = s /\ \A o \in Runners : o # r => toBroker'[o] = toBroker[o]
  BY DEF ChannelTypeOK
<1>2. Runner(u) \in Runners
  BY TaskRunnerType
<1>3. \A type \in BrokerNews : Inbound(type, u)' <=> Inbound(type, u)
  BY <1>1, <1>2 DEF Inbound, InFlight
<1>4. ASSUME InOrder(u)
      PROVE  InOrder(u)'
  <2>1. \A o \in Runners \ {Runner(u)}, type \in BrokerNews : ~InFlight(TaskMsg(type, u), toBroker'[o])
    BY <1>1, <1>4 DEF InOrder, InFlight
  <2>2. {"taskoffer", "taskaccepted", "taskdone", "taskerror"} = BrokerNews
    BY DEF BrokerNews
  <2> QED BY <1>1, <1>2, <1>4, <2>1, <2>2 DEF InOrder
<1> QED BY <1>3, <1>4 DEF InboundKept

(* The broker reads about something else. *)
LEMMA ReadOther ==
  ASSUME ChannelTypeOK, NEW r \in Runners, NEW m, BrokerReads(r, m), NEW u \in Task,
         \A type \in BrokerNews : TaskMsg(type, u) # m
  PROVE  InboundKept(u)
<1>1. toBroker[r] \in Seq(ToBroker) /\ toBroker[r] # << >> /\ m = Head(toBroker[r])
  BY DEF ChannelTypeOK, BrokerReads
<1>2. /\ ToSet(Tail(toBroker[r])) \subseteq ToSet(toBroker[r])
      /\ ToSet(toBroker[r]) \subseteq ToSet(Tail(toBroker[r])) \cup {m}
      /\ \A x : Once(toBroker[r], x) => Once(Tail(toBroker[r]), x)
      /\ \A a, b : Before(toBroker[r], a, b) => Before(Tail(toBroker[r]), a, b)
  BY <1>1, ReadFacts
<1>3. toBroker' = [toBroker EXCEPT ![r] = Tail(toBroker[r])]
  BY DEF BrokerReads
<1> QED BY <1>2, <1>3, InboundStep

(* The broker reads about t. *)
LEMMA ReadOwn ==
  ASSUME ChannelTypeOK, NEW r \in Runners, NEW t \in Task, NEW type \in BrokerNews,
         BrokerReads(r, TaskMsg(type, t)), InOrder(t)
  PROVE  /\ r = Runner(t)
         /\ Inbound(type, t)
         /\ \A x \in BrokerNews : Inbound(x, t)' => Inbound(x, t)
         /\ \A x \in BrokerNews \ {type} : Inbound(x, t) => Inbound(x, t)'
         /\ InOrder(t)'
         /\ type \in {"taskoffer", "taskaccepted"} => ~Inbound(type, t)'
         /\ type \in {"taskdone", "taskerror"} => ~Inbound("taskaccepted", t)
<1> DEFINE s == toBroker[r]
<1>1. s \in Seq(ToBroker) /\ s # << >> /\ TaskMsg(type, t) = Head(s)
  BY DEF ChannelTypeOK, BrokerReads
<1>2. /\ TaskMsg(type, t) \in ToSet(s)
      /\ ToSet(Tail(s)) \subseteq ToSet(s)
      /\ ToSet(s) \subseteq ToSet(Tail(s)) \cup {TaskMsg(type, t)}
      /\ Once(s, TaskMsg(type, t)) => TaskMsg(type, t) \notin ToSet(Tail(s))
      /\ \A m : Once(s, m) => Once(Tail(s), m)
      /\ \A a, b : Before(s, a, b) => Before(Tail(s), a, b)
      /\ \A a : Before(s, a, TaskMsg(type, t)) => a \notin ToSet(s)
  BY <1>1, ReadFacts
<1>3. toBroker'[r] = Tail(s) /\ \A o \in Runners : o # r => toBroker'[o] = toBroker[o]
  BY DEF BrokerReads, ChannelTypeOK
<1>4. r = Runner(t)
  BY <1>2 DEF InOrder, InFlight
<1> HIDE DEF s
<1>5. toBroker[Runner(t)] = s /\ toBroker'[Runner(t)] = Tail(s)
  BY <1>3, <1>4 DEF s
<1>6. Inbound(type, t) /\ \A x \in BrokerNews : Inbound(x, t)' => Inbound(x, t)
  BY <1>2, <1>5 DEF Inbound, InFlight
<1>7. \A x \in BrokerNews \ {type} : Inbound(x, t) => Inbound(x, t)'
  BY <1>2, <1>5, MsgFacts DEF Inbound, InFlight
<1>8. \A o \in Runners \ {Runner(t)}, x \in BrokerNews : ~InFlight(TaskMsg(x, t), toBroker'[o])
  BY <1>3, <1>4 DEF InOrder
<1>9. InOrder(t)'
  BY <1>2, <1>5, <1>8 DEF InOrder
<1>10. type \in {"taskoffer", "taskaccepted"} => ~Inbound(type, t)'
  BY <1>2, <1>5 DEF InOrder, Inbound, InFlight
<1>11. type \in {"taskdone", "taskerror"} => ~Inbound("taskaccepted", t)
  BY <1>2, <1>5 DEF InOrder, Inbound, InFlight
<1> QED BY <1>4, <1>6, <1>7, <1>9, <1>10, <1>11

(* A runner writes about something else. *)
LEMMA WriteOther ==
  ASSUME ChannelTypeOK, NEW r \in Runners, NEW out \in Seq(ToBroker),
         toBroker' = [toBroker EXCEPT ![r] = @ \o out], NEW u \in Task,
         \A type \in BrokerNews : TaskMsg(type, u) \notin ToSet(out)
  PROVE  InboundKept(u)
<1>1. toBroker[r] \in Seq(ToBroker)
  BY DEF ChannelTypeOK
<1>2. /\ ToSet(toBroker[r] \o out) = ToSet(toBroker[r]) \cup ToSet(out)
      /\ \A m : Once(toBroker[r], m) /\ Once(out, m) /\ (m \notin ToSet(toBroker[r]) \/ m \notin ToSet(out))
                  => Once(toBroker[r] \o out, m)
      /\ \A a, b : Before(toBroker[r], a, b) /\ Before(out, a, b)
                   /\ (b \notin ToSet(toBroker[r]) \/ a \notin ToSet(out)) => Before(toBroker[r] \o out, a, b)
  BY <1>1, WriteFacts
<1>3. \A m : m \in ToSet(out) <=> \E i \in 1 .. Len(out) : out[i] = m
  BY InChannel
<1>4. \A m : m \notin ToSet(out) => Once(out, m)
  BY <1>3 DEF Once
<1>5. \A a, b : a \notin ToSet(out) => Before(out, a, b)
  BY <1>3 DEF Before
<1>6. toBroker' = [toBroker EXCEPT ![r] = toBroker[r] \o out]
  OBVIOUS
<1> QED BY <1>2, <1>4, <1>5, <1>6, InboundStep

(* The runner of t writes about t, each message once and nothing that was  *)
(* written before.                                                         *)
LEMMA WriteOwn ==
  ASSUME ChannelTypeOK, NEW t \in Task, NEW out \in Seq(ToBroker),
         toBroker' = [toBroker EXCEPT ![Runner(t)] = @ \o out], InOrder(t),
         \A type \in BrokerNews : Once(out, TaskMsg(type, t)),
         \A a, b \in BrokerNews : a # b => Before(out, TaskMsg(a, t), TaskMsg(b, t)),
         TaskMsg("taskoffer", t) \notin ToSet(out) \/ ~Inbound("taskoffer", t),
         \/ TaskMsg("taskaccepted", t) \notin ToSet(out)
         \/ \A x \in {"taskaccepted", "taskdone", "taskerror"} : ~Inbound(x, t)
  PROVE  /\ \A x \in BrokerNews : Inbound(x, t)' <=> Inbound(x, t) \/ TaskMsg(x, t) \in ToSet(out)
         /\ InOrder(t)'
<1> DEFINE s == toBroker[Runner(t)]
<1>1. Runner(t) \in Runners /\ s \in Seq(ToBroker)
  BY TaskRunnerType DEF ChannelTypeOK
<1>2. /\ ToSet(s \o out) = ToSet(s) \cup ToSet(out)
      /\ \A m : Once(s, m) /\ Once(out, m) /\ (m \notin ToSet(s) \/ m \notin ToSet(out)) => Once(s \o out, m)
      /\ \A a, b : Before(s, a, b) /\ Before(out, a, b) /\ (b \notin ToSet(s) \/ a \notin ToSet(out))
                     => Before(s \o out, a, b)
  BY <1>1, WriteFacts
<1>3. /\ toBroker'[Runner(t)] = s \o out
      /\ \A o \in Runners : o # Runner(t) => toBroker'[o] = toBroker[o]
  BY <1>1 DEF ChannelTypeOK
<1>4. s = toBroker[Runner(t)]
  OBVIOUS
<1> HIDE DEF s
<1>5. \A x \in BrokerNews : Inbound(x, t)' <=> Inbound(x, t) \/ TaskMsg(x, t) \in ToSet(out)
  BY <1>2, <1>3, <1>4 DEF Inbound, InFlight
<1>6. \A o \in Runners \ {Runner(t)}, x \in BrokerNews : ~InFlight(TaskMsg(x, t), toBroker'[o])
  BY <1>3 DEF InOrder
<1>7. /\ Once(s, TaskMsg("taskoffer", t)) /\ Once(s, TaskMsg("taskaccepted", t))
      /\ Before(s, TaskMsg("taskaccepted", t), TaskMsg("taskdone", t))
      /\ Before(s, TaskMsg("taskaccepted", t), TaskMsg("taskerror", t))
  BY <1>4 DEF InOrder
<1>8. /\ Once(out, TaskMsg("taskoffer", t)) /\ Once(out, TaskMsg("taskaccepted", t))
      /\ Before(out, TaskMsg("taskaccepted", t), TaskMsg("taskdone", t))
      /\ Before(out, TaskMsg("taskaccepted", t), TaskMsg("taskerror", t))
  BY DEF BrokerNews
<1>9. /\ Once(s \o out, TaskMsg("taskoffer", t)) /\ Once(s \o out, TaskMsg("taskaccepted", t))
      /\ Before(s \o out, TaskMsg("taskaccepted", t), TaskMsg("taskdone", t))
      /\ Before(s \o out, TaskMsg("taskaccepted", t), TaskMsg("taskerror", t))
  BY <1>2, <1>4, <1>7, <1>8 DEF Inbound, InFlight
<1>10. InOrder(t)'
  BY <1>3, <1>6, <1>9 DEF InOrder
<1> QED BY <1>5, <1>10

(* The same for the channels to the runners *)
LEMMA OutboundStep ==
  ASSUME NEW u \in Task,
         \A r \in Runners : /\ \A type \in RunnerNews :
                                 TaskMsg(type, u) \in ToSet(toRunner'[r]) => TaskMsg(type, u) \in ToSet(toRunner[r])
                            /\ Once(toRunner[r], TaskMsg("tasksettings", u))
                                 => Once(toRunner'[r], TaskMsg("tasksettings", u))
  PROVE  OutboundKept(u)
<1>1. Runner(u) \in Runners
  BY TaskRunnerType
<1>2. \A type \in RunnerNews : Outbound(type, u)' => Outbound(type, u)
  BY <1>1 DEF Outbound, InFlight
<1>3. ASSUME OutOrder(u)
      PROVE  OutOrder(u)'
  BY <1>1, <1>3 DEF OutOrder, InFlight
<1> QED BY <1>2, <1>3 DEF OutboundKept

LEMMA RunnerReadKeeps ==
  ASSUME ChannelTypeOK, NEW r \in Runners, NEW m, NEW out, RunnerReads(r, m, out), NEW u \in Task
  PROVE  OutboundKept(u)
<1>1. toRunner[r] \in Seq(ToRunner) /\ toRunner[r] # << >>
  BY DEF ChannelTypeOK, RunnerReads
<1>2. /\ ToSet(Tail(toRunner[r])) \subseteq ToSet(toRunner[r])
      /\ \A x : Once(toRunner[r], x) => Once(Tail(toRunner[r]), x)
  BY <1>1, ReadFacts
<1>3. toRunner'[r] = Tail(toRunner[r]) /\ \A o \in Runners : o # r => toRunner'[o] = toRunner[o]
  BY DEF RunnerReads, ChannelTypeOK
<1> QED BY <1>2, <1>3, OutboundStep

LEMMA RunnerReadOwn ==
  ASSUME ChannelTypeOK, NEW r \in Runners, NEW t \in Task, NEW type \in RunnerNews, NEW out,
         RunnerReads(r, TaskMsg(type, t), out), OutOrder(t)
  PROVE  /\ r = Runner(t)
         /\ Outbound(type, t)
         /\ type = "tasksettings" => ~Outbound(type, t)'
<1>1. toRunner[r] \in Seq(ToRunner) /\ toRunner[r] # << >> /\ TaskMsg(type, t) = Head(toRunner[r])
  BY DEF ChannelTypeOK, RunnerReads
<1>2. /\ TaskMsg(type, t) \in ToSet(toRunner[r])
      /\ Once(toRunner[r], TaskMsg(type, t)) => TaskMsg(type, t) \notin ToSet(Tail(toRunner[r]))
  BY <1>1, ReadFacts
<1>3. toRunner'[r] = Tail(toRunner[r])
  BY DEF RunnerReads, ChannelTypeOK
<1>4. r = Runner(t)
  BY <1>2 DEF OutOrder, InFlight
<1> QED BY <1>2, <1>3, <1>4 DEF OutOrder, Outbound, InFlight

LEMMA PostOther ==
  ASSUME ChannelTypeOK, NEW r \in Runners, NEW msgs \in Seq(ToRunner), toRunner' = Posted(r, msgs),
         NEW u \in Task, \A type \in RunnerNews : TaskMsg(type, u) \notin ToSet(msgs)
  PROVE  OutboundKept(u)
<1>1. \A o \in Runners : toRunner[o] \in Seq(ToRunner)
  BY DEF ChannelTypeOK
<1>2. /\ ToSet(toRunner[r] \o msgs) = ToSet(toRunner[r]) \cup ToSet(msgs)
      /\ \A m : Once(toRunner[r], m) /\ Once(msgs, m) /\ (m \notin ToSet(toRunner[r]) \/ m \notin ToSet(msgs))
                  => Once(toRunner[r] \o msgs, m)
  BY <1>1, WriteFacts
<1>3. Once(msgs, TaskMsg("tasksettings", u)) /\ TaskMsg("tasksettings", u) \notin ToSet(msgs)
  <2>1. \A m : m \in ToSet(msgs) <=> \E i \in 1 .. Len(msgs) : msgs[i] = m
    BY InChannel
  <2> QED BY <2>1 DEF Once, RunnerNews
<1>4. \A o \in Runners : toRunner'[o] = toRunner[o] \/ (o = r /\ toRunner'[o] = toRunner[r] \o msgs)
  BY DEF Posted, ChannelTypeOK
<1> QED BY <1>2, <1>3, <1>4, OutboundStep

LEMMA PostOwn ==
  ASSUME ChannelTypeOK, NEW t \in Task, NEW type \in RunnerNews, OutOrder(t),
         toRunner' = Posted(Runner(t), <<TaskMsg(type, t)>>),
         type # "tasksettings" \/ ~Outbound("tasksettings", t)
  PROVE  /\ \A x \in RunnerNews \ {type} : Outbound(x, t)' => Outbound(x, t)
         /\ OutOrder(t)'
<1> DEFINE s == toRunner[Runner(t)]
           m == TaskMsg(type, t)
<1>1. Runner(t) \in Runners /\ s \in Seq(ToRunner) /\ m \in ToRunner /\ <<m>> \in Seq(ToRunner)
  BY TaskRunnerType, MessageTypes DEF ChannelTypeOK, RunnerNews
<1>2. /\ ToSet(<<m>>) = {m}
      /\ \A x : Once(<<m>>, x)
  BY SingleFacts
<1>3. /\ ToSet(s \o <<m>>) = ToSet(s) \cup ToSet(<<m>>)
      /\ \A x : Once(s, x) /\ Once(<<m>>, x) /\ (x \notin ToSet(s) \/ x \notin ToSet(<<m>>)) => Once(s \o <<m>>, x)
  BY <1>1, WriteFacts, ZenonT(40)
<1>4. /\ toRunner'[Runner(t)] = s \/ toRunner'[Runner(t)] = s \o <<m>>
      /\ \A o \in Runners : o # Runner(t) => toRunner'[o] = toRunner[o]
  BY <1>1 DEF Posted, ChannelTypeOK
<1>5. s = toRunner[Runner(t)] /\ \A x \in RunnerNews : TaskMsg(x, t) = m => x = type
  BY MsgFacts
<1> HIDE DEF s, m
<1>6. \A x \in RunnerNews \ {type} : Outbound(x, t)' => Outbound(x, t)
  BY <1>2, <1>3, <1>4, <1>5 DEF Outbound, InFlight
<1>7. Once(toRunner'[Runner(t)], TaskMsg("tasksettings", t))
  <2>1. Once(s, TaskMsg("tasksettings", t))
    BY <1>5 DEF OutOrder
  <2>2. TaskMsg("tasksettings", t) \notin ToSet(s) \/ TaskMsg("tasksettings", t) \notin ToSet(<<m>>)
    BY <1>2, <1>5 DEF Outbound, InFlight, RunnerNews
  <2> QED BY <1>2, <1>3, <1>4, <2>1, <2>2
<1>8. OutOrder(t)'
  BY <1>4, <1>7 DEF OutOrder
<1> QED BY <1>6, <1>8

(* The end of a process loses messages and nothing else. *)
LEMMA ExitKeeps ==
  ASSUME NEW rs, ProcessesExit(rs), NEW u \in Task
  PROVE  OutboundKept(u)
<1>1. \A r \in Runners : toRunner'[r] = toRunner[r] \/ toRunner'[r] = << >>
  BY DEF ProcessesExit
<1> QED BY <1>1, EmptyFacts, OutboundStep

InboundThins(t) ==
  /\ \A type \in BrokerNews : Inbound(type, t)' => Inbound(type, t)
  /\ InOrder(t) => InOrder(t)'

LEMMA ThinStep ==
  ASSUME NEW u \in Task,
         \A r \in Runners : /\ ToSet(toBroker'[r]) \subseteq ToSet(toBroker[r])
                            /\ \A m : Once(toBroker[r], m) => Once(toBroker'[r], m)
                            /\ \A a, b : Before(toBroker[r], a, b) => Before(toBroker'[r], a, b)
  PROVE  InboundThins(u)
<1>1. Runner(u) \in Runners
  BY TaskRunnerType
<1>2. \A type \in BrokerNews : Inbound(type, u)' => Inbound(type, u)
  BY <1>1 DEF Inbound, InFlight
<1>3. ASSUME InOrder(u)
      PROVE  InOrder(u)'
  <2>1. \A o \in Runners \ {Runner(u)}, type \in BrokerNews : ~InFlight(TaskMsg(type, u), toBroker'[o])
    BY <1>3 DEF InOrder, InFlight
  <2> QED BY <1>1, <1>3, <2>1 DEF InOrder
<1> QED BY <1>2, <1>3 DEF InboundThins

LEMMA DieThins ==
  ASSUME ChannelTypeOK, NEW rs, Die(rs), NEW u \in Task
  PROVE  /\ InboundThins(u)
         /\ Runner(u) \notin rs => InboundKept(u)
<1>1. PICK left \in [rs -> UNION {Prefixes(toBroker[r]) : r \in rs}] :
        /\ \A r \in rs : left[r] \in Prefixes(toBroker[r])
        /\ toBroker' = [r \in Runners |-> IF r \in rs THEN left[r] ELSE toBroker[r]]
  BY DEF Die
<1>2. ASSUME NEW r \in Runners
      PROVE  /\ ToSet(toBroker'[r]) \subseteq ToSet(toBroker[r])
             /\ \A m : Once(toBroker[r], m) => Once(toBroker'[r], m)
             /\ \A a, b : Before(toBroker[r], a, b) => Before(toBroker'[r], a, b)
  <2>1. CASE r \in rs
    <3>1. toBroker'[r] \in Prefixes(toBroker[r]) /\ toBroker[r] \in Seq(ToBroker)
      BY <1>1, <2>1 DEF ChannelTypeOK
    <3> QED BY <3>1, PrefixFacts
  <2>2. CASE r \notin rs
    <3>1. toBroker'[r] = toBroker[r]
      BY <1>1, <2>2
    <3> QED BY <3>1
  <2> QED BY <2>1, <2>2
<1>3. InboundThins(u)
  BY <1>2, ThinStep
<1>4. ASSUME Runner(u) \notin rs
      PROVE  InboundKept(u)
  <2>1. toBroker'[Runner(u)] = toBroker[Runner(u)]
    BY <1>1, <1>4, TaskRunnerType
  <2> QED BY <1>3, <2>1 DEF InboundThins, InboundKept, Inbound
<1> QED BY <1>3, <1>4

-----------------------------------------------------------------------------
(* The life of a task                                                      *)

Executing == {"running", "aborting:timeout", "aborting:cancelled"}

Offered(t)  == t[2] <= offersSent[Runner(t)]
Given(t)    == \E p \in Requests : reqTask[p] = t
Reported(t) == Inbound("taskdone", t) \/ Inbound("taskerror", t)

Used(t) ==
  \/ t \in accepting \cup tasks
  \/ status[t] # "none"
  \/ Inbound("taskaccepted", t) \/ Reported(t)
  \/ \E type \in RunnerNews : Outbound(type, t)

(* An offer has no request until settleTasks takes it off the list, and it *)
(* is on the list once only.                                               *)
FreshOf(t) ==
  /\ ~Offered(t) \/ Inbound("taskoffer", t) \/ t \in pendingTaskOffers => request[t] = NoRequest
  /\ Used(t) => request[t] # NoRequest
  /\ Inbound("taskoffer", t) => Offered(t) /\ t \notin ToSet(offerLog)
  /\ t \in ToSet(offerLog) \cup openOffers => Offered(t)
  /\ t \in pendingTaskOffers => t \in ToSet(offerLog)

(* Settings are sent, and code is executed, for a task whose id startTask  *)
(* was given, and this happens after the runner's acceptance was read.     *)
GivenOf(t) ==
  /\ \A p \in Requests : reqTask[p] = t => request[t] = p
  /\ Outbound("tasksettings", t) \/ status[t] \in Executing => Given(t)
  /\ Outbound("tasksettings", t) => status[t] \notin Executing
  /\ \A k \in CallKinds : <<t, k>> \in calls => Given(t) /\ ~Outbound("tasksettings", t)

(* The broker counts a task as active from the runner's acceptance to the  *)
(* end it reports, unless the task is cancelled or its runner is gone.     *)
ActiveOf(t) ==
  /\ Inbound("taskaccepted", t) \/ t \in openOffers
       => ~Given(t) /\ t \notin tasks /\ ~Outbound("taskcancel", t)
  /\ t \in openOffers => status[t] = "none" /\ ~Inbound("taskaccepted", t) /\ ~Reported(t)
  /\ Outbound("taskcancel", t) \/ status[t] = "aborting:cancelled" => t \notin tasks
  /\ Inbound("taskaccepted", t) \/ t \in tasks
       => status[t] # "none" \/ Reported(t) \/ conn[Runner(t)] = "closed"
  /\ t \in tasks => Runner(t) \in knownRunners
  /\ status[t] # "none" => conn[Runner(t)] = "open"
  /\ t \in timeoutTimer => status[t] \in Status \ {"none", "aborting:timeout"}

Life(t) == InOrder(t) /\ OutOrder(t) /\ FreshOf(t) /\ GivenOf(t) /\ ActiveOf(t)

(* A step after which the runner of u knows no more of u than before *)
RunnerQuiet(u) ==
  /\ Offered(u)' <=> Offered(u)
  /\ u \in openOffers' => u \in openOffers
  /\ u \in timeoutTimer' => u \in timeoutTimer
  /\ status'[u] = status[u]
  /\ \A k \in CallKinds : <<u, k>> \in calls' => <<u, k>> \in calls
  /\ conn[Runner(u)] # "new" => conn'[Runner(u)] = conn[Runner(u)]

(* ... and the broker neither *)
BrokerQuiet(u) ==
  /\ request'[u] = request[u]
  /\ \A p \in Requests : reqTask'[p] = u <=> reqTask[p] = u
  /\ u \in pendingTaskOffers' => u \in pendingTaskOffers
  /\ u \in ToSet(offerLog') <=> u \in ToSet(offerLog)
  /\ u \in accepting' => u \in accepting
  /\ u \in tasks' => u \in tasks /\ (Runner(u) \in knownRunners => Runner(u) \in knownRunners')

LEMMA QuietLife ==
  ASSUME NEW u \in Task, Life(u), RunnerQuiet(u), BrokerQuiet(u), OutboundKept(u), InboundThins(u),
         Reported(u) => Reported(u)' \/ (~Inbound("taskaccepted", u)' /\ u \notin tasks')
  PROVE  Life(u)'
<1>1. /\ Inbound("taskoffer", u)' => Inbound("taskoffer", u)
      /\ Inbound("taskaccepted", u)' => Inbound("taskaccepted", u)
      /\ Reported(u)' => Reported(u)
      /\ InOrder(u)'
  BY DEF InboundThins, BrokerNews, Reported, Life
<1>2. /\ Outbound("tasksettings", u)' => Outbound("tasksettings", u)
      /\ Outbound("taskcancel", u)' => Outbound("taskcancel", u)
      /\ OutOrder(u)'
  BY DEF OutboundKept, RunnerNews, Life
<1>3. Used(u)' => Used(u)
  BY <1>1 DEF Used, RunnerQuiet, BrokerQuiet, OutboundKept
<1>4. FreshOf(u)'
  BY <1>1, <1>3 DEF FreshOf, Life, RunnerQuiet, BrokerQuiet
<1>5. Given(u)' <=> Given(u)
  BY DEF Given, BrokerQuiet
<1>6. GivenOf(u)'
  BY <1>2, <1>5 DEF GivenOf, Life, RunnerQuiet, BrokerQuiet
<1>7. ActiveOf(u)'
  BY <1>1, <1>2, <1>5 DEF ActiveOf, Life, RunnerQuiet, BrokerQuiet
<1> QED BY <1>1, <1>2, <1>4, <1>6, <1>7 DEF Life

LEMMA KeptLife ==
  ASSUME NEW u \in Task, Life(u), RunnerQuiet(u), BrokerQuiet(u), OutboundKept(u), InboundKept(u)
  PROVE  Life(u)'
<1>1. InboundThins(u) /\ (Reported(u) => Reported(u)')
  BY DEF InboundKept, InboundThins, Reported, BrokerNews
<1> QED BY <1>1, QuietLife

LEMMA BrokerIdle ==
  ASSUME UNCHANGED brokerVars, NEW u \in Task
  PROVE  BrokerQuiet(u)
BY DEF brokerVars, listVars, acceptVars, reqVars, BrokerQuiet

LEMMA RunnerIdle ==
  ASSUME UNCHANGED <<conn, runnerVars>>, NEW u \in Task
  PROVE  RunnerQuiet(u)
BY DEF runnerVars, RunnerQuiet, Offered

LifeInv == \A t \in Task : Life(t)

-----------------------------------------------------------------------------
(* What the runner's steps do to the life of a task                        *)

LEMMA RunnerReadsLife ==
  ASSUME ChannelTypeOK, UNCHANGED brokerVars, NEW r \in Runners, NEW m, NEW out \in Seq(ToBroker),
         RunnerReads(r, m, out), NEW u \in Task, Life(u), RunnerQuiet(u),
         \A type \in BrokerNews : TaskMsg(type, u) \notin ToSet(out)
  PROVE  Life(u)'
<1>1. OutboundKept(u)
  BY RunnerReadKeeps
<1>2. InboundKept(u)
  BY WriteOther DEF RunnerReads
<1>3. BrokerQuiet(u)
  BY BrokerIdle
<1> QED BY <1>1, <1>2, <1>3, KeptLife

LEMMA ConnectLife ==
  ASSUME ChannelTypeOK, LifeInv, UNCHANGED brokerVars, NEW r \in Runners, Connect(r)
  PROVE  LifeInv'
<1> SUFFICES ASSUME NEW u \in Task
             PROVE  Life(u)'
  BY DEF LifeInv
<1>1. ToSet(<<Msg("inforequest")>>) = {Msg("inforequest")} /\ \A m : Once(<<Msg("inforequest")>>, m)
  BY SingleFacts
<1>2. \A o \in Runners : toRunner'[o] = toRunner[o] \/ toRunner'[o] = <<Msg("inforequest")>>
  BY DEF Connect, ChannelTypeOK
<1>3. \A type \in RunnerNews : TaskMsg(type, u) # Msg("inforequest")
  BY MsgFacts DEF RunnerNews
<1>4. OutboundKept(u)
  BY <1>1, <1>2, <1>3, OutboundStep
<1>5. InboundKept(u)
  BY InboundUntouched DEF Connect
<1>6. RunnerQuiet(u)
  BY DEF Connect, runnerVars, RunnerQuiet, Offered, ChannelTypeOK
<1> QED BY <1>4, <1>5, <1>6, BrokerIdle, KeptLife DEF LifeInv

(* The messages that say nothing of the life of a task *)
LEMMA RunnerReadsPlain ==
  ASSUME ChannelTypeOK, LifeInv, UNCHANGED brokerVars, NEW r \in Runners,
         \/ OnInfoRequest(r) \/ OnRunnerRegistered(r) \/ OnDrain(r)
         \/ \E t \in Task : LauncherDefers(r, t)
         \/ \E t \in Task, k \in CallKinds : OnResponse(r, t, k)
  PROVE  LifeInv'
<1> SUFFICES ASSUME NEW u \in Task
             PROVE  Life(u)'
  BY DEF LifeInv
<1>0. Life(u)
  BY DEF LifeInv
<1>1. << >> \in Seq(ToBroker) /\ \A type \in BrokerNews : TaskMsg(type, u) \notin ToSet(<< >>)
  BY EmptyFacts
<1>2. CASE OnInfoRequest(r)
  <2>1. <<Msg("info")>> \in Seq(ToBroker) /\ ToSet(<<Msg("info")>>) = {Msg("info")}
    BY MessageTypes, SingleFacts
  <2>2. \A type \in BrokerNews : TaskMsg(type, u) \notin ToSet(<<Msg("info")>>)
    BY <2>1, MsgFacts DEF BrokerNews
  <2>3. RunnerQuiet(u)
    BY <1>2, RunnerIdle DEF OnInfoRequest, RunnerReads
  <2> QED BY <1>0, <1>2, <2>1, <2>2, <2>3, RunnerReadsLife DEF OnInfoRequest
<1>3. CASE OnRunnerRegistered(r)
  <2>1. RunnerQuiet(u)
    BY <1>3 DEF OnRunnerRegistered, RunnerReads, RunnerQuiet, Offered
  <2> QED BY <1>0, <1>1, <1>3, <2>1, RunnerReadsLife DEF OnRunnerRegistered
<1>4. CASE OnDrain(r)
  <2>1. RunnerQuiet(u)
    BY <1>4 DEF OnDrain, RunnerReads, RunnerQuiet, Offered
  <2> QED BY <1>0, <1>1, <1>4, <2>1, RunnerReadsLife DEF OnDrain
<1>5. ASSUME NEW t \in Task, LauncherDefers(r, t)
      PROVE  Life(u)'
  <2> DEFINE m == TaskMsg("taskdeferred", t)
  <2>1. <<m>> \in Seq(ToBroker) /\ ToSet(<<m>>) = {m}
    BY MessageTypes, SingleFacts
  <2>2. \A type \in BrokerNews : TaskMsg(type, u) \notin ToSet(<<m>>)
    BY <2>1, MsgFacts DEF BrokerNews
  <2>3. RunnerQuiet(u)
    BY <1>5, RunnerIdle DEF LauncherDefers, RunnerReads
  <2> QED BY <1>0, <1>5, <2>1, <2>2, <2>3, RunnerReadsLife DEF LauncherDefers
<1>6. ASSUME NEW t \in Task, NEW k \in CallKinds, OnResponse(r, t, k)
      PROVE  Life(u)'
  <2>1. RunnerQuiet(u)
    BY <1>6 DEF OnResponse, RunnerReads, RunnerQuiet, Offered
  <2> QED BY <1>0, <1>1, <1>6, <2>1, RunnerReadsLife DEF OnResponse
<1> QED BY <1>2, <1>3, <1>4, <1>5, <1>6

(* sendOffers, for a task that is not the one just finished: it may be one *)
(* of the new offers.                                                      *)
LEMMA SendOffersLife ==
  ASSUME ChannelTypeOK, RunnerTypeOK, UNCHANGED <<conn, brokerVars>>,
         NEW r \in Runners, NEW stale \in Stale(r), NEW done,
         NEW new, new = NewOffers(r, stale, done), SendOffers(r, stale, done),
         NEW out \in Seq(ToBroker), toBroker' = [toBroker EXCEPT ![r] = @ \o out],
         NEW u \in Task, Life(u), OutboundKept(u), status'[u] = status[u],
         u \in timeoutTimer' => u \in timeoutTimer,
         \A k \in CallKinds : <<u, k>> \in calls' => <<u, k>> \in calls,
         Once(out, TaskMsg("taskoffer", u)),
         \A type \in BrokerNews : TaskMsg(type, u) \in ToSet(out) => type = "taskoffer" /\ u \in {r} \X new
  PROVE  Life(u)'
<1>0. BrokerQuiet(u)
  BY BrokerIdle
<1>1. /\ Cardinality(new) \in Nat /\ offersSent[r] \in Nat
      /\ new = offersSent[r] + 1 .. offersSent[r] + Cardinality(new)
      /\ {r} \X new \subseteq Task
  BY NewOffersType DEF RunnerTypeOK
<1>2. /\ openOffers' = (openOffers \ stale) \cup ({r} \X new)
      /\ offersSent' = [offersSent EXCEPT ![r] = @ + Cardinality(new)]
  BY DEF SendOffers
<1>3. u = <<u[1], u[2]>> /\ Runner(u) = u[1] /\ u[1] \in Runners /\ u[2] \in Nat
  BY BoundsAssumption DEF Task, Runner
<1>4. CASE u \notin {r} \X new
  <2>1. InboundKept(u)
    BY <1>4, WriteOther
  <2>2. Offered(u)' <=> Offered(u)
    <3>1. CASE u[1] # r
      BY <1>2, <1>3, <3>1 DEF Offered, RunnerTypeOK
    <3>2. CASE u[1] = r
      <4>1. u[2] \notin new
        BY <1>3, <1>4, <3>2
      <4>2. offersSent'[r] = offersSent[r] + Cardinality(new)
        BY <1>2 DEF RunnerTypeOK
      <4> QED BY <1>1, <1>3, <3>2, <4>1, <4>2 DEF Offered
    <3> QED BY <3>1, <3>2
  <2>3. RunnerQuiet(u)
    BY <1>2, <1>4, <2>2 DEF RunnerQuiet
  <2> QED BY <1>0, <2>1, <2>3, KeptLife
<1>5. CASE u \in {r} \X new
  <2>1. u[1] = r /\ u[2] \in new
    BY <1>5
  <2>2. ~Offered(u) /\ Offered(u)'
    <3>1. offersSent'[r] = offersSent[r] + Cardinality(new)
      BY <1>2 DEF RunnerTypeOK
    <3> QED BY <1>1, <1>3, <2>1, <3>1 DEF Offered
  <2>3. request[u] = NoRequest /\ ~Used(u) /\ ~Inbound("taskoffer", u) /\ u \notin pendingTaskOffers
    BY <2>2 DEF Life, FreshOf
  <2>4. /\ ~Inbound("taskaccepted", u) /\ ~Reported(u) /\ status[u] = "none"
        /\ u \notin tasks /\ \A type \in RunnerNews : ~Outbound(type, u)
    BY <2>3 DEF Used
  <2>5. ~Given(u)
    BY <2>3, NoRequestAssumption DEF Given, Life, GivenOf
  <2>6. /\ \A x \in BrokerNews : Inbound(x, u)' <=> Inbound(x, u) \/ TaskMsg(x, u) \in ToSet(out)
        /\ InOrder(u)'
    <3>1. \A m : m \in ToSet(out) <=> \E i \in 1 .. Len(out) : out[i] = m
      BY InChannel
    <3>2. \A type \in BrokerNews : Once(out, TaskMsg(type, u))
      <4>1. \A type \in BrokerNews \ {"taskoffer"} : TaskMsg(type, u) \notin ToSet(out)
        OBVIOUS
      <4> QED BY <3>1, <4>1 DEF Once
    <3>3. \A a, b \in BrokerNews : a # b => Before(out, TaskMsg(a, u), TaskMsg(b, u))
      <4>1. \A a, b \in BrokerNews : a # b => TaskMsg(a, u) \notin ToSet(out) \/ TaskMsg(b, u) \notin ToSet(out)
        OBVIOUS
      <4> QED BY <3>1, <4>1 DEF Before
    <3>4. TaskMsg("taskaccepted", u) \notin ToSet(out)
      BY DEF BrokerNews
    <3>5. toBroker' = [toBroker EXCEPT ![Runner(u)] = @ \o out] /\ InOrder(u)
      BY <1>3, <2>1 DEF Life
    <3> QED BY <2>3, <3>2, <3>3, <3>4, <3>5, WriteOwn
  <2>7. ~Inbound("taskaccepted", u)' /\ ~Reported(u)'
    BY <2>4, <2>6 DEF Reported, BrokerNews
  <2>8. \A type \in RunnerNews : ~Outbound(type, u)'
    BY <2>4 DEF OutboundKept
  <2>9. /\ request'[u] = request[u] /\ (Given(u)' <=> Given(u)) /\ status'[u] = "none"
        /\ u \notin ToSet(offerLog') /\ u \notin pendingTaskOffers' /\ u \notin tasks' /\ u \notin accepting'
    BY <1>0, <2>2, <2>3, <2>4 DEF BrokerQuiet, Given, Life, FreshOf, Used
  <2>10. FreshOf(u)'
    BY <2>2, <2>3, <2>7, <2>8, <2>9 DEF FreshOf, Used
  <2>11. GivenOf(u)'
    BY <2>4, <2>5, <2>8, <2>9 DEF GivenOf, Life, BrokerQuiet, Given, Executing, RunnerNews
  <2>12. ActiveOf(u)'
    BY <2>4, <2>5, <2>7, <2>8, <2>9 DEF ActiveOf, Life, RunnerNews
  <2>13. OutOrder(u)'
    BY DEF OutboundKept, Life
  <2> QED BY <2>6, <2>10, <2>11, <2>12, <2>13 DEF Life
<1> QED BY <1>4, <1>5

(* The offers of one call of sendOffers differ, and come behind the report *)
(* rep of the task that has just finished.                                 *)
LEMMA OfferMsgsFacts ==
  ASSUME RunnerTypeOK, NEW r \in Runners, NEW stale, NEW done, NEW new, new = NewOffers(r, stale, done)
  PROVE  /\ OfferMsgs(r, new) \in Seq(ToBroker)
         /\ \A type, u : TaskMsg(type, u) \in ToSet(OfferMsgs(r, new)) => type = "taskoffer" /\ u \in {r} \X new
         /\ \A m : Once(OfferMsgs(r, new), m)
<1> DEFINE s == OfferMsgs(r, new)
<1>1. /\ Cardinality(new) \in Nat /\ offersSent[r] \in Nat
      /\ new = offersSent[r] + 1 .. offersSent[r] + Cardinality(new)
      /\ s \in Seq(ToBroker)
  BY NewOffersType DEF RunnerTypeOK
<1>2. /\ Len(s) = Cardinality(new)
      /\ \A i \in 1 .. Len(s) : s[i] = TaskMsg("taskoffer", <<r, offersSent[r] + i>>)
  BY <1>1 DEF OfferMsgs
<1> HIDE DEF s
<1>3. \A m : m \in ToSet(s) <=> \E i \in 1 .. Len(s) : s[i] = m
  BY <1>1, InChannel
<1>4. \A i \in 1 .. Len(s) : <<r, offersSent[r] + i>> \in {r} \X new
  BY <1>1, <1>2
<1>5. \A type, u : TaskMsg(type, u) \in ToSet(s) => type = "taskoffer" /\ u \in {r} \X new
  <2> SUFFICES ASSUME NEW type, NEW u, TaskMsg(type, u) \in ToSet(s)
               PROVE  type = "taskoffer" /\ u \in {r} \X new
    OBVIOUS
  <2>1. PICK i \in 1 .. Len(s) : s[i] = TaskMsg(type, u)
    BY <1>3
  <2> DEFINE t == <<r, offersSent[r] + i>>
  <2>2. TaskMsg("taskoffer", t) = TaskMsg(type, u) /\ t \in {r} \X new
    BY <1>2, <1>4, <2>1
  <2> HIDE DEF t
  <2>3. type = "taskoffer" /\ u = t
    BY <2>2, MsgFacts
  <2> QED BY <2>2, <2>3
<1>6. ASSUME NEW m
      PROVE  Once(s, m)
  <2> SUFFICES ASSUME NEW i \in 1 .. Len(s), NEW j \in 1 .. Len(s), s[i] = m, s[j] = m
               PROVE  i = j
    BY DEF Once
  <2> DEFINE t == <<r, offersSent[r] + i>>
             u == <<r, offersSent[r] + j>>
  <2>0. TaskMsg("taskoffer", t) = TaskMsg("taskoffer", u)
    BY <1>2
  <2> HIDE DEF t, u
  <2>1. t = u
    BY <2>0, MsgFacts
  <2>2. offersSent[r] + i = offersSent[r] + j
    BY <2>1 DEF t, u
  <2> QED BY <1>1, <1>2, <2>2
<1> QED BY <1>1, <1>5, <1>6 DEF s

LEMMA OfferIntervalLife ==
  ASSUME ChannelTypeOK, RunnerTypeOK, LifeInv, UNCHANGED brokerVars, NEW r \in Runners, OfferInterval(r)
  PROVE  LifeInv'
<1> SUFFICES ASSUME NEW u \in Task
             PROVE  Life(u)'
  BY DEF LifeInv
<1>1. PICK stale \in Stale(r) :
        /\ SendOffers(r, stale, {})
        /\ toBroker' = [toBroker EXCEPT ![r] = @ \o OfferMsgs(r, NewOffers(r, stale, {}))]
  BY DEF OfferInterval
<1> DEFINE new == NewOffers(r, stale, {})
           out == OfferMsgs(r, new)
<1>2. /\ out \in Seq(ToBroker)
      /\ \A type, t : TaskMsg(type, t) \in ToSet(out) => type = "taskoffer" /\ t \in {r} \X new
      /\ \A m : Once(out, m)
  BY OfferMsgsFacts
<1>3. toBroker' = [toBroker EXCEPT ![r] = @ \o out]
  BY <1>1
<1>4. OutboundKept(u)
  BY OutboundUntouched DEF OfferInterval
<1>5. UNCHANGED <<conn, status, timeoutTimer, calls>>
  BY DEF OfferInterval
<1> HIDE DEF out
<1> QED BY <1>1, <1>2, <1>3, <1>4, <1>5, SendOffersLife DEF LifeInv

LEMMA LauncherRegisteredLife ==
  ASSUME ChannelTypeOK, RunnerTypeOK, LifeInv, UNCHANGED brokerVars, NEW r \in Runners,
         LauncherRegistered(r)
  PROVE  LifeInv'
<1> SUFFICES ASSUME NEW u \in Task
             PROVE  Life(u)'
  BY DEF LifeInv
<1> DEFINE t == <<r, offersSent[r] + 1>>
           m == TaskMsg("taskoffer", t)
<1>0. Life(u) /\ BrokerQuiet(u)
  BY BrokerIdle DEF LifeInv
<1>1. RunnerReads(r, Msg("runnerregistered"), <<m>>)
  BY DEF LauncherRegistered
<1>2. offersSent[r] \in Nat /\ t \in Task
  BY BoundsAssumption DEF LauncherRegistered, RunnerTypeOK, Task
<1>3. /\ <<m>> \in Seq(ToBroker) /\ ToSet(<<m>>) = {m} /\ (\A x : Once(<<m>>, x))
      /\ \A a, b : a # m \/ b # m => Before(<<m>>, a, b)
  BY <1>2, MessageTypes, SingleFacts
<1>4. OutboundKept(u)
  BY <1>1, RunnerReadKeeps
<1>5. toBroker' = [toBroker EXCEPT ![r] = @ \o <<m>>] /\ UNCHANGED conn
  BY <1>1 DEF RunnerReads
<1>6. u = <<u[1], u[2]>> /\ Runner(u) = u[1] /\ u[1] \in Runners /\ u[2] \in Nat
  BY BoundsAssumption DEF Task, Runner
<1>7. offersSent'[r] = offersSent[r] + 1 /\ \A o \in Runners : o # r => offersSent'[o] = offersSent[o]
  BY DEF LauncherRegistered, RunnerTypeOK
<1>8. UNCHANGED <<openOffers, status, timeoutTimer, calls>>
  BY DEF LauncherRegistered
<1>9. CASE u # t
  <2>1. \A type \in BrokerNews : TaskMsg(type, u) \notin ToSet(<<m>>)
    BY <1>3, <1>9, MsgFacts
  <2>2. InboundKept(u)
    BY <1>3, <1>5, <2>1, WriteOther
  <2>3. Offered(u)' <=> Offered(u)
    BY <1>2, <1>6, <1>7, <1>9 DEF Offered
  <2>4. RunnerQuiet(u)
    BY <1>5, <1>8, <2>3 DEF RunnerQuiet
  <2> QED BY <1>0, <1>4, <2>2, <2>4, KeptLife
<1>10. CASE u = t
  <2>1. Runner(u) = r /\ ~Offered(u) /\ Offered(u)'
    BY <1>2, <1>7, <1>10 DEF Offered, Runner
  <2>2. request[u] = NoRequest /\ ~Used(u) /\ ~Inbound("taskoffer", u) /\ u \notin pendingTaskOffers
    BY <1>0, <2>1 DEF Life, FreshOf
  <2>3. /\ ~Inbound("taskaccepted", u) /\ ~Reported(u) /\ status[u] = "none"
        /\ u \notin tasks /\ \A type \in RunnerNews : ~Outbound(type, u)
    BY <2>2 DEF Used
  <2>4. ~Given(u) /\ u \notin openOffers
    BY <1>0, <2>1, <2>2, NoRequestAssumption DEF Given, Life, GivenOf, FreshOf
  <2>5. /\ \A x \in BrokerNews : Inbound(x, u)' <=> Inbound(x, u) \/ TaskMsg(x, u) \in ToSet(<<m>>)
        /\ InOrder(u)'
    <3>1. \A a, b \in BrokerNews : a # b => Before(<<m>>, TaskMsg(a, u), TaskMsg(b, u))
      BY <1>3, MsgFacts
    <3>2. TaskMsg("taskaccepted", u) \notin ToSet(<<m>>)
      BY <1>3, MsgFacts
    <3>3. toBroker' = [toBroker EXCEPT ![Runner(u)] = @ \o <<m>>] /\ InOrder(u)
      BY <1>0, <1>5, <2>1 DEF Life
    <3> QED BY <1>3, <2>2, <3>1, <3>2, <3>3, WriteOwn
  <2>6. ~Inbound("taskaccepted", u)' /\ ~Reported(u)'
    BY <1>3, <2>3, <2>5, MsgFacts DEF Reported, BrokerNews
  <2>7. \A type \in RunnerNews : ~Outbound(type, u)'
    BY <1>4, <2>3 DEF OutboundKept
  <2>8. /\ request'[u] = request[u] /\ (Given(u)' <=> Given(u)) /\ status'[u] = "none"
        /\ u \notin ToSet(offerLog') /\ u \notin pendingTaskOffers' /\ u \notin tasks' /\ u \notin accepting'
    BY <1>0, <1>8, <2>1, <2>2, <2>3 DEF BrokerQuiet, Given, Life, FreshOf, Used
  <2>9. FreshOf(u)'
    BY <2>1, <2>2, <2>6, <2>7, <2>8 DEF FreshOf, Used
  <2>10. GivenOf(u)'
    BY <1>0, <1>8, <2>3, <2>4, <2>7, <2>8 DEF GivenOf, Life, BrokerQuiet, Given, Executing, RunnerNews
  <2>11. ActiveOf(u)'
    BY <1>0, <1>8, <2>3, <2>4, <2>6, <2>7, <2>8 DEF ActiveOf, Life, RunnerNews
  <2>12. OutOrder(u)'
    BY <1>0, <1>4 DEF OutboundKept, Life
  <2> QED BY <2>5, <2>9, <2>10, <2>11, <2>12 DEF Life
<1> QED BY <1>9, <1>10

(* finishTask with the report rep, which may be missing only if the broker *)
(* does not wait for it.                                                   *)
LEMMA FinishLife ==
  ASSUME ChannelTypeOK, RunnerTypeOK, LifeInv, UNCHANGED <<conn, brokerVars>>,
         NEW t \in Task, status[t] # "none", NEW stale \in Stale(Runner(t)), FinishTask(t, stale),
         NEW rep \in Seq(ToBroker), NEW out \in Seq(ToBroker),
         out = rep \o FinishMsgs(t, stale) \/ (rep = << >> /\ out = FinishMsgs(t, stale)),
         toBroker' = [toBroker EXCEPT ![Runner(t)] = @ \o out],
         \/ rep = <<TaskMsg("taskdone", t)>>
         \/ rep = <<TaskMsg("taskerror", t)>>
         \/ rep = << >> /\ ~Inbound("taskaccepted", t) /\ t \notin tasks,
         \A u \in Task : OutboundKept(u), UNCHANGED calls
  PROVE  LifeInv'
<1> DEFINE r == Runner(t)
           new == NewOffers(r, stale, {t})
           offers == OfferMsgs(r, new)
<1>1. r \in Runners
  BY TaskRunnerType
<1>2. /\ offers \in Seq(ToBroker)
      /\ \A type, u : TaskMsg(type, u) \in ToSet(offers) => type = "taskoffer" /\ u \in {r} \X new
      /\ \A m : Once(offers, m)
  BY <1>1, OfferMsgsFacts
<1>3. FinishMsgs(t, stale) = offers /\ SendOffers(r, stale, {t})
  BY DEF FinishMsgs, FinishTask
<1>4. status' = [status EXCEPT ![t] = "none"] /\ timeoutTimer' = timeoutTimer \ {t}
  BY DEF FinishTask
<1> HIDE DEF offers, new, r
<1>5. /\ \A m : m \in ToSet(rep) => m = TaskMsg("taskdone", t) \/ m = TaskMsg("taskerror", t)
      /\ \A m : Once(rep, m)
      /\ \A a : Before(rep, TaskMsg("taskaccepted", t), a)
      /\ rep # << >> => TaskMsg("taskdone", t) \in ToSet(rep) \/ TaskMsg("taskerror", t) \in ToSet(rep)
  <2>1. \A x : /\ ToSet(<<x>>) = {x} /\ (\A m : Once(<<x>>, m))
               /\ \A a, b : a # x \/ b # x => Before(<<x>>, a, b)
    BY SingleFacts
  <2>2. TaskMsg("taskaccepted", t) # TaskMsg("taskdone", t) /\ TaskMsg("taskaccepted", t) # TaskMsg("taskerror", t)
    BY MsgFacts
  <2> QED BY <2>1, <2>2, EmptyFacts
<1>6. /\ ToSet(out) = ToSet(rep) \cup ToSet(offers)
      /\ \A m : m \notin ToSet(rep) \/ m \notin ToSet(offers) => Once(out, m)
  <2>1. CASE out = rep \o offers
    BY <1>2, <1>5, <2>1, WriteFacts
  <2>2. CASE rep = << >> /\ out = offers
    BY <1>2, <2>2, EmptyFacts
  <2> QED BY <1>3, <2>1, <2>2
<1>7. ASSUME NEW u \in Task, u # t
      PROVE  Life(u)'
  <2>1. \A type \in BrokerNews : TaskMsg(type, u) \notin ToSet(rep)
    BY <1>5, <1>7, MsgFacts
  <2>2. Once(out, TaskMsg("taskoffer", u))
    BY <1>6, <2>1 DEF BrokerNews
  <2>3. \A type \in BrokerNews : TaskMsg(type, u) \in ToSet(out) => type = "taskoffer" /\ u \in {r} \X new
    BY <1>2, <1>6, <2>1
  <2>4. /\ toBroker' = [toBroker EXCEPT ![r] = @ \o out] /\ stale \in Stale(r) /\ UNCHANGED conn
        /\ new = NewOffers(r, stale, {t})
    BY DEF r, new
  <2>5. u \in timeoutTimer' => u \in timeoutTimer
    BY <1>4
  <2>6. status'[u] = status[u]
    BY <1>4, <1>7 DEF RunnerTypeOK
  <2>7. Life(u) /\ OutboundKept(u) /\ \A k \in CallKinds : <<u, k>> \in calls' => <<u, k>> \in calls
    BY DEF LifeInv
  <2> HIDE DEF LifeInv
  <2> QED BY <1>1, <1>3, <2>2, <2>3, <2>4, <2>5, <2>6, <2>7, SendOffersLife DEF r, new
<1>8. Life(t)'
  <2>0. Life(t) /\ BrokerQuiet(t) /\ OutboundKept(t)
    BY BrokerIdle DEF LifeInv
  <2>1. Offered(t) /\ request[t] # NoRequest /\ ~Inbound("taskoffer", t) /\ t \notin pendingTaskOffers
    BY <2>0 DEF Life, FreshOf, Used
  <2>2. t = <<t[1], t[2]>> /\ t[1] = r /\ t[2] \in Nat
    BY BoundsAssumption DEF Task, Runner, r
  <2>3. /\ Cardinality(new) \in Nat /\ offersSent[r] \in Nat
        /\ new = offersSent[r] + 1 .. offersSent[r] + Cardinality(new)
    BY <1>1, NewOffersType DEF RunnerTypeOK, new
  <2>4. t \notin {r} \X new
    <3>1. t[2] <= offersSent[r]
      BY <2>1 DEF Offered, r
    <3> QED BY <2>2, <2>3, <3>1
  <2>5. Offered(t)'
    <3>1. offersSent'[r] = offersSent[r] + Cardinality(new)
      BY <1>1, <1>3 DEF SendOffers, RunnerTypeOK, new
    <3> QED BY <2>1, <2>2, <2>3, <3>1 DEF Offered, r
  <2>6. t \notin openOffers'
    <3>1. t \notin openOffers
      BY <2>0 DEF Life, ActiveOf
    <3> QED BY <1>3, <2>4, <3>1 DEF SendOffers, new
  <2>7. /\ \A x \in BrokerNews : Inbound(x, t)' <=> Inbound(x, t) \/ TaskMsg(x, t) \in ToSet(out)
        /\ InOrder(t)'
    <3>1. \A type \in BrokerNews : TaskMsg(type, t) \notin ToSet(offers)
      BY <1>2, <2>4
    <3>2. \A type \in BrokerNews : Once(out, TaskMsg(type, t))
      BY <1>6, <3>1
    <3>3. TaskMsg("taskoffer", t) \notin ToSet(out) /\ TaskMsg("taskaccepted", t) \notin ToSet(out)
      BY <1>5, <1>6, <3>1, MsgFacts DEF BrokerNews
    <3>4. \A m : m \in ToSet(out) <=> \E i \in 1 .. Len(out) : out[i] = m
      BY InChannel
    <3>5. \A a, b \in BrokerNews : a # b => Before(out, TaskMsg(a, t), TaskMsg(b, t))
      <4>1. TaskMsg("taskdone", t) \notin ToSet(out) \/ TaskMsg("taskerror", t) \notin ToSet(out)
        BY <1>6, <3>1, SingleFacts, EmptyFacts, MsgFacts DEF BrokerNews
      <4>2. \A a, b \in BrokerNews : a # b => TaskMsg(a, t) \notin ToSet(out) \/ TaskMsg(b, t) \notin ToSet(out)
        BY <3>3, <4>1 DEF BrokerNews
      <4> QED BY <3>4, <4>2 DEF Before
    <3>6. InOrder(t)
      BY <2>0 DEF Life
    <3> QED BY <3>2, <3>3, <3>5, <3>6, WriteOwn
  <2>8. /\ Inbound("taskoffer", t)' => Inbound("taskoffer", t)
        /\ Inbound("taskaccepted", t)' => Inbound("taskaccepted", t)
        /\ rep # << >> => Reported(t)'
        /\ Reported(t) => Reported(t)'
    BY <1>2, <1>5, <1>6, <2>4, <2>7, MsgFacts DEF Reported, BrokerNews
  <2>9. /\ request'[t] = request[t] /\ (Given(t)' <=> Given(t)) /\ status'[t] = "none"
        /\ t \notin pendingTaskOffers' /\ (t \in tasks' => t \in tasks) /\ t \notin timeoutTimer'
    BY <1>4, <2>0, <2>1 DEF BrokerQuiet, Given, RunnerTypeOK
  <2>10. FreshOf(t)'
    BY <2>0, <2>1, <2>5, <2>8, <2>9 DEF FreshOf
  <2>11. GivenOf(t)'
    BY <2>0, <2>9 DEF GivenOf, Life, BrokerQuiet, Executing, OutboundKept, RunnerNews
  <2>12. ActiveOf(t)'
    <3>1. /\ Outbound("taskcancel", t)' => Outbound("taskcancel", t)
          /\ UNCHANGED <<tasks, knownRunners, conn>>
      BY <2>0 DEF OutboundKept, RunnerNews, brokerVars, listVars
    <3>2. Inbound("taskaccepted", t)' \/ t \in tasks' => Reported(t)'
      <4>1. rep # << >> \/ (~Inbound("taskaccepted", t) /\ t \notin tasks)
        OBVIOUS
      <4> QED BY <2>8, <2>9, <4>1
    <3> QED BY <2>0, <2>6, <2>8, <2>9, <3>1, <3>2 DEF ActiveOf, Life
  <2>13. OutOrder(t)'
    BY <2>0 DEF OutboundKept, Life
  <2> QED BY <2>7, <2>10, <2>11, <2>12, <2>13 DEF Life
<1> QED BY <1>7, <1>8 DEF LifeInv

(* A step that changes the status of t within execution *)
LEMMA StatusLife ==
  ASSUME NEW t \in Task, Life(t), BrokerQuiet(t), OutboundKept(t), InboundKept(t),
         Offered(t)' <=> Offered(t),
         t \in openOffers' => t \in openOffers,
         t \in timeoutTimer' => t \in timeoutTimer /\ status'[t] # "aborting:timeout",
         status[t] # "none", status'[t] \in Executing,
         status[t] \in Executing \/ (Outbound("tasksettings", t) /\ ~Outbound("tasksettings", t)'),
         \A k \in CallKinds : <<t, k>> \in calls' => <<t, k>> \in calls,
         conn' = conn,
         status'[t] = "aborting:cancelled" => t \notin tasks
  PROVE  Life(t)'
<1>1. /\ Inbound("taskoffer", t)' => Inbound("taskoffer", t)
      /\ Inbound("taskaccepted", t)' => Inbound("taskaccepted", t)
      /\ Reported(t)' <=> Reported(t)
      /\ InOrder(t)'
  BY DEF InboundKept, BrokerNews, Reported, Life
<1>2. /\ Outbound("tasksettings", t)' => Outbound("tasksettings", t)
      /\ Outbound("taskcancel", t)' => Outbound("taskcancel", t)
      /\ OutOrder(t)'
  BY DEF OutboundKept, RunnerNews, Life
<1>3. Used(t)
  BY DEF Used
<1>4. FreshOf(t)'
  BY <1>1, <1>3 DEF FreshOf, Life, BrokerQuiet
<1>5. (Given(t)' <=> Given(t)) /\ Given(t)
  BY DEF Given, BrokerQuiet, Life, GivenOf
<1>6. GivenOf(t)'
  BY <1>2, <1>5 DEF GivenOf, Life, BrokerQuiet
<1>7. ActiveOf(t)'
  BY <1>1, <1>2, <1>5 DEF ActiveOf, Life, BrokerQuiet, Executing, Status
<1> QED BY <1>1, <1>2, <1>4, <1>6, <1>7 DEF Life

LEMMA OnTaskSettingsLife ==
  ASSUME ChannelTypeOK, RunnerTypeOK, LifeInv, UNCHANGED brokerVars, NEW r \in Runners, NEW t \in Task,
         OnTaskSettings(r, t)
  PROVE  LifeInv'
<1> SUFFICES ASSUME NEW u \in Task
             PROVE  Life(u)'
  BY DEF LifeInv
<1>0. Life(u) /\ Life(t) /\ BrokerQuiet(u)
  BY BrokerIdle DEF LifeInv
<1>1. RunnerReads(r, TaskMsg("tasksettings", t), << >>)
  BY DEF OnTaskSettings
<1>2. << >> \in Seq(ToBroker) /\ \A type \in BrokerNews : TaskMsg(type, u) \notin ToSet(<< >>)
  BY EmptyFacts
<1>3. CASE status'[u] = status[u]
  <2>1. RunnerQuiet(u)
    BY <1>1, <1>3 DEF OnTaskSettings, RunnerReads, RunnerQuiet, Offered
  <2> QED BY <1>0, <1>1, <1>2, <2>1, RunnerReadsLife
<1>4. CASE status'[u] # status[u]
  <2>1. u = t /\ status[u] = "waitingForSettings" /\ status'[u] = "running"
    BY <1>4 DEF OnTaskSettings, RunnerTypeOK
  <2>2. Outbound("tasksettings", u) /\ ~Outbound("tasksettings", u)'
    BY <1>0, <1>1, <2>1, RunnerReadOwn DEF RunnerNews, Life
  <2>3. OutboundKept(u)
    BY <1>1, RunnerReadKeeps
  <2>4. InboundKept(u)
    BY <1>1, <1>2, WriteOther DEF RunnerReads
  <2>5. /\ Offered(u)' <=> Offered(u)
        /\ UNCHANGED <<openOffers, timeoutTimer, calls, conn>>
    BY <1>1 DEF OnTaskSettings, RunnerReads, Offered
  <2> QED BY <1>0, <2>1, <2>2, <2>3, <2>4, <2>5, StatusLife DEF Executing
<1> QED BY <1>3, <1>4

LEMMA OnTaskCancelLife ==
  ASSUME ChannelTypeOK, RunnerTypeOK, LifeInv, UNCHANGED brokerVars, NEW r \in Runners, NEW t \in Task,
         OnTaskCancel(r, t)
  PROVE  LifeInv'
<1>0. \A u \in Task : Life(u) /\ BrokerQuiet(u)
  BY BrokerIdle DEF LifeInv
<1>1. << >> \in Seq(ToBroker) /\ \A u \in Task, type \in BrokerNews : TaskMsg(type, u) \notin ToSet(<< >>)
  BY EmptyFacts
<1>2. ASSUME NEW out, RunnerReads(r, TaskMsg("taskcancel", t), out)
      PROVE  r = Runner(t) /\ t \notin tasks /\ ~Inbound("taskaccepted", t)
  <2>1. r = Runner(t) /\ Outbound("taskcancel", t)
    BY <1>0, <1>2, RunnerReadOwn DEF RunnerNews, Life
  <2> QED BY <1>0, <2>1 DEF Life, ActiveOf
<1>3. CASE /\ status[t] = "waitingForSettings"
           /\ \E stale \in Stale(Runner(t)) :
                /\ RunnerReads(r, TaskMsg("taskcancel", t), FinishMsgs(t, stale))
                /\ FinishTask(t, stale)
           /\ UNCHANGED calls
  <2>1. PICK stale \in Stale(Runner(t)) :
          /\ RunnerReads(r, TaskMsg("taskcancel", t), FinishMsgs(t, stale))
          /\ FinishTask(t, stale)
    BY <1>3
  <2>2. r = Runner(t) /\ t \notin tasks /\ ~Inbound("taskaccepted", t)
    BY <1>2, <2>1
  <2>3. FinishMsgs(t, stale) \in Seq(ToBroker)
    BY <2>1, FinishTaskType
  <2>4. \A u \in Task : OutboundKept(u)
    BY <2>1, RunnerReadKeeps
  <2>5. toBroker' = [toBroker EXCEPT ![Runner(t)] = @ \o FinishMsgs(t, stale)] /\ UNCHANGED conn
    BY <2>1, <2>2 DEF RunnerReads
  <2>6. status[t] # "none"
    BY <1>3
  <2> QED BY <1>1, <1>3, <2>1, <2>2, <2>3, <2>4, <2>5, <2>6, FinishLife
<1>4. CASE /\ RunnerReads(r, TaskMsg("taskcancel", t), << >>)
           /\ status[t] = "running"
           /\ status' = [status EXCEPT ![t] = "aborting:cancelled"]
           /\ calls' = CancelTaskRequests(t)
           /\ UNCHANGED <<openOffers, offersSent, timeoutTimer>>
  <2>1. ASSUME NEW u \in Task, u # t
        PROVE  Life(u)'
    <3>1. RunnerQuiet(u)
      BY <1>4, <2>1 DEF RunnerReads, RunnerQuiet, Offered, RunnerTypeOK, CancelTaskRequests
    <3> QED BY <1>0, <1>1, <1>4, <3>1, RunnerReadsLife
  <2>2. Life(t)'
    <3>1. OutboundKept(t) /\ InboundKept(t)
      BY <1>1, <1>4, RunnerReadKeeps, WriteOther DEF RunnerReads
    <3>2. t \notin tasks
      BY <1>2, <1>4
    <3>3. /\ Offered(t)' <=> Offered(t)
          /\ UNCHANGED <<openOffers, timeoutTimer, conn>>
          /\ calls' \subseteq calls
          /\ status'[t] = "aborting:cancelled"
      BY <1>4 DEF RunnerReads, Offered, CancelTaskRequests, RunnerTypeOK
    <3> QED BY <1>0, <1>4, <3>1, <3>2, <3>3, StatusLife DEF Executing
  <2> QED BY <2>1, <2>2 DEF LifeInv
<1>5. CASE /\ RunnerReads(r, TaskMsg("taskcancel", t), << >>)
           /\ UNCHANGED <<openOffers, offersSent, status, timeoutTimer, calls>>
  <2>1. ASSUME NEW u \in Task
        PROVE  Life(u)'
    <3>1. RunnerQuiet(u)
      BY <1>5 DEF RunnerReads, RunnerQuiet, Offered
    <3> QED BY <1>0, <1>1, <1>5, <3>1, RunnerReadsLife
  <2> QED BY <2>1 DEF LifeInv
<1> QED BY <1>3, <1>4, <1>5 DEF OnTaskCancel

LEMMA ExecutionEndsLife ==
  ASSUME ChannelTypeOK, RunnerTypeOK, LifeInv, UNCHANGED brokerVars, NEW t \in Task,
         NEW outcome \in {"taskdone", "taskerror"}, ExecutionEnds(t, outcome)
  PROVE  LifeInv'
<1> DEFINE rep == Report(t, outcome)
<1>1. PICK stale \in Stale(Runner(t)) :
        /\ toBroker' = [toBroker EXCEPT ![Runner(t)] = @ \o Report(t, outcome) \o FinishMsgs(t, stale)]
        /\ FinishTask(t, stale)
  BY DEF ExecutionEnds
<1>2. FinishMsgs(t, stale) \in Seq(ToBroker)
  BY <1>1, FinishTaskType
<1>3. TaskMsg(outcome, t) \in ToBroker /\ Runner(t) \in Runners
  BY MessageTypes, TaskRunnerType
<1>4. rep \in Seq(ToBroker)
  BY <1>3 DEF Report
<1>5. rep \o FinishMsgs(t, stale) \in Seq(ToBroker)
  BY <1>2, <1>4, ConcatProperties
<1>6. (toBroker[Runner(t)] \o rep) \o FinishMsgs(t, stale) = toBroker[Runner(t)] \o (rep \o FinishMsgs(t, stale))
  BY <1>2, <1>3, <1>4, ConcatAssociative DEF ChannelTypeOK
<1>7. toBroker' = [toBroker EXCEPT ![Runner(t)] = @ \o (rep \o FinishMsgs(t, stale))]
  BY <1>1, <1>6
<1>8. \/ rep = <<TaskMsg("taskdone", t)>>
      \/ rep = <<TaskMsg("taskerror", t)>>
      \/ rep = << >> /\ ~Inbound("taskaccepted", t) /\ t \notin tasks
  <2>1. CASE status[t] = "aborting:cancelled"
    <3>1. Given(t) /\ t \notin tasks
      BY <2>1 DEF LifeInv, Life, GivenOf, ActiveOf, Executing
    <3>2. ~Inbound("taskaccepted", t)
      BY <3>1 DEF LifeInv, Life, ActiveOf
    <3> QED BY <2>1, <3>1, <3>2 DEF Report
  <2>2. CASE status[t] # "aborting:cancelled"
    BY <2>2 DEF Report
  <2> QED BY <2>1, <2>2
<1>9. \A u \in Task : OutboundKept(u)
  BY OutboundUntouched DEF ExecutionEnds
<1>10. status[t] # "none" /\ UNCHANGED <<conn, calls>>
  BY DEF ExecutionEnds
<1> HIDE DEF rep
<1> QED BY <1>1, <1>4, <1>5, <1>7, <1>8, <1>9, <1>10, FinishLife

LEMMA RunnerTaskTimeoutLife ==
  ASSUME ChannelTypeOK, RunnerTypeOK, LifeInv, UNCHANGED brokerVars, NEW t \in Task, RunnerTaskTimeout(t)
  PROVE  LifeInv'
<1>0. \A u \in Task : Life(u) /\ BrokerQuiet(u) /\ OutboundKept(u)
  BY BrokerIdle, OutboundUntouched DEF LifeInv, RunnerTaskTimeout
<1>1. UNCHANGED conn /\ t \in timeoutTimer
  BY DEF RunnerTaskTimeout
<1>2. CASE /\ status[t] = "waitingForSettings"
           /\ \E stale \in Stale(Runner(t)) :
                /\ toBroker' = [toBroker EXCEPT ![Runner(t)] = @ \o TimeoutReport(t) \o FinishMsgs(t, stale)]
                /\ FinishTask(t, stale)
           /\ UNCHANGED calls
  <2> DEFINE rep == <<TaskMsg("taskerror", t)>>
  <2>1. PICK stale \in Stale(Runner(t)) :
          /\ toBroker' = [toBroker EXCEPT ![Runner(t)] = @ \o rep \o FinishMsgs(t, stale)]
          /\ FinishTask(t, stale)
    BY <1>2 DEF TimeoutReport
  <2>2. FinishMsgs(t, stale) \in Seq(ToBroker) /\ rep \in Seq(ToBroker) /\ Runner(t) \in Runners
    BY <2>1, FinishTaskType, MessageTypes, TaskRunnerType
  <2>3. rep \o FinishMsgs(t, stale) \in Seq(ToBroker)
    BY <2>2, ConcatProperties
  <2>4. (toBroker[Runner(t)] \o rep) \o FinishMsgs(t, stale) = toBroker[Runner(t)] \o (rep \o FinishMsgs(t, stale))
    BY <2>2, ConcatAssociative DEF ChannelTypeOK
  <2>5. toBroker' = [toBroker EXCEPT ![Runner(t)] = @ \o (rep \o FinishMsgs(t, stale))]
    BY <2>1, <2>4
  <2>6. status[t] # "none" /\ UNCHANGED calls /\ rep = <<TaskMsg("taskerror", t)>>
    BY <1>2
  <2> HIDE DEF rep
  <2> QED BY <1>0, <1>1, <2>1, <2>2, <2>3, <2>5, <2>6, FinishLife
<1>3. CASE /\ status[t] = "running"
           /\ status' = [status EXCEPT ![t] = "aborting:timeout"]
           /\ calls' = CancelTaskRequests(t)
           /\ timeoutTimer' = timeoutTimer \ {t}
           /\ UNCHANGED <<toBroker, openOffers, offersSent>>
  <2>1. \A u \in Task : InboundKept(u)
    BY <1>3, InboundUntouched
  <2>2. ASSUME NEW u \in Task, u # t
        PROVE  Life(u)'
    <3>1. RunnerQuiet(u)
      BY <1>1, <1>3, <2>2 DEF RunnerQuiet, Offered, RunnerTypeOK, CancelTaskRequests
    <3> QED BY <1>0, <2>1, <3>1, KeptLife
  <2>3. Life(t)'
    <3>1. /\ Offered(t)' <=> Offered(t)
          /\ UNCHANGED <<openOffers, conn>>
          /\ calls' \subseteq calls
          /\ status'[t] = "aborting:timeout" /\ t \notin timeoutTimer'
      BY <1>1, <1>3 DEF Offered, CancelTaskRequests, RunnerTypeOK
    <3> QED BY <1>0, <1>3, <2>1, <3>1, StatusLife DEF Executing
  <2> QED BY <2>2, <2>3 DEF LifeInv
<1>4. CASE /\ timeoutTimer' = timeoutTimer \ {t}
           /\ UNCHANGED <<toBroker, openOffers, offersSent, status, calls>>
  <2>1. ASSUME NEW u \in Task
        PROVE  Life(u)'
    <3>1. RunnerQuiet(u) /\ InboundKept(u)
      BY <1>1, <1>4, InboundUntouched DEF RunnerQuiet, Offered
    <3> QED BY <1>0, <3>1, KeptLife
  <2> QED BY <2>1 DEF LifeInv
<1> QED BY <1>2, <1>3, <1>4 DEF RunnerTaskTimeout

LEMMA OnOfferAcceptLife ==
  ASSUME ChannelTypeOK, RunnerTypeOK, LifeInv, UNCHANGED brokerVars, NEW r \in Runners, NEW t \in Task,
         OnOfferAccept(r, t)
  PROVE  LifeInv'
<1>0. \A u \in Task : Life(u) /\ BrokerQuiet(u)
  BY BrokerIdle DEF LifeInv
<1>1. CASE /\ t \in openOffers
           /\ RunnerReads(r, TaskMsg("taskofferaccept", t), <<TaskMsg("taskaccepted", t)>>)
           /\ openOffers' = openOffers \ {t}
           /\ status' = [status EXCEPT ![t] = "waitingForSettings"]
           /\ timeoutTimer' = timeoutTimer \cup {t}
  <2> DEFINE m == TaskMsg("taskaccepted", t)
  <2>1. /\ <<m>> \in Seq(ToBroker) /\ ToSet(<<m>>) = {m} /\ (\A x : Once(<<m>>, x))
        /\ \A a, b : a # m \/ b # m => Before(<<m>>, a, b)
    BY MessageTypes, SingleFacts
  <2>2. UNCHANGED <<conn, offersSent, calls>> /\ conn[r] = "open"
    BY <1>1 DEF OnOfferAccept, RunnerReads
  <2>3. ASSUME NEW u \in Task, u # t
        PROVE  Life(u)'
    <3>1. RunnerQuiet(u)
      BY <1>1, <2>2, <2>3 DEF RunnerQuiet, Offered, RunnerTypeOK
    <3>2. \A type \in BrokerNews : TaskMsg(type, u) \notin ToSet(<<m>>)
      BY <2>1, <2>3, MsgFacts
    <3> QED BY <1>0, <1>1, <2>1, <3>1, <3>2, RunnerReadsLife
  <2>4. Life(t)'
    <3>1. r = Runner(t) /\ Outbound("taskofferaccept", t)
      BY <1>0, <1>1, RunnerReadOwn DEF RunnerNews, Life
    <3>2. OutboundKept(t)
      BY <1>1, RunnerReadKeeps
    <3>3. /\ Offered(t) /\ request[t] # NoRequest /\ ~Inbound("taskoffer", t) /\ t \notin pendingTaskOffers
      BY <1>0, <1>1, <3>1 DEF Life, FreshOf, Used, RunnerNews
    <3>4. /\ ~Inbound("taskaccepted", t) /\ ~Reported(t) /\ status[t] = "none"
          /\ ~Given(t) /\ t \notin tasks /\ ~Outbound("taskcancel", t) /\ ~Outbound("tasksettings", t)
      BY <1>0, <1>1 DEF Life, ActiveOf, GivenOf
    <3>5. /\ \A x \in BrokerNews : Inbound(x, t)' <=> Inbound(x, t) \/ TaskMsg(x, t) \in ToSet(<<m>>)
          /\ InOrder(t)'
      <4>1. \A a, b \in BrokerNews : a # b => Before(<<m>>, TaskMsg(a, t), TaskMsg(b, t))
        BY <2>1, MsgFacts
      <4>2. TaskMsg("taskoffer", t) \notin ToSet(<<m>>)
        BY <2>1, MsgFacts
      <4>3. \A x \in {"taskaccepted", "taskdone", "taskerror"} : ~Inbound(x, t)
        BY <3>4 DEF Reported
      <4>4. toBroker' = [toBroker EXCEPT ![Runner(t)] = @ \o <<m>>] /\ InOrder(t)
        BY <1>0, <1>1, <3>1 DEF Life, RunnerReads
      <4> QED BY <2>1, <4>1, <4>2, <4>3, <4>4, WriteOwn
    <3>6. ~Inbound("taskoffer", t)' /\ ~Reported(t)'
      BY <2>1, <3>3, <3>4, <3>5, MsgFacts DEF Reported, BrokerNews
    <3>7. /\ status'[t] = "waitingForSettings" /\ t \notin openOffers' /\ (Offered(t)' <=> Offered(t))
          /\ request'[t] = request[t] /\ (Given(t)' <=> Given(t))
          /\ t \notin tasks' /\ t \notin pendingTaskOffers'
      BY <1>0, <1>1, <2>2, <3>3, <3>4 DEF RunnerTypeOK, Offered, BrokerQuiet, Given
    <3>8. ~Outbound("taskcancel", t)' /\ ~Outbound("tasksettings", t)' /\ OutOrder(t)'
      BY <1>0, <3>2, <3>4 DEF OutboundKept, RunnerNews, Life
    <3>9. FreshOf(t)'
      BY <1>0, <3>3, <3>6, <3>7 DEF FreshOf, Life, BrokerQuiet
    <3>10. GivenOf(t)'
      BY <1>0, <2>2, <3>4, <3>7, <3>8 DEF GivenOf, Life, BrokerQuiet, Executing
    <3>11. ActiveOf(t)'
      BY <2>2, <3>1, <3>4, <3>7, <3>8 DEF ActiveOf, Status
    <3> QED BY <3>5, <3>8, <3>9, <3>10, <3>11 DEF Life
  <2> QED BY <2>3, <2>4 DEF LifeInv
<1>2. CASE /\ RunnerReads(r, TaskMsg("taskofferaccept", t), <<TaskMsg("taskrejected", t)>>)
           /\ openOffers' \subseteq openOffers
           /\ UNCHANGED <<status, timeoutTimer>>
  <2> DEFINE m == TaskMsg("taskrejected", t)
  <2>1. <<m>> \in Seq(ToBroker) /\ ToSet(<<m>>) = {m}
    BY MessageTypes, SingleFacts
  <2>2. ASSUME NEW u \in Task
        PROVE  Life(u)'
    <3>1. RunnerQuiet(u)
      BY <1>2 DEF OnOfferAccept, RunnerReads, RunnerQuiet, Offered
    <3>2. \A type \in BrokerNews : TaskMsg(type, u) \notin ToSet(<<m>>)
      BY <2>1, MsgFacts DEF BrokerNews
    <3> QED BY <1>0, <1>2, <2>1, <3>1, <3>2, RunnerReadsLife
  <2> QED BY <2>2 DEF LifeInv
<1> QED BY <1>1, <1>2 DEF OnOfferAccept

LEMMA CallLife ==
  ASSUME ChannelTypeOK, RunnerTypeOK, LifeInv, UNCHANGED brokerVars, NEW t \in Task, NEW k \in CallKinds,
         Call(t, k)
  PROVE  LifeInv'
<1> SUFFICES ASSUME NEW u \in Task
             PROVE  Life(u)'
  BY DEF LifeInv
<1> DEFINE m == CallMsg("request", t, k)
           r == Runner(t)
<1>0. Life(u) /\ Life(t) /\ BrokerQuiet(u) /\ OutboundKept(u)
  BY BrokerIdle, OutboundUntouched DEF LifeInv, Call
<1>1. /\ r \in Runners /\ toBroker[r] \in Seq(ToBroker)
      /\ m \in ToBroker /\ <<m>> \in Seq(ToBroker) /\ ToSet(<<m>>) = {m}
  BY MessageTypes, SingleFacts, TaskRunnerType DEF ChannelTypeOK
<1>2. Append(toBroker[r], m) = toBroker[r] \o <<m>>
  BY <1>1, AppendIsConcat
<1>3. toBroker' = [toBroker EXCEPT ![r] = @ \o <<m>>]
  BY <1>2 DEF Call
<1>4. \A type \in BrokerNews : TaskMsg(type, u) \notin ToSet(<<m>>)
  BY <1>1, MsgFacts DEF BrokerNews
<1> HIDE DEF m, r
<1>5. InboundKept(u)
  BY <1>1, <1>3, <1>4, WriteOther
<1>6. CASE u # t
  <2>1. RunnerQuiet(u)
    BY <1>6 DEF Call, RunnerQuiet, Offered
  <2> QED BY <1>0, <1>5, <2>1, KeptLife
<1>7. CASE u = t
  <2>1. Given(t) /\ ~Outbound("tasksettings", t)
    BY <1>0 DEF Call, Life, GivenOf, Executing
  <2>2. /\ Inbound("taskoffer", u)' <=> Inbound("taskoffer", u)
        /\ Inbound("taskaccepted", u)' <=> Inbound("taskaccepted", u)
        /\ Reported(u)' <=> Reported(u)
        /\ InOrder(u)' /\ OutOrder(u)'
    BY <1>0, <1>5 DEF InboundKept, BrokerNews, Reported, Life, OutboundKept
  <2>3. /\ \A type \in RunnerNews : Outbound(type, u)' <=> Outbound(type, u)
        /\ Given(u)' <=> Given(u)
        /\ Offered(u)' <=> Offered(u)
    BY <1>0 DEF Call, Outbound, BrokerQuiet, Given, Offered
  <2>4. UNCHANGED <<status, openOffers, timeoutTimer, conn, tasks, accepting, request, knownRunners,
                    pendingTaskOffers, offerLog>>
    BY DEF Call, brokerVars, listVars, acceptVars
  <2>5. FreshOf(u)'
    BY <1>0, <2>2, <2>3, <2>4 DEF FreshOf, Life, Used
  <2>6. GivenOf(u)'
    BY <1>0, <1>7, <2>1, <2>3, <2>4 DEF GivenOf, Life, RunnerNews, BrokerQuiet
  <2>7. ActiveOf(u)'
    BY <1>0, <2>2, <2>3, <2>4 DEF ActiveOf, Life, RunnerNews
  <2> QED BY <2>2, <2>5, <2>6, <2>7 DEF Life
<1> QED BY <1>6, <1>7

LEMMA StopLife ==
  ASSUME ChannelTypeOK, LifeInv, UNCHANGED brokerVars, NEW r \in Runners, Stop(r)
  PROVE  LifeInv'
<1> SUFFICES ASSUME NEW u \in Task
             PROVE  Life(u)'
  BY DEF LifeInv
<1>1. BrokerQuiet(u) /\ OutboundKept(u) /\ InboundKept(u)
  BY BrokerIdle, OutboundUntouched, InboundUntouched DEF Stop, channelVars
<1>2. RunnerQuiet(u)
  BY DEF Stop, RunnerQuiet, Offered, channelVars
<1> QED BY <1>1, <1>2, KeptLife DEF LifeInv

(* Processes end: nothing is left of their tasks but what the broker knows *)
(* and has not read.                                                       *)
LEMMA ExitLife ==
  ASSUME RunnerTypeOK, NEW rs, ProcessesExit(rs), NEW u \in Task, Life(u), BrokerQuiet(u),
         InboundThins(u), Runner(u) \notin rs => InboundKept(u)
  PROVE  Life(u)'
<1>0. OutboundKept(u) /\ Runner(u) \in Runners
  BY ExitKeeps, TaskRunnerType
<1>1. CASE Runner(u) \notin rs
  <2>1. RunnerQuiet(u)
    BY <1>0, <1>1 DEF ProcessesExit, RunnerQuiet, Offered
  <2> QED BY <1>0, <1>1, <2>1, KeptLife
<1>2. CASE Runner(u) \in rs
  <2>1. /\ status'[u] = "none" /\ u \notin openOffers' /\ u \notin timeoutTimer'
        /\ conn'[Runner(u)] = "closed" /\ (Offered(u)' <=> Offered(u))
        /\ \A k \in CallKinds : <<u, k>> \notin calls'
    BY <1>0, <1>2 DEF ProcessesExit, Offered
  <2>2. /\ Inbound("taskoffer", u)' => Inbound("taskoffer", u)
        /\ Inbound("taskaccepted", u)' => Inbound("taskaccepted", u)
        /\ Reported(u)' => Reported(u)
        /\ InOrder(u)'
    BY DEF InboundThins, BrokerNews, Reported, Life
  <2>3. /\ Outbound("tasksettings", u)' => Outbound("tasksettings", u)
        /\ Outbound("taskcancel", u)' => Outbound("taskcancel", u)
        /\ OutOrder(u)'
    BY <1>0 DEF OutboundKept, RunnerNews, Life
  <2>4. Used(u)' => Used(u)
    BY <1>0, <2>1, <2>2 DEF Used, BrokerQuiet, OutboundKept
  <2>5. FreshOf(u)'
    BY <2>1, <2>2, <2>4 DEF FreshOf, Life, BrokerQuiet
  <2>6. Given(u)' <=> Given(u)
    BY DEF Given, BrokerQuiet
  <2>7. GivenOf(u)'
    BY <2>1, <2>3, <2>6 DEF GivenOf, Life, BrokerQuiet, Executing
  <2>8. ActiveOf(u)'
    BY <2>1, <2>2, <2>3, <2>6 DEF ActiveOf, Life, BrokerQuiet
  <2> QED BY <2>2, <2>3, <2>5, <2>7, <2>8 DEF Life
<1> QED BY <1>1, <1>2

LEMMA DieLife ==
  ASSUME ChannelTypeOK, RunnerTypeOK, LifeInv, NEW rs, Die(rs), \A u \in Task : BrokerQuiet(u)
  PROVE  LifeInv'
<1> SUFFICES ASSUME NEW u \in Task
             PROVE  Life(u)'
  BY DEF LifeInv
<1>1. InboundThins(u) /\ (Runner(u) \notin rs => InboundKept(u))
  BY DieThins
<1> QED BY <1>1, ExitLife DEF Die, LifeInv

LEMMA CloseConnectionLife ==
  ASSUME ChannelTypeOK, RunnerTypeOK, LifeInv, UNCHANGED brokerVars, NEW r \in Runners, CloseConnection(r)
  PROVE  LifeInv'
<1> SUFFICES ASSUME NEW u \in Task
             PROVE  Life(u)'
  BY DEF LifeInv
<1>1. InboundKept(u)
  BY InboundUntouched DEF CloseConnection
<1>2. InboundThins(u)
  BY <1>1 DEF InboundKept, InboundThins
<1> QED BY <1>1, <1>2, BrokerIdle, ExitLife DEF CloseConnection, LifeInv

LEMMA RunnerNextLife ==
  ASSUME ChannelTypeOK, RunnerTypeOK, LifeInv, UNCHANGED brokerVars, RunnerNext
  PROVE  LifeInv'
<1>1. ASSUME NEW r \in Runners, Crash(r)
      PROVE  LifeInv'
  BY <1>1, BrokerIdle, DieLife DEF Crash
<1> QED
  BY <1>1, ConnectLife, RunnerReadsPlain, OfferIntervalLife, StopLife, CloseConnectionLife,
     LauncherRegisteredLife, OnOfferAcceptLife, OnTaskCancelLife, OnTaskSettingsLife, ExecutionEndsLife,
     RunnerTaskTimeoutLife, CallLife DEF RunnerNext

-----------------------------------------------------------------------------
(* What the broker's steps do to the life of a task                        *)

(* What settleTasks writes to a runner: acceptances of its own offers *)
LEMMA AcceptMsgsFacts ==
  ASSUME NEW taken \in SUBSET Task, NEW r \in Runners, NEW s \in AcceptOrders(r, taken)
  PROVE  /\ AcceptMsgs(s) \in Seq(ToRunner)
         /\ \A m : m \in ToSet(AcceptMsgs(s)) =>
                     \E o \in taken : Runner(o) = r /\ m = TaskMsg("taskofferaccept", o)
<1> DEFINE mine == {o \in taken : Runner(o) = r}
<1>1. mine \subseteq Task /\ Cardinality(mine) \in Nat
  BY TaskSetCardinality
<1>2. s \in [1 .. Cardinality(mine) -> mine]
  BY DEF AcceptOrders
<1>3. \A o \in mine : o \in taken /\ Runner(o) = r
  OBVIOUS
<1> HIDE DEF mine
<1>4. \A i \in 1 .. Cardinality(mine) : TaskMsg("taskofferaccept", s[i]) \in ToRunner
  BY <1>1, <1>2, MessageTypes
<1>5. AcceptMsgs(s) \in [1 .. Cardinality(mine) -> ToRunner]
  BY <1>2, <1>4 DEF AcceptMsgs
<1>6. AcceptMsgs(s) \in Seq(ToRunner) /\ Len(AcceptMsgs(s)) = Cardinality(mine)
  BY <1>1, <1>5
<1>7. \A i \in 1 .. Cardinality(mine) : AcceptMsgs(s)[i] = TaskMsg("taskofferaccept", s[i])
  BY <1>2 DEF AcceptMsgs
<1>8. \A m : m \in ToSet(AcceptMsgs(s)) =>
               \E o \in taken : Runner(o) = r /\ m = TaskMsg("taskofferaccept", o)
  <2> SUFFICES ASSUME NEW m, m \in ToSet(AcceptMsgs(s))
               PROVE  \E o \in taken : Runner(o) = r /\ m = TaskMsg("taskofferaccept", o)
    OBVIOUS
  <2>1. PICK i \in 1 .. Cardinality(mine) : AcceptMsgs(s)[i] = m
    BY <1>6, InChannel
  <2>2. s[i] \in mine
    BY <1>2
  <2> QED BY <1>3, <1>7, <2>1, <2>2
<1> QED BY <1>6, <1>8

(* settleTasks writes to the runners of the offers it takes, about them.   *)
LEMMA AcceptOutbound ==
  ASSUME ChannelTypeOK, NEW valid \in SUBSET Task, NEW pairs \in SUBSET (Requests \X valid),
         AcceptOffers(valid, pairs), NEW u \in Task
  PROVE  /\ \A type \in RunnerNews \ {"taskofferaccept"} : Outbound(type, u)' => Outbound(type, u)
         /\ OutOrder(u) => OutOrder(u)'
         /\ u \notin Taken(pairs) => OutboundKept(u)
<1>1. PICK s \in [Runners -> UNION {AcceptOrders(r, Taken(pairs)) : r \in Runners}] :
        /\ \A r \in Runners : s[r] \in AcceptOrders(r, Taken(pairs))
        /\ toRunner' = [r \in Runners |-> IF r \in knownRunners /\ conn[r] = "open"
                                          THEN toRunner[r] \o AcceptMsgs(s[r]) ELSE toRunner[r]]
  BY DEF AcceptOffers
<1>2. Taken(pairs) \subseteq Task
  BY AcceptOffersFacts
<1>3. ASSUME NEW r \in Runners
      PROVE  /\ AcceptMsgs(s[r]) \in Seq(ToRunner)
             /\ \A m : m \in ToSet(AcceptMsgs(s[r])) =>
                         \E o \in Taken(pairs) : Runner(o) = r /\ m = TaskMsg("taskofferaccept", o)
  <2>1. s[r] \in AcceptOrders(r, Taken(pairs)) /\ Taken(pairs) \in SUBSET Task
    BY <1>1, <1>2
  <2> QED BY <2>1, AcceptMsgsFacts
<1>4. ASSUME NEW r \in Runners, NEW x, \A o \in Taken(pairs) : Runner(o) = r => x # TaskMsg("taskofferaccept", o)
      PROVE  /\ x \in ToSet(toRunner'[r]) => x \in ToSet(toRunner[r])
             /\ Once(toRunner[r], x) => Once(toRunner'[r], x)
  <2> DEFINE out == AcceptMsgs(s[r])
  <2>1. x \notin ToSet(out) /\ out \in Seq(ToRunner) /\ toRunner[r] \in Seq(ToRunner)
    BY <1>3, <1>4 DEF ChannelTypeOK
  <2>2. toRunner'[r] = toRunner[r] \/ toRunner'[r] = toRunner[r] \o out
    BY <1>1
  <2> HIDE DEF out
  <2>3. Once(out, x)
    <3>1. x \in ToSet(out) <=> \E i \in 1 .. Len(out) : out[i] = x
      BY <2>1, InChannel
    <3> QED BY <2>1, <3>1 DEF Once
  <2>4. /\ ToSet(toRunner[r] \o out) = ToSet(toRunner[r]) \cup ToSet(out)
        /\ Once(toRunner[r], x) => Once(toRunner[r] \o out, x)
    BY <2>1, <2>3, WriteFacts
  <2> QED BY <2>1, <2>2, <2>4
<1>5. Runner(u) \in Runners
  BY TaskRunnerType
<1>6. \A o, type : type # "taskofferaccept" => TaskMsg(type, u) # TaskMsg("taskofferaccept", o)
  BY MsgFacts
<1>7. \A type \in RunnerNews \ {"taskofferaccept"} : Outbound(type, u)' => Outbound(type, u)
  BY <1>4, <1>5, <1>6 DEF Outbound, InFlight
<1>8. ASSUME OutOrder(u)
      PROVE  OutOrder(u)'
  <2>1. ASSUME NEW r \in Runners \ {Runner(u)}, NEW type \in RunnerNews
        PROVE  ~InFlight(TaskMsg(type, u), toRunner'[r])
    <3>1. \A o \in Taken(pairs) : Runner(o) = r => TaskMsg(type, u) # TaskMsg("taskofferaccept", o)
      BY MsgFacts
    <3> QED BY <1>4, <1>8, <3>1 DEF OutOrder, InFlight
  <2>2. Once(toRunner'[Runner(u)], TaskMsg("tasksettings", u))
    BY <1>4, <1>5, <1>6, <1>8 DEF OutOrder
  <2> QED BY <2>1, <2>2 DEF OutOrder
<1>9. ASSUME u \notin Taken(pairs)
      PROVE  OutboundKept(u)
  <2>1. \A o \in Taken(pairs), type \in RunnerNews : TaskMsg(type, u) # TaskMsg("taskofferaccept", o)
    BY <1>9, MsgFacts
  <2>2. "tasksettings" \in RunnerNews
    BY DEF RunnerNews
  <2> QED BY <1>4, <2>1, <2>2, OutboundStep
<1> QED BY <1>7, <1>8, <1>9

(* An offer that settleTasks finds in the list has been received and not   *)
(* been used; the offers it takes get a request.                           *)
LEMMA AcceptLife ==
  ASSUME ChannelTypeOK, BrokerTypeOK, UNCHANGED <<conn, runnerVars, knownRunners, tasks, reqTask>>,
         NEW valid \in SUBSET Task, NEW pairs \in SUBSET (Requests \X valid), AcceptOffers(valid, pairs),
         NEW u \in Task, Life(u), InOrder(u)',
         \A type \in {"taskaccepted", "taskdone", "taskerror"} : Inbound(type, u)' <=> Inbound(type, u),
         Inbound("taskoffer", u)' => Inbound("taskoffer", u) /\ u \notin ToSet(offerLog'),
         u \in ToSet(offerLog') => Offered(u),
         u \in valid => request[u] = NoRequest /\ u \in ToSet(offerLog')
  PROVE  Life(u)'
<1>1. /\ \A t \in Taken(pairs) : request'[t] \in Requests
      /\ \A t \in Task \ Taken(pairs) : request'[t] = request[t]
      /\ Taken(pairs) \subseteq valid
  <2>1. /\ Served(pairs) \subseteq Requests
        /\ Taken(pairs) \subseteq valid
        /\ \A t \in Taken(pairs) : <<request'[t], t>> \in pairs /\ request'[t] \in Served(pairs)
        /\ \A t \in Task \ Taken(pairs) : request'[t] = request[t]
    BY AcceptOffersFacts
  <2> QED BY <2>1
<1>2. pendingTaskOffers' = valid \ Taken(pairs) /\ accepting' = accepting \cup Taken(pairs)
  BY DEF AcceptOffers
<1>3. /\ \A type \in RunnerNews \ {"taskofferaccept"} : Outbound(type, u)' => Outbound(type, u)
      /\ OutOrder(u)'
      /\ u \notin Taken(pairs) => OutboundKept(u)
  BY AcceptOutbound DEF Life
<1>4. /\ Reported(u)' <=> Reported(u)
      /\ Inbound("taskaccepted", u)' <=> Inbound("taskaccepted", u)
      /\ Outbound("tasksettings", u)' => Outbound("tasksettings", u)
      /\ Outbound("taskcancel", u)' => Outbound("taskcancel", u)
  BY <1>3 DEF Reported, RunnerNews
<1>5. /\ UNCHANGED <<openOffers, status, timeoutTimer, calls>>
      /\ Offered(u)' <=> Offered(u)
      /\ Given(u)' <=> Given(u)
  BY DEF runnerVars, Offered, Given
<1>6. CASE u \notin Taken(pairs)
  <2>1. Used(u)' => Used(u)
    BY <1>2, <1>3, <1>4, <1>5, <1>6 DEF Used, OutboundKept
  <2>2. FreshOf(u)'
    BY <1>1, <1>2, <1>5, <1>6, <2>1 DEF FreshOf, Life
  <2>3. GivenOf(u)'
    BY <1>1, <1>4, <1>5, <1>6 DEF GivenOf, Life
  <2>4. ActiveOf(u)'
    BY <1>4, <1>5 DEF ActiveOf, Life
  <2> QED BY <1>3, <2>2, <2>3, <2>4 DEF Life
<1>7. CASE u \in Taken(pairs)
  <2>1. request[u] = NoRequest /\ request'[u] # NoRequest /\ u \in ToSet(offerLog') /\ u \notin pendingTaskOffers'
    BY <1>1, <1>2, <1>7, NoRequestAssumption
  <2>2. ~Used(u) /\ ~Given(u)
    BY <2>1, NoRequestAssumption DEF Life, FreshOf, GivenOf, Given
  <2>3. FreshOf(u)'
    BY <1>5, <2>1 DEF FreshOf, Life
  <2>4. GivenOf(u)'
    BY <1>4, <1>5, <2>2 DEF GivenOf, Life, Given
  <2>5. ActiveOf(u)'
    BY <1>4, <1>5 DEF ActiveOf, Life
  <2> QED BY <1>3, <2>3, <2>4, <2>5 DEF Life
<1> QED BY <1>6, <1>7

(* Where the promise of startTask stands, for a request q *)
PromiseOf(q) ==
  /\ reqState[q] = "awaitReady" => q \in pendingTaskRequests \cap requestTimeout
  /\ reqState[q] = "awaitResult" => reqTask[q] \in tasks \cap taskTimeout
  /\ q \in pendingTaskRequests => reqState[q] = "awaitReady" /\ q \in ToSet(requestLog)
  /\ reqState[q] \in {"idle", "awaitReady"} => reqTask[q] = NoTask
  /\ reqTask[q] \in tasks => reqState[q] = "awaitResult"
  /\ reqState[q] = "idle" => /\ q \notin ToSet(requestLog) \cup acceptInProgress
                             /\ \A t \in accepting : request[t] # q

PromiseInv == \A q \in Requests : PromiseOf(q)

LEMMA SettlePairs ==
  ASSUME NEW requests, NEW rlog, NEW offers, NEW olog, SettleTasks(requests, rlog, offers, olog)
  PROVE  \E valid \in SUBSET offers :
           /\ AcceptOffers(valid, Matches(requests \ acceptInProgress, rlog, valid, olog))
           /\ Matches(requests \ acceptInProgress, rlog, valid, olog)
                \in SUBSET ((requests \ acceptInProgress) \X valid)
<1>1. PICK expired \in SUBSET Expirable(offers) :
        AcceptOffers(offers \ expired, Matches(requests \ acceptInProgress, rlog, offers \ expired, olog))
  BY DEF SettleTasks
<1>2. Matches(requests \ acceptInProgress, rlog, offers \ expired, olog)
        \in SUBSET ((requests \ acceptInProgress) \X (offers \ expired))
  BY MatchesType
<1> QED BY <1>1, <1>2

LEMMA LogGrows ==
  ASSUME NEW S, NEW log \in Seq(S), NEW x \in S
  PROVE  ToSet(Append(log, x)) = ToSet(log) \cup {x}
<1>1. Append(log, x) = log \o <<x>> /\ <<x>> \in Seq(S)
  BY AppendIsConcat
<1> QED BY <1>1, WriteFacts, SingleFacts, ZenonT(40)

LEMMA StartTaskLife ==
  ASSUME TypeInv, LifeInv, UNCHANGED runnerVars, NEW q \in Requests, StartTask(q)
  PROVE  LifeInv'
<1> SUFFICES ASSUME NEW u \in Task
             PROVE  Life(u)'
  BY DEF LifeInv
<1>0. ChannelTypeOK /\ BrokerTypeOK /\ Life(u)
  BY DEF TypeInv, TypeOK, LifeInv
<1>1. UNCHANGED <<conn, toBroker, tasks, reqTask, knownRunners, offerLog>>
  BY DEF StartTask, listVars
<1>2. InboundKept(u)
  BY <1>1, InboundUntouched
<1>3. CASE isDraining
  <2>1. UNCHANGED <<toRunner, pendingTaskOffers, accepting, request>>
    BY <1>3 DEF StartTask, listVars, acceptVars
  <2>2. BrokerQuiet(u) /\ RunnerQuiet(u) /\ OutboundKept(u)
    BY <1>1, <2>1, RunnerIdle, OutboundUntouched DEF BrokerQuiet
  <2> QED BY <1>0, <1>2, <2>2, KeptLife
<1>4. CASE ~isDraining
  <2>1. SettleTasks(pendingTaskRequests', requestLog', pendingTaskOffers, offerLog)
    BY <1>4 DEF StartTask
  <2>2. pendingTaskRequests' \subseteq Requests /\ pendingTaskOffers \subseteq Task
    BY <1>0, <1>4 DEF StartTask, BrokerTypeOK
  <2>3. PICK valid \in SUBSET pendingTaskOffers :
               \E pairs \in SUBSET (Requests \X valid) : AcceptOffers(valid, pairs)
    <3>1. PICK valid \in SUBSET pendingTaskOffers :
           /\ AcceptOffers(valid, Matches(pendingTaskRequests' \ acceptInProgress, requestLog', valid, offerLog))
           /\ Matches(pendingTaskRequests' \ acceptInProgress, requestLog', valid, offerLog)
                \in SUBSET ((pendingTaskRequests' \ acceptInProgress) \X valid)
      BY <2>1, SettlePairs
    <3> QED BY <2>2, <3>1
  <2>4. PICK pairs \in SUBSET (Requests \X valid) : AcceptOffers(valid, pairs)
    BY <2>3
  <2>5. /\ InOrder(u)'
        /\ \A type \in {"taskaccepted", "taskdone", "taskerror"} : Inbound(type, u)' <=> Inbound(type, u)
        /\ Inbound("taskoffer", u)' => Inbound("taskoffer", u)
    BY <1>0, <1>2 DEF InboundKept, BrokerNews, Life
  <2>6. /\ Inbound("taskoffer", u) => u \notin ToSet(offerLog')
        /\ u \in ToSet(offerLog') => Offered(u)
        /\ u \in valid => request[u] = NoRequest /\ u \in ToSet(offerLog')
    BY <1>0, <1>1 DEF Life, FreshOf
  <2>7. valid \in SUBSET Task /\ UNCHANGED <<conn, runnerVars, knownRunners, tasks, reqTask>>
    BY <1>1, <2>2
  <2> QED BY <1>0, <2>4, <2>5, <2>6, <2>7, AcceptLife
<1> QED BY <1>3, <1>4

LEMMA OnTaskOfferLife ==
  ASSUME TypeInv, LifeInv, UNCHANGED runnerVars, NEW r \in Runners, NEW t \in Task, OnTaskOffer(r, t)
  PROVE  LifeInv'
<1> SUFFICES ASSUME NEW u \in Task
             PROVE  Life(u)'
  BY DEF LifeInv
<1>0. ChannelTypeOK /\ BrokerTypeOK /\ Life(u) /\ Life(t)
  BY DEF TypeInv, TypeOK, LifeInv
<1>1. BrokerReads(r, TaskMsg("taskoffer", t)) /\ UNCHANGED <<conn, knownRunners, tasks, reqTask>>
  BY DEF OnTaskOffer, reqVars
<1>2. ToSet(offerLog') = ToSet(offerLog) \cup {t}
  BY <1>0, LogGrows DEF OnTaskOffer, BrokerTypeOK
<1>3. SettleTasks(pendingTaskRequests, requestLog, pendingTaskOffers \cup {t}, offerLog')
  BY DEF OnTaskOffer
<1>4. pendingTaskRequests \subseteq Requests /\ pendingTaskOffers \cup {t} \subseteq Task
  BY <1>0 DEF BrokerTypeOK
<1>5. PICK valid \in SUBSET (pendingTaskOffers \cup {t}) :
        \E pairs \in SUBSET (Requests \X valid) : AcceptOffers(valid, pairs)
  <2>1. PICK valid \in SUBSET (pendingTaskOffers \cup {t}) :
         /\ AcceptOffers(valid, Matches(pendingTaskRequests \ acceptInProgress, requestLog, valid, offerLog'))
         /\ Matches(pendingTaskRequests \ acceptInProgress, requestLog, valid, offerLog')
              \in SUBSET ((pendingTaskRequests \ acceptInProgress) \X valid)
    BY <1>3, SettlePairs
  <2> QED BY <1>4, <2>1
<1>6. PICK pairs \in SUBSET (Requests \X valid) : AcceptOffers(valid, pairs)
  BY <1>5
<1>7. /\ InOrder(t)' /\ Inbound("taskoffer", t) /\ ~Inbound("taskoffer", t)'
      /\ \A x \in BrokerNews : Inbound(x, t)' => Inbound(x, t)
      /\ \A x \in BrokerNews \ {"taskoffer"} : Inbound(x, t) => Inbound(x, t)'
  BY <1>0, <1>1, ReadOwn DEF BrokerNews, Life
<1>8. u # t => InboundKept(u)
  <2>1. u # t => \A type \in BrokerNews : TaskMsg(type, u) # TaskMsg("taskoffer", t)
    BY MsgFacts
  <2> QED BY <1>0, <1>1, <2>1, ReadOther
<1>9. /\ InOrder(u)'
      /\ \A type \in {"taskaccepted", "taskdone", "taskerror"} : Inbound(type, u)' <=> Inbound(type, u)
      /\ Inbound("taskoffer", u)' => Inbound("taskoffer", u) /\ u # t
  BY <1>0, <1>7, <1>8 DEF InboundKept, BrokerNews, Life
<1>10. /\ Inbound("taskoffer", u)' => u \notin ToSet(offerLog')
       /\ u \in ToSet(offerLog') => Offered(u)
       /\ u \in valid => request[u] = NoRequest /\ u \in ToSet(offerLog')
  BY <1>0, <1>2, <1>7, <1>9 DEF Life, FreshOf
<1>11. valid \in SUBSET Task /\ UNCHANGED <<conn, runnerVars, knownRunners, tasks, reqTask>>
  BY <1>1, <1>4
<1> QED BY <1>0, <1>6, <1>9, <1>10, <1>11, AcceptLife

(* The broker gives up a task and tells its runner. *)
LEMMA PostCancelLife ==
  ASSUME ChannelTypeOK, LifeInv, UNCHANGED <<conn, toBroker, runnerVars>>, NEW t \in Task, t \in tasks,
         toRunner' = Posted(Runner(t), <<TaskMsg("taskcancel", t)>>), tasks' = tasks \ {t},
         UNCHANGED <<knownRunners, pendingTaskOffers, offerLog, accepting, request, reqTask>>
  PROVE  LifeInv'
<1> DEFINE m == TaskMsg("taskcancel", t)
<1>1. <<m>> \in Seq(ToRunner) /\ ToSet(<<m>>) = {m} /\ Runner(t) \in Runners
  BY MessageTypes, SingleFacts, TaskRunnerType
<1>2. ASSUME NEW u \in Task
      PROVE  Life(u) /\ InboundKept(u) /\ RunnerQuiet(u) /\ BrokerQuiet(u)
  BY InboundUntouched, RunnerIdle DEF LifeInv, BrokerQuiet
<1>3. ASSUME NEW u \in Task, u # t
      PROVE  Life(u)'
  <2>1. \A type \in RunnerNews : TaskMsg(type, u) \notin ToSet(<<m>>)
    BY <1>1, <1>3, MsgFacts
  <2>2. OutboundKept(u)
    BY <1>1, <2>1, PostOther
  <2> QED BY <1>2, <2>2, KeptLife
<1>4. Life(t)'
  <2>1. /\ \A x \in RunnerNews \ {"taskcancel"} : Outbound(x, t)' => Outbound(x, t)
        /\ OutOrder(t)'
    BY <1>2, PostOwn DEF RunnerNews, Life
  <2>2. Outbound("tasksettings", t)' => Outbound("tasksettings", t)
    BY <2>1 DEF RunnerNews
  <2>3. /\ Inbound("taskoffer", t)' <=> Inbound("taskoffer", t)
        /\ Inbound("taskaccepted", t)' <=> Inbound("taskaccepted", t)
        /\ Reported(t)' <=> Reported(t)
        /\ InOrder(t)'
    BY <1>2 DEF InboundKept, BrokerNews, Reported, Life
  <2>4. /\ Given(t)' <=> Given(t)
        /\ Offered(t)' <=> Offered(t)
        /\ UNCHANGED <<openOffers, status, timeoutTimer, calls>> /\ t \notin tasks'
    BY DEF runnerVars, Given, Offered
  <2>5. Used(t)
    BY DEF Used
  <2>6. FreshOf(t)'
    BY <1>2, <2>3, <2>4, <2>5 DEF FreshOf, Life
  <2>7. GivenOf(t)'
    BY <1>2, <2>2, <2>4 DEF GivenOf, Life
  <2>8. ActiveOf(t)'
    BY <1>2, <2>3, <2>4 DEF ActiveOf, Life
  <2> QED BY <2>1, <2>3, <2>6, <2>7, <2>8 DEF Life
<1> QED BY <1>3, <1>4 DEF LifeInv

LEMMA CancelTasksLife ==
  ASSUME TypeInv, LifeInv, UNCHANGED runnerVars, NEW q \in Requests, CancelTasks(q)
  PROVE  LifeInv'
<1>0. ChannelTypeOK /\ BrokerTypeOK
  BY DEF TypeInv, TypeOK
<1>1. UNCHANGED <<conn, toBroker, knownRunners, pendingTaskOffers, offerLog, accepting, request, reqTask>>
  BY DEF CancelTasks, listVars, acceptVars
<1>2. CASE reqTask[q] \in tasks
  <2>1. reqTask[q] \in Task
    BY <1>0, <1>2 DEF BrokerTypeOK
  <2> QED BY <1>0, <1>1, <1>2, <2>1, PostCancelLife DEF CancelTasks
<1>3. CASE reqTask[q] \notin tasks
  <2>1. ASSUME NEW u \in Task
        PROVE  Life(u)'
    <3>1. UNCHANGED <<tasks, toRunner>>
      BY <1>3 DEF CancelTasks
    <3>2. InboundKept(u) /\ OutboundKept(u) /\ RunnerQuiet(u) /\ BrokerQuiet(u)
      BY <1>1, <3>1, InboundUntouched, OutboundUntouched, RunnerIdle DEF BrokerQuiet
    <3> QED BY <3>2, KeptLife DEF LifeInv
  <2> QED BY <2>1 DEF LifeInv
<1> QED BY <1>2, <1>3

(* Steps of the broker that do nothing to any task: answers to calls, the  *)
(* registration of a runner, timeouts of acceptOffer and of requests.      *)
LEMMA OnInfoLife ==
  ASSUME ChannelTypeOK, LifeInv, UNCHANGED runnerVars, NEW r \in Runners, OnInfo(r)
  PROVE  LifeInv'
<1> SUFFICES ASSUME NEW u \in Task
             PROVE  Life(u)'
  BY DEF LifeInv
<1>1. \A type \in BrokerNews : TaskMsg(type, u) # Msg("info")
  BY MsgFacts DEF BrokerNews
<1>2. InboundKept(u)
  BY <1>1, ReadOther DEF OnInfo
<1>3. <<Msg("runnerregistered")>> \in Seq(ToRunner) /\ ToSet(<<Msg("runnerregistered")>>) = {Msg("runnerregistered")}
  BY MessageTypes, SingleFacts
<1>4. \A type \in RunnerNews : TaskMsg(type, u) \notin ToSet(<<Msg("runnerregistered")>>)
  BY <1>3, MsgFacts DEF RunnerNews
<1>5. OutboundKept(u)
  BY <1>3, <1>4, PostOther DEF OnInfo
<1>6. RunnerQuiet(u) /\ BrokerQuiet(u)
  BY RunnerIdle DEF OnInfo, BrokerQuiet, acceptVars, reqVars
<1> QED BY <1>2, <1>5, <1>6, KeptLife DEF LifeInv

LEMMA OnRequestLife ==
  ASSUME ChannelTypeOK, LifeInv, UNCHANGED runnerVars, NEW r \in Runners, NEW t \in Task, NEW k \in CallKinds,
         OnRequest(r, t, k)
  PROVE  LifeInv'
<1> SUFFICES ASSUME NEW u \in Task
             PROVE  Life(u)'
  BY DEF LifeInv
<1> DEFINE m == CallMsg("response", t, k)
<1>1. \A type \in BrokerNews : TaskMsg(type, u) # CallMsg("request", t, k)
  BY MsgFacts DEF BrokerNews
<1>2. InboundKept(u)
  BY <1>1, ReadOther DEF OnRequest
<1>3. <<m>> \in Seq(ToRunner) /\ ToSet(<<m>>) = {m}
  BY MessageTypes, SingleFacts
<1>4. \A type \in RunnerNews : TaskMsg(type, u) \notin ToSet(<<m>>)
  BY <1>3, MsgFacts DEF RunnerNews
<1>5. toRunner' = Posted(r, <<m>>) \/ UNCHANGED toRunner
  BY DEF OnRequest
<1> HIDE DEF m
<1>6. OutboundKept(u)
  BY <1>3, <1>4, <1>5, PostOther, OutboundUntouched
<1>7. RunnerQuiet(u) /\ BrokerQuiet(u)
  BY RunnerIdle DEF OnRequest, BrokerQuiet, listVars, acceptVars
<1> QED BY <1>2, <1>6, <1>7, KeptLife DEF LifeInv

LEMMA RpcReturnsLife ==
  ASSUME TypeInv, LifeInv, UNCHANGED runnerVars, NEW t \in Task, RpcReturns(t)
  PROVE  LifeInv'
<1> SUFFICES ASSUME NEW u \in Task
             PROVE  Life(u)'
  BY DEF LifeInv
<1> DEFINE m == CallMsg("response", t, "rpc")
<1>0. ChannelTypeOK /\ "rpc" \in CallKinds
  BY DEF TypeInv, TypeOK, RpcReturns
<1>1. InboundKept(u)
  BY InboundUntouched DEF RpcReturns
<1>2. <<m>> \in Seq(ToRunner) /\ ToSet(<<m>>) = {m} /\ Runner(t) \in Runners
  BY <1>0, MessageTypes, SingleFacts, TaskRunnerType
<1>3. \A type \in RunnerNews : TaskMsg(type, u) \notin ToSet(<<m>>)
  BY <1>2, MsgFacts DEF RunnerNews
<1>4. toRunner' = Posted(Runner(t), <<m>>) \/ UNCHANGED toRunner
  BY DEF RpcReturns
<1> HIDE DEF m
<1>5. OutboundKept(u)
  BY <1>0, <1>2, <1>3, <1>4, PostOther, OutboundUntouched
<1>6. RunnerQuiet(u) /\ BrokerQuiet(u)
  BY RunnerIdle DEF RpcReturns, BrokerQuiet, listVars, acceptVars
<1> QED BY <1>1, <1>5, <1>6, KeptLife DEF LifeInv

LEMMA StartDrainingLife ==
  ASSUME ChannelTypeOK, LifeInv, UNCHANGED runnerVars, StartDraining
  PROVE  LifeInv'
<1> SUFFICES ASSUME NEW u \in Task
             PROVE  Life(u)'
  BY DEF LifeInv
<1>1. InboundKept(u)
  BY InboundUntouched DEF StartDraining
<1>2. ASSUME NEW r \in Runners
      PROVE  /\ \A type \in RunnerNews :
                  TaskMsg(type, u) \in ToSet(toRunner'[r]) => TaskMsg(type, u) \in ToSet(toRunner[r])
             /\ Once(toRunner[r], TaskMsg("tasksettings", u)) => Once(toRunner'[r], TaskMsg("tasksettings", u))
  <2> DEFINE m == Msg("drain")
  <2>1. m \in ToRunner /\ <<m>> \in Seq(ToRunner) /\ toRunner[r] \in Seq(ToRunner)
    BY MessageTypes DEF ChannelTypeOK
  <2>2. ToSet(<<m>>) = {m} /\ \A x : Once(<<m>>, x)
    BY SingleFacts
  <2>3. Append(toRunner[r], m) = toRunner[r] \o <<m>>
    BY <2>1, AppendIsConcat
  <2>4. \A type \in RunnerNews : TaskMsg(type, u) # m
    BY MsgFacts DEF RunnerNews
  <2>5. toRunner'[r] = toRunner[r] \/ toRunner'[r] = toRunner[r] \o <<m>>
    BY <2>3 DEF StartDraining
  <2> HIDE DEF m
  <2>6. /\ ToSet(toRunner[r] \o <<m>>) = ToSet(toRunner[r]) \cup ToSet(<<m>>)
        /\ \A x : Once(toRunner[r], x) /\ Once(<<m>>, x) /\ (x \notin ToSet(toRunner[r]) \/ x \notin ToSet(<<m>>))
                    => Once(toRunner[r] \o <<m>>, x)
    BY <2>1, WriteFacts, ZenonT(40)
  <2>7. TaskMsg("tasksettings", u) # m
    BY <2>4 DEF RunnerNews
  <2> QED BY <2>2, <2>4, <2>5, <2>6, <2>7
<1>3. OutboundKept(u)
  BY <1>2, OutboundStep
<1>4. RunnerQuiet(u) /\ BrokerQuiet(u)
  BY RunnerIdle DEF StartDraining, BrokerQuiet, listVars, acceptVars, reqVars
<1> QED BY <1>1, <1>3, <1>4, KeptLife DEF LifeInv

LEMMA BrokerTimerLife ==
  ASSUME LifeInv, UNCHANGED runnerVars,
         (\E q \in Requests : RequestTimeout(q)) \/ (\E t \in Task : AcceptTimeout(t))
  PROVE  LifeInv'
<1> SUFFICES ASSUME NEW u \in Task
             PROVE  Life(u)'
  BY DEF LifeInv
<1>1. UNCHANGED <<channelVars, knownRunners, pendingTaskOffers, offerLog, request, tasks, reqTask>>
  BY DEF RequestTimeout, AcceptTimeout, listVars, acceptVars, reqVars
<1>2. accepting' \subseteq accepting
  BY DEF RequestTimeout, AcceptTimeout, acceptVars
<1>3. InboundKept(u) /\ OutboundKept(u) /\ RunnerQuiet(u)
  BY <1>1, InboundUntouched, OutboundUntouched, RunnerIdle DEF channelVars
<1>4. BrokerQuiet(u)
  BY <1>1, <1>2 DEF BrokerQuiet
<1> QED BY <1>3, <1>4, KeptLife DEF LifeInv

(* The broker reads an answer or a report and its list of tasks does not   *)
(* grow.                                                                   *)
LEMMA BrokerReadsLife ==
  ASSUME ChannelTypeOK, LifeInv, UNCHANGED <<conn, toRunner, runnerVars>>,
         NEW r \in Runners, NEW m, BrokerReads(r, m),
         \A u \in Task : BrokerQuiet(u),
         \A u \in Task : m = TaskMsg("taskdone", u) \/ m = TaskMsg("taskerror", u) => u \notin tasks' \/ r # Runner(u)
  PROVE  LifeInv'
<1> SUFFICES ASSUME NEW u \in Task
             PROVE  Life(u)'
  BY DEF LifeInv
<1>0. Life(u) /\ OutboundKept(u) /\ RunnerQuiet(u)
  BY OutboundUntouched, RunnerIdle DEF LifeInv
<1>1. CASE \A type \in BrokerNews : TaskMsg(type, u) # m
  <2>1. InboundKept(u)
    BY <1>1, ReadOther
  <2> QED BY <1>0, <2>1, KeptLife
<1>2. ASSUME NEW type \in BrokerNews, TaskMsg(type, u) = m
      PROVE  Life(u)'
  <2>1. /\ r = Runner(u)
        /\ \A x \in BrokerNews : Inbound(x, u)' => Inbound(x, u)
        /\ \A x \in BrokerNews \ {type} : Inbound(x, u) => Inbound(x, u)'
        /\ InOrder(u)'
        /\ type \in {"taskdone", "taskerror"} => ~Inbound("taskaccepted", u)
    BY <1>0, <1>2, ReadOwn DEF Life
  <2>2. InboundThins(u)
    BY <2>1 DEF InboundThins
  <2>3. CASE type \in {"taskdone", "taskerror"}
    <3>1. ~Inbound("taskaccepted", u)' /\ u \notin tasks'
      BY <1>2, <2>1, <2>3 DEF BrokerNews
    <3> QED BY <1>0, <2>2, <3>1, QuietLife
  <2>4. CASE type \notin {"taskdone", "taskerror"}
    <3>1. Reported(u) => Reported(u)'
      BY <2>1, <2>4 DEF Reported, BrokerNews
    <3> QED BY <1>0, <2>2, <3>1, QuietLife
  <2> QED BY <2>3, <2>4
<1> QED BY <1>1, <1>2

LEMMA AnswerLife ==
  ASSUME ChannelTypeOK, LifeInv, UNCHANGED runnerVars, NEW r \in Runners, NEW t \in Task,
         \/ OnTaskRefused(r, t, "taskrejected") \/ OnTaskRefused(r, t, "taskdeferred")
         \/ OnLateAnswer(r, t, "taskaccepted") \/ OnLateAnswer(r, t, "taskrejected")
         \/ OnLateAnswer(r, t, "taskdeferred")
  PROVE  LifeInv'
<1>1. PICK type \in {"taskaccepted", "taskrejected", "taskdeferred"} : BrokerReads(r, TaskMsg(type, t))
  BY DEF OnTaskRefused, OnLateAnswer
<1>2. /\ UNCHANGED <<conn, toRunner, knownRunners, pendingTaskOffers, offerLog, request, tasks, reqTask>>
      /\ accepting' \subseteq accepting
  BY DEF OnTaskRefused, OnLateAnswer, listVars, reqVars
<1>3. \A u \in Task : BrokerQuiet(u)
  BY <1>2 DEF BrokerQuiet
<1>4. \A u \in Task : ~(TaskMsg(type, t) = TaskMsg("taskdone", u) \/ TaskMsg(type, t) = TaskMsg("taskerror", u))
  BY MsgFacts
<1> QED BY <1>1, <1>2, <1>3, <1>4, BrokerReadsLife

LEMMA OnTaskEndedLife ==
  ASSUME ChannelTypeOK, LifeInv, UNCHANGED runnerVars, NEW r \in Runners, NEW t \in Task, NEW type,
         OnTaskEnded(r, t, type)
  PROVE  LifeInv'
<1>1. /\ UNCHANGED <<conn, toRunner, knownRunners, pendingTaskOffers, offerLog, request, accepting, reqTask>>
      /\ tasks' \subseteq tasks /\ t \notin tasks'
      /\ BrokerReads(r, TaskMsg(type, t))
  BY DEF OnTaskEnded, listVars, acceptVars
<1>2. \A u \in Task : BrokerQuiet(u)
  BY <1>1 DEF BrokerQuiet
<1>3. \A u \in Task : TaskMsg(type, t) = TaskMsg("taskdone", u) \/ TaskMsg(type, t) = TaskMsg("taskerror", u) => u = t
  BY MsgFacts
<1> QED BY <1>1, <1>2, <1>3, BrokerReadsLife

LEMMA OnUnknownRunnerLife ==
  ASSUME ChannelTypeOK, LifeInv, UNCHANGED runnerVars, NEW r \in Runners, OnUnknownRunner(r)
  PROVE  LifeInv'
<1>1. PICK m \in ToBroker : BrokerReads(r, m)
  BY DEF OnUnknownRunner
<1>2. UNCHANGED <<conn, toRunner, brokerVars>> /\ r \notin knownRunners
  BY DEF OnUnknownRunner
<1>3. \A u \in Task : BrokerQuiet(u)
  BY <1>2, BrokerIdle
<1>4. \A u \in Task : u \notin tasks' \/ r # Runner(u)
  BY <1>2 DEF brokerVars, LifeInv, Life, ActiveOf
<1> QED BY <1>1, <1>2, <1>3, <1>4, BrokerReadsLife

(* The broker reads an acceptance that acceptOffer waits for. *)
LEMMA AcceptedOther ==
  ASSUME TypeInv, LifeInv, PromiseInv, UNCHANGED runnerVars, NEW r \in Runners, NEW t \in Task,
         OnTaskAccepted(r, t), NEW u \in Task, u # t
  PROVE  Life(u)'
<1> DEFINE q == request[t]
           m == TaskMsg("tasksettings", t)
<1>0. ChannelTypeOK /\ BrokerTypeOK /\ Life(u) /\ RunnerQuiet(u) /\ Runner(t) \in Runners
  BY RunnerIdle, TaskRunnerType DEF TypeInv, TypeOK, LifeInv, OnTaskAccepted
<1>1. InboundKept(u)
  <2>1. \A type \in BrokerNews : TaskMsg(type, u) # TaskMsg("taskaccepted", t)
    BY MsgFacts
  <2> QED BY <1>0, <2>1, ReadOther DEF OnTaskAccepted
<1>2. <<m>> \in Seq(ToRunner) /\ ToSet(<<m>>) = {m}
  BY MessageTypes, SingleFacts
<1>3. \A type \in RunnerNews : TaskMsg(type, u) \notin ToSet(<<m>>)
  BY <1>2, MsgFacts
<1>4. toRunner' = Posted(Runner(t), <<m>>) \/ UNCHANGED toRunner
  BY DEF OnTaskAccepted, TaskReady, RequestGone
<1> HIDE DEF m
<1>5. OutboundKept(u)
  BY <1>0, <1>2, <1>3, <1>4, PostOther, OutboundUntouched
<1>6. \A p \in Requests : reqTask'[p] = u <=> reqTask[p] = u
  <2>1. CASE RequestGone(t, q)
    BY <2>1 DEF RequestGone
  <2>2. CASE TaskReady(t, q)
    <3>1. q \in Requests /\ reqTask[q] = NoTask
      BY <1>0, <2>2 DEF TaskReady, BrokerTypeOK, PromiseInv, PromiseOf
    <3> QED BY <1>0, <2>2, <3>1, NoTaskAssumption DEF TaskReady, BrokerTypeOK
  <2> QED BY <2>1, <2>2 DEF OnTaskAccepted
<1>7. BrokerQuiet(u)
  BY <1>6 DEF OnTaskAccepted, BrokerQuiet
<1> QED BY <1>0, <1>1, <1>5, <1>7, KeptLife

LEMMA AcceptedOwn ==
  ASSUME TypeInv, LifeInv, UNCHANGED runnerVars, NEW r \in Runners, NEW t \in Task, OnTaskAccepted(r, t)
  PROVE  Life(t)'
<1> DEFINE q == request[t]
<1>0. ChannelTypeOK /\ BrokerTypeOK /\ Life(t)
  BY DEF TypeInv, TypeOK, LifeInv
<1>1. /\ r = Runner(t) /\ Inbound("taskaccepted", t) /\ ~Inbound("taskaccepted", t)'
      /\ InOrder(t)'
      /\ \A x \in BrokerNews : Inbound(x, t)' => Inbound(x, t)
      /\ \A x \in BrokerNews \ {"taskaccepted"} : Inbound(x, t) => Inbound(x, t)'
  BY <1>0, ReadOwn DEF OnTaskAccepted, BrokerNews, Life
<1>2. /\ Reported(t)' <=> Reported(t)
      /\ Inbound("taskoffer", t)' => Inbound("taskoffer", t)
      /\ Used(t)
  BY <1>1 DEF Reported, BrokerNews, Used
<1>3. ~Given(t) /\ t \notin tasks /\ ~Outbound("taskcancel", t) /\ t \notin openOffers
  BY <1>0, <1>1 DEF Life, ActiveOf
<1>4. ~Outbound("tasksettings", t) /\ status[t] \notin Executing /\ \A k \in CallKinds : <<t, k>> \notin calls
  BY <1>0, <1>3 DEF Life, GivenOf
<1>5. /\ UNCHANGED <<openOffers, status, timeoutTimer, calls, conn, knownRunners, pendingTaskOffers, offerLog, request>>
      /\ Offered(t)' <=> Offered(t)
      /\ r \in knownRunners
  BY DEF OnTaskAccepted, runnerVars, Offered
<1>6. FreshOf(t)'
  BY <1>0, <1>2, <1>5 DEF Life, FreshOf
<1>7. OutOrder(t)' /\ ~Outbound("taskcancel", t)'
  <2>1. CASE RequestGone(t, q)
    <3>1. OutboundKept(t)
      BY <2>1, OutboundUntouched DEF RequestGone
    <3> QED BY <1>0, <1>3, <3>1 DEF OutboundKept, RunnerNews, Life
  <2>2. CASE TaskReady(t, q)
    BY <1>0, <1>3, <1>4, <2>2, PostOwn DEF TaskReady, RunnerNews, Life
  <2> QED BY <2>1, <2>2 DEF OnTaskAccepted
<1>8. /\ \A p \in Requests : reqTask'[p] = t => request'[t] = p
      /\ Outbound("tasksettings", t)' => Given(t)'
  <2>1. CASE RequestGone(t, q)
    BY <1>3, <1>4, <2>1 DEF RequestGone, Outbound, Given
  <2>2. CASE TaskReady(t, q)
    <3>1. q \in Requests
      BY <1>0, <2>2 DEF TaskReady, BrokerTypeOK
    <3>2. reqTask'[q] = t /\ \A p \in Requests : p # q => reqTask'[p] = reqTask[p]
      BY <1>0, <2>2, <3>1 DEF TaskReady, BrokerTypeOK
    <3> QED BY <1>3, <1>5, <3>1, <3>2 DEF Given
  <2> QED BY <2>1, <2>2 DEF OnTaskAccepted
<1>9. GivenOf(t)'
  BY <1>4, <1>5, <1>8 DEF GivenOf
<1>10. ActiveOf(t)'
  BY <1>0, <1>1, <1>2, <1>3, <1>4, <1>5, <1>7 DEF ActiveOf, Life, Executing
<1> QED BY <1>1, <1>6, <1>7, <1>9, <1>10 DEF Life

LEMMA BrokerNextLife ==
  ASSUME TypeInv, LifeInv, PromiseInv, UNCHANGED runnerVars, BrokerNext
  PROVE  LifeInv'
<1>0. ChannelTypeOK
  BY DEF TypeInv, TypeOK
<1>1. ASSUME NEW r \in Runners, NEW t \in Task, OnTaskAccepted(r, t)
      PROVE  LifeInv'
  BY <1>1, AcceptedOther, AcceptedOwn DEF LifeInv
<1> QED
  BY <1>0, <1>1, StartTaskLife, CancelTasksLife, RpcReturnsLife, BrokerTimerLife, StartDrainingLife, OnInfoLife,
     OnUnknownRunnerLife, OnTaskOfferLife, AnswerLife, OnTaskEndedLife, OnRequestLife DEF BrokerNext

-----------------------------------------------------------------------------
(* The steps in which the broker's process ends a runner                   *)

LEMMA TaskTimeoutLife ==
  ASSUME TypeInv, LifeInv, NEW t \in Task, TaskTimeout(t)
  PROVE  LifeInv'
<1>0. ChannelTypeOK /\ RunnerTypeOK
  BY DEF TypeInv, TypeOK
<1>1. /\ UNCHANGED <<knownRunners, pendingTaskOffers, offerLog, accepting, request, reqTask>>
      /\ tasks' \subseteq tasks
  BY DEF TaskTimeout, listVars, acceptVars, FailTasks
<1>2. \A u \in Task : BrokerQuiet(u)
  BY <1>1 DEF BrokerQuiet
<1>3. CASE t \notin tasks
  <2>1. UNCHANGED <<conn, toRunner, toBroker, runnerVars>>
    BY <1>3 DEF TaskTimeout, channelVars
  <2> QED BY <1>2, <2>1, InboundUntouched, OutboundUntouched, RunnerIdle, KeptLife DEF LifeInv
<1>4. CASE t \in tasks /\ Die(Open)
  BY <1>0, <1>2, <1>4, DieLife
<1>5. CASE /\ t \in tasks
           /\ toRunner' = Posted(Runner(t), <<TaskMsg("taskcancel", t)>>)
           /\ UNCHANGED <<conn, toBroker, runnerVars>>
  <2>1. tasks' = tasks \ {t}
    BY <1>5 DEF TaskTimeout, FailTasks
  <2> QED BY <1>0, <1>1, <1>5, <2>1, PostCancelLife
<1> QED BY <1>3, <1>4, <1>5 DEF TaskTimeout

LEMMA RemoveConnectionLife ==
  ASSUME TypeInv, LifeInv, NEW r \in Runners, RemoveConnection(r)
  PROVE  LifeInv'
<1> SUFFICES ASSUME NEW u \in Task
             PROVE  Life(u)'
  BY DEF LifeInv
<1>0. ChannelTypeOK /\ RunnerTypeOK /\ Life(u) /\ Runner(u) \in Runners
  BY TaskRunnerType DEF TypeInv, TypeOK, LifeInv
<1>1. toBroker'[r] = << >> /\ \A o \in Runners : o # r => toBroker'[o] = toBroker[o]
  BY <1>0 DEF RemoveConnection, ChannelTypeOK
<1>2. InboundThins(u)
  BY <1>1, EmptyFacts, ThinStep
<1>3. Runner(u) # r => InboundKept(u)
  <2>1. ASSUME Runner(u) # r
        PROVE  \A x \in BrokerNews : Inbound(x, u) => Inbound(x, u)'
    BY <1>0, <1>1, <2>1 DEF Inbound
  <2> QED BY <1>2, <2>1 DEF InboundThins, InboundKept
<1>4. BrokerQuiet(u)
  BY <1>0 DEF RemoveConnection, DeregisterRunner, FailTasks, BrokerQuiet, acceptVars
<1> QED BY <1>0, <1>2, <1>3, <1>4, ExitLife DEF RemoveConnection

LEMMA NextLife ==
  ASSUME TypeInv, LifeInv, PromiseInv, [Next]_vars
  PROVE  LifeInv'
<1>0. ChannelTypeOK /\ RunnerTypeOK
  BY DEF TypeInv, TypeOK
<1>1. ASSUME NEW r \in Runners, HeartbeatFails(r)
      PROVE  LifeInv'
  BY <1>0, <1>1, BrokerIdle, DieLife DEF HeartbeatFails
<1>2. CASE UNCHANGED vars
  <2>1. UNCHANGED brokerVars /\ UNCHANGED <<conn, toRunner, toBroker, runnerVars>>
    BY <1>2 DEF vars, channelVars
  <2> QED
    BY <2>1, BrokerIdle, InboundUntouched, OutboundUntouched, RunnerIdle, KeptLife DEF LifeInv
<1> QED
  BY <1>0, <1>1, <1>2, RunnerNextLife, BrokerNextLife, TaskTimeoutLife, RemoveConnectionLife DEF Next

-----------------------------------------------------------------------------
(* What the steps do to the promises of startTask                          *)

(* A step that settles nothing, starts nothing and disarms no timeout *)
LEMMA PromiseQuiet ==
  ASSUME PromiseInv, UNCHANGED <<pendingTaskRequests, requestLog, tasks, taskTimeout, reqState, reqTask, request>>,
         requestTimeout \subseteq requestTimeout', acceptInProgress' \subseteq acceptInProgress,
         accepting' \subseteq accepting
  PROVE  PromiseInv'
<1> SUFFICES ASSUME NEW p \in Requests
             PROVE  PromiseOf(p)'
  BY DEF PromiseInv
<1>1. PromiseOf(p)
  BY DEF PromiseInv
<1> QED BY <1>1 DEF PromiseOf

(* The tasks ts leave the broker, and the promises that await their        *)
(* results are settled.                                                    *)
LEMMA PromiseEnds ==
  ASSUME BrokerTypeOK, PromiseInv, NEW ts, tasks' = tasks \ ts, NEW outcome \in Settled,
         Settle(tasks \cap ts, outcome), taskTimeout \ ts \subseteq taskTimeout',
         UNCHANGED <<pendingTaskRequests, requestLog, requestTimeout, reqTask, request, acceptInProgress, accepting>>
  PROVE  PromiseInv'
<1> SUFFICES ASSUME NEW p \in Requests
             PROVE  PromiseOf(p)'
  BY DEF PromiseInv
<1>1. PromiseOf(p)
  BY DEF PromiseInv
<1>2. reqState'[p] = IF reqState[p] = "awaitResult" /\ reqTask[p] \in tasks \cap ts
                     THEN outcome ELSE reqState[p]
  BY DEF Settle
<1>3. outcome \notin {"idle", "awaitReady", "awaitResult"}
  BY DEF Settled
<1>4. CASE reqState[p] = "awaitResult" /\ reqTask[p] \in ts
  BY <1>1, <1>2, <1>3, <1>4 DEF PromiseOf
<1>5. CASE ~(reqState[p] = "awaitResult" /\ reqTask[p] \in ts)
  BY <1>1, <1>2, <1>5 DEF PromiseOf
<1> QED BY <1>4, <1>5

(* settleTasks serves requests that are pending. *)
LEMMA PromiseServed ==
  ASSUME BrokerTypeOK, NEW requests \in SUBSET Requests, NEW rlog, NEW offers \in SUBSET Task, NEW olog,
         SettleTasks(requests, rlog, offers, olog), NEW p \in Requests \ requests,
         p \notin acceptInProgress, \A t \in accepting : request[t] # p
  PROVE  p \notin acceptInProgress' /\ \A t \in accepting' : request'[t] # p
<1> DEFINE free == requests \ acceptInProgress
<1>1. PICK valid \in SUBSET offers : /\ AcceptOffers(valid, Matches(free, rlog, valid, olog))
                                     /\ Matches(free, rlog, valid, olog) \in SUBSET (free \X valid)
  BY SettlePairs
<1> DEFINE pairs == Matches(free, rlog, valid, olog)
<1>2. AcceptOffers(valid, pairs) /\ pairs \in SUBSET (free \X valid) /\ valid \in SUBSET Task
  BY <1>1
<1> HIDE DEF pairs, free
<1>3. /\ Served(pairs) \subseteq free
      /\ Taken(pairs) \subseteq valid
      /\ \A t \in Taken(pairs) : <<request'[t], t>> \in pairs /\ request'[t] \in Served(pairs)
      /\ \A t \in Task \ Taken(pairs) : request'[t] = request[t]
  BY <1>2, AcceptOffersFacts, ZenonT(40)
<1>4. acceptInProgress' = acceptInProgress \cup Served(pairs) /\ accepting' = accepting \cup Taken(pairs)
  BY <1>2 DEF AcceptOffers
<1> QED BY <1>3, <1>4 DEF BrokerTypeOK, free

LEMMA StartTaskPromise ==
  ASSUME TypeInv, PromiseInv, NEW q \in Requests, StartTask(q)
  PROVE  PromiseInv'
<1> SUFFICES ASSUME NEW p \in Requests
             PROVE  PromiseOf(p)'
  BY DEF PromiseInv
<1>0. BrokerTypeOK /\ PromiseOf(p) /\ PromiseOf(q)
  BY DEF TypeInv, TypeOK, PromiseInv
<1>1. UNCHANGED <<tasks, taskTimeout, reqTask>> /\ reqState[q] = "idle"
  BY DEF StartTask
<1>2. reqTask[q] = NoTask /\ NoTask \notin tasks /\ q \notin pendingTaskRequests
  BY <1>0, <1>1, NoTaskAssumption DEF PromiseOf, BrokerTypeOK
<1>3. CASE isDraining
  <2>1. /\ UNCHANGED <<pendingTaskRequests, requestLog, requestTimeout, acceptInProgress, accepting, request>>
        /\ reqState' = [reqState EXCEPT ![q] = "expired"]
    BY <1>3 DEF StartTask, listVars, acceptVars
  <2>2. reqState'[q] = "expired" /\ (p # q => reqState'[p] = reqState[p])
    BY <1>0, <2>1 DEF BrokerTypeOK
  <2> QED BY <1>0, <1>1, <1>2, <2>1, <2>2 DEF PromiseOf
<1>4. CASE ~isDraining
  <2>1. /\ requestTimeout' = requestTimeout \cup {q}
        /\ pendingTaskRequests' = pendingTaskRequests \cup {q}
        /\ reqState' = [reqState EXCEPT ![q] = "awaitReady"]
        /\ requestLog' = Append(requestLog, q)
        /\ SettleTasks(pendingTaskRequests', requestLog', pendingTaskOffers, offerLog)
    BY <1>4 DEF StartTask
  <2>2. reqState'[q] = "awaitReady" /\ (p # q => reqState'[p] = reqState[p])
    BY <1>0, <2>1 DEF BrokerTypeOK
  <2>3. ToSet(requestLog') = ToSet(requestLog) \cup {q}
    BY <1>0, <2>1, LogGrows DEF BrokerTypeOK
  <2>4. CASE p = q
    BY <1>1, <1>2, <2>1, <2>2, <2>3, <2>4 DEF PromiseOf
  <2>5. CASE p # q
    <3>1. reqState[p] = "idle" => p \notin acceptInProgress' /\ \A t \in accepting' : request'[t] # p
      <4>1. SUFFICES ASSUME reqState[p] = "idle"
                     PROVE  p \notin acceptInProgress' /\ \A t \in accepting' : request'[t] # p
        OBVIOUS
      <4>2. p \notin pendingTaskRequests' /\ p \notin acceptInProgress /\ \A t \in accepting : request[t] # p
        BY <1>0, <2>1, <2>5, <4>1 DEF PromiseOf
      <4>3. pendingTaskRequests' \in SUBSET Requests /\ pendingTaskOffers \in SUBSET Task
        BY <1>0, <2>1 DEF BrokerTypeOK
      <4> QED BY <1>0, <2>1, <4>2, <4>3, PromiseServed
    <3> QED BY <1>0, <1>1, <2>1, <2>2, <2>3, <2>5, <3>1 DEF PromiseOf
  <2> QED BY <2>4, <2>5
<1> QED BY <1>3, <1>4

LEMMA OnTaskOfferPromise ==
  ASSUME TypeInv, PromiseInv, NEW r \in Runners, NEW t \in Task, OnTaskOffer(r, t)
  PROVE  PromiseInv'
<1> SUFFICES ASSUME NEW p \in Requests
             PROVE  PromiseOf(p)'
  BY DEF PromiseInv
<1>0. BrokerTypeOK /\ PromiseOf(p)
  BY DEF TypeInv, TypeOK, PromiseInv
<1>1. /\ UNCHANGED <<pendingTaskRequests, requestLog, tasks, requestTimeout, taskTimeout, reqState, reqTask>>
      /\ SettleTasks(pendingTaskRequests, requestLog, pendingTaskOffers \cup {t}, offerLog')
  BY DEF OnTaskOffer, timerVars, reqVars
<1>2. reqState[p] = "idle" => p \notin acceptInProgress' /\ \A u \in accepting' : request'[u] # p
  <2>1. SUFFICES ASSUME reqState[p] = "idle"
                 PROVE  p \notin acceptInProgress' /\ \A u \in accepting' : request'[u] # p
    OBVIOUS
  <2>2. p \notin pendingTaskRequests /\ p \notin acceptInProgress /\ \A u \in accepting : request[u] # p
    BY <1>0, <2>1 DEF PromiseOf
  <2>3. pendingTaskRequests \in SUBSET Requests /\ pendingTaskOffers \cup {t} \in SUBSET Task
    BY <1>0 DEF BrokerTypeOK
  <2> QED BY <1>0, <1>1, <2>2, <2>3, PromiseServed
<1> QED BY <1>0, <1>1, <1>2 DEF PromiseOf

LEMMA CancelTasksPromise ==
  ASSUME TypeInv, LifeInv, PromiseInv, NEW q \in Requests, CancelTasks(q)
  PROVE  PromiseInv'
<1> SUFFICES ASSUME NEW p \in Requests
             PROVE  PromiseOf(p)'
  BY DEF PromiseInv
<1> DEFINE t == reqTask[q]
<1>0. BrokerTypeOK /\ PromiseOf(p) /\ PromiseOf(q) /\ reqState[q] = "awaitResult"
  BY DEF TypeInv, TypeOK, PromiseInv, CancelTasks
<1>1. t \in tasks /\ t \in Task
  BY <1>0 DEF PromiseOf, BrokerTypeOK
<1>2. /\ tasks' = tasks \ {t}
      /\ UNCHANGED <<pendingTaskRequests, requestLog, requestTimeout, taskTimeout, reqTask, acceptInProgress,
                     accepting, request>>
  BY <1>1 DEF CancelTasks, listVars, acceptVars, timerVars
<1>3. reqState'[q] = "cancelled" /\ (p # q => reqState'[p] = reqState[p])
  BY <1>0 DEF BrokerTypeOK, CancelTasks
<1>4. p # q => reqTask[p] # t
  BY <1>1 DEF LifeInv, Life, GivenOf
<1> HIDE DEF t
<1>5. CASE p = q
  <2>1. reqTask[p] \notin tasks'
    BY <1>2, <1>5 DEF t
  <2> QED BY <1>0, <1>2, <1>3, <1>5, <2>1 DEF PromiseOf
<1>6. CASE p # q
  BY <1>0, <1>2, <1>3, <1>4, <1>6 DEF PromiseOf
<1> QED BY <1>5, <1>6

LEMMA RequestTimeoutPromise ==
  ASSUME TypeInv, PromiseInv, NEW q \in Requests, RequestTimeout(q)
  PROVE  PromiseInv'
<1> SUFFICES ASSUME NEW p \in Requests
             PROVE  PromiseOf(p)'
  BY DEF PromiseInv
<1>0. BrokerTypeOK /\ PromiseOf(p) /\ PromiseOf(q)
  BY DEF TypeInv, TypeOK, PromiseInv
<1>1. /\ requestTimeout' = requestTimeout \ {q} /\ pendingTaskRequests' = pendingTaskRequests \ {q}
      /\ UNCHANGED <<requestLog, acceptInProgress, accepting, request, tasks, taskTimeout, reqTask>>
  BY DEF RequestTimeout, acceptVars
<1>2. reqState[q] = "awaitReady" => q \in pendingTaskRequests
  BY <1>0 DEF PromiseOf
<1>3. /\ p # q => reqState'[p] = reqState[p]
      /\ reqState'[q] = IF reqState[q] = "awaitReady" THEN "expired" ELSE reqState[q]
  BY <1>0, <1>2 DEF BrokerTypeOK, RequestTimeout
<1>4. CASE p = q
  <2>1. reqState[q] = "awaitReady" => reqTask[q] \notin tasks
    BY <1>0, NoTaskAssumption DEF PromiseOf, BrokerTypeOK
  <2> QED BY <1>0, <1>1, <1>3, <1>4, <2>1 DEF PromiseOf
<1>5. CASE p # q
  BY <1>0, <1>1, <1>3, <1>5 DEF PromiseOf
<1> QED BY <1>4, <1>5

LEMMA OnTaskAcceptedPromise ==
  ASSUME TypeInv, LifeInv, PromiseInv, NEW r \in Runners, NEW t \in Task, OnTaskAccepted(r, t)
  PROVE  PromiseInv'
<1> SUFFICES ASSUME NEW p \in Requests
             PROVE  PromiseOf(p)'
  BY DEF PromiseInv
<1> DEFINE q == request[t]
<1>0. ChannelTypeOK /\ BrokerTypeOK /\ PromiseOf(p) /\ q \in Requests
  BY DEF TypeInv, TypeOK, PromiseInv, OnTaskAccepted
<1>1. Life(t) /\ Inbound("taskaccepted", t)
  <2>1. Life(t)
    BY DEF LifeInv
  <2>2. Inbound("taskaccepted", t)
    BY <1>0, <2>1, ReadOwn DEF OnTaskAccepted, BrokerNews, Life
  <2> QED BY <2>1, <2>2
<1>2. reqTask[p] # t
  BY <1>1 DEF Life, ActiveOf, Given
<1>3. /\ UNCHANGED <<requestLog, acceptInProgress, request>>
      /\ requestTimeout' = requestTimeout \ {q} /\ tasks' = tasks \cup {t} /\ accepting' \subseteq accepting
      /\ TaskReady(t, q) \/ RequestGone(t, q)
  BY DEF OnTaskAccepted
<1> HIDE DEF q
<1>4. CASE RequestGone(t, q)
  <2>1. q \notin pendingTaskRequests /\ UNCHANGED <<pendingTaskRequests, reqState, reqTask, taskTimeout>>
    BY <1>4 DEF RequestGone
  <2> QED BY <1>0, <1>2, <1>3, <2>1 DEF PromiseOf
<1>5. CASE TaskReady(t, q)
  <2>1. /\ q \in pendingTaskRequests /\ pendingTaskRequests' = pendingTaskRequests \ {q}
        /\ taskTimeout' = taskTimeout \cup {t}
        /\ reqState'[q] = "awaitResult" /\ reqTask'[q] = t
        /\ p # q => reqState'[p] = reqState[p] /\ reqTask'[p] = reqTask[p]
    BY <1>0, <1>5 DEF TaskReady, BrokerTypeOK
  <2>2. CASE p = q
    BY <1>3, <2>1, <2>2 DEF PromiseOf
  <2>3. CASE p # q
    BY <1>0, <1>2, <1>3, <2>1, <2>3 DEF PromiseOf
  <2> QED BY <2>2, <2>3
<1> QED BY <1>3, <1>4, <1>5

LEMMA NextPromise ==
  ASSUME TypeInv, LifeInv, PromiseInv, [Next]_vars
  PROVE  PromiseInv'
<1>0. BrokerTypeOK
  BY DEF TypeInv, TypeOK
<1>1. CASE UNCHANGED brokerVars
  BY <1>1, PromiseQuiet DEF brokerVars, listVars, acceptVars, timerVars, reqVars
<1>2. ASSUME NEW r \in Runners, NEW t \in Task, NEW type \in {"taskdone", "taskerror"}, OnTaskEnded(r, t, type)
      PROVE  PromiseInv'
  <2>1. CASE t \in tasks
    <3>1. tasks \cap {t} = {t}
      BY <2>1
    <3>2. PICK outcome \in Settled : Settle(tasks \cap {t}, outcome)
      BY <1>2, <2>1, <3>1 DEF OnTaskEnded, Settled
    <3>3. /\ tasks' = tasks \ {t} /\ taskTimeout \ {t} \subseteq taskTimeout'
          /\ UNCHANGED <<pendingTaskRequests, requestLog, requestTimeout, reqTask, request, acceptInProgress, accepting>>
      BY <1>2, <2>1 DEF OnTaskEnded, listVars, acceptVars
    <3> QED BY <1>0, <3>2, <3>3, PromiseEnds
  <2>2. CASE t \notin tasks
    BY <1>2, <2>2, PromiseQuiet DEF OnTaskEnded, listVars, acceptVars
  <2> QED BY <2>1, <2>2
<1>3. ASSUME NEW t \in Task, TaskTimeout(t)
      PROVE  PromiseInv'
  <2>1. /\ taskTimeout' = taskTimeout \ {t}
        /\ UNCHANGED <<pendingTaskRequests, requestLog, requestTimeout, reqTask, request, acceptInProgress, accepting>>
    BY <1>3 DEF TaskTimeout, listVars, acceptVars
  <2>2. CASE t \in tasks
    <3>1. tasks' = tasks \ {t} /\ Settle(tasks \cap {t}, "error") /\ "error" \in Settled
      BY <1>3, <2>2 DEF TaskTimeout, FailTasks, Settled
    <3> QED BY <1>0, <2>1, <3>1, PromiseEnds
  <2>3. CASE t \notin tasks
    <3>1. UNCHANGED <<tasks, reqState>>
      BY <1>3, <2>3 DEF TaskTimeout
    <3>2. ASSUME NEW p \in Requests
          PROVE  PromiseOf(p)'
      <4>1. PromiseOf(p)
        BY DEF PromiseInv
      <4> QED BY <2>1, <2>3, <3>1, <4>1 DEF PromiseOf
    <3> QED BY <3>2 DEF PromiseInv
  <2> QED BY <2>2, <2>3
<1>4. ASSUME NEW r \in Runners, RemoveConnection(r)
      PROVE  PromiseInv'
  <2> DEFINE ts == {t \in tasks : Runner(t) = r}
  <2>1. FailTasks(ts)
    BY <1>4 DEF RemoveConnection, DeregisterRunner
  <2> HIDE DEF ts
  <2>2. tasks' = tasks \ ts /\ Settle(tasks \cap ts, "error") /\ "error" \in Settled
    BY <2>1 DEF FailTasks, Settled
  <2>3. UNCHANGED <<taskTimeout, pendingTaskRequests, requestLog, requestTimeout, reqTask, request, acceptInProgress,
                    accepting>>
    BY <1>4 DEF RemoveConnection, DeregisterRunner, acceptVars, timerVars
  <2> QED BY <1>0, <2>2, <2>3, PromiseEnds
<1>5. ASSUME NEW t \in Task, RpcReturns(t) \/ AcceptTimeout(t)
      PROVE  PromiseInv'
  BY <1>5, PromiseQuiet DEF RpcReturns, AcceptTimeout, listVars, acceptVars, timerVars, reqVars
<1>6. CASE StartDraining
  BY <1>6, PromiseQuiet DEF StartDraining, listVars, acceptVars, timerVars, reqVars
<1>7. ASSUME NEW r \in Runners, OnInfo(r) \/ OnUnknownRunner(r)
      PROVE  PromiseInv'
  BY <1>7, PromiseQuiet DEF OnInfo, OnUnknownRunner, brokerVars, listVars, acceptVars, timerVars, reqVars
<1>8. ASSUME NEW r \in Runners, NEW t \in Task, NEW type,
             OnTaskRefused(r, t, type) \/ OnLateAnswer(r, t, type)
      PROVE  PromiseInv'
  BY <1>8, PromiseQuiet DEF OnTaskRefused, OnLateAnswer, listVars, timerVars, reqVars
<1>9. ASSUME NEW r \in Runners, NEW t \in Task, NEW k \in CallKinds, OnRequest(r, t, k)
      PROVE  PromiseInv'
  BY <1>9, PromiseQuiet DEF OnRequest, listVars, acceptVars, timerVars
<1>10. CASE BrokerNext
  BY <1>2, <1>5, <1>6, <1>7, <1>8, <1>9, <1>10, StartTaskPromise, CancelTasksPromise, RequestTimeoutPromise,
     OnTaskOfferPromise, OnTaskAcceptedPromise DEF BrokerNext
<1> QED BY <1>1, <1>3, <1>4, <1>10 DEF Next, HeartbeatFails, vars

-----------------------------------------------------------------------------
(* The inductive invariant and what it says                                *)

TaskInv == TypeInv /\ LifeInv /\ PromiseInv

LEMMA TaskInvInit ==
  ASSUME Init
  PROVE  TaskInv
<1> USE DEF Init, ChannelInit, RunnerInit, BrokerInit
<1>1. TypeInv
  BY TypeInvInit
<1>2. ToSet(<< >>) = {}
  BY DEF ToSet
<1>3. \A r \in Runners : \A m : ~InFlight(m, toBroker[r]) /\ ~InFlight(m, toRunner[r])
  BY <1>2 DEF InFlight
<1>4. ASSUME NEW t \in Task
      PROVE  Life(t)
  <2>1. Runner(t) \in Runners
    BY TaskRunnerType
  <2>2. /\ \A type : ~Inbound(type, t) /\ ~Outbound(type, t)
        /\ ~Reported(t)
    BY <1>3, <2>1 DEF Inbound, Outbound, Reported
  <2>3. InOrder(t) /\ OutOrder(t)
    <3>1. toBroker[Runner(t)] = << >> /\ toRunner[Runner(t)] = << >>
      BY <2>1
    <3>2. \A m, n : Once(<< >>, m) /\ Before(<< >>, m, n)
      BY DEF Once, Before
    <3> QED BY <1>3, <3>1, <3>2 DEF InOrder, OutOrder
  <2>4. ~Offered(t) /\ ~Given(t) /\ ~Used(t)
    <3>1. ~Offered(t)
      BY <2>1, BoundsAssumption DEF Offered, Task
    <3>2. ~Given(t)
      BY NoTaskAssumption DEF Given
    <3> QED BY <2>2, <3>1, <3>2 DEF Used
  <2>5. FreshOf(t)
    BY <1>2, <2>2, <2>4 DEF FreshOf
  <2>6. GivenOf(t)
    BY <2>2, <2>4 DEF GivenOf, Given, Executing
  <2>7. ActiveOf(t)
    BY <2>2, <2>4 DEF ActiveOf
  <2> QED BY <2>3, <2>5, <2>6, <2>7 DEF Life
<1>5. PromiseInv
  BY <1>2, NoTaskAssumption DEF PromiseInv, PromiseOf
<1> QED BY <1>1, <1>4, <1>5 DEF TaskInv, LifeInv

LEMMA TaskInvInductive ==
  ASSUME TaskInv, [Next]_vars
  PROVE  TaskInv'
BY TypeInvInductive, NextLife, NextPromise DEF TaskInv

LEMMA TaskInvHolds == Spec => []TaskInv
BY TaskInvInit, TaskInvInductive, PTL DEF Spec

(* Whatever runners crash, answer late or never, no promise of startTask   *)
(* is forgotten by the broker and the requester: the list and the timeout  *)
(* that will settle it are there as long as it is pending.                 *)
THEOREM PromiseTheorem == Spec => []PromiseIsGuarded
<1>1. TaskInv => PromiseIsGuarded
  <2> SUFFICES ASSUME TaskInv, NEW q \in Requests
               PROVE  /\ reqState[q] = "awaitReady" => q \in pendingTaskRequests \cap requestTimeout
                      /\ reqState[q] = "awaitResult" => /\ reqTask[q] \in tasks \cap taskTimeout
                                                        /\ request[reqTask[q]] = q
    BY DEF PromiseIsGuarded
  <2>1. PromiseOf(q) /\ tasks \subseteq Task
    BY DEF TaskInv, PromiseInv, TypeInv, TypeOK, BrokerTypeOK
  <2>2. reqTask[q] \in Task => request[reqTask[q]] = q
    BY DEF TaskInv, LifeInv, Life, GivenOf
  <2> QED BY <2>1, <2>2 DEF PromiseOf
<1> QED BY <1>1, TaskInvHolds, PTL

(* A runner executes code only for the request whose startTask was given   *)
(* its task, however often acceptOffer gave up on a runner and matched the *)
(* request with another: no code is executed twice for a request.          *)
THEOREM ExecutedTheorem == Spec => []ExecutedForItsRequest
<1>1. TaskInv => ExecutedForItsRequest
  <2> SUFFICES ASSUME TaskInv, NEW t \in Task, status[t] \in {"running", "aborting:timeout", "aborting:cancelled"}
               PROVE  request[t] \in Requests /\ reqTask[request[t]] = t
    BY DEF ExecutedForItsRequest
  <2>1. PICK p \in Requests : reqTask[p] = t
    BY DEF TaskInv, LifeInv, Life, GivenOf, Given, Executing
  <2>2. request[t] = p
    BY <2>1 DEF TaskInv, LifeInv, Life, GivenOf
  <2> QED BY <2>1, <2>2
<1> QED BY <1>1, TaskInvHolds, PTL

(* A task that the broker counts as active is never stranded: its runner   *)
(* is registered, and has the task, has reported its end or is gone.       *)
THEOREM ActiveTaskTheorem == Spec => []ActiveTaskEnds
<1>1. TaskInv => ActiveTaskEnds
  <2> SUFFICES ASSUME TaskInv, NEW t \in tasks
               PROVE  /\ Runner(t) \in knownRunners
                      /\ \/ status[t] # "none"
                         \/ InFlight(TaskMsg("taskdone", t), toBroker[Runner(t)])
                         \/ InFlight(TaskMsg("taskerror", t), toBroker[Runner(t)])
                         \/ conn[Runner(t)] = "closed"
    BY DEF ActiveTaskEnds
  <2>1. ActiveOf(t)
    BY DEF TaskInv, LifeInv, Life, TypeInv, TypeOK, BrokerTypeOK
  <2> QED BY <2>1 DEF ActiveOf, Reported, Inbound
<1> QED BY <1>1, TaskInvHolds, PTL

(* The assertions on TaskState.status in the runner's receivedSettings and *)
(* taskTimedOut never fail.                                                *)
THEOREM StatusTheorem == Spec => []NoUnexpectedTaskStatus
<1>1. TaskInv => NoUnexpectedTaskStatus
  <2> SUFFICES ASSUME TaskInv
               PROVE  NoUnexpectedTaskStatus
    OBVIOUS
  <2>1. \A t \in Task : t \in timeoutTimer => status[t] \in Status \ {"none", "aborting:timeout"}
    BY DEF TaskInv, LifeInv, Life, ActiveOf
  <2>2. ASSUME NEW r \in Open, NEW t \in Task, InFlight(TaskMsg("tasksettings", t), toRunner[r])
        PROVE  status[t] \in {"none", "waitingForSettings"}
    <3>1. Life(t) /\ r \in Runners /\ status[t] \in Status
      BY DEF TaskInv, LifeInv, Open, TypeInv, TypeOK, RunnerTypeOK
    <3>2. r = Runner(t)
      BY <2>2, <3>1 DEF Life, OutOrder, RunnerNews
    <3>3. status[t] \notin Executing
      BY <2>2, <3>1, <3>2 DEF Life, GivenOf, Outbound
    <3> QED BY <3>1, <3>3 DEF Status, Executing
  <2> QED BY <2>1, <2>2 DEF NoUnexpectedTaskStatus
<1> QED BY <1>1, TaskInvHolds, PTL

-----------------------------------------------------------------------------
(* The calls of a running task                                             *)

Requested(t, k) == InFlight(CallMsg("request", t, k), toBroker[Runner(t)])
Answered(t, k)  == InFlight(CallMsg("response", t, k), toRunner[Runner(t)])
UnderWay(t, k)  == Requested(t, k) \/ (k = "rpc" /\ t \in rpcs) \/ Answered(t, k)
Awaits(t, k)    == t \in tasks /\ status[t] = "running" /\ <<t, k>> \in calls

CallInv == \A t \in Task, k \in CallKinds : Awaits(t, k) => UnderWay(t, k)

LEMMA CallMsgFacts ==
  /\ \A a, t, u, k, l : CallMsg(a, t, k) = CallMsg(a, u, l) <=> t = u /\ k = l
  /\ \A a, b, u, k : a # b => Msg(a) # CallMsg(b, u, k)
  /\ \A a, b, t, u, k : a # b => TaskMsg(a, t) # CallMsg(b, u, k)
<1>1. \A a, t, u, k, l : CallMsg(a, t, k) = CallMsg(a, u, l) <=> t = u /\ k = l
  BY DEF CallMsg
<1>2. \A b : Msg(b).type = b
  BY DEF Msg
<1>3. \A b, u, k : CallMsg(b, u, k).type = b
  BY DEF CallMsg
<1> QED BY <1>1, <1>2, <1>3, MsgFacts

(* Messages stay in a channel until they are read. *)
LEMMA WriteMore ==
  ASSUME ChannelTypeOK, NEW r \in Runners, NEW out \in Seq(ToBroker), toBroker' = [toBroker EXCEPT ![r] = @ \o out]
  PROVE  /\ \A o \in Runners : ToSet(toBroker[o]) \subseteq ToSet(toBroker'[o])
         /\ ToSet(out) \subseteq ToSet(toBroker'[r])
<1>1. toBroker[r] \in Seq(ToBroker)
  BY DEF ChannelTypeOK
<1>2. ToSet(toBroker[r] \o out) = ToSet(toBroker[r]) \cup ToSet(out)
  BY <1>1, WriteFacts
<1>3. toBroker'[r] = toBroker[r] \o out /\ \A o \in Runners : o # r => toBroker'[o] = toBroker[o]
  BY DEF ChannelTypeOK
<1> QED BY <1>2, <1>3

LEMMA PostMore ==
  ASSUME ChannelTypeOK, NEW r \in Runners, NEW msgs \in Seq(ToRunner), toRunner' = Posted(r, msgs)
  PROVE  /\ \A o \in Runners : ToSet(toRunner[o]) \subseteq ToSet(toRunner'[o])
         /\ conn[r] = "open" => ToSet(msgs) \subseteq ToSet(toRunner'[r])
<1>1. toRunner[r] \in Seq(ToRunner)
  BY DEF ChannelTypeOK
<1>2. ToSet(toRunner[r] \o msgs) = ToSet(toRunner[r]) \cup ToSet(msgs)
  BY <1>1, WriteFacts
<1>3. /\ toRunner'[r] = toRunner[r] \o msgs \/ (toRunner'[r] = toRunner[r] /\ conn[r] # "open")
      /\ \A o \in Runners : o # r => toRunner'[o] = toRunner[o]
  BY DEF ChannelTypeOK, Posted
<1> QED BY <1>2, <1>3

LEMMA AcceptMore ==
  ASSUME ChannelTypeOK, NEW requests \in SUBSET Requests, NEW rlog, NEW offers \in SUBSET Task, NEW olog,
         SettleTasks(requests, rlog, offers, olog), NEW r \in Runners
  PROVE  ToSet(toRunner[r]) \subseteq ToSet(toRunner'[r])
<1>1. PICK valid \in SUBSET Task : \E pairs \in SUBSET (Requests \X valid) : AcceptOffers(valid, pairs)
  BY SettleTasksPairs
<1>2. PICK pairs \in SUBSET (Requests \X valid) : AcceptOffers(valid, pairs)
  BY <1>1
<1>3. PICK s \in [Runners -> UNION {AcceptOrders(o, Taken(pairs)) : o \in Runners}] :
        /\ \A o \in Runners : s[o] \in AcceptOrders(o, Taken(pairs))
        /\ toRunner' = [o \in Runners |-> IF o \in knownRunners /\ conn[o] = "open"
                                          THEN toRunner[o] \o AcceptMsgs(s[o]) ELSE toRunner[o]]
  BY <1>2 DEF AcceptOffers
<1>4. Taken(pairs) \subseteq Task
  BY <1>2, AcceptOffersFacts
<1>5. AcceptMsgs(s[r]) \in Seq(ToRunner) /\ toRunner[r] \in Seq(ToRunner)
  BY <1>3, <1>4, AcceptMsgsFacts DEF ChannelTypeOK
<1> DEFINE out == AcceptMsgs(s[r])
<1>6. toRunner'[r] = toRunner[r] \o out \/ toRunner'[r] = toRunner[r]
  BY <1>3
<1>7. out \in Seq(ToRunner)
  BY <1>5
<1> HIDE DEF out
<1>8. ToSet(toRunner[r] \o out) = ToSet(toRunner[r]) \cup ToSet(out)
  BY <1>5, <1>7, WriteFacts
<1> QED BY <1>6, <1>8

LEMMA RunnerReadsCall ==
  ASSUME ChannelTypeOK, NEW r \in Runners, NEW m, NEW out \in Seq(ToBroker), RunnerReads(r, m, out),
         UNCHANGED rpcs, NEW t \in Task, NEW k, m # CallMsg("response", t, k), UnderWay(t, k)
  PROVE  UnderWay(t, k)'
<1>0. Runner(t) \in Runners
  BY TaskRunnerType
<1>1. toRunner[r] \in Seq(ToRunner) /\ toRunner[r] # << >> /\ m = Head(toRunner[r])
  BY DEF ChannelTypeOK, RunnerReads
<1>2. ToSet(toRunner[r]) \subseteq ToSet(Tail(toRunner[r])) \cup {m}
  BY <1>1, ReadFacts
<1>3. toRunner'[r] = Tail(toRunner[r]) /\ \A o \in Runners : o # r => toRunner'[o] = toRunner[o]
  BY DEF RunnerReads, ChannelTypeOK
<1>4. Answered(t, k) => Answered(t, k)'
  BY <1>0, <1>2, <1>3 DEF Answered, InFlight
<1>5. ToSet(toBroker[Runner(t)]) \subseteq ToSet(toBroker'[Runner(t)])
  BY <1>0, WriteMore DEF RunnerReads
<1> QED BY <1>4, <1>5 DEF UnderWay, Requested, InFlight

LEMMA WritesCall ==
  ASSUME NEW t \in Task, NEW k, UnderWay(t, k), rpcs \subseteq rpcs',
         ToSet(toBroker[Runner(t)]) \subseteq ToSet(toBroker'[Runner(t)]),
         ToSet(toRunner[Runner(t)]) \subseteq ToSet(toRunner'[Runner(t)])
  PROVE  UnderWay(t, k)'
BY DEF UnderWay, Requested, Answered, InFlight

LEMMA BrokerReadsCall ==
  ASSUME ChannelTypeOK, NEW r \in Runners, NEW m, BrokerReads(r, m), NEW t \in Task, NEW k, UnderWay(t, k),
         m # CallMsg("request", t, k) \/ r # Runner(t), rpcs \subseteq rpcs',
         ToSet(toRunner[Runner(t)]) \subseteq ToSet(toRunner'[Runner(t)])
  PROVE  UnderWay(t, k)'
<1>0. Runner(t) \in Runners
  BY TaskRunnerType
<1>1. toBroker[r] \in Seq(ToBroker) /\ toBroker[r] # << >> /\ m = Head(toBroker[r])
  BY DEF ChannelTypeOK, BrokerReads
<1>2. ToSet(toBroker[r]) \subseteq ToSet(Tail(toBroker[r])) \cup {m}
  BY <1>1, ReadFacts
<1>3. toBroker'[r] = Tail(toBroker[r]) /\ \A o \in Runners : o # r => toBroker'[o] = toBroker[o]
  BY DEF BrokerReads, ChannelTypeOK
<1>4. Requested(t, k) => Requested(t, k)'
  BY <1>0, <1>2, <1>3 DEF Requested, InFlight
<1> QED BY <1>4 DEF UnderWay, Answered, InFlight

(* Nothing changes for the tasks of the processes that live on. *)
LEMMA ExitCall ==
  ASSUME NEW rs, ProcessesExit(rs), UNCHANGED rpcs, tasks' \subseteq tasks, NEW t \in Task, NEW k, Awaits(t, k)',
         Runner(t) \notin rs => toBroker'[Runner(t)] = toBroker[Runner(t)],
         Awaits(t, k) => UnderWay(t, k)
  PROVE  UnderWay(t, k)'
<1>1. Runner(t) \in Runners
  BY TaskRunnerType
<1>2. Runner(t) \notin rs /\ status'[t] = status[t] /\ <<t, k>> \in calls
  BY DEF ProcessesExit, Awaits
<1>3. toRunner'[Runner(t)] = toRunner[Runner(t)]
  BY <1>1, <1>2 DEF ProcessesExit
<1>4. UnderWay(t, k)
  BY <1>2 DEF Awaits
<1> QED BY <1>2, <1>3, <1>4, WritesCall

LEMMA DieCall ==
  ASSUME NEW rs, Die(rs), UNCHANGED rpcs, tasks' \subseteq tasks, NEW t \in Task, NEW k, Awaits(t, k)',
         Awaits(t, k) => UnderWay(t, k)
  PROVE  UnderWay(t, k)'
<1>1. Runner(t) \notin rs => toBroker'[Runner(t)] = toBroker[Runner(t)]
  BY TaskRunnerType DEF Die
<1> QED BY <1>1, ExitCall DEF Die

(* finishTask with its report *)
LEMMA FinishCall ==
  ASSUME ChannelTypeOK, RunnerTypeOK, UNCHANGED <<toRunner, calls, tasks, rpcs>>, NEW u \in Task, NEW stale,
         NEW rep \in Seq(ToBroker),
         toBroker' = [toBroker EXCEPT ![Runner(u)] = @ \o rep \o FinishMsgs(u, stale)], FinishTask(u, stale),
         NEW t \in Task, NEW k, Awaits(t, k)', Awaits(t, k) => UnderWay(t, k)
  PROVE  UnderWay(t, k)'
<1> DEFINE fin == FinishMsgs(u, stale)
<1>1. fin \in Seq(ToBroker) /\ Runner(u) \in Runners /\ Runner(t) \in Runners
  BY FinishTaskType, TaskRunnerType
<1>2. toBroker' = [toBroker EXCEPT ![Runner(u)] = @ \o rep \o fin]
  OBVIOUS
<1> HIDE DEF fin
<1>3. /\ rep \o fin \in Seq(ToBroker)
      /\ (toBroker[Runner(u)] \o rep) \o fin = toBroker[Runner(u)] \o (rep \o fin)
  <2> DEFINE old == toBroker[Runner(u)]
  <2>1. old \in Seq(ToBroker)
    BY <1>1 DEF ChannelTypeOK
  <2> HIDE DEF old
  <2>2. rep \o fin \in Seq(ToBroker)
    BY <1>1, ConcatProperties
  <2>3. (old \o rep) \o fin = old \o (rep \o fin)
    BY <1>1, <2>1, ConcatAssociative, SMTT(40)
  <2> QED BY <2>2, <2>3 DEF old
<1>4. toBroker' = [toBroker EXCEPT ![Runner(u)] = @ \o (rep \o fin)]
  BY <1>2, <1>3
<1>5. \A o \in Runners : ToSet(toBroker[o]) \subseteq ToSet(toBroker'[o])
  BY <1>1, <1>3, <1>4, WriteMore
<1>6. Awaits(t, k)
  BY DEF Awaits, FinishTask, RunnerTypeOK
<1> QED BY <1>1, <1>5, <1>6, WritesCall

LEMMA RunnerNextCalls ==
  ASSUME TypeInv, LifeInv, CallInv, UNCHANGED brokerVars, RunnerNext
  PROVE  CallInv'
<1> SUFFICES ASSUME NEW t \in Task, NEW k \in CallKinds, Awaits(t, k)'
             PROVE  UnderWay(t, k)'
  BY DEF CallInv
<1>0. /\ ChannelTypeOK /\ RunnerTypeOK /\ Life(t) /\ UNCHANGED <<tasks, rpcs>> /\ Runner(t) \in Runners
      /\ Awaits(t, k) => UnderWay(t, k)
  BY TaskRunnerType DEF TypeInv, TypeOK, LifeInv, CallInv, brokerVars, reqVars
<1>1. \A a, b, u : a # b => Msg(a) # CallMsg(b, t, k) /\ TaskMsg(a, u) # CallMsg(b, t, k)
  BY CallMsgFacts
<1>2. << >> \in Seq(ToBroker)
  OBVIOUS
<1>3. ASSUME NEW r \in Runners, Connect(r)
      PROVE  UnderWay(t, k)'
  <2>1. Awaits(t, k)
    BY <1>0, <1>3 DEF Awaits, Connect, runnerVars
  <2>2. r # Runner(t)
    BY <1>0, <1>3, <2>1 DEF Life, ActiveOf, Awaits, Connect
  <2>3. toRunner'[Runner(t)] = toRunner[Runner(t)] /\ UNCHANGED toBroker
    BY <1>0, <1>3, <2>2 DEF Connect, ChannelTypeOK
  <2> QED BY <1>0, <2>1, <2>3, WritesCall
<1>4. ASSUME NEW r \in Runners, OnInfoRequest(r)
      PROVE  UnderWay(t, k)'
  <2>1. Awaits(t, k) /\ <<Msg("info")>> \in Seq(ToBroker)
    BY <1>0, <1>4, MessageTypes DEF Awaits, OnInfoRequest, runnerVars
  <2> QED BY <1>0, <1>1, <1>4, <2>1, RunnerReadsCall DEF OnInfoRequest
<1>5. ASSUME NEW r \in Runners, OnRunnerRegistered(r)
      PROVE  UnderWay(t, k)'
  <2>1. Awaits(t, k)
    BY <1>0, <1>5 DEF Awaits, OnRunnerRegistered
  <2> QED BY <1>0, <1>1, <1>2, <1>5, <2>1, RunnerReadsCall DEF OnRunnerRegistered
<1>6. ASSUME NEW r \in Runners, OnDrain(r)
      PROVE  UnderWay(t, k)'
  <2>1. Awaits(t, k)
    BY <1>0, <1>6 DEF Awaits, OnDrain
  <2> QED BY <1>0, <1>1, <1>2, <1>6, <2>1, RunnerReadsCall DEF OnDrain
<1>7. ASSUME NEW r \in Runners, OfferInterval(r)
      PROVE  UnderWay(t, k)'
  <2>1. Awaits(t, k) /\ UNCHANGED toRunner
    BY <1>0, <1>7 DEF Awaits, OfferInterval
  <2>2. PICK stale \in Stale(r) : toBroker' = [toBroker EXCEPT ![r] = @ \o OfferMsgs(r, NewOffers(r, stale, {}))]
    BY <1>7 DEF OfferInterval
  <2>3. OfferMsgs(r, NewOffers(r, stale, {})) \in Seq(ToBroker)
    BY <1>0, NewOffersType
  <2>4. \A o \in Runners : ToSet(toBroker[o]) \subseteq ToSet(toBroker'[o])
    BY <1>0, <2>2, <2>3, WriteMore
  <2> QED BY <1>0, <2>1, <2>4, WritesCall
<1>8. ASSUME NEW r \in Runners, Stop(r)
      PROVE  UnderWay(t, k)'
  <2>1. Awaits(t, k) /\ UNCHANGED <<toRunner, toBroker>>
    BY <1>0, <1>8 DEF Awaits, Stop, channelVars
  <2> QED BY <1>0, <2>1, WritesCall
<1>9. ASSUME NEW r \in Runners, CloseConnection(r) \/ Crash(r)
      PROVE  UnderWay(t, k)'
  BY <1>0, <1>9, ExitCall, DieCall DEF CloseConnection, Crash
<1>10. ASSUME NEW r \in Runners, LauncherRegistered(r)
       PROVE  UnderWay(t, k)'
  <2>1. Awaits(t, k)
    BY <1>0, <1>10 DEF Awaits, LauncherRegistered
  <2>2. <<r, offersSent[r] + 1>> \in Task
    BY <1>0, <1>10, BoundsAssumption DEF LauncherRegistered, RunnerTypeOK, Task
  <2>3. <<TaskMsg("taskoffer", <<r, offersSent[r] + 1>>)>> \in Seq(ToBroker)
    BY <2>2, MessageTypes
  <2> QED BY <1>0, <1>1, <1>10, <2>1, <2>3, RunnerReadsCall DEF LauncherRegistered
<1>11. ASSUME NEW r \in Runners, NEW u \in Task, LauncherDefers(r, u)
       PROVE  UnderWay(t, k)'
  <2>1. Awaits(t, k) /\ <<TaskMsg("taskdeferred", u)>> \in Seq(ToBroker)
    BY <1>0, <1>11, MessageTypes DEF Awaits, LauncherDefers, runnerVars
  <2> QED BY <1>0, <1>1, <1>11, <2>1, RunnerReadsCall DEF LauncherDefers
<1>12. ASSUME NEW r \in Runners, NEW u \in Task, OnOfferAccept(r, u)
       PROVE  UnderWay(t, k)'
  <2>1. Awaits(t, k)
    BY <1>0, <1>12 DEF Awaits, OnOfferAccept, RunnerTypeOK
  <2>2. \A type \in {"taskaccepted", "taskrejected"} : <<TaskMsg(type, u)>> \in Seq(ToBroker)
    BY MessageTypes
  <2>3. PICK type \in {"taskaccepted", "taskrejected"} :
          RunnerReads(r, TaskMsg("taskofferaccept", u), <<TaskMsg(type, u)>>)
    BY <1>12 DEF OnOfferAccept
  <2> QED BY <1>0, <1>1, <2>1, <2>2, <2>3, RunnerReadsCall
<1>13. ASSUME NEW r \in Runners, NEW u \in Task, OnTaskCancel(r, u)
       PROVE  UnderWay(t, k)'
  <2>1. Awaits(t, k)
    BY <1>0, <1>13 DEF Awaits, OnTaskCancel, FinishTask, CancelTaskRequests, RunnerTypeOK
  <2>2. PICK out \in Seq(ToBroker) : RunnerReads(r, TaskMsg("taskcancel", u), out)
    BY <1>0, <1>2, <1>13, FinishTaskType DEF OnTaskCancel
  <2> QED BY <1>0, <1>1, <2>1, <2>2, RunnerReadsCall
<1>14. ASSUME NEW r \in Runners, NEW u \in Task, OnTaskSettings(r, u)
       PROVE  UnderWay(t, k)'
  <2>1. RunnerReads(r, TaskMsg("tasksettings", u), << >>)
    BY <1>14 DEF OnTaskSettings
  <2>2. ~Outbound("tasksettings", t)
    BY <1>0, <1>14 DEF Life, GivenOf, Awaits, OnTaskSettings
  <2>3. u # t
    BY <1>0, <2>1, <2>2, RunnerReadOwn DEF Life, RunnerNews
  <2>4. Awaits(t, k)
    BY <1>0, <1>14, <2>3 DEF Awaits, OnTaskSettings, RunnerTypeOK
  <2> QED BY <1>0, <1>1, <1>2, <2>1, <2>4, RunnerReadsCall
<1>15. ASSUME NEW r \in Runners, NEW u \in Task, NEW j \in CallKinds, OnResponse(r, u, j)
       PROVE  UnderWay(t, k)'
  <2>1. Awaits(t, k) /\ <<t, k>> # <<u, j>>
    BY <1>0, <1>15 DEF Awaits, OnResponse
  <2>2. CallMsg("response", u, j) # CallMsg("response", t, k)
    BY <2>1, CallMsgFacts
  <2>3. PICK m : m # CallMsg("response", t, k) /\ RunnerReads(r, m, << >>)
    BY <1>15, <2>2 DEF OnResponse
  <2>4. UnderWay(t, k) /\ ChannelTypeOK /\ rpcs' = rpcs
    BY <1>0, <2>1
  <2>5. PICK out \in Seq(ToBroker) : RunnerReads(r, m, out)
    BY <1>2, <2>3
  <2> QED BY <2>3, <2>4, <2>5, RunnerReadsCall, SMTT(30)
<1>16. ASSUME NEW u \in Task, RunnerTaskTimeout(u)
       PROVE  UnderWay(t, k)'
  <2>1. UNCHANGED toRunner
    BY <1>16 DEF RunnerTaskTimeout
  <2>2. ASSUME NEW stale, FinishTask(u, stale), UNCHANGED calls,
               toBroker' = [toBroker EXCEPT ![Runner(u)] = @ \o TimeoutReport(u) \o FinishMsgs(u, stale)]
        PROVE  UnderWay(t, k)'
    <3>1. TimeoutReport(u) \in Seq(ToBroker)
      BY MessageTypes DEF TimeoutReport
    <3> QED BY <1>0, <2>1, <2>2, <3>1, FinishCall
  <2>3. ASSUME UNCHANGED toBroker, status' = [status EXCEPT ![u] = "aborting:timeout"] \/ UNCHANGED status,
               calls' = CancelTaskRequests(u) \/ UNCHANGED calls
        PROVE  UnderWay(t, k)'
    <3>1. Awaits(t, k)
      BY <1>0, <2>3 DEF Awaits, CancelTaskRequests, RunnerTypeOK
    <3> QED BY <1>0, <2>1, <2>3, <3>1, WritesCall
  <2> QED BY <1>16, <2>2, <2>3 DEF RunnerTaskTimeout
<1>17. ASSUME NEW u \in Task, NEW outcome \in {"taskdone", "taskerror"}, ExecutionEnds(u, outcome)
       PROVE  UnderWay(t, k)'
  <2>1. Report(u, outcome) \in Seq(ToBroker)
    BY <1>2, MessageTypes DEF Report
  <2> QED BY <1>0, <1>17, <2>1, FinishCall DEF ExecutionEnds
<1>18. ASSUME NEW u \in Task, NEW j \in CallKinds, Call(u, j)
       PROVE  UnderWay(t, k)'
  <2> DEFINE m == CallMsg("request", u, j)
  <2>1. /\ <<m>> \in Seq(ToBroker) /\ ToSet(<<m>>) = {m} /\ Runner(u) \in Runners
        /\ Append(toBroker[Runner(u)], m) = toBroker[Runner(u)] \o <<m>>
    BY <1>0, MessageTypes, SingleFacts, TaskRunnerType, AppendIsConcat DEF ChannelTypeOK
  <2>2. toBroker' = [toBroker EXCEPT ![Runner(u)] = @ \o <<m>>] /\ UNCHANGED toRunner
    BY <1>18, <2>1 DEF Call
  <2>3. /\ \A o \in Runners : ToSet(toBroker[o]) \subseteq ToSet(toBroker'[o])
        /\ m \in ToSet(toBroker'[Runner(u)])
    BY <1>0, <2>1, <2>2, WriteMore
  <2>4. CASE <<t, k>> = <<u, j>>
    <3>1. t = u /\ k = j
      BY <2>4
    <3> QED BY <2>3, <3>1 DEF UnderWay, Requested, InFlight
  <2>5. CASE <<t, k>> # <<u, j>>
    <3>1. Awaits(t, k)
      BY <1>0, <1>18, <2>5 DEF Awaits, Call
    <3> QED BY <1>0, <2>2, <2>3, <3>1, WritesCall
  <2> QED BY <2>4, <2>5
<1> QED BY <1>3, <1>4, <1>5, <1>6, <1>7, <1>8, <1>9, <1>10, <1>11, <1>12, <1>13, <1>14, <1>15, <1>16, <1>17, <1>18
        DEF RunnerNext

(* A request for a call of a running task is answered, or handed to the    *)
(* requester's handleRpc: the broker has the task, so startTask awaits its *)
(* result, and its connection is open.                                     *)
LEMMA OnRequestCall ==
  ASSUME TypeInv, LifeInv, PromiseInv, UNCHANGED runnerVars, NEW r \in Runners, NEW u \in Task, NEW j \in CallKinds,
         OnRequest(r, u, j), NEW t \in Task, NEW k \in CallKinds, Awaits(t, k)', Awaits(t, k) => UnderWay(t, k)
  PROVE  UnderWay(t, k)'
<1> DEFINE m == CallMsg("response", u, j)
<1>0. /\ ChannelTypeOK /\ BrokerTypeOK /\ Life(t) /\ Runner(t) \in Runners
      /\ Awaits(t, k) /\ UnderWay(t, k)
  BY TaskRunnerType DEF TypeInv, TypeOK, LifeInv, Awaits, OnRequest, runnerVars
<1>1. <<m>> \in Seq(ToRunner) /\ ToSet(<<m>>) = {m}
  BY MessageTypes, SingleFacts
<1>2. \/ toRunner' = Posted(r, <<m>>)
      \/ UNCHANGED toRunner
  BY DEF OnRequest
<1>3. \A o \in Runners : ToSet(toRunner[o]) \subseteq ToSet(toRunner'[o])
  BY <1>0, <1>1, <1>2, PostMore
<1>4. rpcs \subseteq rpcs' /\ BrokerReads(r, CallMsg("request", u, j))
  BY DEF OnRequest
<1>5. CASE CallMsg("request", u, j) # CallMsg("request", t, k) \/ r # Runner(t)
  <2>1. PICK x : BrokerReads(r, x) /\ (x # CallMsg("request", t, k) \/ r # Runner(t))
    BY <1>4, <1>5
  <2> QED BY <1>0, <1>3, <1>4, <2>1, BrokerReadsCall
<1>6. CASE CallMsg("request", u, j) = CallMsg("request", t, k) /\ r = Runner(t)
  <2>1. u = t /\ j = k
    BY <1>6, CallMsgFacts
  <2>2. t \in tasks /\ conn[r] = "open"
    BY <1>0, <1>6 DEF Awaits, Life, ActiveOf
  <2>3. PICK q \in Requests : reqTask[q] = t
    BY <1>0 DEF Awaits, Life, GivenOf, Given
  <2>4. reqState[q] = "awaitResult"
    BY <2>2, <2>3 DEF PromiseInv, PromiseOf
  <2>5. k \in {"data", "nodetypes", "rpc"}
    BY KindsAssumption
  <2>6. CASE k = "rpc"
    BY <2>1, <2>2, <2>3, <2>4, <2>6 DEF OnRequest, UnderWay
  <2>7. CASE k # "rpc"
    <3>1. toRunner' = Posted(r, <<m>>)
      BY <2>1, <2>2, <2>3, <2>4, <2>5, <2>7 DEF OnRequest
    <3>2. m \in ToSet(toRunner'[r])
      BY <1>0, <1>1, <2>2, <3>1, PostMore
    <3> QED BY <1>6, <2>1, <3>2 DEF UnderWay, Answered, InFlight
  <2> QED BY <2>6, <2>7
<1> QED BY <1>5, <1>6

LEMMA RpcReturnsCall ==
  ASSUME TypeInv, LifeInv, UNCHANGED runnerVars, NEW u \in Task, RpcReturns(u),
         NEW t \in Task, NEW k \in CallKinds, Awaits(t, k)', Awaits(t, k) => UnderWay(t, k)
  PROVE  UnderWay(t, k)'
<1> DEFINE m == CallMsg("response", u, "rpc")
<1>0. /\ ChannelTypeOK /\ Life(t) /\ Runner(t) \in Runners /\ Runner(u) \in Runners /\ "rpc" \in CallKinds
      /\ Awaits(t, k) /\ UnderWay(t, k)
  BY TaskRunnerType DEF TypeInv, TypeOK, LifeInv, Awaits, RpcReturns, runnerVars
<1>1. <<m>> \in Seq(ToRunner) /\ ToSet(<<m>>) = {m}
  BY <1>0, MessageTypes, SingleFacts
<1>2. /\ toRunner' = IF u \in tasks THEN Posted(Runner(u), <<m>>) ELSE toRunner
      /\ UNCHANGED toBroker /\ rpcs' = rpcs \ {u}
  BY DEF RpcReturns
<1>3. \A o \in Runners : ToSet(toRunner[o]) \subseteq ToSet(toRunner'[o])
  BY <1>0, <1>1, <1>2, PostMore
<1>4. CASE u = t /\ k = "rpc"
  <2>1. t \in tasks /\ conn[Runner(t)] = "open"
    BY <1>0 DEF Awaits, Life, ActiveOf
  <2>2. m \in ToSet(toRunner'[Runner(t)])
    BY <1>0, <1>1, <1>2, <1>4, <2>1, PostMore
  <2> QED BY <1>4, <2>2 DEF UnderWay, Answered, InFlight
<1>5. CASE ~(u = t /\ k = "rpc")
  BY <1>0, <1>2, <1>3, <1>5 DEF UnderWay, Requested, Answered, InFlight
<1> QED BY <1>4, <1>5

LEMMA BrokerNextCalls ==
  ASSUME TypeInv, LifeInv, PromiseInv, CallInv, UNCHANGED runnerVars, BrokerNext
  PROVE  CallInv'
<1> SUFFICES ASSUME NEW t \in Task, NEW k \in CallKinds, Awaits(t, k)'
             PROVE  UnderWay(t, k)'
  BY DEF CallInv
<1>0. /\ ChannelTypeOK /\ BrokerTypeOK /\ Life(t) /\ Runner(t) \in Runners
      /\ UNCHANGED <<status, calls>>
      /\ Awaits(t, k) => UnderWay(t, k)
  BY TaskRunnerType DEF TypeInv, TypeOK, LifeInv, CallInv, runnerVars
<1>1. \A a, b, u : a # b => Msg(a) # CallMsg(b, t, k) /\ TaskMsg(a, u) # CallMsg(b, t, k)
  BY CallMsgFacts
<1>2. ASSUME NEW q \in Requests, StartTask(q)
      PROVE  UnderWay(t, k)'
  <2>1. Awaits(t, k) /\ UNCHANGED <<toBroker, rpcs>>
    BY <1>0, <1>2 DEF Awaits, StartTask
  <2>2. CASE isDraining
    BY <1>0, <1>2, <2>1, <2>2, WritesCall DEF StartTask
  <2>3. CASE ~isDraining
    <3>1. /\ SettleTasks(pendingTaskRequests', requestLog', pendingTaskOffers, offerLog)
          /\ pendingTaskRequests' \in SUBSET Requests /\ pendingTaskOffers \in SUBSET Task
      BY <1>0, <1>2, <2>3 DEF StartTask, BrokerTypeOK
    <3>2. ToSet(toRunner[Runner(t)]) \subseteq ToSet(toRunner'[Runner(t)])
      BY <1>0, <3>1, AcceptMore
    <3> QED BY <1>0, <2>1, <3>2, WritesCall
  <2> QED BY <2>2, <2>3
<1>3. ASSUME NEW q \in Requests, CancelTasks(q)
      PROVE  UnderWay(t, k)'
  <2>1. Awaits(t, k) /\ UNCHANGED <<toBroker, rpcs>>
    BY <1>0, <1>3 DEF Awaits, CancelTasks
  <2>2. ToSet(toRunner[Runner(t)]) \subseteq ToSet(toRunner'[Runner(t)])
    <3>1. CASE reqTask[q] \in tasks
      <4>1. reqTask[q] \in Task /\ Runner(reqTask[q]) \in Runners
        BY <1>0, <3>1, TaskRunnerType DEF BrokerTypeOK
      <4>2. <<TaskMsg("taskcancel", reqTask[q])>> \in Seq(ToRunner)
        BY <4>1, MessageTypes
      <4> QED BY <1>0, <1>3, <3>1, <4>1, <4>2, PostMore DEF CancelTasks
    <3>2. CASE reqTask[q] \notin tasks
      BY <1>3, <3>2 DEF CancelTasks
    <3> QED BY <3>1, <3>2
  <2> QED BY <1>0, <2>1, <2>2, WritesCall
<1>4. ASSUME UNCHANGED <<toRunner, toBroker, tasks, rpcs>>
      PROVE  UnderWay(t, k)'
  BY <1>0, <1>4, WritesCall DEF Awaits
<1>5. CASE StartDraining
  <2>1. Awaits(t, k) /\ UNCHANGED <<toBroker, rpcs>>
    BY <1>0, <1>5 DEF Awaits, StartDraining, reqVars
  <2>2. ToSet(toRunner[Runner(t)]) \subseteq ToSet(toRunner'[Runner(t)])
    <3>1. toRunner[Runner(t)] \in Seq(ToRunner) /\ Msg("drain") \in ToRunner
      BY <1>0, MessageTypes DEF ChannelTypeOK
    <3>2. ToSet(Append(toRunner[Runner(t)], Msg("drain"))) = ToSet(toRunner[Runner(t)]) \cup {Msg("drain")}
      BY <3>1, LogGrows
    <3> QED BY <1>0, <1>5, <3>2 DEF StartDraining
  <2> QED BY <1>0, <2>1, <2>2, WritesCall
<1>6. ASSUME NEW r \in Runners, OnInfo(r)
      PROVE  UnderWay(t, k)'
  <2>1. Awaits(t, k) /\ UNCHANGED rpcs /\ <<Msg("runnerregistered")>> \in Seq(ToRunner)
    BY <1>0, <1>6, MessageTypes DEF Awaits, OnInfo, reqVars
  <2>2. ToSet(toRunner[Runner(t)]) \subseteq ToSet(toRunner'[Runner(t)])
    BY <1>0, <1>6, <2>1, PostMore DEF OnInfo
  <2> QED BY <1>0, <1>1, <1>6, <2>1, <2>2, BrokerReadsCall DEF OnInfo
<1>7. ASSUME NEW r \in Runners, OnUnknownRunner(r)
      PROVE  UnderWay(t, k)'
  <2>1. Awaits(t, k) /\ UNCHANGED <<toRunner, rpcs>> /\ r \notin knownRunners
    BY <1>0, <1>7 DEF Awaits, OnUnknownRunner, brokerVars, reqVars
  <2>2. r # Runner(t)
    BY <1>0, <2>1 DEF Awaits, Life, ActiveOf
  <2>3. PICK m : BrokerReads(r, m)
    BY <1>7 DEF OnUnknownRunner
  <2> QED BY <1>0, <2>1, <2>2, <2>3, BrokerReadsCall
<1>8. ASSUME NEW r \in Runners, NEW u \in Task, OnTaskOffer(r, u)
      PROVE  UnderWay(t, k)'
  <2>1. Awaits(t, k) /\ UNCHANGED rpcs
    BY <1>0, <1>8 DEF Awaits, OnTaskOffer, reqVars
  <2>2. /\ SettleTasks(pendingTaskRequests, requestLog, pendingTaskOffers \cup {u}, offerLog')
        /\ pendingTaskRequests \in SUBSET Requests /\ pendingTaskOffers \cup {u} \in SUBSET Task
    BY <1>0, <1>8 DEF OnTaskOffer, BrokerTypeOK
  <2>3. ToSet(toRunner[Runner(t)]) \subseteq ToSet(toRunner'[Runner(t)])
    BY <1>0, <2>2, AcceptMore
  <2> QED BY <1>0, <1>1, <1>8, <2>1, <2>3, BrokerReadsCall DEF OnTaskOffer
<1>9. ASSUME NEW r \in Runners, NEW u \in Task, OnTaskAccepted(r, u)
      PROVE  UnderWay(t, k)'
  <2>1. BrokerReads(r, TaskMsg("taskaccepted", u)) /\ UNCHANGED rpcs /\ tasks' = tasks \cup {u}
    BY <1>9 DEF OnTaskAccepted
  <2>2. u # t
    <3>1. SUFFICES ASSUME u = t
                   PROVE  FALSE
      OBVIOUS
    <3>2. Inbound("taskaccepted", t)
      BY <1>0, <2>1, <3>1, ReadOwn DEF BrokerNews, Life
    <3> QED BY <1>0, <3>2 DEF Life, ActiveOf, GivenOf, Awaits
  <2>3. Awaits(t, k)
    BY <1>0, <2>1, <2>2 DEF Awaits
  <2>4. <<TaskMsg("tasksettings", u)>> \in Seq(ToRunner) /\ Runner(u) \in Runners
    BY MessageTypes, TaskRunnerType
  <2>5. ToSet(toRunner[Runner(t)]) \subseteq ToSet(toRunner'[Runner(t)])
    BY <1>0, <1>9, <2>4, PostMore DEF OnTaskAccepted, TaskReady, RequestGone
  <2> QED BY <1>0, <1>1, <2>1, <2>3, <2>5, BrokerReadsCall
<1>10. ASSUME NEW r \in Runners, NEW u \in Task,
              NEW type \in {"taskaccepted", "taskrejected", "taskdeferred", "taskdone", "taskerror"},
              BrokerReads(r, TaskMsg(type, u)), UNCHANGED <<toRunner, rpcs>>, tasks' \subseteq tasks
       PROVE  UnderWay(t, k)'
  <2>1. Awaits(t, k) /\ TaskMsg(type, u) # CallMsg("request", t, k)
    BY <1>0, <1>1, <1>10 DEF Awaits
  <2> QED BY <1>0, <1>10, <2>1, BrokerReadsCall
<1>11. ASSUME NEW r \in Runners, NEW u \in Task, NEW type \in {"taskdone", "taskerror"}, OnTaskEnded(r, u, type)
       PROVE  UnderWay(t, k)'
  <2>1. BrokerReads(r, TaskMsg(type, u)) /\ UNCHANGED <<toRunner, rpcs>> /\ tasks' \subseteq tasks
    BY <1>11 DEF OnTaskEnded
  <2> QED BY <1>10, <2>1
<1>12. ASSUME NEW r \in Runners, NEW u \in Task, NEW type \in {"taskaccepted", "taskrejected", "taskdeferred"},
              OnTaskRefused(r, u, type) \/ OnLateAnswer(r, u, type)
       PROVE  UnderWay(t, k)'
  <2>1. BrokerReads(r, TaskMsg(type, u)) /\ UNCHANGED <<toRunner, rpcs, tasks>>
    BY <1>12 DEF OnTaskRefused, OnLateAnswer, reqVars
  <2> QED BY <1>10, <2>1
<1>13. ASSUME NEW r \in Runners, NEW u \in Task, NEW j \in CallKinds, OnRequest(r, u, j)
       PROVE  UnderWay(t, k)'
  BY <1>0, <1>13, OnRequestCall
<1>14. ASSUME NEW u \in Task, RpcReturns(u)
       PROVE  UnderWay(t, k)'
  BY <1>0, <1>14, RpcReturnsCall
<1>15. ASSUME (\E q \in Requests : RequestTimeout(q)) \/ (\E u \in Task : AcceptTimeout(u))
       PROVE  UnderWay(t, k)'
  <2>1. UNCHANGED <<toRunner, toBroker, tasks, rpcs>>
    BY <1>15 DEF RequestTimeout, AcceptTimeout, channelVars, reqVars
  <2> QED BY <1>4, <2>1
<1> QED BY <1>2, <1>3, <1>5, <1>6, <1>7, <1>8, <1>9, <1>11, <1>12, <1>13, <1>14, <1>15 DEF BrokerNext

LEMMA NextCalls ==
  ASSUME TaskInv, CallInv, [Next]_vars
  PROVE  CallInv'
<1> USE DEF TaskInv
<1>1. CASE RunnerNext /\ UNCHANGED brokerVars
  BY <1>1, RunnerNextCalls
<1>2. CASE BrokerNext /\ UNCHANGED runnerVars
  BY <1>2, BrokerNextCalls
<1>3. ASSUME NEW t \in Task, NEW k \in CallKinds, Awaits(t, k)'
      PROVE  /\ Awaits(t, k) => UnderWay(t, k)
             /\ Runner(t) \in Runners
             /\ ChannelTypeOK /\ BrokerTypeOK
  BY TaskRunnerType DEF CallInv, TypeInv, TypeOK
<1>4. ASSUME NEW u \in Task, TaskTimeout(u)
      PROVE  CallInv'
  <2> SUFFICES ASSUME NEW t \in Task, NEW k \in CallKinds, Awaits(t, k)'
               PROVE  UnderWay(t, k)'
    BY DEF CallInv
  <2>1. UNCHANGED rpcs /\ tasks' \subseteq tasks
    BY <1>4 DEF TaskTimeout, FailTasks
  <2>2. CASE Die(Open)
    BY <1>3, <2>1, <2>2, DieCall
  <2>3. CASE UNCHANGED <<toBroker, runnerVars>> /\ toRunner' = Posted(Runner(u), <<TaskMsg("taskcancel", u)>>)
    <3>1. Awaits(t, k)
      BY <2>1, <2>3 DEF Awaits, runnerVars
    <3>2. <<TaskMsg("taskcancel", u)>> \in Seq(ToRunner) /\ Runner(u) \in Runners
      BY MessageTypes, TaskRunnerType
    <3>3. ToSet(toRunner[Runner(t)]) \subseteq ToSet(toRunner'[Runner(t)])
      BY <1>3, <2>3, <3>2, PostMore
    <3> QED BY <1>3, <2>1, <2>3, <3>1, <3>3, WritesCall
  <2>4. CASE UNCHANGED <<toBroker, toRunner, runnerVars>>
    <3>1. Awaits(t, k)
      BY <2>1, <2>4 DEF Awaits, runnerVars
    <3> QED BY <1>3, <2>1, <2>4, <3>1, WritesCall
  <2> QED BY <1>4, <2>2, <2>3, <2>4 DEF TaskTimeout, channelVars
<1>5. ASSUME NEW r \in Runners, HeartbeatFails(r)
      PROVE  CallInv'
  <2> SUFFICES ASSUME NEW t \in Task, NEW k \in CallKinds, Awaits(t, k)'
               PROVE  UnderWay(t, k)'
    BY DEF CallInv
  <2>1. Die(Open) /\ UNCHANGED <<rpcs, tasks>>
    BY <1>5 DEF HeartbeatFails, brokerVars, reqVars
  <2> QED BY <1>3, <2>1, DieCall
<1>6. ASSUME NEW r \in Runners, RemoveConnection(r)
      PROVE  CallInv'
  <2> SUFFICES ASSUME NEW t \in Task, NEW k \in CallKinds, Awaits(t, k)'
               PROVE  UnderWay(t, k)'
    BY DEF CallInv
  <2>1. ProcessesExit({r}) /\ UNCHANGED rpcs /\ tasks' \subseteq tasks
    BY <1>6 DEF RemoveConnection, DeregisterRunner, FailTasks
  <2>2. Runner(t) \notin {r} => toBroker'[Runner(t)] = toBroker[Runner(t)]
    BY <1>3, <1>6 DEF RemoveConnection, ChannelTypeOK
  <2> QED BY <1>3, <2>1, <2>2, ExitCall
<1>7. CASE UNCHANGED vars
  BY <1>7 DEF vars, channelVars, runnerVars, brokerVars, reqVars, CallInv, Awaits, UnderWay, Requested, Answered, InFlight
<1> QED BY <1>1, <1>2, <1>4, <1>5, <1>6, <1>7 DEF Next

(* A call that a running task makes of the requester is never dropped as   *)
(* long as the broker has the task: requestData, requestNodeTypes and      *)
(* makeRpcCall wait for something that is under way.                       *)
THEOREM CallTheorem == Spec => []NoLostCall
<1>1. Init => TaskInv /\ CallInv
  BY TaskInvInit DEF Init, BrokerInit, CallInv, Awaits
<1>2. (TaskInv /\ CallInv) /\ [Next]_vars => (TaskInv /\ CallInv)'
  BY TaskInvInductive, NextCalls
<1>3. Spec => [](TaskInv /\ CallInv)
  BY <1>1, <1>2, PTL DEF Spec
<1>4. TaskInv /\ CallInv => NoLostCall
  <2> SUFFICES ASSUME TaskInv, CallInv, NEW t \in tasks, NEW k \in CallKinds, status[t] = "running", <<t, k>> \in calls
               PROVE  UnderWay(t, k)
    BY DEF NoLostCall, UnderWay, Requested, Answered
  <2>1. t \in Task
    BY DEF TaskInv, TypeInv, TypeOK, BrokerTypeOK
  <2> QED BY <2>1 DEF CallInv, Awaits
<1> QED BY <1>3, <1>4, PTL

-----------------------------------------------------------------------------
(* The requests that acceptOffer serves                                    *)

LogInv == NoRepeat(offerLog) /\ NoRepeat(requestLog)

(* A flag of a pending request stands for an acceptOffer, every            *)
(* acceptOffer has set one, and no two have set the same.                  *)
ServeInv ==
  /\ \A q \in pendingTaskRequests \cap acceptInProgress : \E t \in accepting : request[t] = q
  /\ \A t \in accepting : request[t] \in acceptInProgress
  /\ \A t, u \in accepting : request[t] = request[u] => t = u

(* What settleTasks leaves behind when it matched `pairs`, between the      *)
(* requests that are free and the offers that are valid.                   *)
MatchedBy(free, rlog, valid, olog, pairs) ==
  /\ pairs = Matches(free, rlog, valid, olog)
  /\ Served(pairs) \subseteq free
  /\ Taken(pairs) \subseteq valid
  /\ \A t \in Taken(pairs) : <<request'[t], t>> \in pairs /\ request'[t] \in Served(pairs)
  /\ \A t \in Task \ Taken(pairs) : request'[t] = request[t]
  /\ acceptInProgress' = acceptInProgress \cup Served(pairs)
  /\ accepting' = accepting \cup Taken(pairs)

LEMMA SettleFacts ==
  ASSUME NEW requests, NEW rlog, NEW offers \in SUBSET Task, NEW olog, SettleTasks(requests, rlog, offers, olog)
  PROVE  \E valid \in SUBSET offers : \E pairs \in SUBSET ((requests \ acceptInProgress) \X offers) :
           MatchedBy(requests \ acceptInProgress, rlog, valid, olog, pairs)
<1> DEFINE free == requests \ acceptInProgress
<1>1. PICK valid \in SUBSET offers : /\ AcceptOffers(valid, Matches(free, rlog, valid, olog))
                                     /\ Matches(free, rlog, valid, olog) \in SUBSET (free \X valid)
  BY SettlePairs
<1> DEFINE pairs == Matches(free, rlog, valid, olog)
<1>2. AcceptOffers(valid, pairs) /\ pairs \in SUBSET (free \X valid) /\ valid \in SUBSET Task
  BY <1>1
<1> HIDE DEF pairs, free
<1>3. /\ Served(pairs) \subseteq free
      /\ Taken(pairs) \subseteq valid
      /\ \A t \in Taken(pairs) : <<request'[t], t>> \in pairs /\ request'[t] \in Served(pairs)
      /\ \A t \in Task \ Taken(pairs) : request'[t] = request[t]
  BY <1>2, AcceptOffersFacts
<1>4. acceptInProgress' = acceptInProgress \cup Served(pairs) /\ accepting' = accepting \cup Taken(pairs)
  BY <1>2 DEF AcceptOffers
<1>5. pairs \in SUBSET (free \X offers)
  BY <1>2
<1>6. pairs = Matches(free, rlog, valid, olog)
  BY DEF pairs
<1>7. pairs \in SUBSET ((requests \ acceptInProgress) \X offers)
  BY <1>5 DEF free
<1>8. MatchedBy(requests \ acceptInProgress, rlog, valid, olog, pairs)
  BY <1>3, <1>4, <1>6 DEF free, MatchedBy
<1> QED BY <1>7, <1>8

LEMMA SettleServes ==
  ASSUME BrokerTypeOK, ServeInv,
         NEW requests \in SUBSET Requests, NEW rlog \in Seq(Requests), NoRepeat(rlog), requests \subseteq ToSet(rlog),
         NEW offers \in SUBSET Task, NEW olog \in Seq(Task), NoRepeat(olog), offers \subseteq ToSet(olog),
         offers \cap accepting = {}, requests \cap acceptInProgress \subseteq pendingTaskRequests,
         SettleTasks(requests, rlog, offers, olog), pendingTaskRequests' = requests
  PROVE  ServeInv'
<1>a. \E valid \in SUBSET offers : \E pairs \in SUBSET ((requests \ acceptInProgress) \X offers) :
        MatchedBy(requests \ acceptInProgress, rlog, valid, olog, pairs)
  BY SettleFacts
<1>b. PICK valid \in SUBSET offers : \E pairs \in SUBSET ((requests \ acceptInProgress) \X offers) :
        MatchedBy(requests \ acceptInProgress, rlog, valid, olog, pairs)
  BY <1>a
<1>c. PICK pairs \in SUBSET ((requests \ acceptInProgress) \X offers) :
        MatchedBy(requests \ acceptInProgress, rlog, valid, olog, pairs)
  BY <1>b
<1> DEFINE free == requests \ acceptInProgress
<1>1. /\ pairs \in SUBSET (free \X offers)
      /\ pairs = Matches(free, rlog, valid, olog)
      /\ Served(pairs) \subseteq free
      /\ Taken(pairs) \subseteq valid
      /\ \A t \in Taken(pairs) : <<request'[t], t>> \in pairs /\ request'[t] \in Served(pairs)
      /\ \A t \in Task \ Taken(pairs) : request'[t] = request[t]
      /\ acceptInProgress' = acceptInProgress \cup Served(pairs)
      /\ accepting' = accepting \cup Taken(pairs)
  BY <1>c DEF MatchedBy
<1>2. /\ valid \in SUBSET Task
      /\ free \in SUBSET Requests /\ free \subseteq ToSet(rlog) /\ valid \subseteq ToSet(olog)
      /\ free \cap acceptInProgress = {} /\ valid \cap accepting = {}
  OBVIOUS
<1>3. \A q, o, p, u : <<q, o>> \in pairs /\ <<p, u>> \in pairs => (q = p <=> o = u)
  BY <1>1, <1>2, TaskFinite, RequestsAssumption, MatchesPair
<1>4. requests = free \cup (requests \cap acceptInProgress)
  OBVIOUS
<1> HIDE DEF free
<1>5. /\ Served(pairs) \subseteq free
      /\ Taken(pairs) \subseteq valid
      /\ \A t \in Taken(pairs) : <<request'[t], t>> \in pairs /\ request'[t] \in Served(pairs)
      /\ \A t \in Task \ Taken(pairs) : request'[t] = request[t]
  BY <1>1
<1>6. acceptInProgress' = acceptInProgress \cup Served(pairs) /\ accepting' = accepting \cup Taken(pairs)
  BY <1>1
<1>7. \A t \in accepting : t \notin Taken(pairs) /\ request'[t] = request[t]
  BY <1>2, <1>5 DEF BrokerTypeOK
<1>8. ASSUME NEW q \in Served(pairs)
      PROVE  \E t \in Taken(pairs) : request'[t] = q
  <2>1. PICK m \in pairs : m[1] = q
    BY DEF Served
  <2>2. m = <<m[1], m[2]>> /\ m[2] \in Taken(pairs)
    BY <2>1 DEF Taken
  <2>3. <<request'[m[2]], m[2]>> \in pairs
    BY <1>5, <2>2
  <2> QED BY <1>3, <2>1, <2>2, <2>3
<1>9. \A q \in pendingTaskRequests' \cap acceptInProgress' : \E t \in accepting' : request'[t] = q
  <2> SUFFICES ASSUME NEW q \in requests, q \in acceptInProgress'
               PROVE  \E t \in accepting' : request'[t] = q
    OBVIOUS
  <2>1. CASE q \in Served(pairs)
    BY <1>6, <1>8, <2>1
  <2>2. CASE q \notin Served(pairs)
    <3>1. q \in pendingTaskRequests \cap acceptInProgress
      BY <1>6, <2>2
    <3> QED BY <1>6, <1>7, <3>1 DEF ServeInv
  <2> QED BY <2>1, <2>2
<1>10. \A t \in accepting' : request'[t] \in acceptInProgress'
  BY <1>5, <1>6, <1>7 DEF ServeInv
<1>11. ASSUME NEW t \in accepting', NEW u \in accepting', request'[t] = request'[u]
       PROVE  t = u
  <2>1. CASE t \in Taken(pairs) /\ u \in Taken(pairs)
    BY <1>3, <1>5, <1>11, <2>1
  <2>2. CASE t \in accepting /\ u \in accepting
    BY <1>7, <1>11, <2>2 DEF ServeInv
  <2>3. ASSUME NEW x \in accepting, NEW y \in Taken(pairs)
        PROVE  request'[x] # request'[y]
    BY <1>2, <1>5, <1>7 DEF ServeInv
  <2> QED BY <1>6, <1>11, <2>1, <2>2, <2>3
<1> QED BY <1>9, <1>10, <1>11 DEF ServeInv

LEMMA StartTaskServes ==
  ASSUME TaskInv, LogInv, ServeInv, NEW q \in Requests, StartTask(q)
  PROVE  LogInv' /\ ServeInv'
<1>0. BrokerTypeOK /\ PromiseInv /\ LifeInv /\ offerLog' = offerLog
  BY DEF TaskInv, TypeInv, TypeOK, StartTask, listVars
<1>1. CASE isDraining
  BY <1>1 DEF StartTask, listVars, acceptVars, LogInv, ServeInv
<1>2. CASE ~isDraining
  <2>1. /\ pendingTaskRequests' = pendingTaskRequests \cup {q}
        /\ requestLog' = Append(requestLog, q)
        /\ SettleTasks(pendingTaskRequests', requestLog', pendingTaskOffers, offerLog)
    BY <1>2 DEF StartTask
  <2>2. q \notin ToSet(requestLog) /\ q \notin acceptInProgress
    BY <1>0 DEF PromiseInv, PromiseOf, StartTask
  <2>3. NoRepeat(requestLog') /\ requestLog' \in Seq(Requests) /\ ToSet(requestLog') = ToSet(requestLog) \cup {q}
    BY <1>0, <2>1, <2>2, AppendNoRepeat, LogGrows, AppendProperties DEF BrokerTypeOK, LogInv
  <2>4. pendingTaskRequests' \in SUBSET Requests /\ pendingTaskRequests' \subseteq ToSet(requestLog')
    BY <1>0, <2>1, <2>3 DEF BrokerTypeOK, PromiseInv, PromiseOf
  <2>5. pendingTaskOffers \in SUBSET Task /\ pendingTaskOffers \subseteq ToSet(offerLog)
    BY <1>0 DEF BrokerTypeOK, LifeInv, Life, FreshOf
  <2>6. pendingTaskOffers \cap accepting = {}
    BY <1>0 DEF BrokerTypeOK, LifeInv, Life, FreshOf, Used
  <2>7. pendingTaskRequests' \cap acceptInProgress \subseteq pendingTaskRequests
    BY <2>1, <2>2
  <2>8. offerLog \in Seq(Task) /\ NoRepeat(offerLog)
    BY <1>0 DEF BrokerTypeOK, LogInv
  <2>9. ServeInv'
    BY <1>0, <2>1, <2>3, <2>4, <2>5, <2>6, <2>7, <2>8, SettleServes
  <2> QED BY <1>0, <2>3, <2>8, <2>9 DEF LogInv
<1> QED BY <1>1, <1>2

LEMMA OnTaskOfferServes ==
  ASSUME TaskInv, LogInv, ServeInv, NEW r \in Runners, NEW t \in Task, OnTaskOffer(r, t)
  PROVE  LogInv' /\ ServeInv'
<1>0. BrokerTypeOK /\ ChannelTypeOK /\ PromiseInv /\ LifeInv /\ Life(t) /\ UNCHANGED <<pendingTaskRequests, requestLog>>
  BY DEF TaskInv, TypeInv, TypeOK, OnTaskOffer, LifeInv
<1>1. /\ offerLog' = Append(offerLog, t)
      /\ SettleTasks(pendingTaskRequests, requestLog, pendingTaskOffers \cup {t}, offerLog')
  BY DEF OnTaskOffer
<1>2. Inbound("taskoffer", t)
  BY <1>0, ReadOwn DEF OnTaskOffer, Life, BrokerNews
<1>3. t \notin ToSet(offerLog) /\ t \notin accepting
  BY <1>0, <1>2 DEF Life, FreshOf, Used
<1>4. NoRepeat(offerLog') /\ offerLog' \in Seq(Task) /\ ToSet(offerLog') = ToSet(offerLog) \cup {t}
  BY <1>0, <1>1, <1>3, AppendNoRepeat, LogGrows, AppendProperties DEF BrokerTypeOK, LogInv
<1>5. pendingTaskRequests \in SUBSET Requests /\ pendingTaskRequests \subseteq ToSet(requestLog)
  BY <1>0 DEF BrokerTypeOK, PromiseInv, PromiseOf
<1>6. pendingTaskOffers \cup {t} \in SUBSET Task /\ pendingTaskOffers \cup {t} \subseteq ToSet(offerLog')
  BY <1>0, <1>4 DEF BrokerTypeOK, LifeInv, Life, FreshOf
<1>7. (pendingTaskOffers \cup {t}) \cap accepting = {}
  BY <1>0, <1>3 DEF BrokerTypeOK, LifeInv, Life, FreshOf, Used
<1>8. requestLog \in Seq(Requests) /\ NoRepeat(requestLog)
  BY <1>0 DEF BrokerTypeOK, LogInv
<1>9. pendingTaskRequests \cap acceptInProgress \subseteq pendingTaskRequests /\ pendingTaskRequests' = pendingTaskRequests
  BY <1>0
<1>10. ServeInv'
  BY <1>0, <1>1, <1>4, <1>5, <1>6, <1>7, <1>8, <1>9, SettleServes
<1> QED BY <1>0, <1>4, <1>8, <1>10 DEF LogInv

(* The end of an acceptOffer: its flag is reset, or its request is not     *)
(* pending any more.                                                       *)
LEMMA AcceptEnds ==
  ASSUME ServeInv, NEW t \in accepting, accepting' = accepting \ {t}, UNCHANGED request,
         pendingTaskRequests' \subseteq pendingTaskRequests,
         \/ acceptInProgress' = acceptInProgress \ {request[t]}
         \/ acceptInProgress' = acceptInProgress /\ request[t] \notin pendingTaskRequests'
  PROVE  ServeInv'
<1>1. \A q \in pendingTaskRequests' \cap acceptInProgress' : \E u \in accepting' : request'[u] = q
  BY DEF ServeInv
<1>2. \A u \in accepting' : request'[u] \in acceptInProgress'
  BY DEF ServeInv
<1>3. \A u, v \in accepting' : request'[u] = request'[v] => u = v
  BY DEF ServeInv
<1> QED BY <1>1, <1>2, <1>3 DEF ServeInv

LEMMA NextServes ==
  ASSUME TaskInv, LogInv, ServeInv, [Next]_vars
  PROVE  LogInv' /\ ServeInv'
<1>1. CASE UNCHANGED <<offerLog, requestLog, acceptInProgress, accepting, request>>
           /\ pendingTaskRequests' \subseteq pendingTaskRequests
  BY <1>1 DEF LogInv, ServeInv
<1>2. CASE UNCHANGED brokerVars
  BY <1>1, <1>2 DEF brokerVars, listVars, acceptVars
<1>3. ASSUME NEW t \in Task, AcceptTimeout(t)
      PROVE  LogInv' /\ ServeInv'
  BY <1>3, AcceptEnds DEF AcceptTimeout, listVars, LogInv
<1>4. ASSUME NEW r \in Runners, NEW t \in Task, NEW type, OnTaskRefused(r, t, type)
      PROVE  LogInv' /\ ServeInv'
  BY <1>4, AcceptEnds DEF OnTaskRefused, listVars, LogInv
<1>5. ASSUME NEW r \in Runners, NEW t \in Task, OnTaskAccepted(r, t)
      PROVE  LogInv' /\ ServeInv'
  <2>1. /\ t \in accepting /\ accepting' = accepting \ {t} /\ UNCHANGED <<request, acceptInProgress, offerLog, requestLog>>
        /\ pendingTaskRequests' \subseteq pendingTaskRequests /\ request[t] \notin pendingTaskRequests'
    BY <1>5 DEF OnTaskAccepted, TaskReady, RequestGone
  <2> QED BY <2>1, AcceptEnds DEF LogInv
<1>6. ASSUME NEW q \in Requests, CancelTasks(q) \/ RequestTimeout(q)
      PROVE  LogInv' /\ ServeInv'
  BY <1>1, <1>6 DEF CancelTasks, RequestTimeout, listVars, acceptVars
<1>7. ASSUME NEW t \in Task, RpcReturns(t)
      PROVE  LogInv' /\ ServeInv'
  BY <1>1, <1>7 DEF RpcReturns, listVars, acceptVars
<1>8. CASE StartDraining
  BY <1>1, <1>8 DEF StartDraining, listVars, acceptVars
<1>9. ASSUME NEW r \in Runners, OnInfo(r) \/ OnUnknownRunner(r) \/ RemoveConnection(r)
      PROVE  LogInv' /\ ServeInv'
  BY <1>1, <1>9 DEF OnInfo, OnUnknownRunner, RemoveConnection, DeregisterRunner, brokerVars, listVars, acceptVars
<1>10. ASSUME NEW r \in Runners, NEW t \in Task, NEW type, OnLateAnswer(r, t, type) \/ OnTaskEnded(r, t, type)
       PROVE  LogInv' /\ ServeInv'
  BY <1>1, <1>10 DEF OnLateAnswer, OnTaskEnded, listVars, acceptVars
<1>11. ASSUME NEW r \in Runners, NEW t \in Task, NEW k \in CallKinds, OnRequest(r, t, k)
       PROVE  LogInv' /\ ServeInv'
  BY <1>1, <1>11 DEF OnRequest, listVars, acceptVars
<1>12. ASSUME NEW t \in Task, TaskTimeout(t)
       PROVE  LogInv' /\ ServeInv'
  BY <1>1, <1>12 DEF TaskTimeout, listVars, acceptVars
<1>13. CASE BrokerNext
  BY <1>3, <1>4, <1>5, <1>6, <1>7, <1>8, <1>9, <1>10, <1>11, <1>13, StartTaskServes, OnTaskOfferServes DEF BrokerNext
<1> QED BY <1>2, <1>9, <1>12, <1>13 DEF Next, HeartbeatFails, vars

(* Every pending request that is marked acceptInProgress is being offered  *)
(* to exactly one runner, and no other is: settleTasks skips no request    *)
(* for ever and hands none to two runners.                                 *)
THEOREM ServedOnceTheorem == Spec => []ServedOnce
<1>1. Init => TaskInv /\ LogInv /\ ServeInv
  <2>1. NoRepeat(<< >>)
    BY DEF NoRepeat
  <2> QED BY <2>1, TaskInvInit DEF Init, BrokerInit, LogInv, ServeInv
<1>2. (TaskInv /\ LogInv /\ ServeInv) /\ [Next]_vars => (TaskInv /\ LogInv /\ ServeInv)'
  BY TaskInvInductive, NextServes
<1>3. Spec => [](TaskInv /\ LogInv /\ ServeInv)
  BY <1>1, <1>2, PTL DEF Spec
<1>4. TaskInv /\ LogInv /\ ServeInv => ServedOnce
  <2> SUFFICES ASSUME ServeInv, NEW q \in pendingTaskRequests
               PROVE  Cardinality({t \in accepting : request[t] = q}) = IF q \in acceptInProgress THEN 1 ELSE 0
    BY DEF ServedOnce
  <2>1. CASE q \in acceptInProgress
    <3>1. PICK t \in accepting : request[t] = q
      BY <2>1 DEF ServeInv
    <3>2. {u \in accepting : request[u] = q} = {t}
      BY <3>1 DEF ServeInv
    <3> QED BY <2>1, <3>2, FS_Singleton
  <2>2. CASE q \notin acceptInProgress
    <3>1. {u \in accepting : request[u] = q} = {}
      BY <2>2 DEF ServeInv
    <3> QED BY <2>2, <3>1, FS_EmptySet
  <2> QED BY <2>1, <2>2
<1> QED BY <1>3, <1>4, PTL
=============================================================================
