------------------------ MODULE WorkflowEngineProofs ------------------------
(***************************************************************************)
(* Proofs about the main loop of the engine, for any workflows, positions, *)
(* required inputs and numbers of runs and waits.                          *)
(***************************************************************************)
EXTENDS WorkflowEngine, FiniteSetTheorems, SequenceTheorems, WellFoundedInduction, TLAPS

-----------------------------------------------------------------------------
(* Induction over the connections of a node                                *)

LEMMA FirstNumber ==
  ASSUME NEW T \in SUBSET Nat, T # {}
  PROVE  /\ Min(T) \in T
         /\ \A j \in T : Min(T) <= j
<1>1. \E i \in T : \A j \in T : <<j, i>> \notin OpToRel(<, Nat)
  BY NatLessThanWellFounded, WFMin
<1>2. \E i \in T : \A j \in T : ~(j < i)
  BY <1>1 DEF OpToRel
<1>3. \E i \in T : \A j \in T : i =< j
  BY <1>2
<1> QED BY <1>3 DEF Min

LEMMA Induction ==
  ASSUME NEW S, 0 \in S, \A k \in Nat : k \in S => k + 1 \in S
  PROVE  \A k \in Nat : k \in S
<1> SUFFICES ASSUME Nat \ S # {} PROVE FALSE
  OBVIOUS
<1> DEFINE k == Min(Nat \ S)
<1>1. k \in Nat \ S /\ \A j \in Nat \ S : k <= j
  BY FirstNumber
<1> HIDE DEF k
<1>2. k # 0 /\ k - 1 \in Nat /\ ~(k <= k - 1)
  BY <1>1
<1>3. k - 1 \in S
  BY <1>1, <1>2
<1>4. (k - 1) + 1 \in S
  BY <1>2, <1>3
<1>5. (k - 1) + 1 = k
  BY <1>1
<1> QED BY <1>1, <1>4, <1>5

-----------------------------------------------------------------------------
(* The queue: stack, waiting and names                                     *)

Datum == Source \cup {Nothing, Trigger}

(* IExecuteData of a node *)
Item ==
  {s \in [node : Nodes, data : UNION {[Inputs(n) -> Datum] : n \in Nodes}, made : 0 .. MaxWaits, disabled : BOOLEAN] :
     s.data \in [Inputs(s.node) -> Datum]}

Entry(n) == [Inputs(n) -> Source \cup {Nothing}]

(* The nodes that wait, each with its entries *)
EntriesOK(q, n) ==
  /\ DOMAIN q.waiting[n] \in SUBSET Nat
  /\ IsFiniteSet(DOMAIN q.waiting[n])
  /\ \A i \in DOMAIN q.waiting[n] : q.waiting[n][i] \in Entry(n)
  /\ n \in Range(q.names) <=> DOMAIN q.waiting[n] # {}
  /\ Inputs(n) = {0} => DOMAIN q.waiting[n] = {}

QueueOK(q) ==
  /\ q = [stack |-> q.stack, waiting |-> q.waiting, names |-> q.names]
  /\ q.stack \in Seq(Item)
  /\ q.names \in Seq(Nodes) /\ IsInjective(q.names)
  /\ DOMAIN q.waiting = Nodes
  /\ \A n \in Nodes : EntriesOK(q, n)

LEMMA UnshiftFacts ==
  ASSUME NEW s \in Seq(Item), NEW n \in Nodes, NEW data \in [Inputs(n) -> Datum], waits \in 0 .. MaxWaits
  PROVE  /\ Unshift(s, n, data) \in Seq(Item)
         /\ Len(Unshift(s, n, data)) = Len(s) + 1
         /\ Unshift(s, n, data)[1] = [node |-> n, data |-> data, made |-> waits, disabled |-> FALSE]
         /\ \A j \in 1 .. Len(s) : Unshift(s, n, data)[j + 1] = s[j]
         /\ Unshift(s, n, data) # << >>
<1> DEFINE x == [node |-> n, data |-> data, made |-> waits, disabled |-> FALSE]
<1>1. x \in Item
  BY DEF Item
<1> HIDE DEF x
<1>2. <<x>> \in Seq(Item) /\ Len(<<x>>) = 1 /\ <<x>>[1] = x
  BY <1>1
<1>3. /\ <<x>> \o s \in Seq(Item)
      /\ Len(<<x>> \o s) = 1 + Len(s)
      /\ \A j \in 1 .. 1 + Len(s) : (<<x>> \o s)[j] = IF j <= 1 THEN <<x>>[j] ELSE s[j - 1]
  BY <1>2, ConcatProperties
<1>4. Len(s) \in Nat
  OBVIOUS
<1>5. Unshift(s, n, data) = <<x>> \o s
  BY DEF Unshift, x
<1>6. (<<x>> \o s)[1] = x
  BY <1>2, <1>3, <1>4
<1>7. ASSUME NEW j \in 1 .. Len(s)
      PROVE  (<<x>> \o s)[j + 1] = s[j]
  <2>1. j + 1 \in 1 .. 1 + Len(s) /\ ~(j + 1 <= 1) /\ (j + 1) - 1 = j
    BY <1>4
  <2> QED BY <1>3, <2>1
<1>8. <<x>> \o s # << >>
  BY <1>3, <1>4
<1> QED BY <1>3, <1>4, <1>5, <1>6, <1>7, <1>8 DEF x

LEMMA RemoveAtFacts ==
  ASSUME NEW S, NEW s \in Seq(S), NEW n \in 1 .. Len(s)
  PROVE  /\ RemoveAt(s, n) \in Seq(S)
         /\ Len(RemoveAt(s, n)) = Len(s) - 1
         /\ \A k \in 1 .. Len(s) - 1 : RemoveAt(s, n)[k] = IF k < n THEN s[k] ELSE s[k + 1]
<1> DEFINE front == SubSeq(s, 1, n - 1)
           back  == SubSeq(s, n + 1, Len(s))
<1>0. Len(s) \in Nat /\ n \in Nat /\ n >= 1 /\ n <= Len(s)
  BY LenProperties
<1>1. front \in Seq(S) /\ Len(front) = n - 1 /\ \A k \in 1 .. n - 1 : front[k] = s[k]
  <2>1. \A k \in 1 .. n - 1 : s[k] \in S
    BY <1>0, ElementOfSeq
  <2> QED BY <1>0, <2>1, SubSeqProperties
<1>2. back \in Seq(S) /\ Len(back) = Len(s) - n /\ \A k \in 1 .. Len(s) - n : back[k] = s[n + k]
  <2>1. \A k \in n + 1 .. Len(s) : s[k] \in S
    BY <1>0, ElementOfSeq
  <2> QED BY <1>0, <2>1, SubSeqProperties
<1> HIDE DEF front, back
<1>3. /\ front \o back \in Seq(S)
      /\ Len(front \o back) = Len(front) + Len(back)
      /\ \A k \in 1 .. Len(front) + Len(back) :
           (front \o back)[k] = IF k <= Len(front) THEN front[k] ELSE back[k - Len(front)]
  BY <1>1, <1>2, ConcatProperties
<1>4. RemoveAt(s, n) = front \o back
  BY DEF RemoveAt, front, back
<1>5. ASSUME NEW k \in 1 .. Len(s) - 1
      PROVE  (front \o back)[k] = IF k < n THEN s[k] ELSE s[k + 1]
  <2>1. CASE k < n
    BY <1>0, <1>1, <1>2, <1>3, <2>1
  <2>2. CASE ~(k < n)
    <3>1. k - (n - 1) \in 1 .. Len(s) - n /\ n + (k - (n - 1)) = k + 1
      BY <1>0, <2>2
    <3>2. (front \o back)[k] = back[k - (n - 1)]
      BY <1>0, <1>1, <1>2, <1>3, <2>2
    <3> QED BY <1>2, <2>2, <3>1, <3>2
  <2> QED BY <2>1, <2>2
<1>6. Len(front \o back) = Len(s) - 1
  BY <1>0, <1>1, <1>2, <1>3
<1> QED BY <1>3, <1>4, <1>5, <1>6

(* A list without one of its elements *)
LEMMA RemoveFirstFacts ==
  ASSUME NEW S, NEW s \in Seq(S), IsInjective(s), NEW x \in Range(s)
  PROVE  /\ RemoveFirst(s, x) \in Seq(S)
         /\ IsInjective(RemoveFirst(s, x))
         /\ Range(RemoveFirst(s, x)) = Range(s) \ {x}
<1>0. Len(s) \in Nat /\ DOMAIN s = 1 .. Len(s)
  OBVIOUS
<1>1. {i \in 1 .. Len(s) : s[i] = x} # {}
  BY <1>0 DEF Range
<1> DEFINE n == Min({i \in 1 .. Len(s) : s[i] = x})
           t == RemoveAt(s, n)
<1>2. n \in 1 .. Len(s) /\ s[n] = x
  <2>1. {i \in 1 .. Len(s) : s[i] = x} \in SUBSET Nat
    OBVIOUS
  <2> QED BY <1>1, <2>1, FirstNumber
<1>3. RemoveFirst(s, x) = t
  BY <1>1 DEF RemoveFirst, SelectInSeq
<1> HIDE DEF n
<1>4. /\ t \in Seq(S)
      /\ Len(t) = Len(s) - 1
      /\ \A k \in 1 .. Len(s) - 1 : t[k] = IF k < n THEN s[k] ELSE s[k + 1]
  BY <1>2, RemoveAtFacts
<1> HIDE DEF t
<1>5. DOMAIN t = 1 .. Len(s) - 1
  BY <1>4
<1>6. n \in Nat /\ n >= 1 /\ n <= Len(s)
  BY <1>0, <1>2
<1>9. \A a, b \in 1 .. Len(s) : s[a] = s[b] => a = b
  BY <1>0 DEF IsInjective
<1>10. IsInjective(t)
  <2> SUFFICES ASSUME NEW a \in 1 .. Len(s) - 1, NEW b \in 1 .. Len(s) - 1, t[a] = t[b]
               PROVE  a = b
    BY <1>5 DEF IsInjective
  <2>1. a \in 1 .. Len(s) /\ a + 1 \in 1 .. Len(s) /\ b \in 1 .. Len(s) /\ b + 1 \in 1 .. Len(s)
    BY <1>0
  <2>2. t[a] = IF a < n THEN s[a] ELSE s[a + 1]
    BY <1>4
  <2>3. t[b] = IF b < n THEN s[b] ELSE s[b + 1]
    BY <1>4
  <2>4. CASE a < n /\ b < n
    BY <1>9, <2>1, <2>2, <2>3, <2>4
  <2>5. CASE a < n /\ ~(b < n)
    <3>1. s[a] = s[b + 1]
      BY <2>2, <2>3, <2>5
    <3>2. a = b + 1
      BY <1>9, <2>1, <3>1
    <3> QED BY <1>6, <2>5, <3>2
  <2>6. CASE ~(a < n) /\ b < n
    <3>1. s[a + 1] = s[b]
      BY <2>2, <2>3, <2>6
    <3>2. a + 1 = b
      BY <1>9, <2>1, <3>1
    <3> QED BY <1>6, <2>6, <3>2
  <2>7. CASE ~(a < n) /\ ~(b < n)
    <3>1. s[a + 1] = s[b + 1]
      BY <2>2, <2>3, <2>7
    <3>2. a + 1 = b + 1
      BY <1>9, <2>1, <3>1
    <3> QED BY <3>2
  <2> QED BY <2>4, <2>5, <2>6, <2>7
<1>11. ASSUME NEW k \in 1 .. Len(s) - 1
       PROVE  t[k] \in Range(s) \ {x}
  <2>1. k \in 1 .. Len(s) /\ k + 1 \in 1 .. Len(s)
    BY <1>0
  <2>2. t[k] = IF k < n THEN s[k] ELSE s[k + 1]
    BY <1>4
  <2>3. t[k] # s[n]
    BY <1>2, <1>6, <1>9, <2>1, <2>2
  <2> QED BY <1>0, <1>2, <2>1, <2>2, <2>3 DEF Range
<1>12. ASSUME NEW k \in 1 .. Len(s), s[k] # x
       PROVE  s[k] \in Range(t)
  <2>1. CASE k < n
    <3>1. k \in 1 .. Len(s) - 1
      BY <1>0, <1>6, <2>1
    <3>2. t[k] = s[k]
      BY <1>4, <2>1, <3>1
    <3> QED BY <1>5, <3>1, <3>2 DEF Range
  <2>2. CASE ~(k < n)
    <3>0. k # n
      BY <1>2, <1>12
    <3>1. k - 1 \in 1 .. Len(s) - 1 /\ ~(k - 1 < n) /\ (k - 1) + 1 = k
      BY <1>0, <1>6, <2>2, <3>0
    <3>2. t[k - 1] = s[k]
      BY <1>4, <3>1
    <3> QED BY <1>5, <3>1, <3>2 DEF Range
  <2> QED BY <2>1, <2>2
<1>13. Range(t) = Range(s) \ {x}
  <2>1. \A y : y \in Range(t) <=> \E k \in 1 .. Len(s) - 1 : t[k] = y
    BY <1>5 DEF Range
  <2>2. \A y : y \in Range(s) <=> \E k \in 1 .. Len(s) : s[k] = y
    BY <1>0 DEF Range
  <2> QED BY <1>11, <1>12, <2>1, <2>2
<1> QED BY <1>3, <1>4, <1>10, <1>13

LEMMA PushFacts ==
  ASSUME waits \in 0 .. MaxWaits, NEW q, QueueOK(q), NEW n \in Nodes, NEW data \in [Inputs(n) -> Datum]
  PROVE  LET r == [q EXCEPT !.stack = Unshift(@, n, data)]
         IN  /\ QueueOK(r)
             /\ r.stack = Unshift(q.stack, n, data)
             /\ r.waiting = q.waiting
             /\ r.names = q.names
<1> DEFINE r == [q EXCEPT !.stack = Unshift(@, n, data)]
<1>1. q = [stack |-> q.stack, waiting |-> q.waiting, names |-> q.names] /\ q.stack \in Seq(Item)
  BY DEF QueueOK
<1>2. r = [stack |-> Unshift(q.stack, n, data), waiting |-> q.waiting, names |-> q.names]
  BY <1>1
<1> HIDE DEF r
<1>3. r.stack = Unshift(q.stack, n, data) /\ r.waiting = q.waiting /\ r.names = q.names
  BY <1>2
<1>4. r.stack \in Seq(Item)
  BY <1>1, <1>3, UnshiftFacts
<1>5. \A m \in Nodes : EntriesOK(r, m)
  BY <1>3 DEF EntriesOK, QueueOK
<1>6. QueueOK(r)
  BY <1>2, <1>3, <1>4, <1>5 DEF QueueOK
<1> QED BY <1>3, <1>6 DEF r

(* r is q without entry i of n. *)
Removed(q, r, n, i) ==
  /\ QueueOK(r)
  /\ r.stack = q.stack
  /\ r.waiting = [q.waiting EXCEPT ![n] = Restrict(q.waiting[n], DOMAIN q.waiting[n] \ {i})]
  /\ Range(r.names) \subseteq Range(q.names)

LEMMA RemoveEntryFacts ==
  ASSUME NEW q, QueueOK(q), NEW n \in Nodes, NEW i \in DOMAIN q.waiting[n]
  PROVE  Removed(q, RemoveEntry(q, n, i), n, i)
<1> DEFINE rest   == Restrict(q.waiting[n], DOMAIN q.waiting[n] \ {i})
           waitR  == [q.waiting EXCEPT ![n] = rest]
           namesR == IF DOMAIN rest = {} THEN RemoveFirst(q.names, n) ELSE q.names
           r      == RemoveEntry(q, n, i)
<1>1. /\ q.stack \in Seq(Item)
      /\ q.names \in Seq(Nodes) /\ IsInjective(q.names)
      /\ DOMAIN q.waiting = Nodes
      /\ \A m \in Nodes : EntriesOK(q, m)
  BY DEF QueueOK
<1>2. EntriesOK(q, n)
  BY <1>1
<1>3. /\ DOMAIN rest = DOMAIN q.waiting[n] \ {i}
      /\ \A j \in DOMAIN rest : rest[j] = q.waiting[n][j]
  BY DEF Restrict
<1>4. r = [stack |-> q.stack, waiting |-> waitR, names |-> namesR]
  BY DEF RemoveEntry
<1> HIDE DEF rest, waitR, namesR, r
<1>5. r.stack = q.stack /\ r.waiting = waitR /\ r.names = namesR
  BY <1>4
<1>6. n \in Range(q.names)
  BY <1>2 DEF EntriesOK
<1>7. /\ namesR \in Seq(Nodes) /\ IsInjective(namesR)
      /\ Range(namesR) = IF DOMAIN rest = {} THEN Range(q.names) \ {n} ELSE Range(q.names)
  <2>1. CASE DOMAIN rest = {}
    BY <1>1, <1>6, <2>1, RemoveFirstFacts DEF namesR
  <2>2. CASE DOMAIN rest # {}
    BY <1>1, <1>6, <2>2 DEF namesR
  <2> QED BY <2>1, <2>2
<1>8. /\ waitR[n] = rest /\ DOMAIN waitR = Nodes
      /\ \A m \in Nodes \ {n} : waitR[m] = q.waiting[m]
  BY <1>1 DEF waitR
<1>9. ASSUME NEW m \in Nodes \ {n}
      PROVE  EntriesOK(r, m)
  BY <1>1, <1>5, <1>7, <1>8 DEF EntriesOK
<1>10. EntriesOK(r, n)
  <2>1. IsFiniteSet(DOMAIN q.waiting[n] \ {i})
    BY <1>2, FS_RemoveElement DEF EntriesOK
  <2>2. r.waiting[n] = rest
    BY <1>5, <1>8
  <2>3. n \in Range(r.names) <=> DOMAIN rest # {}
    BY <1>5, <1>6, <1>7
  <2> QED BY <1>2, <1>3, <2>1, <2>2, <2>3 DEF EntriesOK
<1>11. QueueOK(r)
  BY <1>1, <1>4, <1>5, <1>7, <1>8, <1>9, <1>10 DEF QueueOK
<1> QED BY <1>5, <1>7, <1>11 DEF r, waitR, rest, Removed

-----------------------------------------------------------------------------
(* addNodeToBeExecuted                                                     *)

(* A node with one input is executed next. *)
Direct(q, r, n, data) ==
  /\ Inputs(n) = {0}
  /\ r.stack = Unshift(q.stack, n, [k \in Inputs(n) |-> data])
  /\ r.waiting = q.waiting
  /\ r.names = q.names

(* The entry i that data for the input makes: one that lacked it is        *)
(* extended, or none lacked it and there is one with this data only.       *)
Made(q, n, input, data, i, new) ==
  /\ i \in Nat
  /\ new \in Entry(n)
  /\ new[input] = data
  /\ \/ /\ i \in DOMAIN q.waiting[n]
        /\ q.waiting[n][i][input] = Nothing
        /\ \A k \in Inputs(n) \ {input} : new[k] = q.waiting[n][i][k]
     \/ /\ \A j \in DOMAIN q.waiting[n] : q.waiting[n][j][input] # Nothing
        /\ \A k \in Inputs(n) \ {input} : new[k] = Nothing

Completed(q, r, n, i, new) ==
  /\ Inputs(n) # {0}
  /\ i \in DOMAIN q.waiting[n]
  /\ \A k \in Inputs(n) : new[k] # Nothing
  /\ r.stack = Unshift(q.stack, n, new)
  /\ r.waiting = [q.waiting EXCEPT ![n] = Restrict(q.waiting[n], DOMAIN q.waiting[n] \ {i})]
  /\ Range(r.names) \subseteq Range(q.names)

Kept(q, r, n, i, new) ==
  /\ Inputs(n) # {0}
  /\ r.stack = q.stack
  /\ r.waiting = [q.waiting EXCEPT ![n] = SetEntry(q.waiting[n], i, new)]
  /\ Range(r.names) = Range(q.names) \cup {n}

LEMMA InputsFacts ==
  ASSUME workflow \in [Nodes -> Seq(Connection)], NEW n \in Nodes
  PROVE  /\ 0 \in Inputs(n)
         /\ Inputs(n) \in SUBSET Nat
         /\ \A p \in Nodes : \A i \in DOMAIN workflow[p] :
              workflow[p][i].node = n => workflow[p][i].index \in Inputs(n)
<1> DEFINE conns == UNION {Range(workflow[k]) : k \in Nodes}
           used  == {c.index : c \in {d \in conns : d.node = n}}
<1>1. ASSUME NEW p \in Nodes, NEW i \in DOMAIN workflow[p]
      PROVE  workflow[p][i] \in Connection /\ workflow[p][i] \in conns
  <2>1. workflow[p] \in Seq(Connection)
    OBVIOUS
  <2>2. workflow[p][i] \in Connection
    BY <2>1, ElementOfSeq
  <2> QED BY <2>2 DEF Range
<1>2. conns \subseteq Connection
  BY <1>1 DEF Range
<1>3. used \subseteq Nat
  BY <1>2 DEF Connection
<1>4. Inputs(n) = UNION {0 .. k : k \in used \cup {0}}
  BY DEF Inputs
<1>5. 0 \in Inputs(n)
  BY <1>4, SMTT(40)
<1>6. Inputs(n) \in SUBSET Nat
  BY <1>3, <1>4
<1>7. ASSUME NEW p \in Nodes, NEW i \in DOMAIN workflow[p], workflow[p][i].node = n
      PROVE  workflow[p][i].index \in Inputs(n)
  <2>1. workflow[p][i].index \in used
    BY <1>1, <1>7
  <2> HIDE DEF used
  <2>2. \A x \in Nat : x \in 0 .. x
    OBVIOUS
  <2> QED BY <1>3, <1>4, <2>1, <2>2
<1> QED BY <1>5, <1>6, <1>7

LEMMA EntryForFacts ==
  ASSUME NEW entries, NEW input, DOMAIN entries \in SUBSET Nat, IsFiniteSet(DOMAIN entries)
  PROVE  /\ EntryFor(entries, input) \in Nat
         /\ \/ /\ EntryFor(entries, input) \in DOMAIN entries
               /\ entries[EntryFor(entries, input)][input] = Nothing
            \/ \A j \in DOMAIN entries : entries[j][input] # Nothing
<1> DEFINE lacking == {i \in DOMAIN entries : entries[i][input] = Nothing}
<1>1. CASE lacking # {}
  <2>1. lacking \in SUBSET Nat
    OBVIOUS
  <2>2. Min(lacking) \in lacking
    BY <1>1, <2>1, FirstNumber
  <2>3. EntryFor(entries, input) = Min(lacking)
    BY <1>1 DEF EntryFor
  <2> QED BY <2>2, <2>3
<1>2. CASE lacking = {}
  <2>1. EntryFor(entries, input) = Cardinality(DOMAIN entries)
    BY <1>2 DEF EntryFor
  <2>2. Cardinality(DOMAIN entries) \in Nat
    BY FS_CardinalityType
  <2> QED BY <1>2, <2>1, <2>2
<1> QED BY <1>1, <1>2

LEMMA AddFacts ==
  ASSUME workflow \in [Nodes -> Seq(Connection)], waits \in 0 .. MaxWaits, NEW q, QueueOK(q),
         NEW n \in Nodes, NEW input \in Inputs(n), NEW data \in Source
  PROVE  LET r == AddNodeToBeExecuted(q, n, input, data)
         IN  /\ QueueOK(r)
             /\ \/ Direct(q, r, n, data)
                \/ \E i, new : Made(q, n, input, data, i, new) /\ Completed(q, r, n, i, new)
                \/ \E i, new : Made(q, n, input, data, i, new) /\ Kept(q, r, n, i, new)
<1> DEFINE entries == q.waiting[n]
           i       == EntryFor(entries, input)
           joins   == i \in DOMAIN entries /\ entries[i][input] = Nothing
           old     == IF joins THEN entries[i] ELSE [k \in Inputs(n) |-> Nothing]
           new     == [old EXCEPT ![input] = data]
           namesA  == IF n \in Range(q.names) THEN q.names ELSE Append(q.names, n)
           waitA   == [q.waiting EXCEPT ![n] = SetEntry(q.waiting[n], i, new)]
           added   == [stack |-> q.stack, waiting |-> waitA, names |-> namesA]
           r       == AddNodeToBeExecuted(q, n, input, data)
<1>1. /\ q = [stack |-> q.stack, waiting |-> q.waiting, names |-> q.names]
      /\ q.stack \in Seq(Item)
      /\ q.names \in Seq(Nodes) /\ IsInjective(q.names)
      /\ DOMAIN q.waiting = Nodes
      /\ \A m \in Nodes : EntriesOK(q, m)
  BY DEF QueueOK
<1>2. EntriesOK(q, n)
  BY <1>1
<1>3. /\ i \in Nat
      /\ joins \/ \A j \in DOMAIN entries : entries[j][input] # Nothing
  BY <1>2, EntryForFacts DEF EntriesOK
<1>4. Nothing \notin Source /\ data # Nothing /\ data \in Datum
  BY DataAssumption DEF Datum
<1>5. old \in Entry(n)
  BY <1>2 DEF EntriesOK, Entry
<1>6. new \in Entry(n) /\ new[input] = data /\ \A k \in Inputs(n) \ {input} : new[k] = old[k]
  BY <1>5 DEF Entry
<1>7. Made(q, n, input, data, i, new)
  <2>1. CASE joins
    BY <1>3, <1>6, <2>1 DEF Made
  <2>2. CASE ~joins
    <3>1. \A k \in Inputs(n) \ {input} : new[k] = Nothing
      BY <1>6, <2>2
    <3> QED BY <1>3, <1>6, <2>2, <3>1 DEF Made
  <2> QED BY <2>1, <2>2
<1>8. added = [stack |-> q.stack, waiting |-> waitA, names |-> namesA]
  OBVIOUS
<1>9. /\ namesA \in Seq(Nodes) /\ IsInjective(namesA)
      /\ Range(namesA) = Range(q.names) \cup {n}
  <2>1. CASE n \in Range(q.names)
    BY <1>1, <2>1
  <2>2. CASE n \notin Range(q.names)
    <3>1. namesA = Append(q.names, n) /\ Len(q.names) \in Nat /\ DOMAIN q.names = 1 .. Len(q.names)
      BY <1>1, <2>2
    <3>2. /\ Append(q.names, n) \in Seq(Nodes)
          /\ Len(Append(q.names, n)) = Len(q.names) + 1
          /\ \A j \in 1 .. Len(q.names) : Append(q.names, n)[j] = q.names[j]
          /\ Append(q.names, n)[Len(q.names) + 1] = n
      BY <1>1, AppendProperties
    <3>3. \A j \in 1 .. Len(q.names) : q.names[j] # n
      BY <2>2, <3>1 DEF Range
    <3>4. \A a, b \in 1 .. Len(q.names) : q.names[a] = q.names[b] => a = b
      BY <1>1, <3>1 DEF IsInjective
    <3>5. DOMAIN Append(q.names, n) = 1 .. Len(q.names) + 1
      BY <3>2
    <3>6. \A j : j \in 1 .. Len(q.names) + 1 <=> j \in 1 .. Len(q.names) \/ j = Len(q.names) + 1
      BY <3>1
    <3>7. IsInjective(Append(q.names, n))
      BY <3>2, <3>3, <3>4, <3>5, <3>6 DEF IsInjective
    <3>8. Range(Append(q.names, n)) = Range(q.names) \cup {n}
      BY <3>1, <3>2, <3>5, <3>6 DEF Range
    <3> QED BY <3>1, <3>2, <3>7, <3>8
  <2> QED BY <2>1, <2>2
<1> DEFINE row == SetEntry(q.waiting[n], i, new)
<1>10. /\ DOMAIN row = DOMAIN q.waiting[n] \cup {i}
       /\ row[i] = new
       /\ \A j \in DOMAIN q.waiting[n] \ {i} : row[j] = q.waiting[n][j]
  BY DEF SetEntry
<1> HIDE DEF i, new
<1> HIDE DEF namesA, row
<1>11. /\ waitA[n] = row
       /\ DOMAIN waitA = Nodes
       /\ \A m \in Nodes \ {n} : waitA[m] = q.waiting[m]
  BY <1>1 DEF row
<1>12. r = IF Inputs(n) = {0}
           THEN [q EXCEPT !.stack = Unshift(@, n, [k \in Inputs(n) |-> data])]
           ELSE IF \A k \in Inputs(n) : new[k] # Nothing
           THEN [RemoveEntry(added, n, i) EXCEPT !.stack = Unshift(@, n, new)]
           ELSE added
  BY DEF AddNodeToBeExecuted, i, new, namesA
<1> HIDE DEF added, waitA, r
<1>13. CASE Inputs(n) = {0}
  <2> DEFINE all == [k \in Inputs(n) |-> data]
  <2>1. r = [q EXCEPT !.stack = Unshift(@, n, all)]
    BY <1>12, <1>13
  <2>2. all \in [Inputs(n) -> Datum]
    BY <1>4
  <2> HIDE DEF all
  <2>3. /\ QueueOK(r)
        /\ r.stack = Unshift(q.stack, n, all) /\ r.waiting = q.waiting /\ r.names = q.names
    BY <2>1, <2>2, PushFacts
  <2>4. Direct(q, r, n, data)
    BY <1>13, <2>3 DEF Direct, all
  <2> QED BY <2>3, <2>4 DEF r
<1>14. CASE Inputs(n) # {0}
  <2>1. added.stack = q.stack /\ added.waiting = waitA /\ added.names = namesA
    BY <1>8
  <2>2. ASSUME NEW m \in Nodes \ {n}
        PROVE  EntriesOK(added, m)
    BY <1>1, <1>9, <1>11, <2>1 DEF EntriesOK
  <2>3. added.waiting[n] = row /\ DOMAIN added.waiting[n] = DOMAIN q.waiting[n] \cup {i}
    BY <1>10, <1>11, <2>1
  <2>4. EntriesOK(added, n)
    <3>1. IsFiniteSet(DOMAIN q.waiting[n] \cup {i})
      BY <1>2, FS_AddElement DEF EntriesOK
    <3>2. DOMAIN added.waiting[n] \in SUBSET Nat
      BY <1>2, <1>3, <2>3 DEF EntriesOK
    <3>3. \A j \in DOMAIN added.waiting[n] : added.waiting[n][j] \in Entry(n)
      BY <1>2, <1>6, <1>10, <2>3 DEF EntriesOK
    <3>4. n \in Range(added.names)
      BY <1>9, <2>1
    <3> QED BY <1>14, <2>3, <3>1, <3>2, <3>3, <3>4 DEF EntriesOK
  <2>5. QueueOK(added)
    BY <1>1, <1>8, <1>9, <1>11, <2>1, <2>2, <2>4 DEF QueueOK
  <2>6. CASE ~\A k \in Inputs(n) : new[k] # Nothing
    <3>1. r = added
      BY <1>12, <1>14, <2>6
    <3>2. Kept(q, r, n, i, new)
      BY <1>9, <1>14, <2>1, <3>1 DEF Kept, waitA
    <3> QED BY <1>7, <2>5, <3>1, <3>2 DEF r
  <2>7. CASE \A k \in Inputs(n) : new[k] # Nothing
    <3> DEFINE t == RemoveEntry(added, n, i)
    <3>1. i \in DOMAIN q.waiting[n]
      <4>1. PICK k \in Inputs(n) : k # input
        BY <1>14, InputsFacts
      <4>2. new[k] # Nothing
        BY <2>7
      <4> QED BY <1>7, <4>1, <4>2 DEF Made
    <3>2. r = [t EXCEPT !.stack = Unshift(@, n, new)]
      BY <1>12, <1>14, <2>7
    <3>3. /\ QueueOK(t) /\ t.stack = q.stack
          /\ t.waiting = [waitA EXCEPT ![n] = Restrict(row, DOMAIN row \ {i})]
          /\ Range(t.names) \subseteq Range(namesA)
      <4>1. i \in DOMAIN added.waiting[n]
        BY <2>3
      <4>2. Removed(added, t, n, i)
        BY <2>5, <4>1, RemoveEntryFacts
      <4> QED BY <2>1, <2>3, <4>2 DEF Removed
    <3> HIDE DEF t
    <3>4. new \in [Inputs(n) -> Datum]
      BY <1>6 DEF Entry, Datum
    <3>5. /\ QueueOK(r)
          /\ r.stack = Unshift(t.stack, n, new) /\ r.waiting = t.waiting /\ r.names = t.names
      BY <3>2, <3>3, <3>4, PushFacts
    <3>6. r.stack = Unshift(q.stack, n, new)
      BY <3>3, <3>5
    <3>7. Restrict(row, DOMAIN row \ {i}) = Restrict(q.waiting[n], DOMAIN q.waiting[n] \ {i})
      BY <1>10, <3>1 DEF Restrict
    <3>8. r.waiting = [q.waiting EXCEPT ![n] = Restrict(q.waiting[n], DOMAIN q.waiting[n] \ {i})]
      <4> DEFINE rest == Restrict(q.waiting[n], DOMAIN q.waiting[n] \ {i})
      <4>1. r.waiting = [waitA EXCEPT ![n] = rest]
        BY <3>3, <3>5, <3>7
      <4> HIDE DEF rest
      <4>2. [waitA EXCEPT ![n] = rest] = [q.waiting EXCEPT ![n] = rest]
        BY <1>1, <1>11
      <4> QED BY <4>1, <4>2 DEF rest
    <3>9. Range(r.names) \subseteq Range(q.names)
      <4>1. n \in Range(q.names)
        BY <1>2, <3>1 DEF EntriesOK
      <4> QED BY <1>9, <3>3, <3>5, <4>1
    <3>10. Completed(q, r, n, i, new)
      BY <1>14, <2>7, <3>1, <3>6, <3>8, <3>9 DEF Completed
    <3> QED BY <1>7, <3>5, <3>10 DEF r
  <2> QED BY <2>6, <2>7
<1> QED BY <1>13, <1>14

-----------------------------------------------------------------------------
(* Nodes that wait                                                         *)

(* Entry i of n, whose data is enough, is executed. *)
Released(q, r, n, i) ==
  /\ q.stack = << >>
  /\ n \in Range(q.names)
  /\ (parents[n] \ {n}) \cap Range(q.names) = {}
  /\ i \in DOMAIN q.waiting[n]
  /\ r.stack = Unshift(<< >>, n, q.waiting[n][i])
  /\ r.waiting = [q.waiting EXCEPT ![n] = Restrict(q.waiting[n], DOMAIN q.waiting[n] \ {i})]
  /\ Range(r.names) \subseteq Range(q.names)

LEMMA ExecuteWaitingFacts ==
  ASSUME waits \in 0 .. MaxWaits, NEW q, QueueOK(q)
  PROVE  /\ QueueOK(ExecuteWaiting(q))
         /\ \/ ExecuteWaiting(q) = q
            \/ \E n \in Nodes : \E i : Released(q, ExecuteWaiting(q), n, i)
<1> DEFINE ready == {k \in DOMAIN q.names : Executable(q, q.names[k])}
           n     == q.names[Min(ready)]
           i     == Min(DOMAIN q.waiting[n])
           r     == ExecuteWaiting(q)
           t     == RemoveEntry(q, n, i)
<1>1. CASE q.stack # << >> \/ ready = {}
  BY <1>1 DEF ExecuteWaiting
<1>2. CASE q.stack = << >> /\ ready # {}
  <2>1. r = [t EXCEPT !.stack = Unshift(@, n, q.waiting[n][i])]
    BY <1>2 DEF ExecuteWaiting
  <2>2. q.names \in Seq(Nodes) /\ DOMAIN q.names = 1 .. Len(q.names)
    BY DEF QueueOK
  <2>3. ready \in SUBSET Nat
    BY <2>2
  <2>4. Min(ready) \in ready
    BY <1>2, <2>3, FirstNumber
  <2>5. n \in Nodes /\ n \in Range(q.names) /\ Executable(q, n)
    <3>1. Min(ready) \in DOMAIN q.names
      BY <2>4
    <3>2. n \in Nodes
      BY <2>2, <3>1, ElementOfSeq
    <3> QED BY <2>4, <3>1, <3>2 DEF Range
  <2> HIDE DEF n
  <2>6. EntriesOK(q, n)
    BY <2>5 DEF QueueOK
  <2>7. i \in DOMAIN q.waiting[n]
    BY <2>5, <2>6, FirstNumber DEF EntriesOK
  <2> HIDE DEF i
  <2>8. /\ QueueOK(t) /\ t.stack = q.stack
        /\ t.waiting = [q.waiting EXCEPT ![n] = Restrict(q.waiting[n], DOMAIN q.waiting[n] \ {i})]
        /\ Range(t.names) \subseteq Range(q.names)
    <3>1. Removed(q, t, n, i)
      BY <2>5, <2>7, RemoveEntryFacts
    <3> QED BY <3>1 DEF Removed
  <2> HIDE DEF t, r
  <2>9. q.waiting[n][i] \in [Inputs(n) -> Datum]
    <3>1. q.waiting[n][i] \in Entry(n)
      BY <2>6, <2>7 DEF EntriesOK
    <3> QED BY <3>1 DEF Entry, Datum
  <2>10. /\ QueueOK(r)
         /\ r.stack = Unshift(t.stack, n, q.waiting[n][i]) /\ r.waiting = t.waiting /\ r.names = t.names
    BY <2>1, <2>5, <2>8, <2>9, PushFacts
  <2>11. (parents[n] \ {n}) \cap Range(q.names) = {}
    BY <2>5 DEF Executable
  <2>12. Released(q, r, n, i)
    BY <1>2, <2>5, <2>7, <2>8, <2>10, <2>11 DEF Released
  <2> QED BY <2>5, <2>10, <2>12 DEF r
<1> QED BY <1>1, <1>2

-----------------------------------------------------------------------------
(* The connections that are added, one after the other                     *)

(* The queue after the k-th connection, given the one before *)
Added(q, n, run, adds, k) ==
  AddNodeToBeExecuted(q, adds[k].node, adds[k].index, DataOf(n, run, adds[k]))

(* f[k] is the queue after k connections. *)
Adding(f, q, n, run, adds) ==
  /\ f[0] = q
  /\ \A k \in 1 .. Len(adds) : f[k] = Added(f[k - 1], n, run, adds, k)

LEMMA AddNodesSteps ==
  ASSUME NEW q, NEW n, NEW run, NEW adds, Len(adds) \in Nat
  PROVE  \E f : Adding(f, q, n, run, adds) /\ AddNodes(q, n, run, adds) = f[Len(adds)]
<1> DEFINE Upto(g, m) ==
             /\ g = [k \in 0 .. m |-> g[k]]
             /\ g[0] = q
             /\ \A k \in 1 .. m : g[k] = Added(g[k - 1], n, run, adds, k)
           S == {m \in Nat : \E g : Upto(g, m)}
<1>1. 0 \in S
  <2> DEFINE g == [k \in 0 .. 0 |-> q]
  <2>1. Upto(g, 0)
    OBVIOUS
  <2> HIDE DEF g, Upto
  <2> QED BY <2>1
<1>2. ASSUME NEW m \in Nat, m \in S
      PROVE  m + 1 \in S
  <2>1. PICK g : Upto(g, m)
    BY <1>2
  <2> DEFINE h == [k \in 0 .. m + 1 |-> IF k <= m THEN g[k] ELSE Added(g[m], n, run, adds, m + 1)]
  <2>2. h[0] = q
    BY <2>1
  <2>3. ASSUME NEW k \in 1 .. m + 1
        PROVE  h[k] = Added(h[k - 1], n, run, adds, k)
    <3>1. k \in 0 .. m + 1 /\ k - 1 \in 0 .. m + 1 /\ k - 1 <= m
      OBVIOUS
    <3>2. h[k - 1] = g[k - 1]
      BY <3>1
    <3>3. CASE k <= m
      <4>1. k \in 1 .. m
        BY <3>3
      <4> QED BY <2>1, <3>1, <3>2, <3>3, <4>1
    <3>4. CASE ~(k <= m)
      <4>1. k = m + 1 /\ k - 1 = m
        BY <3>4
      <4> QED BY <3>1, <3>2, <3>4, <4>1
    <3> QED BY <3>3, <3>4
  <2>4. Upto(h, m + 1)
    BY <2>2, <2>3
  <2> HIDE DEF h, Upto
  <2> QED BY <2>4
<1>3. Len(adds) \in S
  <2> HIDE DEF S
  <2> QED BY <1>1, <1>2, Induction
<1>4. PICK g : Upto(g, Len(adds))
  BY <1>3
<1> DEFINE Solves(f) == f = [k \in 0 .. Len(adds) |->
                              IF k = 0 THEN q
                              ELSE AddNodeToBeExecuted(f[k - 1], adds[k].node, adds[k].index, DataOf(n, run, adds[k]))]
<1>5. Solves(g)
  <2>1. ASSUME NEW k \in 0 .. Len(adds)
        PROVE  g[k] = IF k = 0 THEN q
                      ELSE AddNodeToBeExecuted(g[k - 1], adds[k].node, adds[k].index, DataOf(n, run, adds[k]))
    <3>1. CASE k = 0
      BY <1>4, <3>1
    <3>2. CASE k # 0
      <4>1. k \in 1 .. Len(adds)
        BY <3>2
      <4> QED BY <1>4, <3>2, <4>1 DEF Added
    <3> QED BY <3>1, <3>2
  <2> DEFINE next(k) == IF k = 0 THEN q
                        ELSE AddNodeToBeExecuted(g[k - 1], adds[k].node, adds[k].index, DataOf(n, run, adds[k]))
  <2>2. \A k \in 0 .. Len(adds) : g[k] = next(k)
    BY <2>1
  <2>3. g = [k \in 0 .. Len(adds) |-> g[k]]
    BY <1>4
  <2> HIDE DEF next
  <2>4. [k \in 0 .. Len(adds) |-> g[k]] = [k \in 0 .. Len(adds) |-> next(k)]
    BY <2>2
  <2>5. g = [k \in 0 .. Len(adds) |-> next(k)]
    BY <2>3, <2>4
  <2> QED BY <2>5 DEF next
<1> DEFINE after == CHOOSE f : Solves(f)
<1>6. Solves(after)
  BY <1>5
<1>7. AddNodes(q, n, run, adds) = after[Len(adds)]
  BY DEF AddNodes
<1> HIDE DEF after
<1>8. Adding(after, q, n, run, adds)
  <2>1. after[0] = q
    BY <1>6
  <2>2. ASSUME NEW k \in 1 .. Len(adds)
        PROVE  after[k] = Added(after[k - 1], n, run, adds, k)
    <3>1. k \in 0 .. Len(adds) /\ k # 0
      OBVIOUS
    <3> QED BY <1>6, <3>1 DEF Added
  <2> QED BY <2>1, <2>2 DEF Adding
<1> QED BY <1>7, <1>8

(* B[i] has the elements of U before i in an order of them all. *)
Order(U, B) ==
  /\ B \in [U -> SUBSET U]
  /\ \A i \in U : i \notin B[i]
  /\ \A i, j \in U : i # j => i \in B[j] \/ j \in B[i]
  /\ \A i, j, k \in U : i \in B[j] /\ j \in B[k] => i \in B[k]

(* Each place in a finite order is taken. *)
LEMMA Ranking ==
  ASSUME NEW U, IsFiniteSet(U), NEW B, Order(U, B)
  PROVE  \A k \in 1 .. Cardinality(U) : \E i \in U : Cardinality(B[i]) = k - 1
<1> DEFINE N == Cardinality(U)
           f == [i \in U |-> Cardinality(B[i]) + 1]
<1>0. /\ B \in [U -> SUBSET U]
      /\ \A i \in U : i \notin B[i]
      /\ \A i, j \in U : i # j => i \in B[j] \/ j \in B[i]
      /\ \A i, j, k \in U : i \in B[j] /\ j \in B[k] => i \in B[k]
  BY DEF Order
<1>1. N \in Nat
  BY FS_CardinalityType
<1>2. ASSUME NEW i \in U
      PROVE  IsFiniteSet(B[i]) /\ Cardinality(B[i]) \in Nat /\ Cardinality(B[i]) < N
  <2>1. B[i] \in SUBSET U
    BY <1>0
  <2>2. IsFiniteSet(B[i]) /\ Cardinality(B[i]) <= N /\ (N = Cardinality(B[i]) => U = B[i])
    BY <2>1, FS_Subset
  <2>3. Cardinality(B[i]) \in Nat
    BY <2>2, FS_CardinalityType
  <2>4. U # B[i]
    BY <1>0
  <2> HIDE DEF N
  <2> QED BY <1>1, <2>2, <2>3, <2>4
<1>3. ASSUME NEW i \in U, NEW j \in U, i \in B[j]
      PROVE  Cardinality(B[i]) # Cardinality(B[j])
  <2>1. B[i] \in SUBSET B[j]
    <3>1. ASSUME NEW x \in B[i]
          PROVE  x \in B[j]
      <4>1. x \in U
        BY <1>0
      <4> QED BY <1>0, <1>3, <3>1, <4>1
    <3> QED BY <3>1
  <2>2. IsFiniteSet(B[j])
    BY <1>2
  <2>3. Cardinality(B[j]) = Cardinality(B[i]) => B[j] = B[i]
    BY <2>1, <2>2, FS_Subset
  <2>4. i \notin B[i]
    BY <1>0
  <2> QED BY <1>3, <2>3, <2>4
<1> HIDE DEF N
<1>4. f \in [U -> 1 .. N]
  <2>1. ASSUME NEW i \in U
        PROVE  Cardinality(B[i]) + 1 \in 1 .. N
    BY <1>1, <1>2
  <2> QED BY <2>1
<1>5. ASSUME NEW i \in U, NEW j \in U, f[i] = f[j]
      PROVE  i = j
  <2>1. Cardinality(B[i]) + 1 = Cardinality(B[j]) + 1
    BY <1>5
  <2>2. Cardinality(B[i]) \in Nat /\ Cardinality(B[j]) \in Nat
    BY <1>2
  <2>3. Cardinality(B[i]) = Cardinality(B[j])
    BY <2>1, <2>2
  <2> QED BY <1>0, <1>3, <2>3
<1>6. \A i \in U : f[i] = Cardinality(B[i]) + 1
  OBVIOUS
<1> HIDE DEF f
<1>7. f \in Injection(U, 1 .. N)
  BY <1>4, <1>5 DEF Injection, IsInjective
<1>8. IsFiniteSet(1 .. N) /\ Cardinality(1 .. N) = N
  BY <1>1, FS_Interval
<1>9. f \in Surjection(U, 1 .. N)
  BY <1>7, <1>8, FS_Injection DEF N
<1>10. ASSUME NEW k \in 1 .. N
       PROVE  \E i \in U : Cardinality(B[i]) = k - 1
  <2>1. PICK i \in U : f[i] = k
    BY <1>9 DEF Surjection
  <2>2. Cardinality(B[i]) \in Nat
    BY <1>2
  <2>3. Cardinality(B[i]) + 1 = k
    BY <1>6, <2>1
  <2>4. Cardinality(B[i]) = k - 1
    BY <2>2, <2>3
  <2> QED BY <2>4
<1> QED BY <1>10 DEF N

(* The connections that are added are different ones of those of the node, *)
(* each from an output that has data.                                      *)
Chosen(n, outputs, adds, at) ==
  /\ adds \in Seq(Connection)
  /\ \A k \in 1 .. Len(adds) :
       /\ at[k] \in DOMAIN workflow[n]
       /\ adds[k] = workflow[n][at[k]]
       /\ adds[k].output \in outputs
  /\ \A j, k \in 1 .. Len(adds) : at[j] = at[k] => j = k

LEMMA NodesToAddFacts ==
  ASSUME workflow \in [Nodes -> Seq(Connection)], position \in [Nodes -> Nat], NEW n \in Nodes, NEW outputs
  PROVE  \E at : Chosen(n, outputs, NodesToAdd(n, outputs), at)
<1> DEFINE place(i)  == position[workflow[n][i].node]
           used      == {i \in DOMAIN workflow[n] : workflow[n][i].output \in outputs}
           before(i) == {j \in used : place(j) > place(i) \/ (place(j) = place(i) /\ j < i)}
           nth(k)    == CHOOSE i \in used : Cardinality(before(i)) = k - 1
           N         == Cardinality(used)
           adds      == NodesToAdd(n, outputs)
           at        == [k \in 1 .. N |-> nth(k)]
           B         == [i \in used |-> before(i)]
<1>1. /\ workflow[n] \in Seq(Connection) /\ Len(workflow[n]) \in Nat
      /\ DOMAIN workflow[n] = 1 .. Len(workflow[n])
  OBVIOUS
<1>2. used \subseteq 1 .. Len(workflow[n]) /\ used \subseteq Nat
  BY <1>1
<1>3. IsFiniteSet(used) /\ N \in Nat
  <2>1. IsFiniteSet(1 .. Len(workflow[n]))
    BY <1>1, FS_Interval
  <2>2. used \in SUBSET (1 .. Len(workflow[n]))
    BY <1>2
  <2> QED BY <2>1, <2>2, FS_Subset, FS_CardinalityType
<1>4. ASSUME NEW i \in used
      PROVE  workflow[n][i] \in Connection /\ place(i) \in Nat
  <2>1. workflow[n][i] \in Connection
    BY <1>1, <1>2, ElementOfSeq
  <2>2. workflow[n][i].node \in Nodes
    BY <2>1 DEF Connection
  <2> QED BY <2>1, <2>2
<1>5. adds = [k \in 1 .. N |-> workflow[n][nth(k)]]
  BY DEF NodesToAdd
<1>6. ASSUME NEW k \in 1 .. N
      PROVE  nth(k) \in used /\ Cardinality(before(nth(k))) = k - 1
  <2> HIDE DEF used, place
  <2>1. B \in [used -> SUBSET used]
    OBVIOUS
  <2>2. \A i \in used : i \notin B[i]
    BY <1>2, <1>4
  <2>3. \A i, j \in used : i # j => i \in B[j] \/ j \in B[i]
    BY <1>2, <1>4
  <2>4. ASSUME NEW i \in used, NEW j \in used, NEW m \in used, i \in B[j], j \in B[m]
        PROVE  i \in B[m]
    <3>1. place(i) \in Nat /\ place(j) \in Nat /\ place(m) \in Nat /\ i \in Nat /\ j \in Nat /\ m \in Nat
      BY <1>2, <1>4
    <3> QED BY <2>4, <3>1
  <2>5. \A i \in used : B[i] = before(i)
    OBVIOUS
  <2> HIDE DEF B, before, N
  <2>6. \E i \in used : Cardinality(B[i]) = k - 1
    <3>1. \A i, j, m \in used : i \in B[j] /\ j \in B[m] => i \in B[m]
      BY <2>4
    <3>2. IsFiniteSet(used)
      BY <1>3
    <3>3. \A m \in 1 .. Cardinality(used) : \E i \in used : Cardinality(B[i]) = m - 1
      <4>1. Order(used, B)
        BY <2>1, <2>2, <2>3, <3>1 DEF Order
      <4> QED BY <3>2, <4>1, Ranking
    <3> QED BY <3>3 DEF N
  <2>7. \E i \in used : Cardinality(before(i)) = k - 1
    BY <2>5, <2>6
  <2> QED BY <2>7
<1> HIDE DEF used, N, nth, adds
<1>7. adds \in Seq(Connection) /\ Len(adds) = N
  <2>1. \A k \in 1 .. N : workflow[n][nth(k)] \in Connection
    BY <1>4, <1>6
  <2>2. adds \in [1 .. N -> Connection]
    BY <1>5, <2>1
  <2> QED BY <1>3, <2>2, SeqDef, LenProperties
<1>8. ASSUME NEW k \in 1 .. N
      PROVE  /\ at[k] \in DOMAIN workflow[n]
             /\ adds[k] = workflow[n][at[k]]
             /\ adds[k].output \in outputs
  <2>1. at[k] = nth(k) /\ nth(k) \in used
    BY <1>6
  <2>2. adds[k] = workflow[n][nth(k)]
    BY <1>5
  <2> QED BY <2>1, <2>2 DEF used
<1>9. ASSUME NEW j \in 1 .. N, NEW k \in 1 .. N, at[j] = at[k]
      PROVE  j = k
  <2>1. nth(j) = nth(k)
    BY <1>9
  <2>2. Cardinality(before(nth(j))) = j - 1 /\ Cardinality(before(nth(k))) = k - 1
    BY <1>6
  <2> HIDE DEF before
  <2>3. j - 1 = k - 1
    BY <2>1, <2>2
  <2> QED BY <1>3, <2>3
<1> HIDE DEF at
<1>10. Chosen(n, outputs, adds, at)
  BY <1>7, <1>8, <1>9 DEF Chosen
<1> QED BY <1>10 DEF adds

-----------------------------------------------------------------------------
(* Types                                                                   *)

QueueInv ==
  /\ stack \in Seq(Item)
  /\ names \in Seq(Nodes) /\ IsInjective(names)
  /\ DOMAIN waiting = Nodes
  /\ \A n \in Nodes :
       /\ DOMAIN waiting[n] \in SUBSET Nat
       /\ IsFiniteSet(DOMAIN waiting[n])
       /\ \A i \in DOMAIN waiting[n] : waiting[n][i] \in Entry(n)
       /\ n \in Range(names) <=> DOMAIN waiting[n] # {}
       /\ Inputs(n) = {0} => DOMAIN waiting[n] = {}

WorkflowInv ==
  /\ workflow \in [Nodes -> Seq(Connection)]
  /\ position \in [Nodes -> Nat]
  /\ parents = ParentNodes(workflow)

RecordsInv ==
  /\ runData \in [Nodes -> Seq(SUBSET Output)]
  /\ status \in {"running", "success", "error", "waiting", "canceled"}
  /\ waits \in 0 .. MaxWaits
  /\ status = "waiting" => stack # << >> /\ Len(runData[item.node]) > 0

TypeInv == WorkflowInv /\ QueueInv /\ RecordsInv

(* The queue when the first item has been taken *)
Rest == [stack |-> Tail(stack), waiting |-> waiting, names |-> names]

LEMMA RestFacts ==
  ASSUME QueueInv, stack # << >>
  PROVE  /\ QueueOK(Rest)
         /\ Rest.stack = Tail(stack) /\ Rest.waiting = waiting /\ Rest.names = names
         /\ item \in Item /\ item = stack[1]
         /\ item.node \in Nodes /\ item.data \in [Inputs(item.node) -> Datum]
         /\ Len(stack) \in Nat /\ Len(stack) >= 1 /\ DOMAIN stack = 1 .. Len(stack)
         /\ Tail(stack) \in Seq(Item) /\ Len(Tail(stack)) = Len(stack) - 1
         /\ \A i \in 1 .. Len(stack) - 1 : Tail(stack)[i] = stack[i + 1]
<1>1. stack \in Seq(Item)
  BY DEF QueueInv
<1>2. item \in Item /\ item = stack[1]
  BY <1>1 DEF item
<1>3. item.node \in Nodes /\ item.data \in [Inputs(item.node) -> Datum]
  BY <1>2 DEF Item
<1>4. Len(stack) \in Nat /\ Len(stack) >= 1 /\ DOMAIN stack = 1 .. Len(stack)
  BY <1>1, EmptySeq, LenProperties
<1>5. /\ Tail(stack) \in Seq(Item) /\ Len(Tail(stack)) = Len(stack) - 1
      /\ \A i \in 1 .. Len(Tail(stack)) : Tail(stack)[i] = stack[i + 1]
  BY <1>1, HeadTailProperties
<1>6. Rest.stack = Tail(stack) /\ Rest.waiting = waiting /\ Rest.names = names
  BY DEF Rest
<1>7. \A n \in Nodes : EntriesOK(Rest, n)
  BY <1>6 DEF EntriesOK, QueueInv
<1>8. Rest = [stack |-> Rest.stack, waiting |-> Rest.waiting, names |-> Rest.names]
  BY DEF Rest
<1>9. QueueOK(Rest)
  BY <1>5, <1>6, <1>7, <1>8 DEF QueueOK, QueueInv
<1> QED BY <1>2, <1>3, <1>4, <1>5, <1>6, <1>9

LEMMA SameTypes ==
  ASSUME workflow' = workflow
  PROVE  /\ \A n : Inputs(n)' = Inputs(n)
         /\ \A n : Entry(n)' = Entry(n)
         /\ Item' = Item
<1>1. \A n : Inputs(n)' = Inputs(n)
  BY DEF Inputs
<1>2. \A n : Entry(n)' = Entry(n)
  BY <1>1 DEF Entry
<1>3. Item' = Item
  BY <1>1 DEF Item
<1> QED BY <1>1, <1>2, <1>3

LEMMA QueueNext ==
  ASSUME workflow' = workflow, NEW e, QueueOK(e), stack' = e.stack, waiting' = e.waiting, names' = e.names
  PROVE  QueueInv'
<1>1. \A n \in Nodes : EntriesOK(e, n)
  BY DEF QueueOK
<1>2. \A n \in Nodes :
        /\ DOMAIN e.waiting[n] \in SUBSET Nat
        /\ IsFiniteSet(DOMAIN e.waiting[n])
        /\ \A i \in DOMAIN e.waiting[n] : e.waiting[n][i] \in Entry(n)'
        /\ n \in Range(e.names) <=> DOMAIN e.waiting[n] # {}
        /\ Inputs(n)' = {0} => DOMAIN e.waiting[n] = {}
  BY <1>1, SameTypes DEF EntriesOK
<1>3. e.stack \in Seq(Item')
  BY SameTypes DEF QueueOK
<1> QED BY <1>2, <1>3 DEF QueueInv, QueueOK

(* Data of a connection that is added is typed. *)
LEMMA ChosenTyped ==
  ASSUME WorkflowInv, NEW n \in Nodes, NEW outputs, NEW adds, NEW at, Chosen(n, outputs, adds, at),
         NEW run \in 1 .. MaxRuns, NEW k \in 1 .. Len(adds)
  PROVE  /\ adds[k] \in Connection
         /\ adds[k].node \in Nodes
         /\ adds[k].index \in Inputs(adds[k].node)
         /\ DataOf(n, run, adds[k]) \in Source
         /\ at[k] \in DOMAIN workflow[n] /\ adds[k] = workflow[n][at[k]]
<1>1. at[k] \in DOMAIN workflow[n] /\ adds[k] = workflow[n][at[k]]
  BY DEF Chosen
<1>2. adds[k] \in Connection
  BY ElementOfSeq DEF Chosen
<1>3. adds[k].node \in Nodes /\ adds[k].output \in Output
  BY <1>2 DEF Connection
<1>4. adds[k].index \in Inputs(adds[k].node)
  BY <1>1, <1>3, InputsFacts DEF WorkflowInv
<1> QED BY <1>1, <1>2, <1>3, <1>4 DEF DataOf, Source

(* Each queue on the way is well formed. *)
LEMMA AddingTyped ==
  ASSUME WorkflowInv, waits \in 0 .. MaxWaits, NEW n \in Nodes, NEW outputs, NEW adds, NEW at,
         Chosen(n, outputs, adds, at), NEW run \in 1 .. MaxRuns,
         NEW q, QueueOK(q), NEW f, Adding(f, q, n, run, adds)
  PROVE  \A k \in 0 .. Len(adds) : QueueOK(f[k])
<1> DEFINE S == {k \in Nat : k <= Len(adds) => QueueOK(f[k])}
<1>0. Len(adds) \in Nat
  BY LenProperties DEF Chosen
<1>1. 0 \in S
  BY DEF Adding
<1>2. ASSUME NEW k \in Nat, k \in S
      PROVE  k + 1 \in S
  <2>1. SUFFICES ASSUME k + 1 <= Len(adds)
                 PROVE  QueueOK(f[k + 1])
    OBVIOUS
  <2>2. k + 1 \in 1 .. Len(adds) /\ (k + 1) - 1 = k /\ k <= Len(adds)
    BY <1>0, <2>1
  <2>3. QueueOK(f[k])
    BY <1>2, <2>2
  <2>4. f[k + 1] = Added(f[k], n, run, adds, k + 1)
    BY <2>2 DEF Adding
  <2>5. /\ adds[k + 1].node \in Nodes /\ adds[k + 1].index \in Inputs(adds[k + 1].node)
        /\ DataOf(n, run, adds[k + 1]) \in Source
    BY <2>2, ChosenTyped
  <2>6. workflow \in [Nodes -> Seq(Connection)]
    BY DEF WorkflowInv
  <2> QED BY <2>3, <2>4, <2>5, <2>6, AddFacts DEF Added
<1>3. \A k \in Nat : k \in S
  <2> HIDE DEF S
  <2> QED BY <1>1, <1>2, Induction
<1> QED BY <1>0, <1>3

(* What RunNode does *)
Ran(n, run, outputs, adds, at, f, e) ==
  /\ n = item.node /\ n \in Nodes
  /\ run = Len(runData[n]) + 1 /\ run \in 1 .. MaxRuns
  /\ outputs \subseteq Outputs[n]
  /\ Chosen(n, outputs, adds, at)
  /\ Adding(f, Rest, n, run, adds)
  /\ \A k \in 0 .. Len(adds) : QueueOK(f[k])
  /\ QueueOK(e)
  /\ e = f[Len(adds)] \/ \E m \in Nodes : \E i : Released(f[Len(adds)], e, m, i)
  /\ stack' = e.stack /\ waiting' = e.waiting /\ names' = e.names
  /\ sent' = sent \cup {<<DataOf(n, run, adds[k]), adds[k].node, adds[k].index>> : k \in 1 .. Len(adds)}

LEMMA RunFacts ==
  ASSUME TypeInv, NEW outputs, RunNode(outputs)
  PROVE  \E n, run, adds, at, f, e : Ran(n, run, outputs, adds, at, f, e)
<1> DEFINE n    == item.node
           run  == Len(runData[n]) + 1
           adds == NodesToAdd(n, outputs)
           r    == AddNodes(Rest, n, run, adds)
           e    == ExecuteWaiting(r)
<1>1. Running /\ stack # << >>
  BY DEF RunNode, Running
<1>2. QueueOK(Rest) /\ n \in Nodes
  BY <1>1, RestFacts DEF TypeInv
<1>3. run \in 1 .. MaxRuns
  <2>1. Len(runData[n]) \in Nat
    BY <1>2, LenProperties DEF TypeInv, RecordsInv
  <2>2. Len(runData[n]) < MaxRuns
    BY <1>1 DEF Running
  <2> QED BY <2>1, <2>2, BoundAssumption
<1>4. /\ stack' = e.stack /\ waiting' = e.waiting /\ names' = e.names
      /\ sent' = sent \cup {<<DataOf(n, run, c), c.node, c.index>> : c \in Range(adds)}
      /\ outputs \subseteq Outputs[n]
  BY DEF RunNode, Rest
<1> HIDE DEF n, run, adds, r, e
<1>5. workflow \in [Nodes -> Seq(Connection)] /\ position \in [Nodes -> Nat] /\ WorkflowInv /\ waits \in 0 .. MaxWaits
  BY DEF TypeInv, WorkflowInv, RecordsInv
<1>6. PICK at : Chosen(n, outputs, adds, at)
  BY <1>2, <1>5, NodesToAddFacts DEF adds
<1>7. Len(adds) \in Nat /\ DOMAIN adds = 1 .. Len(adds)
  BY <1>6, LenProperties DEF Chosen
<1>8. PICK f : Adding(f, Rest, n, run, adds) /\ r = f[Len(adds)]
  BY <1>7, AddNodesSteps DEF r
<1>9. \A k \in 0 .. Len(adds) : QueueOK(f[k])
  BY <1>2, <1>3, <1>5, <1>6, <1>8, AddingTyped
<1>10. QueueOK(r)
  <2>1. Len(adds) \in 0 .. Len(adds)
    BY <1>7
  <2> QED BY <1>8, <1>9, <2>1
<1>11. QueueOK(e) /\ (e = r \/ \E m \in Nodes : \E i : Released(r, e, m, i))
  BY <1>5, <1>10, ExecuteWaitingFacts DEF e
<1>12. {<<DataOf(n, run, c), c.node, c.index>> : c \in Range(adds)}
         = {<<DataOf(n, run, adds[k]), adds[k].node, adds[k].index>> : k \in 1 .. Len(adds)}
  BY <1>7 DEF Range
<1>13. Ran(n, run, outputs, adds, at, f, e)
  BY <1>2, <1>3, <1>4, <1>6, <1>8, <1>9, <1>11, <1>12 DEF Ran, n, run
<1> QED BY <1>13

LEMMA TypeInit == Init => TypeInv
<1> SUFFICES ASSUME Init PROVE TypeInv
  OBVIOUS
<1>1. WorkflowInv
  BY WorkflowAssumption, PositionAssumption DEF Init, WorkflowInv
<1> DEFINE x == [node |-> Start, data |-> [i \in Inputs(Start) |-> Trigger], made |-> 0, disabled |-> FALSE]
<1>2. x \in Item
  BY StartAssumption, BoundAssumption DEF Item, Datum
<1>3. stack = <<x>>
  BY DEF Init
<1> HIDE DEF x
<1>4. stack \in Seq(Item)
  BY <1>2, <1>3
<1>5. names \in Seq(Nodes) /\ IsInjective(names) /\ Range(names) = {}
  BY DEF Init, IsInjective, Range
<1>6. DOMAIN waiting = Nodes /\ \A n \in Nodes : DOMAIN waiting[n] = {}
  BY DEF Init
<1>7. QueueInv
  BY <1>4, <1>5, <1>6, FS_EmptySet DEF QueueInv
<1>8. RecordsInv
  BY BoundAssumption DEF Init, RecordsInv
<1> QED BY <1>1, <1>7, <1>8 DEF TypeInv

(* The stack with the node that waited disabled is the same otherwise. *)
LEMMA DisableFacts ==
  ASSUME QueueInv, stack # << >>
  PROVE  /\ DisableNode \in Seq(Item) /\ DisableNode # << >>
         /\ DOMAIN DisableNode = DOMAIN stack
         /\ \A i \in DOMAIN stack :
              /\ DisableNode[i].node = stack[i].node
              /\ DisableNode[i].data = stack[i].data
         /\ Head(DisableNode).node = item.node
<1>1. /\ Len(stack) \in Nat /\ Len(stack) >= 1 /\ DOMAIN stack = 1 .. Len(stack)
      /\ item = stack[1]
  BY RestFacts
<1>2. ASSUME NEW i \in DOMAIN stack
      PROVE  /\ DisableNode[i] \in Item
             /\ DisableNode[i].node = stack[i].node
             /\ DisableNode[i].data = stack[i].data
  <2>1. stack[i] \in Item
    BY <1>1, ElementOfSeq DEF QueueInv
  <2>2. DisableNode[i] = stack[i] \/ DisableNode[i] = [stack[i] EXCEPT !.disabled = TRUE]
    BY DEF DisableNode
  <2>3. /\ [stack[i] EXCEPT !.disabled = TRUE] \in Item
        /\ [stack[i] EXCEPT !.disabled = TRUE].node = stack[i].node
        /\ [stack[i] EXCEPT !.disabled = TRUE].data = stack[i].data
    BY <2>1 DEF Item
  <2> QED BY <2>1, <2>2, <2>3
<1>3. DOMAIN DisableNode = DOMAIN stack /\ DisableNode = [i \in DOMAIN stack |-> DisableNode[i]]
  BY DEF DisableNode
<1>4. DisableNode \in [1 .. Len(stack) -> Item]
  BY <1>1, <1>2, <1>3
<1>5. DisableNode \in Seq(Item) /\ Len(DisableNode) = Len(stack)
  BY <1>1, <1>4, SeqDef, LenProperties
<1>6. DisableNode # << >>
  BY <1>1, <1>5
<1>7. Head(DisableNode) = DisableNode[1]
  BY <1>5, <1>6
<1>8. 1 \in DOMAIN stack
  BY <1>1
<1> QED BY <1>1, <1>2, <1>3, <1>5, <1>6, <1>7, <1>8

LEMMA FrontFacts ==
  ASSUME NEW S, NEW s \in Seq(S), Len(s) > 0
  PROVE  /\ Front(s) \in Seq(S)
         /\ Len(Front(s)) = Len(s) - 1
         /\ \A i \in 1 .. Len(s) - 1 : Front(s)[i] = s[i]
<1>1. Len(s) \in Nat /\ Len(s) - 1 \in Nat
  BY LenProperties
<1>2. \A i \in 1 .. Len(s) - 1 : s[i] \in S
  BY <1>1, ElementOfSeq
<1> DEFINE m == Len(s) - 1
<1>3. m + 1 = Len(s) /\ 1 <= m + 1 /\ m \in Nat /\ m <= Len(s)
  BY <1>1
<1>4. Front(s) = SubSeq(s, 1, m)
  BY DEF Front
<1> HIDE DEF m
<1>5. \A i \in 1 .. m : s[i] \in S
  BY <1>2 DEF m
<1>6. /\ SubSeq(s, 1, m) \in Seq(S)
      /\ Len(SubSeq(s, 1, m)) = m
      /\ \A i \in 1 .. m : SubSeq(s, 1, m)[i] = s[i]
  BY <1>3, <1>5, SubSeqProperties
<1> QED BY <1>4, <1>6 DEF m

LEMMA TypeNext == TypeInv /\ [Next]_vars => TypeInv'
<1> SUFFICES ASSUME TypeInv, [Next]_vars
             PROVE  TypeInv'
  OBVIOUS
<1>0. WorkflowInv /\ QueueInv /\ RecordsInv
  BY DEF TypeInv
<1>1. workflow' = workflow /\ parents' = parents /\ position' = position
  BY DEF Next, Step, Finish, ReturnNull, Fail, PutToWait, RunNode, Resume, Cancel, vars
<1>2. WorkflowInv'
  BY <1>0, <1>1 DEF WorkflowInv, ParentNodes
<1>3. ASSUME stack' \in Seq(Item), waiting' = waiting, names' = names
      PROVE  QueueInv'
  BY <1>0, <1>1, <1>3, SameTypes DEF QueueInv
<1>4. ASSUME NEW n \in Nodes, NEW out \in SUBSET Output, runData' = [runData EXCEPT ![n] = Append(@, out)]
      PROVE  runData' \in [Nodes -> Seq(SUBSET Output)] /\ Len(runData'[n]) > 0
  <2>1. runData[n] \in Seq(SUBSET Output) /\ Len(runData[n]) \in Nat
    BY <1>0, LenProperties DEF RecordsInv
  <2>2. Append(runData[n], out) \in Seq(SUBSET Output) /\ Len(Append(runData[n], out)) = Len(runData[n]) + 1
    BY <2>1, AppendProperties
  <2>3. runData'[n] = Append(runData[n], out)
    BY <1>0, <1>4 DEF RecordsInv
  <2> QED BY <1>0, <1>4, <2>1, <2>2, <2>3 DEF RecordsInv
<1>5. CASE Finish \/ Cancel \/ UNCHANGED vars
  <2>1. UNCHANGED <<stack, waiting, names, runData, waits>>
    BY <1>5 DEF Finish, Cancel, vars
  <2>2. QueueInv'
    BY <1>0, <1>3, <2>1 DEF QueueInv
  <2>3. status' = status \/ status' \in {"success", "canceled"}
    BY <1>5 DEF Finish, Cancel, vars
  <2>4. item' = item
    BY <2>1 DEF item
  <2>5. RecordsInv'
    BY <1>0, <2>1, <2>3, <2>4 DEF RecordsInv
  <2> QED BY <1>2, <2>2, <2>5 DEF TypeInv
<1>6. CASE ReturnNull
  <2>1. status = "running" /\ status' = status /\ stack # << >> /\ stack' = Tail(stack)
        /\ UNCHANGED <<waiting, names, runData, waits>>
    BY <1>6 DEF ReturnNull, Running
  <2>2. QueueInv'
    BY <1>0, <1>3, <2>1, RestFacts
  <2>3. RecordsInv'
    BY <1>0, <2>1 DEF RecordsInv
  <2> QED BY <1>2, <2>2, <2>3 DEF TypeInv
<1>7. CASE Fail \/ PutToWait
  <2>1. /\ stack # << >> /\ UNCHANGED <<stack, waiting, names>>
        /\ status' \in {"error", "waiting"}
    BY <1>7 DEF Fail, PutToWait, Running
  <2>2. QueueInv' /\ item.node \in Nodes /\ item' = item
    BY <1>0, <1>3, <2>1, RestFacts DEF QueueInv, item
  <2>3. waits' \in 0 .. MaxWaits
    BY <1>0, <1>7, BoundAssumption DEF RecordsInv, Fail, PutToWait
  <2>4. {} \in SUBSET Output /\ {0} \in SUBSET Output
    BY <2>2, OutputsAssumption DEF Output
  <2>5. runData' = [runData EXCEPT ![item.node] = Append(@, {})] \/ runData' = [runData EXCEPT ![item.node] = Append(@, {0})]
    BY <1>7 DEF Fail, PutToWait
  <2>6. runData' \in [Nodes -> Seq(SUBSET Output)] /\ Len(runData'[item.node]) > 0
    BY <1>4, <2>2, <2>4, <2>5
  <2>7. RecordsInv'
    BY <2>1, <2>2, <2>3, <2>6 DEF RecordsInv
  <2> QED BY <1>2, <2>2, <2>7 DEF TypeInv
<1>8. ASSUME NEW outputs \in SUBSET Output, RunNode(outputs)
      PROVE  TypeInv'
  <2>1. PICK n, run, adds, at, f, e : Ran(n, run, outputs, adds, at, f, e)
    BY <1>8, RunFacts
  <2>2. QueueInv'
    BY <1>1, <2>1, QueueNext DEF Ran
  <2>3. status = "running" /\ UNCHANGED <<status, waits>> /\ runData' = [runData EXCEPT ![n] = Append(@, outputs)]
    BY <1>8, <2>1 DEF RunNode, Running, Ran
  <2>4. n \in Nodes
    BY <2>1 DEF Ran
  <2>5. RecordsInv'
    BY <1>0, <1>4, <2>3, <2>4 DEF RecordsInv
  <2> QED BY <1>2, <2>2, <2>5 DEF TypeInv
<1>9. CASE Resume
  <2>1. /\ status' = "running" /\ stack' = DisableNode /\ UNCHANGED <<waiting, names, waits>>
        /\ runData' = [runData EXCEPT ![item.node] = Front(@)]
        /\ stack # << >> /\ Len(runData[item.node]) > 0
    BY <1>0, <1>9 DEF Resume, RecordsInv
  <2>2. QueueInv' /\ item.node \in Nodes
    BY <1>0, <1>3, <2>1, DisableFacts, RestFacts
  <2>3. runData[item.node] \in Seq(SUBSET Output)
    BY <1>0, <2>2 DEF RecordsInv
  <2>4. Front(runData[item.node]) \in Seq(SUBSET Output)
    BY <2>1, <2>3, FrontFacts
  <2>5. RecordsInv'
    BY <1>0, <2>1, <2>4 DEF RecordsInv
  <2> QED BY <1>2, <2>2, <2>5 DEF TypeInv
<1> QED BY <1>5, <1>6, <1>7, <1>8, <1>9 DEF Next, Step

(* What the loop keeps in the stack and in waitingExecution is of the      *)
(* right type: items and entries have data for exactly the inputs of their *)
(* node, a node waits once, and only with entries (processRunExecutionData *)
(* and addNodeToBeExecuted).                                               *)
THEOREM EngineTypeCorrect == Spec => []TypeOK
<1>1. ASSUME TypeInv
      PROVE  TypeOK
  <2>1. \A s \in Range(stack) : s \in Item
    <3>1. stack \in Seq(Item) /\ DOMAIN stack = 1 .. Len(stack)
      BY <1>1, LenProperties DEF TypeInv, QueueInv
    <3> QED BY <3>1, ElementOfSeq DEF Range
  <2>2. \A s \in Range(stack) :
          /\ s.node \in Nodes
          /\ s.data \in [Inputs(s.node) -> Source \cup {Nothing, Trigger}]
          /\ s.made \in 0 .. MaxWaits
          /\ s.disabled \in BOOLEAN
    BY <2>1 DEF Item, Datum
  <2>3. \A n \in Nodes :
          /\ DOMAIN waiting[n] \subseteq Nat
          /\ \A i \in DOMAIN waiting[n] : waiting[n][i] \in [Inputs(n) -> Source \cup {Nothing}]
          /\ n \in Range(names) <=> DOMAIN waiting[n] # {}
    BY <1>1 DEF TypeInv, QueueInv, Entry
  <2> QED BY <1>1, <2>2, <2>3 DEF TypeOK, TypeInv, QueueInv, RecordsInv
<1> QED BY <1>1, TypeInit, TypeNext, PTL DEF Spec

-----------------------------------------------------------------------------
(* Where data x for input k of node m is                                   *)

At(i, s, x, m, k)   == s[i].node = m /\ s[i].data[k] = x
OnStack(s, x, m, k) == \E i \in 1 .. Len(s) : At(i, s, x, m, k)
InEntries(e, x, k)  == \E i \in DOMAIN e : e[i][k] = x
Held(q, x, m, k)    == OnStack(q.stack, x, m, k) \/ InEntries(q.waiting[m], x, k)

(* It is in one place at most. *)
OnceOnStack(s, x, m, k) == \A i, j \in 1 .. Len(s) : At(i, s, x, m, k) /\ At(j, s, x, m, k) => i = j
OnceInEntries(e, x, k)  == \A i, j \in DOMAIN e : e[i][k] = x /\ e[j][k] = x => i = j
Once(q, x, m, k) ==
  /\ OnceOnStack(q.stack, x, m, k)
  /\ OnceInEntries(q.waiting[m], x, k)
  /\ ~(OnStack(q.stack, x, m, k) /\ InEntries(q.waiting[m], x, k))

LEMMA PushHeld ==
  ASSUME waits \in 0 .. MaxWaits, NEW s \in Seq(Item), NEW n \in Nodes, NEW data \in [Inputs(n) -> Datum],
         NEW x, NEW m, NEW k
  PROVE  /\ OnStack(Unshift(s, n, data), x, m, k) <=> OnStack(s, x, m, k) \/ (m = n /\ data[k] = x)
         /\ OnceOnStack(s, x, m, k) /\ ~(OnStack(s, x, m, k) /\ m = n /\ data[k] = x)
              => OnceOnStack(Unshift(s, n, data), x, m, k)
<1> DEFINE t == Unshift(s, n, data)
<1>1. /\ Len(t) = Len(s) + 1 /\ Len(s) \in Nat
      /\ t[1].node = n /\ t[1].data = data
      /\ \A j \in 1 .. Len(s) : t[j + 1] = s[j]
  <2>1. /\ Len(t) = Len(s) + 1
        /\ t[1] = [node |-> n, data |-> data, made |-> waits, disabled |-> FALSE]
        /\ \A j \in 1 .. Len(s) : t[j + 1] = s[j]
    BY UnshiftFacts
  <2> HIDE DEF t
  <2>2. t[1].node = n /\ t[1].data = data
    BY <2>1
  <2>3. Len(s) \in Nat
    BY LenProperties
  <2> QED BY <2>1, <2>2, <2>3
<1> HIDE DEF t
<1>2. At(1, t, x, m, k) <=> m = n /\ data[k] = x
  BY <1>1 DEF At
<1>3. ASSUME NEW j \in 2 .. Len(s) + 1
      PROVE  j - 1 \in 1 .. Len(s) /\ (At(j, t, x, m, k) <=> At(j - 1, s, x, m, k))
  <2>1. j - 1 \in 1 .. Len(s) /\ (j - 1) + 1 = j
    BY <1>1
  <2> QED BY <1>1, <2>1 DEF At
<1>4. \A j : j \in 1 .. Len(t) <=> j = 1 \/ j \in 2 .. Len(s) + 1
  BY <1>1
<1>5. \A j \in 1 .. Len(s) : j + 1 \in 2 .. Len(s) + 1 /\ (j + 1) - 1 = j
  BY <1>1
<1>6. OnStack(t, x, m, k) <=> OnStack(s, x, m, k) \/ (m = n /\ data[k] = x)
  <2>1. ASSUME OnStack(t, x, m, k)
        PROVE  OnStack(s, x, m, k) \/ (m = n /\ data[k] = x)
    BY <1>2, <1>3, <1>4, <2>1 DEF OnStack
  <2>2. ASSUME OnStack(s, x, m, k)
        PROVE  OnStack(t, x, m, k)
    <3>1. PICK j \in 1 .. Len(s) : At(j, s, x, m, k)
      BY <2>2 DEF OnStack
    <3>2. j + 1 \in 2 .. Len(s) + 1 /\ At(j + 1, t, x, m, k)
      BY <1>3, <1>5, <3>1
    <3> QED BY <1>4, <3>2 DEF OnStack
  <2>3. ASSUME m = n, data[k] = x
        PROVE  OnStack(t, x, m, k)
    BY <1>2, <1>4, <2>3 DEF OnStack
  <2> QED BY <2>1, <2>2, <2>3
<1>7. ASSUME OnceOnStack(s, x, m, k), ~(OnStack(s, x, m, k) /\ m = n /\ data[k] = x)
      PROVE  OnceOnStack(t, x, m, k)
  <2> SUFFICES ASSUME NEW i \in 1 .. Len(t), NEW j \in 1 .. Len(t), At(i, t, x, m, k), At(j, t, x, m, k)
               PROVE  i = j
    BY DEF OnceOnStack
  <2>1. CASE i = 1 /\ j = 1
    BY <2>1
  <2>2. CASE i = 1 /\ j # 1
    <3>1. j - 1 \in 1 .. Len(s) /\ At(j - 1, s, x, m, k)
      BY <1>3, <1>4, <2>2
    <3> QED BY <1>2, <1>7, <2>2, <3>1 DEF OnStack
  <2>3. CASE i # 1 /\ j = 1
    <3>1. i - 1 \in 1 .. Len(s) /\ At(i - 1, s, x, m, k)
      BY <1>3, <1>4, <2>3
    <3> QED BY <1>2, <1>7, <2>3, <3>1 DEF OnStack
  <2>4. CASE i # 1 /\ j # 1
    <3>1. /\ i - 1 \in 1 .. Len(s) /\ At(i - 1, s, x, m, k)
          /\ j - 1 \in 1 .. Len(s) /\ At(j - 1, s, x, m, k)
      BY <1>3, <1>4, <2>4
    <3>2. i - 1 = j - 1
      BY <1>7, <3>1 DEF OnceOnStack
    <3> QED BY <1>1, <3>2
  <2> QED BY <2>1, <2>2, <2>3, <2>4
<1> QED BY <1>6, <1>7 DEF t

(* Data that is held is held before, or is the data that comes; it is not  *)
(* doubled.                                                                *)
LEMMA AddHeld ==
  ASSUME workflow \in [Nodes -> Seq(Connection)], waits \in 0 .. MaxWaits, NEW q, QueueOK(q),
         NEW n \in Nodes, NEW input \in Inputs(n), NEW data \in Source,
         NEW x \in Source, NEW m \in Nodes, NEW k \in Inputs(m),
         NEW r, r = AddNodeToBeExecuted(q, n, input, data)
  PROVE  /\ Held(r, x, m, k) => Held(q, x, m, k) \/ (x = data /\ m = n /\ k = input)
         /\ Once(q, x, m, k) /\ ~(Held(q, x, m, k) /\ x = data /\ m = n /\ k = input) => Once(r, x, m, k)
<1>0. /\ q.stack \in Seq(Item) /\ data \in Datum /\ x # Nothing
      /\ DOMAIN q.waiting = Nodes
      /\ \A i \in DOMAIN q.waiting[n] : q.waiting[n][i] \in Entry(n)
  BY DataAssumption DEF QueueOK, Datum, EntriesOK
<1>1. CASE Direct(q, r, n, data)
  <2> DEFINE all == [j \in Inputs(n) |-> data]
  <2>1. /\ r.stack = Unshift(q.stack, n, all) /\ r.waiting = q.waiting
        /\ all \in [Inputs(n) -> Datum]
    BY <1>0, <1>1 DEF Direct
  <2>2. m = n /\ all[k] = x => x = data /\ k = input
    BY <1>1 DEF Direct
  <2> HIDE DEF all
  <2>3. /\ OnStack(r.stack, x, m, k) <=> OnStack(q.stack, x, m, k) \/ (m = n /\ all[k] = x)
        /\ OnceOnStack(q.stack, x, m, k) /\ ~(OnStack(q.stack, x, m, k) /\ m = n /\ all[k] = x)
              => OnceOnStack(r.stack, x, m, k)
    BY <1>0, <2>1, PushHeld, SMTT(40)
  <2> QED BY <2>1, <2>2, <2>3 DEF Held, Once
<1>2. ASSUME NEW i, NEW new, Made(q, n, input, data, i, new)
      PROVE  m = n /\ new[k] = x =>
               \/ x = data /\ k = input
               \/ i \in DOMAIN q.waiting[n] /\ q.waiting[n][i][k] = x
  BY <1>0, <1>2 DEF Made
<1>3. ASSUME NEW i, NEW new, Made(q, n, input, data, i, new), Completed(q, r, n, i, new)
      PROVE  /\ Held(r, x, m, k) => Held(q, x, m, k) \/ (x = data /\ m = n /\ k = input)
             /\ Once(q, x, m, k) /\ ~(Held(q, x, m, k) /\ x = data /\ m = n /\ k = input) => Once(r, x, m, k)
  <2>1. new \in [Inputs(n) -> Datum]
    BY <1>3 DEF Made, Entry, Datum
  <2>2. /\ OnStack(r.stack, x, m, k) <=> OnStack(q.stack, x, m, k) \/ (m = n /\ new[k] = x)
        /\ OnceOnStack(q.stack, x, m, k) /\ ~(OnStack(q.stack, x, m, k) /\ m = n /\ new[k] = x)
              => OnceOnStack(r.stack, x, m, k)
    BY <1>0, <1>3, <2>1, PushHeld DEF Completed
  <2>3. /\ m # n => r.waiting[m] = q.waiting[m]
        /\ DOMAIN r.waiting[n] = DOMAIN q.waiting[n] \ {i}
        /\ \A j \in DOMAIN r.waiting[n] : r.waiting[n][j] = q.waiting[n][j]
    BY <1>0, <1>3 DEF Completed, Restrict
  <2>4. /\ InEntries(r.waiting[m], x, k) => InEntries(q.waiting[m], x, k)
        /\ OnceInEntries(q.waiting[m], x, k) => OnceInEntries(r.waiting[m], x, k)
    BY <2>3 DEF InEntries, OnceInEntries
  <2>5. Held(r, x, m, k) => Held(q, x, m, k) \/ (x = data /\ m = n /\ k = input)
    BY <1>2, <1>3, <2>2, <2>4 DEF Held, InEntries
  <2>6. ASSUME Once(q, x, m, k), ~(Held(q, x, m, k) /\ x = data /\ m = n /\ k = input)
        PROVE  Once(r, x, m, k)
    <3>1. CASE m = n /\ new[k] = x
      <4>1. CASE x = data /\ k = input
        BY <2>2, <2>4, <2>6, <3>1, <4>1 DEF Once, Held
      <4>2. CASE i \in DOMAIN q.waiting[n] /\ q.waiting[n][i][k] = x
        <5>1. ~OnStack(q.stack, x, m, k)
          BY <2>6, <3>1, <4>2 DEF Once, InEntries
        <5>2. ~InEntries(r.waiting[m], x, k)
          BY <2>3, <2>6, <3>1, <4>2 DEF Once, OnceInEntries, InEntries
        <5> QED BY <2>2, <2>4, <2>6, <5>1, <5>2 DEF Once
      <4> QED BY <1>2, <1>3, <3>1, <4>1, <4>2
    <3>2. CASE ~(m = n /\ new[k] = x)
      BY <2>2, <2>4, <2>6, <3>2 DEF Once
    <3> QED BY <3>1, <3>2
  <2> QED BY <2>5, <2>6
<1>4. ASSUME NEW i, NEW new, Made(q, n, input, data, i, new), Kept(q, r, n, i, new)
      PROVE  /\ Held(r, x, m, k) => Held(q, x, m, k) \/ (x = data /\ m = n /\ k = input)
             /\ Once(q, x, m, k) /\ ~(Held(q, x, m, k) /\ x = data /\ m = n /\ k = input) => Once(r, x, m, k)
  <2>1. /\ r.stack = q.stack
        /\ m # n => r.waiting[m] = q.waiting[m]
        /\ DOMAIN r.waiting[n] = DOMAIN q.waiting[n] \cup {i}
        /\ r.waiting[n][i] = new
        /\ \A j \in DOMAIN q.waiting[n] \ {i} : r.waiting[n][j] = q.waiting[n][j]
    BY <1>0, <1>4 DEF Kept, SetEntry
  <2>2. CASE m # n
    BY <2>1, <2>2 DEF Held, Once
  <2>3. CASE m = n /\ new[k] # x
    <3>1. ASSUME NEW j \in DOMAIN r.waiting[n], r.waiting[n][j][k] = x
          PROVE  j \in DOMAIN q.waiting[n] /\ q.waiting[n][j][k] = x
      BY <2>1, <2>3, <3>1
    <3> QED BY <2>1, <2>3, <3>1 DEF Held, Once, InEntries, OnceInEntries
  <2>4. CASE m = n /\ x = data /\ k = input
    <3>1. ASSUME NEW j \in DOMAIN r.waiting[n], r.waiting[n][j][k] = x, j # i
          PROVE  j \in DOMAIN q.waiting[n] /\ q.waiting[n][j][k] = x
      BY <2>1, <3>1
    <3> QED BY <2>1, <2>4, <3>1 DEF Held, Once, InEntries, OnceInEntries
  <2>5. CASE m = n /\ i \in DOMAIN q.waiting[n] /\ q.waiting[n][i][k] = x
    <3>1. ASSUME NEW j \in DOMAIN r.waiting[n], r.waiting[n][j][k] = x
          PROVE  j \in DOMAIN q.waiting[n] /\ q.waiting[n][j][k] = x
      BY <2>1, <2>5, <3>1
    <3> QED BY <2>1, <2>5, <3>1 DEF Held, Once, InEntries, OnceInEntries
  <2> QED BY <1>2, <1>4, <2>2, <2>3, <2>4, <2>5
<1> QED BY <1>1, <1>3, <1>4, AddFacts

LEMMA ReleasedHeld ==
  ASSUME waits \in 0 .. MaxWaits, NEW q, QueueOK(q), NEW r, NEW n \in Nodes, NEW i, Released(q, r, n, i),
         NEW x \in Source, NEW m \in Nodes, NEW k \in Inputs(m)
  PROVE  /\ Held(r, x, m, k) <=> Held(q, x, m, k)
         /\ Once(q, x, m, k) => Once(r, x, m, k)
<1>0. /\ q.stack \in Seq(Item) /\ DOMAIN q.waiting = Nodes
      /\ i \in DOMAIN q.waiting[n]
      /\ q.waiting[n][i] \in Entry(n)
  BY DEF QueueOK, EntriesOK, Released
<1>1. ~OnStack(q.stack, x, m, k) /\ OnceOnStack(q.stack, x, m, k)
  BY DEF Released, OnStack, OnceOnStack
<1> DEFINE new == q.waiting[n][i]
<1>2. new \in [Inputs(n) -> Datum]
  BY <1>0 DEF Entry, Datum
<1> HIDE DEF new
<1>3. r.stack = Unshift(q.stack, n, new)
  BY <1>0 DEF Released, new
<1>4. /\ OnStack(r.stack, x, m, k) <=> OnStack(q.stack, x, m, k) \/ (m = n /\ new[k] = x)
      /\ OnceOnStack(q.stack, x, m, k) /\ ~(OnStack(q.stack, x, m, k) /\ m = n /\ new[k] = x)
              => OnceOnStack(r.stack, x, m, k)
  BY <1>0, <1>2, <1>3, PushHeld
<1>5. /\ m # n => r.waiting[m] = q.waiting[m]
      /\ DOMAIN r.waiting[n] = DOMAIN q.waiting[n] \ {i}
      /\ \A j \in DOMAIN r.waiting[n] : r.waiting[n][j] = q.waiting[n][j]
  BY <1>0 DEF Released, Restrict
<1>6. /\ OnceInEntries(q.waiting[m], x, k) => OnceInEntries(r.waiting[m], x, k)
      /\ InEntries(q.waiting[m], x, k) <=> InEntries(r.waiting[m], x, k) \/ (m = n /\ new[k] = x)
  BY <1>0, <1>5 DEF InEntries, OnceInEntries, new
<1>7. OnceInEntries(q.waiting[m], x, k) /\ m = n /\ new[k] = x => ~InEntries(r.waiting[m], x, k)
  BY <1>0, <1>5 DEF InEntries, OnceInEntries, new
<1> QED BY <1>1, <1>4, <1>6, <1>7 DEF Held, Once

(* Connection c carries data x of a run of n to input k of m. *)
Carries(n, run, c, x, m, k) == x = DataOf(n, run, c) /\ m = c.node /\ k = c.index

(* Data of the queues on the way was there before, or is along one of the  *)
(* connections so far.                                                     *)
LEMMA AddingHeld ==
  ASSUME WorkflowInv, waits \in 0 .. MaxWaits, NEW n \in Nodes, NEW outputs, NEW adds, NEW at,
         Chosen(n, outputs, adds, at), NEW run \in 1 .. MaxRuns,
         NEW q, NEW f, Adding(f, q, n, run, adds), \A j \in 0 .. Len(adds) : QueueOK(f[j]),
         NEW x \in Source, NEW m \in Nodes, NEW k \in Inputs(m)
  PROVE  \A j \in 0 .. Len(adds) :
           Held(f[j], x, m, k) => Held(q, x, m, k) \/ \E l \in 1 .. j : Carries(n, run, adds[l], x, m, k)
<1> DEFINE P(j) == Held(f[j], x, m, k) => Held(q, x, m, k) \/ \E l \in 1 .. j : Carries(n, run, adds[l], x, m, k)
           S    == {j \in Nat : j <= Len(adds) => P(j)}
<1>0. Len(adds) \in Nat /\ workflow \in [Nodes -> Seq(Connection)]
  BY LenProperties DEF Chosen, WorkflowInv
<1>1. 0 \in S
  BY DEF Adding
<1>2. ASSUME NEW j \in Nat, j \in S
      PROVE  j + 1 \in S
  <2>1. SUFFICES ASSUME j + 1 <= Len(adds), Held(f[j + 1], x, m, k)
                 PROVE  Held(q, x, m, k) \/ \E l \in 1 .. j + 1 : Carries(n, run, adds[l], x, m, k)
    OBVIOUS
  <2>2. j + 1 \in 1 .. Len(adds) /\ (j + 1) - 1 = j /\ j \in 0 .. Len(adds) /\ j + 1 \in 1 .. j + 1
    BY <1>0, <2>1
  <2>3. f[j + 1] = Added(f[j], n, run, adds, j + 1)
    BY <2>2 DEF Adding
  <2>4. /\ adds[j + 1].node \in Nodes /\ adds[j + 1].index \in Inputs(adds[j + 1].node)
        /\ DataOf(n, run, adds[j + 1]) \in Source
    BY <2>2, ChosenTyped
  <2>5. QueueOK(f[j])
    BY <2>2
  <2>6. Held(f[j], x, m, k) \/ Carries(n, run, adds[j + 1], x, m, k)
    BY <1>0, <2>1, <2>3, <2>4, <2>5, AddHeld DEF Added, Carries
  <2>7. P(j)
    BY <1>2, <2>2
  <2>8. \A l \in 1 .. j : l \in 1 .. j + 1
    OBVIOUS
  <2> QED BY <2>2, <2>6, <2>7, <2>8
<1>3. \A j \in Nat : j \in S
  <2> HIDE DEF S
  <2> QED BY <1>1, <1>2, Induction
<1> QED BY <1>0, <1>3

HeldNow(x, m, k) == OnStack(stack, x, m, k) \/ InEntries(waiting[m], x, k)

LEMMA RunHeld ==
  ASSUME TypeInv, NEW n, NEW run, NEW outputs, NEW adds, NEW at, NEW f, NEW e, Ran(n, run, outputs, adds, at, f, e),
         NEW x \in Source, NEW m \in Nodes, NEW k \in Inputs(m)
  PROVE  /\ HeldNow(x, m, k)' <=> Held(e, x, m, k)
         /\ HeldNow(x, m, k)' => Held(Rest, x, m, k) \/ \E l \in 1 .. Len(adds) : Carries(n, run, adds[l], x, m, k)
         /\ Held(f[Len(adds)], x, m, k) <=> Held(e, x, m, k)
<1>0. Len(adds) \in Nat /\ Len(adds) \in 0 .. Len(adds)
  BY LenProperties DEF Ran, Chosen
<1>1. HeldNow(x, m, k)' <=> Held(e, x, m, k)
  BY DEF Ran, HeldNow, Held
<1>2. waits \in 0 .. MaxWaits /\ WorkflowInv
  BY DEF TypeInv, RecordsInv
<1>3. QueueOK(f[Len(adds)])
  BY <1>0 DEF Ran
<1>4. Held(f[Len(adds)], x, m, k) <=> Held(e, x, m, k)
  <2>1. CASE e = f[Len(adds)]
    BY <2>1
  <2>2. ASSUME NEW p \in Nodes, NEW i, Released(f[Len(adds)], e, p, i)
        PROVE  Held(f[Len(adds)], x, m, k) <=> Held(e, x, m, k)
    BY <1>2, <1>3, <2>2, ReleasedHeld
  <2> QED BY <2>1, <2>2 DEF Ran
<1>5. Held(f[Len(adds)], x, m, k) =>
        Held(Rest, x, m, k) \/ \E l \in 1 .. Len(adds) : Carries(n, run, adds[l], x, m, k)
  BY <1>0, <1>2, AddingHeld DEF Ran
<1> QED BY <1>1, <1>4, <1>5

(* The head of the stack, and the rest *)
LEMMA RestHeld ==
  ASSUME QueueInv, stack # << >>, NEW x, NEW m \in Nodes, NEW k
  PROVE  /\ HeldNow(x, m, k) <=> Held(Rest, x, m, k) \/ (item.node = m /\ item.data[k] = x)
         /\ OnStack(stack, x, m, k) <=> OnStack(Tail(stack), x, m, k) \/ (item.node = m /\ item.data[k] = x)
<1>1. /\ Rest.stack = Tail(stack) /\ Rest.waiting = waiting /\ item = stack[1]
      /\ Len(stack) \in Nat /\ Len(stack) >= 1 /\ Len(Tail(stack)) = Len(stack) - 1
      /\ \A i \in 1 .. Len(stack) - 1 : Tail(stack)[i] = stack[i + 1]
  BY RestFacts
<1>2. At(1, stack, x, m, k) <=> item.node = m /\ item.data[k] = x
  BY <1>1 DEF At
<1>3. \A i \in 1 .. Len(stack) - 1 : At(i, Tail(stack), x, m, k) <=> At(i + 1, stack, x, m, k)
  BY <1>1 DEF At
<1>4. OnStack(stack, x, m, k) <=> OnStack(Tail(stack), x, m, k) \/ At(1, stack, x, m, k)
  <2>1. ASSUME NEW i \in 1 .. Len(stack), At(i, stack, x, m, k), i # 1
        PROVE  OnStack(Tail(stack), x, m, k)
    <3>1. i - 1 \in 1 .. Len(stack) - 1 /\ (i - 1) + 1 = i
      BY <1>1, <2>1
    <3>2. At(i - 1, Tail(stack), x, m, k)
      BY <1>3, <2>1, <3>1
    <3> QED BY <1>1, <3>1, <3>2 DEF OnStack
  <2>2. ASSUME NEW i \in 1 .. Len(stack) - 1, At(i, Tail(stack), x, m, k)
        PROVE  OnStack(stack, x, m, k)
    <3>1. i + 1 \in 1 .. Len(stack) /\ At(i + 1, stack, x, m, k)
      BY <1>1, <1>3, <2>2
    <3> QED BY <3>1 DEF OnStack
  <2>3. 1 \in 1 .. Len(stack)
    BY <1>1
  <2> QED BY <1>1, <2>1, <2>2, <2>3 DEF OnStack
<1> QED BY <1>1, <1>2, <1>4 DEF HeldNow, Held

-----------------------------------------------------------------------------
(* What was sent                                                           *)

(* There is a connection along which x comes to input k of m. *)
Along(x, m, k) ==
  \E i \in DOMAIN workflow[x[1]] :
    workflow[x[1]][i].output = x[3] /\ workflow[x[1]][i].node = m /\ workflow[x[1]][i].index = k

(* The run that gave x is recorded; it is not the one that a node made     *)
(* when it put the execution to wait, which will be removed.               *)
Recorded(x) ==
  /\ x[2] \in DOMAIN runData[x[1]]
  /\ x[3] \in runData[x[1]][x[2]]
  /\ status = "waiting" /\ x[1] = item.node => x[2] < Len(runData[x[1]])

SentInv ==
  /\ sent \in SUBSET (Source \X Nodes \X Nat)
  /\ \A x \in Source, m \in Nodes, k \in Nat : <<x, m, k>> \in sent => k \in Inputs(m) /\ Along(x, m, k)
  /\ \A x \in Source, m \in Nodes : \A k \in Inputs(m) :
       HeldNow(x, m, k) \/ <<x, m, k>> \in received => <<x, m, k>> \in sent

RecordedInv == \A x \in Source, m \in Nodes, k \in Nat : <<x, m, k>> \in sent => Recorded(x)

LEMMA ExecutedFacts ==
  ASSUME QueueInv, stack # << >>, Executed, NEW x, x # Nothing, NEW m \in Nodes, NEW k \in Inputs(m)
  PROVE  <<x, m, k>> \in received' <=> <<x, m, k>> \in received \/ (item.node = m /\ item.data[k] = x)
<1>1. DOMAIN item.data = Inputs(item.node)
  BY RestFacts
<1>2. ASSUME NEW y, NEW p, NEW j
      PROVE  <<x, m, k>> = <<y, p, j>> <=> x = y /\ m = p /\ k = j
  OBVIOUS
<1>3. <<x, m, k>> \in Deliveries(item) <=> item.node = m /\ item.data[k] = x
  <2>1. <<x, m, k>> \in Deliveries(item) <=>
          \E j \in DOMAIN item.data : item.data[j] # Nothing /\ <<x, m, k>> = <<item.data[j], item.node, j>>
    BY DEF Deliveries
  <2> QED BY <1>1, <1>2, <2>1
<1> QED BY <1>3 DEF Executed

LEMMA SentInit == Init => SentInv /\ RecordedInv
<1> SUFFICES ASSUME Init PROVE SentInv /\ RecordedInv
  OBVIOUS
<1>1. sent = {} /\ received = {}
  BY DEF Init
<1>2. ASSUME NEW x \in Source, NEW m \in Nodes, NEW k \in Inputs(m)
      PROVE  ~HeldNow(x, m, k)
  <2> DEFINE y == [node |-> Start, data |-> [i \in Inputs(Start) |-> Trigger], made |-> 0, disabled |-> FALSE]
  <2>1. stack = <<y>> /\ y.node = Start /\ y.data = [i \in Inputs(Start) |-> Trigger]
    BY DEF Init
  <2> HIDE DEF y
  <2>2. Len(stack) = 1 /\ stack[1] = y
    BY <2>1
  <2>3. x # Trigger
    BY DataAssumption
  <2>4. ~At(1, stack, x, m, k)
    BY <2>1, <2>2, <2>3 DEF At
  <2>5. ~OnStack(stack, x, m, k)
    BY <2>2, <2>4 DEF OnStack
  <2>6. DOMAIN waiting[m] = {}
    BY DEF Init
  <2> QED BY <2>5, <2>6 DEF HeldNow, InEntries
<1> QED BY <1>1, <1>2 DEF SentInv, RecordedInv

LEMMA SourceParts ==
  ASSUME NEW x \in Source
  PROVE  x = <<x[1], x[2], x[3]>> /\ x[1] \in Nodes /\ x[2] \in 1 .. MaxRuns /\ x[2] \in Nat /\ x[3] \in Output
BY BoundAssumption DEF Source

LEMMA SentRun ==
  ASSUME TypeInv, SentInv, NEW outputs, RunNode(outputs),
         NEW n, NEW run, NEW adds, NEW at, NEW f, NEW e, Ran(n, run, outputs, adds, at, f, e)
  PROVE  SentInv'
<1>0. /\ WorkflowInv /\ QueueInv /\ stack # << >> /\ Executed /\ n \in Nodes /\ run \in 1 .. MaxRuns
      /\ Chosen(n, outputs, adds, at) /\ workflow' = workflow
  BY DEF TypeInv, RunNode, Running, Ran
<1>1. sent' = sent \cup {<<DataOf(n, run, adds[k]), adds[k].node, adds[k].index>> : k \in 1 .. Len(adds)}
  BY DEF Ran
<1>2. ASSUME NEW l \in 1 .. Len(adds)
      PROVE  /\ DataOf(n, run, adds[l]) \in Source /\ adds[l].node \in Nodes /\ adds[l].index \in Nat
             /\ adds[l].index \in Inputs(adds[l].node)
             /\ Along(DataOf(n, run, adds[l]), adds[l].node, adds[l].index)
  <2>1. /\ DataOf(n, run, adds[l]) \in Source /\ adds[l].node \in Nodes
        /\ adds[l].index \in Inputs(adds[l].node)
        /\ at[l] \in DOMAIN workflow[n] /\ adds[l] = workflow[n][at[l]]
    BY <1>0, ChosenTyped
  <2>2. adds[l].index \in Nat
    BY <1>0, <2>1, InputsFacts DEF WorkflowInv
  <2>3. DataOf(n, run, adds[l])[1] = n /\ DataOf(n, run, adds[l])[3] = adds[l].output
    BY DEF DataOf
  <2> QED BY <2>1, <2>2, <2>3 DEF Along
<1>3. \A m \in Nodes : Inputs(m)' = Inputs(m) /\ \A x, k : Along(x, m, k)' = Along(x, m, k)
  BY <1>0, SameTypes DEF Along
<1>4. sent' \in SUBSET (Source \X Nodes \X Nat)
  BY <1>1, <1>2 DEF SentInv
<1>5. ASSUME NEW x \in Source, NEW m \in Nodes, NEW k \in Nat, <<x, m, k>> \in sent'
      PROVE  k \in Inputs(m) /\ Along(x, m, k)
  <2>1. CASE <<x, m, k>> \in sent
    BY <2>1 DEF SentInv
  <2>2. ASSUME NEW l \in 1 .. Len(adds), <<x, m, k>> = <<DataOf(n, run, adds[l]), adds[l].node, adds[l].index>>
        PROVE  k \in Inputs(m) /\ Along(x, m, k)
    <3>1. x = DataOf(n, run, adds[l]) /\ m = adds[l].node /\ k = adds[l].index
      BY <2>2
    <3> QED BY <1>2, <3>1
  <2> QED BY <1>1, <1>5, <2>1, <2>2
<1>6. ASSUME NEW x \in Source, NEW m \in Nodes, NEW k \in Inputs(m), HeldNow(x, m, k)'
      PROVE  <<x, m, k>> \in sent'
  <2>1. Held(Rest, x, m, k) \/ \E l \in 1 .. Len(adds) : Carries(n, run, adds[l], x, m, k)
    BY <1>6, RunHeld
  <2>2. CASE Held(Rest, x, m, k)
    <3>1. HeldNow(x, m, k)
      BY <1>0, <2>2, RestHeld
    <3> QED BY <1>1, <3>1 DEF SentInv
  <2>3. ASSUME NEW l \in 1 .. Len(adds), Carries(n, run, adds[l], x, m, k)
        PROVE  <<x, m, k>> \in sent'
    BY <1>1, <2>3 DEF Carries
  <2> QED BY <2>1, <2>2, <2>3
<1>7. ASSUME NEW x \in Source, NEW m \in Nodes, NEW k \in Inputs(m), <<x, m, k>> \in received'
      PROVE  <<x, m, k>> \in sent'
  <2>1. x # Nothing
    BY DataAssumption
  <2>2. <<x, m, k>> \in received \/ (item.node = m /\ item.data[k] = x)
    BY <1>0, <1>7, <2>1, ExecutedFacts
  <2>3. <<x, m, k>> \in received \/ HeldNow(x, m, k)
    BY <1>0, <2>2, RestHeld
  <2> QED BY <1>1, <2>3 DEF SentInv
<1>8. \A x \in Source, m \in Nodes, k \in Nat : <<x, m, k>> \in sent' => k \in Inputs(m)' /\ Along(x, m, k)'
  BY <1>3, <1>5
<1>9. \A x \in Source, m \in Nodes : \A k \in Inputs(m)' :
        HeldNow(x, m, k)' \/ <<x, m, k>> \in received' => <<x, m, k>> \in sent'
  BY <1>3, <1>6, <1>7
<1> QED BY <1>4, <1>8, <1>9 DEF SentInv

(* In the other steps nothing is sent, and nothing comes to be held. *)
LEMMA Quiet ==
  ASSUME TypeInv, [Next]_vars, \A outputs \in SUBSET Output : ~RunNode(outputs)
  PROVE  /\ workflow' = workflow /\ parents' = parents /\ sent' = sent /\ waiting' = waiting /\ names' = names
         /\ \A x, k : \A m \in Nodes : HeldNow(x, m, k)' => HeldNow(x, m, k)
         /\ \A x \in Source, m \in Nodes : \A k \in Inputs(m) :
              <<x, m, k>> \in received' => <<x, m, k>> \in received \/ HeldNow(x, m, k)
<1>0. QueueInv /\ RecordsInv
  BY DEF TypeInv
<1>1. workflow' = workflow /\ parents' = parents /\ sent' = sent /\ waiting' = waiting /\ names' = names
  BY DEF Next, Step, Finish, ReturnNull, Fail, PutToWait, Resume, Cancel, vars
<1>2. CASE stack' = stack /\ received' = received
  BY <1>1, <1>2 DEF HeldNow
<1>3. CASE ReturnNull
  <2>1. stack # << >> /\ stack' = Tail(stack) /\ Executed
    BY <1>3 DEF ReturnNull, Running
  <2>2. \A x, k : \A m \in Nodes : HeldNow(x, m, k)' => HeldNow(x, m, k)
    BY <1>0, <1>1, <2>1, RestHeld DEF HeldNow
  <2>3. ASSUME NEW x \in Source, NEW m \in Nodes, NEW k \in Inputs(m), <<x, m, k>> \in received'
        PROVE  <<x, m, k>> \in received \/ HeldNow(x, m, k)
    <3>1. x # Nothing
      BY DataAssumption
    <3> QED BY <1>0, <2>1, <2>3, <3>1, ExecutedFacts, RestHeld
  <2> QED BY <1>1, <2>2, <2>3
<1>4. CASE Resume
  <2>1. stack # << >> /\ stack' = DisableNode /\ received' = received
    BY <1>0, <1>4 DEF Resume, RecordsInv
  <2>2. /\ DisableNode \in Seq(Item) /\ DOMAIN DisableNode = DOMAIN stack
        /\ \A i \in DOMAIN stack : DisableNode[i].node = stack[i].node /\ DisableNode[i].data = stack[i].data
    BY <1>0, <2>1, DisableFacts
  <2>3. DOMAIN stack = 1 .. Len(stack) /\ DOMAIN DisableNode = 1 .. Len(DisableNode)
    BY <1>0, <2>2, LenProperties DEF QueueInv
  <2>4. \A x, m, k : OnStack(DisableNode, x, m, k) => OnStack(stack, x, m, k)
    BY <2>2, <2>3 DEF OnStack, At
  <2> QED BY <1>1, <2>1, <2>4 DEF HeldNow
<1>5. ReturnNull \/ Resume \/ (stack' = stack /\ received' = received)
  BY DEF Next, Step, Finish, Fail, PutToWait, Cancel, vars
<1> QED BY <1>2, <1>3, <1>4, <1>5

LEMMA SentNext == TypeInv /\ SentInv /\ [Next]_vars => SentInv'
<1> SUFFICES ASSUME TypeInv, SentInv, [Next]_vars
             PROVE  SentInv'
  OBVIOUS
<1>1. ASSUME NEW outputs \in SUBSET Output, RunNode(outputs)
      PROVE  SentInv'
  <2>1. PICK n, run, adds, at, f, e : Ran(n, run, outputs, adds, at, f, e)
    BY <1>1, RunFacts
  <2> QED BY <1>1, <2>1, SentRun
<1>2. ASSUME \A outputs \in SUBSET Output : ~RunNode(outputs)
      PROVE  SentInv'
  <2>1. /\ workflow' = workflow /\ sent' = sent
        /\ \A x, k : \A m \in Nodes : HeldNow(x, m, k)' => HeldNow(x, m, k)
        /\ \A x \in Source, m \in Nodes : \A k \in Inputs(m) :
             <<x, m, k>> \in received' => <<x, m, k>> \in received \/ HeldNow(x, m, k)
    BY <1>2, Quiet
  <2>2. \A m \in Nodes : Inputs(m)' = Inputs(m) /\ \A x, k : Along(x, m, k)' = Along(x, m, k)
    BY <2>1, SameTypes DEF Along
  <2> QED BY <2>1, <2>2 DEF SentInv
<1> QED BY <1>1, <1>2

(* A run that is added leaves the records that are there. *)
LEMMA StillRecorded ==
  ASSUME TypeInv, NEW n \in Nodes, NEW out, runData' = [runData EXCEPT ![n] = Append(@, out)],
         NEW x \in Source, Recorded(x)
  PROVE  /\ x[2] \in DOMAIN runData'[x[1]] /\ x[3] \in runData'[x[1]][x[2]]
         /\ x[1] = n => x[2] < Len(runData'[n])
<1>1. x[1] \in Nodes /\ x[2] \in Nat
  BY SourceParts
<1>2. runData \in [Nodes -> Seq(SUBSET Output)]
  BY DEF TypeInv, RecordsInv
<1>3. CASE x[1] # n
  BY <1>1, <1>2, <1>3 DEF Recorded
<1>4. CASE x[1] = n
  <2>1. runData[n] \in Seq(SUBSET Output) /\ Len(runData[n]) \in Nat /\ DOMAIN runData[n] = 1 .. Len(runData[n])
    BY <1>2, LenProperties
  <2>2. runData'[n] = Append(runData[n], out)
    BY <1>2
  <2>3. /\ Len(Append(runData[n], out)) = Len(runData[n]) + 1
        /\ \A i \in 1 .. Len(runData[n]) : Append(runData[n], out)[i] = runData[n][i]
        /\ DOMAIN Append(runData[n], out) = 1 .. Len(runData[n]) + 1
    BY <2>1
  <2>4. x[2] \in 1 .. Len(runData[n]) /\ x[3] \in runData[n][x[2]]
    BY <1>4, <2>1 DEF Recorded
  <2>5. x[2] \in 1 .. Len(runData[n]) + 1 /\ x[2] < Len(runData[n]) + 1
    BY <2>1, <2>4
  <2> QED BY <1>4, <2>2, <2>3, <2>4, <2>5
<1> QED BY <1>3, <1>4

LEMMA RecordedNext == TypeInv /\ SentInv /\ RecordedInv /\ [Next]_vars => RecordedInv'
<1> SUFFICES ASSUME TypeInv, SentInv, RecordedInv, [Next]_vars,
                    NEW x \in Source, NEW m \in Nodes, NEW k \in Nat, <<x, m, k>> \in sent'
             PROVE  Recorded(x)'
  BY DEF RecordedInv
<1>0. /\ QueueInv /\ RecordsInv /\ runData \in [Nodes -> Seq(SUBSET Output)]
      /\ x[1] \in Nodes /\ x[2] \in Nat
  BY SourceParts DEF TypeInv, RecordsInv
<1>1. ASSUME NEW outputs \in SUBSET Output, RunNode(outputs)
      PROVE  Recorded(x)'
  <2>1. PICK n, run, adds, at, f, e : Ran(n, run, outputs, adds, at, f, e)
    BY <1>1, RunFacts
  <2>2. /\ status' # "waiting" /\ runData' = [runData EXCEPT ![n] = Append(@, outputs)]
        /\ n \in Nodes /\ run = Len(runData[n]) + 1 /\ Chosen(n, outputs, adds, at)
        /\ sent' = sent \cup {<<DataOf(n, run, adds[l]), adds[l].node, adds[l].index>> : l \in 1 .. Len(adds)}
    BY <1>1, <2>1 DEF RunNode, Running, Ran
  <2>3. CASE <<x, m, k>> \in sent
    <3>1. Recorded(x)
      BY <2>3 DEF RecordedInv
    <3> QED BY <2>2, <3>1, StillRecorded DEF Recorded
  <2>4. ASSUME NEW l \in 1 .. Len(adds), <<x, m, k>> = <<DataOf(n, run, adds[l]), adds[l].node, adds[l].index>>
        PROVE  Recorded(x)'
    <3>1. x = DataOf(n, run, adds[l])
      BY <2>4
    <3>2. x[1] = n /\ x[2] = run /\ x[3] = adds[l].output
      BY <3>1 DEF DataOf
    <3>3. adds[l].output \in outputs
      BY <2>2 DEF Chosen
    <3>4. runData[n] \in Seq(SUBSET Output) /\ Len(runData[n]) \in Nat /\ runData'[n] = Append(runData[n], outputs)
      BY <1>0, <2>2, LenProperties
    <3>5. /\ Append(runData[n], outputs)[Len(runData[n]) + 1] = outputs
          /\ DOMAIN Append(runData[n], outputs) = 1 .. Len(runData[n]) + 1
      BY <3>4
    <3>6. run \in 1 .. Len(runData[n]) + 1
      BY <2>2, <3>4
    <3> QED BY <2>2, <3>2, <3>3, <3>4, <3>5, <3>6 DEF Recorded
  <2> QED BY <2>2, <2>3, <2>4
<1>2. ASSUME \A outputs \in SUBSET Output : ~RunNode(outputs)
      PROVE  Recorded(x)'
  <2>0. Recorded(x)
    BY <1>2, Quiet DEF RecordedInv
  <2>1. CASE Fail \/ PutToWait
    <3>1. stack # << >> /\ stack' = stack /\ item' = item
      BY <2>1 DEF Fail, PutToWait, Running, item
    <3>2. item.node \in Nodes
      BY <1>0, <3>1, RestFacts
    <3>3. \/ runData' = [runData EXCEPT ![item.node] = Append(@, {})]
          \/ runData' = [runData EXCEPT ![item.node] = Append(@, {0})]
      BY <2>1 DEF Fail, PutToWait
    <3>4. /\ x[2] \in DOMAIN runData'[x[1]] /\ x[3] \in runData'[x[1]][x[2]]
          /\ x[1] = item.node => x[2] < Len(runData'[item.node])
      BY <2>0, <3>2, <3>3, StillRecorded
    <3> QED BY <3>1, <3>4 DEF Recorded
  <2>2. CASE Resume
    <3>1. /\ status = "waiting" /\ status' = "running" /\ stack # << >> /\ Len(runData[item.node]) > 0
          /\ runData' = [runData EXCEPT ![item.node] = Front(@)]
      BY <1>0, <2>2 DEF Resume, RecordsInv
    <3>2. item.node \in Nodes
      BY <1>0, <3>1, RestFacts
    <3>3. CASE x[1] # item.node
      BY <1>0, <2>0, <3>1, <3>2, <3>3 DEF Recorded
    <3>4. CASE x[1] = item.node
      <4> DEFINE log == runData[item.node]
      <4>1. log \in Seq(SUBSET Output) /\ Len(log) > 0 /\ Len(log) \in Nat /\ DOMAIN log = 1 .. Len(log)
        BY <1>0, <3>1, <3>2, LenProperties
      <4>2. runData'[item.node] = Front(log)
        BY <1>0, <3>1, <3>2
      <4>3. /\ x[2] \in 1 .. Len(log) /\ x[2] < Len(log) /\ x[3] \in log[x[2]]
        BY <2>0, <3>1, <3>4, <4>1 DEF Recorded
      <4> HIDE DEF log
      <4>4. /\ Front(log) \in Seq(SUBSET Output) /\ Len(Front(log)) = Len(log) - 1
            /\ \A i \in 1 .. Len(log) - 1 : Front(log)[i] = log[i]
        BY <4>1, FrontFacts
      <4>5. DOMAIN Front(log) = 1 .. Len(log) - 1
        BY <4>4, LenProperties
      <4>6. x[2] \in 1 .. Len(log) - 1
        BY <4>1, <4>3
      <4> QED BY <3>1, <3>4, <4>2, <4>3, <4>4, <4>5, <4>6 DEF Recorded
    <3> QED BY <3>3, <3>4
  <2>3. CASE UNCHANGED runData /\ (status' # "waiting" \/ UNCHANGED <<status, stack>>)
    BY <2>0, <2>3 DEF Recorded, item
  <2>4. Fail \/ PutToWait \/ Resume \/ (UNCHANGED runData /\ (status' # "waiting" \/ UNCHANGED <<status, stack>>))
    BY <1>2 DEF Next, Step, Finish, ReturnNull, Running, Cancel, vars
  <2> QED BY <2>1, <2>2, <2>3, <2>4
<1> QED BY <1>1, <1>2

(* The source of data that is on the stack or waits is always a recorded   *)
(* run that gave it: a node's item refers to runs by their number, and     *)
(* handleWaitingState removes a run when it resumes an execution.          *)
THEOREM SourceTheorem == Spec => []SourceIsRecorded
<1>1. ASSUME TypeInv, SentInv, RecordedInv
      PROVE  SourceIsRecorded
  <2>0. QueueInv /\ DOMAIN stack = 1 .. Len(stack) /\ stack \in Seq(Item) /\ WorkflowInv
    BY <1>1, LenProperties DEF TypeInv, QueueInv
  <2>1. ASSUME NEW x \in Source, NEW m \in Nodes, NEW k \in Inputs(m), HeldNow(x, m, k)
        PROVE  x[2] \in DOMAIN runData[x[1]] /\ x[3] \in runData[x[1]][x[2]]
    <3>1. <<x, m, k>> \in sent
      BY <1>1, <2>1 DEF SentInv
    <3>2. k \in Nat
      BY <2>0, InputsFacts DEF WorkflowInv
    <3> QED BY <1>1, <3>1, <3>2 DEF RecordedInv, Recorded
  <2>2. ASSUME NEW i \in DOMAIN stack, NEW x \in Range(stack[i].data), x \notin {Nothing, Trigger}
        PROVE  x[2] \in DOMAIN runData[x[1]] /\ x[3] \in runData[x[1]][x[2]]
    <3>1. stack[i] \in Item
      BY <2>0, ElementOfSeq
    <3>2. stack[i].node \in Nodes /\ stack[i].data \in [Inputs(stack[i].node) -> Datum]
      BY <3>1 DEF Item
    <3>3. PICK k \in Inputs(stack[i].node) : stack[i].data[k] = x
      BY <2>2, <3>2 DEF Range
    <3>4. x \in Source
      BY <2>2, <3>2, <3>3 DEF Datum
    <3>5. HeldNow(x, stack[i].node, k)
      BY <2>0, <3>3 DEF HeldNow, OnStack, At
    <3> QED BY <2>1, <3>2, <3>3, <3>4, <3>5
  <2>3. ASSUME NEW n \in Nodes, NEW i \in DOMAIN waiting[n], NEW x \in Range(waiting[n][i]), x # Nothing
        PROVE  x[2] \in DOMAIN runData[x[1]] /\ x[3] \in runData[x[1]][x[2]]
    <3>1. waiting[n][i] \in [Inputs(n) -> Source \cup {Nothing}]
      BY <2>0 DEF QueueInv, Entry
    <3>2. PICK k \in Inputs(n) : waiting[n][i][k] = x
      BY <2>3, <3>1 DEF Range
    <3>3. x \in Source
      BY <2>3, <3>1, <3>2
    <3>4. HeldNow(x, n, k)
      BY <3>2 DEF HeldNow, InEntries
    <3> QED BY <2>1, <3>3, <3>4
  <2> DEFINE onStack == UNION {Range(stack[i].data) : i \in DOMAIN stack}
             held    == UNION {UNION {Range(waiting[n][i]) : i \in DOMAIN waiting[n]} : n \in Nodes}
             ok(x)   == x[2] \in DOMAIN runData[x[1]] /\ x[3] \in runData[x[1]][x[2]]
  <2>4. ASSUME NEW x \in onStack, x \notin {Nothing, Trigger}
        PROVE  ok(x)
    <3>1. PICK i \in DOMAIN stack : x \in Range(stack[i].data)
      OBVIOUS
    <3> QED BY <2>2, <2>4, <3>1
  <2>5. ASSUME NEW x \in held, x \notin {Nothing, Trigger}
        PROVE  ok(x)
    <3>1. PICK n \in Nodes : x \in UNION {Range(waiting[n][i]) : i \in DOMAIN waiting[n]}
      OBVIOUS
    <3>2. PICK i \in DOMAIN waiting[n] : x \in Range(waiting[n][i])
      BY <3>1
    <3> QED BY <2>3, <2>5, <3>2
  <2>6. \A x \in (onStack \cup held) \ {Nothing, Trigger} : ok(x)
    <3> HIDE DEF onStack, held, ok
    <3> QED BY <2>4, <2>5
  <2> QED BY <2>6 DEF SourceIsRecorded
<1> QED BY <1>1, TypeInit, TypeNext, SentInit, SentNext, RecordedNext, PTL DEF Spec

-----------------------------------------------------------------------------
(* Nothing is executed twice                                               *)

OnceNow(x, m, k) ==
  /\ OnceOnStack(stack, x, m, k)
  /\ OnceInEntries(waiting[m], x, k)
  /\ ~(OnStack(stack, x, m, k) /\ InEntries(waiting[m], x, k))

OnceInv ==
  DistinctConnections =>
    \A x \in Source, m \in Nodes : \A k \in Inputs(m) :
      OnceNow(x, m, k) /\ ~(<<x, m, k>> \in received /\ HeldNow(x, m, k))

(* Once the first item is taken, what it has is not elsewhere. *)
LEMMA RestOnce ==
  ASSUME QueueInv, stack # << >>, NEW x, NEW m \in Nodes, NEW k, OnceNow(x, m, k)
  PROVE  /\ Once(Rest, x, m, k)
         /\ item.node = m /\ item.data[k] = x => ~Held(Rest, x, m, k)
<1>1. /\ Rest.stack = Tail(stack) /\ Rest.waiting = waiting /\ item = stack[1]
      /\ Len(stack) \in Nat /\ Len(stack) >= 1 /\ Len(Tail(stack)) = Len(stack) - 1
      /\ \A i \in 1 .. Len(stack) - 1 : Tail(stack)[i] = stack[i + 1]
  BY RestFacts
<1>2. ASSUME NEW i \in 1 .. Len(stack) - 1
      PROVE  i + 1 \in 1 .. Len(stack) /\ i + 1 # 1 /\ (At(i, Tail(stack), x, m, k) <=> At(i + 1, stack, x, m, k))
  BY <1>1 DEF At
<1>3. At(1, stack, x, m, k) <=> item.node = m /\ item.data[k] = x
  BY <1>1 DEF At
<1>4. OnceOnStack(Tail(stack), x, m, k)
  <2> SUFFICES ASSUME NEW i \in 1 .. Len(stack) - 1, NEW j \in 1 .. Len(stack) - 1,
                      At(i, Tail(stack), x, m, k), At(j, Tail(stack), x, m, k)
               PROVE  i = j
    BY <1>1 DEF OnceOnStack
  <2>1. i + 1 = j + 1
    BY <1>2 DEF OnceNow, OnceOnStack
  <2> QED BY <2>1
<1>5. OnStack(Tail(stack), x, m, k) => OnStack(stack, x, m, k) /\ ~At(1, stack, x, m, k)
  <2> SUFFICES ASSUME NEW i \in 1 .. Len(stack) - 1, At(i, Tail(stack), x, m, k)
               PROVE  OnStack(stack, x, m, k) /\ ~At(1, stack, x, m, k)
    BY <1>1 DEF OnStack
  <2>1. i + 1 \in 1 .. Len(stack) /\ i + 1 # 1 /\ At(i + 1, stack, x, m, k) /\ 1 \in 1 .. Len(stack)
    BY <1>1, <1>2
  <2> QED BY <2>1 DEF OnStack, OnceNow, OnceOnStack
<1>6. At(1, stack, x, m, k) => OnStack(stack, x, m, k)
  BY <1>1 DEF OnStack
<1> QED BY <1>1, <1>3, <1>4, <1>5, <1>6 DEF Once, Held, OnceNow

(* Each queue on the way has data in one place at most. *)
LEMMA AddingOnce ==
  ASSUME WorkflowInv, waits \in 0 .. MaxWaits, NEW n \in Nodes, NEW outputs, NEW adds, NEW at,
         Chosen(n, outputs, adds, at), NEW run \in 1 .. MaxRuns,
         NEW q, NEW f, Adding(f, q, n, run, adds), \A j \in 0 .. Len(adds) : QueueOK(f[j]),
         NEW x \in Source, NEW m \in Nodes, NEW k \in Inputs(m), Once(q, x, m, k),
         \A l \in 1 .. Len(adds) : Carries(n, run, adds[l], x, m, k) => ~Held(q, x, m, k),
         \A j, l \in 1 .. Len(adds) : Carries(n, run, adds[j], x, m, k) /\ Carries(n, run, adds[l], x, m, k) => j = l
  PROVE  \A j \in 0 .. Len(adds) : Once(f[j], x, m, k)
<1> DEFINE S == {j \in Nat : j <= Len(adds) => Once(f[j], x, m, k)}
<1>0. Len(adds) \in Nat /\ workflow \in [Nodes -> Seq(Connection)]
  BY LenProperties DEF Chosen, WorkflowInv
<1>1. 0 \in S
  BY DEF Adding
<1>2. ASSUME NEW j \in Nat, j \in S
      PROVE  j + 1 \in S
  <2>1. SUFFICES ASSUME j + 1 <= Len(adds)
                 PROVE  Once(f[j + 1], x, m, k)
    OBVIOUS
  <2>2. j + 1 \in 1 .. Len(adds) /\ (j + 1) - 1 = j /\ j \in 0 .. Len(adds) /\ j <= Len(adds)
    BY <1>0, <2>1
  <2>3. f[j + 1] = Added(f[j], n, run, adds, j + 1)
    BY <2>2 DEF Adding
  <2>4. /\ adds[j + 1].node \in Nodes /\ adds[j + 1].index \in Inputs(adds[j + 1].node)
        /\ DataOf(n, run, adds[j + 1]) \in Source
    BY <2>2, ChosenTyped
  <2>5. QueueOK(f[j]) /\ Once(f[j], x, m, k)
    BY <1>2, <2>2
  <2>6. ASSUME Held(f[j], x, m, k), Carries(n, run, adds[j + 1], x, m, k)
        PROVE  FALSE
    <3>1. Held(q, x, m, k) \/ \E l \in 1 .. j : Carries(n, run, adds[l], x, m, k)
      BY <2>2, <2>6, AddingHeld
    <3>2. \A l \in 1 .. j : l \in 1 .. Len(adds) /\ l # j + 1
      BY <1>0, <2>2
    <3> QED BY <2>2, <2>6, <3>1, <3>2
  <2> QED BY <1>0, <2>3, <2>4, <2>5, <2>6, AddHeld DEF Added, Carries
<1>3. \A j \in Nat : j \in S
  <2> HIDE DEF S
  <2> QED BY <1>1, <1>2, Induction
<1> QED BY <1>0, <1>3

(* Different connections of a node carry different data, or to different   *)
(* inputs.                                                                 *)
LEMMA CarriesOnce ==
  ASSUME WorkflowInv, DistinctConnections, NEW n \in Nodes, NEW outputs, NEW adds, NEW at,
         Chosen(n, outputs, adds, at), NEW run \in 1 .. MaxRuns, NEW x, NEW m, NEW k,
         NEW j \in 1 .. Len(adds), NEW l \in 1 .. Len(adds),
         Carries(n, run, adds[j], x, m, k), Carries(n, run, adds[l], x, m, k)
  PROVE  j = l
<1>1. adds[j] \in Connection /\ at[j] \in DOMAIN workflow[n] /\ adds[j] = workflow[n][at[j]]
  BY ChosenTyped
<1>2. adds[l] \in Connection /\ at[l] \in DOMAIN workflow[n] /\ adds[l] = workflow[n][at[l]]
  BY ChosenTyped
<1>3. x[3] = adds[j].output /\ x[3] = adds[l].output
  <2>1. DataOf(n, run, adds[j])[3] = adds[j].output /\ DataOf(n, run, adds[l])[3] = adds[l].output
    BY DEF DataOf
  <2> QED BY <2>1 DEF Carries
<1>4. adds[j] = adds[l]
  <2>1. adds[j].output = adds[l].output /\ adds[j].node = adds[l].node /\ adds[j].index = adds[l].index
    BY <1>3 DEF Carries
  <2> QED BY <1>1, <1>2, <2>1 DEF Connection
<1>5. at[j] = at[l]
  BY <1>1, <1>2, <1>4 DEF DistinctConnections, IsInjective
<1> QED BY <1>5 DEF Chosen

(* Data of the run that ends now has not been seen before. *)
LEMMA Fresh ==
  ASSUME TypeInv, SentInv, RecordedInv, NEW n \in Nodes, NEW run, run = Len(runData[n]) + 1, NEW c,
         NEW x \in Source, NEW m \in Nodes, NEW k \in Inputs(m), Carries(n, run, c, x, m, k)
  PROVE  /\ <<x, m, k>> \notin sent
         /\ ~HeldNow(x, m, k)
         /\ <<x, m, k>> \notin received
<1>1. x[1] = n /\ x[2] = run
  <2>1. DataOf(n, run, c)[1] = n /\ DataOf(n, run, c)[2] = run
    BY DEF DataOf
  <2> QED BY <2>1 DEF Carries
<1>2. DOMAIN runData[n] = 1 .. Len(runData[n]) /\ Len(runData[n]) \in Nat
  BY LenProperties DEF TypeInv, RecordsInv
<1>3. ~Recorded(x)
  BY <1>1, <1>2 DEF Recorded
<1>4. k \in Nat
  BY InputsFacts DEF TypeInv, WorkflowInv
<1>5. <<x, m, k>> \notin sent
  BY <1>3, <1>4 DEF RecordedInv
<1> QED BY <1>5 DEF SentInv

LEMMA OnceInit == Init => OnceInv
<1> SUFFICES ASSUME Init, NEW x \in Source, NEW m \in Nodes, NEW k \in Inputs(m)
             PROVE  OnceNow(x, m, k) /\ ~(<<x, m, k>> \in received /\ HeldNow(x, m, k))
  BY DEF OnceInv
<1>1. received = {} /\ DOMAIN waiting[m] = {} /\ Len(stack) = 1
  BY DEF Init
<1> QED BY <1>1 DEF OnceNow, OnceOnStack, OnceInEntries, InEntries

LEMMA OnceRun ==
  ASSUME TypeInv, SentInv, RecordedInv, OnceInv, DistinctConnections, NEW outputs, RunNode(outputs),
         NEW n, NEW run, NEW adds, NEW at, NEW f, NEW e, Ran(n, run, outputs, adds, at, f, e),
         NEW x \in Source, NEW m \in Nodes, NEW k \in Inputs(m)
  PROVE  OnceNow(x, m, k)' /\ ~(<<x, m, k>> \in received' /\ HeldNow(x, m, k)')
<1>0. /\ WorkflowInv /\ QueueInv /\ waits \in 0 .. MaxWaits /\ stack # << >> /\ Executed
      /\ n \in Nodes /\ run = Len(runData[n]) + 1 /\ run \in 1 .. MaxRuns
      /\ Chosen(n, outputs, adds, at) /\ Adding(f, Rest, n, run, adds)
      /\ \A j \in 0 .. Len(adds) : QueueOK(f[j])
  BY DEF TypeInv, RecordsInv, RunNode, Running, Ran
<1>1. OnceNow(x, m, k) /\ ~(<<x, m, k>> \in received /\ HeldNow(x, m, k))
  BY DEF OnceInv
<1>2. /\ Once(Rest, x, m, k)
      /\ item.node = m /\ item.data[k] = x => ~Held(Rest, x, m, k)
  BY <1>0, <1>1, RestOnce
<1>3. /\ Held(Rest, x, m, k) => HeldNow(x, m, k)
      /\ item.node = m /\ item.data[k] = x => HeldNow(x, m, k)
  BY <1>0, RestHeld
<1>4. ASSUME NEW l \in 1 .. Len(adds), Carries(n, run, adds[l], x, m, k)
      PROVE  ~HeldNow(x, m, k) /\ <<x, m, k>> \notin received
  BY <1>0, <1>4, Fresh
<1>5. \A j \in 0 .. Len(adds) : Once(f[j], x, m, k)
  <2>1. \A l \in 1 .. Len(adds) : Carries(n, run, adds[l], x, m, k) => ~Held(Rest, x, m, k)
    BY <1>3, <1>4
  <2>2. \A j, l \in 1 .. Len(adds) : Carries(n, run, adds[j], x, m, k) /\ Carries(n, run, adds[l], x, m, k) => j = l
    <3>1. ASSUME NEW j \in 1 .. Len(adds), NEW l \in 1 .. Len(adds),
                 Carries(n, run, adds[j], x, m, k), Carries(n, run, adds[l], x, m, k)
          PROVE  j = l
      <4>1. WorkflowInv /\ n \in Nodes /\ Chosen(n, outputs, adds, at)
        BY <1>0
      <4>2. run \in 1 .. MaxRuns
        BY <1>0
      <4> QED BY <3>1, <4>1, <4>2, CarriesOnce
    <3> QED BY <3>1
  <2> QED BY <1>0, <1>2, <2>1, <2>2, AddingOnce
<1>6. Len(adds) \in 0 .. Len(adds)
  BY <1>0, LenProperties DEF Chosen
<1>7. Once(e, x, m, k)
  <2>1. Once(f[Len(adds)], x, m, k) /\ QueueOK(f[Len(adds)])
    BY <1>0, <1>5, <1>6
  <2>2. CASE e = f[Len(adds)]
    BY <2>1, <2>2
  <2>3. ASSUME NEW p \in Nodes, NEW i, Released(f[Len(adds)], e, p, i)
        PROVE  Once(e, x, m, k)
    BY <1>0, <2>1, <2>3, ReleasedHeld
  <2> QED BY <2>2, <2>3 DEF Ran
<1>8. OnceNow(x, m, k)'
  BY <1>7 DEF Once, OnceNow, Ran
<1>9. ASSUME <<x, m, k>> \in received', HeldNow(x, m, k)'
      PROVE  FALSE
  <2>1. x # Nothing
    BY DataAssumption
  <2>2. <<x, m, k>> \in received \/ (item.node = m /\ item.data[k] = x)
    BY <1>0, <1>9, <2>1, ExecutedFacts
  <2>3. Held(Rest, x, m, k) \/ \E l \in 1 .. Len(adds) : Carries(n, run, adds[l], x, m, k)
    BY <1>9, RunHeld
  <2> QED BY <1>1, <1>2, <1>3, <1>4, <2>2, <2>3
<1> QED BY <1>8, <1>9

LEMMA OnceQuiet ==
  ASSUME TypeInv, OnceInv, DistinctConnections, [Next]_vars, \A outputs \in SUBSET Output : ~RunNode(outputs),
         NEW x \in Source, NEW m \in Nodes, NEW k \in Inputs(m)
  PROVE  OnceNow(x, m, k)' /\ ~(<<x, m, k>> \in received' /\ HeldNow(x, m, k)')
<1>0. QueueInv /\ RecordsInv /\ x # Nothing /\ waiting' = waiting
  BY Quiet, DataAssumption DEF TypeInv
<1>1. OnceNow(x, m, k) /\ ~(<<x, m, k>> \in received /\ HeldNow(x, m, k))
  BY DEF OnceInv
<1>2. CASE stack' = stack /\ received' = received
  BY <1>0, <1>1, <1>2 DEF OnceNow, HeldNow
<1>3. CASE ReturnNull
  <2>1. stack # << >> /\ stack' = Tail(stack) /\ Executed
    BY <1>3 DEF ReturnNull, Running
  <2>2. /\ Once(Rest, x, m, k)
        /\ item.node = m /\ item.data[k] = x => ~Held(Rest, x, m, k)
    BY <1>0, <1>1, <2>1, RestOnce
  <2>3. Rest.stack = stack' /\ Rest.waiting = waiting'
    BY <1>0, <2>1, RestFacts
  <2>4. Held(Rest, x, m, k) => HeldNow(x, m, k)
    BY <1>0, <2>1, RestHeld
  <2>5. HeldNow(x, m, k)' <=> Held(Rest, x, m, k)
    BY <2>3 DEF HeldNow, Held
  <2>6. OnceNow(x, m, k)'
    BY <2>2, <2>3 DEF OnceNow, Once
  <2>7. <<x, m, k>> \in received' <=> <<x, m, k>> \in received \/ (item.node = m /\ item.data[k] = x)
    BY <1>0, <2>1, ExecutedFacts
  <2> QED BY <1>1, <2>2, <2>4, <2>5, <2>6, <2>7
<1>4. CASE Resume
  <2>1. stack # << >> /\ stack' = DisableNode /\ received' = received
    BY <1>0, <1>4 DEF Resume, RecordsInv
  <2>2. /\ DisableNode \in Seq(Item) /\ DOMAIN DisableNode = DOMAIN stack
        /\ \A i \in DOMAIN stack : DisableNode[i].node = stack[i].node /\ DisableNode[i].data = stack[i].data
    BY <1>0, <2>1, DisableFacts
  <2>3. DOMAIN stack = 1 .. Len(stack) /\ DOMAIN DisableNode = 1 .. Len(DisableNode)
    BY <1>0, <2>2, LenProperties DEF QueueInv
  <2>4. 1 .. Len(DisableNode) = 1 .. Len(stack)
    BY <2>2, <2>3
  <2>5. \A i \in 1 .. Len(stack) : At(i, DisableNode, x, m, k) <=> At(i, stack, x, m, k)
    BY <2>2, <2>3 DEF At
  <2>6. /\ OnStack(DisableNode, x, m, k) <=> OnStack(stack, x, m, k)
        /\ OnceOnStack(DisableNode, x, m, k) <=> OnceOnStack(stack, x, m, k)
    BY <2>4, <2>5 DEF OnStack, OnceOnStack
  <2> QED BY <1>0, <1>1, <2>1, <2>6 DEF OnceNow, HeldNow
<1>5. ReturnNull \/ Resume \/ (stack' = stack /\ received' = received)
  BY DEF Next, Step, Finish, Fail, PutToWait, Cancel, vars
<1> QED BY <1>2, <1>3, <1>4, <1>5

LEMMA OnceNext == TypeInv /\ SentInv /\ RecordedInv /\ OnceInv /\ [Next]_vars => OnceInv'
<1> SUFFICES ASSUME TypeInv, SentInv, RecordedInv, OnceInv, [Next]_vars
             PROVE  OnceInv'
  OBVIOUS
<1>1. workflow' = workflow
  BY DEF Next, Step, Finish, ReturnNull, Fail, PutToWait, RunNode, Resume, Cancel, vars
<1>2. DistinctConnections' => DistinctConnections
  BY <1>1 DEF DistinctConnections
<1>3. \A m \in Nodes : Inputs(m)' = Inputs(m)
  BY <1>1, SameTypes
<1>4. ASSUME NEW outputs \in SUBSET Output, RunNode(outputs), DistinctConnections,
             NEW x \in Source, NEW m \in Nodes, NEW k \in Inputs(m)
      PROVE  OnceNow(x, m, k)' /\ ~(<<x, m, k>> \in received' /\ HeldNow(x, m, k)')
  <2>1. PICK n, run, adds, at, f, e : Ran(n, run, outputs, adds, at, f, e)
    BY <1>4, RunFacts
  <2> QED BY <1>4, <2>1, OnceRun
<1>5. ASSUME DistinctConnections
      PROVE  \A x \in Source, m \in Nodes : \A k \in Inputs(m) :
               OnceNow(x, m, k)' /\ ~(<<x, m, k>> \in received' /\ HeldNow(x, m, k)')
  <2>1. CASE \E outputs \in SUBSET Output : RunNode(outputs)
    BY <1>4, <1>5, <2>1
  <2>2. CASE \A outputs \in SUBSET Output : ~RunNode(outputs)
    BY <1>5, <2>2, OnceQuiet
  <2> QED BY <2>1, <2>2
<1>6. \A x \in Source, m \in Nodes : \A k \in Inputs(m)' :
        DistinctConnections' => OnceNow(x, m, k)' /\ ~(<<x, m, k>> \in received' /\ HeldNow(x, m, k)')
  BY <1>2, <1>3, <1>5
<1> QED BY <1>6 DEF OnceInv

(* The places of HeldBy *)
LEMMA Places ==
  ASSUME TypeInv, NEW x \in Source, NEW m \in Nodes, NEW k \in Inputs(m), NEW p
  PROVE  p \in HeldBy(<<x, m, k>>) <=>
           \/ \E i \in 1 .. Len(stack) : At(i, stack, x, m, k) /\ p = <<"stack", i>>
           \/ \E i \in DOMAIN waiting[m] : waiting[m][i][k] = x /\ p = <<"waiting", i>>
           \/ <<x, m, k>> \in received /\ p = <<"received", 0>>
<1> DEFINE d == <<x, m, k>>
<1>0. d[1] = x /\ d[2] = m /\ d[3] = k
  OBVIOUS
<1>1. x # Nothing
  BY DataAssumption
<1>2. DOMAIN stack = 1 .. Len(stack) /\ stack \in Seq(Item)
  BY LenProperties DEF TypeInv, QueueInv
<1>3. ASSUME NEW i \in 1 .. Len(stack)
      PROVE  d \in Deliveries(stack[i]) <=> At(i, stack, x, m, k)
  <2>1. stack[i] \in Item
    BY <1>2, ElementOfSeq
  <2>2. DOMAIN stack[i].data = Inputs(stack[i].node)
    BY <2>1 DEF Item
  <2>3. d \in Deliveries(stack[i]) <=>
          \E j \in DOMAIN stack[i].data : stack[i].data[j] # Nothing /\ d = <<stack[i].data[j], stack[i].node, j>>
    BY DEF Deliveries
  <2>4. ASSUME NEW y, NEW q, NEW j
        PROVE  d = <<y, q, j>> <=> x = y /\ m = q /\ k = j
    OBVIOUS
  <2> HIDE DEF d
  <2> QED BY <1>1, <2>2, <2>3, <2>4 DEF At
<1> HIDE DEF d
<1>4. p \in HeldBy(d) <=>
        \/ \E i \in DOMAIN stack : d \in Deliveries(stack[i]) /\ p = <<"stack", i>>
        \/ \E i \in DOMAIN waiting[d[2]] : waiting[d[2]][i][d[3]] = d[1] /\ p = <<"waiting", i>>
        \/ d \in received /\ p = <<"received", 0>>
  BY DEF HeldBy
<1>5. p \in HeldBy(d) <=>
        \/ \E i \in 1 .. Len(stack) : At(i, stack, x, m, k) /\ p = <<"stack", i>>
        \/ \E i \in DOMAIN waiting[m] : waiting[m][i][k] = x /\ p = <<"waiting", i>>
        \/ d \in received /\ p = <<"received", 0>>
  BY <1>0, <1>2, <1>3, <1>4
<1> QED BY <1>5 DEF d

(* What was sent, as data for an input of a node *)
LEMMA SentParts ==
  ASSUME TypeInv, SentInv, NEW d \in sent
  PROVE  d = <<d[1], d[2], d[3]>> /\ d[1] \in Source /\ d[2] \in Nodes /\ d[3] \in Nat /\ d[3] \in Inputs(d[2])
<1>1. d = <<d[1], d[2], d[3]>> /\ d[1] \in Source /\ d[2] \in Nodes /\ d[3] \in Nat
  BY DEF SentInv
<1>2. d[3] \in Inputs(d[2])
  BY <1>1 DEF SentInv
<1> QED BY <1>1, <1>2

(* Nothing that a node sends is executed twice, or is yet to be executed   *)
(* in two places: addNodeToBeExecuted and the choice among waiting nodes   *)
(* never copy data, in any workflow without a connection listed twice.     *)
THEOREM NothingTwiceTheorem == Spec => []NothingTwice
<1>1. ASSUME TypeInv, SentInv, OnceInv
      PROVE  NothingTwice
  <2> SUFFICES ASSUME DistinctConnections, NEW d \in sent, NEW p \in HeldBy(d), NEW r \in HeldBy(d)
               PROVE  p = r
    BY DEF NothingTwice
  <2>1. PICK x \in Source, m \in Nodes : \E k \in Inputs(m) : d = <<x, m, k>>
    BY <1>1, SentParts
  <2>2. PICK k \in Inputs(m) : d = <<x, m, k>>
    BY <2>1
  <2>3. OnceNow(x, m, k) /\ ~(<<x, m, k>> \in received /\ HeldNow(x, m, k))
    BY <1>1 DEF OnceInv
  <2>4. \/ \E i \in 1 .. Len(stack) : At(i, stack, x, m, k) /\ p = <<"stack", i>>
        \/ \E i \in DOMAIN waiting[m] : waiting[m][i][k] = x /\ p = <<"waiting", i>>
        \/ <<x, m, k>> \in received /\ p = <<"received", 0>>
    BY <1>1, <2>2, Places
  <2>5. \/ \E i \in 1 .. Len(stack) : At(i, stack, x, m, k) /\ r = <<"stack", i>>
        \/ \E i \in DOMAIN waiting[m] : waiting[m][i][k] = x /\ r = <<"waiting", i>>
        \/ <<x, m, k>> \in received /\ r = <<"received", 0>>
    BY <1>1, <2>2, Places
  <2> QED BY <2>3, <2>4, <2>5 DEF OnceNow, HeldNow, OnStack, InEntries, OnceOnStack, OnceInEntries
<1> QED BY <1>1, TypeInit, TypeNext, SentInit, SentNext, RecordedNext, OnceInit, OnceNext, PTL DEF Spec

-----------------------------------------------------------------------------
(* An input that was executed without data                                 *)

OnNode(s, m)   == \E i \in 1 .. Len(s) : s[i].node = m
ActiveIn(q, m) == m \in Range(q.names) \/ OnNode(q.stack, m)

(* A node that is on the stack or waits *)
Active(m) == m \in Range(names) \/ OnNode(stack, m)

NoData == {Nothing, Trigger}

(* Input k of n was, or is to be, executed without data from a node. *)
Closed(n, k) ==
  \/ <<n, k>> \in unfed
  \/ <<Trigger, n, k>> \in received
  \/ \E x \in NoData : OnStack(stack, x, n, k)

(* No node before it is active then. *)
ClosedInv ==
  Acyclic => \A n \in Nodes : \A k \in Inputs(n) : Closed(n, k) => \A m \in Nodes : Active(m) => m \notin parents[n]

(* A node with a connection to n, or to a parent of n, is a parent of n. *)
LEMMA ParentFacts ==
  ASSUME WorkflowInv, NEW p \in Nodes, NEW i \in DOMAIN workflow[p], NEW n \in Nodes,
         workflow[p][i].node = n \/ workflow[p][i].node \in parents[n]
  PROVE  p \in parents[n]
<1> DEFINE before(s) == {r \in Nodes : \E c \in Range(workflow[r]) : c.node \in s}
           closed    == {s \in SUBSET Nodes : before(s \cup {n}) \subseteq s}
<1>1. parents[n] = {r \in Nodes : \A s \in closed : r \in s}
  BY DEF WorkflowInv, ParentNodes
<1>2. workflow[p][i] \in Range(workflow[p])
  BY DEF Range
<1>3. ASSUME NEW s \in closed
      PROVE  p \in s
  <2>1. workflow[p][i].node \in s \cup {n}
    BY <1>1
  <2>2. p \in before(s \cup {n})
    BY <1>2, <2>1
  <2> QED BY <2>2
<1> HIDE DEF closed
<1> QED BY <1>1, <1>3

LEMMA PushNode ==
  ASSUME waits \in 0 .. MaxWaits, NEW s \in Seq(Item), NEW n \in Nodes, NEW data \in [Inputs(n) -> Datum], NEW m
  PROVE  OnNode(Unshift(s, n, data), m) <=> OnNode(s, m) \/ m = n
<1> DEFINE t == Unshift(s, n, data)
<1>1. /\ Len(t) = Len(s) + 1
      /\ t[1] = [node |-> n, data |-> data, made |-> waits, disabled |-> FALSE]
      /\ \A j \in 1 .. Len(s) : t[j + 1] = s[j]
  BY UnshiftFacts
<1>2. Len(s) \in Nat
  BY LenProperties
<1> HIDE DEF t
<1>3. t[1].node = n
  BY <1>1
<1>4. \A j : j \in 1 .. Len(t) => j = 1 \/ (j - 1 \in 1 .. Len(s) /\ (j - 1) + 1 = j)
  BY <1>1, <1>2
<1>5. \A j \in 1 .. Len(s) : j + 1 \in 1 .. Len(t)
  BY <1>1, <1>2
<1>6. 1 \in 1 .. Len(t)
  BY <1>1, <1>2
<1>7. ASSUME OnNode(t, m)
      PROVE  OnNode(s, m) \/ m = n
  <2>1. PICK j \in 1 .. Len(t) : t[j].node = m
    BY <1>7 DEF OnNode
  <2>2. CASE j = 1
    BY <1>3, <2>1, <2>2
  <2>3. CASE j - 1 \in 1 .. Len(s) /\ (j - 1) + 1 = j
    <3>1. t[j] = s[j - 1]
      BY <1>1, <2>3
    <3> QED BY <2>1, <2>3, <3>1 DEF OnNode
  <2> QED BY <1>4, <2>2, <2>3
<1>8. ASSUME OnNode(s, m)
      PROVE  OnNode(t, m)
  <2>1. PICK j \in 1 .. Len(s) : s[j].node = m
    BY <1>8 DEF OnNode
  <2>2. t[j + 1].node = m
    BY <1>1, <2>1
  <2> QED BY <1>5, <2>2 DEF OnNode
<1>9. m = n => OnNode(t, m)
  BY <1>3, <1>6 DEF OnNode
<1> QED BY <1>7, <1>8, <1>9 DEF t

(* Only the node that gets data becomes active, and what is executed then  *)
(* has data for all its inputs.                                            *)
LEMMA AddActive ==
  ASSUME workflow \in [Nodes -> Seq(Connection)], waits \in 0 .. MaxWaits, NEW q, QueueOK(q),
         NEW n \in Nodes, NEW input \in Inputs(n), NEW data \in Source,
         NEW m \in Nodes, NEW r, r = AddNodeToBeExecuted(q, n, input, data)
  PROVE  /\ ActiveIn(r, m) => ActiveIn(q, m) \/ m = n
         /\ \A x \in NoData : \A k \in Inputs(m) : OnStack(r.stack, x, m, k) => OnStack(q.stack, x, m, k)
<1>0. data \in Datum /\ data \notin NoData /\ Source \cap NoData = {}
  BY DataAssumption DEF Datum, NoData
<1>1. q.stack \in Seq(Item)
  BY DEF QueueOK
<1>2. CASE Direct(q, r, n, data)
  <2> DEFINE all == [j \in Inputs(n) |-> data]
  <2>1. /\ r.stack = Unshift(q.stack, n, all) /\ r.names = q.names
    BY <1>0, <1>2 DEF Direct
  <2>2. all \in [Inputs(n) -> Datum]
    BY <1>0
  <2>3. \A k \in Inputs(n) : all[k] = data
    OBVIOUS
  <2> HIDE DEF all
  <2>4. \A x, k : OnStack(r.stack, x, m, k) => OnStack(q.stack, x, m, k) \/ (m = n /\ all[k] = x)
    <3>1. \A x, k : OnStack(Unshift(q.stack, n, all), x, m, k) <=> OnStack(q.stack, x, m, k) \/ (m = n /\ all[k] = x)
      BY <1>1, <2>2, PushHeld
    <3> QED BY <2>1, <3>1
  <2>5. OnNode(r.stack, m) => OnNode(q.stack, m) \/ m = n
    <3>1. OnNode(Unshift(q.stack, n, all), m) <=> OnNode(q.stack, m) \/ m = n
      BY <1>1, <2>2, PushNode
    <3> QED BY <2>1, <3>1
  <2> QED BY <1>0, <2>1, <2>3, <2>4, <2>5 DEF ActiveIn
<1>3. ASSUME NEW i, NEW new, Made(q, n, input, data, i, new), Completed(q, r, n, i, new)
      PROVE  /\ ActiveIn(r, m) => ActiveIn(q, m) \/ m = n
             /\ \A x \in NoData : \A k \in Inputs(m) : OnStack(r.stack, x, m, k) => OnStack(q.stack, x, m, k)
  <2>1. \A k \in Inputs(n) : new[k] \in Source
    BY <1>3 DEF Made, Completed, Entry
  <2>2. new \in [Inputs(n) -> Datum]
    BY <1>3 DEF Made, Entry, Datum
  <2>3. r.stack = Unshift(q.stack, n, new) /\ Range(r.names) \subseteq Range(q.names)
    BY <1>3 DEF Completed
  <2>4. \A x, k : OnStack(r.stack, x, m, k) => OnStack(q.stack, x, m, k) \/ (m = n /\ new[k] = x)
    <3>1. \A x, k : OnStack(Unshift(q.stack, n, new), x, m, k) <=> OnStack(q.stack, x, m, k) \/ (m = n /\ new[k] = x)
      BY <1>1, <2>2, PushHeld
    <3> QED BY <2>3, <3>1
  <2>5. OnNode(r.stack, m) => OnNode(q.stack, m) \/ m = n
    <3>1. OnNode(Unshift(q.stack, n, new), m) <=> OnNode(q.stack, m) \/ m = n
      BY <1>1, <2>2, PushNode
    <3> QED BY <2>3, <3>1
  <2> QED BY <1>0, <2>1, <2>3, <2>4, <2>5 DEF ActiveIn
<1>4. ASSUME NEW i, NEW new, Kept(q, r, n, i, new)
      PROVE  /\ ActiveIn(r, m) => ActiveIn(q, m) \/ m = n
             /\ \A x \in NoData : \A k \in Inputs(m) : OnStack(r.stack, x, m, k) => OnStack(q.stack, x, m, k)
  BY <1>4 DEF Kept, ActiveIn
<1> QED BY <1>2, <1>3, <1>4, AddFacts

LEMMA AddingActive ==
  ASSUME WorkflowInv, waits \in 0 .. MaxWaits, NEW n \in Nodes, NEW outputs, NEW adds, NEW at,
         Chosen(n, outputs, adds, at), NEW run \in 1 .. MaxRuns,
         NEW q, NEW f, Adding(f, q, n, run, adds), \A j \in 0 .. Len(adds) : QueueOK(f[j]),
         NEW m \in Nodes
  PROVE  \A j \in 0 .. Len(adds) :
           /\ ActiveIn(f[j], m) => ActiveIn(q, m) \/ \E l \in 1 .. j : m = adds[l].node
           /\ \A x \in NoData : \A k \in Inputs(m) : OnStack(f[j].stack, x, m, k) => OnStack(q.stack, x, m, k)
<1> DEFINE P(j) == ActiveIn(f[j], m) => ActiveIn(q, m) \/ \E l \in 1 .. j : m = adds[l].node
           R(j) == \A x \in NoData : \A k \in Inputs(m) : OnStack(f[j].stack, x, m, k) => OnStack(q.stack, x, m, k)
           S    == {j \in Nat : j <= Len(adds) => P(j) /\ R(j)}
<1>0. Len(adds) \in Nat /\ workflow \in [Nodes -> Seq(Connection)]
  BY LenProperties DEF Chosen, WorkflowInv
<1>1. 0 \in S
  BY DEF Adding
<1>2. ASSUME NEW j \in Nat, j \in S
      PROVE  j + 1 \in S
  <2>1. SUFFICES ASSUME j + 1 <= Len(adds)
                 PROVE  P(j + 1) /\ R(j + 1)
    OBVIOUS
  <2>2. j + 1 \in 1 .. Len(adds) /\ (j + 1) - 1 = j /\ j \in 0 .. Len(adds) /\ j <= Len(adds)
    BY <1>0, <2>1
  <2>3. f[j + 1] = Added(f[j], n, run, adds, j + 1)
    BY <2>2 DEF Adding
  <2>4. /\ adds[j + 1].node \in Nodes /\ adds[j + 1].index \in Inputs(adds[j + 1].node)
        /\ DataOf(n, run, adds[j + 1]) \in Source
    BY <2>2, ChosenTyped
  <2>5. P(j) /\ R(j)
    BY <1>2, <2>2
  <2>6. QueueOK(f[j])
    BY <2>2
  <2> HIDE DEF P, R
  <2>7. /\ ActiveIn(f[j + 1], m) => ActiveIn(f[j], m) \/ m = adds[j + 1].node
        /\ \A x \in NoData : \A k \in Inputs(m) : OnStack(f[j + 1].stack, x, m, k) => OnStack(f[j].stack, x, m, k)
    <3>1. f[j + 1] = AddNodeToBeExecuted(f[j], adds[j + 1].node, adds[j + 1].index, DataOf(n, run, adds[j + 1]))
      BY <2>3 DEF Added
    <3> DEFINE r == f[j + 1]
               c == adds[j + 1]
               d == DataOf(n, run, c)
               old == f[j]
    <3>2. /\ c.node \in Nodes /\ c.index \in Inputs(c.node) /\ d \in Source
          /\ QueueOK(old) /\ r = AddNodeToBeExecuted(old, c.node, c.index, d)
      BY <2>4, <2>6, <3>1
    <3> HIDE DEF r, c, d, old
    <3>3. /\ ActiveIn(r, m) => ActiveIn(old, m) \/ m = c.node
          /\ \A x \in NoData : \A k \in Inputs(m) : OnStack(r.stack, x, m, k) => OnStack(old.stack, x, m, k)
      BY <1>0, <3>2, AddActive
    <3> QED BY <3>3 DEF r, c, old
  <2>8. j + 1 \in 1 .. j + 1 /\ \A l \in 1 .. j : l \in 1 .. j + 1
    OBVIOUS
  <2>9. P(j + 1)
    BY <2>5, <2>7, <2>8 DEF P
  <2>10. R(j + 1)
    BY <2>5, <2>7 DEF R
  <2> QED BY <2>9, <2>10
<1>3. \A j \in Nat : j \in S
  <2> HIDE DEF S
  <2> QED BY <1>1, <1>2, Induction
<1> QED BY <1>0, <1>3

LEMMA ReleasedActive ==
  ASSUME waits \in 0 .. MaxWaits, NEW q, QueueOK(q), NEW r, NEW n \in Nodes, NEW i, Released(q, r, n, i), NEW m \in Nodes
  PROVE  /\ ActiveIn(r, m) => m \in Range(q.names)
         /\ OnNode(r.stack, m) <=> m = n
         /\ \A x, k : OnStack(r.stack, x, m, k) => m = n
<1>0. /\ q.stack \in Seq(Item) /\ q.waiting[n][i] \in Entry(n)
      /\ r.stack = Unshift(q.stack, n, q.waiting[n][i])
      /\ n \in Range(q.names) /\ Range(r.names) \subseteq Range(q.names)
  BY DEF QueueOK, EntriesOK, Released
<1>1. ~OnNode(q.stack, m) /\ \A x, k : ~OnStack(q.stack, x, m, k)
  BY DEF Released, OnNode, OnStack
<1> DEFINE new == q.waiting[n][i]
<1>2. new \in [Inputs(n) -> Datum]
  BY <1>0 DEF Entry, Datum
<1>3. r.stack = Unshift(q.stack, n, new)
  BY <1>0
<1>4. q.stack \in Seq(Item)
  BY <1>0
<1> HIDE DEF new
<1>5. OnNode(Unshift(q.stack, n, new), m) <=> OnNode(q.stack, m) \/ m = n
  BY <1>2, <1>4, PushNode
<1>6. \A x, k : OnStack(Unshift(q.stack, n, new), x, m, k) <=> OnStack(q.stack, x, m, k) \/ (m = n /\ new[k] = x)
  BY <1>2, <1>4, PushHeld
<1> QED BY <1>0, <1>1, <1>3, <1>5, <1>6 DEF ActiveIn

LEMMA RestActive ==
  ASSUME QueueInv, stack # << >>, NEW m
  PROVE  Active(m) <=> ActiveIn(Rest, m) \/ m = item.node
<1>1. /\ Rest.stack = Tail(stack) /\ Rest.names = names /\ item = stack[1]
      /\ Len(stack) \in Nat /\ Len(stack) >= 1 /\ Len(Tail(stack)) = Len(stack) - 1
      /\ \A i \in 1 .. Len(stack) - 1 : Tail(stack)[i] = stack[i + 1]
  BY RestFacts
<1>2. \A i \in 1 .. Len(stack) - 1 : i + 1 \in 1 .. Len(stack)
  BY <1>1
<1>3. \A i \in 1 .. Len(stack) : i = 1 \/ (i - 1 \in 1 .. Len(stack) - 1 /\ (i - 1) + 1 = i)
  BY <1>1
<1>4. 1 \in 1 .. Len(stack)
  BY <1>1
<1>5. OnNode(stack, m) => OnNode(Tail(stack), m) \/ m = item.node
  BY <1>1, <1>3 DEF OnNode
<1>6. OnNode(Tail(stack), m) \/ m = item.node => OnNode(stack, m)
  BY <1>1, <1>2, <1>4 DEF OnNode
<1> QED BY <1>1, <1>5, <1>6 DEF Active, ActiveIn

LEMMA UnfedFacts ==
  ASSUME QueueInv, stack # << >>, Executed, NEW m \in Nodes, NEW k \in Inputs(m)
  PROVE  <<m, k>> \in unfed' <=> <<m, k>> \in unfed \/ (item.node = m /\ item.data[k] = Nothing)
<1>1. DOMAIN item.data = Inputs(item.node)
  BY RestFacts
<1>2. <<m, k>> \in unfed' <=>
        <<m, k>> \in unfed \/ \E j \in DOMAIN item.data : item.data[j] = Nothing /\ <<m, k>> = <<item.node, j>>
  BY DEF Executed
<1> QED BY <1>1, <1>2

(* When a node is executed, what was closed is what was closed before. *)
LEMMA ClosedExecuted ==
  ASSUME QueueInv, stack # << >>, Executed, NEW n \in Nodes, NEW k \in Inputs(n),
         \/ <<n, k>> \in unfed'
         \/ <<Trigger, n, k>> \in received'
         \/ \E x \in NoData : OnStack(Tail(stack), x, n, k)
  PROVE  Closed(n, k)
<1>1. Trigger # Nothing
  BY DataAssumption
<1>2. <<Trigger, n, k>> \in received' <=> <<Trigger, n, k>> \in received \/ (item.node = n /\ item.data[k] = Trigger)
  BY <1>1, ExecutedFacts
<1>3. <<n, k>> \in unfed' <=> <<n, k>> \in unfed \/ (item.node = n /\ item.data[k] = Nothing)
  BY UnfedFacts
<1>4. \A x : OnStack(stack, x, n, k) <=> OnStack(Tail(stack), x, n, k) \/ (item.node = n /\ item.data[k] = x)
  BY RestHeld
<1> QED BY <1>2, <1>3, <1>4 DEF Closed, NoData

LEMMA ClosedInit == Init => ClosedInv
<1> SUFFICES ASSUME Init, Acyclic, NEW n \in Nodes, NEW k \in Inputs(n), Closed(n, k), NEW m \in Nodes, Active(m)
             PROVE  m \notin parents[n]
  BY DEF ClosedInv
<1>1. unfed = {} /\ received = {} /\ Range(names) = {}
  BY DEF Init, Range
<1> DEFINE y == [node |-> Start, data |-> [i \in Inputs(Start) |-> Trigger], made |-> 0, disabled |-> FALSE]
<1>2. stack = <<y>> /\ y.node = Start
  BY DEF Init
<1> HIDE DEF y
<1>3. Len(stack) = 1 /\ stack[1].node = Start
  BY <1>2
<1>4. m = Start
  BY <1>1, <1>3 DEF Active, OnNode
<1>5. n = Start
  BY <1>1, <1>3 DEF Closed, OnStack, At
<1> QED BY <1>4, <1>5 DEF Acyclic

LEMMA ClosedRun ==
  ASSUME TypeInv, ClosedInv, Acyclic, NEW outputs, RunNode(outputs),
         NEW p, NEW run, NEW adds, NEW at, NEW f, NEW e, Ran(p, run, outputs, adds, at, f, e),
         NEW n \in Nodes, NEW k \in Inputs(n), Closed(n, k)', NEW m \in Nodes, Active(m)'
  PROVE  m \notin parents[n]
<1>0. /\ WorkflowInv /\ QueueInv /\ waits \in 0 .. MaxWaits /\ stack # << >> /\ Executed
      /\ p \in Nodes /\ p = item.node /\ run \in 1 .. MaxRuns
      /\ Chosen(p, outputs, adds, at) /\ Adding(f, Rest, p, run, adds)
      /\ \A j \in 0 .. Len(adds) : QueueOK(f[j])
      /\ stack' = e.stack /\ names' = e.names
  BY DEF TypeInv, RecordsInv, RunNode, Running, Ran
<1> DEFINE r == f[Len(adds)]
<1>1. Len(adds) \in 0 .. Len(adds) /\ QueueOK(r)
  <2>1. Len(adds) \in 0 .. Len(adds)
    BY <1>0, LenProperties DEF Chosen
  <2> QED BY <1>0, <2>1
<1>2. \A t \in Nodes :
        /\ ActiveIn(r, t) => ActiveIn(Rest, t) \/ \E l \in 1 .. Len(adds) : t = adds[l].node
        /\ \A x \in NoData : \A j \in Inputs(t) : OnStack(r.stack, x, t, j) => OnStack(Rest.stack, x, t, j)
  <2> SUFFICES ASSUME NEW t \in Nodes
               PROVE  /\ ActiveIn(r, t) => ActiveIn(Rest, t) \/ \E l \in 1 .. Len(adds) : t = adds[l].node
                      /\ \A x \in NoData : \A j \in Inputs(t) : OnStack(r.stack, x, t, j) => OnStack(Rest.stack, x, t, j)
    OBVIOUS
  <2> QED BY <1>0, <1>1, AddingActive
<1> HIDE DEF r
<1>3. ActiveIn(e, m)
  BY <1>0 DEF Active, ActiveIn
<1>4. Active(p) /\ (ActiveIn(Rest, m) => Active(m))
  BY <1>0, RestActive
<1>5. ASSUME Closed(n, k), ActiveIn(r, m)
      PROVE  m \notin parents[n]
  <2>1. CASE ActiveIn(Rest, m)
    BY <1>4, <1>5, <2>1 DEF ClosedInv
  <2>2. ASSUME NEW l \in 1 .. Len(adds), m = adds[l].node, m \in parents[n]
        PROVE  FALSE
    <3>1. at[l] \in DOMAIN workflow[p] /\ adds[l] = workflow[p][at[l]]
      BY <1>0, ChosenTyped
    <3>2. p \in parents[n]
      BY <1>0, <2>2, <3>1, ParentFacts
    <3> QED BY <1>0, <1>4, <1>5, <3>2 DEF ClosedInv
  <2> QED BY <1>2, <1>5, <2>1, <2>2
<1>6. ASSUME \/ <<n, k>> \in unfed'
             \/ <<Trigger, n, k>> \in received'
             \/ \E x \in NoData : OnStack(r.stack, x, n, k)
      PROVE  Closed(n, k)
  <2>1. Rest.stack = Tail(stack)
    BY <1>0, RestFacts
  <2>2. \/ <<n, k>> \in unfed'
        \/ <<Trigger, n, k>> \in received'
        \/ \E x \in NoData : OnStack(Tail(stack), x, n, k)
    BY <1>2, <1>6, <2>1
  <2> QED BY <1>0, <2>2, ClosedExecuted
<1>7. \/ <<n, k>> \in unfed'
      \/ <<Trigger, n, k>> \in received'
      \/ \E x \in NoData : OnStack(e.stack, x, n, k)
  BY <1>0 DEF Closed
<1>8. CASE e = r
  BY <1>3, <1>5, <1>6, <1>7, <1>8
<1>9. ASSUME NEW t \in Nodes, NEW i, Released(r, e, t, i)
      PROVE  m \notin parents[n]
  <2>1. /\ m \in Range(r.names)
        /\ \A x \in NoData : OnStack(e.stack, x, n, k) => n = t
    BY <1>0, <1>1, <1>3, <1>9, ReleasedActive
  <2>2. ActiveIn(r, m)
    BY <2>1 DEF ActiveIn
  <2>3. CASE Closed(n, k)
    BY <1>5, <2>2, <2>3
  <2>4. CASE n = t
    <3>1. (parents[t] \ {t}) \cap Range(r.names) = {}
      BY <1>9 DEF Released
    <3> QED BY <2>1, <2>4, <3>1 DEF Acyclic
  <2> QED BY <1>6, <1>7, <2>1, <2>3, <2>4
<1>10. e = r \/ \E t \in Nodes : \E i : Released(r, e, t, i)
  BY DEF Ran, r
<1> QED BY <1>8, <1>9, <1>10

(* In the other steps no node becomes active, and no input closed. *)
LEMMA ClosedQuiet ==
  ASSUME TypeInv, [Next]_vars, \A outputs \in SUBSET Output : ~RunNode(outputs)
  PROVE  /\ \A m : Active(m)' => Active(m)
         /\ \A n \in Nodes : \A k \in Inputs(n) : Closed(n, k)' => Closed(n, k)
<1>0. QueueInv /\ RecordsInv /\ names' = names
  BY Quiet DEF TypeInv
<1>1. CASE stack' = stack /\ received' = received /\ unfed' = unfed
  BY <1>0, <1>1 DEF Active, Closed
<1>2. CASE ReturnNull
  <2>1. stack # << >> /\ stack' = Tail(stack) /\ Executed
    BY <1>2 DEF ReturnNull, Running
  <2>2. Rest.stack = stack' /\ Rest.names = names'
    BY <1>0, <2>1, RestFacts
  <2>3. \A m : Active(m)' => ActiveIn(Rest, m)
    BY <2>2 DEF Active, ActiveIn
  <2>4. \A m : ActiveIn(Rest, m) => Active(m)
    BY <1>0, <2>1, RestActive
  <2>5. ASSUME NEW n \in Nodes, NEW k \in Inputs(n), Closed(n, k)'
        PROVE  Closed(n, k)
    <3>1. \/ <<n, k>> \in unfed'
          \/ <<Trigger, n, k>> \in received'
          \/ \E x \in NoData : OnStack(Tail(stack), x, n, k)
      BY <2>1, <2>5 DEF Closed, NoData
    <3> QED BY <1>0, <2>1, <3>1, ClosedExecuted
  <2> QED BY <2>3, <2>4, <2>5
<1>3. CASE Resume
  <2>1. stack # << >> /\ stack' = DisableNode /\ received' = received /\ unfed' = unfed
    BY <1>0, <1>3 DEF Resume, RecordsInv
  <2>2. /\ DisableNode \in Seq(Item) /\ DOMAIN DisableNode = DOMAIN stack
        /\ \A i \in DOMAIN stack : DisableNode[i].node = stack[i].node /\ DisableNode[i].data = stack[i].data
    BY <1>0, <2>1, DisableFacts
  <2>3. DOMAIN stack = 1 .. Len(stack) /\ DOMAIN DisableNode = 1 .. Len(DisableNode)
    BY <1>0, <2>2, LenProperties DEF QueueInv
  <2>4. /\ \A x, m, k : OnStack(DisableNode, x, m, k) => OnStack(stack, x, m, k)
        /\ \A m : OnNode(DisableNode, m) => OnNode(stack, m)
    BY <2>2, <2>3 DEF OnStack, At, OnNode
  <2> QED BY <1>0, <2>1, <2>4 DEF Active, Closed, NoData
<1>4. ReturnNull \/ Resume \/ (stack' = stack /\ received' = received /\ unfed' = unfed)
  BY DEF Next, Step, Finish, Fail, PutToWait, Cancel, vars
<1> QED BY <1>1, <1>2, <1>3, <1>4

LEMMA ClosedNext == TypeInv /\ ClosedInv /\ [Next]_vars => ClosedInv'
<1> SUFFICES ASSUME TypeInv, ClosedInv, [Next]_vars
             PROVE  ClosedInv'
  OBVIOUS
<1>1. workflow' = workflow /\ parents' = parents
  BY DEF Next, Step, Finish, ReturnNull, Fail, PutToWait, RunNode, Resume, Cancel, vars
<1>2. Acyclic' => Acyclic
  BY <1>1 DEF Acyclic
<1>3. \A n \in Nodes : Inputs(n)' = Inputs(n)
  BY <1>1, SameTypes
<1>4. ASSUME Acyclic, NEW n \in Nodes, NEW k \in Inputs(n), Closed(n, k)', NEW m \in Nodes, Active(m)'
      PROVE  m \notin parents[n]
  <2>1. ASSUME NEW outputs \in SUBSET Output, RunNode(outputs)
        PROVE  m \notin parents[n]
    <3>1. PICK p, run, adds, at, f, e : Ran(p, run, outputs, adds, at, f, e)
      BY <2>1, RunFacts
    <3> QED BY <1>4, <2>1, <3>1, ClosedRun
  <2>2. ASSUME \A outputs \in SUBSET Output : ~RunNode(outputs)
        PROVE  m \notin parents[n]
    BY <1>4, <2>2, ClosedQuiet DEF ClosedInv
  <2> QED BY <2>1, <2>2
<1>5. \A n \in Nodes : \A k \in Inputs(n)' : Acyclic' /\ Closed(n, k)' => \A m \in Nodes : Active(m)' => m \notin parents'[n]
  BY <1>1, <1>2, <1>3, <1>4
<1> QED BY <1>5 DEF ClosedInv

(* A node is executed without data for an input only when none will come:  *)
(* the choice among waiting nodes looks at the nodes before them that wait *)
(* (parentIsWaiting), and that is enough in a workflow without loops,      *)
(* whatever its size: nothing is sent to that input afterwards.            *)
THEOREM PartialTheorem == Spec => PartialIsFinal
<1>1. ASSUME TypeInv, ClosedInv, [Next]_vars
      PROVE  [Acyclic => \A d \in sent' \ sent : <<d[2], d[3]>> \notin unfed]_vars
  <2> SUFFICES ASSUME Acyclic, NEW d \in sent' \ sent
               PROVE  <<d[2], d[3]>> \notin unfed
    OBVIOUS
  <2>1. ASSUME NEW outputs \in SUBSET Output, RunNode(outputs)
        PROVE  <<d[2], d[3]>> \notin unfed
    <3>1. PICK p, run, adds, at, f, e : Ran(p, run, outputs, adds, at, f, e)
      BY <1>1, <2>1, RunFacts
    <3>2. /\ WorkflowInv /\ QueueInv /\ stack # << >>
          /\ p \in Nodes /\ p = item.node /\ run \in 1 .. MaxRuns /\ Chosen(p, outputs, adds, at)
          /\ sent' = sent \cup {<<DataOf(p, run, adds[k]), adds[k].node, adds[k].index>> : k \in 1 .. Len(adds)}
      BY <1>1, <2>1, <3>1 DEF TypeInv, RunNode, Running, Ran
    <3>3. PICK l \in 1 .. Len(adds) : d = <<DataOf(p, run, adds[l]), adds[l].node, adds[l].index>>
      BY <3>2
    <3>4. d[2] = adds[l].node /\ d[3] = adds[l].index
      BY <3>3
    <3>5. /\ adds[l].node \in Nodes /\ adds[l].index \in Inputs(adds[l].node)
          /\ at[l] \in DOMAIN workflow[p] /\ adds[l] = workflow[p][at[l]]
      BY <3>2, ChosenTyped
    <3>6. p \in parents[adds[l].node]
      BY <3>2, <3>5, ParentFacts
    <3>7. Active(p)
      BY <3>2, RestActive
    <3>8. ~Closed(adds[l].node, adds[l].index)
      BY <1>1, <3>2, <3>5, <3>6, <3>7 DEF ClosedInv
    <3> QED BY <3>4, <3>8 DEF Closed
  <2>2. ASSUME \A outputs \in SUBSET Output : ~RunNode(outputs)
        PROVE  <<d[2], d[3]>> \notin unfed
    BY <1>1, <2>2, Quiet
  <2> QED BY <2>1, <2>2
<1> QED BY <1>1, TypeInit, TypeNext, ClosedInit, ClosedNext, PTL DEF Spec, PartialIsFinal

-----------------------------------------------------------------------------
(* Nothing is lost                                                         *)

(* A node is on the stack once, or waits with one entry. *)
UniqueOn(s) == \A i, j \in 1 .. Len(s) : s[i].node = s[j].node => i = j
Single(q) ==
  /\ UniqueOn(q.stack)
  /\ \A n \in Nodes :
       /\ \A i, j \in DOMAIN q.waiting[n] : i = j
       /\ OnNode(q.stack, n) => DOMAIN q.waiting[n] = {}

(* Node n is not on the stack, and if it waits it lacks data for the input. *)
Free(q, n, input) ==
  /\ ~OnNode(q.stack, n)
  /\ \A i \in DOMAIN q.waiting[n] : q.waiting[n][i][input] = Nothing

LEMMA PushUnique ==
  ASSUME waits \in 0 .. MaxWaits, NEW s \in Seq(Item), NEW n \in Nodes, NEW data \in [Inputs(n) -> Datum],
         UniqueOn(s), ~OnNode(s, n)
  PROVE  UniqueOn(Unshift(s, n, data))
<1> DEFINE t == Unshift(s, n, data)
<1>1. /\ Len(t) = Len(s) + 1
      /\ t[1] = [node |-> n, data |-> data, made |-> waits, disabled |-> FALSE]
      /\ \A j \in 1 .. Len(s) : t[j + 1] = s[j]
  BY UnshiftFacts
<1>2. Len(s) \in Nat
  BY LenProperties
<1> HIDE DEF t
<1>3. t[1].node = n
  BY <1>1
<1>4. \A j \in 1 .. Len(t) : j = 1 \/ (j - 1 \in 1 .. Len(s) /\ (j - 1) + 1 = j)
  BY <1>1, <1>2
<1>5. \A j \in 1 .. Len(s) : s[j].node # n
  BY DEF OnNode
<1>6. ASSUME NEW j \in 1 .. Len(t), j # 1
      PROVE  j - 1 \in 1 .. Len(s) /\ t[j].node = s[j - 1].node
  BY <1>1, <1>4, <1>6
<1> SUFFICES ASSUME NEW i \in 1 .. Len(t), NEW j \in 1 .. Len(t), t[i].node = t[j].node
             PROVE  i = j
  BY DEF UniqueOn, t
<1>7. CASE i = 1 /\ j # 1
  BY <1>3, <1>5, <1>6, <1>7
<1>8. CASE i # 1 /\ j = 1
  BY <1>3, <1>5, <1>6, <1>8
<1>9. CASE i # 1 /\ j # 1
  <2>1. i - 1 = j - 1
    BY <1>6, <1>9 DEF UniqueOn
  <2> QED BY <1>4, <1>9, <2>1
<1> QED BY <1>7, <1>8, <1>9

(* Data that comes to a node that is free for it is kept, and so is what   *)
(* was there.                                                              *)
LEMMA AddSingle ==
  ASSUME workflow \in [Nodes -> Seq(Connection)], waits \in 0 .. MaxWaits, NEW q, QueueOK(q),
         NEW n \in Nodes, NEW input \in Inputs(n), NEW data \in Source,
         Single(q), Free(q, n, input),
         NEW r, r = AddNodeToBeExecuted(q, n, input, data)
  PROVE  /\ Single(r)
         /\ Held(r, data, n, input)
         /\ \A x \in Source, m \in Nodes : \A k \in Inputs(m) : Held(q, x, m, k) => Held(r, x, m, k)
<1>0. /\ q.stack \in Seq(Item) /\ data \in Datum /\ Nothing \notin Source
      /\ DOMAIN q.waiting = Nodes
      /\ Inputs(n) = {0} => DOMAIN q.waiting[n] = {}
  BY DataAssumption DEF QueueOK, Datum, EntriesOK
<1>1. ASSUME NEW new \in [Inputs(n) -> Datum], new[input] = data, r.stack = Unshift(q.stack, n, new),
             \A m \in Nodes \ {n} : r.waiting[m] = q.waiting[m], DOMAIN r.waiting[n] = {},
             \A j \in DOMAIN q.waiting[n] : \A k \in Inputs(n) : q.waiting[n][j][k] # Nothing => new[k] = q.waiting[n][j][k]
      PROVE  /\ Single(r)
             /\ Held(r, data, n, input)
             /\ \A x \in Source, m \in Nodes : \A k \in Inputs(m) : Held(q, x, m, k) => Held(r, x, m, k)
  <2>1. UniqueOn(r.stack)
    <3>1. UniqueOn(Unshift(q.stack, n, new))
      BY <1>0, <1>1, PushUnique DEF Single, Free
    <3> QED BY <1>1, <3>1
  <2>2. ASSUME NEW m \in Nodes
        PROVE  OnNode(r.stack, m) <=> OnNode(q.stack, m) \/ m = n
    <3>1. OnNode(Unshift(q.stack, n, new), m) <=> OnNode(q.stack, m) \/ m = n
      BY <1>0, <1>1, PushNode
    <3> QED BY <1>1, <3>1
  <2>3. ASSUME NEW x, NEW m, NEW k
        PROVE  OnStack(r.stack, x, m, k) <=> OnStack(q.stack, x, m, k) \/ (m = n /\ new[k] = x)
    <3>1. OnStack(Unshift(q.stack, n, new), x, m, k) <=> OnStack(q.stack, x, m, k) \/ (m = n /\ new[k] = x)
      BY <1>0, <1>1, PushHeld, SMTT(40)
    <3> QED BY <1>1, <3>1
  <2>4. Single(r)
    BY <1>1, <2>1, <2>2 DEF Single
  <2>5. ASSUME NEW x \in Source, NEW m \in Nodes, NEW k \in Inputs(m), Held(q, x, m, k)
        PROVE  Held(r, x, m, k)
    <3>1. CASE OnStack(q.stack, x, m, k)
      BY <2>3, <3>1 DEF Held
    <3>2. ASSUME NEW j \in DOMAIN q.waiting[m], q.waiting[m][j][k] = x
          PROVE  Held(r, x, m, k)
      <4>1. CASE m = n
        BY <1>0, <1>1, <2>3, <3>2, <4>1 DEF Held
      <4>2. CASE m # n
        BY <1>1, <3>2, <4>2 DEF Held, InEntries
      <4> QED BY <4>1, <4>2
    <3> QED BY <2>5, <3>1, <3>2 DEF Held, InEntries
  <2>6. Held(r, data, n, input)
    BY <1>1, <2>3 DEF Held
  <2> QED BY <2>4, <2>5, <2>6
<1>2. CASE Direct(q, r, n, data)
  <2> DEFINE all == [j \in Inputs(n) |-> data]
  <2>1. r.stack = Unshift(q.stack, n, all) /\ r.waiting = q.waiting /\ Inputs(n) = {0}
    BY <1>2 DEF Direct
  <2>2. all \in [Inputs(n) -> Datum] /\ all[input] = data
    BY <1>0
  <2> HIDE DEF all
  <2>3. DOMAIN r.waiting[n] = {} /\ DOMAIN q.waiting[n] = {} /\ \A m \in Nodes \ {n} : r.waiting[m] = q.waiting[m]
    BY <1>0, <2>1
  <2> QED BY <1>1, <2>1, <2>2, <2>3
<1>3. ASSUME NEW i, NEW new, Made(q, n, input, data, i, new), Completed(q, r, n, i, new)
      PROVE  /\ Single(r)
             /\ Held(r, data, n, input)
             /\ \A x \in Source, m \in Nodes : \A k \in Inputs(m) : Held(q, x, m, k) => Held(r, x, m, k)
  <2>1. r.stack = Unshift(q.stack, n, new) /\ i \in DOMAIN q.waiting[n]
    BY <1>3 DEF Completed
  <2>2. new \in [Inputs(n) -> Datum] /\ new[input] = data
    BY <1>3 DEF Made, Entry, Datum
  <2>3. \A j \in DOMAIN q.waiting[n] : j = i
    BY <2>1 DEF Single
  <2>4. DOMAIN Restrict(q.waiting[n], DOMAIN q.waiting[n] \ {i}) = {}
    BY <2>3 DEF Restrict
  <2>5. DOMAIN r.waiting[n] = {} /\ \A m \in Nodes \ {n} : r.waiting[m] = q.waiting[m]
    BY <1>0, <1>3, <2>4 DEF Completed
  <2>6. q.waiting[n][i][input] = Nothing /\ \A k \in Inputs(n) \ {input} : new[k] = q.waiting[n][i][k]
    BY <1>3, <2>1 DEF Made, Free
  <2>7. \A j \in DOMAIN q.waiting[n] : \A k \in Inputs(n) : q.waiting[n][j][k] # Nothing => new[k] = q.waiting[n][j][k]
    BY <2>3, <2>6
  <2> QED BY <1>1, <2>1, <2>2, <2>5, <2>7
<1>4. ASSUME NEW i, NEW new, Made(q, n, input, data, i, new), Kept(q, r, n, i, new)
      PROVE  /\ Single(r)
             /\ Held(r, data, n, input)
             /\ \A x \in Source, m \in Nodes : \A k \in Inputs(m) : Held(q, x, m, k) => Held(r, x, m, k)
  <2>1. /\ r.stack = q.stack
        /\ \A m \in Nodes \ {n} : r.waiting[m] = q.waiting[m]
        /\ DOMAIN r.waiting[n] = DOMAIN q.waiting[n] \cup {i}
        /\ r.waiting[n][i] = new
    BY <1>0, <1>4 DEF Kept, SetEntry
  <2>2. new[input] = data
    BY <1>4 DEF Made
  <2>3. \A j \in DOMAIN q.waiting[n] :
          j = i /\ \A k \in Inputs(n) : q.waiting[n][j][k] # Nothing => new[k] = q.waiting[n][j][k]
    <3> SUFFICES ASSUME NEW j \in DOMAIN q.waiting[n]
                 PROVE  j = i /\ \A k \in Inputs(n) : q.waiting[n][j][k] # Nothing => new[k] = q.waiting[n][j][k]
      OBVIOUS
    <3>1. q.waiting[n][j][input] = Nothing
      BY DEF Free
    <3>2. /\ i \in DOMAIN q.waiting[n]
          /\ \A k \in Inputs(n) \ {input} : new[k] = q.waiting[n][i][k]
      BY <1>4, <3>1 DEF Made
    <3>3. j = i
      BY <3>2 DEF Single
    <3> QED BY <3>1, <3>2, <3>3
  <2>4. Single(r)
    <3>1. ~OnNode(r.stack, n) /\ \A j, k \in DOMAIN r.waiting[n] : j = k
      BY <2>1, <2>3 DEF Free
    <3> QED BY <2>1, <3>1 DEF Single
  <2>5. Held(r, data, n, input)
    BY <2>1, <2>2 DEF Held, InEntries
  <2>6. ASSUME NEW x \in Source, NEW m \in Nodes, NEW k \in Inputs(m), Held(q, x, m, k)
        PROVE  Held(r, x, m, k)
    <3>1. CASE m # n \/ OnStack(q.stack, x, m, k)
      BY <2>1, <2>6, <3>1 DEF Held
    <3>2. ASSUME NEW j \in DOMAIN q.waiting[n], q.waiting[n][j][k] = x, m = n
          PROVE  Held(r, x, m, k)
      <4>1. new[k] = x /\ i \in DOMAIN r.waiting[n]
        BY <1>0, <2>1, <2>3, <3>2
      <4> QED BY <2>1, <3>2, <4>1 DEF Held, InEntries
    <3> QED BY <2>6, <3>1, <3>2 DEF Held, InEntries
  <2> QED BY <2>4, <2>5, <2>6
<1> QED BY <1>2, <1>3, <1>4, AddFacts

(* Input k of n was executed, with data or without; n was executed. *)
Fed(n, k) ==
  \/ <<n, k>> \in unfed
  \/ <<Trigger, n, k>> \in received
  \/ \E x \in Source : <<x, n, k>> \in received
Done(n) == \A k \in Inputs(n) : Fed(n, k)

SingleNow == Single([stack |-> stack, waiting |-> waiting, names |-> names])

(* A node is executed once, and sends before no node that was executed. *)
SingleInv ==
  Acyclic /\ SingleConnections =>
    /\ SingleNow
    /\ \A n \in Nodes : Done(n) => ~Active(n)
    /\ \A x \in Source, m \in Nodes, k \in Nat : <<x, m, k>> \in sent => Done(x[1])
    /\ \A x \in Source, m \in Nodes : \A k \in Inputs(m) :
         <<x, m, k>> \in sent => HeldNow(x, m, k) \/ <<x, m, k>> \in received

LEMMA RestSingle ==
  ASSUME QueueInv, stack # << >>, SingleNow
  PROVE  Single(Rest) /\ ~ActiveIn(Rest, item.node)
<1>1. /\ Rest.stack = Tail(stack) /\ Rest.waiting = waiting /\ Rest.names = names /\ item = stack[1] /\ item.node \in Nodes
      /\ Len(stack) \in Nat /\ Len(stack) >= 1 /\ Len(Tail(stack)) = Len(stack) - 1
      /\ \A i \in 1 .. Len(stack) - 1 : Tail(stack)[i] = stack[i + 1]
  BY RestFacts
<1>2. /\ UniqueOn(stack)
      /\ \A n \in Nodes :
           /\ \A i, j \in DOMAIN waiting[n] : i = j
           /\ OnNode(stack, n) => DOMAIN waiting[n] = {}
  BY DEF SingleNow, Single
<1>3. \A i \in 1 .. Len(stack) - 1 : i + 1 \in 1 .. Len(stack) /\ i + 1 # 1
  BY <1>1
<1>4. 1 \in 1 .. Len(stack)
  BY <1>1
<1>5. ~OnNode(Tail(stack), item.node)
  BY <1>1, <1>2, <1>3, <1>4 DEF OnNode, UniqueOn
<1>6. UniqueOn(Tail(stack))
  <2> SUFFICES ASSUME NEW i \in 1 .. Len(stack) - 1, NEW j \in 1 .. Len(stack) - 1,
                      Tail(stack)[i].node = Tail(stack)[j].node
               PROVE  i = j
    BY <1>1 DEF UniqueOn
  <2>1. i + 1 = j + 1
    BY <1>1, <1>2, <1>3 DEF UniqueOn
  <2> QED BY <2>1
<1>7. \A n : OnNode(Tail(stack), n) => OnNode(stack, n)
  BY <1>1, <1>3 DEF OnNode
<1>8. Single(Rest)
  BY <1>1, <1>2, <1>6, <1>7 DEF Single
<1>9. OnNode(stack, item.node)
  BY <1>1, <1>4 DEF OnNode
<1>10. item.node \notin Range(names)
  BY <1>1, <1>2, <1>9 DEF QueueInv
<1> QED BY <1>1, <1>5, <1>8, <1>10 DEF ActiveIn

(* The input to which a node sends has had nothing before. *)
LEMMA Untouched ==
  ASSUME TypeInv, SentInv, ClosedInv, SingleInv, Acyclic, SingleConnections, stack # << >>,
         NEW p, p = item.node, NEW outputs, NEW adds, NEW at, Chosen(p, outputs, adds, at),
         NEW run \in 1 .. MaxRuns, NEW l \in 1 .. Len(adds), NEW n, n = adds[l].node, NEW k, k = adds[l].index
  PROVE  /\ p \in parents[n]
         /\ ~Closed(n, k)
         /\ \A x \in Source : <<x, n, k>> \notin sent /\ ~HeldNow(x, n, k)
         /\ ~Done(n)
<1>0. WorkflowInv /\ QueueInv /\ p \in Nodes
  BY RestFacts DEF TypeInv
<1>1. /\ n \in Nodes /\ k \in Inputs(n)
      /\ at[l] \in DOMAIN workflow[p] /\ adds[l] = workflow[p][at[l]]
  BY <1>0, ChosenTyped
<1>2. k \in Nat
  BY <1>0, <1>1, InputsFacts DEF WorkflowInv
<1>3. p \in parents[n]
  BY <1>0, <1>1, ParentFacts
<1>4. Active(p)
  BY <1>0, RestActive
<1>5. ~Closed(n, k)
  BY <1>0, <1>1, <1>3, <1>4 DEF ClosedInv
<1>6. ASSUME NEW x \in Source, <<x, n, k>> \in sent
      PROVE  FALSE
  <2>1. PICK i \in DOMAIN workflow[x[1]] : workflow[x[1]][i].node = n /\ workflow[x[1]][i].index = k
    BY <1>1, <1>2, <1>6, SMTT(40) DEF SentInv, Along
  <2>2. x[1] \in Nodes
    BY SourceParts
  <2>3. <<x[1], i>> = <<p, at[l]>>
    BY <1>0, <1>1, <2>1, <2>2 DEF SingleConnections
  <2>4. x[1] = p
    BY <2>3
  <2>5. Done(p)
    BY <1>1, <1>2, <1>6, <2>4 DEF SingleInv
  <2> QED BY <1>0, <1>4, <2>5 DEF SingleInv
<1>7. \A x \in Source : ~HeldNow(x, n, k) /\ <<x, n, k>> \notin received
  BY <1>1, <1>6 DEF SentInv
<1>8. ~Done(n)
  BY <1>1, <1>5, <1>7 DEF Done, Fed, Closed
<1> QED BY <1>3, <1>5, <1>6, <1>7, <1>8

(* So its node is free for the data when it comes. *)
LEMMA FreeAt ==
  ASSUME TypeInv, SentInv, ClosedInv, SingleInv, Acyclic, SingleConnections, stack # << >>,
         NEW p, p = item.node, NEW outputs, NEW adds, NEW at, Chosen(p, outputs, adds, at),
         NEW run \in 1 .. MaxRuns, NEW f, Adding(f, Rest, p, run, adds), \A j \in 0 .. Len(adds) : QueueOK(f[j]),
         NEW j \in 0 .. Len(adds), j + 1 \in 1 .. Len(adds)
  PROVE  Free(f[j], adds[j + 1].node, adds[j + 1].index)
<1> DEFINE n == adds[j + 1].node
           k == adds[j + 1].index
<1>0. WorkflowInv /\ QueueInv /\ p \in Nodes /\ waits \in 0 .. MaxWaits /\ Len(adds) \in Nat
  BY RestFacts, LenProperties DEF TypeInv, RecordsInv, Chosen
<1>1. /\ n \in Nodes /\ k \in Inputs(n)
      /\ at[j + 1] \in DOMAIN workflow[p] /\ adds[j + 1] = workflow[p][at[j + 1]]
  BY <1>0, ChosenTyped
<1>2. ~Closed(n, k) /\ \A x \in Source : ~HeldNow(x, n, k)
  BY Untouched
<1>3. ASSUME NEW l \in 1 .. j
      PROVE  ~(adds[l].node = n /\ adds[l].index = k)
  <2>1. l \in 1 .. Len(adds) /\ l # j + 1
    BY <1>0
  <2>2. at[l] \in DOMAIN workflow[p] /\ adds[l] = workflow[p][at[l]]
    BY <1>0, <2>1, ChosenTyped
  <2>3. at[l] # at[j + 1]
    BY <2>1 DEF Chosen
  <2>4. <<p, at[l]>> # <<p, at[j + 1]>>
    BY <2>3
  <2> QED BY <1>0, <1>1, <2>2, <2>4 DEF SingleConnections
<1> HIDE DEF n, k
<1>4. ASSUME NEW x \in Source, Held(f[j], x, n, k)
      PROVE  FALSE
  <2>1. Held(Rest, x, n, k) \/ \E l \in 1 .. j : Carries(p, run, adds[l], x, n, k)
    BY <1>0, <1>1, <1>4, AddingHeld
  <2>2. ~Held(Rest, x, n, k)
    BY <1>0, <1>1, <1>2, RestHeld
  <2> QED BY <1>3, <2>1, <2>2 DEF Carries
<1>5. ASSUME NEW x \in NoData, OnStack(f[j].stack, x, n, k)
      PROVE  FALSE
  <2>1. OnStack(Rest.stack, x, n, k)
    BY <1>0, <1>1, <1>5, AddingActive
  <2>2. OnStack(stack, x, n, k)
    BY <1>0, <1>1, <2>1, RestFacts, RestHeld
  <2> QED BY <1>2, <2>2 DEF Closed
<1>6. QueueOK(f[j])
  OBVIOUS
<1>7. ~OnNode(f[j].stack, n)
  <2> SUFFICES ASSUME NEW i \in 1 .. Len(f[j].stack), f[j].stack[i].node = n
               PROVE  FALSE
    BY DEF OnNode
  <2>1. f[j].stack[i] \in Item
    BY <1>6, ElementOfSeq DEF QueueOK
  <2>2. f[j].stack[i].data[k] \in Datum
    BY <1>1, <2>1 DEF Item
  <2>3. OnStack(f[j].stack, f[j].stack[i].data[k], n, k)
    BY DEF OnStack, At
  <2> QED BY <1>4, <1>5, <2>2, <2>3 DEF Datum, NoData, Held
<1>8. ASSUME NEW i \in DOMAIN f[j].waiting[n]
      PROVE  f[j].waiting[n][i][k] = Nothing
  <2>1. f[j].waiting[n][i] \in Entry(n)
    BY <1>1, <1>6 DEF QueueOK, EntriesOK
  <2>2. f[j].waiting[n][i][k] \in Source \cup {Nothing}
    BY <1>1, <2>1 DEF Entry
  <2>3. InEntries(f[j].waiting[n], f[j].waiting[n][i][k], k)
    BY DEF InEntries
  <2> QED BY <1>4, <2>2, <2>3 DEF Held
<1> QED BY <1>7, <1>8 DEF Free, n, k

(* Each queue on the way has what was there, and what has come so far. *)
LEMMA AddingSingle ==
  ASSUME WorkflowInv, waits \in 0 .. MaxWaits, NEW n \in Nodes, NEW outputs, NEW adds, NEW at,
         Chosen(n, outputs, adds, at), NEW run \in 1 .. MaxRuns,
         NEW q, NEW f, Adding(f, q, n, run, adds), \A j \in 0 .. Len(adds) : QueueOK(f[j]), Single(q),
         \A j \in 0 .. Len(adds) : j + 1 \in 1 .. Len(adds) => Free(f[j], adds[j + 1].node, adds[j + 1].index)
  PROVE  /\ Single(f[Len(adds)])
         /\ \A x \in Source, m \in Nodes : \A k \in Inputs(m) :
              Held(q, x, m, k) \/ (\E l \in 1 .. Len(adds) : Carries(n, run, adds[l], x, m, k))
                => Held(f[Len(adds)], x, m, k)
<1> DEFINE Come(j, x, m, k) == Held(q, x, m, k) \/ \E l \in 1 .. j : Carries(n, run, adds[l], x, m, k)
           P(j) == \A x \in Source, m \in Nodes : \A k \in Inputs(m) : Come(j, x, m, k) => Held(f[j], x, m, k)
           S    == {j \in Nat : j <= Len(adds) => Single(f[j]) /\ P(j)}
<1>0. Len(adds) \in Nat /\ workflow \in [Nodes -> Seq(Connection)]
  BY LenProperties DEF Chosen, WorkflowInv
<1>1. 0 \in S
  BY DEF Adding
<1>2. ASSUME NEW j \in Nat, j \in S
      PROVE  j + 1 \in S
  <2>1. SUFFICES ASSUME j + 1 <= Len(adds)
                 PROVE  Single(f[j + 1]) /\ P(j + 1)
    OBVIOUS
  <2>2. j + 1 \in 1 .. Len(adds) /\ (j + 1) - 1 = j /\ j \in 0 .. Len(adds) /\ j <= Len(adds)
    BY <1>0, <2>1
  <2>3. f[j + 1] = Added(f[j], n, run, adds, j + 1)
    BY <2>2 DEF Adding
  <2>4. /\ adds[j + 1].node \in Nodes /\ adds[j + 1].index \in Inputs(adds[j + 1].node)
        /\ DataOf(n, run, adds[j + 1]) \in Source
    BY <2>2, ChosenTyped
  <2>5. Single(f[j]) /\ QueueOK(f[j]) /\ Free(f[j], adds[j + 1].node, adds[j + 1].index)
    BY <1>2, <2>2
  <2>6. P(j)
    BY <1>2, <2>2
  <2> HIDE DEF P
  <2> DEFINE r   == f[j + 1]
             old == f[j]
             c   == adds[j + 1]
             d   == DataOf(n, run, c)
  <2>7. /\ c.node \in Nodes /\ c.index \in Inputs(c.node) /\ d \in Source
        /\ QueueOK(old) /\ Single(old) /\ Free(old, c.node, c.index)
        /\ r = AddNodeToBeExecuted(old, c.node, c.index, d)
    BY <2>3, <2>4, <2>5 DEF Added
  <2> HIDE DEF r, old, c, d
  <2>8. /\ Single(r)
        /\ Held(r, d, c.node, c.index)
        /\ \A x \in Source, m \in Nodes : \A k \in Inputs(m) : Held(old, x, m, k) => Held(r, x, m, k)
    BY <1>0, <2>7, AddSingle
  <2>9. \A l \in 1 .. j + 1 : l \in 1 .. j \/ l = j + 1
    OBVIOUS
  <2>10. ASSUME NEW x \in Source, NEW m \in Nodes, NEW k \in Inputs(m), Come(j + 1, x, m, k)
         PROVE  Held(r, x, m, k)
    <3>1. CASE Come(j, x, m, k)
      <4>1. Held(old, x, m, k)
        BY <2>6, <3>1 DEF P, old
      <4> QED BY <2>8, <4>1
    <3>2. CASE Carries(n, run, c, x, m, k)
      BY <2>8, <3>2 DEF Carries, d
    <3> QED BY <2>9, <2>10, <3>1, <3>2 DEF c
  <2>11. P(j + 1)
    BY <2>10 DEF P, r
  <2> QED BY <2>8, <2>11 DEF r
<1>3. \A j \in Nat : j \in S
  <2> HIDE DEF S
  <2> QED BY <1>1, <1>2, Induction
<1>4. Single(f[Len(adds)]) /\ P(Len(adds))
  BY <1>0, <1>3
<1> QED BY <1>4

LEMMA ReleasedSingle ==
  ASSUME waits \in 0 .. MaxWaits, NEW q, QueueOK(q), NEW r, NEW n \in Nodes, NEW i, Released(q, r, n, i), Single(q)
  PROVE  Single(r)
<1>0. /\ q.stack \in Seq(Item) /\ DOMAIN q.waiting = Nodes /\ i \in DOMAIN q.waiting[n] /\ q.waiting[n][i] \in Entry(n)
  BY DEF QueueOK, EntriesOK, Released
<1>1. \A m \in Nodes : OnNode(r.stack, m) <=> m = n
  <2> SUFFICES ASSUME NEW m \in Nodes
               PROVE  OnNode(r.stack, m) <=> m = n
    OBVIOUS
  <2> QED BY ReleasedActive
<1>2. ~OnNode(q.stack, n) /\ UniqueOn(q.stack)
  BY DEF Released, OnNode, Single
<1> DEFINE new == q.waiting[n][i]
<1>3. new \in [Inputs(n) -> Datum] /\ r.stack = Unshift(q.stack, n, new)
  BY <1>0 DEF Entry, Datum, Released
<1> HIDE DEF new
<1>4. UniqueOn(Unshift(q.stack, n, new))
  BY <1>0, <1>2, <1>3, PushUnique
<1>5. \A j \in DOMAIN q.waiting[n] : j = i
  BY <1>0 DEF Single
<1>6. DOMAIN Restrict(q.waiting[n], DOMAIN q.waiting[n] \ {i}) = {}
  BY <1>5 DEF Restrict
<1>7. DOMAIN r.waiting[n] = {} /\ \A m \in Nodes \ {n} : r.waiting[m] = q.waiting[m]
  BY <1>0, <1>6 DEF Released
<1> QED BY <1>1, <1>3, <1>4, <1>7 DEF Single

(* The node that is executed, and only that one, becomes done. *)
LEMMA DoneFacts ==
  ASSUME TypeInv, stack # << >>, Executed, workflow' = workflow, NEW n \in Nodes
  PROVE  /\ Done(n)' => Done(n) \/ n = item.node
         /\ Done(n) \/ n = item.node => Done(n)'
<1>0. QueueInv /\ Inputs(n)' = Inputs(n) /\ Nothing \notin Source /\ Trigger # Nothing
  BY SameTypes, DataAssumption DEF TypeInv
<1>1. ASSUME NEW k \in Inputs(n)
      PROVE  /\ <<n, k>> \in unfed' <=> <<n, k>> \in unfed \/ (item.node = n /\ item.data[k] = Nothing)
             /\ <<Trigger, n, k>> \in received' <=> <<Trigger, n, k>> \in received \/ (item.node = n /\ item.data[k] = Trigger)
             /\ \A x \in Source : <<x, n, k>> \in received' <=> <<x, n, k>> \in received \/ (item.node = n /\ item.data[k] = x)
  <2>1. <<n, k>> \in unfed' <=> <<n, k>> \in unfed \/ (item.node = n /\ item.data[k] = Nothing)
    BY <1>0, UnfedFacts
  <2>2. \A x : x # Nothing => (<<x, n, k>> \in received' <=> <<x, n, k>> \in received \/ (item.node = n /\ item.data[k] = x))
    BY <1>0, ExecutedFacts
  <2> QED BY <1>0, <2>1, <2>2
<1>2. \A k \in Inputs(n) : item.node = n => item.data[k] \in Source \cup {Nothing, Trigger}
  BY <1>0, RestFacts DEF Datum
<1>3. \A k \in Inputs(n) : Fed(n, k)' <=> Fed(n, k) \/ n = item.node
  BY <1>1, <1>2 DEF Fed
<1> QED BY <1>0, <1>3 DEF Done

LEMMA SingleRun ==
  ASSUME TypeInv, SentInv, ClosedInv, SingleInv, Acyclic, SingleConnections, NEW outputs, RunNode(outputs),
         NEW p, NEW run, NEW adds, NEW at, NEW f, NEW e, Ran(p, run, outputs, adds, at, f, e)
  PROVE  /\ SingleNow'
         /\ \A n \in Nodes : Done(n)' => ~Active(n)'
         /\ \A x \in Source, m \in Nodes, k \in Nat : <<x, m, k>> \in sent' => Done(x[1])'
         /\ \A x \in Source, m \in Nodes : \A k \in Inputs(m) :
              <<x, m, k>> \in sent' => HeldNow(x, m, k)' \/ <<x, m, k>> \in received'
<1>0. /\ WorkflowInv /\ QueueInv /\ waits \in 0 .. MaxWaits /\ stack # << >> /\ Executed /\ workflow' = workflow
      /\ p \in Nodes /\ p = item.node /\ run \in 1 .. MaxRuns
      /\ Chosen(p, outputs, adds, at) /\ Adding(f, Rest, p, run, adds)
      /\ \A j \in 0 .. Len(adds) : QueueOK(f[j])
      /\ stack' = e.stack /\ waiting' = e.waiting /\ names' = e.names
      /\ sent' = sent \cup {<<DataOf(p, run, adds[l]), adds[l].node, adds[l].index>> : l \in 1 .. Len(adds)}
  BY DEF TypeInv, RecordsInv, RunNode, Running, Ran
<1> DEFINE r == f[Len(adds)]
<1>1. Len(adds) \in 0 .. Len(adds) /\ QueueOK(r)
  <2>1. Len(adds) \in 0 .. Len(adds)
    BY <1>0, LenProperties DEF Chosen
  <2> QED BY <1>0, <2>1
<1>2. /\ SingleNow
      /\ \A n \in Nodes : Done(n) => ~Active(n)
      /\ \A x \in Source, m \in Nodes, k \in Nat : <<x, m, k>> \in sent => Done(x[1])
      /\ \A x \in Source, m \in Nodes : \A k \in Inputs(m) :
           <<x, m, k>> \in sent => HeldNow(x, m, k) \/ <<x, m, k>> \in received
  BY DEF SingleInv
<1>3. Single(Rest) /\ ~ActiveIn(Rest, p)
  BY <1>0, <1>2, RestSingle
<1>4. \A j \in 0 .. Len(adds) : j + 1 \in 1 .. Len(adds) => Free(f[j], adds[j + 1].node, adds[j + 1].index)
  BY <1>0, FreeAt
<1>5. /\ Single(r)
      /\ \A x \in Source, m \in Nodes : \A k \in Inputs(m) :
           Held(Rest, x, m, k) \/ (\E l \in 1 .. Len(adds) : Carries(p, run, adds[l], x, m, k)) => Held(r, x, m, k)
  BY <1>0, <1>3, <1>4, AddingSingle
<1>6. e = r \/ \E t \in Nodes : \E i : Released(r, e, t, i)
  BY DEF Ran
<1>7. \A m \in Nodes : ActiveIn(r, m) => ActiveIn(Rest, m) \/ \E l \in 1 .. Len(adds) : m = adds[l].node
  <2> SUFFICES ASSUME NEW m \in Nodes
               PROVE  ActiveIn(r, m) => ActiveIn(Rest, m) \/ \E l \in 1 .. Len(adds) : m = adds[l].node
    OBVIOUS
  <2> QED BY <1>0, <1>1, AddingActive
<1> HIDE DEF r
<1>8. Single(e)
  <2>1. ASSUME NEW t \in Nodes, NEW i, Released(r, e, t, i)
        PROVE  Single(e)
    BY <1>0, <1>1, <1>5, <2>1, ReleasedSingle
  <2> QED BY <1>5, <1>6, <2>1
<1>9. SingleNow'
  BY <1>0, <1>8 DEF SingleNow, Single
<1>10. ASSUME NEW n \in Nodes, Done(n)', Active(n)'
       PROVE  FALSE
  <2>1. ActiveIn(e, n)
    BY <1>0, <1>10 DEF Active, ActiveIn
  <2>2. ActiveIn(r, n)
    <3>1. ASSUME NEW t \in Nodes, NEW i, Released(r, e, t, i)
          PROVE  ActiveIn(r, n)
      BY <1>0, <1>1, <2>1, <3>1, ReleasedActive DEF ActiveIn
    <3> QED BY <1>6, <2>1, <3>1
  <2>3. Done(n) \/ n = p
    BY <1>0, <1>10, DoneFacts
  <2>4. CASE ActiveIn(Rest, n)
    <3>1. Active(n) /\ n # p
      BY <1>0, <1>3, <2>4, RestActive
    <3> QED BY <1>2, <2>3, <3>1
  <2>5. ASSUME NEW l \in 1 .. Len(adds), n = adds[l].node
        PROVE  FALSE
    <3>1. p \in parents[n] /\ ~Done(n)
      BY <1>0, <2>5, Untouched
    <3> QED BY <1>0, <2>3, <3>1 DEF Acyclic
  <2> QED BY <1>7, <2>2, <2>4, <2>5
<1>11. ASSUME NEW x \in Source, NEW m \in Nodes, NEW k \in Nat, <<x, m, k>> \in sent'
       PROVE  Done(x[1])'
  <2>1. x[1] \in Nodes
    BY SourceParts
  <2>2. Done(x[1]) \/ x[1] = p
    <3>1. CASE <<x, m, k>> \in sent
      BY <1>2, <3>1
    <3>2. ASSUME NEW l \in 1 .. Len(adds), <<x, m, k>> = <<DataOf(p, run, adds[l]), adds[l].node, adds[l].index>>
          PROVE  x[1] = p
      <4>1. x = DataOf(p, run, adds[l])
        BY <3>2
      <4> QED BY <4>1 DEF DataOf
    <3> QED BY <1>0, <1>11, <3>1, <3>2
  <2> QED BY <1>0, <2>1, <2>2, DoneFacts
<1>12. ASSUME NEW x \in Source, NEW m \in Nodes, NEW k \in Inputs(m), <<x, m, k>> \in sent'
       PROVE  HeldNow(x, m, k)' \/ <<x, m, k>> \in received'
  <2>1. x # Nothing
    BY DataAssumption
  <2>2. <<x, m, k>> \in received' <=> <<x, m, k>> \in received \/ (item.node = m /\ item.data[k] = x)
    BY <1>0, <2>1, ExecutedFacts
  <2>3. HeldNow(x, m, k) <=> Held(Rest, x, m, k) \/ (item.node = m /\ item.data[k] = x)
    BY <1>0, RestHeld
  <2>4. Held(r, x, m, k) => HeldNow(x, m, k)'
    BY RunHeld DEF r
  <2>5. CASE <<x, m, k>> \in sent
    <3>1. HeldNow(x, m, k) \/ <<x, m, k>> \in received
      BY <1>2, <2>5
    <3>2. Held(Rest, x, m, k) => Held(r, x, m, k)
      BY <1>5
    <3> QED BY <2>2, <2>3, <2>4, <3>1, <3>2
  <2>6. ASSUME NEW l \in 1 .. Len(adds), <<x, m, k>> = <<DataOf(p, run, adds[l]), adds[l].node, adds[l].index>>
        PROVE  HeldNow(x, m, k)'
    <3>1. Carries(p, run, adds[l], x, m, k)
      BY <2>6 DEF Carries
    <3>2. Held(r, x, m, k)
      BY <1>5, <3>1
    <3> QED BY <2>4, <3>2
  <2> QED BY <1>0, <1>12, <2>5, <2>6
<1> QED BY <1>9, <1>10, <1>11, <1>12

LEMMA SingleInit == Init => SingleInv
<1> SUFFICES ASSUME Init
             PROVE  SingleInv
  OBVIOUS
<1>1. unfed = {} /\ received = {} /\ sent = {} /\ Len(stack) = 1 /\ \A n \in Nodes : DOMAIN waiting[n] = {}
  BY DEF Init
<1>2. SingleNow
  <2>1. UniqueOn(stack)
    BY <1>1 DEF UniqueOn
  <2>2. \A n \in Nodes : (\A i, j \in DOMAIN waiting[n] : i = j) /\ DOMAIN waiting[n] = {}
    BY <1>1
  <2> QED BY <2>1, <2>2 DEF SingleNow, Single
<1>3. ASSUME NEW n \in Nodes
      PROVE  ~Done(n)
  <2>1. 0 \in Inputs(n)
    BY TypeInit, InputsFacts DEF TypeInv, WorkflowInv
  <2> QED BY <1>1, <2>1 DEF Done, Fed
<1> QED BY <1>1, <1>2, <1>3 DEF SingleInv

LEMMA SingleQuiet ==
  ASSUME TypeInv, SingleInv, Acyclic, SingleConnections, [Next]_vars, \A outputs \in SUBSET Output : ~RunNode(outputs)
  PROVE  /\ SingleNow'
         /\ \A n \in Nodes : Done(n)' => ~Active(n)'
         /\ \A x \in Source, m \in Nodes, k \in Nat : <<x, m, k>> \in sent' => Done(x[1])'
         /\ \A x \in Source, m \in Nodes : \A k \in Inputs(m) :
              <<x, m, k>> \in sent' => HeldNow(x, m, k)' \/ <<x, m, k>> \in received'
<1>0. /\ QueueInv /\ RecordsInv /\ workflow' = workflow
      /\ sent' = sent /\ waiting' = waiting /\ names' = names
  BY Quiet DEF TypeInv
<1>1. /\ SingleNow
      /\ \A n \in Nodes : Done(n) => ~Active(n)
      /\ \A x \in Source, m \in Nodes, k \in Nat : <<x, m, k>> \in sent => Done(x[1])
      /\ \A x \in Source, m \in Nodes : \A k \in Inputs(m) :
           <<x, m, k>> \in sent => HeldNow(x, m, k) \/ <<x, m, k>> \in received
  BY DEF SingleInv
<1>2. \A n \in Nodes : Inputs(n)' = Inputs(n)
  BY <1>0, SameTypes
<1>3. \A x \in Source : x[1] \in Nodes
  BY SourceParts
<1>4. ASSUME received' = received, unfed' = unfed, NEW n \in Nodes
      PROVE  Done(n)' <=> Done(n)
  BY <1>2, <1>4 DEF Done, Fed
<1>5. CASE stack' = stack /\ received' = received /\ unfed' = unfed
  <2>1. SingleNow' /\ (\A m : Active(m)' <=> Active(m)) /\ \A x, m, k : HeldNow(x, m, k)' <=> HeldNow(x, m, k)
    BY <1>0, <1>1, <1>5 DEF SingleNow, Active, HeldNow
  <2> QED BY <1>0, <1>1, <1>3, <1>4, <1>5, <2>1
<1>6. CASE ReturnNull
  <2>1. stack # << >> /\ stack' = Tail(stack) /\ Executed
    BY <1>6 DEF ReturnNull, Running
  <2>2. Rest.stack = stack' /\ Rest.names = names' /\ Rest.waiting = waiting' /\ item.node \in Nodes
    BY <1>0, <2>1, RestFacts
  <2>3. Single(Rest) /\ ~ActiveIn(Rest, item.node)
    BY <1>0, <1>1, <2>1, RestSingle
  <2>4. SingleNow'
    BY <2>2, <2>3 DEF SingleNow, Single
  <2>5. \A m : Active(m)' <=> ActiveIn(Rest, m)
    BY <2>2 DEF Active, ActiveIn
  <2>6. ASSUME NEW n \in Nodes, Done(n)', Active(n)'
        PROVE  FALSE
    <3>1. Done(n) \/ n = item.node
      BY <1>0, <2>1, <2>6, DoneFacts
    <3>2. ActiveIn(Rest, n)
      BY <2>5, <2>6
    <3>3. Active(n)
      BY <1>0, <2>1, <3>2, RestActive
    <3> QED BY <1>1, <2>3, <3>1, <3>2, <3>3
  <2>7. \A n \in Nodes : Done(n) => Done(n)'
    BY <1>0, <2>1, DoneFacts
  <2>8. ASSUME NEW x \in Source, NEW m \in Nodes, NEW k \in Inputs(m), <<x, m, k>> \in sent'
        PROVE  HeldNow(x, m, k)' \/ <<x, m, k>> \in received'
    <3>1. x # Nothing
      BY DataAssumption
    <3>2. <<x, m, k>> \in received' <=> <<x, m, k>> \in received \/ (item.node = m /\ item.data[k] = x)
      BY <1>0, <2>1, <3>1, ExecutedFacts
    <3>3. HeldNow(x, m, k) <=> Held(Rest, x, m, k) \/ (item.node = m /\ item.data[k] = x)
      BY <1>0, <2>1, RestHeld
    <3>4. Held(Rest, x, m, k) <=> HeldNow(x, m, k)'
      BY <2>2 DEF Held, HeldNow
    <3>5. HeldNow(x, m, k) \/ <<x, m, k>> \in received
      BY <1>0, <1>1, <2>8
    <3> QED BY <3>2, <3>3, <3>4, <3>5
  <2> QED BY <1>0, <1>1, <1>3, <2>4, <2>6, <2>7, <2>8
<1>7. CASE Resume
  <2>1. stack # << >> /\ stack' = DisableNode /\ received' = received /\ unfed' = unfed
    BY <1>0, <1>7 DEF Resume, RecordsInv
  <2>2. /\ DisableNode \in Seq(Item) /\ DOMAIN DisableNode = DOMAIN stack
        /\ \A i \in DOMAIN stack : DisableNode[i].node = stack[i].node /\ DisableNode[i].data = stack[i].data
    BY <1>0, <2>1, DisableFacts
  <2>3. DOMAIN stack = 1 .. Len(stack) /\ DOMAIN DisableNode = 1 .. Len(DisableNode)
    BY <1>0, <2>2, LenProperties DEF QueueInv
  <2>4. 1 .. Len(DisableNode) = 1 .. Len(stack)
    BY <2>2, <2>3
  <2>5. \A x, m, k : OnStack(DisableNode, x, m, k) <=> OnStack(stack, x, m, k)
    BY <2>2, <2>3, <2>4 DEF OnStack, At
  <2>6. \A m : OnNode(DisableNode, m) <=> OnNode(stack, m)
    BY <2>2, <2>3, <2>4 DEF OnNode
  <2>7. UniqueOn(DisableNode) <=> UniqueOn(stack)
    BY <2>2, <2>3, <2>4 DEF UniqueOn
  <2>8. SingleNow'
    BY <1>0, <1>1, <2>1, <2>6, <2>7 DEF SingleNow, Single
  <2>9. (\A m : Active(m)' <=> Active(m)) /\ \A x, m, k : HeldNow(x, m, k)' <=> HeldNow(x, m, k)
    BY <1>0, <2>1, <2>5, <2>6 DEF Active, HeldNow
  <2> QED BY <1>0, <1>1, <1>3, <1>4, <2>1, <2>8, <2>9
<1>8. ReturnNull \/ Resume \/ (stack' = stack /\ received' = received /\ unfed' = unfed)
  BY DEF Next, Step, Finish, Fail, PutToWait, Cancel, vars
<1> QED BY <1>5, <1>6, <1>7, <1>8

LEMMA SingleNext == TypeInv /\ SentInv /\ ClosedInv /\ SingleInv /\ [Next]_vars => SingleInv'
<1> SUFFICES ASSUME TypeInv, SentInv, ClosedInv, SingleInv, [Next]_vars, Acyclic', SingleConnections'
             PROVE  /\ SingleNow'
                    /\ \A n \in Nodes : Done(n)' => ~Active(n)'
                    /\ \A x \in Source, m \in Nodes, k \in Nat : <<x, m, k>> \in sent' => Done(x[1])'
                    /\ \A x \in Source, m \in Nodes : \A k \in Inputs(m)' :
                         <<x, m, k>> \in sent' => HeldNow(x, m, k)' \/ <<x, m, k>> \in received'
  BY DEF SingleInv
<1>1. workflow' = workflow /\ parents' = parents
  BY DEF Next, Step, Finish, ReturnNull, Fail, PutToWait, RunNode, Resume, Cancel, vars
<1>2. Acyclic /\ SingleConnections
  BY <1>1 DEF Acyclic, SingleConnections
<1>3. \A n \in Nodes : Inputs(n)' = Inputs(n)
  BY <1>1, SameTypes
<1>4. ASSUME NEW outputs \in SUBSET Output, RunNode(outputs)
      PROVE  /\ SingleNow'
             /\ \A n \in Nodes : Done(n)' => ~Active(n)'
             /\ \A x \in Source, m \in Nodes, k \in Nat : <<x, m, k>> \in sent' => Done(x[1])'
             /\ \A x \in Source, m \in Nodes : \A k \in Inputs(m) :
                  <<x, m, k>> \in sent' => HeldNow(x, m, k)' \/ <<x, m, k>> \in received'
  <2>1. PICK p, run, adds, at, f, e : Ran(p, run, outputs, adds, at, f, e)
    BY <1>4, RunFacts
  <2> QED BY <1>2, <1>4, <2>1, SingleRun
<1>5. CASE \E outputs \in SUBSET Output : RunNode(outputs)
  BY <1>3, <1>4, <1>5
<1>6. CASE \A outputs \in SUBSET Output : ~RunNode(outputs)
  BY <1>2, <1>3, <1>6, SingleQuiet
<1> QED BY <1>5, <1>6

(* Whatever a node sends to the input of another is executed there once:   *)
(* in a workflow without loops in which an input has one connection, of    *)
(* any size, addNodeToBeExecuted neither overwrites an entry that waits    *)
(* nor starts a second one, and nothing is lost when the execution waits,  *)
(* fails or is cancelled.                                                  *)
THEOREM ConservedTheorem == Spec => []DataConserved
<1>1. ASSUME TypeInv, SentInv, OnceInv, SingleInv
      PROVE  DataConserved
  <2> SUFFICES ASSUME SingleConnections, Acyclic, NEW d \in sent
               PROVE  Cardinality(HeldBy(d)) = 1
    BY DEF DataConserved
  <2>1. PICK x \in Source, m \in Nodes : \E k \in Inputs(m) : d = <<x, m, k>>
    BY <1>1, SentParts
  <2>2. PICK k \in Inputs(m) : d = <<x, m, k>>
    BY <2>1
  <2>3. DistinctConnections
    <3> SUFFICES ASSUME NEW n \in Nodes, NEW i \in DOMAIN workflow[n], NEW j \in DOMAIN workflow[n],
                        workflow[n][i] = workflow[n][j]
                 PROVE  i = j
      BY DEF DistinctConnections, IsInjective
    <3>1. <<n, i>> = <<n, j>>
      BY DEF SingleConnections
    <3> QED BY <3>1
  <2>4. OnceNow(x, m, k) /\ ~(<<x, m, k>> \in received /\ HeldNow(x, m, k))
    BY <1>1, <2>3 DEF OnceInv
  <2>5. HeldNow(x, m, k) \/ <<x, m, k>> \in received
    BY <1>1, <2>2 DEF SingleInv
  <2>6. \A p : p \in HeldBy(d) <=>
          \/ \E i \in 1 .. Len(stack) : At(i, stack, x, m, k) /\ p = <<"stack", i>>
          \/ \E i \in DOMAIN waiting[m] : waiting[m][i][k] = x /\ p = <<"waiting", i>>
          \/ <<x, m, k>> \in received /\ p = <<"received", 0>>
    BY <1>1, <2>2, Places
  <2>7. \E p : p \in HeldBy(d)
    BY <2>5, <2>6 DEF HeldNow, OnStack, InEntries
  <2>8. ASSUME NEW p \in HeldBy(d), NEW r \in HeldBy(d)
        PROVE  p = r
    BY <2>4, <2>6 DEF OnceNow, HeldNow, OnStack, InEntries, OnceOnStack, OnceInEntries
  <2>9. PICK p : HeldBy(d) = {p}
    BY <2>7, <2>8
  <2> QED BY <2>9, FS_Singleton
<1> QED BY <1>1, TypeInit, TypeNext, SentInit, SentNext, RecordedNext, OnceInit, OnceNext,
           ClosedInit, ClosedNext, SingleInit, SingleNext, PTL DEF Spec
=============================================================================
