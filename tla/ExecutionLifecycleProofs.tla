---------------------- MODULE ExecutionLifecycleProofs ----------------------
(***************************************************************************)
(* Proofs about ExecutionLifecycle, for any executions, limit and number   *)
(* of runs, stops and restarts, in four parts: the capacity accounts for   *)
(* every run that holds a slot or waits for one, and nobody waits while a  *)
(* slot is free; an execution is carried out by one run at a time; the     *)
(* entries of ActiveExecutions, whose they are, and whom a cancellation    *)
(* leaves without one; and the limit, which the executions in progress     *)
(* exceed by the number of stopped ones at most.                           *)
(***************************************************************************)
EXTENDS ExecutionLifecycle, FiniteSetTheorems, SequenceTheorems, WellFoundedInduction, TLAPS

-----------------------------------------------------------------------------
(* The capacity                                                            *)

Queued(x) == \E i \in 1 .. Len(queue) : queue[i] = x

SlotsTyped ==
  /\ isEnabled \in BOOLEAN
  /\ capacity \in Int
  /\ queue \in Seq(Run)
  /\ reserved \subseteq Run
  /\ IsFiniteSet(reserved)

(* A run is in the queue once, and not while it holds a slot. *)
Distinct(s) == \A i, j \in 1 .. Len(s) : s[i] = s[j] => i = j
Apart(s, held) == \A i \in 1 .. Len(s) : s[i] \notin held

SlotsInv ==
  /\ SlotsTyped
  /\ Distinct(queue)
  /\ Apart(queue, reserved)
  /\ CapacityAccounts
  /\ WorkConserving

(* What the throttle relies on: a run that has yet to reserve a slot       *)
(* neither holds one nor waits for one.                                    *)
Early == {"idle", "loading", "adding"}

EarlyHoldNothing ==
  \A x \in Run : pc[x] \in Early => x \notin reserved /\ ~Queued(x)

CapacityInv == pc \in [Run -> Control] /\ SlotsInv /\ EarlyHoldNothing

-----------------------------------------------------------------------------
(* The operations of the queue                                             *)

(* The first of an array that is not empty leaves it. *)
LEMMA PopFront ==
  ASSUME NEW s \in Seq(Run), s # << >>, Distinct(s), NEW held, Apart(s, held)
  PROVE  /\ Head(s) \in Run
         /\ Head(s) \notin held
         /\ Head(s) = s[1]
         /\ Len(s) > 0
         /\ Tail(s) \in Seq(Run)
         /\ Len(Tail(s)) = Len(s) - 1
         /\ Distinct(Tail(s))
         /\ Apart(Tail(s), held \cup {Head(s)})
         /\ \A i \in 1 .. Len(Tail(s)) : Tail(s)[i] = s[i + 1]
  <1>1. Len(s) \in Nat /\ Len(s) > 0 /\ Head(s) = s[1]
    BY EmptySeq, LenProperties
  <1>2. /\ Head(s) \in Run
        /\ Tail(s) \in Seq(Run)
        /\ Len(Tail(s)) = Len(s) - 1
        /\ \A i \in 1 .. Len(Tail(s)) : Tail(s)[i] = s[i + 1]
    BY HeadTailProperties
  <1>3. Head(s) \notin held
    BY <1>1 DEF Apart
  <1>4. Distinct(Tail(s))
    BY <1>1, <1>2 DEF Distinct
  <1>5. Apart(Tail(s), held \cup {Head(s)})
    BY <1>1, <1>2 DEF Apart, Distinct
  <1>. QED
    BY <1>1, <1>2, <1>3, <1>4, <1>5

(* reserve: x gets a slot or joins the queue. *)
LEMMA ThrottleKeeps ==
  ASSUME SlotsInv, NEW x \in Run, x \notin reserved, ~Queued(x), Throttle(x)
  PROVE  /\ SlotsInv'
         /\ \A y \in Run : y \in reserved' \/ Queued(y)' => y = x \/ y \in reserved \/ Queued(y)
  <1>. USE LimitAssumption
  <1>t. SlotsTyped
    BY DEF SlotsInv
  <1>c. Cardinality(reserved) \in Nat
    BY <1>t, FS_CardinalityType DEF SlotsTyped
  <1>n. Len(queue) \in Nat
    BY <1>t, LenProperties DEF SlotsTyped
  <1>1. CASE isEnabled /\ capacity - 1 < 0
    <2>1. capacity' = capacity - 1 /\ queue' = Append(queue, x) /\ reserved' = reserved
          /\ isEnabled' = isEnabled
      BY <1>1 DEF Throttle
    <2>2. /\ queue' \in Seq(Run)
          /\ queue' # << >>
          /\ Len(queue') = Len(queue) + 1
          /\ \A i \in 1 .. Len(queue) : queue'[i] = queue[i]
          /\ queue'[Len(queue) + 1] = x
      BY <1>t, <2>1, AppendProperties DEF SlotsTyped
    <2>3. Distinct(queue)' /\ Apart(queue, reserved)'
      <3>1. \A i \in 1 .. Len(queue') : i = Len(queue) + 1 \/ i \in 1 .. Len(queue)
        BY <2>2, <1>n
      <3>2. \A i \in 1 .. Len(queue) : queue[i] # x
        BY DEF Queued
      <3>3. Distinct(queue)'
        BY <2>2, <3>1, <3>2 DEF SlotsInv, Distinct
      <3>4. Apart(queue, reserved)'
        BY <2>1, <2>2, <3>1 DEF SlotsInv, Apart
      <3>. QED
        BY <3>3, <3>4
    <2>4. CapacityAccounts' /\ WorkConserving'
      <3>1. capacity = Limit - Cardinality(reserved) - Len(queue)
        BY <1>1 DEF SlotsInv, CapacityAccounts
      <3>2. Cardinality(reserved) >= Limit
        <4>1. CASE queue = << >>
          BY <4>1, <3>1, <1>1, <1>c, EmptySeq
        <4>2. CASE queue # << >>
          BY <4>2, <1>1 DEF SlotsInv, WorkConserving
        <4>. QED
          BY <4>1, <4>2
      <3>. QED
        BY <2>1, <2>2, <3>1, <3>2, <1>c, <1>n DEF CapacityAccounts, WorkConserving
    <2>5. \A y \in Run : y \in reserved' \/ Queued(y)' => y = x \/ y \in reserved \/ Queued(y)
      BY <2>1, <2>2, <1>n DEF Queued
    <2>6. SlotsTyped'
      BY <1>t, <2>1, <2>2 DEF SlotsTyped
    <2>. QED
      BY <2>3, <2>4, <2>5, <2>6 DEF SlotsInv
  <1>2. CASE ~(isEnabled /\ capacity - 1 < 0)
    <2>1. /\ capacity' = IF isEnabled THEN capacity - 1 ELSE capacity
          /\ queue' = queue /\ reserved' = reserved \cup {x} /\ isEnabled' = isEnabled
      BY <1>2 DEF Throttle
    <2>2. IsFiniteSet(reserved') /\ Cardinality(reserved') = Cardinality(reserved) + 1
      BY <2>1, <1>t, FS_AddElement DEF SlotsTyped
    <2>3. SlotsTyped'
      BY <1>t, <2>1, <2>2 DEF SlotsTyped
    <2>4. Distinct(queue)' /\ Apart(queue, reserved)'
      BY <2>1 DEF SlotsInv, Distinct, Apart, Queued
    <2>5. CapacityAccounts' /\ WorkConserving'
      BY <2>1, <2>2, <1>c, <1>n DEF SlotsInv, CapacityAccounts, WorkConserving
    <2>6. \A y \in Run : y \in reserved' \/ Queued(y)' => y = x \/ y \in reserved \/ Queued(y)
      BY <2>1 DEF Queued
    <2>. QED
      BY <2>3, <2>4, <2>5, <2>6 DEF SlotsInv
  <1>. QED
    BY <1>1, <1>2

(* Whoever holds or awaits a slot after the step did so before it. *)
NobodyNew == \A y \in Run : y \in reserved' \/ Queued(y)' => y \in reserved \/ Queued(y)

(* resolveNext moves one run from the queue to the slots. *)
LEMMA ResolveKeeps ==
  ASSUME NEW held \in SUBSET Run, IsFiniteSet(held),
         NEW rest \in Seq(Run), Distinct(rest), Apart(rest, held),
         ResolveNext(held, rest)
  PROVE  /\ queue' \in Seq(Run) /\ reserved' \subseteq Run /\ IsFiniteSet(reserved')
         /\ Distinct(queue') /\ Apart(queue', reserved')
         /\ Cardinality(reserved') + Len(queue') = Cardinality(held) + Len(rest)
         /\ Cardinality(reserved') >= Cardinality(held)
         /\ queue' # << >> => Cardinality(reserved') = Cardinality(held) + 1
         /\ \A y \in reserved' : y \in held \/ \E i \in 1 .. Len(rest) : rest[i] = y
         /\ \A j \in 1 .. Len(queue') : \E i \in 1 .. Len(rest) : rest[i] = queue'[j]
  <1>c. Cardinality(held) \in Nat /\ Len(rest) \in Nat
    BY FS_CardinalityType, LenProperties
  <1>1. CASE rest = << >>
    BY <1>1, <1>c DEF ResolveNext
  <1>2. CASE rest # << >>
    <2>1. queue' = Tail(rest) /\ reserved' = held \cup {Head(rest)}
      BY <1>2 DEF ResolveNext
    <2>2. /\ Head(rest) \in Run
          /\ Head(rest) \notin held
          /\ Head(rest) = rest[1]
          /\ Len(rest) > 0
          /\ Tail(rest) \in Seq(Run)
          /\ Len(Tail(rest)) = Len(rest) - 1
          /\ Distinct(Tail(rest))
          /\ Apart(Tail(rest), held \cup {Head(rest)})
          /\ \A i \in 1 .. Len(Tail(rest)) : Tail(rest)[i] = rest[i + 1]
      BY <1>2, PopFront
    <2>3. /\ IsFiniteSet(held \cup {Head(rest)})
          /\ Cardinality(held \cup {Head(rest)}) = Cardinality(held) + 1
      BY <2>2, FS_AddElement
    <2>4. \A j \in 1 .. Len(queue') : \E i \in 1 .. Len(rest) : rest[i] = queue'[j]
      <3>. SUFFICES ASSUME NEW j \in 1 .. Len(queue')
                    PROVE  \E i \in 1 .. Len(rest) : rest[i] = queue'[j]
        OBVIOUS
      <3>1. j + 1 \in 1 .. Len(rest) /\ rest[j + 1] = queue'[j]
        BY <2>1, <2>2, <1>c
      <3>. QED
        BY <3>1
    <2>5. \A y \in reserved' : y \in held \/ \E i \in 1 .. Len(rest) : rest[i] = y
      <3>1. 1 \in 1 .. Len(rest)
        BY <2>2, <1>c
      <3>. QED
        BY <2>1, <2>2, <3>1
    <2>. QED
      BY <2>1, <2>2, <2>3, <2>4, <2>5, <1>c
  <1>. QED
    BY <1>1, <1>2

(* release: x returns its slot, if it has one, and the next gets it. *)
LEMMA ReleaseKeeps ==
  ASSUME SlotsInv, NEW x \in Run, Release(x)
  PROVE  SlotsInv' /\ NobodyNew
  <1>. USE LimitAssumption
  <1>t. SlotsTyped
    BY DEF SlotsInv
  <1>c. Cardinality(reserved) \in Nat /\ Len(queue) \in Nat
    BY <1>t, FS_CardinalityType, LenProperties DEF SlotsTyped
  <1>d. /\ reserved \ {x} \in SUBSET Run
        /\ IsFiniteSet(reserved \ {x})
        /\ Apart(queue, reserved \ {x})
        /\ x \in reserved => Cardinality(reserved \ {x}) = Cardinality(reserved) - 1
    BY <1>t, FS_RemoveElement DEF SlotsTyped, SlotsInv, Apart
  <1>1. CASE isEnabled /\ x \in reserved
    <2>1. capacity' = capacity + 1 /\ isEnabled' = isEnabled
          /\ ResolveNext(reserved \ {x}, queue)
      BY <1>1 DEF Release
    <2>2. /\ queue' \in Seq(Run) /\ reserved' \subseteq Run /\ IsFiniteSet(reserved')
          /\ Distinct(queue') /\ Apart(queue', reserved')
          /\ Cardinality(reserved') + Len(queue') = Cardinality(reserved \ {x}) + Len(queue)
          /\ queue' # << >> => Cardinality(reserved') = Cardinality(reserved \ {x}) + 1
          /\ \A y \in reserved' : y \in reserved \ {x} \/ \E i \in 1 .. Len(queue) : queue[i] = y
          /\ \A j \in 1 .. Len(queue') : \E i \in 1 .. Len(queue) : queue[i] = queue'[j]
      BY <1>t, <1>d, <2>1, ResolveKeeps DEF SlotsTyped, SlotsInv
    <2>3. Cardinality(reserved') \in Nat /\ Len(queue') \in Nat
      BY <2>2, FS_CardinalityType, LenProperties
    <2>4. SlotsTyped'
      BY <1>t, <2>1, <2>2 DEF SlotsTyped
    <2>5. CapacityAccounts'
      <3>1. capacity = Limit - Cardinality(reserved) - Len(queue)
        BY <1>1 DEF SlotsInv, CapacityAccounts
      <3>2. Cardinality(reserved') + Len(queue') = Cardinality(reserved) - 1 + Len(queue)
        BY <1>1, <1>d, <2>2
      <3>. QED
        BY <3>1, <3>2, <1>c, <2>1, <2>3, SMTT(40) DEF CapacityAccounts
    <2>6. WorkConserving'
      <3>1. queue' # << >> => queue # << >>
        BY <2>2, <2>3, EmptySeq
      <3>. QED
        BY <3>1, <1>1, <1>c, <1>d, <2>1, <2>2, <2>3 DEF WorkConserving, SlotsInv
    <2>7. NobodyNew
      <3>1. \A y \in reserved' : y \in reserved \/ Queued(y)
        BY <2>2 DEF Queued
      <3>2. \A y \in Run : Queued(y)' => Queued(y)
        BY <2>2 DEF Queued
      <3>. QED
        BY <3>1, <3>2 DEF NobodyNew
    <2>. QED
      BY <2>2, <2>4, <2>5, <2>6, <2>7 DEF SlotsInv
  <1>2. CASE ~(isEnabled /\ x \in reserved)
    <2>1. reserved' = reserved \ {x} /\ UNCHANGED <<isEnabled, capacity, queue>>
      BY <1>2 DEF Release
    <2>2. isEnabled => reserved' = reserved
      BY <1>2, <2>1
    <2>3. SlotsTyped' /\ Distinct(queue)' /\ Apart(queue, reserved)'
      BY <1>t, <1>d, <2>1 DEF SlotsTyped, SlotsInv
    <2>4. CapacityAccounts' /\ WorkConserving'
      BY <2>1, <2>2 DEF SlotsInv, CapacityAccounts, WorkConserving
    <2>5. NobodyNew
      BY <2>1 DEF NobodyNew, Queued
    <2>. QED
      BY <2>3, <2>4, <2>5 DEF SlotsInv
  <1>. QED
    BY <1>1, <1>2

(* A set of positions that is not empty has a first one. *)
LEMMA FirstPosition ==
  ASSUME NEW T \in SUBSET Nat, T # {}
  PROVE  \E i \in T : \A j \in T : ~(j < i)
  <1>1. \E i \in T : \A j \in T : <<j, i>> \notin OpToRel(<, Nat)
    BY NatLessThanWellFounded, WFMin
  <1>. QED
    BY <1>1 DEF OpToRel

(* The array without its first entry for e loses one entry and no more. *)
LEMMA WithoutFirstProperties ==
  ASSUME SlotsInv, NEW e \in Executions, IsQueued(e)
  PROVE  /\ queue # << >>
         /\ WithoutFirst(e) \in Seq(Run)
         /\ Len(WithoutFirst(e)) = Len(queue) - 1
         /\ Distinct(WithoutFirst(e))
         /\ Apart(WithoutFirst(e), reserved)
         /\ \A j \in 1 .. Len(WithoutFirst(e)) :
              \E i \in 1 .. Len(queue) : queue[i] = WithoutFirst(e)[j]
  <1>. DEFINE T == {i \in DOMAIN queue : Execution(queue[i]) = e}
              P(i) == /\ Execution(queue[i]) = e
                      /\ \A j \in 1 .. i - 1 : Execution(queue[j]) # e
              k == CHOOSE i \in DOMAIN queue : P(i)
              front == SubSeq(queue, 1, k - 1)
              back  == SubSeq(queue, k + 1, Len(queue))
  <1>1. queue \in Seq(Run) /\ Len(queue) \in Nat /\ DOMAIN queue = 1 .. Len(queue)
    BY LenProperties DEF SlotsInv, SlotsTyped
  <1>2. T \in SUBSET Nat /\ T # {}
    BY <1>1 DEF IsQueued
  <1>3. \E i \in T : \A j \in T : ~(j < i)
    BY <1>2, FirstPosition
  <1>4. \E i \in DOMAIN queue : P(i)
    BY <1>1, <1>3
  <1>5. k \in 1 .. Len(queue)
    BY <1>1, <1>4
  <1>6. \A i \in 1 .. Len(queue) : queue[i] \in Run
    BY <1>1
  <1>. HIDE DEF k
  <1>7. /\ front \in Seq(Run)
        /\ Len(front) = k - 1
        /\ \A i \in 1 .. k - 1 : front[i] = queue[i]
    <2>1. /\ SubSeq(queue, 1, k - 1) \in Seq(Run)
          /\ Len(SubSeq(queue, 1, k - 1)) = IF 1 <= k - 1 THEN (k - 1) - 1 + 1 ELSE 0
          /\ \A i \in 1 .. (k - 1) - 1 + 1 : SubSeq(queue, 1, k - 1)[i] = queue[1 + i - 1]
      <3>1. k - 1 \in Int /\ \A i \in 1 .. k - 1 : queue[i] \in Run
        BY <1>1, <1>5, <1>6
      <3>. QED
        BY <3>1, SubSeqProperties
    <2>. QED
      BY <1>1, <1>5, <2>1
  <1>8. /\ back \in Seq(Run)
        /\ Len(back) = Len(queue) - k
        /\ \A i \in 1 .. Len(queue) - k : back[i] = queue[k + i]
    <2>1. /\ SubSeq(queue, k + 1, Len(queue)) \in Seq(Run)
          /\ Len(SubSeq(queue, k + 1, Len(queue))) =
               IF k + 1 <= Len(queue) THEN Len(queue) - (k + 1) + 1 ELSE 0
          /\ \A i \in 1 .. Len(queue) - (k + 1) + 1 :
               SubSeq(queue, k + 1, Len(queue))[i] = queue[(k + 1) + i - 1]
      <3>1. k + 1 \in Int /\ Len(queue) \in Int /\ \A i \in k + 1 .. Len(queue) : queue[i] \in Run
        BY <1>1, <1>5, <1>6
      <3>. QED
        BY <3>1, SubSeqProperties
    <2>. QED
      BY <1>1, <1>5, <2>1
  <1>9. WithoutFirst(e) = front \o back
    BY DEF WithoutFirst, k
  <1>. HIDE DEF front, back
  <1>10. /\ WithoutFirst(e) \in Seq(Run)
         /\ Len(WithoutFirst(e)) = Len(queue) - 1
         /\ \A i \in 1 .. Len(queue) - 1 :
              WithoutFirst(e)[i] = IF i < k THEN queue[i] ELSE queue[i + 1]
    <2>1. /\ front \o back \in Seq(Run)
          /\ Len(front \o back) = Len(front) + Len(back)
          /\ \A i \in 1 .. Len(front) + Len(back) : (front \o back)[i] =
               IF i <= Len(front) THEN front[i] ELSE back[i - Len(front)]
      BY <1>7, <1>8, ConcatProperties
    <2>2. Len(front) + Len(back) = Len(queue) - 1
      BY <1>1, <1>5, <1>7, <1>8
    <2>3. ASSUME NEW i \in 1 .. Len(queue) - 1
          PROVE  (front \o back)[i] = IF i < k THEN queue[i] ELSE queue[i + 1]
      <3>1. CASE i < k
        BY <3>1, <2>1, <2>2, <1>1, <1>5, <1>7
      <3>2. CASE ~(i < k)
        <4>1. i - (k - 1) \in 1 .. Len(queue) - k /\ k + (i - (k - 1)) = i + 1
          BY <3>2, <1>1, <1>5
        <4>2. ~(i <= k - 1)
          BY <3>2, <1>1, <1>5
        <4>3. (front \o back)[i] = back[i - (k - 1)]
          BY <4>2, <2>1, <2>2, <1>7
        <4>4. back[i - (k - 1)] = queue[k + (i - (k - 1))]
          BY <4>1, <1>8
        <4>. QED
          BY <4>1, <4>3, <4>4, <3>2
      <3>. QED
        BY <3>1, <3>2
    <2>. QED
      BY <2>1, <2>2, <2>3, <1>9
  <1>. HIDE DEF T, P
  <1>11. Distinct(WithoutFirst(e))
    BY <1>1, <1>5, <1>10 DEF SlotsInv, Distinct
  <1>12. \A j \in 1 .. Len(WithoutFirst(e)) :
           \E i \in 1 .. Len(queue) : queue[i] = WithoutFirst(e)[j]
    <2>. SUFFICES ASSUME NEW j \in 1 .. Len(WithoutFirst(e))
                  PROVE  \E i \in 1 .. Len(queue) : queue[i] = WithoutFirst(e)[j]
      OBVIOUS
    <2>1. j \in 1 .. Len(queue) /\ j + 1 \in 1 .. Len(queue)
      BY <1>1, <1>10
    <2>. QED
      BY <2>1, <1>1, <1>10
  <1>13. Apart(WithoutFirst(e), reserved)
    BY <1>12 DEF SlotsInv, Apart
  <1>14. queue # << >>
    BY <1>1, <1>5, EmptySeq
  <1>. QED
    BY <1>10, <1>11, <1>12, <1>13, <1>14

(* remove, of an execution that is queued *)
LEMMA RemoveKeeps ==
  ASSUME SlotsInv, NEW e \in Executions, IsQueued(e), RemoveQueued(e)
  PROVE  SlotsInv' /\ NobodyNew
  <1>. USE LimitAssumption
  <1>. DEFINE rest == WithoutFirst(e)
  <1>t. SlotsTyped
    BY DEF SlotsInv
  <1>c. Cardinality(reserved) \in Nat /\ Len(queue) \in Nat
    BY <1>t, FS_CardinalityType, LenProperties DEF SlotsTyped
  <1>1. /\ queue # << >>
        /\ rest \in Seq(Run)
        /\ Len(rest) = Len(queue) - 1
        /\ Distinct(rest)
        /\ Apart(rest, reserved)
        /\ \A j \in 1 .. Len(rest) : \E i \in 1 .. Len(queue) : queue[i] = rest[j]
    BY WithoutFirstProperties
  <1>2. /\ isEnabled /\ isEnabled' = isEnabled
        /\ capacity' = capacity + 1
        /\ ResolveNext(reserved, rest)
    BY DEF RemoveQueued, IsQueued
  <1>. HIDE DEF rest
  <1>3. /\ queue' \in Seq(Run) /\ reserved' \subseteq Run /\ IsFiniteSet(reserved')
        /\ Distinct(queue') /\ Apart(queue', reserved')
        /\ Cardinality(reserved') + Len(queue') = Cardinality(reserved) + Len(rest)
        /\ Cardinality(reserved') >= Cardinality(reserved)
        /\ \A y \in reserved' : y \in reserved \/ \E i \in 1 .. Len(rest) : rest[i] = y
        /\ \A j \in 1 .. Len(queue') : \E i \in 1 .. Len(rest) : rest[i] = queue'[j]
    BY <1>t, <1>1, <1>2, ResolveKeeps DEF SlotsTyped
  <1>4. Cardinality(reserved') \in Nat /\ Len(queue') \in Nat
    BY <1>3, FS_CardinalityType, LenProperties
  <1>5. SlotsTyped'
    BY <1>t, <1>2, <1>3 DEF SlotsTyped
  <1>6. CapacityAccounts' /\ WorkConserving'
    <2>1. capacity = Limit - Cardinality(reserved) - Len(queue) /\ Cardinality(reserved) >= Limit
      BY <1>1, <1>2 DEF SlotsInv, CapacityAccounts, WorkConserving
    <2>2. Cardinality(reserved') + Len(queue') = Cardinality(reserved) + Len(queue) - 1
      BY <1>1, <1>3, <1>c
    <2>. DEFINE r == Cardinality(reserved)
                l == Len(queue)
                r2 == Cardinality(reserved')
                l2 == Len(queue')
    <2>a. /\ r \in Nat /\ l \in Nat /\ r2 \in Nat /\ l2 \in Nat
          /\ capacity' = (Limit - r - l) + 1
          /\ r2 + l2 = r + l - 1
      BY <2>1, <2>2, <1>2, <1>c, <1>4
    <2>b. capacity' = Limit - r2 - l2
      <3>. HIDE DEF r, l, r2, l2
      <3>. QED
        BY <2>a, SMTT(30)
    <2>3. CapacityAccounts'
      BY <2>b DEF CapacityAccounts
    <2>4. WorkConserving'
      BY <2>1, <1>3, <1>c, <1>4 DEF WorkConserving
    <2>. QED
      BY <2>3, <2>4
  <1>7. NobodyNew
    <2>1. \A i \in 1 .. Len(rest) : Queued(rest[i])
      BY <1>1 DEF Queued
    <2>2. \A y \in reserved' : y \in reserved \/ Queued(y)
      BY <1>3, <2>1
    <2>3. \A y \in Run : Queued(y)' => \E j \in 1 .. Len(queue') : queue'[j] = y
      BY DEF Queued
    <2>4. \A y \in Run : Queued(y)' => Queued(y)
      BY <1>3, <2>1, <2>3
    <2>. QED
      BY <2>2, <2>4 DEF NobodyNew
  <1>. QED
    BY <1>3, <1>5, <1>6, <1>7 DEF SlotsInv

-----------------------------------------------------------------------------
(* The steps of the system                                                 *)

(* A step that leaves the queue alone and moves no run back before its     *)
(* reservation *)
LEMMA QueueUntouched ==
  ASSUME CapacityInv, UNCHANGED queueVars, pc' \in [Run -> Control],
         \A x \in Run : pc'[x] \in Early => pc[x] \in Early
  PROVE  CapacityInv'
  <1>1. SlotsInv'
    BY DEF CapacityInv, SlotsInv, SlotsTyped, Distinct, Apart, CapacityAccounts, WorkConserving,
           queueVars
  <1>2. EarlyHoldNothing'
    BY DEF CapacityInv, EarlyHoldNothing, Queued, queueVars
  <1>. QED
    BY <1>1, <1>2 DEF CapacityInv

LEMMA QueueUntouchedByMove ==
  ASSUME CapacityInv, UNCHANGED queueVars, NEW x \in Run, NEW l \in Control, Goto(x, l),
         l \in Early => pc[x] \in Early
  PROVE  CapacityInv'
  <1>1. pc' \in [Run -> Control] /\ \A y \in Run : pc'[y] \in Early => pc[y] \in Early
    BY DEF CapacityInv, Goto
  <1>. QED
    BY <1>1, QueueUntouched

(* A step that serves the queue and lets nobody new in *)
LEMMA QueueServed ==
  ASSUME CapacityInv, SlotsInv', NobodyNew, pc' \in [Run -> Control],
         \A x \in Run : pc'[x] \in Early => pc[x] \in Early
  PROVE  CapacityInv'
  BY DEF CapacityInv, EarlyHoldNothing, NobodyNew

(* SettleEntry is a release, or leaves the queue alone. *)
LEMMA SettleKeeps ==
  ASSUME CapacityInv, NEW y \in Run, SettleEntry(y)
  PROVE  SlotsInv' /\ NobodyNew
  <1>1. CASE y \in settled
    BY <1>1 DEF SettleEntry, CapacityInv, SlotsInv, SlotsTyped, Distinct, Apart, CapacityAccounts,
                WorkConserving, queueVars, NobodyNew, Queued
  <1>2. CASE y \notin settled
    BY <1>2, ReleaseKeeps DEF SettleEntry, CapacityInv
  <1>. QED
    BY <1>1, <1>2

(* An entry of ActiveExecutions belongs to a run. *)
ActiveTyped == active \in [Executions -> Run \cup {NoRun}]

LEMMA ActiveStep == ActiveTyped /\ [Next]_vars => ActiveTyped'
  <1>. SUFFICES ASSUME ActiveTyped, [Next]_vars
                PROVE  ActiveTyped'
    OBVIOUS
  <1>0. ASSUME UNCHANGED active
        PROVE  ActiveTyped'
    BY <1>0 DEF ActiveTyped
  <1>1. ASSUME NEW y \in Run, SettleEntry(y)
        PROVE  ActiveTyped'
    BY <1>1 DEF SettleEntry, ActiveTyped
  <1>2. ASSUME NEW e \in Executions, StopExecution(e)
        PROVE  ActiveTyped'
    <2>1. CASE active[e] = NoRun
      BY <2>1, <1>0, <1>2 DEF StopExecution, entryVars
    <2>2. CASE active[e] # NoRun /\ entryStatus[active[e]] = "waiting"
      BY <2>2, <1>2 DEF StopExecution, ActiveTyped
    <2>3. CASE active[e] # NoRun /\ entryStatus[active[e]] = "running" /\ SettleEntry(active[e])
      BY <2>3, <1>1 DEF ActiveTyped
    <2>. QED
      BY <1>2, <2>1, <2>2, <2>3 DEF StopExecution
  <1>3. ASSUME NEW x \in Run, RunStep(x)
        PROVE  ActiveTyped'
    <2>1. CASE Register(x)
      BY <2>1 DEF Register, ActiveTyped
    <2>2. CASE Finalize(x) \/ StartThrows(x)
      <3>1. active[Execution(x)] \in Run \cup {NoRun} /\ SettleFound(Execution(x))
        BY <2>2 DEF ActiveTyped, Run, Execution, Finalize, StartThrows
      <3>2. CASE active[Execution(x)] = NoRun
        BY <3>1, <3>2, <1>0 DEF SettleFound
      <3>3. CASE active[Execution(x)] # NoRun
        BY <3>1, <3>3, <1>1 DEF SettleFound
      <3>. QED
        BY <3>2, <3>3
    <2>3. CASE Create(x) \/ Reserve(x) \/ MarkRunning(x) \/ AddFails(x) \/ PreflightFails(x)
               \/ ResponseFails(x) \/ RunFails(x) \/ SetRunning(x) \/ StartWorkflow(x) \/ PutToWait(x)
               \/ WorkflowEnds(x) \/ Save(x) \/ SaveFails(x) \/ CancelSave(x) \/ CancelSaveFails(x)
      BY <2>3, <1>0 DEF Create, Reserve, MarkRunning, AddFails, PreflightFails, ResponseFails,
         RunFails, SetRunning, StartWorkflow, PutToWait, WorkflowEnds, Save, SaveFails, CancelSave,
         CancelSaveFails, entryVars
    <2>. QED
      BY <1>3, <2>1, <2>2, <2>3 DEF RunStep
  <1>4. ASSUME NEW x \in Run, ExecutionTimeout(x)
        PROVE  ActiveTyped'
    <2>1. Execution(x) \in Executions
      BY DEF Run, Execution
    <2>. QED
      BY <1>4, <2>1, <1>2 DEF ExecutionTimeout
  <1>5. ASSUME NEW x \in Run, TimerFires(x) \/ Load(x) \/ WebhookResumes(x) \/ RunEnqueued(x)
        PROVE  ActiveTyped'
    BY <1>5, <1>0 DEF TimerFires, Load, WebhookResumes, RunEnqueued, entryVars
  <1>6. ASSUME NEW e \in Executions, StopInRegularMode(e)
        PROVE  ActiveTyped'
    BY <1>6, <1>0, <1>2 DEF StopInRegularMode, entryVars
  <1>7. ASSUME NEW e \in Executions, Poll(e) \/ Track(e) \/ StopRequest(e) \/ StopWrites(e) \/ StopFails(e)
        PROVE  ActiveTyped'
    BY <1>7, <1>0 DEF Poll, Track, StopRequest, StopWrites, StopFails, entryVars
  <1>8. CASE StopTracking \/ UNCHANGED vars
    BY <1>8, <1>0 DEF StopTracking, vars, entryVars
  <1>9. CASE Shutdown \/ Restart
    BY <1>9 DEF Shutdown, Restart, ActiveTyped
  <1>. QED
    BY <1>3, <1>4, <1>5, <1>6, <1>7, <1>8, <1>9 DEF Next

(* finalizeExecution settles the entry it finds, or leaves the queue alone. *)
LEMMA FoundKeeps ==
  ASSUME CapacityInv, ActiveTyped, NEW e \in Executions, SettleFound(e)
  PROVE  SlotsInv' /\ NobodyNew
  <1>1. CASE active[e] = NoRun
    BY <1>1 DEF SettleFound, CapacityInv, SlotsInv, SlotsTyped, Distinct, Apart, CapacityAccounts,
                WorkConserving, queueVars, NobodyNew, Queued
  <1>2. CASE active[e] # NoRun
    BY <1>2, SettleKeeps DEF SettleFound, ActiveTyped
  <1>. QED
    BY <1>1, <1>2

(* stopExecution settles the entry it finds, or leaves the queue alone. *)
LEMMA StopKeeps ==
  ASSUME CapacityInv, ActiveTyped, NEW e \in Executions, StopExecution(e)
  PROVE  SlotsInv' /\ NobodyNew
  <1>1. ASSUME UNCHANGED queueVars
        PROVE  SlotsInv' /\ NobodyNew
    BY <1>1 DEF CapacityInv, SlotsInv, SlotsTyped, Distinct, Apart, CapacityAccounts,
                WorkConserving, queueVars, NobodyNew, Queued
  <1>2. CASE active[e] = NoRun \/ entryStatus[active[e]] = "waiting"
    BY <1>1, <1>2 DEF StopExecution
  <1>3. CASE active[e] # NoRun /\ entryStatus[active[e]] # "waiting"
    BY <1>3, SettleKeeps DEF StopExecution, ActiveTyped
  <1>. QED
    BY <1>2, <1>3

LEMMA CapacityRunStep ==
  ASSUME CapacityInv, ActiveTyped, NEW x \in Run, RunStep(x)
  PROVE  CapacityInv'
  <1>l. /\ \A l \in Control : Goto(x, l) => pc' \in [Run -> Control]
        /\ \A l \in Control \ Early : Goto(x, l) => \A y \in Run : pc'[y] \in Early => pc[y] \in Early
    BY DEF Goto, CapacityInv
  <1>1. CASE Create(x)
    BY <1>1, QueueUntouchedByMove DEF Create, Early, Control
  <1>2. CASE Reserve(x)
    <2>1. Throttle(x) /\ Goto(x, "reserving") /\ pc[x] = "adding"
      BY <1>2 DEF Reserve
    <2>2. x \notin reserved /\ ~Queued(x)
      BY <2>1 DEF CapacityInv, EarlyHoldNothing, Early
    <2>3. /\ SlotsInv'
          /\ \A y \in Run : y \in reserved' \/ Queued(y)' => y = x \/ y \in reserved \/ Queued(y)
      BY <2>1, <2>2, ThrottleKeeps DEF CapacityInv
    <2>4. pc' \in [Run -> Control]
      BY <2>1, <1>l DEF Control
    <2>5. \A y \in Run : pc'[y] \in Early => y # x /\ pc[y] \in Early
      BY <2>1 DEF Goto, CapacityInv, Early
    <2>. QED
      BY <2>3, <2>4, <2>5 DEF CapacityInv, EarlyHoldNothing
  <1>3. CASE AddFails(x)
    <2>1. Release(x) /\ (Goto(x, "refused") \/ Goto(x, "failed"))
      BY <1>3 DEF AddFails
    <2>2. SlotsInv' /\ NobodyNew
      BY <2>1, ReleaseKeeps DEF CapacityInv
    <2>3. {"refused", "failed"} \subseteq Control \ Early
      BY DEF Control, Early
    <2>. QED
      BY <2>1, <2>2, <2>3, <1>l, QueueServed
  <1>4. CASE Finalize(x) \/ StartThrows(x)
    <2>1. (Goto(x, "over") \/ Goto(x, "closing")) /\ {"over", "closing"} \subseteq Control \ Early
      BY <1>4 DEF Finalize, StartThrows, Control, Early
    <2>2. SettleFound(Execution(x)) /\ Execution(x) \in Executions
      BY <1>4 DEF Finalize, StartThrows, Run, Execution
    <2>3. SlotsInv' /\ NobodyNew
      BY <2>2, FoundKeeps
    <2>. QED
      BY <2>1, <2>3, <1>l, QueueServed
  <1>5. CASE CancelSave(x) \/ CancelSaveFails(x)
    BY <1>5, QueueUntouched DEF CancelSave, CancelSaveFails, CapacityInv
  <1>6. CASE MarkRunning(x) \/ Register(x) \/ PreflightFails(x) \/ ResponseFails(x) \/ RunFails(x)
             \/ SetRunning(x) \/ StartWorkflow(x) \/ PutToWait(x) \/ WorkflowEnds(x) \/ Save(x)
             \/ SaveFails(x)
    <2>1. /\ UNCHANGED queueVars
          /\ \E l \in {"marked", "registered", "saving", "over", "starting", "executing",
                       "putToWait", "saved", "closing"} : Goto(x, l)
      BY <1>6 DEF MarkRunning, Register, PreflightFails, ResponseFails, RunFails, SetRunning,
         StartWorkflow, PutToWait, WorkflowEnds, Save, SaveFails
    <2>. QED
      BY <2>1, QueueUntouchedByMove DEF Control, Pending, Early
  <1>. QED
    BY <1>1, <1>2, <1>3, <1>4, <1>5, <1>6 DEF RunStep

LEMMA CapacityNext == CapacityInv /\ ActiveTyped /\ [Next]_vars => CapacityInv'
  <1>. SUFFICES ASSUME CapacityInv, ActiveTyped, [Next]_vars
                PROVE  CapacityInv'
    OBVIOUS
  <1>0. ASSUME UNCHANGED queueVars, UNCHANGED pc
        PROVE  CapacityInv'
    BY <1>0, QueueUntouched DEF CapacityInv
  <1>1. ASSUME NEW x \in Run, RunStep(x)
        PROVE  CapacityInv'
    BY <1>1, CapacityRunStep
  <1>2. ASSUME NEW x \in Run, ExecutionTimeout(x)
        PROVE  CapacityInv'
    <2>1. Execution(x) \in Executions /\ StopExecution(Execution(x)) /\ UNCHANGED pc
      BY <1>2 DEF Run, Execution, ExecutionTimeout
    <2>2. SlotsInv' /\ NobodyNew
      BY <2>1, StopKeeps
    <2>. QED
      BY <2>1, <2>2, QueueServed DEF CapacityInv
  <1>3. ASSUME NEW x \in Run, TimerFires(x) \/ Load(x) \/ WebhookResumes(x) \/ RunEnqueued(x)
        PROVE  CapacityInv'
    <2>1. UNCHANGED queueVars /\ pc[x] \in Early
          /\ \E l \in {"loading", "adding", "failed"} : Goto(x, l)
      BY <1>3 DEF TimerFires, Load, WebhookResumes, RunEnqueued, Fresh, Early
    <2>. QED
      BY <2>1, QueueUntouchedByMove DEF Control
  <1>4. ASSUME NEW e \in Executions, StopInRegularMode(e)
        PROVE  CapacityInv'
    <2>1. UNCHANGED pc
      BY <1>4 DEF StopInRegularMode
    <2>2. SlotsInv' /\ NobodyNew
      <3>1. CASE IsQueued(e)
        BY <3>1, <1>4, RemoveKeeps DEF StopInRegularMode, CapacityInv
      <3>2. CASE ~IsQueued(e)
        BY <3>2, <1>4, StopKeeps DEF StopInRegularMode
      <3>. QED
        BY <3>1, <3>2
    <2>. QED
      BY <2>1, <2>2, QueueServed DEF CapacityInv
  <1>5. ASSUME NEW e \in Executions, Poll(e) \/ Track(e) \/ StopRequest(e) \/ StopWrites(e) \/ StopFails(e)
        PROVE  CapacityInv'
    BY <1>5, <1>0 DEF Poll, Track, StopRequest, StopWrites, StopFails
  <1>6. CASE StopTracking \/ UNCHANGED vars
    BY <1>6, <1>0 DEF StopTracking, vars
  <1>7. CASE Shutdown
    BY <1>7 DEF Shutdown, Disable, CapacityInv, SlotsInv, SlotsTyped, Distinct, Apart,
       CapacityAccounts, WorkConserving, EarlyHoldNothing, Queued
  <1>8. CASE Restart
    <2>1. isEnabled' = TRUE /\ capacity' = Limit /\ queue' = << >> /\ reserved' = {}
      BY <1>8 DEF Restart, QueueReset
    <2>2. pc' \in [Run -> Control]
      BY <1>8 DEF Restart, CapacityInv, Control
    <2>3. Len(queue') = 0 /\ Cardinality(reserved') = 0 /\ IsFiniteSet(reserved')
      BY <2>1, FS_EmptySet
    <2>. QED
      BY <2>1, <2>2, <2>3, LimitAssumption DEF CapacityInv, SlotsInv, SlotsTyped, Distinct, Apart,
         CapacityAccounts, WorkConserving, EarlyHoldNothing, Queued
  <1>. QED
    BY <1>1, <1>2, <1>3, <1>4, <1>5, <1>6, <1>7, <1>8 DEF Next

LEMMA CapacityInit == Init => CapacityInv /\ ActiveTyped
  <1>. SUFFICES ASSUME Init
                PROVE  CapacityInv /\ ActiveTyped
    OBVIOUS
  <1>1. /\ isEnabled = TRUE /\ capacity = Limit /\ queue = << >> /\ reserved = {}
        /\ pc \in [Run -> Control]
    BY DEF Init, QueueInit, Control
  <1>2. Len(queue) = 0 /\ Cardinality(reserved) = 0 /\ IsFiniteSet(reserved)
    BY <1>1, FS_EmptySet
  <1>3. CapacityInv
    BY <1>1, <1>2, LimitAssumption DEF CapacityInv, SlotsInv, SlotsTyped, Distinct, Apart,
       CapacityAccounts, WorkConserving, EarlyHoldNothing, Queued
  <1>4. ActiveTyped
    BY DEF Init, ActiveTyped
  <1>. QED
    BY <1>3, <1>4

(* Every slot is accounted for: after any sequence of reservations,        *)
(* releases, removals of queued executions, shutdowns and restarts the     *)
(* capacity of ConcurrencyQueue is the limit less the runs that hold a     *)
(* slot and those that wait for one.                                       *)
THEOREM CapacityAccountsTheorem == Spec => []CapacityAccounts
  <1>1. CapacityInv => CapacityAccounts
    BY DEF CapacityInv, SlotsInv
  <1>. QED
    BY <1>1, CapacityInit, CapacityNext, ActiveStep, PTL DEF Spec

(* No wakeup is lost: ConcurrencyQueue never holds an execution back while *)
(* fewer runs than the limit hold a slot.                                  *)
THEOREM WorkConservingTheorem == Spec => []WorkConserving
  <1>1. CapacityInv => WorkConserving
    BY DEF CapacityInv, SlotsInv
  <1>. QED
    BY <1>1, CapacityInit, CapacityNext, ActiveStep, PTL DEF Spec

-----------------------------------------------------------------------------
(* An execution is carried out by one run at a time                        *)

Unmarked == {"idle", "loading", "adding", "reserving"}

(* What the conditional update of add relies on: the row of an execution   *)
(* that a run carries out does not say "waiting", nor does that of an      *)
(* execution whose first run has yet to mark it; and until then no other   *)
(* run carries it out.                                                     *)
WaitingIsIdle ==
  \A x \in Run : row[Execution(x)] = "waiting" => pc[x] \notin Unfinished

FirstIsAlone ==
  \A x, y \in Run : /\ IsNew(x)
                    /\ pc[x] \in Unmarked
                    /\ Execution(x) = Execution(y)
                    => row[Execution(x)] # "waiting" /\ pc[y] \notin Unfinished

RowPcOK == row \in [Executions -> RowStatus] /\ pc \in [Run -> Control]
              /\ outcome \in [Run -> {"waiting", "canceled"} \cup Ended]

OneRunInv == RowPcOK /\ WaitingIsIdle /\ FirstIsAlone /\ OneRunAtATime

USE DEF Execution, IsNew

(* The execution of a run is an execution. *)
LEMMA RunExecution == \A x \in Run : Execution(x) \in Executions
  BY DEF Run

(* A step by which no run enters Unfinished or Unmarked, and no row        *)
(* becomes "waiting", keeps the invariant.                                 *)
LEMMA OneRunQuiet ==
  ASSUME OneRunInv, RowPcOK',
         \A y \in Run : /\ pc'[y] \in Unfinished => pc[y] \in Unfinished
                        /\ pc'[y] \in Unmarked => pc[y] \in Unmarked,
         \A e \in Executions : row'[e] = "waiting" => row[e] = "waiting"
  PROVE  OneRunInv'
  <1>1. WaitingIsIdle'
    BY RunExecution DEF OneRunInv, WaitingIsIdle
  <1>2. FirstIsAlone'
    BY RunExecution DEF OneRunInv, FirstIsAlone
  <1>3. OneRunAtATime'
    BY DEF OneRunInv, OneRunAtATime
  <1>. QED
    BY <1>1, <1>2, <1>3 DEF OneRunInv

(* The case of a step that moves one run *)
LEMMA OneRunMoves ==
  ASSUME OneRunInv, NEW x \in Run, NEW l \in Control,
         Goto(x, l),
         l \in Unfinished => pc[x] \in Unfinished,
         l \in Unmarked => pc[x] \in Unmarked,
         row' \in [Executions -> RowStatus],
         \A e \in Executions : row'[e] = "waiting" => row[e] = "waiting",
         outcome' \in [Run -> {"waiting", "canceled"} \cup Ended]
  PROVE  OneRunInv'
  <1>1. RowPcOK'
    BY DEF Goto, OneRunInv, RowPcOK
  <1>2. \A y \in Run : /\ pc'[y] \in Unfinished => pc[y] \in Unfinished
                       /\ pc'[y] \in Unmarked => pc[y] \in Unmarked
    BY DEF Goto, OneRunInv, RowPcOK
  <1>. QED
    BY <1>1, <1>2, OneRunQuiet

(* The case of a step that moves no run *)
LEMMA OneRunStays ==
  ASSUME OneRunInv, UNCHANGED <<pc, outcome>>,
         row' \in [Executions -> RowStatus],
         \A e \in Executions : row'[e] = "waiting" => row[e] = "waiting"
  PROVE  OneRunInv'
  <1>1. RowPcOK'
    BY DEF OneRunInv, RowPcOK
  <1>. QED
    BY <1>1, OneRunQuiet

LEMMA OneRunStutters == OneRunInv /\ UNCHANGED <<row, pc, outcome>> => OneRunInv'
  BY DEF OneRunInv, RowPcOK, WaitingIsIdle, FirstIsAlone, OneRunAtATime

LEMMA OneRunMarks ==
  ASSUME OneRunInv, NEW x \in Run, MarkRunning(x)
  PROVE  OneRunInv'
  <1>1. RowPcOK'
    BY RunExecution DEF MarkRunning, Write, Goto, OneRunInv, RowPcOK, RowStatus, Control, Pending
  <1>2. \A y \in Run : Execution(y) = Execution(x) => pc[y] \notin Unfinished
    BY DEF MarkRunning, OneRunInv, WaitingIsIdle, FirstIsAlone, Unmarked
  <1>3. /\ row' = [row EXCEPT ![Execution(x)] = "running"]
        /\ pc' = [pc EXCEPT ![x] = "marked"]
        /\ pc[x] = "reserving"
    BY DEF MarkRunning, Write, Goto
  <1>4. /\ \A y \in Run : y # x => pc'[y] = pc[y]
        /\ \A e \in Executions : row'[e] = "waiting" => row[e] = "waiting" /\ e # Execution(x)
        /\ pc'[x] = "marked"
    BY <1>3, RunExecution DEF OneRunInv, RowPcOK
  <1>5. WaitingIsIdle'
    BY <1>4, RunExecution DEF OneRunInv, WaitingIsIdle
  <1>6. \A y \in Run : Execution(y) = Execution(x) /\ IsNew(y) => pc'[y] \notin Unmarked
    <2>. SUFFICES ASSUME NEW y \in Run, Execution(y) = Execution(x), IsNew(y), pc'[y] \in Unmarked
                  PROVE  FALSE
      OBVIOUS
    <2>1. y # x
      BY <1>4 DEF Unmarked
    <2>2. ~IsNew(x)
      BY <2>1 DEF Run
    <2>3. row[Execution(x)] = "waiting"
      BY <2>2 DEF MarkRunning
    <2>. QED
      BY <2>1, <2>3, <1>4 DEF OneRunInv, FirstIsAlone
  <1>7. FirstIsAlone'
    BY <1>4, <1>6, RunExecution DEF OneRunInv, FirstIsAlone
  <1>8. OneRunAtATime'
    BY <1>2, <1>4 DEF OneRunInv, OneRunAtATime
  <1>. QED
    BY <1>1, <1>5, <1>7, <1>8 DEF OneRunInv

LEMMA OneRunSaves ==
  ASSUME OneRunInv, NEW x \in Run, Save(x)
  PROVE  OneRunInv'
  <1>1. RowPcOK'
    BY RunExecution DEF Save, Write, Goto, OneRunInv, RowPcOK, RowStatus, Control, Pending, Ended
  <1>2. /\ pc[x] \in Unfinished
        /\ pc'[x] \notin Unfinished /\ pc'[x] \notin Unmarked
        /\ \A y \in Run : y # x => pc'[y] = pc[y]
        /\ \A e \in Executions : e # Execution(x) => row'[e] = row[e]
    BY RunExecution DEF Save, Write, Goto, OneRunInv, RowPcOK, Unfinished, InProgress, Unmarked
  <1>3. \A y \in Run : Execution(y) = Execution(x) => pc'[y] \notin Unfinished
    BY <1>2 DEF OneRunInv, OneRunAtATime
  <1>4. \A y \in Run : Execution(y) = Execution(x) /\ IsNew(y) => pc'[y] \notin Unmarked
    BY <1>2 DEF OneRunInv, FirstIsAlone
  <1>5. WaitingIsIdle'
    BY <1>2, <1>3, RunExecution DEF OneRunInv, WaitingIsIdle
  <1>6. FirstIsAlone'
    BY <1>2, <1>3, <1>4, RunExecution DEF OneRunInv, FirstIsAlone
  <1>7. OneRunAtATime'
    BY <1>2 DEF OneRunInv, OneRunAtATime
  <1>. QED
    BY <1>1, <1>5, <1>6, <1>7 DEF OneRunInv


LEMMA OneRunStep ==
  ASSUME OneRunInv, NEW x \in Run, RunStep(x)
  PROVE  OneRunInv'
  <1>. USE DEF OneRunInv, RowPcOK, RowStatus, Control, Pending, Ended, InProgress, Unfinished, Unmarked,
               Write, WriteFails, rowVars, runVars
  <1>0. Execution(x) \in Executions
    BY RunExecution
  <1>1. CASE Create(x)
    <2>1. Goto(x, "adding")
      BY <1>1 DEF Create
    <2>2. /\ row' \in [Executions -> RowStatus]
          /\ \A e \in Executions : row'[e] = "waiting" => row[e] = "waiting"
          /\ outcome' \in [Run -> {"waiting", "canceled"} \cup Ended]
      BY <1>0, <1>1 DEF Create
    <2>3. "adding" \in Control /\ ("adding" \in Unfinished => pc[x] \in Unfinished)
          /\ ("adding" \in Unmarked => pc[x] \in Unmarked)
      BY <1>1 DEF Create
    <2>. QED
      BY <2>1, <2>2, <2>3, OneRunMoves
  <1>2. CASE Reserve(x)
    <2>1. Goto(x, "reserving")
      BY <1>2 DEF Reserve
    <2>2. /\ row' \in [Executions -> RowStatus]
          /\ \A e \in Executions : row'[e] = "waiting" => row[e] = "waiting"
          /\ outcome' \in [Run -> {"waiting", "canceled"} \cup Ended]
      BY <1>0, <1>2 DEF Reserve
    <2>3. "reserving" \in Control /\ ("reserving" \in Unfinished => pc[x] \in Unfinished)
          /\ ("reserving" \in Unmarked => pc[x] \in Unmarked)
      BY <1>2 DEF Reserve
    <2>. QED
      BY <2>1, <2>2, <2>3, OneRunMoves
  <1>3. CASE Register(x)
    <2>1. Goto(x, "registered")
      BY <1>3 DEF Register
    <2>2. /\ row' \in [Executions -> RowStatus]
          /\ \A e \in Executions : row'[e] = "waiting" => row[e] = "waiting"
          /\ outcome' \in [Run -> {"waiting", "canceled"} \cup Ended]
      BY <1>0, <1>3 DEF Register
    <2>3. "registered" \in Control /\ ("registered" \in Unfinished => pc[x] \in Unfinished)
          /\ ("registered" \in Unmarked => pc[x] \in Unmarked)
      BY <1>3 DEF Register
    <2>. QED
      BY <2>1, <2>2, <2>3, OneRunMoves
  <1>4. CASE SetRunning(x)
    <2>1. Goto(x, "starting")
      BY <1>4 DEF SetRunning
    <2>2. /\ row' \in [Executions -> RowStatus]
          /\ \A e \in Executions : row'[e] = "waiting" => row[e] = "waiting"
          /\ outcome' \in [Run -> {"waiting", "canceled"} \cup Ended]
      BY <1>0, <1>4 DEF SetRunning
    <2>3. "starting" \in Control /\ ("starting" \in Unfinished => pc[x] \in Unfinished)
          /\ ("starting" \in Unmarked => pc[x] \in Unmarked)
      BY <1>4 DEF SetRunning
    <2>. QED
      BY <2>1, <2>2, <2>3, OneRunMoves
  <1>5. CASE StartWorkflow(x)
    <2>1. Goto(x, "executing")
      BY <1>5 DEF StartWorkflow
    <2>2. /\ row' \in [Executions -> RowStatus]
          /\ \A e \in Executions : row'[e] = "waiting" => row[e] = "waiting"
          /\ outcome' \in [Run -> {"waiting", "canceled"} \cup Ended]
      BY <1>0, <1>5 DEF StartWorkflow
    <2>3. "executing" \in Control /\ ("executing" \in Unfinished => pc[x] \in Unfinished)
          /\ ("executing" \in Unmarked => pc[x] \in Unmarked)
      BY <1>5 DEF StartWorkflow
    <2>. QED
      BY <2>1, <2>2, <2>3, OneRunMoves
  <1>6. CASE PutToWait(x)
    <2>1. Goto(x, "putToWait")
      BY <1>6 DEF PutToWait
    <2>2. /\ row' \in [Executions -> RowStatus]
          /\ \A e \in Executions : row'[e] = "waiting" => row[e] = "waiting"
          /\ outcome' \in [Run -> {"waiting", "canceled"} \cup Ended]
      BY <1>0, <1>6 DEF PutToWait
    <2>3. "putToWait" \in Control /\ ("putToWait" \in Unfinished => pc[x] \in Unfinished)
          /\ ("putToWait" \in Unmarked => pc[x] \in Unmarked)
      BY <1>6 DEF PutToWait
    <2>. QED
      BY <2>1, <2>2, <2>3, OneRunMoves
  <1>7. CASE Finalize(x)
    <2>1. Goto(x, "over")
      BY <1>7 DEF Finalize
    <2>2. /\ row' \in [Executions -> RowStatus]
          /\ \A e \in Executions : row'[e] = "waiting" => row[e] = "waiting"
          /\ outcome' \in [Run -> {"waiting", "canceled"} \cup Ended]
      BY <1>0, <1>7 DEF Finalize
    <2>3. "over" \in Control /\ ("over" \in Unfinished => pc[x] \in Unfinished)
          /\ ("over" \in Unmarked => pc[x] \in Unmarked)
      BY <1>7 DEF Finalize
    <2>. QED
      BY <2>1, <2>2, <2>3, OneRunMoves
  <1>8. CASE ResponseFails(x)
    <2>1. Goto(x, "over")
      BY <1>8 DEF ResponseFails
    <2>2. /\ row' \in [Executions -> RowStatus]
          /\ \A e \in Executions : row'[e] = "waiting" => row[e] = "waiting"
          /\ outcome' \in [Run -> {"waiting", "canceled"} \cup Ended]
      BY <1>0, <1>8 DEF ResponseFails
    <2>3. "over" \in Control /\ ("over" \in Unfinished => pc[x] \in Unfinished)
          /\ ("over" \in Unmarked => pc[x] \in Unmarked)
      BY <1>8 DEF ResponseFails
    <2>. QED
      BY <2>1, <2>2, <2>3, OneRunMoves
  <1>9. CASE PreflightFails(x)
    <2>1. Goto(x, "saving")
      BY <1>9 DEF PreflightFails
    <2>2. /\ row' \in [Executions -> RowStatus]
          /\ \A e \in Executions : row'[e] = "waiting" => row[e] = "waiting"
          /\ outcome' \in [Run -> {"waiting", "canceled"} \cup Ended]
      BY <1>0, <1>9 DEF PreflightFails
    <2>3. "saving" \in Control /\ ("saving" \in Unfinished => pc[x] \in Unfinished)
          /\ ("saving" \in Unmarked => pc[x] \in Unmarked)
      BY <1>9 DEF PreflightFails
    <2>. QED
      BY <2>1, <2>2, <2>3, OneRunMoves
  <1>10. CASE AddFails(x)
    <2>1. Goto(x, "refused") \/ Goto(x, "failed")
      BY <1>10 DEF AddFails
    <2>2. UNCHANGED <<row, outcome>>
      BY <1>10 DEF AddFails
    <2>. QED
      BY <2>1, <2>2, OneRunMoves
  <1>11. CASE WorkflowEnds(x)
    <2>1. Goto(x, "saving") \/ Goto(x, "closing") \/ Goto(x, "saved")
      BY <1>11 DEF WorkflowEnds
    <2>2. UNCHANGED row /\ outcome' \in [Run -> {"waiting", "canceled"} \cup Ended]
      BY <1>11 DEF WorkflowEnds, Outcomes
    <2>3. pc[x] \in Unfinished
      BY <1>11 DEF WorkflowEnds
    <2>. QED
      BY <2>1, <2>2, <2>3, OneRunMoves
  <1>12. CASE CancelSave(x) \/ CancelSaveFails(x)
    BY <1>0, <1>12, OneRunStays DEF CancelSave, CancelSaveFails
  <1>13. CASE RunFails(x) \/ SaveFails(x)
    <2>1. Goto(x, "over") \/ Goto(x, "saved")
      BY <1>13 DEF RunFails, SaveFails
    <2>2. UNCHANGED row /\ outcome' \in [Run -> {"waiting", "canceled"} \cup Ended]
      BY <1>13 DEF RunFails, SaveFails
    <2>. QED
      BY <2>1, <2>2, OneRunMoves
  <1>14. CASE StartThrows(x)
    <2>1. Goto(x, "closing") /\ pc[x] \in Unfinished
      BY <1>14 DEF StartThrows
    <2>2. UNCHANGED row /\ outcome' \in [Run -> {"waiting", "canceled"} \cup Ended]
      BY <1>14 DEF StartThrows
    <2>. QED
      BY <2>1, <2>2, OneRunMoves
  <1>. QED
    BY <1>1, <1>2, <1>3, <1>4, <1>5, <1>6, <1>7, <1>8, <1>9, <1>10, <1>11, <1>12, <1>13, <1>14,
       OneRunMarks, OneRunSaves DEF RunStep

(* Every step of the system keeps the invariant. *)
LEMMA OneRunNext == OneRunInv /\ [Next]_vars => OneRunInv'
  <1>. SUFFICES ASSUME OneRunInv, [Next]_vars PROVE OneRunInv'
    OBVIOUS
  <1>1. CASE UNCHANGED vars
    BY <1>1, OneRunStutters DEF vars, rowVars, runVars
  <1>2. ASSUME NEW x \in Run, RunStep(x) PROVE OneRunInv'
    BY <1>2, OneRunStep
  <1>3. ASSUME NEW x \in Run, TimerFires(x) \/ Load(x) \/ WebhookResumes(x) \/ RunEnqueued(x)
        PROVE  OneRunInv'
    <2>1. Goto(x, "loading") \/ Goto(x, "adding") \/ Goto(x, "failed")
      BY <1>3 DEF TimerFires, Load, WebhookResumes, RunEnqueued
    <2>2. UNCHANGED <<row, outcome>>
      BY <1>3 DEF TimerFires, Load, WebhookResumes, RunEnqueued, rowVars, runVars
    <2>3. pc[x] \in Unmarked
      BY <1>3 DEF TimerFires, Load, WebhookResumes, RunEnqueued, Fresh, Unmarked
    <2>4. {"loading", "adding", "failed"} \subseteq Control \ Unfinished
      BY DEF Control, Unfinished, InProgress
    <2>. QED
      BY <2>1, <2>2, <2>3, <2>4, OneRunMoves DEF OneRunInv, RowPcOK
  <1>4. ASSUME NEW x \in Run, ExecutionTimeout(x) PROVE OneRunInv'
    BY <1>4, OneRunStutters DEF ExecutionTimeout, rowVars
  <1>5. ASSUME NEW e \in Executions, Poll(e) \/ Track(e) \/ StopRequest(e) \/ StopInRegularMode(e)
        PROVE  OneRunInv'
    BY <1>5, OneRunStutters DEF Poll, Track, StopRequest, StopInRegularMode, rowVars, runVars
  <1>6. ASSUME NEW e \in Executions, StopWrites(e) \/ StopFails(e) PROVE OneRunInv'
    BY <1>6, OneRunStays DEF StopWrites, StopFails, Write, WriteFails, OneRunInv, RowPcOK, RowStatus
  <1>7. CASE StopTracking \/ Shutdown
    BY <1>7, OneRunStutters DEF StopTracking, Shutdown, rowVars, runVars
  <1>8. CASE Restart
    <2>1. RowPcOK'
      BY <1>8 DEF Restart, OneRunInv, RowPcOK, rowVars, Control, Ended
    <2>2. \A y \in Run : /\ pc'[y] \in Unfinished => pc[y] \in Unfinished
                         /\ pc'[y] \in Unmarked => pc[y] \in Unmarked
      BY <1>8 DEF Restart, OneRunInv, RowPcOK, Unfinished, InProgress, Unmarked
    <2>3. UNCHANGED row
      BY <1>8 DEF Restart, rowVars
    <2>. QED
      BY <2>1, <2>2, <2>3, OneRunQuiet
  <1>. QED
    BY <1>1, <1>2, <1>3, <1>4, <1>5, <1>6, <1>7, <1>8 DEF Next

LEMMA OneRunInit == Init => OneRunInv
  <1>. SUFFICES ASSUME Init PROVE OneRunInv
    OBVIOUS
  <1>1. RowPcOK
    BY DEF Init, RowPcOK, RowStatus, Control, Ended
  <1>2. (\A x \in Run : pc[x] \notin Unfinished) /\ \A e \in Executions : row[e] # "waiting"
    BY DEF Init, Unfinished, InProgress
  <1>. QED
    BY <1>1, <1>2, RunExecution DEF OneRunInv, WaitingIsIdle, FirstIsAlone, OneRunAtATime

(* The conditional update of add is enough: whatever timers, webhooks,     *)
(* stops and restarts do, no two runs carry out an execution at a time.    *)
THEOREM OneRunTheorem == Spec => []OneRunAtATime
  <1>1. OneRunInv => OneRunAtATime
    BY DEF OneRunInv
  <1>. QED
    BY <1>1, OneRunInit, OneRunNext, PTL DEF Spec

-----------------------------------------------------------------------------
(* Type correctness                                                        *)

(* The types that the other invariants do not give *)
RestTyped ==
  /\ waits \in [Executions -> Nat]
  /\ data \in [Run -> Nat]
  /\ cancelled \subseteq Run
  /\ cancelSaves \subseteq Run
  /\ unwritten \subseteq Executions
  /\ entryStatus \in [Run -> {"running", "waiting"}]
  /\ attached \subseteq Run
  /\ settled \subseteq Run
  /\ polled \subseteq Executions
  /\ tracking \in BOOLEAN
  /\ tracked \subseteq Executions
  /\ armed \subseteq Executions
  /\ stopping \in [Executions -> {"no", "read", "write", "done"}]
  /\ enqueued \subseteq Executions
  /\ restarts \in 0 .. MaxRestarts

(* What stopExecution and the settling of an entry change of these *)
LEMMA StopTyped ==
  ASSUME RestTyped, ActiveTyped, NEW e \in Executions, StopExecution(e)
  PROVE  /\ cancelled' \subseteq Run
         /\ cancelSaves' \subseteq Run
         /\ entryStatus' = entryStatus
         /\ attached' \subseteq Run
         /\ settled' \subseteq Run
  <1>1. CASE active[e] = NoRun
    BY <1>1 DEF StopExecution, RestTyped, entryVars
  <1>2. CASE active[e] # NoRun /\ entryStatus[active[e]] = "waiting"
    BY <1>2 DEF StopExecution, RestTyped
  <1>3. CASE active[e] # NoRun /\ entryStatus[active[e]] = "running"
    BY <1>3 DEF StopExecution, SettleEntry, RestTyped, ActiveTyped
  <1>. QED
    BY <1>1, <1>2, <1>3 DEF StopExecution

LEMMA RestTypedNext == RestTyped /\ ActiveTyped /\ [Next]_vars => RestTyped'
  <1>. SUFFICES ASSUME RestTyped, ActiveTyped, [Next]_vars PROVE RestTyped'
    OBVIOUS
  <1>. USE DEF envVars, trackVars
  <1>0. ASSUME NEW e \in Executions, NEW v, Write(e, v) \/ WriteFails(e) PROVE unwritten' \subseteq Executions
    BY <1>0 DEF Write, WriteFails, RestTyped
  <1>1. ASSUME NEW x \in Run,
               Reserve(x) \/ AddFails(x) \/ Register(x) \/ PreflightFails(x) \/ ResponseFails(x)
               \/ WorkflowEnds(x)
        PROVE  RestTyped'
    BY <1>1 DEF Reserve, AddFails, Register, PreflightFails, ResponseFails, WorkflowEnds, RestTyped,
       rowVars, runVars, entryVars
  <1>2. ASSUME NEW x \in Run, StartWorkflow(x) PROVE RestTyped'
    BY <1>2 DEF StartWorkflow, RestTyped, rowVars, runVars
  <1>3. ASSUME NEW x \in Run, PutToWait(x) PROVE RestTyped'
    BY <1>3 DEF PutToWait, RestTyped, rowVars, runVars
  <1>4. ASSUME NEW x \in Run, Save(x) PROVE RestTyped'
    <2>1. waits' \in [Executions -> Nat]
      BY <1>4, RunExecution DEF Save, RestTyped
    <2>2. unwritten' \subseteq Executions
      BY <1>0, <1>4, RunExecution DEF Save
    <2>. QED
      BY <1>4, <2>1, <2>2 DEF Save, RestTyped, entryVars
  <1>5. ASSUME NEW x \in Run,
               Create(x) \/ MarkRunning(x) \/ SetRunning(x) \/ RunFails(x) \/ SaveFails(x) \/ CancelSave(x)
               \/ CancelSaveFails(x)
        PROVE  RestTyped'
    <2>1. unwritten' \subseteq Executions
      BY <1>0, <1>5, RunExecution DEF Create, MarkRunning, SetRunning, RunFails, SaveFails, CancelSave,
         CancelSaveFails
    <2>. QED
      BY <1>5, <2>1 DEF Create, MarkRunning, SetRunning, RunFails, SaveFails, CancelSave, CancelSaveFails,
         RestTyped, entryVars
  <1>6. ASSUME NEW x \in Run, Finalize(x) \/ StartThrows(x) PROVE RestTyped'
    <2>1. active[Execution(x)] \in Run \cup {NoRun} /\ SettleFound(Execution(x))
      BY <1>6, RunExecution DEF ActiveTyped, Finalize, StartThrows
    <2>2. attached' \subseteq Run /\ settled' \subseteq Run
      BY <2>1 DEF SettleFound, SettleEntry, RestTyped
    <2>. QED
      BY <1>6, <2>2 DEF Finalize, StartThrows, RestTyped, rowVars
  <1>7. ASSUME NEW x \in Run, ExecutionTimeout(x) PROVE RestTyped'
    <2>1. StopExecution(Execution(x)) /\ Execution(x) \in Executions
      BY <1>7, RunExecution DEF ExecutionTimeout
    <2>. QED
      BY <1>7, <2>1, StopTyped DEF ExecutionTimeout, RestTyped, rowVars
  <1>8. ASSUME NEW x \in Run, TimerFires(x) \/ Load(x) \/ WebhookResumes(x) \/ RunEnqueued(x)
        PROVE  RestTyped'
    <2>1. Execution(x) \in Executions
      BY RunExecution
    <2>. QED
      BY <1>8, <2>1 DEF TimerFires, Load, WebhookResumes, RunEnqueued, RestTyped, rowVars, runVars,
         entryVars
  <1>9. ASSUME NEW e \in Executions, StopInRegularMode(e) PROVE RestTyped'
    <2>1. /\ cancelled' \subseteq Run
          /\ cancelSaves' \subseteq Run
          /\ entryStatus' = entryStatus
          /\ attached' \subseteq Run
          /\ settled' \subseteq Run
      BY <1>9, StopTyped DEF StopInRegularMode, RestTyped, entryVars
    <2>. QED
      BY <1>9, <2>1 DEF StopInRegularMode, RestTyped, rowVars
  <1>10. ASSUME NEW e \in Executions,
                Poll(e) \/ Track(e) \/ StopRequest(e) \/ StopWrites(e) \/ StopFails(e)
         PROVE  RestTyped'
    BY <1>10 DEF Poll, Track, StopRequest, StopWrites, StopFails, Write, WriteFails, RestTyped, rowVars,
       runVars, entryVars
  <1>11. CASE StopTracking \/ Shutdown \/ UNCHANGED vars
    BY <1>11 DEF StopTracking, Shutdown, vars, RestTyped, rowVars, runVars, entryVars
  <1>12. CASE Restart
    BY <1>12, RestartsAssumption DEF Restart, RestTyped, rowVars
  <1>. QED
    BY <1>1, <1>2, <1>3, <1>4, <1>5, <1>6, <1>7, <1>8, <1>9, <1>10, <1>11, <1>12 DEF Next, RunStep

(* Every state of the execution lifecycle is well typed. *)
THEOREM ExecutionTypeCorrect == Spec => []TypeOK
  <1>1. Init => RestTyped
    BY RestartsAssumption DEF Init, RestTyped
  <1>2. OneRunInv /\ CapacityInv /\ ActiveTyped /\ RestTyped => TypeOK
    BY DEF OneRunInv, RowPcOK, CapacityInv, SlotsInv, SlotsTyped, ActiveTyped, RestTyped, TypeOK,
       QueueTypeOK
  <1>. QED
    BY <1>1, <1>2, OneRunInit, OneRunNext, CapacityInit, CapacityNext, ActiveStep, RestTypedNext, PTL
       DEF Spec

-----------------------------------------------------------------------------
(* Shutdown holds the queue                                                *)

LEMMA DisabledSettles ==
  ASSUME ~isEnabled, NEW y, SettleEntry(y)
  PROVE  queue' = queue
  BY DEF SettleEntry, Release, queueVars

LEMMA DisabledFinds ==
  ASSUME ~isEnabled, NEW e, SettleFound(e)
  PROVE  queue' = queue
  BY DisabledSettles DEF SettleFound, queueVars

LEMMA DisabledStops ==
  ASSUME ~isEnabled, NEW e, StopExecution(e)
  PROVE  queue' = queue
  BY DisabledSettles DEF StopExecution, queueVars

LEMMA DisabledNext ==
  ASSUME [Next]_vars, ~isEnabled, ~isEnabled'
  PROVE  queue' = queue
  <1>. USE DEF queueVars
  <1>1. ASSUME NEW x \in Run, Reserve(x) PROVE queue' = queue
    BY <1>1 DEF Reserve, Throttle
  <1>2. ASSUME NEW x \in Run, AddFails(x) PROVE queue' = queue
    BY <1>2 DEF AddFails, Release
  <1>3. ASSUME NEW x \in Run, Finalize(x) \/ StartThrows(x) PROVE queue' = queue
    BY <1>3, DisabledFinds DEF Finalize, StartThrows
  <1>4. ASSUME NEW x \in Run, ExecutionTimeout(x) PROVE queue' = queue
    BY <1>4, DisabledStops DEF ExecutionTimeout
  <1>5. ASSUME NEW x \in Run,
               Create(x) \/ MarkRunning(x) \/ Register(x) \/ PreflightFails(x) \/ ResponseFails(x)
               \/ RunFails(x) \/ SetRunning(x) \/ StartWorkflow(x) \/ PutToWait(x) \/ WorkflowEnds(x)
               \/ Save(x) \/ SaveFails(x) \/ CancelSave(x) \/ CancelSaveFails(x) \/ TimerFires(x)
               \/ Load(x) \/ WebhookResumes(x) \/ RunEnqueued(x)
        PROVE  queue' = queue
    BY <1>5 DEF Create, MarkRunning, Register, PreflightFails, ResponseFails, RunFails, SetRunning,
       StartWorkflow, PutToWait, WorkflowEnds, Save, SaveFails, CancelSave, CancelSaveFails, TimerFires,
       Load, WebhookResumes, RunEnqueued
  <1>6. ASSUME NEW e \in Executions, StopInRegularMode(e) PROVE queue' = queue
    <2>1. ~IsQueued(e)
      BY DEF IsQueued
    <2>. QED
      BY <1>6, <2>1, DisabledStops DEF StopInRegularMode
  <1>7. ASSUME NEW e \in Executions, Poll(e) \/ Track(e) \/ StopRequest(e) \/ StopWrites(e) \/ StopFails(e)
        PROVE  queue' = queue
    BY <1>7 DEF Poll, Track, StopRequest, StopWrites, StopFails
  <1>8. CASE StopTracking \/ Shutdown \/ UNCHANGED vars
    BY <1>8 DEF StopTracking, Shutdown, Disable, vars
  <1>9. CASE Restart
    BY <1>9 DEF Restart, QueueReset
  <1>. QED
    BY <1>1, <1>2, <1>3, <1>4, <1>5, <1>6, <1>7, <1>8, <1>9 DEF Next, RunStep

(* Between the shutdown and the end of the process no execution leaves the *)
(* queue of ConcurrencyQueue, whatever is released, stopped or finalized   *)
(* meanwhile, and none joins it.                                           *)
THEOREM ShutdownTheorem == Spec => ShutdownHoldsQueue
  <1>1. [Next]_vars => [~isEnabled /\ ~isEnabled' => queue' = queue]_vars
    BY DisabledNext
  <1>. QED
    BY <1>1, PTL DEF Spec, ShutdownHoldsQueue

USE DEF queueVars, rowVars, runVars, entryVars, trackVars, envVars

HIDE DEF Execution, IsNew

-----------------------------------------------------------------------------
(* The entries                                                             *)

Under == InProgress \ {"marked"}

(* x is about to save its execution as waiting. *)
Waits(x) == pc[x] = "putToWait" \/ (pc[x] = "saving" /\ outcome[x] = "waiting")

(* An entry belongs to the run that carries its execution out, or to one   *)
(* that has saved it, has put it to wait or could not go on.               *)
EntryOf(e) ==
  \A y \in Run : active[e] = y =>
    /\ Execution(y) = e
    /\ pc[y] \in Under \cup {"saved", "over"}
    /\ row[e] = "waiting" => entryStatus[y] = "waiting"
    /\ \A x \in Run : Execution(x) = e =>
         /\ pc[x] \in Under => x = y
         /\ pc[x] = "marked" => entryStatus[y] = "waiting"
         /\ IsNew(x) => pc[x] \notin Unmarked

(* The status in the entry of a run that waits *)
StatusOf(e) ==
  \A x \in Run : Execution(x) = e =>
    /\ x \in settled => entryStatus[x] = "waiting"
    /\ Waits(x) /\ active[e] = x => entryStatus[x] = "waiting"
    /\ entryStatus[x] = "waiting" => pc[x] \in {"putToWait", "saving", "saved", "over"}

(* A workflow that puts its execution to wait is awaited, and so one that  *)
(* ends with nobody awaiting it does not save it as waiting.               *)
AwaitOf(e) ==
  \A x \in Run : Execution(x) = e =>
    /\ pc[x] = "executing" /\ active[e] = x => Awaited(x)
    /\ pc[x] = "putToWait" => Awaited(x)
    /\ pc[x] = "closing" => outcome[x] # "waiting"

(* A cancelled run has lost its entry, is the last to carry its execution  *)
(* out, is awaited, and does not save it as waiting.                       *)
CancelOf(e) ==
  \A w \in cancelled : Execution(w) = e =>
    /\ active[e] = NoRun
    /\ row[e] # "waiting"
    /\ pc[w] \in Pending
    /\ ~Waits(w)
    /\ Awaited(w)
    /\ \A x \in Run : Execution(x) = e => /\ x # w => pc[x] \notin InProgress
                                          /\ IsNew(x) => pc[x] \notin Unmarked

ExecInv(e) == EntryOf(e) /\ StatusOf(e) /\ AwaitOf(e) /\ CancelOf(e)

EntryInv == \A e \in Executions : ExecInv(e)

(* What the run x of e0 does not touch *)
Beside(e0) ==
  \A e \in Executions \ {e0} :
    /\ row'[e] = row[e] /\ active'[e] = active[e]
    /\ \A x \in Run : Execution(x) = e =>
         /\ pc'[x] = pc[x] /\ outcome'[x] = outcome[x] /\ entryStatus'[x] = entryStatus[x]
         /\ x \in cancelled' <=> x \in cancelled
         /\ x \in settled' <=> x \in settled
         /\ Awaited(x) => Awaited(x)'

(* A step before the reservation, or none *)
Quiet(e) ==
  /\ row'[e] = "waiting" => row[e] = "waiting"
  /\ active'[e] = active[e]
  /\ \A x \in Run : Execution(x) = e =>
       /\ pc'[x] = pc[x] \/ (pc[x] \in Unmarked /\ pc'[x] \in Unmarked \cup {"refused", "failed"})
       /\ outcome'[x] = outcome[x] /\ entryStatus'[x] = entryStatus[x]
       /\ x \in cancelled' <=> x \in cancelled
       /\ x \in settled' <=> x \in settled
       /\ Awaited(x) => Awaited(x)'

LEMMA ExecQuiet ==
  ASSUME TypeOK, TypeOK', NEW e \in Executions, ExecInv(e), Quiet(e)
  PROVE  ExecInv(e)'
  <1>0. /\ \A x \in Run : Execution(x) = e /\ pc[x] \notin Unmarked => pc'[x] = pc[x]
        /\ \A x \in Run : Execution(x) = e /\ pc'[x] # pc[x] => pc'[x] \notin InProgress \cup Pending \cup {"closing"}
        /\ Unmarked \cap (InProgress \cup Pending \cup {"over"}) = {}
        /\ cancelled \subseteq Run /\ cancelled' \subseteq Run
    BY DEF Quiet, Unmarked, InProgress, Pending, TypeOK
  <1>1. EntryOf(e)'
    <2>. SUFFICES ASSUME NEW y \in Run, active'[e] = y
                  PROVE  /\ Execution(y) = e
                         /\ pc'[y] \in Under \cup {"saved", "over"}
                         /\ row'[e] = "waiting" => entryStatus'[y] = "waiting"
                         /\ \A x \in Run : Execution(x) = e =>
                              /\ pc'[x] \in Under => x = y
                              /\ pc'[x] = "marked" => entryStatus'[y] = "waiting"
                              /\ IsNew(x) => pc'[x] \notin Unmarked
      BY DEF EntryOf
    <2>1. /\ Execution(y) = e
          /\ pc[y] \in Under \cup {"saved", "over"}
          /\ row[e] = "waiting" => entryStatus[y] = "waiting"
          /\ \A x \in Run : Execution(x) = e =>
                              /\ pc[x] \in Under => x = y
                              /\ pc[x] = "marked" => entryStatus[y] = "waiting"
                              /\ IsNew(x) => pc[x] \notin Unmarked
      BY DEF Quiet, ExecInv, EntryOf
    <2>2. pc[y] \notin Unmarked
      BY <1>0, <2>1 DEF Under, Pending
    <2>. QED
      BY <1>0, <2>1, <2>2 DEF Quiet, Under, InProgress
  <1>2. StatusOf(e)'
    BY <1>0 DEF ExecInv, StatusOf, Quiet, Waits, InProgress, Pending, Unmarked
  <1>3. CancelOf(e)'
    BY <1>0 DEF ExecInv, CancelOf, Quiet, Waits, InProgress, Pending, Unmarked
  <1>4. AwaitOf(e)'
    BY <1>0 DEF ExecInv, AwaitOf, Quiet, InProgress, Pending
  <1>. QED
    BY <1>1, <1>2, <1>3, <1>4 DEF ExecInv

(* It suffices to look at the execution whose run takes the step. *)
LEMMA ExecStep ==
  ASSUME TypeOK, TypeOK', EntryInv, NEW e0 \in Executions, Beside(e0), ExecInv(e0)'
  PROVE  EntryInv'
  <1>. SUFFICES ASSUME NEW e \in Executions \ {e0} PROVE ExecInv(e)'
    BY DEF EntryInv
  <1>1. Quiet(e)
    BY DEF Beside, Quiet
  <1>. QED
    BY <1>1, ExecQuiet DEF EntryInv

LEMMA MoveOne ==
  ASSUME pc \in [Run -> Control], NEW x \in Run, NEW l, Goto(x, l)
  PROVE  pc'[x] = l /\ \A y \in Run : y # x => pc'[y] = pc[y]
  BY DEF Goto

(* A run goes on without touching the entries. *)
LEMMA ExecAdvances ==
  ASSUME TypeOK, TypeOK', OneRunInv, EntryInv, NEW x \in Run, NEW e \in Executions, e = Execution(x),
         pc[x] \in Under \cup {"closing"}, pc'[x] \in Under \cup {"saved", "over", "closing"},
         \A y \in Run : y # x => pc'[y] = pc[y] /\ outcome'[y] = outcome[y],
         UNCHANGED <<active, entryStatus, settled, cancelled>>, attached \subseteq attached',
         \A f \in Executions \ {e} : row'[f] = row[f], row'[e] = "waiting" => row[e] = "waiting",
         Waits(x)' => Waits(x),
         pc[x] \in {"putToWait", "saving"} => pc'[x] \in {"saving", "saved", "over"},
         pc[x] \in {"closing"} => pc'[x] = "over",
         x \in cancelled => pc'[x] \in Pending,
         pc'[x] = "closing" => active[e] # x /\ outcome'[x] # "waiting",
         pc'[x] # "putToWait",
         pc'[x] = "executing" /\ active[e] = x => Awaited(x)'
  PROVE  EntryInv'
  <1>0. ExecInv(e) /\ {"saved", "over", "closing"} \cap (Under \cup InProgress \cup Unmarked) = {}
        /\ Under \subseteq InProgress /\ Under \cap Unmarked = {} /\ "marked" \notin Under
        /\ "closing" \notin Pending
    BY DEF EntryInv, Under, InProgress, Unmarked, Pending
  <1>1. EntryOf(e)'
    <2>1. \A y \in Run : active[e] = y => pc'[y] \in Under \cup {"saved", "over"}
      BY <1>0 DEF ExecInv, EntryOf
    <2>2. \A y \in Run : pc'[y] \in Under => pc[y] \in Under
      BY <1>0
    <2>. QED
      BY <1>0, <2>1, <2>2 DEF ExecInv, EntryOf
  <1>2. StatusOf(e)'
    BY <1>0 DEF ExecInv, StatusOf, Waits, Under, InProgress
  <1>a. \A y \in Run : Awaited(y) => Awaited(y)'
    BY DEF Awaited
  <1>3. CancelOf(e)'
    <2>1. cancelled \subseteq Run
      BY DEF TypeOK
    <2>2. \A y \in Run : pc'[y] \in InProgress => pc[y] \in InProgress
      BY <1>0
    <2>. QED
      BY <1>0, <1>a, <2>1, <2>2 DEF ExecInv, CancelOf, Waits
  <1>4. AwaitOf(e)'
    BY <1>0, <1>a DEF ExecInv, AwaitOf
  <1>5. Beside(e)
    BY <1>a DEF Beside
  <1>. QED
    BY <1>1, <1>2, <1>3, <1>4, <1>5, ExecStep DEF ExecInv

(* The end of a workflow leads to "waiting" only if it was put to wait,    *)
(* and then somebody awaits it.                                            *)
LEMMA EndWaits ==
  ASSUME pc \in [Run -> Control], outcome \in [Run -> {"waiting", "canceled"} \cup Ended], NEW x \in Run,
         WorkflowEnds(x)
  PROVE  /\ Waits(x)' => Waits(x)
         /\ pc'[x] = "closing" => (~Awaited(x) /\ (pc[x] = "putToWait" \/ outcome'[x] # "waiting"))
  <1>1. CASE x \notin cancelled /\ pc[x] = "executing"
    <2>1. PICK o \in Outcomes(Execution(x)) : outcome' = [outcome EXCEPT ![x] = o]
      BY <1>1 DEF WorkflowEnds
    <2>2. outcome'[x] = o /\ o # "waiting" /\ pc'[x] = (IF Awaited(x) THEN "saving" ELSE "closing")
      BY <1>1, <2>1, MoveOne DEF WorkflowEnds, Outcomes, Ended
    <2>. QED
      BY <2>2 DEF Waits
  <1>2. CASE x \notin cancelled /\ pc[x] = "putToWait"
    <2>1. pc'[x] = (IF Awaited(x) THEN "saving" ELSE "closing")
      BY <1>2, MoveOne DEF WorkflowEnds
    <2>. QED
      BY <1>2, <2>1 DEF Waits
  <1>3. CASE x \in cancelled
    <2>1. pc'[x] = "saved"
      BY <1>3, MoveOne DEF WorkflowEnds
    <2>. QED
      BY <2>1 DEF Waits
  <1>. QED
    BY <1>1, <1>2, <1>3 DEF WorkflowEnds

LEMMA ExecRun ==
  ASSUME TypeOK, TypeOK', OneRunInv, OneRunInv', EntryInv, NEW x \in Run,
         MarkRunning(x) \/ Register(x) \/ PreflightFails(x) \/ ResponseFails(x) \/ RunFails(x)
         \/ SetRunning(x) \/ StartWorkflow(x) \/ PutToWait(x) \/ WorkflowEnds(x) \/ Save(x)
         \/ SaveFails(x)
  PROVE  EntryInv'
  <1>. DEFINE e == Execution(x)
  <1>. USE DEF TypeOK
  <1>0. e \in Executions /\ ExecInv(e)
    BY RunExecution DEF EntryInv
  <1>. HIDE DEF e
  <1>e. e = Execution(x)
    BY DEF e
  <1>s. /\ "saved" \notin Under \cup InProgress \cup Unmarked /\ "over" \notin Under \cup InProgress \cup Unmarked
        /\ Under \subseteq InProgress /\ Under \cap Unmarked = {} /\ "marked" \in InProgress \ Under
        /\ "marked" \notin Unmarked
        /\ {"registered", "starting", "executing", "putToWait", "saving"} = Under
    BY DEF Under, InProgress, Unmarked
  <1>r. \A y \in Run : Execution(y) = e /\ pc[y] \in InProgress /\ pc[x] \in InProgress => y = x
    BY <1>e DEF OneRunInv, OneRunAtATime, Unfinished
  <1>w. pc[x] \in InProgress => row[e] # "waiting"
    BY <1>e DEF OneRunInv, WaitingIsIdle, Unfinished
  <1>c. cancelled \subseteq Run /\ (x \in cancelled => pc[x] \in Pending)
    BY <1>0, <1>e DEF ExecInv, CancelOf
  <1>1. CASE MarkRunning(x)
    <2>1. /\ pc[x] = "reserving" /\ pc'[x] = "marked" /\ \A y \in Run : y # x => pc'[y] = pc[y]
          /\ row' = [row EXCEPT ![e] = "running"]
          /\ UNCHANGED <<outcome, active, entryStatus, settled, attached, cancelled>>
          /\ IsNew(x) \/ row[e] = "waiting"
      BY <1>1, <1>e, MoveOne DEF MarkRunning, Write
    <2>2. pc[x] \in Unmarked /\ pc[x] \notin InProgress \cup Pending \cup {"saved", "over"}
      BY <2>1 DEF Unmarked, InProgress, Pending
    <2>3. \A y \in Run : active[e] = y => entryStatus[y] = "waiting" /\ ~IsNew(x)
      BY <1>0, <1>e, <2>1, <2>2 DEF ExecInv, EntryOf
    <2>4. \A w \in cancelled : Execution(w) # e
      BY <1>0, <1>c, <1>e, <2>1, <2>2 DEF ExecInv, CancelOf
    <2>5. EntryOf(e)'
      BY <1>0, <1>s, <1>e, <2>1, <2>2, <2>3 DEF ExecInv, EntryOf
    <2>6. StatusOf(e)'
      BY <1>0, <1>e, <2>1 DEF ExecInv, StatusOf, Waits
    <2>7. CancelOf(e)'
      BY <2>1, <2>4 DEF CancelOf
    <2>8. Beside(e)
      BY <1>e, <2>1 DEF Beside, Awaited
    <2>9. AwaitOf(e)'
      BY <1>0, <1>e, <2>1 DEF ExecInv, AwaitOf, Awaited
    <2>. QED
      BY <1>0, <2>5, <2>6, <2>7, <2>8, <2>9, ExecStep DEF ExecInv
  <1>2. CASE Register(x)
    <2>1. /\ pc[x] = "marked" /\ pc'[x] = "registered" /\ \A y \in Run : y # x => pc'[y] = pc[y]
          /\ active' = [active EXCEPT ![e] = x]
          /\ UNCHANGED <<row, outcome, entryStatus, settled, attached, cancelled>>
      BY <1>2, <1>e, MoveOne DEF Register
    <2>2. \A w \in cancelled : Execution(w) # e
      BY <1>0, <1>c, <1>e, <1>s, <2>1 DEF ExecInv, CancelOf, Pending
    <2>3. \A y \in Run : Execution(y) = e /\ y # x => pc'[y] \notin InProgress /\ (IsNew(y) => pc'[y] \notin Unmarked)
      BY <1>e, <1>r, <1>s, <2>1 DEF OneRunInv, FirstIsAlone, Unfinished
    <2>4. EntryOf(e)'
      <3>1. active'[e] = x /\ pc'[x] \in Under /\ row'[e] # "waiting"
        BY <1>0, <1>s, <1>w, <2>1
      <3>. QED
        BY <1>e, <1>s, <2>1, <2>3, <3>1 DEF EntryOf
    <2>5. StatusOf(e)'
      BY <1>0, <1>e, <2>1 DEF ExecInv, StatusOf, Waits
    <2>6. CancelOf(e)'
      BY <2>1, <2>2 DEF CancelOf
    <2>7. Beside(e)
      BY <1>e, <2>1 DEF Beside, Awaited
    <2>8. AwaitOf(e)'
      <3>1. \A y \in Run : active'[e] = y => y = x /\ pc'[y] = "registered"
        BY <1>0, <2>1
      <3>. QED
        BY <1>0, <2>1, <3>1 DEF ExecInv, AwaitOf, Awaited
    <2>. QED
      BY <1>0, <2>4, <2>5, <2>6, <2>7, <2>8, ExecStep DEF ExecInv
  <1>3. CASE PreflightFails(x)
    <2>1. /\ pc[x] = "registered" /\ pc'[x] = "saving" /\ \A y \in Run : y # x => pc'[y] = pc[y]
          /\ outcome' = [outcome EXCEPT ![x] = "error"]
          /\ UNCHANGED <<row, active, entryStatus, settled, attached, cancelled>>
      BY <1>3, MoveOne DEF PreflightFails
    <2>2. x \notin cancelled /\ ~Waits(x)'
      BY <1>c, <2>1 DEF Pending, Waits
    <2>. QED
      BY <1>0, <1>e, <1>s, <2>1, <2>2, ExecAdvances
  <1>4. CASE SetRunning(x)
    <2>1. /\ pc[x] = "registered" /\ pc'[x] = "starting" /\ \A y \in Run : y # x => pc'[y] = pc[y]
          /\ row' = [row EXCEPT ![e] = "running"]
          /\ UNCHANGED <<outcome, active, entryStatus, settled, attached, cancelled>>
      BY <1>4, <1>e, MoveOne DEF SetRunning, Write
    <2>2. x \notin cancelled /\ ~Waits(x)' /\ row'[e] # "waiting"
      BY <1>0, <1>c, <2>1 DEF Pending, Waits
    <2>. QED
      BY <1>0, <1>e, <1>s, <2>1, <2>2, ExecAdvances
  <1>5. CASE StartWorkflow(x)
    <2>1. /\ pc[x] = "starting" /\ pc'[x] = "executing" /\ \A y \in Run : y # x => pc'[y] = pc[y]
          /\ UNCHANGED <<row, outcome, active, entryStatus, settled, cancelled>>
          /\ attached \subseteq attached' /\ (active[e] = x => x \in attached')
      BY <1>5, <1>e, MoveOne DEF StartWorkflow
    <2>2. x \notin cancelled /\ ~Waits(x)' /\ (active[e] = x => Awaited(x)')
      BY <1>c, <2>1 DEF Pending, Waits, Awaited
    <2>. QED
      BY <1>0, <1>e, <1>s, <2>1, <2>2, ExecAdvances
  <1>6. CASE WorkflowEnds(x)
    <2>1. /\ pc[x] \in {"executing", "putToWait"}
          /\ pc'[x] \in {"saving", "closing", "saved"} /\ \A y \in Run : y # x => pc'[y] = pc[y]
          /\ x \in cancelled => pc'[x] = "saved"
          /\ UNCHANGED <<row, active, entryStatus, settled, attached, cancelled>>
          /\ \A y \in Run : y # x => outcome'[y] = outcome[y]
      BY <1>6, MoveOne DEF WorkflowEnds
    <2>2. /\ Waits(x)' => Waits(x)
          /\ pc'[x] = "closing" => ~Awaited(x) /\ (pc[x] = "putToWait" \/ outcome'[x] # "waiting")
      BY <1>6, EndWaits
    <2>3. pc[x] = "putToWait" \/ (pc[x] = "executing" /\ active[e] = x) => Awaited(x)
      BY <1>0, <1>e DEF ExecInv, AwaitOf
    <2>4. pc'[x] = "closing" => pc[x] = "executing" /\ active[e] # x /\ outcome'[x] # "waiting"
      BY <2>1, <2>2, <2>3
    <2>5. pc[x] = "putToWait" => pc'[x] \in {"saving", "saved"}
      BY <2>1, <2>4
    <2>6. x \in cancelled => pc'[x] \in Pending
      BY <2>1 DEF Pending
    <2>. QED
      BY <1>0, <1>e, <1>s, <2>1, <2>2, <2>4, <2>5, <2>6, ExecAdvances
  <1>7. CASE ResponseFails(x) \/ RunFails(x)
    <2>1. /\ pc[x] = "registered" /\ pc'[x] = "over" /\ \A y \in Run : y # x => pc'[y] = pc[y]
          /\ UNCHANGED <<row, outcome, active, entryStatus, settled, attached, cancelled>>
      BY <1>7, MoveOne DEF ResponseFails, RunFails, WriteFails
    <2>2. x \notin cancelled /\ ~Waits(x)'
      BY <1>c, <2>1 DEF Pending, Waits
    <2>. QED
      BY <1>0, <1>e, <1>s, <2>1, <2>2, ExecAdvances
  <1>8. CASE PutToWait(x)
    <2>1. /\ pc[x] = "executing" /\ pc'[x] = "putToWait" /\ \A y \in Run : y # x => pc'[y] = pc[y]
          /\ active[e] # NoRun
          /\ entryStatus' = [entryStatus EXCEPT ![active[e]] = "waiting"]
          /\ UNCHANGED <<row, outcome, active, settled, attached, cancelled>>
      BY <1>8, <1>e, MoveOne DEF PutToWait
    <2>2. active[e] = x
      BY <1>0, <1>e, <1>s, <2>1 DEF ExecInv, EntryOf
    <2>3. entryStatus'[x] = "waiting" /\ \A y \in Run : y # x => entryStatus'[y] = entryStatus[y]
      BY <2>1, <2>2
    <2>4. \A w \in cancelled : Execution(w) # e
      BY <1>0, <1>c, <2>1 DEF ExecInv, CancelOf
    <2>5. EntryOf(e)'
      BY <1>0, <1>e, <1>s, <2>1, <2>2, <2>3 DEF ExecInv, EntryOf
    <2>6. StatusOf(e)'
      BY <1>0, <1>e, <2>1, <2>2, <2>3 DEF ExecInv, StatusOf, Waits
    <2>7. CancelOf(e)'
      BY <2>1, <2>4 DEF CancelOf
    <2>8. Beside(e)
      BY <1>e, <2>1, <2>3 DEF Beside, Awaited
    <2>9. AwaitOf(e)'
      BY <1>0, <1>e, <2>1, <2>2 DEF ExecInv, AwaitOf, Awaited
    <2>. QED
      BY <1>0, <2>5, <2>6, <2>7, <2>8, <2>9, ExecStep DEF ExecInv
  <1>9. CASE Save(x) /\ pc[x] = "saving"
    <2>1. /\ pc'[x] = "saved" /\ \A y \in Run : y # x => pc'[y] = pc[y]
          /\ row' = [row EXCEPT ![e] = outcome[x]]
          /\ outcome' = [outcome EXCEPT ![x] = "success"]
          /\ UNCHANGED <<active, entryStatus, settled, attached, cancelled>>
      BY <1>9, <1>e, MoveOne DEF Save, Write
    <2>2. row'[e] = outcome[x]
      BY <1>0, <2>1
    <2>3. \A y \in Run : active[e] = y => y = x /\ (row'[e] = "waiting" => entryStatus[y] = "waiting")
      BY <1>0, <1>9, <1>e, <1>s, <2>1, <2>2 DEF ExecInv, EntryOf, StatusOf, Waits
    <2>4. EntryOf(e)'
      BY <1>0, <1>9, <1>e, <1>s, <2>1, <2>3 DEF ExecInv, EntryOf
    <2>5. StatusOf(e)'
      BY <1>0, <1>9, <1>e, <2>1 DEF ExecInv, StatusOf, Waits
    <2>6. CancelOf(e)'
      <3>1. \A w \in cancelled : Execution(w) = e => w = x
        BY <1>0, <1>9, <1>c, <1>e, <1>s, <2>1 DEF ExecInv, CancelOf
      <3>2. x \in cancelled => row'[e] # "waiting"
        BY <1>0, <1>9, <1>e, <2>1, <2>2 DEF ExecInv, CancelOf, Waits
      <3>. QED
        BY <1>0, <1>9, <1>e, <1>s, <2>1, <3>1, <3>2 DEF ExecInv, CancelOf, Waits, Pending, Awaited
    <2>7. Beside(e)
      BY <1>e, <2>1 DEF Beside, Awaited
    <2>8. AwaitOf(e)'
      BY <1>0, <1>e, <2>1 DEF ExecInv, AwaitOf, Awaited
    <2>. QED
      BY <1>0, <2>4, <2>5, <2>6, <2>7, <2>8, ExecStep DEF ExecInv
  <1>10. CASE Save(x) /\ pc[x] = "closing"
    <2>1. /\ pc'[x] = "over" /\ \A y \in Run : y # x => pc'[y] = pc[y]
          /\ row' = [row EXCEPT ![e] = outcome[x]]
          /\ \A y \in Run : y # x => outcome'[y] = outcome[y]
          /\ UNCHANGED <<active, entryStatus, settled, attached, cancelled>>
      BY <1>10, <1>e, MoveOne DEF Save, Write
    <2>2. outcome[x] # "waiting" /\ row'[e] = outcome[x]
      BY <1>0, <1>10, <1>e, <2>1 DEF ExecInv, AwaitOf
    <2>3. x \notin cancelled /\ ~Waits(x)'
      BY <1>10, <1>c, <2>1 DEF Pending, Waits
    <2>. QED
      BY <1>0, <1>10, <1>e, <1>s, <2>1, <2>2, <2>3, ExecAdvances
  <1>11. CASE SaveFails(x)
    <2>1. /\ pc[x] \in {"saving", "closing"} /\ \A y \in Run : y # x => pc'[y] = pc[y]
          /\ pc'[x] = (IF pc[x] = "saving" /\ Awaited(x) THEN "saved" ELSE "over")
          /\ \A y \in Run : y # x => outcome'[y] = outcome[y]
          /\ UNCHANGED <<row, active, entryStatus, settled, attached, cancelled>>
      BY <1>11, MoveOne DEF SaveFails, WriteFails
    <2>2. x \in cancelled => pc[x] = "saving" /\ Awaited(x)
      BY <1>0, <1>c, <1>e, <2>1 DEF ExecInv, CancelOf, Pending
    <2>3. (x \in cancelled => pc'[x] \in Pending) /\ ~Waits(x)'
      BY <2>1, <2>2 DEF Pending, Waits
    <2>. QED
      BY <1>0, <1>e, <1>s, <2>1, <2>3, ExecAdvances
  <1>. QED
    BY <1>1, <1>2, <1>3, <1>4, <1>5, <1>6, <1>7, <1>8, <1>9, <1>10, <1>11 DEF Save

(* The steps that no entry is concerned by *)
LEMMA ExecUntouched ==
  ASSUME TypeOK, TypeOK', EntryInv, \A e \in Executions : Quiet(e)
  PROVE  EntryInv'
  BY ExecQuiet DEF EntryInv

LEMMA ExecBefore ==
  ASSUME TypeOK, TypeOK', EntryInv, NEW x \in Run,
         Create(x) \/ Reserve(x) \/ AddFails(x) \/ TimerFires(x) \/ Load(x) \/ WebhookResumes(x)
         \/ RunEnqueued(x) \/ CancelSave(x) \/ CancelSaveFails(x)
  PROVE  EntryInv'
  <1>0. Execution(x) \in Executions
    BY RunExecution
  <1>1. CASE CancelSave(x) \/ CancelSaveFails(x)
    <2>1. row' = row \/ row' = [row EXCEPT ![Execution(x)] = "canceled"]
      BY <1>1 DEF CancelSave, CancelSaveFails, Write, WriteFails
    <2>2. UNCHANGED <<pc, outcome, active, entryStatus, settled, attached, cancelled>>
      BY <1>1 DEF CancelSave, CancelSaveFails
    <2>3. \A e \in Executions : Quiet(e)
      BY <1>0, <2>1, <2>2 DEF Quiet, TypeOK, Awaited
    <2>. QED
      BY <2>3, ExecUntouched
  <1>2. CASE ~(CancelSave(x) \/ CancelSaveFails(x))
    <2>1. /\ pc[x] \in Unmarked
          /\ Goto(x, "loading") \/ Goto(x, "adding") \/ Goto(x, "reserving") \/ Goto(x, "refused")
             \/ Goto(x, "failed")
          /\ row' = row \/ row' = [row EXCEPT ![Execution(x)] = "new"]
          /\ UNCHANGED <<outcome, active, entryStatus, settled, attached, cancelled>>
      BY <1>2 DEF Create, Write, Reserve, AddFails, TimerFires, Load, WebhookResumes, RunEnqueued, Fresh, Unmarked
    <2>2. /\ pc'[x] \in Unmarked \cup {"refused", "failed"}
          /\ \A y \in Run : y # x => pc'[y] = pc[y]
          /\ \A e \in Executions : row'[e] = "waiting" => row[e] = "waiting"
      BY <1>0, <2>1 DEF Goto, TypeOK, Unmarked
    <2>3. \A e \in Executions : Quiet(e)
      BY <2>1, <2>2 DEF Quiet, Awaited
    <2>. QED
      BY <2>3, ExecUntouched
  <1>. QED
    BY <1>1, <1>2

LEMMA ExecOther ==
  ASSUME TypeOK, TypeOK', EntryInv,
         \/ \E e \in Executions : Poll(e) \/ Track(e) \/ StopRequest(e) \/ StopWrites(e) \/ StopFails(e)
         \/ StopTracking \/ UNCHANGED vars
  PROVE  EntryInv'
  <1>1. /\ \A e \in Executions : row'[e] = "waiting" => row[e] = "waiting"
        /\ UNCHANGED <<pc, outcome, active, entryStatus, settled, attached, cancelled>>
    BY DEF Poll, Track, StopRequest, StopWrites, StopFails, Write, WriteFails, StopTracking, vars, TypeOK
  <1>2. \A e \in Executions : Quiet(e)
    BY <1>1 DEF Quiet, Awaited
  <1>. QED
    BY <1>2, ExecUntouched

(* stopExecution, called by the timeout of a workflow or by a user, drops  *)
(* the entry and cancels the workflow under it.                            *)
LEMMA ExecStops ==
  ASSUME TypeOK, TypeOK', OneRunInv, EntryInv, NEW e \in Executions, StopExecution(e),
         UNCHANGED <<row, pc, outcome>>
  PROVE  EntryInv'
  <1>. USE DEF TypeOK
  <1>0. ExecInv(e) /\ cancelled \subseteq Run
    BY DEF EntryInv
  <1>1. CASE active[e] = NoRun
    <2>1. \A f \in Executions : Quiet(f)
      BY <1>1 DEF StopExecution, Quiet, Awaited
    <2>. QED
      BY <2>1, ExecUntouched
  <1>2. CASE active[e] # NoRun /\ entryStatus[active[e]] = "waiting"
    <2>1. active' = [active EXCEPT ![e] = NoRun] /\ UNCHANGED <<entryStatus, settled, attached, cancelled>>
      BY <1>2 DEF StopExecution
    <2>2. EntryOf(e)'
      BY <2>1, NoRunAssumption DEF EntryOf
    <2>3. StatusOf(e)'
      BY <1>0, <2>1, NoRunAssumption DEF ExecInv, StatusOf, Waits
    <2>4. CancelOf(e)'
      BY <1>0, <2>1 DEF ExecInv, CancelOf, Waits, Awaited
    <2>5. Beside(e)
      BY <2>1 DEF Beside, Awaited
    <2>6. AwaitOf(e)'
      BY <1>0, <2>1, NoRunAssumption DEF ExecInv, AwaitOf, Awaited
    <2>. QED
      BY <2>2, <2>3, <2>4, <2>5, <2>6, ExecStep DEF ExecInv
  <1>3. CASE active[e] # NoRun /\ entryStatus[active[e]] = "running"
    <2>. DEFINE y == active[e]
    <2>0. y \in Run /\ Execution(y) = e /\ y \notin settled
      BY <1>0, <1>3 DEF ExecInv, EntryOf, StatusOf
    <2>. HIDE DEF y
    <2>y. y = active[e]
      BY DEF y
    <2>1. /\ active' = [active EXCEPT ![e] = NoRun]
          /\ UNCHANGED <<entryStatus, settled, attached>>
          /\ cancelled' = cancelled \cup {z \in attached \ cancelled : z = y /\ pc[z] \in Pending}
      BY <1>3, <2>0, <2>y DEF StopExecution, SettleEntry
    <2>2. EntryOf(e)'
      BY <2>1, NoRunAssumption DEF EntryOf
    <2>3. StatusOf(e)'
      BY <1>0, <2>1, NoRunAssumption DEF ExecInv, StatusOf, Waits
    <2>4. row[e] # "waiting" /\ ~Waits(y)
      BY <1>0, <1>3, <2>0, <2>y DEF ExecInv, EntryOf, StatusOf
    <2>5. \A x \in Run : Execution(x) = e => /\ x # y => pc[x] \notin InProgress
                                             /\ IsNew(x) => pc[x] \notin Unmarked
      BY <1>0, <1>3, <2>0, <2>y DEF ExecInv, EntryOf, Under
    <2>6. \A w \in cancelled' : Execution(w) = e => w = y /\ pc[w] \in Pending /\ w \in attached
      BY <1>0, <1>3, <2>1 DEF ExecInv, CancelOf
    <2>7. CancelOf(e)'
      BY <2>1, <2>4, <2>5, <2>6 DEF CancelOf, Waits, Awaited
    <2>8. Beside(e)
      BY <2>0, <2>1 DEF Beside, Awaited
    <2>9. AwaitOf(e)'
      BY <1>0, <2>1, NoRunAssumption DEF ExecInv, AwaitOf, Awaited
    <2>. QED
      BY <2>2, <2>3, <2>7, <2>8, <2>9, ExecStep DEF ExecInv
  <1>. QED
    BY <1>1, <1>2, <1>3 DEF StopExecution

LEMMA ExecFinalizes ==
  ASSUME TypeOK, TypeOK', OneRunInv, EntryInv, NEW x \in Run, Finalize(x)
  PROVE  EntryInv'
  <1>. USE DEF TypeOK
  <1>. DEFINE e == Execution(x)
  <1>0. e \in Executions /\ ExecInv(e)
    BY RunExecution DEF EntryInv
  <1>. HIDE DEF e
  <1>e. e = Execution(x)
    BY DEF e
  <1>1. /\ pc[x] = "saved" /\ pc'[x] = "over" /\ \A y \in Run : y # x => pc'[y] = pc[y]
        /\ UNCHANGED <<row, outcome, entryStatus>>
        /\ cancelled' = cancelled \ {x}
    BY MoveOne DEF Finalize
  <1>2. {"saved", "over"} \cap (InProgress \cup Under \cup Unmarked) = {}
    BY DEF InProgress, Under, Unmarked
  <1>3. CASE active[e] = NoRun
    <2>1. UNCHANGED <<active, settled, attached>>
      BY <1>3, <1>e DEF Finalize, SettleFound
    <2>2. EntryOf(e)'
      BY <1>3, <2>1, NoRunAssumption DEF EntryOf
    <2>3. StatusOf(e)'
      BY <1>0, <1>1, <2>1 DEF ExecInv, StatusOf, Waits
    <2>4. CancelOf(e)'
      BY <1>0, <1>1, <1>2, <2>1 DEF ExecInv, CancelOf, Waits, Awaited
    <2>5. Beside(e)
      BY <1>1, <1>e, <2>1 DEF Beside, Awaited
    <2>6. AwaitOf(e)'
      BY <1>0, <1>1, <2>1 DEF ExecInv, AwaitOf, Awaited
    <2>. QED
      BY <1>0, <2>2, <2>3, <2>4, <2>5, <2>6, ExecStep DEF ExecInv
  <1>4. CASE active[e] # NoRun
    <2>. DEFINE y == active[e]
    <2>0. y \in Run /\ Execution(y) = e
      BY <1>0, <1>4 DEF ExecInv, EntryOf
    <2>. HIDE DEF y
    <2>y. y = active[e]
      BY DEF y
    <2>1. \/ y \in settled /\ UNCHANGED <<active, settled, attached>>
          \/ /\ y \notin settled /\ entryStatus[y] = "waiting" /\ UNCHANGED active
             /\ settled' = settled \cup {y} /\ attached' = attached \ {y}
          \/ /\ y \notin settled /\ entryStatus[y] = "running" /\ UNCHANGED <<settled, attached>>
             /\ active' = [active EXCEPT ![e] = NoRun]
      BY <1>4, <1>e, <2>0, <2>y DEF Finalize, SettleFound, SettleEntry
    <2>2. active'[e] = y => active' = active
      BY <1>0, <2>0, <2>1, NoRunAssumption
    <2>a. \A z \in Run : Awaited(z) => Awaited(z)'
      BY <2>1 DEF Awaited
    <2>3. EntryOf(e)'
      <3>1. active'[e] = NoRun \/ active'[e] = y
        BY <1>0, <2>1, <2>y
      <3>2. CASE active'[e] = NoRun
        BY <3>2, NoRunAssumption DEF EntryOf
      <3>3. CASE active'[e] = y
        BY <1>0, <1>1, <1>2, <2>0, <2>2, <2>y, <3>3 DEF ExecInv, EntryOf
      <3>. QED
        BY <3>1, <3>2, <3>3
    <2>4. StatusOf(e)'
      <3>1. \A z \in Run : z \in settled' => z \in settled \/ entryStatus[z] = "waiting"
        BY <2>1
      <3>2. \A z \in Run : active'[e] = z => active[e] = z
        BY <1>0, <2>1, NoRunAssumption
      <3>. QED
        BY <1>0, <1>1, <3>1, <3>2 DEF ExecInv, StatusOf, Waits
    <2>5. CancelOf(e)'
      <3>1. \A w \in cancelled : Execution(w) # e
        BY <1>0, <1>4 DEF ExecInv, CancelOf
      <3>. QED
        BY <1>1, <3>1 DEF CancelOf
    <2>6. Beside(e)
      BY <1>1, <1>e, <2>0, <2>1, <2>a DEF Beside
    <2>7. AwaitOf(e)'
      <3>1. \A z \in Run : active'[e] = z => active[e] = z
        BY <1>0, <2>1, NoRunAssumption
      <3>. QED
        BY <1>0, <1>1, <2>a, <3>1 DEF ExecInv, AwaitOf
    <2>. QED
      BY <1>0, <2>3, <2>4, <2>5, <2>6, <2>7, ExecStep DEF ExecInv
  <1>. QED
    BY <1>3, <1>4

(* A workflow that throws as it starts takes its own entry with it, which  *)
(* nobody has settled yet, or finds none.                                  *)
LEMMA ThrowTakes ==
  ASSUME TypeOK, EntryInv, NEW e \in Executions, NEW x \in Run, Execution(x) = e, StartThrows(x)
  PROVE  /\ pc[x] = "starting" /\ pc'[x] = "closing" /\ \A y \in Run : y # x => pc'[y] = pc[y]
         /\ outcome'[x] = "error" /\ \A y \in Run : y # x => outcome'[y] = outcome[y]
         /\ UNCHANGED <<row, entryStatus, attached, settled, cancelled>>
         /\ x \notin cancelled
         /\ active'[e] = NoRun /\ \A f \in Executions \ {e} : active'[f] = active[f]
         /\ \/ active[e] = NoRun /\ UNCHANGED reserved
            \/ active[e] = x /\ Release(x)
  <1>. USE DEF TypeOK
  <1>1. /\ pc[x] = "starting" /\ pc'[x] = "closing" /\ \A y \in Run : y # x => pc'[y] = pc[y]
        /\ outcome'[x] = "error" /\ \A y \in Run : y # x => outcome'[y] = outcome[y]
        /\ UNCHANGED <<row, entryStatus, cancelled>>
        /\ SettleFound(e)
    BY MoveOne DEF StartThrows
  <1>2. ExecInv(e) /\ "starting" \in Under /\ "starting" \notin Pending
    BY DEF EntryInv, Under, InProgress, Pending
  <1>3. x \notin cancelled
    BY <1>1, <1>2 DEF ExecInv, CancelOf
  <1>4. active[e] = NoRun \/ active[e] = x
    BY <1>1, <1>2 DEF ExecInv, EntryOf
  <1>5. entryStatus[x] = "running" /\ x \notin settled
    BY <1>1, <1>2 DEF ExecInv, StatusOf
  <1>6. CASE active[e] = NoRun
    BY <1>1, <1>3, <1>6 DEF SettleFound
  <1>7. CASE active[e] = x
    <2>1. /\ Release(x) /\ UNCHANGED <<attached, settled>>
          /\ active' = [active EXCEPT ![e] = NoRun]
      BY <1>1, <1>5, <1>7, NoRunAssumption DEF SettleFound, SettleEntry
    <2>. QED
      BY <1>1, <1>3, <1>7, <2>1
  <1>. QED
    BY <1>4, <1>6, <1>7

LEMMA ExecThrows ==
  ASSUME TypeOK, TypeOK', EntryInv, NEW x \in Run, StartThrows(x)
  PROVE  EntryInv'
  <1>. DEFINE e == Execution(x)
  <1>0. e \in Executions /\ ExecInv(e)
    BY RunExecution DEF EntryInv
  <1>. HIDE DEF e
  <1>e. e = Execution(x)
    BY DEF e
  <1>1. /\ pc[x] = "starting" /\ pc'[x] = "closing" /\ \A y \in Run : y # x => pc'[y] = pc[y]
        /\ outcome'[x] = "error" /\ \A y \in Run : y # x => outcome'[y] = outcome[y]
        /\ UNCHANGED <<row, entryStatus, attached, settled, cancelled>>
        /\ x \notin cancelled
        /\ active'[e] = NoRun /\ \A f \in Executions \ {e} : active'[f] = active[f]
    BY <1>0, <1>e, ThrowTakes
  <1>a. \A z \in Run : Awaited(z) => Awaited(z)'
    BY <1>1 DEF Awaited
  <1>2. EntryOf(e)'
    BY <1>1, NoRunAssumption DEF EntryOf
  <1>3. StatusOf(e)'
    BY <1>0, <1>1, NoRunAssumption DEF ExecInv, StatusOf, Waits
  <1>4. AwaitOf(e)'
    BY <1>0, <1>1, <1>a, NoRunAssumption DEF ExecInv, AwaitOf
  <1>5. CancelOf(e)'
    <2>1. \A w \in cancelled : w \in Run /\ (Execution(w) = e => w # x)
      BY <1>1 DEF TypeOK
    <2>2. "closing" \notin InProgress \cup Unmarked
      BY DEF InProgress, Unmarked
    <2>. QED
      BY <1>0, <1>1, <1>a, <2>1, <2>2 DEF ExecInv, CancelOf, Waits
  <1>6. Beside(e)
    BY <1>1, <1>a, <1>e DEF Beside
  <1>. QED
    BY <1>0, <1>2, <1>3, <1>4, <1>5, <1>6, ExecStep DEF ExecInv

LEMMA ExecShutsDown ==
  ASSUME TypeOK, TypeOK', EntryInv, Shutdown
  PROVE  EntryInv'
  <1>. SUFFICES ASSUME NEW e \in Executions PROVE ExecInv(e)'
    BY DEF EntryInv
  <1>1. /\ active'[e] = active[e] \/ active'[e] = NoRun
        /\ UNCHANGED <<row, pc, outcome, entryStatus, settled, attached, cancelled>>
    BY DEF Shutdown, TypeOK
  <1>2. ExecInv(e)
    BY DEF EntryInv
  <1>3. EntryOf(e)'
    BY <1>1, <1>2, NoRunAssumption DEF ExecInv, EntryOf
  <1>4. StatusOf(e)'
    BY <1>1, <1>2, NoRunAssumption DEF ExecInv, StatusOf, Waits
  <1>5. CancelOf(e)'
    BY <1>1, <1>2 DEF ExecInv, CancelOf, Waits, Awaited
  <1>6. AwaitOf(e)'
    BY <1>1, <1>2, NoRunAssumption DEF ExecInv, AwaitOf, Awaited
  <1>. QED
    BY <1>3, <1>4, <1>5, <1>6 DEF ExecInv

LEMMA ExecRestarts ==
  ASSUME TypeOK, TypeOK', Restart
  PROVE  EntryInv'
  <1>. SUFFICES ASSUME NEW e \in Executions PROVE ExecInv(e)'
    BY DEF EntryInv
  <1>1. active'[e] = NoRun /\ settled' = {} /\ cancelled' = {} /\ \A x \in Run : entryStatus'[x] = "running"
    BY DEF Restart
  <1>2. \A x \in Run : pc'[x] \in {"idle", "over", "refused", "failed", "lost"}
    BY DEF Restart
  <1>3. EntryOf(e)' /\ StatusOf(e)' /\ CancelOf(e)'
    BY <1>1, NoRunAssumption DEF EntryOf, StatusOf, CancelOf
  <1>4. AwaitOf(e)'
    BY <1>2 DEF AwaitOf
  <1>. QED
    BY <1>3, <1>4 DEF ExecInv

LEMMA EntryInit == Init => EntryInv
  <1>. SUFFICES ASSUME Init, NEW e \in Executions PROVE ExecInv(e)
    BY DEF EntryInv
  <1>1. /\ active[e] = NoRun /\ settled = {} /\ cancelled = {}
        /\ \A x \in Run : entryStatus[x] = "running" /\ pc[x] = "idle"
    BY DEF Init
  <1>. QED
    BY <1>1, NoRunAssumption DEF ExecInv, EntryOf, StatusOf, AwaitOf, CancelOf

LEMMA EntryNext ==
  ASSUME TypeOK, TypeOK', OneRunInv, OneRunInv', EntryInv, [Next]_vars
  PROVE  EntryInv'
  <1>1. ASSUME NEW x \in Run, RunStep(x) PROVE EntryInv'
    BY <1>1, ExecRun, ExecBefore, ExecFinalizes, ExecThrows DEF RunStep
  <1>2. ASSUME NEW x \in Run, ExecutionTimeout(x) PROVE EntryInv'
    <2>1. StopExecution(Execution(x)) /\ Execution(x) \in Executions /\ UNCHANGED <<row, pc, outcome>>
      BY <1>2, RunExecution DEF ExecutionTimeout
    <2>. QED
      BY <2>1, ExecStops
  <1>3. ASSUME NEW e \in Executions, StopInRegularMode(e) PROVE EntryInv'
    <2>1. CASE IsQueued(e)
      <3>1. \A f \in Executions : Quiet(f)
        BY <1>3, <2>1 DEF StopInRegularMode, Quiet, Awaited
      <3>. QED
        BY <3>1, ExecUntouched
    <2>2. CASE ~IsQueued(e)
      BY <1>3, <2>2, ExecStops DEF StopInRegularMode
    <2>. QED
      BY <2>1, <2>2
  <1>. QED
    BY <1>1, <1>2, <1>3, ExecBefore, ExecOther, ExecShutsDown, ExecRestarts DEF Next

-----------------------------------------------------------------------------
(* A row that says "running" is being carried out                          *)

(* No run has resumed e. *)
Unresumed(e) == \A x \in Run : Execution(x) = e /\ ~IsNew(x) => pc[x] = "idle"

Stopping(e) == stopping[e] \in {"read", "write"}

(* What each place of the first run x says of the row: it is set before x  *)
(* counts as in progress, and whoever takes the entry or the workflow from *)
(* x still has to write, or has tried to.                                  *)
CarriedBy(e, x) ==
  /\ pc[x] # "lost"
  /\ pc[x] \in Unmarked \cup {"refused", "failed"} => row[e] # "running"
  /\ pc[x] = "registered" /\ active[e] = NoRun => row[e] # "running" \/ Stopping(e) \/ e \in unwritten
  /\ pc[x] \in {"saved", "over"} \/ x \in cancelled
       => row[e] # "running" \/ x \in cancelSaves \/ Stopping(e) \/ e \in unwritten

CarriedInv ==
  restarts = 0 =>
    \A e \in Executions : Unresumed(e) =>
      \A x \in Run : Execution(x) = e /\ IsNew(x) => CarriedBy(e, x)

(* There is one first run of an execution. *)
LEMMA FirstRun == \A e \in Executions : \E x \in Run : Execution(x) = e /\ IsNew(x)
  <1>. SUFFICES ASSUME NEW e \in Executions PROVE \E x \in Run : Execution(x) = e /\ IsNew(x)
    OBVIOUS
  <1>1. 1 \in 1 .. MaxRuns[e]
    BY MaxRunsAssumption
  <1>2. <<e, 1>> \in Run
    BY <1>1 DEF Run
  <1>3. Execution(<<e, 1>>) = e /\ IsNew(<<e, 1>>)
    BY DEF Execution, IsNew
  <1>. QED
    BY <1>2, <1>3

LEMMA FirstIsUnique ==
  \A x, y \in Run : IsNew(x) /\ IsNew(y) /\ Execution(x) = Execution(y) => x = y
  BY DEF Run, Execution, IsNew

(* The row does not become "running", no run of e moves, nobody who has to *)
(* write leaves without trying to, and the entry stays.                    *)
LEMMA CarriedStays ==
  ASSUME TypeOK, TypeOK', NEW e \in Executions, NEW x \in Run, CarriedBy(e, x),
         pc'[x] = pc[x],
         row'[e] = "running" => row[e] = "running",
         active'[e] = NoRun => active[e] = NoRun \/ pc[x] # "registered" \/ row'[e] # "running" \/ Stopping(e)',
         Stopping(e) => Stopping(e)' \/ row'[e] # "running" \/ e \in unwritten',
         x \in cancelled' => x \in cancelled \/ x \in cancelSaves',
         x \in cancelSaves => x \in cancelSaves' \/ row'[e] # "running" \/ e \in unwritten',
         e \in unwritten => e \in unwritten' \/ row'[e] # "running"
  PROVE  CarriedBy(e, x)'
  BY DEF CarriedBy

(* A step of a run leads it somewhere, other than back to its idle state,  *)
(* unless it is a cancellation that writes.                                *)
LEMMA RunMoves ==
  ASSUME NEW z \in Run, RunStep(z), ~(CancelSave(z) \/ CancelSaveFails(z))
  PROVE  \E l \in Control \ {"idle"} : Goto(z, l)
  <1>1. {"adding", "reserving", "marked", "refused", "failed", "registered", "saving", "over", "starting",
         "executing", "closing", "putToWait", "saved"} \subseteq Control \ {"idle"}
    BY DEF Control, Pending
  <1>. QED
    BY <1>1 DEF RunStep, Create, Reserve, MarkRunning, AddFails, Register, PreflightFails, ResponseFails,
       RunFails, SetRunning, StartWorkflow, StartThrows, PutToWait, WorkflowEnds, Save, SaveFails, Finalize

(* A run that has left its idle state does not return to it. *)
LEMMA NeverIdleAgain ==
  ASSUME TypeOK, [Next]_vars, NEW x \in Run, pc'[x] = "idle"
  PROVE  pc[x] = "idle"
  <1>1. ASSUME NEW z \in Run, NEW l, l # "idle", Goto(z, l) PROVE pc[x] = "idle"
    BY <1>1 DEF Goto, TypeOK
  <1>2. ASSUME NEW z \in Run, RunStep(z), ~(CancelSave(z) \/ CancelSaveFails(z)) PROVE pc[x] = "idle"
    <2>1. \E l \in Control \ {"idle"} : Goto(z, l)
      BY <1>2, RunMoves
    <2>. QED
      BY <1>1, <2>1
  <1>3. ASSUME NEW z \in Run, TimerFires(z) \/ Load(z) \/ WebhookResumes(z) \/ RunEnqueued(z)
        PROVE  pc[x] = "idle"
    <2>1. \E l \in Control \ {"idle"} : Goto(z, l)
      BY <1>3 DEF TimerFires, Load, WebhookResumes, RunEnqueued, Control
    <2>. QED
      BY <1>1, <2>1
  <1>4. CASE Restart
    BY <1>4 DEF Restart
  <1>5. CASE \/ \E z \in Run : CancelSave(z) \/ CancelSaveFails(z) \/ ExecutionTimeout(z)
             \/ \E e \in Executions : Poll(e) \/ Track(e) \/ StopRequest(e) \/ StopInRegularMode(e)
                                      \/ StopWrites(e) \/ StopFails(e)
             \/ StopTracking \/ Shutdown \/ UNCHANGED vars
    <2>1. pc' = pc
      BY <1>5 DEF CancelSave, CancelSaveFails, ExecutionTimeout, Poll, Track, StopRequest, StopInRegularMode,
         StopWrites, StopFails, StopTracking, Shutdown, vars
    <2>. QED
      BY <2>1
  <1>. QED
    BY <1>2, <1>3, <1>4, <1>5 DEF Next

(* What the step of a run of another execution leaves alone *)
LEMMA RunBeside ==
  ASSUME TypeOK, TypeOK', EntryInv, NEW e \in Executions, NEW z \in Run, Execution(z) # e,
         RunStep(z) \/ TimerFires(z) \/ Load(z) \/ WebhookResumes(z) \/ RunEnqueued(z)
  PROVE  /\ stopping' = stopping
         /\ row'[e] = row[e]
         /\ e \in unwritten' <=> e \in unwritten
         /\ active'[e] = active[e]
         /\ \A x \in Run : Execution(x) = e =>
              /\ pc'[x] = pc[x] /\ outcome'[x] = outcome[x]
              /\ x \in cancelled' <=> x \in cancelled
              /\ x \in cancelSaves' <=> x \in cancelSaves
              /\ x \in reserved => x \in reserved'
  <1>0. Execution(z) \in Executions /\ \A x \in Run : Execution(x) = e => x # z
    BY RunExecution
  <1>1. stopping' = stopping
    BY DEF RunStep, Create, Reserve, MarkRunning, AddFails, Register, PreflightFails, ResponseFails,
         RunFails, SetRunning, StartWorkflow, StartThrows, PutToWait, WorkflowEnds, Save, SaveFails,
         CancelSave, CancelSaveFails, Finalize, TimerFires, Load, WebhookResumes, RunEnqueued
  <1>2. \A x \in Run : Execution(x) = e => pc'[x] = pc[x]
    <2>1. pc' = pc \/ \E l : Goto(z, l)
      BY RunMoves DEF CancelSave, CancelSaveFails, TimerFires, Load, WebhookResumes, RunEnqueued
    <2>. QED
      BY <1>0, <2>1, MoveOne DEF TypeOK
  <1>3. row'[e] = row[e] /\ (e \in unwritten' <=> e \in unwritten)
    <2>1. UNCHANGED <<row, unwritten>> \/ WriteFails(Execution(z)) \/ \E v : Write(Execution(z), v)
      BY DEF RunStep, Create, Reserve, MarkRunning, AddFails, Register, PreflightFails, ResponseFails,
         RunFails, SetRunning, StartWorkflow, StartThrows, PutToWait, WorkflowEnds, Save, SaveFails,
         CancelSave, CancelSaveFails, Finalize, TimerFires, Load, WebhookResumes, RunEnqueued
    <2>. QED
      BY <1>0, <2>1 DEF Write, WriteFails, TypeOK
  <1>4. \A x \in Run : Execution(x) = e => /\ x \in cancelled' <=> x \in cancelled
                                           /\ x \in cancelSaves' <=> x \in cancelSaves
    BY <1>0 DEF RunStep, Create, Reserve, MarkRunning, AddFails, Register, PreflightFails, ResponseFails,
         RunFails, SetRunning, StartWorkflow, StartThrows, PutToWait, WorkflowEnds, Save, SaveFails,
         CancelSave, CancelSaveFails, Finalize, TimerFires, Load, WebhookResumes, RunEnqueued
  <1>5. \A x \in Run : Execution(x) = e => outcome'[x] = outcome[x]
    <2>1. outcome' = outcome \/ \E v : outcome' = [outcome EXCEPT ![z] = v]
      BY DEF RunStep, Create, Reserve, MarkRunning, AddFails, Register, PreflightFails, ResponseFails,
         RunFails, SetRunning, StartWorkflow, StartThrows, PutToWait, WorkflowEnds, Save, SaveFails,
         CancelSave, CancelSaveFails, Finalize, TimerFires, Load, WebhookResumes, RunEnqueued
    <2>. QED
      BY <1>0, <2>1 DEF TypeOK
  <1>6. \A y \in Run : active[Execution(z)] = y => Execution(y) = Execution(z)
    BY <1>0 DEF EntryInv, ExecInv, EntryOf
  <1>7. active'[e] = active[e]
    <2>1. CASE Finalize(z) \/ StartThrows(z)
      <3>1. SettleFound(Execution(z))
        BY <2>1 DEF Finalize, StartThrows
      <3>. QED
        BY <1>0, <1>6, <3>1 DEF SettleFound, SettleEntry, TypeOK
    <2>2. CASE ~(Finalize(z) \/ StartThrows(z))
      BY <1>0, <2>2 DEF TypeOK, RunStep, Create, Reserve, MarkRunning, AddFails, Register, PreflightFails, ResponseFails,
         RunFails, SetRunning, StartWorkflow, StartThrows, PutToWait, WorkflowEnds, Save, SaveFails,
         CancelSave, CancelSaveFails, Finalize, TimerFires, Load, WebhookResumes, RunEnqueued
    <2>. QED
      BY <2>1, <2>2
  <1>8. \A x \in Run : Execution(x) = e /\ x \in reserved => x \in reserved'
    <2>1. CASE Reserve(z)
      BY <2>1 DEF Reserve, Throttle
    <2>2. CASE AddFails(z)
      BY <1>0, <2>2 DEF AddFails, Release, ResolveNext
    <2>3. CASE Finalize(z) \/ StartThrows(z)
      <3>0. SettleFound(Execution(z))
        BY <2>3 DEF Finalize, StartThrows
      <3>1. CASE active[Execution(z)] = NoRun
        BY <3>0, <3>1 DEF SettleFound
      <3>2. CASE active[Execution(z)] # NoRun
        <4>. DEFINE y == active[Execution(z)]
        <4>1. \A x \in Run : Execution(x) = e => x # y
          BY <1>0, <1>6, <3>2 DEF TypeOK
        <4>2. SettleEntry(y)
          BY <3>0, <3>2 DEF SettleFound
        <4>. HIDE DEF y
        <4>. QED
          BY <4>1, <4>2 DEF SettleEntry, Release, ResolveNext
      <3>. QED
        BY <3>1, <3>2
    <2>4. CASE ~(Reserve(z) \/ AddFails(z) \/ Finalize(z) \/ StartThrows(z))
      BY <2>4 DEF RunStep, Create, Reserve, MarkRunning, AddFails, Register, PreflightFails, ResponseFails,
         RunFails, SetRunning, StartWorkflow, StartThrows, PutToWait, WorkflowEnds, Save, SaveFails,
         CancelSave, CancelSaveFails, Finalize, TimerFires, Load, WebhookResumes, RunEnqueued
    <2>. QED
      BY <2>1, <2>2, <2>3, <2>4
  <1>. QED
    BY <1>1, <1>2, <1>3, <1>4, <1>5, <1>7, <1>8

LEMMA CarriedBeside ==
  ASSUME TypeOK, TypeOK', EntryInv, NEW e \in Executions, NEW x \in Run, Execution(x) = e, CarriedBy(e, x),
         NEW z \in Run, Execution(z) # e,
         RunStep(z) \/ TimerFires(z) \/ Load(z) \/ WebhookResumes(z) \/ RunEnqueued(z)
  PROVE  CarriedBy(e, x)'
  <1>1. /\ stopping' = stopping /\ row'[e] = row[e] /\ active'[e] = active[e] /\ pc'[x] = pc[x]
        /\ e \in unwritten' <=> e \in unwritten
        /\ x \in cancelled' <=> x \in cancelled
        /\ x \in cancelSaves' <=> x \in cancelSaves
    BY RunBeside
  <1>. QED
    BY <1>1, CarriedStays DEF Stopping

(* The steps of the first run *)
LEMMA CarriedRun ==
  ASSUME TypeOK, TypeOK', EntryInv, NEW e \in Executions, NEW x \in Run, Execution(x) = e, CarriedBy(e, x),
         RunStep(x) \/ Load(x)
  PROVE  CarriedBy(e, x)'
  <1>. USE DEF TypeOK
  <1>0. x \in cancelled => pc[x] \in Pending
    BY DEF EntryInv, ExecInv, CancelOf
  <1>1. CASE Create(x)
    <2>1. row'[e] = "new" /\ pc'[x] = "adding"
      BY <1>1, MoveOne DEF Create, Write
    <2>. QED
      BY <2>1 DEF CarriedBy
  <1>2. CASE Reserve(x) \/ AddFails(x) \/ Load(x)
    <2>1. /\ pc[x] \in Unmarked /\ pc'[x] \in Unmarked \cup {"refused", "failed"}
          /\ UNCHANGED <<row, cancelled>>
      BY <1>2, MoveOne DEF Reserve, AddFails, Load, Unmarked
    <2>. QED
      BY <2>1 DEF CarriedBy, Unmarked
  <1>3. CASE MarkRunning(x) \/ Register(x) \/ SetRunning(x) \/ PreflightFails(x) \/ StartThrows(x)
    <2>1. /\ pc[x] \in {"reserving", "marked", "registered", "starting"}
          /\ pc'[x] \in {"marked", "starting", "saving", "closing"} \/ (pc'[x] = "registered" /\ active'[e] = x)
          /\ UNCHANGED cancelled
      BY <1>3, MoveOne DEF MarkRunning, Register, SetRunning, PreflightFails, StartThrows
    <2>2. x \notin cancelled /\ x # NoRun
      BY <1>0, <2>1, NoRunAssumption DEF Pending
    <2>. QED
      BY <2>1, <2>2 DEF CarriedBy, Unmarked
  <1>4. CASE ResponseFails(x)
    <2>1. /\ pc[x] = "registered" /\ active[e] = NoRun /\ pc'[x] = "over"
          /\ UNCHANGED <<row, cancelled, cancelSaves, unwritten, stopping>>
      BY <1>4, MoveOne DEF ResponseFails
    <2>. QED
      BY <2>1 DEF CarriedBy, Unmarked, Stopping
  <1>5. CASE StartWorkflow(x) \/ PutToWait(x) \/ WorkflowEnds(x)
    <2>1. /\ pc'[x] \in {"executing", "putToWait", "saving", "closing"} \/ (pc'[x] = "saved" /\ x \in cancelled)
          /\ UNCHANGED <<row, cancelled, cancelSaves, unwritten, stopping>>
      BY <1>5, MoveOne DEF StartWorkflow, PutToWait, WorkflowEnds
    <2>. QED
      BY <2>1 DEF CarriedBy, Unmarked, Stopping
  <1>6. CASE Save(x)
    <2>1. row'[e] = outcome[x] /\ pc'[x] \in {"saved", "over"}
      BY <1>6, MoveOne DEF Save, Write
    <2>. QED
      BY <2>1 DEF CarriedBy, Unmarked, Ended
  <1>7. CASE CancelSave(x)
    <2>1. row'[e] = "canceled" /\ pc' = pc
      BY <1>7 DEF CancelSave, Write
    <2>. QED
      BY <2>1 DEF CarriedBy
  <1>8. CASE RunFails(x) \/ SaveFails(x)
    <2>1. e \in unwritten' /\ pc'[x] \in {"saved", "over"}
      BY <1>8, MoveOne DEF RunFails, SaveFails, WriteFails
    <2>. QED
      BY <2>1 DEF CarriedBy, Unmarked
  <1>9. CASE CancelSaveFails(x)
    <2>1. e \in unwritten' /\ UNCHANGED <<row, pc>>
      BY <1>9 DEF CancelSaveFails, WriteFails
    <2>. QED
      BY <2>1 DEF CarriedBy
  <1>10. CASE Finalize(x)
    <2>1. /\ pc[x] = "saved" /\ pc'[x] = "over"
          /\ UNCHANGED <<row, cancelSaves, unwritten, stopping>>
      BY <1>10, MoveOne DEF Finalize
    <2>. QED
      BY <2>1 DEF CarriedBy, Unmarked, Stopping
  <1>. QED
    BY <1>1, <1>2, <1>3, <1>4, <1>5, <1>6, <1>7, <1>8, <1>9, <1>10 DEF RunStep

(* Whom stopExecution cancels has yet to save "canceled". *)
LEMMA StopTakes ==
  ASSUME TypeOK, EntryInv, NEW f \in Executions, StopExecution(f)
  PROVE  /\ \A e \in Executions \ {f} : active'[e] = active[e]
         /\ \A x \in Run : x \in cancelled' => x \in cancelled \/ x \in cancelSaves'
         /\ cancelSaves \subseteq cancelSaves'
  <1>1. CASE active[f] = NoRun \/ entryStatus[active[f]] = "waiting"
    BY <1>1 DEF StopExecution, TypeOK
  <1>2. CASE active[f] # NoRun /\ entryStatus[active[f]] # "waiting"
    <2>1. Execution(active[f]) = f
      BY <1>2 DEF EntryInv, ExecInv, EntryOf, TypeOK
    <2>. QED
      BY <1>2, <2>1 DEF StopExecution, SettleEntry, TypeOK
  <1>. QED
    BY <1>1, <1>2

LEMMA CarriedNext ==
  ASSUME TypeOK, TypeOK', EntryInv, CarriedInv, [Next]_vars
  PROVE  CarriedInv'
  <1>. SUFFICES ASSUME restarts' = 0, NEW e \in Executions, Unresumed(e)',
                       NEW x \in Run, Execution(x) = e, IsNew(x)
                PROVE  CarriedBy(e, x)'
    BY DEF CarriedInv
  <1>1. ~Restart
    <2>1. restarts + 1 # 0
      BY DEF TypeOK
    <2>. QED
      BY <2>1 DEF Restart
  <1>2. restarts = 0
    BY <1>1 DEF Next, vars, RunStep, Create, Reserve, MarkRunning, AddFails, Register, PreflightFails, ResponseFails,
         RunFails, SetRunning, StartWorkflow, StartThrows, PutToWait, WorkflowEnds, Save, SaveFails,
         CancelSave, CancelSaveFails, Finalize, TimerFires, Load, WebhookResumes, RunEnqueued, ExecutionTimeout, Poll, Track, StopRequest,
         StopInRegularMode, StopWrites, StopFails, StopTracking, Shutdown
  <1>3. Unresumed(e)
    BY NeverIdleAgain DEF Unresumed
  <1>4. CarriedBy(e, x)
    BY <1>2, <1>3 DEF CarriedInv
  <1>5. \A z \in Run : Execution(z) = e /\ (pc[z] # "idle" \/ pc'[z] # "idle") => z = x
    BY <1>3, FirstIsUnique DEF Unresumed
  <1>6. ASSUME NEW z \in Run, RunStep(z) \/ Load(z) \/ TimerFires(z) \/ WebhookResumes(z) \/ RunEnqueued(z)
        PROVE  CarriedBy(e, x)'
    <2>1. CASE Execution(z) # e
      BY <1>4, <1>6, <2>1, CarriedBeside
    <2>2. CASE z = x
      <3>1. ~(TimerFires(x) \/ WebhookResumes(x) \/ RunEnqueued(x))
        BY DEF TimerFires, WebhookResumes, RunEnqueued, Fresh
      <3>. QED
        BY <1>4, <1>6, <2>2, <3>1, CarriedRun
    <2>3. CASE Execution(z) = e /\ z # x
      <3>1. pc'[z] = "idle" /\ pc[z] = "idle"
        BY <1>5, <2>3
      <3>2. CASE CancelSave(z)
        <4>1. row'[e] = "canceled" /\ pc' = pc
          BY <2>3, <3>2 DEF CancelSave, Write, TypeOK
        <4>. QED
          BY <1>4, <4>1 DEF CarriedBy
      <3>4. CASE CancelSaveFails(z)
        <4>1. e \in unwritten' /\ UNCHANGED <<row, pc>>
          BY <2>3, <3>4 DEF CancelSaveFails, WriteFails
        <4>. QED
          BY <1>4, <4>1 DEF CarriedBy
      <3>3. CASE ~(CancelSave(z) \/ CancelSaveFails(z))
        <4>1. \E l \in Control \ {"idle"} : Goto(z, l)
          <5>1. {"loading", "adding", "failed"} \subseteq Control \ {"idle"}
            BY DEF Control
          <5>. QED
            BY <1>6, <3>3, <5>1, RunMoves DEF TimerFires, Load, WebhookResumes, RunEnqueued
        <4>. QED
          BY <3>1, <4>1, MoveOne DEF TypeOK
      <3>. QED
        BY <3>2, <3>3, <3>4
    <2>. QED
      BY <2>1, <2>2, <2>3
  <1>7. ASSUME NEW z \in Run, ExecutionTimeout(z) PROVE CarriedBy(e, x)'
    <2>1. StopExecution(Execution(z)) /\ Execution(z) \in Executions /\ UNCHANGED <<row, unwritten, pc, stopping>>
      BY <1>7, RunExecution DEF ExecutionTimeout
    <2>2. Execution(z) = e => pc[x] # "registered"
      BY <1>5, <1>7 DEF ExecutionTimeout, Pending
    <2>. QED
      BY <1>4, <2>1, <2>2, StopTakes, CarriedStays DEF Stopping
  <1>8. ASSUME NEW f \in Executions, StopInRegularMode(f) PROVE CarriedBy(e, x)'
    <2>1. UNCHANGED <<row, unwritten, pc>> /\ stopping' = [stopping EXCEPT ![f] = "write"] /\ stopping[f] = "read"
      BY <1>8 DEF StopInRegularMode
    <2>2. Stopping(e) => Stopping(e)'
      BY <2>1 DEF Stopping, TypeOK
    <2>3. f = e => Stopping(e)'
      BY <2>1 DEF Stopping, TypeOK
    <2>4. CASE IsQueued(f)
      BY <1>4, <1>8, <2>1, <2>2, <2>4, CarriedStays DEF StopInRegularMode
    <2>5. CASE ~IsQueued(f)
      <3>1. StopExecution(f)
        BY <1>8, <2>5 DEF StopInRegularMode
      <3>. QED
        BY <1>4, <2>1, <2>2, <2>3, <3>1, StopTakes, CarriedStays
    <2>. QED
      BY <2>4, <2>5
  <1>9. ASSUME NEW f \in Executions, StopRequest(f) \/ StopWrites(f) \/ StopFails(f) PROVE CarriedBy(e, x)'
    <2>1. /\ UNCHANGED <<pc, active, cancelled, cancelSaves>>
          /\ row'[e] = "running" => row[e] = "running"
          /\ Stopping(e) => Stopping(e)' \/ row'[e] # "running" \/ e \in unwritten'
          /\ e \in unwritten => e \in unwritten' \/ row'[e] # "running"
      BY <1>9 DEF StopRequest, StopWrites, StopFails, Write, WriteFails, Stopping, TypeOK
    <2>. QED
      BY <1>4, <2>1, CarriedStays
  <1>10. CASE \/ \E f \in Executions : Poll(f) \/ Track(f)
              \/ StopTracking \/ UNCHANGED vars
    <2>1. UNCHANGED <<row, unwritten, pc, active, cancelled, cancelSaves, stopping>>
      BY <1>10 DEF Poll, Track, StopTracking, vars
    <2>. QED
      BY <1>4, <2>1, CarriedStays DEF Stopping
  <1>11. CASE Shutdown
    <2>1. UNCHANGED <<row, unwritten, pc, cancelled, cancelSaves, stopping>>
      BY <1>11 DEF Shutdown
    <2>2. active'[e] = NoRun /\ active[e] # NoRun => pc[x] # "registered"
      <3>1. ASSUME active'[e] = NoRun, active[e] # NoRun PROVE active[e] \in Run /\ entryStatus[active[e]] = "waiting"
        BY <1>11, <3>1 DEF Shutdown, TypeOK
      <3>2. ExecInv(e) /\ "registered" \in Under
        BY DEF EntryInv, Under, InProgress
      <3>. QED
        BY <3>1, <3>2 DEF ExecInv, EntryOf, StatusOf
    <2>. QED
      BY <1>4, <2>1, <2>2, CarriedStays DEF Stopping
  <1>. QED
    BY <1>1, <1>6, <1>7, <1>8, <1>9, <1>10, <1>11 DEF Next

LEMMA CarriedInit == Init => CarriedInv
  <1>. SUFFICES ASSUME Init, NEW e \in Executions, NEW x \in Run PROVE CarriedBy(e, x)
    BY DEF CarriedInv
  <1>1. pc[x] = "idle" /\ row[e] = "none" /\ cancelled = {}
    BY DEF Init
  <1>. QED
    BY <1>1 DEF CarriedBy

(* The invariants proved before, which give the types *)
Typed == OneRunInv /\ CapacityInv /\ ActiveTyped /\ RestTyped

LEMMA TypedTypes == (Typed => TypeOK) /\ (Typed' => TypeOK')
  BY DEF Typed, OneRunInv, RowPcOK, CapacityInv, SlotsInv, SlotsTyped, ActiveTyped, RestTyped, TypeOK,
     QueueTypeOK

LEMMA TypedInit == Init => Typed
  BY OneRunInit, CapacityInit, RestartsAssumption DEF Init, RestTyped, Typed

LEMMA TypedNext == Typed /\ [Next]_vars => Typed'
  BY OneRunNext, CapacityNext, ActiveStep, RestTypedNext DEF Typed

(* Until it is resumed or the process restarts, an execution whose row     *)
(* says "running" has a run that carries it out, or a cancellation or a    *)
(* stop that has yet to write, unless a statement that concerns it failed: *)
(* no interleaving of workflows that fail, timeouts, stops and the         *)
(* shutdown alone leaves it "running" with nobody to update it.            *)
THEOREM CarriedOutTheorem == Spec => []RunningIsCarriedOut
  <1>. DEFINE IInv == Typed /\ EntryInv /\ CarriedInv
  <1>2. Init => IInv
    BY TypedInit, EntryInit, CarriedInit
  <1>4. IInv /\ [Next]_vars => IInv'
    <2>. SUFFICES ASSUME Typed, EntryInv, CarriedInv, [Next]_vars PROVE IInv'
      OBVIOUS
    <2>1. TypeOK /\ Typed' /\ TypeOK' /\ OneRunInv /\ OneRunInv'
      BY TypedTypes, TypedNext DEF Typed
    <2>. QED
      BY <2>1, EntryNext, CarriedNext
  <1>5. IInv => RunningIsCarriedOut
    <2>. SUFFICES ASSUME TypeOK, CarriedInv PROVE RunningIsCarriedOut
      BY TypedTypes
    <2>. SUFFICES ASSUME NEW e \in Executions, row[e] = "running", restarts = 0, Unresumed(e)
                  PROVE  \/ \E x \in Run : Execution(x) = e /\ (pc[x] \in Unfinished \/ x \in cancelSaves)
                         \/ stopping[e] \in {"read", "write"}
                         \/ e \in unwritten
      BY DEF RunningIsCarriedOut, Unresumed
    <2>1. PICK x \in Run : Execution(x) = e /\ IsNew(x)
      BY FirstRun
    <2>2. CarriedBy(e, x) /\ pc[x] \in Control
      BY <2>1 DEF CarriedInv, TypeOK
    <2>. QED
      BY <2>1, <2>2 DEF CarriedBy, Control, Pending, Unfinished, InProgress, Unmarked, Stopping
  <1>. QED
    BY <1>2, <1>4, <1>5, PTL DEF Spec

-----------------------------------------------------------------------------
(* The slots that are held                                                 *)

(* The executions that ExecutionService.stop has dealt with:               *)
(* ConcurrencyQueue.remove may have let somebody in for each.              *)
Stopped == {e \in Executions : stopping[e] \in {"write", "done"}}

ReservedInv == isEnabled => Cardinality(reserved) <= Limit + Cardinality(Stopped)

LEMMA StoppedFinite == IsFiniteSet(Stopped) /\ IsFiniteSet(Stopped')
  <1>1. Stopped \in SUBSET Executions /\ Stopped' \in SUBSET Executions
    BY DEF Stopped
  <1>. QED
    BY <1>1, ExecutionsAssumption, FS_Subset

(* The number of slots held, as the capacity accounts for it *)
LEMMA HeldSlots ==
  ASSUME SlotsInv, isEnabled
  PROVE  /\ Cardinality(reserved) = Limit - capacity - Len(queue)
         /\ Cardinality(reserved) \in Nat /\ Len(queue) \in Nat /\ capacity \in Int
  <1>1. SlotsTyped /\ CapacityAccounts
    BY DEF SlotsInv
  <1>2. Cardinality(reserved) \in Nat /\ Len(queue) \in Nat /\ capacity \in Int
    BY <1>1, FS_CardinalityType, LenProperties DEF SlotsTyped
  <1>. QED
    BY <1>1, <1>2, LimitAssumption DEF CapacityAccounts

LEMMA HeldSlotsAfter ==
  ASSUME SlotsInv', isEnabled'
  PROVE  /\ Cardinality(reserved') = Limit - capacity' - Len(queue')
         /\ Cardinality(reserved') \in Nat /\ Len(queue') \in Nat /\ capacity' \in Int
  <1>1. SlotsTyped' /\ CapacityAccounts'
    BY DEF SlotsInv
  <1>2. Cardinality(reserved') \in Nat /\ Len(queue') \in Nat /\ capacity' \in Int
    BY <1>1, FS_CardinalityType, LenProperties DEF SlotsTyped
  <1>. QED
    BY <1>1, <1>2, LimitAssumption DEF CapacityAccounts

(* Whoever is let in by a release takes the slot that was released. *)
LEMMA ReleaseHolds ==
  ASSUME SlotsInv, SlotsInv', isEnabled, isEnabled', NEW x, Release(x)
  PROVE  Cardinality(reserved') <= Cardinality(reserved)
  <1>1. SlotsTyped /\ SlotsTyped'
    BY DEF SlotsInv
  <1>2. CASE x \notin reserved
    <2>1. reserved' = reserved
      BY <1>2 DEF Release
    <2>2. Cardinality(reserved) \in Nat
      BY HeldSlots, HeldSlotsAfter
    <2>. QED
      BY <2>1, <2>2
  <1>3. CASE x \in reserved
    <2>1. capacity' = capacity + 1 /\ queue' = (IF queue = << >> THEN queue ELSE Tail(queue))
      BY <1>3 DEF Release, ResolveNext
    <2>2. Len(queue') >= Len(queue) - 1
      <3>1. CASE queue = << >>
        BY <1>1, <2>1, <3>1, LenProperties DEF SlotsTyped
      <3>2. CASE queue # << >>
        BY <1>1, <2>1, <3>2, HeadTailProperties, LenProperties DEF SlotsTyped
      <3>. QED
        BY <3>1, <3>2
    <2>3. /\ Cardinality(reserved) = Limit - capacity - Len(queue)
          /\ Len(queue) \in Nat /\ capacity \in Int
      BY HeldSlots, HeldSlotsAfter
    <2>4. /\ Cardinality(reserved') = Limit - capacity' - Len(queue')
          /\ Len(queue') \in Nat /\ capacity' \in Int
      BY HeldSlots, HeldSlotsAfter
    <2>. QED
      BY <2>1, <2>2, <2>3, <2>4, LimitAssumption
  <1>. QED
    BY <1>2, <1>3

LEMMA SettleHolds ==
  ASSUME SlotsInv, SlotsInv', isEnabled, isEnabled', NEW y, SettleEntry(y)
  PROVE  Cardinality(reserved') <= Cardinality(reserved)
  <1>1. CASE y \in settled
    <2>1. reserved' = reserved
      BY <1>1 DEF SettleEntry
    <2>2. Cardinality(reserved) \in Nat
      BY HeldSlots, HeldSlotsAfter
    <2>. QED
      BY <2>1, <2>2
  <1>2. CASE y \notin settled
    BY <1>2, ReleaseHolds DEF SettleEntry
  <1>. QED
    BY <1>1, <1>2

LEMMA StopHolds ==
  ASSUME SlotsInv, SlotsInv', isEnabled, isEnabled', NEW e \in Executions, StopExecution(e)
  PROVE  Cardinality(reserved') <= Cardinality(reserved)
  <1>1. reserved' = reserved \/ SettleEntry(active[e])
    BY DEF StopExecution
  <1>2. Cardinality(reserved) \in Nat
    BY HeldSlots, HeldSlotsAfter
  <1>. QED
    BY <1>1, <1>2, SettleHolds

(* remove returns the share of the run that leaves the queue, and          *)
(* lets the next one in although no slot is free.                          *)
LEMMA RemoveHolds ==
  ASSUME SlotsInv, SlotsInv', NEW e \in Executions, IsQueued(e), RemoveQueued(e)
  PROVE  Cardinality(reserved') <= Cardinality(reserved) + 1
  <1>. DEFINE rest == WithoutFirst(e)
  <1>1. rest \in Seq(Run) /\ Len(rest) = Len(queue) - 1
    BY WithoutFirstProperties
  <1>2. isEnabled /\ isEnabled' /\ capacity' = capacity + 1 /\ queue' = (IF rest = << >> THEN rest ELSE Tail(rest))
    BY DEF RemoveQueued, IsQueued, ResolveNext
  <1>. HIDE DEF rest
  <1>l. Len(rest) \in Nat
    BY <1>1, LenProperties
  <1>3. Len(queue') >= Len(rest) - 1
    <2>1. CASE rest = << >>
      <3>1. Len(queue') = Len(rest)
        BY <1>2, <2>1
      <3>. QED
        BY <1>l, <3>1
    <2>2. CASE rest # << >>
      BY <1>1, <1>2, <1>l, <2>2, HeadTailProperties
    <2>. QED
      BY <2>1, <2>2
  <1>4. /\ Cardinality(reserved) = Limit - capacity - Len(queue)
        /\ Len(queue) \in Nat /\ capacity \in Int
    BY <1>2, HeldSlots, HeldSlotsAfter
  <1>5. /\ Cardinality(reserved') = Limit - capacity' - Len(queue')
        /\ Len(queue') \in Nat /\ capacity' \in Int
    BY <1>2, HeldSlots, HeldSlotsAfter
  <1>. QED
    <2>1. capacity' = capacity + 1 /\ Len(queue') >= Len(queue) - 2
      BY <1>1, <1>2, <1>3, <1>4, <1>5, <1>l
    <2>. QED
      BY <2>1, <1>4, <1>5, LimitAssumption

(* Nobody is let in, and no stop is forgotten. *)
LEMMA ReservedStays ==
  ASSUME SlotsInv, SlotsInv', ReservedInv,
         isEnabled' => isEnabled /\ Cardinality(reserved') <= Cardinality(reserved),
         \A e \in Executions : stopping[e] \in {"write", "done"} => stopping'[e] \in {"write", "done"}
  PROVE  ReservedInv'
  <1>. SUFFICES ASSUME isEnabled' PROVE Cardinality(reserved') <= Limit + Cardinality(Stopped')
    BY DEF ReservedInv
  <1>1. Stopped \in SUBSET Stopped'
    BY DEF Stopped
  <1>2. Cardinality(Stopped) <= Cardinality(Stopped') /\ Cardinality(Stopped) \in Nat /\ Cardinality(Stopped') \in Nat
    BY <1>1, StoppedFinite, FS_Subset, FS_CardinalityType
  <1>3. Cardinality(reserved) \in Nat /\ Cardinality(reserved') \in Nat
    BY HeldSlots, HeldSlotsAfter
  <1>. QED
    BY <1>2, <1>3, LimitAssumption DEF ReservedInv

LEMMA ReservedNext ==
  ASSUME TypeOK, TypeOK', SlotsInv, SlotsInv', ReservedInv, [Next]_vars
  PROVE  ReservedInv'
  <1>1. ASSUME NEW x \in Run, Reserve(x) PROVE ReservedInv'
    <2>1. stopping' = stopping /\ Throttle(x) /\ isEnabled' = isEnabled
      BY <1>1 DEF Reserve, Throttle
    <2>2. CASE ~isEnabled \/ reserved' = reserved
      <3>1. isEnabled' => Cardinality(reserved') <= Cardinality(reserved)
        BY <2>1, <2>2, HeldSlots, HeldSlotsAfter
      <3>. QED
        BY <2>1, <3>1, ReservedStays
    <2>3. CASE isEnabled /\ reserved' # reserved
      <3>1. capacity' >= 0
        BY <2>1, <2>3 DEF Throttle, TypeOK, QueueTypeOK
      <3>2. /\ Cardinality(reserved') = Limit - capacity' - Len(queue')
            /\ Len(queue') \in Nat /\ capacity' \in Int
        BY <2>1, <2>3, HeldSlots, HeldSlotsAfter
      <3>3. Cardinality(Stopped') \in Nat
        BY StoppedFinite, FS_CardinalityType
      <3>. QED
        BY <3>1, <3>2, <3>3, LimitAssumption DEF ReservedInv
    <2>. QED
      BY <2>2, <2>3
  <1>2. ASSUME UNCHANGED <<isEnabled, reserved>>,
               \A e \in Executions : stopping[e] \in {"write", "done"} => stopping'[e] \in {"write", "done"}
        PROVE  ReservedInv'
    <2>1. isEnabled => Cardinality(reserved') <= Cardinality(reserved)
      BY <1>2, HeldSlots, HeldSlotsAfter
    <2>. QED
      BY <1>2, <2>1, ReservedStays
  <1>3. ASSUME NEW x \in Run, AddFails(x) PROVE ReservedInv'
    <2>1. stopping' = stopping /\ Release(x) /\ isEnabled' = isEnabled
      BY <1>3 DEF AddFails, Release
    <2>. QED
      BY <2>1, ReleaseHolds, ReservedStays
  <1>4. ASSUME NEW x \in Run, Finalize(x) \/ StartThrows(x) PROVE ReservedInv'
    <2>1. stopping' = stopping /\ (SettleEntry(active[Execution(x)]) \/ UNCHANGED <<isEnabled, reserved>>)
      BY <1>4 DEF Finalize, StartThrows, SettleFound
    <2>2. CASE SettleEntry(active[Execution(x)])
      <3>1. isEnabled' = isEnabled
        BY <2>2 DEF SettleEntry, Release
      <3>. QED
        BY <2>1, <2>2, <3>1, SettleHolds, ReservedStays
    <2>. QED
      BY <1>2, <2>1, <2>2
  <1>5. ASSUME NEW x \in Run,
               Create(x) \/ MarkRunning(x) \/ Register(x) \/ PreflightFails(x) \/ ResponseFails(x)
               \/ RunFails(x) \/ SetRunning(x) \/ StartWorkflow(x) \/ PutToWait(x) \/ WorkflowEnds(x)
               \/ Save(x) \/ SaveFails(x) \/ CancelSave(x) \/ CancelSaveFails(x) \/ TimerFires(x)
               \/ Load(x) \/ WebhookResumes(x) \/ RunEnqueued(x)
        PROVE  ReservedInv'
    <2>1. UNCHANGED <<isEnabled, reserved, stopping>>
      BY <1>5 DEF Create, MarkRunning, Register, PreflightFails, ResponseFails, RunFails, SetRunning,
         StartWorkflow, PutToWait, WorkflowEnds, Save, SaveFails, CancelSave, CancelSaveFails, TimerFires,
         Load, WebhookResumes, RunEnqueued
    <2>. QED
      BY <1>2, <2>1
  <1>6. ASSUME NEW e \in Executions, StopExecution(e),
               \A f \in Executions : stopping[f] \in {"write", "done"} => stopping'[f] \in {"write", "done"}
        PROVE  ReservedInv'
    <2>1. isEnabled' = isEnabled
      BY <1>6 DEF StopExecution, SettleEntry, Release
    <2>. QED
      BY <1>6, <2>1, StopHolds, ReservedStays
  <1>7. ASSUME NEW x \in Run, ExecutionTimeout(x) PROVE ReservedInv'
    <2>1. Execution(x) \in Executions /\ stopping' = stopping /\ StopExecution(Execution(x))
      BY <1>7, RunExecution DEF ExecutionTimeout
    <2>. QED
      BY <1>6, <2>1
  <1>8. ASSUME NEW e \in Executions, StopInRegularMode(e) PROVE ReservedInv'
    <2>1. stopping' = [stopping EXCEPT ![e] = "write"] /\ stopping[e] = "read"
      BY <1>8 DEF StopInRegularMode
    <2>2. \A f \in Executions : stopping[f] \in {"write", "done"} => stopping'[f] \in {"write", "done"}
      BY <2>1 DEF TypeOK
    <2>3. CASE ~IsQueued(e)
      BY <1>6, <1>8, <2>2, <2>3 DEF StopInRegularMode
    <2>4. CASE IsQueued(e)
      <3>1. RemoveQueued(e) /\ isEnabled /\ isEnabled'
        BY <1>8, <2>4 DEF StopInRegularMode, RemoveQueued, IsQueued
      <3>2. Stopped' = Stopped \cup {e} /\ e \notin Stopped
        BY <2>1 DEF Stopped, TypeOK
      <3>3. Cardinality(Stopped') = Cardinality(Stopped) + 1 /\ Cardinality(Stopped) \in Nat
        BY <3>2, StoppedFinite, FS_AddElement, FS_CardinalityType
      <3>4. Cardinality(reserved') <= Cardinality(reserved) + 1
        BY <2>4, <3>1, RemoveHolds
      <3>5. Cardinality(reserved) \in Nat /\ Cardinality(reserved') \in Nat
        BY <3>1, HeldSlots, HeldSlotsAfter
      <3>. QED
        BY <3>1, <3>3, <3>4, <3>5, LimitAssumption DEF ReservedInv
    <2>. QED
      BY <2>3, <2>4
  <1>9. ASSUME NEW e \in Executions, Poll(e) \/ Track(e) \/ StopRequest(e) \/ StopWrites(e) \/ StopFails(e)
        PROVE  ReservedInv'
    <2>1. /\ UNCHANGED <<isEnabled, reserved>>
          /\ \A f \in Executions : stopping[f] \in {"write", "done"} => stopping'[f] \in {"write", "done"}
      BY <1>9 DEF Poll, Track, StopRequest, StopWrites, StopFails, TypeOK
    <2>. QED
      BY <1>2, <2>1
  <1>10. CASE StopTracking \/ UNCHANGED vars
    BY <1>2, <1>10 DEF StopTracking, vars
  <1>11. CASE Shutdown
    BY <1>11 DEF Shutdown, Disable, ReservedInv
  <1>12. CASE Restart
    <2>1. Cardinality(reserved') = 0 /\ Cardinality(Stopped') \in Nat
      BY <1>12, FS_EmptySet, StoppedFinite, FS_CardinalityType DEF Restart, QueueReset
    <2>. QED
      BY <2>1, LimitAssumption DEF ReservedInv
  <1>. QED
    BY <1>1, <1>3, <1>4, <1>5, <1>7, <1>8, <1>9, <1>10, <1>11, <1>12 DEF Next, RunStep

LEMMA ReservedInit == Init => ReservedInv
  <1>. SUFFICES ASSUME Init PROVE ReservedInv
    OBVIOUS
  <1>1. Cardinality(reserved) = 0 /\ Cardinality(Stopped) \in Nat
    BY FS_EmptySet, StoppedFinite, FS_CardinalityType DEF Init, QueueInit
  <1>. QED
    BY <1>1, LimitAssumption DEF ReservedInv

-----------------------------------------------------------------------------
(* Every execution in progress holds a slot                                *)

(* The runs of e whose execution is in progress, or that have yet to       *)
(* settle an entry after it, and the slots that runs of e hold; a slot is  *)
(* released with the entry that finalizeExecution finds, which may be that *)
(* of a later run.                                                         *)
Unsettled(e) == {x \in Run : Execution(x) = e /\ x \notin cancelled /\ pc[x] \in InProgress \cup {"saved"}}
Held(e) == {x \in Run : Execution(x) = e /\ x \in reserved /\ pc[x] \in InProgress \cup {"saved", "closing", "over"}}

(* Two cases in which the count is lost, because the timeout of a run that *)
(* has saved took the entry of the one that resumed the execution: nothing *)
(* is left to release the slots of e, or no run of e is in progress, and   *)
(* none can be.                                                            *)
Stuck(e) ==
  /\ active[e] = NoRun
  /\ row[e] # "waiting"
  /\ Held(e) # {}
  /\ \A x \in Run : Execution(x) = e => pc[x] # "marked" /\ ~Waits(x) /\ (IsNew(x) => pc[x] \notin Unmarked)

Dead(e) ==
  /\ row[e] # "waiting"
  /\ \A x \in Run : Execution(x) = e => pc[x] \notin InProgress /\ (IsNew(x) => pc[x] \notin Unmarked)

SlotOf(e) == Cardinality(Held(e)) >= Cardinality(Unsettled(e)) \/ Stuck(e) \/ Dead(e)

SlotInv == isEnabled => \A e \in Executions : stopping[e] = "no" => SlotOf(e)

LEMMA SlotsFinite ==
  ASSUME NEW e \in Executions
  PROVE  /\ IsFiniteSet(Held(e)) /\ IsFiniteSet(Unsettled(e))
         /\ IsFiniteSet(Held(e)') /\ IsFiniteSet(Unsettled(e)')
  <1>1. IsFiniteSet({e} \X (1 .. MaxRuns[e]))
    <2>1. IsFiniteSet({e})
      BY FS_Singleton
    <2>2. MaxRuns[e] \in Int
      BY MaxRunsAssumption
    <2>3. IsFiniteSet(1 .. MaxRuns[e])
      BY <2>2, FS_Interval
    <2>. QED
      BY <2>1, <2>3, FS_Product
  <1>2. \A x \in Run : Execution(x) = e => x \in {e} \X (1 .. MaxRuns[e])
    BY DEF Run, Execution
  <1>3. /\ Held(e) \in SUBSET ({e} \X (1 .. MaxRuns[e])) /\ Unsettled(e) \in SUBSET ({e} \X (1 .. MaxRuns[e]))
        /\ Held(e)' \in SUBSET ({e} \X (1 .. MaxRuns[e])) /\ Unsettled(e)' \in SUBSET ({e} \X (1 .. MaxRuns[e]))
    BY <1>2 DEF Held, Unsettled
  <1>. QED
    BY <1>1, <1>3, FS_Subset

(* What H and U lose and gain keeps H no smaller than U. *)
LEMMA CountStays ==
  ASSUME NEW H, NEW U, NEW K, NEW V, IsFiniteSet(H), IsFiniteSet(U), IsFiniteSet(K), IsFiniteSet(V),
         Cardinality(H) >= Cardinality(U), H \subseteq K, V \subseteq U
  PROVE  Cardinality(K) >= Cardinality(V)
  <1>1. Cardinality(H) <= Cardinality(K) /\ Cardinality(V) <= Cardinality(U)
    BY FS_Subset
  <1>2. Cardinality(H) \in Nat /\ Cardinality(U) \in Nat /\ Cardinality(K) \in Nat /\ Cardinality(V) \in Nat
    BY FS_CardinalityType
  <1>. QED
    BY <1>1, <1>2

LEMMA CountDrops ==
  ASSUME NEW H, NEW U, NEW K, NEW V, IsFiniteSet(H), IsFiniteSet(U), IsFiniteSet(K), IsFiniteSet(V),
         Cardinality(H) >= Cardinality(U), NEW y, NEW w \in U, H \ {y} \subseteq K, V \subseteq U \ {w}
  PROVE  Cardinality(K) >= Cardinality(V)
  <1>1. /\ IsFiniteSet(H \ {y}) /\ Cardinality(H \ {y}) >= Cardinality(H) - 1
        /\ IsFiniteSet(U \ {w}) /\ Cardinality(U \ {w}) = Cardinality(U) - 1
    <2>1. Cardinality(H) \in Nat
      BY FS_CardinalityType
    <2>2. IsFiniteSet(H \ {y}) /\ (Cardinality(H \ {y}) = Cardinality(H) - 1 \/ Cardinality(H \ {y}) = Cardinality(H))
      BY FS_RemoveElement
    <2>3. IsFiniteSet(U \ {w}) /\ Cardinality(U \ {w}) = Cardinality(U) - 1
      BY FS_RemoveElement
    <2>. QED
      BY <2>1, <2>2, <2>3
  <1>2. Cardinality(H) \in Nat /\ Cardinality(U) \in Nat /\ Cardinality(H \ {y}) \in Nat
    BY <1>1, FS_CardinalityType
  <1>3. Cardinality(H \ {y}) >= Cardinality(U \ {w})
    BY <1>1, <1>2
  <1>. QED
    BY <1>1, <1>3, CountStays

LEMMA CountGains ==
  ASSUME NEW H, NEW U, NEW K, NEW V, IsFiniteSet(H), IsFiniteSet(U), IsFiniteSet(K), IsFiniteSet(V),
         Cardinality(H) >= Cardinality(U), NEW x, x \notin H, H \cup {x} \subseteq K, V \subseteq U \cup {x}
  PROVE  Cardinality(K) >= Cardinality(V)
  <1>1. /\ IsFiniteSet(H \cup {x}) /\ Cardinality(H \cup {x}) = Cardinality(H) + 1
        /\ IsFiniteSet(U \cup {x}) /\ Cardinality(U \cup {x}) <= Cardinality(U) + 1
    <2>1. Cardinality(U) \in Nat
      BY FS_CardinalityType
    <2>2. IsFiniteSet(U \cup {x}) /\ (Cardinality(U \cup {x}) = Cardinality(U) + 1 \/ Cardinality(U \cup {x}) = Cardinality(U))
      BY FS_AddElement
    <2>3. IsFiniteSet(H \cup {x}) /\ Cardinality(H \cup {x}) = Cardinality(H) + 1
      BY FS_AddElement
    <2>. QED
      BY <2>1, <2>2, <2>3
  <1>2. Cardinality(H) \in Nat /\ Cardinality(U) \in Nat /\ Cardinality(U \cup {x}) \in Nat
    BY <1>1, FS_CardinalityType
  <1>3. Cardinality(H \cup {x}) >= Cardinality(U \cup {x})
    BY <1>1, <1>2
  <1>. QED
    BY <1>1, <1>3, CountStays

(* A step that keeps the slots of e and puts nothing in progress *)
LEMMA SlotKept ==
  ASSUME NEW e \in Executions, SlotOf(e), Held(e) \subseteq Held(e)', Unsettled(e)' \subseteq Unsettled(e),
         Stuck(e) => Stuck(e)', Dead(e) => Dead(e)'
  PROVE  SlotOf(e)'
  <1>1. /\ IsFiniteSet(Held(e)) /\ IsFiniteSet(Unsettled(e))
        /\ IsFiniteSet(Held(e)') /\ IsFiniteSet(Unsettled(e)')
    BY SlotsFinite
  <1>2. ASSUME Cardinality(Held(e)) >= Cardinality(Unsettled(e))
        PROVE  Cardinality(Held(e)') >= Cardinality(Unsettled(e)')
    BY <1>1, <1>2, CountStays
  <1>. QED
    BY <1>2 DEF SlotOf

(* A step that no run of e takes, and that does not put e to wait *)
LEMMA SlotBeside ==
  ASSUME NEW e \in Executions, SlotOf(e),
         row'[e] = "waiting" => row[e] = "waiting", active[e] = NoRun => active'[e] = NoRun,
         \A x \in Run : Execution(x) = e =>
           /\ pc'[x] = pc[x] /\ outcome'[x] = outcome[x]
           /\ x \in cancelled => x \in cancelled'
           /\ x \in reserved => x \in reserved'
  PROVE  SlotOf(e)'
  <1>1. Held(e) \subseteq Held(e)' /\ Unsettled(e)' \subseteq Unsettled(e)
    BY DEF Held, Unsettled
  <1>2. Stuck(e) => Stuck(e)'
    BY <1>1 DEF Stuck, Waits
  <1>3. Dead(e) => Dead(e)'
    BY DEF Dead
  <1>. QED
    BY <1>1, <1>2, <1>3, SlotKept

(* A run of e goes on, keeping its slot. *)
LEMMA SlotAdvances ==
  ASSUME TypeOK, NEW e \in Executions, SlotOf(e), NEW x \in Run, Execution(x) = e,
         pc[x] \in InProgress \/ (pc[x] = "closing" /\ pc'[x] = "over" /\ row'[e] # "waiting"),
         pc'[x] \in (InProgress \cup {"saved", "closing", "over"}) \ {"marked"},
         \A y \in Run : y # x => pc'[y] = pc[y] /\ outcome'[y] = outcome[y],
         UNCHANGED <<reserved, cancelled>>,
         Stuck(e) => active'[e] = NoRun /\ row'[e] # "waiting" /\ ~Waits(x)'
  PROVE  SlotOf(e)'
  <1>0. InProgress \cap Unmarked = {} /\ {"saved", "closing", "over"} \cap (Unmarked \cup InProgress) = {}
    BY DEF InProgress, Unmarked
  <1>1. Held(e) \subseteq Held(e)' /\ Unsettled(e)' \subseteq Unsettled(e)
    BY <1>0 DEF Held, Unsettled
  <1>2. Stuck(e) => Stuck(e)'
    BY <1>0, <1>1 DEF Stuck, Waits
  <1>3. Dead(e) => Dead(e)'
    BY <1>0 DEF Dead
  <1>. QED
    BY <1>1, <1>2, <1>3, SlotKept

(* A run of e that has yet to mark it goes on or fails. *)
LEMMA SlotBefore ==
  ASSUME TypeOK, NEW e \in Executions, SlotOf(e), NEW x \in Run, Execution(x) = e,
         pc[x] \in Unmarked, pc'[x] \in Unmarked \cup {"refused", "failed"},
         \A y \in Run : y # x => pc'[y] = pc[y],
         UNCHANGED <<outcome, cancelled, active>>,
         row'[e] = "waiting" => row[e] = "waiting",
         \A y \in Run : y # x /\ y \in reserved => y \in reserved'
  PROVE  SlotOf(e)'
  <1>0. (InProgress \cup {"saved", "closing", "over"}) \cap (Unmarked \cup {"refused", "failed"}) = {}
        /\ "putToWait" \notin Unmarked /\ "saving" \notin Unmarked /\ "marked" \in InProgress
    BY DEF InProgress, Unmarked
  <1>1. Held(e) \subseteq Held(e)' /\ Unsettled(e)' \subseteq Unsettled(e)
    BY <1>0 DEF Held, Unsettled
  <1>2. Stuck(e) => Stuck(e)'
    BY <1>0, <1>1 DEF Stuck, Waits
  <1>3. Dead(e) => Dead(e)'
    BY <1>0 DEF Dead
  <1>. QED
    BY <1>1, <1>2, <1>3, SlotKept

LEMMA SlotMarks ==
  ASSUME TypeOK, NEW e \in Executions, SlotOf(e), NEW x \in Run, Execution(x) = e, MarkRunning(x)
  PROVE  SlotOf(e)'
  <1>1. /\ pc[x] = "reserving" /\ pc'[x] = "marked" /\ \A y \in Run : y # x => pc'[y] = pc[y]
        /\ x \in reserved /\ UNCHANGED <<reserved, cancelled>>
        /\ IsNew(x) \/ row[e] = "waiting"
    BY MoveOne DEF MarkRunning, TypeOK
  <1>2. /\ pc[x] \in Unmarked /\ pc[x] \notin InProgress \cup {"saved", "closing", "over"}
        /\ pc'[x] \in InProgress
    BY <1>1 DEF Unmarked, InProgress
  <1>3. ~Stuck(e) /\ ~Dead(e)
    BY <1>1, <1>2 DEF Stuck, Dead
  <1>4. x \notin Held(e) /\ Held(e) \cup {x} \subseteq Held(e)' /\ Unsettled(e)' \subseteq Unsettled(e) \cup {x}
    BY <1>1, <1>2 DEF Held, Unsettled
  <1>5. /\ IsFiniteSet(Held(e)) /\ IsFiniteSet(Unsettled(e))
        /\ IsFiniteSet(Held(e)') /\ IsFiniteSet(Unsettled(e)')
    BY SlotsFinite
  <1>6. Cardinality(Held(e)') >= Cardinality(Unsettled(e)')
    BY <1>3, <1>4, <1>5, CountGains DEF SlotOf
  <1>. QED
    BY <1>6 DEF SlotOf

(* finalizeExecution: a run that has saved releases one slot, if any. *)
LEMMA SlotFinalizes ==
  ASSUME TypeOK, EntryInv, NEW e \in Executions, SlotOf(e), NEW x \in Run, Execution(x) = e, Finalize(x)
  PROVE  SlotOf(e)'
  <1>1. /\ pc[x] = "saved" /\ pc'[x] = "over" /\ \A y \in Run : y # x => pc'[y] = pc[y]
        /\ UNCHANGED <<row, outcome>> /\ cancelled' = cancelled \ {x}
    BY MoveOne DEF Finalize, TypeOK
  <1>0. {"saved", "over"} \cap (InProgress \cup Unmarked) = {}
    BY DEF InProgress, Unmarked
  <1>2. Unsettled(e)' \subseteq Unsettled(e) \ {x}
    BY <1>0, <1>1 DEF Unsettled
  <1>3. Dead(e) => Dead(e)'
    BY <1>0, <1>1 DEF Dead
  <1>4. CASE reserved' = reserved /\ active' = active
    <2>1. Held(e) \subseteq Held(e)'
      BY <1>1, <1>4 DEF Held
    <2>2. Stuck(e) => Stuck(e)'
      BY <1>0, <1>1, <1>4, <2>1 DEF Stuck, Waits
    <2>. QED
      BY <1>2, <1>3, <2>1, <2>2, SlotKept
  <1>5. CASE ~(reserved' = reserved /\ active' = active)
    <2>. DEFINE y == active[e]
    <2>1. y # NoRun /\ Release(y)
      BY <1>5 DEF Finalize, SettleFound, SettleEntry
    <2>. HIDE DEF y
    <2>2. Held(e) \ {y} \subseteq Held(e)'
      BY <1>1, <2>1 DEF Held, Release, ResolveNext
    <2>3. ~Stuck(e) /\ x \notin cancelled
      BY <2>1 DEF Stuck, EntryInv, ExecInv, CancelOf, y
    <2>4. x \in Unsettled(e)
      BY <1>1, <2>3 DEF Unsettled
    <2>5. /\ IsFiniteSet(Held(e)) /\ IsFiniteSet(Unsettled(e))
          /\ IsFiniteSet(Held(e)') /\ IsFiniteSet(Unsettled(e)')
      BY SlotsFinite
    <2>6. ASSUME Cardinality(Held(e)) >= Cardinality(Unsettled(e))
          PROVE  Cardinality(Held(e)') >= Cardinality(Unsettled(e)')
      BY <1>2, <2>2, <2>4, <2>5, <2>6, CountDrops
    <2>. QED
      BY <1>3, <2>3, <2>6 DEF SlotOf
  <1>. QED
    BY <1>4, <1>5

(* A workflow that throws as it starts returns its slot with its entry. *)
LEMMA SlotThrows ==
  ASSUME TypeOK, EntryInv, NEW e \in Executions, SlotOf(e), NEW x \in Run, Execution(x) = e, StartThrows(x)
  PROVE  SlotOf(e)'
  <1>0. {"starting", "marked"} \subseteq InProgress /\ "closing" \notin InProgress
    BY DEF InProgress
  <1>1. /\ pc[x] = "starting" /\ pc'[x] = "closing" /\ \A y \in Run : y # x => pc'[y] = pc[y]
        /\ outcome'[x] = "error" /\ \A y \in Run : y # x => outcome'[y] = outcome[y]
        /\ UNCHANGED <<row, cancelled>>
        /\ x \notin cancelled
        /\ active'[e] = NoRun
        /\ \/ active[e] = NoRun /\ UNCHANGED reserved
           \/ active[e] = x /\ Release(x)
    BY ThrowTakes
  <1>2. CASE active[e] = NoRun /\ UNCHANGED reserved
    <2>1. Stuck(e) => active'[e] = NoRun /\ row'[e] # "waiting" /\ ~Waits(x)'
      BY <1>1 DEF Stuck, Waits
    <2>. QED
      BY <1>0, <1>1, <1>2, <2>1, SlotAdvances
  <1>3. CASE active[e] = x /\ Release(x)
    <2>1. ~Stuck(e) /\ ~Dead(e)
      BY <1>0, <1>1, <1>3, NoRunAssumption DEF Stuck, Dead
    <2>2. x \in Unsettled(e) /\ Unsettled(e)' \subseteq Unsettled(e) \ {x}
      BY <1>0, <1>1 DEF Unsettled
    <2>3. Held(e) \ {x} \subseteq Held(e)'
      BY <1>1, <1>3 DEF Held, Release, ResolveNext
    <2>4. /\ IsFiniteSet(Held(e)) /\ IsFiniteSet(Unsettled(e))
          /\ IsFiniteSet(Held(e)') /\ IsFiniteSet(Unsettled(e)')
      BY SlotsFinite
    <2>5. Cardinality(Held(e)') >= Cardinality(Unsettled(e)')
      BY <2>1, <2>2, <2>3, <2>4, CountDrops DEF SlotOf
    <2>. QED
      BY <2>5 DEF SlotOf
  <1>. QED
    BY <1>1, <1>2, <1>3

(* The timeout of a workflow takes the entry it finds.  That may belong to *)
(* a run that resumed the execution, which then goes on without an entry;  *)
(* the slot of the run whose timeout it was is left for it.                *)
LEMMA SlotTimesOut ==
  ASSUME TypeOK, EntryInv, NEW e \in Executions, SlotOf(e), NEW w \in Run, Execution(w) = e, ExecutionTimeout(w)
  PROVE  SlotOf(e)'
  <1>0. UNCHANGED <<row, pc, outcome>> /\ StopExecution(e) /\ pc[w] \in Pending /\ ExecInv(e)
        /\ (w \in attached \/ entryStatus[w] = "waiting")
    BY DEF ExecutionTimeout, EntryInv
  <1>1. CASE active[e] = NoRun \/ entryStatus[active[e]] = "waiting"
    <2>1. /\ UNCHANGED <<reserved, cancelled>>
          /\ active[e] = NoRun => active'[e] = NoRun
      BY <1>0, <1>1 DEF StopExecution, TypeOK
    <2>. QED
      BY <1>0, <2>1, SlotBeside
  <1>2. CASE active[e] # NoRun /\ entryStatus[active[e]] # "waiting"
    <2>. DEFINE y == active[e]
    <2>1. /\ y \in Run /\ Execution(y) = e /\ y \notin settled /\ entryStatus[y] = "running"
          /\ pc[y] \in Under \cup {"saved", "over"}
          /\ row[e] # "waiting"
          /\ ~Waits(y)
          /\ \A x \in Run : Execution(x) = e =>
               (pc[x] \in Under => x = y) /\ pc[x] # "marked" /\ (IsNew(x) => pc[x] \notin Unmarked)
      BY <1>0, <1>2 DEF ExecInv, EntryOf, StatusOf, TypeOK
    <2>2. /\ Release(y)
          /\ active' = [active EXCEPT ![e] = NoRun]
          /\ cancelled' = cancelled \cup {z \in attached \ cancelled : z = y /\ pc[z] \in Pending}
      BY <1>0, <1>2, <2>1 DEF StopExecution, SettleEntry, TypeOK
    <2>3. w \notin cancelled /\ y \notin cancelled
      BY <1>0, <1>2, <2>1 DEF ExecInv, CancelOf
    <2>. HIDE DEF y
    <2>s. /\ {"saved", "over"} \cap (Under \cup InProgress) = {}
          /\ \A l \in InProgress : l \in Under \/ l = "marked"
          /\ Under \subseteq InProgress
          /\ {"putToWait", "saving"} \subseteq Under
          /\ Pending \subseteq Under \cup {"saved"}
      BY DEF Under, InProgress, Pending
    <2>4. Held(e) \ {y} \subseteq Held(e)'
      BY <1>0, <2>2 DEF Held, Release, ResolveNext
    <2>5. CASE pc[y] \in {"saved", "over"}
      <3>0. \A x \in Run : Execution(x) = e => pc[x] \notin InProgress
        BY <2>1, <2>5, <2>s
      <3>1. Dead(e)'
        BY <1>0, <2>1, <3>0 DEF Dead
      <3>. QED
        BY <3>1 DEF SlotOf
    <2>6. CASE pc[y] \in Under /\ w = y
      <3>1. y \in Unsettled(e) /\ y \in cancelled'
        BY <1>0, <2>1, <2>2, <2>3, <2>6, <2>s DEF Unsettled
      <3>2. Unsettled(e)' \subseteq Unsettled(e) \ {y}
        BY <1>0, <2>2, <3>1 DEF Unsettled
      <3>3. ~Stuck(e) /\ ~Dead(e)
        BY <1>2, <2>1, <2>6, <2>s DEF Stuck, Dead
      <3>4. /\ IsFiniteSet(Held(e)) /\ IsFiniteSet(Unsettled(e))
            /\ IsFiniteSet(Held(e)') /\ IsFiniteSet(Unsettled(e)')
        BY SlotsFinite
      <3>5. Cardinality(Held(e)') >= Cardinality(Unsettled(e)')
        BY <2>4, <3>1, <3>2, <3>3, <3>4, CountDrops DEF SlotOf
      <3>. QED
        BY <3>5 DEF SlotOf
    <2>7. CASE pc[y] \in Under /\ w # y
      <3>1. ~Stuck(e) /\ ~Dead(e)
        BY <1>2, <2>1, <2>7, <2>s DEF Stuck, Dead
      <3>2. w \in Unsettled(e) /\ y \in Unsettled(e)
        BY <1>0, <2>1, <2>3, <2>7, <2>s DEF Unsettled
      <3>3. /\ IsFiniteSet(Held(e)) /\ IsFiniteSet(Unsettled(e)) /\ IsFiniteSet({y})
            /\ IsFiniteSet({w}) /\ Cardinality({w}) = 1
        BY SlotsFinite, FS_Singleton
      <3>4. Cardinality(Held(e) \ {y}) >= Cardinality({w})
        <4>1. Cardinality(Held(e)) >= Cardinality(Unsettled(e))
          BY <3>1 DEF SlotOf
        <4>2. IsFiniteSet(Held(e) \ {y}) /\ Held(e) \ {y} \subseteq Held(e) \ {y}
          BY <3>3, FS_RemoveElement
        <4>3. {w} \subseteq Unsettled(e) \ {y}
          BY <2>7, <3>2
        <4>. QED
          BY <3>2, <3>3, <4>1, <4>2, <4>3, CountDrops
      <3>5. Held(e)' # {}
        <4>1. Held(e) \ {y} # {}
          BY <3>3, <3>4, FS_EmptySet
        <4>. QED
          BY <2>4, <4>1
      <3>6. \A x \in Run : Execution(x) = e => ~Waits(x)
        BY <2>1, <2>s DEF Waits
      <3>7. Stuck(e)'
        <4>1. active'[e] = NoRun
          BY <2>2 DEF TypeOK
        <4>. QED
          BY <1>0, <2>1, <3>5, <3>6, <4>1 DEF Stuck, Waits
      <3>. QED
        BY <3>7 DEF SlotOf
    <2>. QED
      BY <2>1, <2>5, <2>6, <2>7
  <1>. QED
    BY <1>1, <1>2

LEMMA SlotRun ==
  ASSUME TypeOK, TypeOK', OneRunInv, EntryInv, NEW e \in Executions, SlotOf(e), NEW x \in Run, Execution(x) = e,
         RunStep(x) \/ TimerFires(x) \/ Load(x) \/ WebhookResumes(x) \/ RunEnqueued(x)
  PROVE  SlotOf(e)'
  <1>s. {"registered", "starting", "executing", "putToWait", "saving"} \subseteq InProgress \ {"marked"}
        /\ "marked" \in InProgress
    BY DEF InProgress
  <1>1. CASE Create(x) \/ Reserve(x) \/ AddFails(x) \/ TimerFires(x) \/ Load(x) \/ WebhookResumes(x)
             \/ RunEnqueued(x)
    <2>1. /\ pc[x] \in Unmarked
          /\ Goto(x, "loading") \/ Goto(x, "adding") \/ Goto(x, "reserving") \/ Goto(x, "refused")
             \/ Goto(x, "failed")
          /\ row' = row \/ row' = [row EXCEPT ![Execution(x)] = "new"]
          /\ UNCHANGED <<outcome, active, cancelled>>
      BY <1>1 DEF Create, Write, Reserve, AddFails, TimerFires, Load, WebhookResumes, RunEnqueued, Fresh, Unmarked
    <2>2. /\ pc'[x] \in Unmarked \cup {"refused", "failed"}
          /\ \A y \in Run : y # x => pc'[y] = pc[y]
          /\ row'[e] = "waiting" => row[e] = "waiting"
      BY <2>1 DEF Goto, TypeOK, Unmarked
    <2>3. \A y \in Run : y # x /\ y \in reserved => y \in reserved'
      <3>1. CASE Reserve(x)
        BY <3>1 DEF Reserve, Throttle
      <3>2. CASE AddFails(x)
        BY <3>2 DEF AddFails, Release, ResolveNext
      <3>3. CASE ~(Reserve(x) \/ AddFails(x))
        BY <1>1, <3>3 DEF Create, TimerFires, Load, WebhookResumes, RunEnqueued
      <3>. QED
        BY <3>1, <3>2, <3>3
    <2>. QED
      BY <2>1, <2>2, <2>3, SlotBefore
  <1>2. CASE CancelSave(x) \/ CancelSaveFails(x)
    <2>1. (row'[e] = "waiting" => row[e] = "waiting") /\ UNCHANGED <<reserved, pc, outcome, cancelled, active>>
      BY <1>2 DEF CancelSave, CancelSaveFails, Write, WriteFails, TypeOK
    <2>. QED
      BY <2>1, SlotBeside
  <1>3. CASE Register(x)
    <2>1. /\ pc[x] = "marked" /\ pc'[x] = "registered" /\ \A y \in Run : y # x => pc'[y] = pc[y]
          /\ UNCHANGED <<reserved, outcome, cancelled>>
      BY <1>3, MoveOne DEF Register, TypeOK
    <2>2. ~Stuck(e)
      BY <2>1 DEF Stuck
    <2>. QED
      BY <1>s, <2>1, <2>2, SlotAdvances
  <1>4. CASE PutToWait(x)
    <2>1. /\ pc[x] = "executing" /\ pc'[x] = "putToWait" /\ \A y \in Run : y # x => pc'[y] = pc[y]
          /\ UNCHANGED <<reserved, outcome, cancelled>> /\ active[e] # NoRun
      BY <1>4, MoveOne DEF PutToWait, TypeOK
    <2>2. ~Stuck(e)
      BY <2>1 DEF Stuck
    <2>. QED
      BY <1>s, <2>1, <2>2, SlotAdvances
  <1>5. CASE PreflightFails(x)
    <2>1. /\ pc[x] = "registered" /\ pc'[x] = "saving" /\ \A y \in Run : y # x => pc'[y] = pc[y]
          /\ outcome' = [outcome EXCEPT ![x] = "error"]
          /\ UNCHANGED <<row, reserved, active, cancelled>>
      BY <1>5, MoveOne DEF PreflightFails, TypeOK
    <2>2. outcome'[x] = "error" /\ \A y \in Run : y # x => outcome'[y] = outcome[y]
      BY <2>1 DEF TypeOK
    <2>3. Stuck(e) => active'[e] = NoRun /\ row'[e] # "waiting" /\ ~Waits(x)'
      BY <2>1, <2>2 DEF Stuck, Waits
    <2>. QED
      BY <1>s, <2>1, <2>2, <2>3, SlotAdvances
  <1>6. CASE ResponseFails(x) \/ RunFails(x) \/ SetRunning(x) \/ StartWorkflow(x)
    <2>1. /\ pc[x] \in {"registered", "starting"} /\ pc'[x] \in {"over", "starting", "executing"}
          /\ \A y \in Run : y # x => pc'[y] = pc[y]
          /\ row' = row \/ row' = [row EXCEPT ![Execution(x)] = "running"]
          /\ UNCHANGED <<outcome, reserved, active, cancelled>>
      BY <1>6, MoveOne DEF ResponseFails, RunFails, SetRunning, StartWorkflow, Write, WriteFails, TypeOK
    <2>2. Stuck(e) => active'[e] = NoRun /\ row'[e] # "waiting" /\ ~Waits(x)'
      BY <2>1 DEF Stuck, Waits, TypeOK
    <2>. QED
      BY <1>s, <2>1, <2>2, SlotAdvances
  <1>7. CASE WorkflowEnds(x)
    <2>1. /\ pc[x] \in {"executing", "putToWait"} /\ pc'[x] \in {"saving", "closing", "saved"}
          /\ \A y \in Run : y # x => pc'[y] = pc[y]
          /\ UNCHANGED <<row, reserved, active, cancelled>>
          /\ \A y \in Run : y # x => outcome'[y] = outcome[y]
      BY <1>7, MoveOne DEF WorkflowEnds, TypeOK
    <2>2. Waits(x)' => Waits(x)
      BY <1>7, EndWaits DEF TypeOK
    <2>3. Stuck(e) => active'[e] = NoRun /\ row'[e] # "waiting" /\ ~Waits(x)'
      BY <2>1, <2>2 DEF Stuck
    <2>. QED
      BY <1>s, <2>1, <2>3, SlotAdvances
  <1>8. CASE Save(x) \/ SaveFails(x)
    <2>1. /\ pc[x] \in {"saving", "closing"} /\ pc'[x] \in {"saved", "over"}
          /\ pc[x] = "closing" => pc'[x] = "over"
          /\ \A y \in Run : y # x => pc'[y] = pc[y]
          /\ row'[e] = outcome[x] \/ row'[e] = row[e]
          /\ UNCHANGED <<reserved, active, cancelled>>
          /\ \A y \in Run : y # x => outcome'[y] = outcome[y]
      BY <1>8, MoveOne DEF Save, SaveFails, Write, WriteFails, TypeOK
    <2>2. pc[x] = "closing" => outcome[x] # "waiting" /\ row[e] # "waiting"
      BY DEF EntryInv, ExecInv, AwaitOf, OneRunInv, WaitingIsIdle, Unfinished
    <2>3. Stuck(e) => active'[e] = NoRun /\ row'[e] # "waiting" /\ ~Waits(x)'
      BY <2>1, <2>2 DEF Stuck, Waits
    <2>. QED
      BY <1>s, <2>1, <2>2, <2>3, SlotAdvances
  <1>. QED
    BY <1>1, <1>2, <1>3, <1>4, <1>5, <1>6, <1>7, <1>8, SlotMarks, SlotFinalizes, SlotThrows DEF RunStep

(* stopExecution of another execution *)
LEMMA SlotStops ==
  ASSUME TypeOK, EntryInv, NEW e \in Executions, SlotOf(e), NEW f \in Executions, f # e,
         StopExecution(f), UNCHANGED <<row, pc, outcome>>
  PROVE  SlotOf(e)'
  <1>1. CASE active[f] = NoRun \/ entryStatus[active[f]] = "waiting"
    <2>1. UNCHANGED <<reserved, cancelled>> /\ active'[e] = active[e]
      BY <1>1 DEF StopExecution, TypeOK
    <2>. QED
      BY <2>1, SlotBeside
  <1>2. CASE active[f] # NoRun /\ entryStatus[active[f]] # "waiting"
    <2>. DEFINE y == active[f]
    <2>1. Execution(y) = f /\ SettleEntry(y) /\ cancelled \subseteq cancelled'
      BY <1>2 DEF StopExecution, EntryInv, ExecInv, EntryOf, TypeOK
    <2>. HIDE DEF y
    <2>2. (\A x \in Run : Execution(x) = e /\ x \in reserved => x \in reserved') /\ active'[e] = active[e]
      BY <2>1 DEF SettleEntry, Release, ResolveNext, TypeOK
    <2>. QED
      BY <2>1, <2>2, SlotBeside
  <1>. QED
    BY <1>1, <1>2

LEMMA SlotNext ==
  ASSUME TypeOK, TypeOK', OneRunInv, EntryInv, SlotInv, [Next]_vars
  PROVE  SlotInv'
  <1>. SUFFICES ASSUME isEnabled', NEW e \in Executions, stopping'[e] = "no" PROVE SlotOf(e)'
    BY DEF SlotInv
  <1>1. CASE Restart
    <2>1. \A x \in Run : pc'[x] \in {"idle", "over", "refused", "failed", "lost"}
      BY <1>1 DEF Restart
    <2>2. Unsettled(e)' = {}
      BY <2>1 DEF Unsettled, InProgress
    <2>3. Cardinality(Unsettled(e)') = 0 /\ Cardinality(Held(e)') \in Nat
      BY <2>2, FS_EmptySet, SlotsFinite, FS_CardinalityType
    <2>. QED
      BY <2>3 DEF SlotOf
  <1>2. ASSUME NEW x \in Run, RunStep(x) \/ TimerFires(x) \/ Load(x) \/ WebhookResumes(x) \/ RunEnqueued(x)
        PROVE  SlotOf(e)'
    <2>1. isEnabled' = isEnabled /\ stopping' = stopping
      BY <1>2 DEF RunStep, Create, Reserve, MarkRunning, AddFails, Register, PreflightFails, ResponseFails,
         RunFails, SetRunning, StartWorkflow, StartThrows, PutToWait, WorkflowEnds, Save, SaveFails,
         CancelSave, CancelSaveFails, Finalize, TimerFires, Load, WebhookResumes, RunEnqueued, Throttle,
         Release, SettleFound, SettleEntry
    <2>2. SlotOf(e)
      BY <2>1 DEF SlotInv
    <2>3. CASE Execution(x) = e
      BY <1>2, <2>2, <2>3, SlotRun
    <2>4. CASE Execution(x) # e
      <3>1. /\ row'[e] = row[e] /\ active'[e] = active[e]
            /\ \A y \in Run : Execution(y) = e =>
                 /\ pc'[y] = pc[y] /\ outcome'[y] = outcome[y]
                 /\ y \in cancelled' <=> y \in cancelled
                 /\ y \in reserved => y \in reserved'
        BY <1>2, <2>4, RunBeside
      <3>. QED
        BY <2>2, <3>1, SlotBeside
    <2>. QED
      BY <2>3, <2>4
  <1>3. ASSUME NEW x \in Run, ExecutionTimeout(x) PROVE SlotOf(e)'
    <2>1. /\ UNCHANGED <<row, pc, outcome, stopping>> /\ StopExecution(Execution(x)) /\ Execution(x) \in Executions
          /\ isEnabled' = isEnabled
      BY <1>3, RunExecution DEF ExecutionTimeout, StopExecution, SettleEntry, Release
    <2>2. SlotOf(e)
      BY <2>1 DEF SlotInv
    <2>. QED
      BY <1>3, <2>1, <2>2, SlotTimesOut, SlotStops
  <1>4. ASSUME NEW f \in Executions, StopInRegularMode(f) PROVE SlotOf(e)'
    <2>1. UNCHANGED <<row, pc, outcome>> /\ stopping' = [stopping EXCEPT ![f] = "write"]
      BY <1>4 DEF StopInRegularMode
    <2>2. f # e /\ stopping[e] = "no"
      BY <2>1 DEF TypeOK
    <2>3. CASE IsQueued(f)
      <3>1. isEnabled /\ UNCHANGED <<active, cancelled>> /\ reserved \subseteq reserved'
        BY <1>4, <2>3 DEF StopInRegularMode, RemoveQueued, ResolveNext, IsQueued
      <3>2. SlotOf(e)
        BY <2>2, <3>1 DEF SlotInv
      <3>. QED
        BY <2>1, <3>1, <3>2, SlotBeside
    <2>4. CASE ~IsQueued(f)
      <3>1. StopExecution(f)
        BY <1>4, <2>4 DEF StopInRegularMode
      <3>2. isEnabled' = isEnabled
        BY <3>1 DEF StopExecution, SettleEntry, Release
      <3>3. SlotOf(e)
        BY <2>2, <3>2 DEF SlotInv
      <3>. QED
        BY <2>1, <2>2, <3>1, <3>3, SlotStops
    <2>. QED
      BY <2>3, <2>4
  <1>5. ASSUME \/ \E f \in Executions : Poll(f) \/ Track(f) \/ StopRequest(f) \/ StopWrites(f) \/ StopFails(f)
               \/ StopTracking \/ UNCHANGED vars
        PROVE  SlotOf(e)'
    <2>1. /\ UNCHANGED <<isEnabled, reserved, pc, outcome, active, cancelled>>
          /\ row'[e] = "waiting" => row[e] = "waiting"
      <3>1. /\ UNCHANGED <<isEnabled, reserved, pc, outcome, active, cancelled>>
            /\ row' = row \/ \E f \in Executions : row' = [row EXCEPT ![f] = "canceled"]
        BY <1>5, ZenonT(40) DEF Poll, Track, StopRequest, StopWrites, StopFails, Write, WriteFails, StopTracking, vars
      <3>. QED
        BY <3>1 DEF TypeOK
    <2>3. stopping[e] = "no"
      <3>1. stopping' = stopping \/ \E f \in Executions : \E v \in {"read", "done"} : stopping' = [stopping EXCEPT ![f] = v]
        BY <1>5 DEF Poll, Track, StopRequest, StopWrites, StopFails, StopTracking, vars
      <3>. QED
        BY <3>1 DEF TypeOK
    <2>2. SlotOf(e)
      BY <2>1, <2>3 DEF SlotInv
    <2>. QED
      BY <2>1, <2>2, SlotBeside
  <1>6. ~Shutdown
    BY DEF Shutdown, Disable
  <1>. QED
    BY <1>1, <1>2, <1>3, <1>4, <1>5, <1>6 DEF Next

LEMMA SlotInit == Init => SlotInv
  <1>. SUFFICES ASSUME Init, NEW e \in Executions PROVE SlotOf(e)
    BY DEF SlotInv
  <1>1. Unsettled(e) = {}
    BY DEF Init, Unsettled, InProgress
  <1>2. Cardinality(Unsettled(e)) = 0 /\ Cardinality(Held(e)) \in Nat
    BY <1>1, FS_EmptySet, SlotsFinite, FS_CardinalityType
  <1>. QED
    BY <1>2 DEF SlotOf

-----------------------------------------------------------------------------
(* The limit                                                               *)

(* The runs that LimitRespected counts *)
Counted == {x \in Run : pc[x] \in InProgress /\ x \notin cancelled /\ stopping[Execution(x)] = "no"}

(* Each of them has a slot of its own, and so there are no more of them    *)
(* than slots are held.                                                    *)
LEMMA CountedHold ==
  ASSUME SlotsInv, OneRunInv, SlotInv, isEnabled
  PROVE  IsFiniteSet(Counted) /\ Cardinality(Counted) <= Cardinality(reserved)
  <1>1. \A x \in Counted : Held(Execution(x)) # {}
    <2>. SUFFICES ASSUME NEW x \in Counted PROVE Held(Execution(x)) # {}
      OBVIOUS
    <2>. DEFINE e == Execution(x)
    <2>1. e \in Executions /\ x \in Run /\ pc[x] \in InProgress /\ stopping[e] = "no" /\ x \in Unsettled(e)
      BY RunExecution DEF Counted, Unsettled
    <2>2. SlotOf(e) /\ ~Dead(e)
      BY <2>1 DEF SlotInv, Dead
    <2>. HIDE DEF e
    <2>3. CASE Stuck(e)
      BY <2>3 DEF Stuck, e
    <2>4. CASE Cardinality(Held(e)) >= Cardinality(Unsettled(e))
      <3>1. IsFiniteSet(Held(e)) /\ IsFiniteSet(Unsettled(e))
        BY <2>1, SlotsFinite
      <3>2. Cardinality(Unsettled(e)) # 0 /\ Cardinality(Unsettled(e)) \in Nat /\ Cardinality(Held(e)) \in Nat
        BY <2>1, <3>1, FS_EmptySet, FS_CardinalityType
      <3>3. Cardinality(Held(e)) # 0
        BY <2>4, <3>2
      <3>. QED
        BY <3>3, FS_EmptySet DEF e
    <2>. QED
      BY <2>2, <2>3, <2>4 DEF SlotOf
  <1>. DEFINE slot == [x \in Counted |-> CHOOSE y \in Held(Execution(x)) : TRUE]
  <1>2. \A x \in Counted : slot[x] \in reserved /\ Execution(slot[x]) = Execution(x)
    <2>. SUFFICES ASSUME NEW x \in Counted PROVE slot[x] \in reserved /\ Execution(slot[x]) = Execution(x)
      OBVIOUS
    <2>1. slot[x] \in Held(Execution(x))
      BY <1>1
    <2>. QED
      BY <2>1 DEF Held
  <1>. HIDE DEF slot
  <1>3. \A x, y \in Counted : slot[x] = slot[y] => x = y
    BY <1>2 DEF Counted, OneRunInv, OneRunAtATime, Unfinished
  <1>4. slot \in Injection(Counted, reserved)
    <2>1. slot \in [Counted -> reserved]
      BY <1>2 DEF slot
    <2>. QED
      BY <1>3, <2>1 DEF Injection, IsInjective
  <1>5. IsFiniteSet(reserved)
    BY DEF SlotsInv, SlotsTyped
  <1>. QED
    BY <1>4, <1>5, FS_Injection

LimitInv == Typed /\ EntryInv /\ ReservedInv /\ SlotInv

LEMMA LimitKept == LimitInv /\ [Next]_vars => LimitInv'
  <1>. SUFFICES ASSUME LimitInv, [Next]_vars PROVE LimitInv'
    OBVIOUS
  <1>1. Typed /\ Typed' /\ TypeOK /\ TypeOK'
    BY TypedTypes, TypedNext DEF LimitInv
  <1>2. OneRunInv /\ OneRunInv' /\ SlotsInv /\ SlotsInv'
    BY <1>1 DEF Typed, CapacityInv
  <1>3. EntryInv /\ ReservedInv /\ SlotInv
    BY DEF LimitInv
  <1>4. EntryInv' /\ ReservedInv' /\ SlotInv'
    BY <1>1, <1>2, <1>3, EntryNext, ReservedNext, SlotNext
  <1>. QED
    BY <1>1, <1>4 DEF LimitInv

LEMMA LimitStarts == Init => LimitInv
  BY TypedInit, EntryInit, ReservedInit, SlotInit DEF LimitInv

(* The limit with what stops add to it *)
LimitWithStops ==
  isEnabled => Cardinality(Counted) <= Limit + Cardinality(Stopped)

LEMMA LimitHolds == LimitInv => LimitWithStops
  <1>. SUFFICES ASSUME LimitInv, isEnabled PROVE Cardinality(Counted) <= Limit + Cardinality(Stopped)
    BY DEF LimitWithStops
  <1>1. SlotsInv /\ OneRunInv /\ SlotInv /\ ReservedInv
    BY DEF LimitInv, Typed, CapacityInv
  <1>2. Cardinality(Counted) <= Cardinality(reserved)
    BY <1>1, CountedHold
  <1>3. Cardinality(reserved) <= Limit + Cardinality(Stopped)
    BY <1>1 DEF ReservedInv
  <1>4. Cardinality(reserved) \in Nat /\ Cardinality(Stopped) \in Nat
    BY <1>1, HeldSlots, StoppedFinite, FS_CardinalityType
  <1>5. Cardinality(Counted) \in Nat
    <2>1. IsFiniteSet(Counted)
      BY <1>1, CountedHold
    <2>. QED
      BY <2>1, FS_CardinalityType
  <1>. QED
    BY <1>2, <1>3, <1>4, <1>5, LimitAssumption

(* Whatever timers, webhooks, timeouts, failures, stops and restarts do,   *)
(* the executions in progress that nobody has stopped exceed the limit by  *)
(* no more than the number of executions that ExecutionService.stop has    *)
(* taken: each stop of a queued execution lets one more in.                *)
THEOREM LimitBound == Spec => []LimitWithStops
  BY LimitStarts, LimitKept, LimitHolds, PTL DEF Spec

(* While no execution has been stopped, the limit is respected, whatever   *)
(* timers, webhooks, failures and timeouts of workflows do: each of the    *)
(* runs that count holds a slot of its own.                                *)
THEOREM LimitTheorem == Spec => [](Stopped = {} => LimitRespected)
  <1>1. LimitWithStops => (Stopped = {} => LimitRespected)
    <2>. SUFFICES ASSUME LimitWithStops, Stopped = {}, isEnabled PROVE Cardinality(Counted) <= Limit
      BY DEF LimitRespected, Counted
    <2>1. Cardinality(Stopped) = 0
      BY FS_EmptySet
    <2>. QED
      BY <2>1, LimitAssumption DEF LimitWithStops
  <1>. QED
    BY <1>1, LimitBound, PTL
=============================================================================
