-------------------------- MODULE SettleLoopProofs --------------------------
(***************************************************************************)
(* The loop of TaskBroker.settleTasks computes Matches, on any two lists.  *)
(***************************************************************************)
EXTENDS SettleLoop, TaskMatchingProofs, WellFoundedInduction

Eligible == ToSet(requestLog) \ inProgress
All      == Matches(Eligible, requestLog, ToSet(offerLog), offerLog)

(* The request was looked at in an earlier iteration. *)
Passed(q) == \E n \in 1 .. i - 1 : requestLog[n] = q

Lists ==
  /\ requestLog \in Seq(Requests) /\ NoRepeat(requestLog)
  /\ offerLog \in Seq(Offers) /\ NoRepeat(offerLog)
  /\ inProgress \subseteq ToSet(requestLog)
  /\ pendingTaskOffers \in Seq(Offers)
  /\ i \in 1 .. Len(requestLog) + 1

(* The offers that are left are in their order, *)
InOrder ==
  \A a, b \in 1 .. Len(pendingTaskOffers) :
    a < b => Ahead(offerLog, pendingTaskOffers[a], pendingTaskOffers[b])

(* a request that got none has left none of its type, *)
NoneLeft ==
  \A q \in Eligible \ Served(pairs) :
    Passed(q) => \A o \in ToSet(pendingTaskOffers) : TypeOf[Runner(o)] # TypeOf[q]

(* and those that were taken were ahead of those of their type that are left. *)
TakenFirst ==
  \A o \in Taken(pairs), u \in ToSet(pendingTaskOffers) :
    TypeOf[Runner(o)] = TypeOf[Runner(u)] => Ahead(offerLog, o, u)

LoopInv == Lists /\ LoopComputesMatches /\ InOrder /\ NoneLeft /\ TakenFirst

-----------------------------------------------------------------------------
(* A set of positions that is not empty has a first one. *)
LEMMA FirstPosition ==
  ASSUME NEW T \in SUBSET Nat, T # {}
  PROVE  \E k \in T : \A j \in T : ~(j < k)
<1>1. \E k \in T : \A j \in T : <<j, k>> \notin OpToRel(<, Nat)
  BY NatLessThanWellFounded, WFMin
<1> QED BY <1>1 DEF OpToRel

(* An array without one of its entries *)
LEMMA RemoveAtFacts ==
  ASSUME NEW S, NEW s \in Seq(S), NEW n \in 1 .. Len(s)
  PROVE  /\ RemoveAt(s, n) \in Seq(S)
         /\ Len(RemoveAt(s, n)) = Len(s) - 1
         /\ \A k \in 1 .. Len(s) - 1 : RemoveAt(s, n)[k] = IF k < n THEN s[k] ELSE s[k + 1]
<1> DEFINE front == SubSeq(s, 1, n - 1)
           back  == SubSeq(s, n + 1, Len(s))
<1>0. Len(s) \in Nat /\ n \in Nat /\ n >= 1 /\ n <= Len(s)
  BY LenProperties
<1>1. front \in Seq(S) /\ Len(front) = n - 1 /\ \A k \in 1 .. n - 1 : front[k] = s[k]
  <2>1. \A k \in 1 .. n - 1 : s[k] \in S
    BY <1>0, ElementOfSeq
  <2> QED BY <1>0, <2>1, SubSeqProperties
<1>2. back \in Seq(S) /\ Len(back) = Len(s) - n /\ \A k \in 1 .. Len(s) - n : back[k] = s[n + k]
  <2>1. \A k \in n + 1 .. Len(s) : s[k] \in S
    BY <1>0, ElementOfSeq
  <2> QED BY <1>0, <2>1, SubSeqProperties
<1> HIDE DEF front, back
<1>3. /\ front \o back \in Seq(S)
      /\ Len(front \o back) = Len(front) + Len(back)
      /\ \A k \in 1 .. Len(front) + Len(back) :
           (front \o back)[k] = IF k <= Len(front) THEN front[k] ELSE back[k - Len(front)]
  BY <1>1, <1>2, ConcatProperties
<1>4. RemoveAt(s, n) = front \o back
  BY DEF RemoveAt, front, back
<1>5. ASSUME NEW k \in 1 .. Len(s) - 1
      PROVE  (front \o back)[k] = IF k < n THEN s[k] ELSE s[k + 1]
  <2>1. CASE k < n
    BY <1>0, <1>1, <1>2, <1>3, <2>1
  <2>2. CASE ~(k < n)
    <3>1. k - (n - 1) \in 1 .. Len(s) - n /\ n + (k - (n - 1)) = k + 1
      BY <1>0, <2>2
    <3>2. (front \o back)[k] = back[k - (n - 1)]
      BY <1>0, <1>1, <1>2, <1>3, <2>2
    <3> QED BY <1>2, <2>2, <3>1, <3>2
  <2> QED BY <2>1, <2>2
<1>6. Len(front \o back) = Len(s) - 1
  BY <1>0, <1>1, <1>2, <1>3
<1> QED BY <1>3, <1>4, <1>5, <1>6

LEMMA AheadOrder ==
  ASSUME NEW S, NEW log \in Seq(S), NoRepeat(log), NEW x, NEW y, Ahead(log, x, y)
  PROVE  ~Ahead(log, y, x) /\ x # y
<1>1. DOMAIN log = 1 .. Len(log) /\ Len(log) \in Nat
  BY LenProperties
<1>2. PICK a, b \in 1 .. Len(log) : a < b /\ log[a] = x /\ log[b] = y
  BY <1>1 DEF Ahead
<1>3. ASSUME NEW c \in 1 .. Len(log), NEW d \in 1 .. Len(log), c < d, log[c] = y, log[d] = x
      PROVE  FALSE
  BY <1>1, <1>2, <1>3 DEF NoRepeat
<1> QED BY <1>1, <1>2, <1>3 DEF Ahead, NoRepeat

LEMMA Finite ==
  ASSUME Lists
  PROVE  /\ Eligible \in SUBSET Requests /\ Eligible \subseteq ToSet(requestLog) /\ IsFiniteSet(Eligible)
         /\ ToSet(offerLog) \in SUBSET Offers /\ IsFiniteSet(ToSet(offerLog))
<1>1. ToSet(requestLog) \subseteq Requests /\ ToSet(offerLog) \subseteq Offers
  BY ElementOfSeq DEF Lists, ToSet
<1> QED BY <1>1, ListsAssumption, FS_Subset DEF Eligible

(* A request has one offer in All, an offer one request. *)
LEMMA AllPairs ==
  ASSUME Lists, NEW q, NEW o, NEW p, NEW u, <<q, o>> \in All, <<p, u>> \in All
  PROVE  q = p <=> o = u
BY Finite, ListsAssumption, MatchesPair DEF Lists, All

LEMMA LoopInit == Init => LoopInv
<1> SUFFICES ASSUME Init PROVE LoopInv
  OBVIOUS
<1>1. \A S : \A m \in Nat : \A s \in BoundedSeq(S, m) : s \in Seq(S)
  BY DEF BoundedSeq, SeqOf
<1>2. Cardinality(Requests) \in Nat /\ Cardinality(Offers) \in Nat
  BY ListsAssumption, FS_CardinalityType
<1>3. requestLog \in Seq(Requests) /\ offerLog \in Seq(Offers)
  BY <1>1, <1>2 DEF Init
<1>4. DOMAIN requestLog = 1 .. Len(requestLog) /\ DOMAIN offerLog = 1 .. Len(offerLog)
  BY <1>3
<1>5. Lists
  BY <1>3, <1>4 DEF Init, Lists, NoRepeat, IsInjective
<1>6. pairs = {} /\ i = 1 /\ pendingTaskOffers = offerLog
  BY DEF Init
<1>7. Taken(pairs) = {} /\ Served(pairs) = {} /\ \A q : ~Passed(q)
  BY <1>6 DEF Taken, Served, Passed
<1>8. LoopComputesMatches
  BY <1>6, <1>7 DEF LoopComputesMatches
<1>9. InOrder
  BY <1>4, <1>6 DEF InOrder, Ahead
<1> QED BY <1>5, <1>7, <1>8, <1>9 DEF LoopInv, NoneLeft, TakenFirst

(* The next request is passed over. *)
LEMMA LoopSkip ==
  ASSUME LoopInv, Skip
  PROVE  LoopInv'
<1> DEFINE q == requestLog[i]
<1>1. Lists /\ LoopComputesMatches /\ InOrder /\ NoneLeft /\ TakenFirst
  BY DEF LoopInv
<1>2. /\ UNCHANGED <<requestLog, offerLog, inProgress, pendingTaskOffers, pairs>> /\ i' = i + 1
      /\ i \in 1 .. Len(requestLog) /\ Len(requestLog) \in Nat
  BY <1>1 DEF Skip, Lists
<1>3. Lists' /\ InOrder' /\ TakenFirst'
  BY <1>1, <1>2 DEF Lists, InOrder, TakenFirst
<1>4. \A p : Passed(p)' <=> Passed(p) \/ p = q
  <2>1. \A n : n \in 1 .. i' - 1 <=> n \in 1 .. i - 1 \/ n = i
    BY <1>2
  <2> QED BY <1>2, <2>1 DEF Passed
<1>5. ~Passed(q)
  BY <1>1, <1>2 DEF Passed, Lists, NoRepeat
<1>6. /\ pairs = {m \in All : Passed(m[1])}
      /\ ToSet(pendingTaskOffers) = ToSet(offerLog) \ Taken(pairs)
  BY <1>1 DEF LoopComputesMatches, All, Eligible, Passed
<1>7. q \notin inProgress => \A o \in ToSet(pendingTaskOffers) : TypeOf[Runner(o)] # TypeOf[q]
  BY DEF Skip, Fitting, ToSet
<1>8. ASSUME NEW m \in All
      PROVE  m[1] # q
  <2>1. m = <<m[1], m[2]>> /\ m[1] \in Eligible /\ m[2] \in ToSet(offerLog) /\ TypeOf[m[1]] = TypeOf[Runner(m[2])]
    BY DEF All, Matches
  <2> SUFFICES ASSUME m[1] = q PROVE FALSE
    OBVIOUS
  <2>2. m[2] \in Taken(pairs)
    BY <1>6, <1>7, <2>1 DEF Eligible
  <2>3. PICK k \in pairs : k[2] = m[2]
    BY <2>2 DEF Taken
  <2>4. k \in All /\ Passed(k[1]) /\ k = <<k[1], k[2]>>
    BY <1>6, <2>3 DEF All, Matches
  <2>5. k[1] = q
    BY <1>1, <2>1, <2>3, <2>4, AllPairs
  <2> QED BY <1>5, <2>4, <2>5
<1>9. All' = All /\ Eligible' = Eligible
  BY <1>2 DEF All, Eligible
<1>10. pairs' = {m \in All' : Passed(m[1])'}
  BY <1>2, <1>4, <1>6, <1>8, <1>9
<1>11. LoopComputesMatches'
  BY <1>2, <1>6, <1>10 DEF LoopComputesMatches, All, Eligible, Passed
<1>12. NoneLeft'
  BY <1>1, <1>2, <1>4, <1>7, <1>9 DEF NoneLeft, Eligible
<1> QED BY <1>3, <1>11, <1>12 DEF LoopInv

(* The offer that the next request takes is the first one of its type, and *)
(* has as many before it as the request has: those that the loop paired.   *)
LEMMA FirstFits ==
  ASSUME LoopInv, NEW q, NEW o \in ToSet(pendingTaskOffers), q = requestLog[i], i \in 1 .. Len(requestLog),
         q \notin inProgress, TypeOf[Runner(o)] = TypeOf[q],
         \A u \in ToSet(pendingTaskOffers) : TypeOf[Runner(u)] = TypeOf[q] => u = o \/ Ahead(offerLog, o, u)
  PROVE  <<q, o>> \in All
<1> DEFINE R == RequestsAhead(Eligible, requestLog, q)
           U == OffersAhead(ToSet(offerLog), offerLog, o)
           f == [p \in R |-> CHOOSE u \in U : <<p, u>> \in pairs]
<1>1. Lists /\ LoopComputesMatches /\ InOrder /\ NoneLeft /\ TakenFirst
  BY DEF LoopInv
<1>2. /\ pairs = {m \in All : Passed(m[1])}
      /\ ToSet(pendingTaskOffers) = ToSet(offerLog) \ Taken(pairs)
  BY <1>1 DEF LoopComputesMatches, All, Eligible, Passed
<1>3. Len(requestLog) \in Nat /\ DOMAIN requestLog = 1 .. Len(requestLog) /\ q \in Eligible
  BY <1>1 DEF Lists, Eligible, ToSet
<1>4. \A m \in pairs : /\ m = <<m[1], m[2]>> /\ m[1] \in Eligible /\ m[2] \in ToSet(offerLog)
                       /\ TypeOf[m[1]] = TypeOf[Runner(m[2])]
                       /\ m[1] \in Served(pairs) /\ m[2] \in Taken(pairs)
  BY <1>2 DEF All, Matches, Served, Taken
<1>5. \A p : Passed(p) <=> Ahead(requestLog, p, q)
  <2>1. ASSUME NEW p, Passed(p)
        PROVE  Ahead(requestLog, p, q)
    <3>1. PICK n \in 1 .. i - 1 : requestLog[n] = p
      BY <2>1 DEF Passed
    <3>2. n \in DOMAIN requestLog /\ i \in DOMAIN requestLog /\ n < i
      BY <1>3
    <3> QED BY <3>1, <3>2 DEF Ahead
  <2>2. ASSUME NEW p, Ahead(requestLog, p, q)
        PROVE  Passed(p)
    <3>1. PICK a, b \in 1 .. Len(requestLog) : a < b /\ requestLog[a] = p /\ requestLog[b] = q
      BY <1>3, <2>2 DEF Ahead
    <3>2. b = i
      BY <1>1, <3>1 DEF Lists, NoRepeat
    <3>3. a \in 1 .. i - 1
      BY <1>3, <3>1, <3>2
    <3> QED BY <3>1, <3>3 DEF Passed
  <2> QED BY <2>1, <2>2
<1>6. \A p : p \in R <=> p \in Eligible /\ TypeOf[p] = TypeOf[q] /\ Passed(p)
  BY <1>5 DEF RequestsAhead
<1>7. \A u : u \in U <=> /\ u \in ToSet(offerLog) /\ TypeOf[Runner(u)] = TypeOf[q]
                         /\ Ahead(offerLog, u, o)
  BY DEF OffersAhead
<1> HIDE DEF R, U
<1>8. ASSUME NEW p \in R
      PROVE  \E u \in U : <<p, u>> \in pairs
  <2>1. p \in Served(pairs)
    BY <1>1, <1>6, <1>8 DEF NoneLeft
  <2>2. PICK m \in pairs : m[1] = p
    BY <2>1 DEF Served
  <2>3. Ahead(offerLog, m[2], o)
    BY <1>1, <1>4, <1>6, <2>2 DEF TakenFirst
  <2>4. m[2] \in U /\ <<p, m[2]>> \in pairs
    BY <1>4, <1>6, <1>7, <2>2, <2>3
  <2> QED BY <2>4
<1>9. ASSUME NEW u \in U
      PROVE  \E p \in R : <<p, u>> \in pairs
  <2>1. u \notin ToSet(pendingTaskOffers)
    <3>1. u # o /\ ~Ahead(offerLog, o, u)
      BY <1>1, <1>7, AheadOrder DEF Lists
    <3> QED BY <1>7, <3>1
  <2>2. PICK m \in pairs : m[2] = u
    BY <1>2, <1>7, <2>1 DEF Taken
  <2>3. m[1] \in R /\ <<m[1], u>> \in pairs
    BY <1>2, <1>4, <1>6, <1>7, <2>2
  <2> QED BY <2>3
<1>10. \A p, r, u, v : <<p, u>> \in pairs /\ <<r, v>> \in pairs => (p = r <=> u = v)
  BY <1>1, <1>2, AllPairs
<1>11. \A p \in R : f[p] \in U /\ <<p, f[p]>> \in pairs
  BY <1>8
<1>12. DOMAIN f = R
  OBVIOUS
<1> HIDE DEF f
<1>13. \A p \in R, u \in U : f[p] = u <=> <<p, u>> \in pairs
  BY <1>10, <1>11
<1>14. f \in Bijection(R, U)
  <2>1. f \in [R -> U]
    BY <1>11 DEF f
  <2>2. \A p, r \in R : f[p] = f[r] => p = r
    BY <1>10, <1>11
  <2>3. \A u \in U : \E p \in R : f[p] = u
    BY <1>9, <1>13
  <2> QED BY <2>1, <2>2, <2>3 DEF Bijection, Injection, Surjection, IsInjective
<1>15. IsFiniteSet(R)
  <2>1. R \subseteq Eligible /\ IsFiniteSet(Eligible)
    BY <1>1, <1>6, Finite
  <2> QED BY <2>1, FS_Subset
<1>16. Cardinality(R) = Cardinality(U)
  BY <1>14, <1>15, FS_Bijection DEF ExistsBijection
<1> QED BY <1>2, <1>3, <1>16 DEF All, Matches, R, U

(* The next request takes the first offer of its type. *)
LEMMA LoopAccept ==
  ASSUME LoopInv, Accept
  PROVE  LoopInv'
<1> DEFINE q == requestLog[i]
           n == Min(Fitting(q))
           o == pendingTaskOffers[n]
           rest == RemoveAt(pendingTaskOffers, n)
<1>1. Lists /\ LoopComputesMatches /\ InOrder /\ NoneLeft /\ TakenFirst
  BY DEF LoopInv
<1>2. /\ UNCHANGED <<requestLog, offerLog, inProgress>> /\ i' = i + 1
      /\ i \in 1 .. Len(requestLog) /\ Len(requestLog) \in Nat
      /\ pairs' = pairs \cup {<<q, o>>} /\ pendingTaskOffers' = rest
      /\ q \notin inProgress /\ Fitting(q) # {}
  BY <1>1 DEF Accept, Lists
<1>3. /\ Len(pendingTaskOffers) \in Nat /\ DOMAIN pendingTaskOffers = 1 .. Len(pendingTaskOffers)
      /\ pendingTaskOffers \in Seq(Offers)
  BY <1>1 DEF Lists
<1>4. n \in Fitting(q) /\ \A k \in Fitting(q) : n <= k
  <2>1. Fitting(q) \in SUBSET Nat
    BY <1>3 DEF Fitting
  <2>2. PICK k \in Fitting(q) : \A l \in Fitting(q) : ~(l < k)
    BY <1>2, <2>1, FirstPosition
  <2>3. \A l \in Fitting(q) : k =< l
    BY <2>1, <2>2
  <2> QED BY <2>2, <2>3 DEF Min
<1>5. n \in 1 .. Len(pendingTaskOffers) /\ TypeOf[Runner(o)] = TypeOf[q]
  BY <1>3, <1>4 DEF Fitting
<1>6. /\ rest \in Seq(Offers)
      /\ Len(rest) = Len(pendingTaskOffers) - 1
      /\ \A k \in 1 .. Len(rest) :
           rest[k] = IF k < n THEN pendingTaskOffers[k] ELSE pendingTaskOffers[k + 1]
  BY <1>3, <1>5, RemoveAtFacts
<1>7. \A x : x \in ToSet(pendingTaskOffers) <=> \E k \in 1 .. Len(pendingTaskOffers) : pendingTaskOffers[k] = x
  BY <1>3 DEF ToSet
<1>8. \A u \in ToSet(pendingTaskOffers) : TypeOf[Runner(u)] = TypeOf[q] => u = o \/ Ahead(offerLog, o, u)
  <2> SUFFICES ASSUME NEW k \in 1 .. Len(pendingTaskOffers), TypeOf[Runner(pendingTaskOffers[k])] = TypeOf[q]
               PROVE  k = n \/ Ahead(offerLog, o, pendingTaskOffers[k])
    BY <1>7
  <2>1. n <= k
    BY <1>3, <1>4 DEF Fitting
  <2>2. n < k => Ahead(offerLog, o, pendingTaskOffers[k])
    BY <1>1, <1>5 DEF InOrder
  <2> QED BY <1>5, <2>1, <2>2
<1> HIDE DEF n
<1>9. o \in ToSet(pendingTaskOffers)
  BY <1>5, <1>7
<1> HIDE DEF q, o, rest
<1>10. <<q, o>> \in All
  BY <1>2, <1>5, <1>8, <1>9, FirstFits DEF q
<1>11. \A p : Passed(p)' <=> Passed(p) \/ p = q
  <2>1. \A k : k \in 1 .. i' - 1 <=> k \in 1 .. i - 1 \/ k = i
    BY <1>2
  <2> QED BY <1>2, <2>1 DEF Passed, q
<1>12. /\ pairs = {m \in All : Passed(m[1])}
       /\ ToSet(pendingTaskOffers) = ToSet(offerLog) \ Taken(pairs)
  BY <1>1 DEF LoopComputesMatches, All, Eligible, Passed
<1>13. All' = All /\ Eligible' = Eligible
  BY <1>2 DEF All, Eligible
<1>14. pairs' = {m \in All' : Passed(m[1])'}
  <2>1. ASSUME NEW m \in All, m[1] = q
        PROVE  m = <<q, o>>
    <3>1. m = <<m[1], m[2]>>
      BY DEF All, Matches
    <3>2. m[2] = o
      BY <1>1, <1>10, <2>1, <3>1, AllPairs
    <3> QED BY <2>1, <3>1, <3>2
  <2> QED BY <1>2, <1>10, <1>11, <1>12, <1>13, <2>1
<1>15. Taken(pairs') = Taken(pairs) \cup {o} /\ Served(pairs') = Served(pairs) \cup {q}
  <2>1. <<q, o>>[1] = q /\ <<q, o>>[2] = o
    OBVIOUS
  <2>2. \A x : x \in Taken(pairs') <=> x \in Taken(pairs) \/ x = <<q, o>>[2]
    BY <1>2 DEF Taken
  <2>3. \A x : x \in Served(pairs') <=> x \in Served(pairs) \/ x = <<q, o>>[1]
    BY <1>2 DEF Served
  <2> QED BY <2>1, <2>2, <2>3
<1>16. \A a, b \in 1 .. Len(pendingTaskOffers) : pendingTaskOffers[a] = pendingTaskOffers[b] => a = b
  <2>1. \A a, b \in 1 .. Len(pendingTaskOffers) : a < b => pendingTaskOffers[a] # pendingTaskOffers[b]
    BY <1>1, AheadOrder DEF InOrder, Lists
  <2> QED BY <2>1
<1>17. ToSet(rest) = ToSet(pendingTaskOffers) \ {o}
  <2>1. \A x : x \in ToSet(rest) <=> \E k \in 1 .. Len(rest) : rest[k] = x
    BY <1>6 DEF ToSet
  <2>2. ASSUME NEW k \in 1 .. Len(rest)
        PROVE  rest[k] \in ToSet(pendingTaskOffers) \ {o}
    <3>1. k \in 1 .. Len(pendingTaskOffers) /\ k + 1 \in 1 .. Len(pendingTaskOffers)
      BY <1>3, <1>6
    <3>2. CASE k < n
      BY <1>5, <1>6, <1>7, <1>16, <3>1, <3>2 DEF o
    <3>3. CASE ~(k < n)
      BY <1>5, <1>6, <1>7, <1>16, <3>1, <3>3 DEF o
    <3> QED BY <3>2, <3>3
  <2>3. ASSUME NEW k \in 1 .. Len(pendingTaskOffers), pendingTaskOffers[k] # o
        PROVE  pendingTaskOffers[k] \in ToSet(rest)
    <3>1. CASE k < n
      <4>1. k \in 1 .. Len(rest)
        BY <1>3, <1>5, <1>6, <3>1
      <4> QED BY <1>6, <2>1, <3>1, <4>1
    <3>2. CASE ~(k < n)
      <4>1. k - 1 \in 1 .. Len(rest) /\ (k - 1) + 1 = k /\ ~(k - 1 < n)
        BY <1>3, <1>5, <1>6, <2>3, <3>2 DEF o
      <4> QED BY <1>6, <2>1, <4>1
    <3> QED BY <3>1, <3>2
  <2> QED BY <1>7, <2>1, <2>2, <2>3
<1>18. Lists'
  BY <1>1, <1>2, <1>6 DEF Lists
<1>19. LoopComputesMatches'
  <2>1. ToSet(pendingTaskOffers') = ToSet(offerLog') \ Taken(pairs')
    BY <1>2, <1>12, <1>15, <1>17
  <2> QED BY <1>14, <2>1 DEF LoopComputesMatches, All, Eligible, Passed
<1>20. InOrder'
  <2>1. ASSUME NEW a \in 1 .. Len(rest), NEW b \in 1 .. Len(rest), a < b
        PROVE  Ahead(offerLog, rest[a], rest[b])
    <3>1. PICK c, d \in 1 .. Len(pendingTaskOffers) :
            c < d /\ rest[a] = pendingTaskOffers[c] /\ rest[b] = pendingTaskOffers[d]
      <4>1. /\ a \in 1 .. Len(pendingTaskOffers) /\ a + 1 \in 1 .. Len(pendingTaskOffers)
            /\ b \in 1 .. Len(pendingTaskOffers) /\ b + 1 \in 1 .. Len(pendingTaskOffers)
        BY <1>3, <1>6
      <4>2. a < b /\ a < b + 1 /\ a + 1 < b + 1
        BY <2>1
      <4>3. b < n => a < n
        BY <1>5, <2>1
      <4> QED BY <1>6, <4>1, <4>2, <4>3
    <3> QED BY <1>1, <3>1 DEF InOrder
  <2> QED BY <1>2, <2>1 DEF InOrder
<1>21. NoneLeft'
  BY <1>1, <1>2, <1>11, <1>13, <1>15, <1>17 DEF NoneLeft
<1>22. TakenFirst'
  BY <1>1, <1>2, <1>5, <1>8, <1>15, <1>17 DEF TakenFirst
<1> QED BY <1>18, <1>19, <1>20, <1>21, <1>22 DEF LoopInv

(* settleTasks gives the n-th request of a type that nobody serves the     *)
(* n-th offer of the type, and no other: the loop over the array, with its *)
(* removals, computes the set of pairs that the model of the broker uses,  *)
(* for any requests, offers, types and order.                              *)
THEOREM LoopTheorem == Spec => []LoopComputesMatches
<1>1. LoopInv /\ [Next]_vars => LoopInv'
  <2> SUFFICES ASSUME LoopInv, [Next]_vars PROVE LoopInv'
    OBVIOUS
  <2>1. CASE UNCHANGED vars
    BY <2>1 DEF vars, LoopInv, Lists, LoopComputesMatches, InOrder, NoneLeft, TakenFirst, Eligible, Passed
  <2> QED BY <2>1, LoopSkip, LoopAccept DEF Next
<1>2. LoopInv => LoopComputesMatches
  BY DEF LoopInv
<1> QED BY <1>1, <1>2, LoopInit, PTL DEF Spec
=============================================================================
