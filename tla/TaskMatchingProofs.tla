------------------------- MODULE TaskMatchingProofs -------------------------
(***************************************************************************)
(* Lists without repetitions, and the pairs of settleTasks: it pairs every *)
(* request with one offer and every offer with one request.                *)
(***************************************************************************)
EXTENDS TaskMatching, SequenceTheorems, FiniteSetTheorems, TLAPS

LEMMA InChannel ==
  ASSUME NEW S, NEW s \in Seq(S), NEW m
  PROVE  m \in ToSet(s) <=> \E i \in 1 .. Len(s) : s[i] = m
BY DEF ToSet

NoRepeat(log) == \A i, j \in 1 .. Len(log) : log[i] = log[j] => i = j

LEMMA AppendNoRepeat ==
  ASSUME NEW S, NEW log \in Seq(S), NEW x \in S, NoRepeat(log), x \notin ToSet(log)
  PROVE  NoRepeat(Append(log, x))
<1> DEFINE new == Append(log, x)
<1>1. /\ Len(new) = Len(log) + 1 /\ Len(log) \in Nat
      /\ \A i \in 1 .. Len(log) : new[i] = log[i]
      /\ new[Len(log) + 1] = x
  BY AppendProperties
<1>2. \A i \in 1 .. Len(log) : log[i] # x
  BY InChannel
<1> HIDE DEF new
<1>3. ASSUME NEW i \in 1 .. Len(new), NEW j \in 1 .. Len(new), new[i] = new[j]
      PROVE  i = j
  <2>1. CASE i = Len(log) + 1
    BY <1>1, <1>2, <1>3, <2>1
  <2>2. CASE j = Len(log) + 1
    BY <1>1, <1>2, <1>3, <2>2
  <2>3. CASE i # Len(log) + 1 /\ j # Len(log) + 1
    <3>1. i \in 1 .. Len(log) /\ j \in 1 .. Len(log)
      BY <1>1, <2>3
    <3> QED BY <1>1, <1>3, <3>1 DEF NoRepeat
  <2> QED BY <2>1, <2>2, <2>3
<1>4. NoRepeat(new)
  BY <1>3 DEF NoRepeat
<1> QED BY <1>4 DEF new

(* In a log without repetitions the elements of X have different numbers   *)
(* of elements of X before them.                                           *)
LEMMA FewerAhead ==
  ASSUME NEW S, NEW log \in Seq(S), NoRepeat(log), NEW X, IsFiniteSet(X), NEW x \in X, NEW y \in X,
         NEW i \in 1 .. Len(log), NEW j \in 1 .. Len(log), log[i] = x, log[j] = y, i < j
  PROVE  Cardinality({p \in X : Ahead(log, p, x)}) # Cardinality({p \in X : Ahead(log, p, y)})
<1> DEFINE A == {p \in X : Ahead(log, p, x)}
           B == {p \in X : Ahead(log, p, y)}
<1>0. DOMAIN log = 1 .. Len(log) /\ Len(log) \in Nat
  OBVIOUS
<1>1. x \in B
  BY <1>0 DEF Ahead
<1>2. x \notin A
  BY <1>0 DEF Ahead, NoRepeat
<1>3. A \subseteq B
  <2> SUFFICES ASSUME NEW p \in X, Ahead(log, p, x)
               PROVE  Ahead(log, p, y)
    OBVIOUS
  <2>1. PICK m, n \in 1 .. Len(log) : m < n /\ log[m] = p /\ log[n] = x
    BY <1>0 DEF Ahead
  <2>2. n = i
    BY <2>1 DEF NoRepeat
  <2>3. m < j
    BY <1>0, <2>1, <2>2
  <2> QED BY <1>0, <2>1, <2>3 DEF Ahead
<1>4. IsFiniteSet(B)
  BY FS_Subset
<1> HIDE DEF A, B
<1>5. Cardinality(A) # Cardinality(B)
  BY <1>1, <1>2, <1>3, <1>4, FS_Subset
<1> QED BY <1>5 DEF A, B

LEMMA SamePlace ==
  ASSUME NEW S, NEW log \in Seq(S), NoRepeat(log), NEW X, IsFiniteSet(X), X \subseteq ToSet(log),
         NEW x \in X, NEW y \in X,
         Cardinality({p \in X : Ahead(log, p, x)}) = Cardinality({p \in X : Ahead(log, p, y)})
  PROVE  x = y
<1>1. PICK i \in 1 .. Len(log) : log[i] = x
  BY InChannel
<1>2. PICK j \in 1 .. Len(log) : log[j] = y
  BY InChannel
<1>3. ~(i < j)
  BY <1>1, <1>2, FewerAhead
<1>4. ~(j < i)
  BY <1>1, <1>2, FewerAhead
<1> QED BY <1>1, <1>2, <1>3, <1>4

LEMMA MatchesPair ==
  ASSUME NEW Q, IsFiniteSet(Q), NEW reqs \in SUBSET Q, NEW rlog \in Seq(Q), NoRepeat(rlog), reqs \subseteq ToSet(rlog),
         NEW O, IsFiniteSet(O), NEW offers \in SUBSET O, NEW olog \in Seq(O), NoRepeat(olog), offers \subseteq ToSet(olog),
         NEW q, NEW o, NEW p, NEW u,
         <<q, o>> \in Matches(reqs, rlog, offers, olog), <<p, u>> \in Matches(reqs, rlog, offers, olog)
  PROVE  q = p <=> o = u
<1>1. /\ q \in reqs /\ o \in offers /\ TypeOf[q] = TypeOf[Runner(o)]
      /\ Cardinality(RequestsAhead(reqs, rlog, q)) = Cardinality(OffersAhead(offers, olog, o))
  BY DEF Matches
<1>2. /\ p \in reqs /\ u \in offers /\ TypeOf[p] = TypeOf[Runner(u)]
      /\ Cardinality(RequestsAhead(reqs, rlog, p)) = Cardinality(OffersAhead(offers, olog, u))
  BY DEF Matches
<1>3. ASSUME q = p
      PROVE  o = u
  <2> DEFINE X == {x \in offers : TypeOf[Runner(x)] = TypeOf[q]}
  <2>1. o \in X /\ u \in X /\ X \subseteq ToSet(olog) /\ IsFiniteSet(X)
    BY <1>1, <1>2, <1>3, FS_Subset
  <2>2. OffersAhead(offers, olog, o) = {x \in X : Ahead(olog, x, o)}
    BY <1>1 DEF OffersAhead
  <2>3. OffersAhead(offers, olog, u) = {x \in X : Ahead(olog, x, u)}
    BY <1>2, <1>3 DEF OffersAhead
  <2> HIDE DEF X
  <2>4. Cardinality({x \in X : Ahead(olog, x, o)}) = Cardinality({x \in X : Ahead(olog, x, u)})
    BY <1>1, <1>2, <1>3, <2>2, <2>3
  <2> QED BY <2>1, <2>4, SamePlace
<1>4. ASSUME o = u
      PROVE  q = p
  <2> DEFINE X == {x \in reqs : TypeOf[x] = TypeOf[q]}
  <2>1. q \in X /\ p \in X /\ X \subseteq ToSet(rlog) /\ IsFiniteSet(X)
    BY <1>1, <1>2, <1>4, FS_Subset
  <2>2. RequestsAhead(reqs, rlog, q) = {x \in X : Ahead(rlog, x, q)}
    BY DEF RequestsAhead
  <2>3. RequestsAhead(reqs, rlog, p) = {x \in X : Ahead(rlog, x, p)}
    BY <1>1, <1>2, <1>4 DEF RequestsAhead
  <2> HIDE DEF X
  <2> QED BY <1>1, <1>2, <1>4, <2>1, <2>2, <2>3, SamePlace
<1> QED BY <1>3, <1>4
=============================================================================
