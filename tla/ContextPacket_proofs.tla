------------------------ MODULE ContextPacket_proofs ------------------------
(***************************************************************************)
(* Context packets, for any chapters, items, lengths and budgets: what the *)
(* page's compiler makes, that the host's makes the same, the invariant of *)
(* an operation, and the theorems.                                         *)
(***************************************************************************)
EXTENDS ContextPacket, FiniteSetTheorems, SequenceTheorems, WellFoundedInduction, TLAPS

-----------------------------------------------------------------------------
(* Induction up to a number, and functions defined along it *)

\* A set of natural numbers that is not empty has a least element.
LEMMA Least ==
    ASSUME NEW S \in SUBSET Nat, S # {}
    PROVE  \E n \in S : \A m \in S : n <= m
<1>1. PICK n \in S : \A m \in S : <<m, n>> \notin OpToRel(<, Nat)
  BY NatLessThanWellFounded, WFMin
<1>2. \A m \in S : <<m, n>> \notin OpToRel(<, Nat) => n <= m
  BY DEF OpToRel
<1> QED  BY <1>1, <1>2

\* What holds of 0 and of the successor of whatever it holds of.
LEMMA UpTo ==
    ASSUME NEW N \in Nat, NEW S, 0 \in S, \A n \in 1 .. N : n - 1 \in S => n \in S
    PROVE  \A n \in 0 .. N : n \in S
<1> DEFINE T == {n \in 0 .. N : n \notin S}
<1> SUFFICES ASSUME T # {} PROVE FALSE
  OBVIOUS
<1>1. PICK n \in T : \A m \in T : n <= m
  <2>1. T \in SUBSET Nat
    OBVIOUS
  <2> HIDE DEF T
  <2> QED  BY <2>1, Least
<1>2. n # 0 /\ n - 1 \in 0 .. N /\ ~(n <= n - 1)
  BY <1>1
<1> QED  BY <1>1, <1>2

\* u is what n steps make of a base.
Extends(u, n, base, step) ==
    u = [k \in 0 .. n |-> IF k = 0 THEN base ELSE step[<<k, u[k - 1]>>]]

\* Such a function exists, and stays where the step leads.
LEMMA ExtensionExists ==
    ASSUME NEW N \in Nat, NEW V, NEW base \in V, NEW step \in [(1 .. N) \X V -> V]
    PROVE  \E u \in [0 .. N -> V] : Extends(u, N, base, step)
<1> DEFINE Extended(u, n) == u \in [0 .. n -> V] /\ Extends(u, n, base, step)
           S == {n \in 0 .. N : \E u : Extended(u, n)}
<1>1. 0 \in S
  <2>1. Extended([k \in 0 .. 0 |-> base], 0)
    BY DEF Extends
  <2> HIDE DEF Extended
  <2> QED  BY <2>1
<1>2. \A n \in 1 .. N : n - 1 \in S => n \in S
  <2> HIDE DEF Extended
  <2> SUFFICES ASSUME NEW n \in 1 .. N, n - 1 \in S
               PROVE  \E u : Extended(u, n)
    OBVIOUS
  <2>1. PICK u : Extended(u, n - 1)
    OBVIOUS
  <2> USE DEF Extended
  <2> DEFINE longer == [k \in 0 .. n |-> IF k = n THEN step[<<n, u[n - 1]>>] ELSE u[k]]
  <2>2. u[0] = base /\ \A k \in 1 .. n - 1 : u[k] = step[<<k, u[k - 1]>>]
    BY <2>1 DEF Extends
  <2>3. longer \in [0 .. n -> V]
    <3>1. u[n - 1] \in V
      BY <2>1
    <3>2. step[<<n, u[n - 1]>>] \in V
      BY <3>1
    <3>3. ASSUME NEW k \in 0 .. n, k # n PROVE u[k] \in V
      BY <2>1, <3>3
    <3> QED  BY <3>2, <3>3
  <2>4. \A k \in 1 .. n : k - 1 \in 0 .. n /\ longer[k - 1] = u[k - 1]
    OBVIOUS
  <2>5. \A k \in 0 .. n : longer[k] = IF k = 0 THEN base ELSE step[<<k, longer[k - 1]>>]
    <3>1. longer[0] = base
      BY <2>2
    <3>2. ASSUME NEW k \in 1 .. n PROVE longer[k] = step[<<k, u[k - 1]>>]
      <4>1. CASE k = n
        BY <4>1
      <4>2. CASE k # n
        <5>1. k \in 1 .. n - 1 /\ longer[k] = u[k]
          BY <4>2
        <5> HIDE DEF longer
        <5> QED  BY <5>1, <2>2
      <4> QED  BY <4>1, <4>2
    <3> HIDE DEF longer
    <3> QED  BY <2>4, <3>1, <3>2
  <2>6. Extends(longer, n, base, step)
    <3>1. longer = [k \in 0 .. n |-> longer[k]]
      BY <2>3
    <3> HIDE DEF longer
    <3>2. [k \in 0 .. n |-> longer[k]]
             = [k \in 0 .. n |-> IF k = 0 THEN base ELSE step[<<k, longer[k - 1]>>]]
      BY <2>5
    <3> QED  BY <3>1, <3>2 DEF Extends
  <2>7. Extended(longer, n)
    BY <2>3, <2>6
  <2> HIDE DEF Extended
  <2> QED  BY <2>7
<1>3. \A n \in 0 .. N : n \in S
  <2> HIDE DEF S
  <2> QED  BY <1>1, <1>2, UpTo
<1>4. N \in S
  BY <1>3
<1> HIDE DEF Extends
<1> QED  BY <1>4

-----------------------------------------------------------------------------
(* Lists in an order *)

\* before tells any two members of S apart, one way.
Orders(before, S) ==
    /\ \A c \in S : <<c, c>> \notin before
    /\ \A c, d, e \in S : <<c, d>> \in before /\ <<d, e>> \in before => <<c, e>> \in before
    /\ \A c, d \in S : c # d => <<c, d>> \in before \/ <<d, c>> \in before

Below(S, before, c) == {d \in S : <<d, c>> \in before}

PlacedBy(S, before) == {<<Cardinality(Below(S, before, c)), c>> : c \in S}

\* list has every member of S once, in the order.
Lists(list, S, before) ==
    /\ list \in [1 .. Cardinality(S) -> S]
    /\ \A c \in S : \E n \in 1 .. Cardinality(S) : list[n] = c
    /\ \A m, n \in 1 .. Cardinality(S) : m < n => <<list[m], list[n]>> \in before

\* Fewer go before what goes before.
LEMMA PlacesGrow ==
    ASSUME NEW S, IsFiniteSet(S), NEW before, Orders(before, S)
    PROVE  /\ \A c \in S : Cardinality(Below(S, before, c)) \in 0 .. Cardinality(S) - 1
           /\ \A c, d \in S : <<c, d>> \in before =>
                 Cardinality(Below(S, before, c)) < Cardinality(Below(S, before, d))
<1>1. Cardinality(S) \in Nat
  BY FS_CardinalityType
<1>2. ASSUME NEW c \in S
      PROVE  IsFiniteSet(Below(S, before, c)) /\ Cardinality(Below(S, before, c)) \in Nat
  BY FS_Subset, FS_CardinalityType DEF Below
<1>3. ASSUME NEW c \in S, NEW T, IsFiniteSet(T), Below(S, before, c) \cup {c} \subseteq T
      PROVE  Cardinality(Below(S, before, c)) + 1 <= Cardinality(T)
  <2>1. c \notin Below(S, before, c)
    BY DEF Below, Orders
  <2>2. Cardinality(Below(S, before, c) \cup {c}) = Cardinality(Below(S, before, c)) + 1
    BY <1>2, <2>1, FS_AddElement
  <2>3. Cardinality(Below(S, before, c) \cup {c}) <= Cardinality(T)
    BY <1>3, FS_Subset
  <2> QED  BY <2>2, <2>3
<1>4. ASSUME NEW c \in S
      PROVE  Cardinality(Below(S, before, c)) \in 0 .. Cardinality(S) - 1
  <2>1. Below(S, before, c) \cup {c} \subseteq S
    BY DEF Below
  <2>2. Cardinality(Below(S, before, c)) + 1 <= Cardinality(S)
    BY <2>1, <1>3
  <2> QED  BY <2>2, <1>1, <1>2
<1>5. ASSUME NEW c \in S, NEW d \in S, <<c, d>> \in before
      PROVE  Cardinality(Below(S, before, c)) < Cardinality(Below(S, before, d))
  <2>1. Below(S, before, c) \cup {c} \subseteq Below(S, before, d)
    BY <1>5 DEF Below, Orders
  <2>2. Cardinality(Below(S, before, c)) + 1 <= Cardinality(Below(S, before, d))
    BY <2>1, <1>2, <1>3
  <2> QED  BY <2>2, <1>2
<1> QED  BY <1>4, <1>5

\* InOrder lists a set that is placed by an order.
LEMMA InOrderLists ==
    ASSUME NEW S, IsFiniteSet(S), NEW before, Orders(before, S)
    PROVE  Lists(InOrder(PlacedBy(S, before)), S, before)
<1> DEFINE N == Cardinality(S)
           place == [c \in S |-> Cardinality(Below(S, before, c))]
           placed == PlacedBy(S, before)
           list == InOrder(placed)
<1>1. N \in Nat
  BY FS_CardinalityType
<1>2. place \in [S -> 0 .. N - 1]
  BY PlacesGrow
<1>3. \A c, d \in S : <<c, d>> \in before => place[c] < place[d]
  BY PlacesGrow
<1>4. placed = {<<place[c], c>> : c \in S}
  BY DEF PlacedBy
<1> HIDE DEF place, N, placed
<1>5. \A c, d \in S : place[c] = place[d] => c = d
  <2> SUFFICES ASSUME NEW c \in S, NEW d \in S, place[c] = place[d], c # d
               PROVE  FALSE
    OBVIOUS
  <2>1. place[c] < place[d] \/ place[d] < place[c]
    BY <1>3 DEF Orders
  <2>2. place[c] \in Int /\ place[d] \in Int
    BY <1>2
  <2> QED  BY <2>1, <2>2
<1>6. IsFiniteSet(0 .. N - 1) /\ Cardinality(0 .. N - 1) = N
  BY <1>1, FS_Interval
<1>7. place \in Injection(S, 0 .. N - 1)
  BY <1>2, <1>5 DEF Injection, IsInjective
<1>8. place \in Surjection(S, 0 .. N - 1)
  BY <1>6, <1>7, FS_Injection DEF N
<1>9. \A n \in 1 .. N : \E c \in S : place[c] = n - 1
  <2>1. \A k \in 0 .. N - 1 : \E c \in S : place[c] = k
    BY <1>8 DEF Surjection
  <2>2. \A n \in 1 .. N : n - 1 \in 0 .. N - 1
    BY <1>1
  <2> QED  BY <2>1, <2>2
<1>10. Cardinality(placed) = N
  <2> DEFINE pair == [c \in S |-> <<place[c], c>>]
  <2>1. pair \in Bijection(S, placed)
    <3>1. pair \in [S -> placed]
      BY <1>4
    <3>2. \A c, d \in S : pair[c] = pair[d] => c = d
      OBVIOUS
    <3>3. \A p \in placed : \E c \in S : pair[c] = p
      BY <1>4
    <3> HIDE DEF pair
    <3> QED  BY <3>1, <3>2, <3>3 DEF Bijection, Injection, Surjection, IsInjective
  <2> HIDE DEF pair
  <2>2. ExistsBijection(S, placed)
    BY <2>1 DEF ExistsBijection
  <2> QED  BY <2>2, FS_Bijection DEF N
<1>11. ASSUME NEW n \in 1 .. N
       PROVE  list[n] \in S /\ place[list[n]] = n - 1
  <2> DEFINE P(p) == p \in placed /\ p[1] = n - 1
             it == CHOOSE p : P(p)
  <2>1. list[n] = it[2]
    BY <1>10 DEF InOrder
  <2>2. \E p : P(p)
    <3>1. PICK c \in S : place[c] = n - 1
      BY <1>9
    <3>2. P(<<place[c], c>>)
      BY <3>1, <1>4
    <3> HIDE DEF P
    <3> QED  BY <3>2
  <2>3. P(it)
    <3> HIDE DEF P
    <3> QED  BY <2>2
  <2> HIDE DEF it
  <2>4. PICK c \in S : it = <<place[c], c>>
    BY <2>3, <1>4
  <2> QED  BY <2>1, <2>3, <2>4
<1>12. list \in [1 .. N -> S]
  <2>1. list = [n \in 1 .. N |-> list[n]]
    BY <1>10 DEF InOrder
  <2> HIDE DEF list
  <2> QED  BY <2>1, <1>11
<1> HIDE DEF list
<1>13. \A c \in S : \E n \in 1 .. N : list[n] = c
  <2> SUFFICES ASSUME NEW c \in S PROVE \E n \in 1 .. N : list[n] = c
    OBVIOUS
  <2>1. place[c] \in 0 .. N - 1
    BY <1>2
  <2>2. place[c] + 1 \in 1 .. N /\ (place[c] + 1) - 1 = place[c]
    BY <2>1, <1>1
  <2>3. list[place[c] + 1] \in S /\ place[list[place[c] + 1]] = place[c]
    BY <2>2, <1>11
  <2> QED  BY <2>2, <2>3, <1>5
<1>14. \A m, n \in 1 .. N : m < n => <<list[m], list[n]>> \in before
  <2> SUFFICES ASSUME NEW m \in 1 .. N, NEW n \in 1 .. N, m < n
               PROVE  <<list[m], list[n]>> \in before
    OBVIOUS
  <2>1. list[m] \in S /\ list[n] \in S /\ place[list[m]] = m - 1 /\ place[list[n]] = n - 1
    BY <1>11
  <2>2. list[m] # list[n] /\ ~(place[list[n]] < place[list[m]])
    BY <2>1, <1>1
  <2> QED  BY <2>1, <2>2, <1>3 DEF Orders
<1> QED  BY <1>12, <1>13, <1>14 DEF Lists, N, list, placed

-----------------------------------------------------------------------------
(* Lengths *)

Statuses == {"absent", "canonical", "archived", "rejected"}

Candidates == [kind : Kinds, id : Nat, version : Nat, commit : Nat, status : Statuses]

LEMMA IntervalCounts ==
    ASSUME NEW n \in Nat
    PROVE  IsFiniteSet(1 .. n) /\ Cardinality(1 .. n) = n
<1>1. /\ IsFiniteSet(1 .. n)
      /\ Cardinality(1 .. n) = IF 1 > n THEN 0 ELSE n - 1 + 1
  BY FS_Interval
<1> QED  BY <1>1

\* The tokens of finitely many candidates can be counted.
LEMMA TotalCounts ==
    ASSUME length \in Lengths, NEW S, S \subseteq Candidates, IsFiniteSet(S)
    PROVE  /\ IsFiniteSet(Tokens(S))
           /\ Total(S) \in Nat
<1> DEFINE tokens == [c \in S |-> {c} \X (1 .. length[c.kind])]
           T == {tokens[c] : c \in S}
<1>1. tokens \in Surjection(S, T)
  BY DEF Surjection
<1>2. \A c \in S : IsFiniteSet(tokens[c])
  <2> SUFFICES ASSUME NEW c \in S PROVE IsFiniteSet({c} \X (1 .. length[c.kind]))
    OBVIOUS
  <2>1. c.kind \in Kinds
    BY DEF Candidates
  <2>2. length[c.kind] \in Nat
    BY <2>1, ContextConstants
  <2>3. IsFiniteSet(1 .. length[c.kind])
    BY <2>2, IntervalCounts
  <2>4. IsFiniteSet({c})
    BY FS_Singleton
  <2> QED  BY <2>3, <2>4, FS_Product
<1>3. Tokens(S) = UNION T
  BY DEF Tokens
<1> HIDE DEF tokens
<1>4. IsFiniteSet(T) /\ \A x \in T : IsFiniteSet(x)
  BY <1>1, <1>2, FS_Surjection
<1>5. IsFiniteSet(Tokens(S))
  BY <1>3, <1>4, FS_UNION
<1> QED  BY <1>5, FS_CardinalityType DEF Total

\* One more candidate adds its length.
LEMMA TotalAdds ==
    ASSUME length \in Lengths, NEW S, S \subseteq Candidates, IsFiniteSet(S),
           NEW c \in Candidates, c \notin S
    PROVE  Total(S \cup {c}) = Total(S) + length[c.kind]
<1> DEFINE own == {c} \X (1 .. length[c.kind])
<1>1. length[c.kind] \in Nat
  BY ContextConstants DEF Candidates
<1>2. IsFiniteSet(own) /\ Cardinality(own) = length[c.kind]
  <2>1. IsFiniteSet(1 .. length[c.kind]) /\ Cardinality(1 .. length[c.kind]) = length[c.kind]
    BY <1>1, IntervalCounts
  <2>2. IsFiniteSet({c}) /\ Cardinality({c}) = 1
    BY FS_Singleton
  <2>3. IsFiniteSet(own) /\ Cardinality(own) = Cardinality({c}) * Cardinality(1 .. length[c.kind])
    BY <2>1, <2>2, FS_Product
  <2> QED  BY <2>1, <2>2, <2>3, <1>1
<1>3. Tokens(S \cup {c}) = Tokens(S) \cup own
  BY DEF Tokens
<1>4. Tokens(S) \cap own = {}
  BY DEF Tokens
<1> HIDE DEF own
<1>5. IsFiniteSet(Tokens(S)) /\ Total(S) \in Nat
  BY TotalCounts
<1>6. Cardinality(Tokens(S) \cup own)
         = Cardinality(Tokens(S)) + Cardinality(own) - Cardinality(Tokens(S) \cap own)
  BY <1>2, <1>5, FS_Union
<1>7. Cardinality(Tokens(S) \cap own) = 0
  BY <1>4, FS_EmptySet
<1>8. Total(S \cup {c}) = Total(S) + length[c.kind] - 0
  BY <1>2, <1>3, <1>6, <1>7 DEF Total
<1> QED  BY <1>1, <1>5, <1>8

LEMMA TotalGrows ==
    ASSUME length \in Lengths, NEW S, S \subseteq Candidates, IsFiniteSet(S), NEW R, R \subseteq S
    PROVE  Total(R) <= Total(S)
<1>1. IsFiniteSet(Tokens(S))
  BY TotalCounts
<1>2. Tokens(R) \subseteq Tokens(S)
  BY DEF Tokens
<1> QED  BY <1>1, <1>2, FS_Subset DEF Total

LEMMA TotalOfNone == Total({}) = 0
<1>1. Tokens({}) = {}
  BY DEF Tokens
<1> QED  BY <1>1, FS_EmptySet DEF Total

-----------------------------------------------------------------------------
(* The orders of the two compilers *)

\* A kind and an id are one candidate.
Distinct(S) == \A c, d \in S : c.kind = d.kind /\ c.id = d.id => c = d

\* Each kind has its place, its tier and a score, the same for both.
LEMMA KindsAreRanked ==
    /\ \A k \in Kinds : /\ RefPlace[k] \in Nat
                        /\ Traits[k].tier \in Tiers
                        /\ PageScore[k] \in Nat
                        /\ RoundedScore[k] = PageScore[k]
    /\ \A k, l \in Kinds : RefPlace[k] = RefPlace[l] => k = l
<1>1. \A k \in Kinds : RefPlace[k] \in Nat
  BY DEF Kinds, RefPlace
<1>2. \A k \in Kinds : Traits[k].tier \in Tiers
  BY DEF Kinds, Traits, Of, Tiers
<1>3. \A k \in Kinds : PageScore[k] \in Nat /\ RoundedScore[k] = PageScore[k]
  BY DEF Kinds, Traits, Of, PageScore, RoundedScore
<1>4. \A k, l \in Kinds : RefPlace[k] = RefPlace[l] => k = l
  BY DEF Kinds, RefPlace
<1> QED  BY <1>1, <1>2, <1>3, <1>4

RefRel(S) == {p \in S \X S : RefBefore(p[1], p[2])}
ScoreRel(S) == {p \in S \X S : PageBefore(p[1], p[2])}
TierRel(S) == {p \in S \X S : TierFirst(p[1], p[2])}

\* By reference: a kind has one place, and ids are numbers.
LEMMA RefsOrder ==
    ASSUME NEW S, S \subseteq Candidates, Distinct(S)
    PROVE  Orders(RefRel(S), S) /\ ByReference(S) = PlacedBy(S, RefRel(S))
<1>1. \A c \in S : c.kind \in Kinds /\ c.id \in Nat /\ RefPlace[c.kind] \in Nat
  BY KindsAreRanked DEF Candidates
<1>2. \A c \in S : ~RefBefore(c, c)
  BY <1>1 DEF RefBefore
<1>3. \A c, d, e \in S : RefBefore(c, d) /\ RefBefore(d, e) => RefBefore(c, e)
  BY <1>1 DEF RefBefore
<1>4. \A c, d \in S : c # d => RefBefore(c, d) \/ RefBefore(d, c)
  BY <1>1, KindsAreRanked DEF RefBefore, Distinct
<1>5. Orders(RefRel(S), S)
  BY <1>2, <1>3, <1>4 DEF Orders, RefRel
<1>6. \A c \in S : {d \in S : RefBefore(d, c)} = Below(S, RefRel(S), c)
  BY DEF Below, RefRel
<1>7. ByReference(S) = {<<Cardinality({d \in S : RefBefore(d, c)}), c>> : c \in S}
  BY DEF ByReference
<1>8. PlacedBy(S, RefRel(S)) = {<<Cardinality(Below(S, RefRel(S), c)), c>> : c \in S}
  BY DEF PlacedBy
<1> QED  BY <1>5, <1>6, <1>7, <1>8

\* By score: what is mandatory first, then score, tier and reference.
LEMMA ScoresOrder ==
    ASSUME NEW S, S \subseteq Candidates, Distinct(S)
    PROVE  Orders(ScoreRel(S), S) /\ ByScore(S) = PlacedBy(S, ScoreRel(S))
<1>1. \A c \in S : PageScore[c.kind] \in Nat /\ Tier(c) \in Int
  BY KindsAreRanked DEF Candidates, Tier, Tiers
<1>2. /\ \A c \in S : ~RefBefore(c, c)
      /\ \A c, d, e \in S : RefBefore(c, d) /\ RefBefore(d, e) => RefBefore(c, e)
      /\ \A c, d \in S : c # d => RefBefore(c, d) \/ RefBefore(d, c)
  BY ZenonT(40), RefsOrder DEF Orders, RefRel
<1>3. \A c \in S : Mandatory(c) \in BOOLEAN
  BY DEF Mandatory
<1>4. \A c \in S : ~PageBefore(c, c)
  BY <1>1, <1>2 DEF PageBefore
<1>5. \A c, d, e \in S : PageBefore(c, d) /\ PageBefore(d, e) => PageBefore(c, e)
  BY <1>1, <1>2, <1>3 DEF PageBefore
<1>6. \A c, d \in S : c # d => PageBefore(c, d) \/ PageBefore(d, c)
  BY <1>1, <1>2, <1>3 DEF PageBefore
<1>7. Orders(ScoreRel(S), S)
  BY <1>4, <1>5, <1>6 DEF Orders, ScoreRel
<1>8. \A c \in S : {d \in S : PageBefore(d, c)} = Below(S, ScoreRel(S), c)
  BY DEF Below, ScoreRel
<1>9. ByScore(S) = {<<Cardinality({d \in S : PageBefore(d, c)}), c>> : c \in S}
  BY DEF ByScore
<1>10. PlacedBy(S, ScoreRel(S)) = {<<Cardinality(Below(S, ScoreRel(S), c)), c>> : c \in S}
  BY DEF PlacedBy
<1> QED  BY <1>7, <1>8, <1>9, <1>10

\* By tier, and within a tier by score.
LEMMA TiersOrder ==
    ASSUME NEW S, S \subseteq Candidates, Distinct(S)
    PROVE  Orders(TierRel(S), S) /\ ByTier(S) = PlacedBy(S, TierRel(S))
<1>1. \A c \in S : Tier(c) \in Int
  BY KindsAreRanked DEF Candidates, Tier, Tiers
<1>2. /\ \A c \in S : ~PageBefore(c, c)
      /\ \A c, d, e \in S : PageBefore(c, d) /\ PageBefore(d, e) => PageBefore(c, e)
      /\ \A c, d \in S : c # d => PageBefore(c, d) \/ PageBefore(d, c)
  BY ZenonT(40), ScoresOrder DEF Orders, ScoreRel
<1>3. \A c \in S : ~TierFirst(c, c)
  BY <1>1, <1>2 DEF TierFirst
<1>4. \A c, d, e \in S : TierFirst(c, d) /\ TierFirst(d, e) => TierFirst(c, e)
  BY <1>1, <1>2 DEF TierFirst
<1>5. \A c, d \in S : c # d => TierFirst(c, d) \/ TierFirst(d, c)
  BY <1>1, <1>2 DEF TierFirst
<1>6. Orders(TierRel(S), S)
  BY <1>3, <1>4, <1>5 DEF Orders, TierRel
<1>7. \A c \in S : {d \in S : TierFirst(d, c)} = Below(S, TierRel(S), c)
  BY DEF Below, TierRel
<1>8. ByTier(S) = {<<Cardinality({d \in S : TierFirst(d, c)}), c>> : c \in S}
  BY DEF ByTier
<1>9. PlacedBy(S, TierRel(S)) = {<<Cardinality(Below(S, TierRel(S), c)), c>> : c \in S}
  BY DEF PlacedBy
<1> QED  BY <1>6, <1>7, <1>8, <1>9

\* The host offers candidates, and orders a packet, as the page does.
LEMMA SameOrder ==
    ASSUME NEW S, S \subseteq Candidates
    PROVE  OfferOrder(S) = ByScore(S) /\ PacketOrder(S) = ByTier(S)
<1>1. \A c \in S : PageScore[c.kind] \in Nat /\ Tier(c) \in Int
                     /\ RoundedScore[c.kind] = PageScore[c.kind]
  BY KindsAreRanked DEF Candidates, Tier, Tiers
<1>2. ASSUME NEW c \in S, NEW d \in S
      PROVE  Offered(c, d) <=> PageBefore(c, d)
  <2> DEFINE first(x) == IF Mandatory(x) THEN 0 ELSE 1
             second(x) == 100000 - PageScore[x.kind]
  <2>1. /\ OfferKey(c) = <<first(c), second(c), Tier(c)>>
        /\ OfferKey(d) = <<first(d), second(d), Tier(d)>>
    BY <1>1 DEF OfferKey
  <2>2. KeyBefore(OfferKey(c), OfferKey(d)) <=>
           \/ first(c) < first(d)
           \/ first(c) = first(d) /\ second(c) < second(d)
           \/ first(c) = first(d) /\ second(c) = second(d) /\ Tier(c) < Tier(d)
    <3> DEFINE k == <<first(c), second(c), Tier(c)>>
               l == <<first(d), second(d), Tier(d)>>
               At(i) == k[i] < l[i] /\ \A j \in 1 .. i - 1 : k[j] = l[j]
    <3>1. KeyBefore(k, l) <=> At(1) \/ At(2) \/ At(3)
      <4>1. 1 .. 3 = {1, 2, 3}
        OBVIOUS
      <4>2. KeyBefore(k, l) <=> \E i \in {1, 2, 3} : At(i)
        BY <4>1 DEF KeyBefore
      <4> HIDE DEF At
      <4> QED  BY <4>2
    <3>2. 1 .. 1 - 1 = {} /\ 1 .. 2 - 1 = {1} /\ 1 .. 3 - 1 = {1, 2}
      OBVIOUS
    <3>3. /\ k[1] = first(c) /\ k[2] = second(c) /\ k[3] = Tier(c)
          /\ l[1] = first(d) /\ l[2] = second(d) /\ l[3] = Tier(d)
      OBVIOUS
    <3> HIDE DEF k, l
    <3>4. At(1) <=> first(c) < first(d)
      BY <3>2, <3>3
    <3>5. At(2) <=> second(c) < second(d) /\ first(c) = first(d)
      BY <3>2, <3>3
    <3>6. At(3) <=> Tier(c) < Tier(d) /\ first(c) = first(d) /\ second(c) = second(d)
      BY <3>2, <3>3
    <3> HIDE DEF At, first, second
    <3>7. KeyBefore(k, l) <=>
             \/ first(c) < first(d)
             \/ first(c) = first(d) /\ second(c) < second(d)
             \/ first(c) = first(d) /\ second(c) = second(d) /\ Tier(c) < Tier(d)
      BY <3>1, <3>4, <3>5, <3>6
    <3> QED  BY <3>7, <2>1 DEF k, l
  <2>3. OfferKey(c) = OfferKey(d) <=>
           first(c) = first(d) /\ second(c) = second(d) /\ Tier(c) = Tier(d)
    <3> HIDE DEF first, second
    <3> QED  BY <2>1
  <2>4. /\ first(c) < first(d) <=> Mandatory(c) /\ ~Mandatory(d)
        /\ first(c) = first(d) <=> Mandatory(c) = Mandatory(d)
    BY DEF Mandatory
  <2>5. /\ second(c) < second(d) <=> PageScore[c.kind] > PageScore[d.kind]
        /\ second(c) = second(d) <=> PageScore[c.kind] = PageScore[d.kind]
    BY <1>1
  <2> HIDE DEF first, second
  <2> QED  BY <2>2, <2>3, <2>4, <2>5 DEF Offered, PageBefore
<1>3. OfferOrder(S) = ByScore(S)
  <2>1. \A c \in S : {d \in S : Offered(d, c)} = {d \in S : PageBefore(d, c)}
    BY <1>2
  <2> QED  BY <2>1 DEF OfferOrder, ByScore
<1>4. PacketOrder(S) = ByTier(S)
  <2>1. \A c, d \in S : InPacketOrder(d, c) <=> TierFirst(d, c)
    BY <1>2 DEF InPacketOrder, TierFirst
  <2>2. \A c \in S : {d \in S : InPacketOrder(d, c)} = {d \in S : TierFirst(d, c)}
    BY <2>1
  <2> QED  BY <2>2 DEF PacketOrder, ByTier
<1> QED  BY <1>3, <1>4

-----------------------------------------------------------------------------
(* Turns *)

Reasons ==
    {"none", "INELIGIBLE_STATUS", "DRAFT_NOT_SELECTED", "POLICY_DENIED", "TOTAL_BUDGET"}

\* What the page and the host keep while they go through the candidates of C.
PageStates(C) ==
    [ selected : SUBSET C, deferred : SUBSET C, used : Nat, share : [Tiers -> Nat],
      why : [C -> Reasons] ]

HostStates(C) ==
    [taken : SUBSET C, later : SUBSET C, used : Nat, tierUsed : [Tiers -> Nat]]

Defers(r, c) == [r EXCEPT !.deferred = @ \cup {c}]
PutsOff(s, c) == [s EXCEPT !.later = @ \cup {c}]
TurnsAway(r, c) == LeavesOut(r, c, "TOTAL_BUDGET")

LEMMA CandidateHasLength ==
    ASSUME length \in Lengths, NEW c \in Candidates
    PROVE  length[c.kind] \in Nat /\ Tier(c) \in Tiers
<1>1. c.kind \in Kinds
  BY DEF Candidates
<1> QED  BY <1>1, ContextConstants, KindsAreRanked DEF Tier

LEMMA SelectsFields ==
    ASSUME length \in Lengths, NEW C, C \subseteq Candidates, NEW r \in PageStates(C), NEW c \in C
    PROVE  /\ Selects(r, c) \in PageStates(C)
           /\ Selects(r, c).selected = r.selected \cup {c}
           /\ Selects(r, c).deferred = r.deferred
           /\ Selects(r, c).used = r.used + length[c.kind]
           /\ Selects(r, c).share = [r.share EXCEPT ![Tier(c)] = @ + length[c.kind]]
           /\ Selects(r, c).why = r.why
<1>1. length[c.kind] \in Nat /\ Tier(c) \in Tiers
  BY CandidateHasLength
<1>2. PICK a, d, u, f, w : /\ a \in SUBSET C /\ d \in SUBSET C /\ u \in Nat
                           /\ f \in [Tiers -> Nat] /\ w \in [C -> Reasons]
                           /\ r \in [ selected : {a}, deferred : {d}, used : {u}, share : {f},
                                     why : {w} ]
  BY DEF PageStates
<1>3. PICK k \in Nat : k = length[c.kind]
  BY <1>1
<1>4. PICK t \in Tiers : t = Tier(c)
  BY <1>1
<1>5. Selects(r, c) \in [ selected : {a \cup {c}}, deferred : {d}, used : {u + k},
                          share : {[f EXCEPT ![t] = @ + k]}, why : {w} ]
  <2>1. Selects(r, c) = [ r EXCEPT !.selected = @ \cup {c}, !.used = @ + k,
                                   !.share[t] = @ + k ]
    BY <1>3, <1>4 DEF Selects
  <2> QED  BY <2>1, <1>2
<1>6. u + k \in Nat /\ [f EXCEPT ![t] = @ + k] \in [Tiers -> Nat]
  BY <1>2
<1>7. /\ r.selected = a /\ r.deferred = d /\ r.used = u /\ r.share = f /\ r.why = w
  BY <1>2
<1> QED  BY <1>2, <1>3, <1>4, <1>5, <1>6, <1>7 DEF PageStates

LEMMA SelectsAny ==
    ASSUME length \in Lengths, NEW C, C \subseteq Candidates
    PROVE  \A x \in PageStates(C) : \A d \in C :
              /\ Selects(x, d) \in PageStates(C)
              /\ Selects(x, d).selected = x.selected \cup {d}
              /\ Selects(x, d).deferred = x.deferred
              /\ Selects(x, d).used = x.used + length[d.kind]
              /\ Selects(x, d).why = x.why
<1> SUFFICES ASSUME NEW x \in PageStates(C), NEW d \in C
             PROVE  /\ Selects(x, d) \in PageStates(C)
                    /\ Selects(x, d).selected = x.selected \cup {d}
                    /\ Selects(x, d).deferred = x.deferred
                    /\ Selects(x, d).used = x.used + length[d.kind]
                    /\ Selects(x, d).why = x.why
  OBVIOUS
<1>1. /\ Selects(x, d) \in PageStates(C)
      /\ Selects(x, d).selected = x.selected \cup {d}
      /\ Selects(x, d).deferred = x.deferred
      /\ Selects(x, d).used = x.used + length[d.kind]
      /\ Selects(x, d).share = [x.share EXCEPT ![Tier(d)] = @ + length[d.kind]]
      /\ Selects(x, d).why = x.why
  BY SelectsFields
<1> QED  BY <1>1

LEMMA TurnsAwayFields ==
    ASSUME NEW C, NEW r \in PageStates(C), NEW c \in C
    PROVE  /\ TurnsAway(r, c) \in PageStates(C)
           /\ TurnsAway(r, c).selected = r.selected
           /\ TurnsAway(r, c).deferred = r.deferred
           /\ TurnsAway(r, c).used = r.used
           /\ TurnsAway(r, c).share = r.share
           /\ TurnsAway(r, c).why[c] = "TOTAL_BUDGET"
           /\ \A d \in C : d # c => TurnsAway(r, c).why[d] = r.why[d]
BY DEF TurnsAway, LeavesOut, PageStates, Reasons

LEMMA DefersFields ==
    ASSUME NEW C, NEW r \in PageStates(C), NEW c \in C
    PROVE  /\ Defers(r, c) \in PageStates(C)
           /\ Defers(r, c).selected = r.selected
           /\ Defers(r, c).deferred = r.deferred \cup {c}
           /\ Defers(r, c).used = r.used
           /\ Defers(r, c).share = r.share
           /\ Defers(r, c).why = r.why
BY DEF Defers, PageStates

LEMMA TakesFields ==
    ASSUME length \in Lengths, NEW C, C \subseteq Candidates, NEW s \in HostStates(C), NEW c \in C
    PROVE  /\ Takes(s, c) \in HostStates(C)
           /\ Takes(s, c).taken = s.taken \cup {c}
           /\ Takes(s, c).later = s.later
           /\ Takes(s, c).used = s.used + length[c.kind]
           /\ Takes(s, c).tierUsed = [s.tierUsed EXCEPT ![Tier(c)] = @ + length[c.kind]]
<1>1. length[c.kind] \in Nat /\ Tier(c) \in Tiers
  BY CandidateHasLength
<1>2. PICK a, d, u, f : /\ a \in SUBSET C /\ d \in SUBSET C /\ u \in Nat
                        /\ f \in [Tiers -> Nat]
                        /\ s \in [taken : {a}, later : {d}, used : {u}, tierUsed : {f}]
  BY DEF HostStates
<1>3. PICK k \in Nat : k = length[c.kind]
  BY <1>1
<1>4. PICK t \in Tiers : t = Tier(c)
  BY <1>1
<1>5. Takes(s, c) \in [ taken : {a \cup {c}}, later : {d}, used : {u + k},
                        tierUsed : {[f EXCEPT ![t] = @ + k]} ]
  <2>1. Takes(s, c) = [ s EXCEPT !.taken = @ \cup {c}, !.used = @ + k, !.tierUsed[t] = @ + k ]
    BY <1>3, <1>4 DEF Takes
  <2> QED  BY <2>1, <1>2
<1>6. u + k \in Nat /\ [f EXCEPT ![t] = @ + k] \in [Tiers -> Nat]
  BY <1>2
<1>7. /\ s.taken = a /\ s.later = d /\ s.used = u /\ s.tierUsed = f
  BY <1>2
<1> QED  BY <1>2, <1>3, <1>4, <1>5, <1>6, <1>7 DEF HostStates

LEMMA PutsOffFields ==
    ASSUME NEW C, NEW s \in HostStates(C), NEW c \in C
    PROVE  /\ PutsOff(s, c) \in HostStates(C)
           /\ PutsOff(s, c).taken = s.taken
           /\ PutsOff(s, c).later = s.later \cup {c}
           /\ PutsOff(s, c).used = s.used
           /\ PutsOff(s, c).tierUsed = s.tierUsed
BY DEF PutsOff, HostStates

\* The budget a tier is held to, on the page and in the host.
InCap(r, c, type) ==
    r.share[Tier(c)] + length[c.kind] <= TierCap(ProfileFractions, type, Tier(c))

\* What a turn does, by case.
LEMMA OfferCases ==
    ASSUME NEW type, NEW r, NEW c
    PROVE  /\ Mandatory(c) => Offer(type, r, c) = Selects(r, c)
           /\ ~Mandatory(c) /\ ~Fits(r.used, c, type)
                 => Offer(type, r, c) = TurnsAway(r, c)
           /\ ~Mandatory(c) /\ Fits(r.used, c, type) /\ InCap(r, c, type)
                 => Offer(type, r, c) = Selects(r, c)
           /\ ~Mandatory(c) /\ Fits(r.used, c, type) /\ ~InCap(r, c, type)
                 => Offer(type, r, c) = Defers(r, c)
BY DEF Offer, InCap, Defers, TurnsAway

LEMMA OfferAgainCases ==
    ASSUME NEW type, NEW r, NEW c
    PROVE  /\ c \notin r.deferred => OfferAgain(type, r, c) = r
           /\ c \in r.deferred /\ Fits(r.used, c, type) => OfferAgain(type, r, c) = Selects(r, c)
           /\ c \in r.deferred /\ ~Fits(r.used, c, type)
                 => OfferAgain(type, r, c) = TurnsAway(r, c)
BY DEF OfferAgain, AllowTierBorrow, TurnsAway

LEMMA FirstTurnCases ==
    ASSUME NEW type, NEW s, NEW c
    PROVE  /\ Mandatory(c) => FirstTurn(s, c, type) = Takes(s, c)
           /\ ~Mandatory(c) /\ ~Room(s, c, type) => FirstTurn(s, c, type) = s
           /\ ~Mandatory(c) /\ Room(s, c, type) /\ InShare(s, c, type)
                 => FirstTurn(s, c, type) = Takes(s, c)
           /\ ~Mandatory(c) /\ Room(s, c, type) /\ ~InShare(s, c, type)
                 => FirstTurn(s, c, type) = PutsOff(s, c)
BY DEF FirstTurn, PutsOff

LEMMA TurnsAreTyped ==
    ASSUME length \in Lengths, NEW type, NEW C, C \subseteq Candidates, NEW c \in C
    PROVE  /\ \A r \in PageStates(C) : /\ Offer(type, r, c) \in PageStates(C)
                                       /\ OfferAgain(type, r, c) \in PageStates(C)
           /\ \A s \in HostStates(C) : /\ FirstTurn(s, c, type) \in HostStates(C)
                                       /\ SecondTurn(s, c, type) \in HostStates(C)
<1>2. ASSUME NEW r \in PageStates(C)
      PROVE  /\ Selects(r, c) \in PageStates(C)
             /\ TurnsAway(r, c) \in PageStates(C)
             /\ Defers(r, c) \in PageStates(C)
  BY SelectsFields, TurnsAwayFields, DefersFields
<1>3. ASSUME NEW r \in PageStates(C) PROVE Offer(type, r, c) \in PageStates(C)
  BY <1>2, OfferCases
<1>4. ASSUME NEW r \in PageStates(C) PROVE OfferAgain(type, r, c) \in PageStates(C)
  BY <1>2, OfferAgainCases
<1>5. ASSUME NEW s \in HostStates(C)
      PROVE  Takes(s, c) \in HostStates(C) /\ PutsOff(s, c) \in HostStates(C)
  BY TakesFields, PutsOffFields
<1>6. ASSUME NEW s \in HostStates(C) PROVE FirstTurn(s, c, type) \in HostStates(C)
  BY <1>5, FirstTurnCases
<1>7. ASSUME NEW s \in HostStates(C) PROVE SecondTurn(s, c, type) \in HostStates(C)
  BY <1>5 DEF SecondTurn
<1> QED  BY <1>3, <1>4, <1>6, <1>7

-----------------------------------------------------------------------------
(* The loops, turn by turn *)

\* What the host starts from.
Nothing == [taken |-> {}, later |-> {}, used |-> 0, tierUsed |-> [tier \in Tiers |-> 0]]

\* The first loops of the page, one turn after the other.
Offering(run, type, C, ranked, start) ==
    /\ run \in [0 .. Len(ranked) -> PageStates(C)]
    /\ run[0] = start
    /\ \A n \in 1 .. Len(ranked) : run[n] = Offer(type, run[n - 1], ranked[n])

LEMMA OffersRun ==
    ASSUME length \in Lengths, NEW type, NEW C, C \subseteq Candidates,
           NEW ranked \in Seq(C), NEW start \in PageStates(C)
    PROVE  \E run : /\ Offering(run, type, C, ranked, start)
                   /\ Offers(type, ranked, start) = run[Len(ranked)]
<1> DEFINE N == Len(ranked)
           V == PageStates(C)
           Turn(r, n) == Offer(type, r, ranked[n])
           step == [x \in (1 .. N) \X V |-> Turn(x[2], x[1])]
           Is(u) == u = [n \in 0 .. N |-> IF n = 0 THEN start ELSE Turn(u[n - 1], n)]
           after == CHOOSE u : Is(u)
<1>1. N \in Nat /\ \A n \in 1 .. N : ranked[n] \in C
  OBVIOUS
<1>2. \A n \in 1 .. N : \A r \in V : Turn(r, n) \in V
  BY <1>1, TurnsAreTyped
<1>3. Offers(type, ranked, start) = after[N]
  BY DEF Offers
<1> HIDE DEF N, V, Turn
<1>4. step \in [(1 .. N) \X V -> V]
  BY <1>2
<1>5. start \in V
  BY DEF V
<1>6. PICK u \in [0 .. N -> V] : Extends(u, N, start, step)
  <2> HIDE DEF step
  <2> QED  BY <1>1, <1>4, <1>5, ExtensionExists
<1>7. Is(u)
  <2>1. \A n \in 1 .. N : n - 1 \in 0 .. N /\ u[n - 1] \in V
    BY <1>1
  <2>2. \A n \in 1 .. N : step[<<n, u[n - 1]>>] = Turn(u[n - 1], n)
    BY <2>1
  <2>3. u = [n \in 0 .. N |-> IF n = 0 THEN start ELSE step[<<n, u[n - 1]>>]]
    BY <1>6 DEF Extends
  <2> HIDE DEF step
  <2>4. \A n \in 0 .. N : n # 0 => n \in 1 .. N
    BY <1>1
  <2>5. [n \in 0 .. N |-> IF n = 0 THEN start ELSE step[<<n, u[n - 1]>>]]
           = [n \in 0 .. N |-> IF n = 0 THEN start ELSE Turn(u[n - 1], n)]
    BY <2>2, <2>4
  <2> QED  BY <2>3, <2>5
<1>8. Is(after)
  <2> HIDE DEF Is
  <2> QED  BY <1>7
<1> HIDE DEF after
<1>9. after[0] = start /\ \A n \in 1 .. N : after[n] = Turn(after[n - 1], n)
  <2>1. 0 \in 0 .. N /\ \A n \in 1 .. N : n \in 0 .. N /\ n # 0
    BY <1>1
  <2> QED  BY <1>8, <2>1
<1>10. \A n \in 0 .. N : after[n] \in V
  <2> DEFINE S == {n \in 0 .. N : after[n] \in V}
  <2>1. 0 \in S
    BY <1>1, <1>5, <1>9
  <2>2. \A n \in 1 .. N : n - 1 \in S => n \in S
    BY <1>1, <1>2, <1>9
  <2> HIDE DEF S
  <2>3. \A n \in 0 .. N : n \in S
    BY <1>1, <2>1, <2>2, UpTo
  <2> QED  BY <2>3 DEF S
<1>11. after \in [0 .. N -> V]
  <2>1. after = [n \in 0 .. N |-> after[n]]
    BY <1>8
  <2> QED  BY <2>1, <1>10
<1>12. Offering(after, type, C, ranked, start)
  BY <1>9, <1>11 DEF Offering, N, V, Turn
<1> QED  BY <1>3, <1>12 DEF N

\* Its loop over the deferred ones.
OfferingAgain(run, type, C, ranked, start) ==
    /\ run \in [0 .. Len(ranked) -> PageStates(C)]
    /\ run[0] = start
    /\ \A n \in 1 .. Len(ranked) : run[n] = OfferAgain(type, run[n - 1], ranked[n])

LEMMA OffersAgainRun ==
    ASSUME length \in Lengths, NEW type, NEW C, C \subseteq Candidates,
           NEW ranked \in Seq(C), NEW start \in PageStates(C)
    PROVE  \E run : /\ OfferingAgain(run, type, C, ranked, start)
                   /\ OffersAgain(type, ranked, start) = run[Len(ranked)]
<1> DEFINE N == Len(ranked)
           V == PageStates(C)
           Turn(r, n) == OfferAgain(type, r, ranked[n])
           step == [x \in (1 .. N) \X V |-> Turn(x[2], x[1])]
           Is(u) == u = [n \in 0 .. N |-> IF n = 0 THEN start ELSE Turn(u[n - 1], n)]
           after == CHOOSE u : Is(u)
<1>1. N \in Nat /\ \A n \in 1 .. N : ranked[n] \in C
  OBVIOUS
<1>2. \A n \in 1 .. N : \A r \in V : Turn(r, n) \in V
  BY <1>1, TurnsAreTyped
<1>3. OffersAgain(type, ranked, start) = after[N]
  BY DEF OffersAgain
<1> HIDE DEF N, V, Turn
<1>4. step \in [(1 .. N) \X V -> V]
  BY <1>2
<1>5. start \in V
  BY DEF V
<1>6. PICK u \in [0 .. N -> V] : Extends(u, N, start, step)
  <2> HIDE DEF step
  <2> QED  BY <1>1, <1>4, <1>5, ExtensionExists
<1>7. Is(u)
  <2>1. \A n \in 1 .. N : n - 1 \in 0 .. N /\ u[n - 1] \in V
    BY <1>1
  <2>2. \A n \in 1 .. N : step[<<n, u[n - 1]>>] = Turn(u[n - 1], n)
    BY <2>1
  <2>3. u = [n \in 0 .. N |-> IF n = 0 THEN start ELSE step[<<n, u[n - 1]>>]]
    BY <1>6 DEF Extends
  <2> HIDE DEF step
  <2>4. \A n \in 0 .. N : n # 0 => n \in 1 .. N
    BY <1>1
  <2>5. [n \in 0 .. N |-> IF n = 0 THEN start ELSE step[<<n, u[n - 1]>>]]
           = [n \in 0 .. N |-> IF n = 0 THEN start ELSE Turn(u[n - 1], n)]
    BY <2>2, <2>4
  <2> QED  BY <2>3, <2>5
<1>8. Is(after)
  <2> HIDE DEF Is
  <2> QED  BY <1>7
<1> HIDE DEF after
<1>9. after[0] = start /\ \A n \in 1 .. N : after[n] = Turn(after[n - 1], n)
  <2>1. 0 \in 0 .. N /\ \A n \in 1 .. N : n \in 0 .. N /\ n # 0
    BY <1>1
  <2> QED  BY <1>8, <2>1
<1>10. \A n \in 0 .. N : after[n] \in V
  <2> DEFINE S == {n \in 0 .. N : after[n] \in V}
  <2>1. 0 \in S
    BY <1>1, <1>5, <1>9
  <2>2. \A n \in 1 .. N : n - 1 \in S => n \in S
    BY <1>1, <1>2, <1>9
  <2> HIDE DEF S
  <2>3. \A n \in 0 .. N : n \in S
    BY <1>1, <2>1, <2>2, UpTo
  <2> QED  BY <2>3 DEF S
<1>11. after \in [0 .. N -> V]
  <2>1. after = [n \in 0 .. N |-> after[n]]
    BY <1>8
  <2> QED  BY <2>1, <1>10
<1>12. OfferingAgain(after, type, C, ranked, start)
  BY <1>9, <1>11 DEF OfferingAgain, N, V, Turn
<1> QED  BY <1>3, <1>12 DEF N

\* The first pass of the host.
FirstPassing(run, type, C, ranked) ==
    /\ run \in [0 .. Len(ranked) -> HostStates(C)]
    /\ run[0] = Nothing
    /\ \A n \in 1 .. Len(ranked) : run[n] = FirstTurn(run[n - 1], ranked[n], type)

LEMMA FirstPassRuns ==
    ASSUME length \in Lengths, NEW type, NEW C, C \subseteq Candidates,
           NEW ranked \in Seq(C)
    PROVE  \E run : /\ FirstPassing(run, type, C, ranked)
                   /\ FirstPass(ranked, type) = run[Len(ranked)]
<1> DEFINE start == Nothing
           N == Len(ranked)
           V == HostStates(C)
           Turn(r, n) == FirstTurn(r, ranked[n], type)
           step == [x \in (1 .. N) \X V |-> Turn(x[2], x[1])]
           Is(u) == u = [n \in 0 .. N |-> IF n = 0 THEN start ELSE Turn(u[n - 1], n)]
           after == CHOOSE u : Is(u)
<1>1. N \in Nat /\ \A n \in 1 .. N : ranked[n] \in C
  OBVIOUS
<1>2. \A n \in 1 .. N : \A r \in V : Turn(r, n) \in V
  BY <1>1, TurnsAreTyped
<1>3. FirstPass(ranked, type) = after[N]
  BY DEF FirstPass, Nothing
<1>5. start \in V
  BY DEF HostStates, Nothing, Tiers
<1> HIDE DEF start, N, V, Turn
<1>4. step \in [(1 .. N) \X V -> V]
  BY <1>2
<1>6. PICK u \in [0 .. N -> V] : Extends(u, N, start, step)
  <2> HIDE DEF step
  <2> QED  BY <1>1, <1>4, <1>5, ExtensionExists
<1>7. Is(u)
  <2>1. \A n \in 1 .. N : n - 1 \in 0 .. N /\ u[n - 1] \in V
    BY <1>1
  <2>2. \A n \in 1 .. N : step[<<n, u[n - 1]>>] = Turn(u[n - 1], n)
    BY <2>1
  <2>3. u = [n \in 0 .. N |-> IF n = 0 THEN start ELSE step[<<n, u[n - 1]>>]]
    BY <1>6 DEF Extends
  <2> HIDE DEF step
  <2>4. \A n \in 0 .. N : n # 0 => n \in 1 .. N
    BY <1>1
  <2>5. [n \in 0 .. N |-> IF n = 0 THEN start ELSE step[<<n, u[n - 1]>>]]
           = [n \in 0 .. N |-> IF n = 0 THEN start ELSE Turn(u[n - 1], n)]
    BY <2>2, <2>4
  <2> QED  BY <2>3, <2>5
<1>8. Is(after)
  <2> HIDE DEF Is
  <2> QED  BY <1>7
<1> HIDE DEF after
<1>9. after[0] = start /\ \A n \in 1 .. N : after[n] = Turn(after[n - 1], n)
  <2>1. 0 \in 0 .. N /\ \A n \in 1 .. N : n \in 0 .. N /\ n # 0
    BY <1>1
  <2> QED  BY <1>8, <2>1
<1>10. \A n \in 0 .. N : after[n] \in V
  <2> DEFINE S == {n \in 0 .. N : after[n] \in V}
  <2>1. 0 \in S
    BY <1>1, <1>5, <1>9
  <2>2. \A n \in 1 .. N : n - 1 \in S => n \in S
    BY <1>1, <1>2, <1>9
  <2> HIDE DEF S
  <2>3. \A n \in 0 .. N : n \in S
    BY <1>1, <2>1, <2>2, UpTo
  <2> QED  BY <2>3 DEF S
<1>11. after \in [0 .. N -> V]
  <2>1. after = [n \in 0 .. N |-> after[n]]
    BY <1>8
  <2> QED  BY <2>1, <1>10
<1>12. FirstPassing(after, type, C, ranked)
  BY <1>9, <1>11 DEF FirstPassing, start, N, V, Turn
<1> QED  BY <1>3, <1>12 DEF N

\* Its second pass.
SecondPassing(run, type, C, ranked, start) ==
    /\ run \in [0 .. Len(ranked) -> HostStates(C)]
    /\ run[0] = start
    /\ \A n \in 1 .. Len(ranked) : run[n] = SecondTurn(run[n - 1], ranked[n], type)

LEMMA SecondPassRuns ==
    ASSUME length \in Lengths, NEW type, NEW C, C \subseteq Candidates,
           NEW ranked \in Seq(C), NEW start \in HostStates(C)
    PROVE  \E run : /\ SecondPassing(run, type, C, ranked, start)
                   /\ SecondPass(start, ranked, type) = run[Len(ranked)]
<1> DEFINE N == Len(ranked)
           V == HostStates(C)
           Turn(r, n) == SecondTurn(r, ranked[n], type)
           step == [x \in (1 .. N) \X V |-> Turn(x[2], x[1])]
           Is(u) == u = [n \in 0 .. N |-> IF n = 0 THEN start ELSE Turn(u[n - 1], n)]
           after == CHOOSE u : Is(u)
<1>1. N \in Nat /\ \A n \in 1 .. N : ranked[n] \in C
  OBVIOUS
<1>2. \A n \in 1 .. N : \A r \in V : Turn(r, n) \in V
  BY <1>1, TurnsAreTyped
<1>3. SecondPass(start, ranked, type) = after[N]
  BY DEF SecondPass
<1> HIDE DEF N, V, Turn
<1>4. step \in [(1 .. N) \X V -> V]
  BY <1>2
<1>5. start \in V
  BY DEF V
<1>6. PICK u \in [0 .. N -> V] : Extends(u, N, start, step)
  <2> HIDE DEF step
  <2> QED  BY <1>1, <1>4, <1>5, ExtensionExists
<1>7. Is(u)
  <2>1. \A n \in 1 .. N : n - 1 \in 0 .. N /\ u[n - 1] \in V
    BY <1>1
  <2>2. \A n \in 1 .. N : step[<<n, u[n - 1]>>] = Turn(u[n - 1], n)
    BY <2>1
  <2>3. u = [n \in 0 .. N |-> IF n = 0 THEN start ELSE step[<<n, u[n - 1]>>]]
    BY <1>6 DEF Extends
  <2> HIDE DEF step
  <2>4. \A n \in 0 .. N : n # 0 => n \in 1 .. N
    BY <1>1
  <2>5. [n \in 0 .. N |-> IF n = 0 THEN start ELSE step[<<n, u[n - 1]>>]]
           = [n \in 0 .. N |-> IF n = 0 THEN start ELSE Turn(u[n - 1], n)]
    BY <2>2, <2>4
  <2> QED  BY <2>3, <2>5
<1>8. Is(after)
  <2> HIDE DEF Is
  <2> QED  BY <1>7
<1> HIDE DEF after
<1>9. after[0] = start /\ \A n \in 1 .. N : after[n] = Turn(after[n - 1], n)
  <2>1. 0 \in 0 .. N /\ \A n \in 1 .. N : n \in 0 .. N /\ n # 0
    BY <1>1
  <2> QED  BY <1>8, <2>1
<1>10. \A n \in 0 .. N : after[n] \in V
  <2> DEFINE S == {n \in 0 .. N : after[n] \in V}
  <2>1. 0 \in S
    BY <1>1, <1>5, <1>9
  <2>2. \A n \in 1 .. N : n - 1 \in S => n \in S
    BY <1>1, <1>2, <1>9
  <2> HIDE DEF S
  <2>3. \A n \in 0 .. N : n \in S
    BY <1>1, <2>1, <2>2, UpTo
  <2> QED  BY <2>3 DEF S
<1>11. after \in [0 .. N -> V]
  <2>1. after = [n \in 0 .. N |-> after[n]]
    BY <1>8
  <2> QED  BY <2>1, <1>10
<1>12. SecondPassing(after, type, C, ranked, start)
  BY <1>9, <1>11 DEF SecondPassing, N, V, Turn
<1> QED  BY <1>3, <1>12 DEF N

-----------------------------------------------------------------------------
(* The host goes through the candidates as the page does *)

Match(r, s) ==
    /\ s.taken = r.selected
    /\ s.later = r.deferred
    /\ s.used = r.used
    /\ s.tierUsed = r.share

LEMMA TurnsMatch ==
    ASSUME length \in Lengths, NEW type, NEW C, C \subseteq Candidates,
           NEW r \in PageStates(C), NEW s \in HostStates(C), Match(r, s), NEW c \in C
    PROVE  /\ Match(Offer(type, r, c), FirstTurn(s, c, type))
           /\ Match(OfferAgain(type, r, c), SecondTurn(s, c, type))
<1>1. Match(Selects(r, c), Takes(s, c))
  <2>1. /\ Selects(r, c).selected = r.selected \cup {c}
        /\ Selects(r, c).deferred = r.deferred
        /\ Selects(r, c).used = r.used + length[c.kind]
        /\ Selects(r, c).share = [r.share EXCEPT ![Tier(c)] = @ + length[c.kind]]
    BY SelectsFields
  <2>2. /\ Takes(s, c).taken = s.taken \cup {c}
        /\ Takes(s, c).later = s.later
        /\ Takes(s, c).used = s.used + length[c.kind]
        /\ Takes(s, c).tierUsed = [s.tierUsed EXCEPT ![Tier(c)] = @ + length[c.kind]]
    BY TakesFields
  <2> QED  BY <2>1, <2>2 DEF Match
<1>2. Match(Defers(r, c), PutsOff(s, c))
  <2>1. /\ Defers(r, c).selected = r.selected
        /\ Defers(r, c).deferred = r.deferred \cup {c}
        /\ Defers(r, c).used = r.used
        /\ Defers(r, c).share = r.share
    BY DefersFields
  <2>2. /\ PutsOff(s, c).taken = s.taken
        /\ PutsOff(s, c).later = s.later \cup {c}
        /\ PutsOff(s, c).used = s.used
        /\ PutsOff(s, c).tierUsed = s.tierUsed
    BY PutsOffFields
  <2> QED  BY <2>1, <2>2 DEF Match
<1>3. Match(TurnsAway(r, c), s)
  <2>1. /\ TurnsAway(r, c).selected = r.selected
        /\ TurnsAway(r, c).deferred = r.deferred
        /\ TurnsAway(r, c).used = r.used
        /\ TurnsAway(r, c).share = r.share
    BY TurnsAwayFields
  <2> QED  BY <2>1 DEF Match
<1>4. Room(s, c, type) <=> Fits(r.used, c, type)
  BY DEF Match, Room, Fits
<1>5. InShare(s, c, type) <=> InCap(r, c, type)
  BY DEF Match, InShare, InCap, TierCap, ProfileFractions, TierFractions
<1>6. Match(Offer(type, r, c), FirstTurn(s, c, type))
  <2>1. CASE Mandatory(c)
    BY <2>1, <1>1, OfferCases, FirstTurnCases
  <2>2. CASE ~Mandatory(c) /\ ~Fits(r.used, c, type)
    BY <2>2, <1>3, <1>4, OfferCases, FirstTurnCases
  <2>3. CASE ~Mandatory(c) /\ Fits(r.used, c, type) /\ InCap(r, c, type)
    BY <2>3, <1>1, <1>4, <1>5, OfferCases, FirstTurnCases
  <2>4. CASE ~Mandatory(c) /\ Fits(r.used, c, type) /\ ~InCap(r, c, type)
    BY <2>4, <1>2, <1>4, <1>5, OfferCases, FirstTurnCases
  <2> QED  BY <2>1, <2>2, <2>3, <2>4
<1>7. Match(OfferAgain(type, r, c), SecondTurn(s, c, type))
  <2>1. CASE c \notin r.deferred
    BY <2>1, OfferAgainCases DEF Match, SecondTurn
  <2>2. CASE c \in r.deferred /\ Fits(r.used, c, type)
    <3>1. SecondTurn(s, c, type) = Takes(s, c)
      BY <2>2, <1>4 DEF Match, SecondTurn
    <3> QED  BY <2>2, <3>1, <1>1, OfferAgainCases
  <2>3. CASE c \in r.deferred /\ ~Fits(r.used, c, type)
    <3>1. SecondTurn(s, c, type) = s
      BY <2>3, <1>4 DEF Match, SecondTurn
    <3> QED  BY <2>3, <3>1, <1>3, OfferAgainCases
  <2> QED  BY <2>1, <2>2, <2>3
<1> QED  BY <1>6, <1>7

\* After both loops the page has selected what the host has taken.
LEMMA LoopsMatch ==
    ASSUME length \in Lengths, NEW type, NEW C, C \subseteq Candidates, NEW ranked \in Seq(C),
           NEW start \in PageStates(C), Match(start, Nothing)
    PROVE  /\ Offers(type, ranked, start) \in PageStates(C)
           /\ OffersAgain(type, ranked, Offers(type, ranked, start)).selected
                 = SecondPass(FirstPass(ranked, type), ranked, type).taken
<1> DEFINE N == Len(ranked)
<1>1. N \in Nat /\ \A n \in 1 .. N : ranked[n] \in C
  OBVIOUS
<1>2. PICK page : /\ Offering(page, type, C, ranked, start)
                  /\ Offers(type, ranked, start) = page[N]
  BY OffersRun
<1>3. PICK host : /\ FirstPassing(host, type, C, ranked)
                  /\ FirstPass(ranked, type) = host[N]
  BY FirstPassRuns
<1>4. /\ page \in [0 .. N -> PageStates(C)]
      /\ page[0] = start
      /\ \A n \in 1 .. N : page[n] = Offer(type, page[n - 1], ranked[n])
  BY <1>2 DEF Offering
<1>5. /\ host \in [0 .. N -> HostStates(C)]
      /\ host[0] = Nothing
      /\ \A n \in 1 .. N : host[n] = FirstTurn(host[n - 1], ranked[n], type)
  BY <1>3 DEF FirstPassing
<1> HIDE DEF N
<1>6. 0 \in 0 .. N /\ N \in 0 .. N /\ \A n \in 1 .. N : n - 1 \in 0 .. N
  BY <1>1
<1>7. Match(page[N], host[N])
  <2> DEFINE S == {n \in 0 .. N : Match(page[n], host[n])}
  <2>1. 0 \in S
    BY <1>4, <1>5, <1>6
  <2>2. \A n \in 1 .. N : n - 1 \in S => n \in S
    BY <1>1, <1>4, <1>5, <1>6, TurnsMatch
  <2> HIDE DEF S
  <2>3. \A n \in 0 .. N : n \in S
    BY <1>1, <2>1, <2>2, UpTo
  <2> QED  BY <1>6, <2>3 DEF S
<1>8. page[N] \in PageStates(C) /\ host[N] \in HostStates(C)
  BY <1>6, <1>4, <1>5
<1>9. PICK again : /\ OfferingAgain(again, type, C, ranked, page[N])
                   /\ OffersAgain(type, ranked, page[N]) = again[N]
  BY <1>8, OffersAgainRun DEF N
<1>10. PICK second : /\ SecondPassing(second, type, C, ranked, host[N])
                    /\ SecondPass(host[N], ranked, type) = second[N]
  BY <1>8, SecondPassRuns DEF N
<1>11. /\ again \in [0 .. N -> PageStates(C)]
      /\ again[0] = page[N]
      /\ \A n \in 1 .. N : again[n] = OfferAgain(type, again[n - 1], ranked[n])
  BY <1>9 DEF OfferingAgain, N
<1>12. /\ second \in [0 .. N -> HostStates(C)]
      /\ second[0] = host[N]
      /\ \A n \in 1 .. N : second[n] = SecondTurn(second[n - 1], ranked[n], type)
  BY <1>10 DEF SecondPassing, N
<1>13. Match(again[N], second[N])
  <2> DEFINE S == {n \in 0 .. N : Match(again[n], second[n])}
  <2>1. 0 \in S
    BY <1>7, <1>11, <1>12, <1>6
  <2>2. \A n \in 1 .. N : n - 1 \in S => n \in S
    <3> SUFFICES ASSUME NEW n \in 1 .. N, n - 1 \in S PROVE n \in S
      OBVIOUS
    <3>1. /\ ranked[n] \in C /\ Match(again[n - 1], second[n - 1])
          /\ again[n - 1] \in PageStates(C) /\ second[n - 1] \in HostStates(C)
      BY <1>1, <1>6, <1>11, <1>12
    <3>2. Match(OfferAgain(type, again[n - 1], ranked[n]),
                SecondTurn(second[n - 1], ranked[n], type))
      BY <3>1, TurnsMatch
    <3>3. n \in 0 .. N
      BY <1>1
    <3> QED  BY <3>2, <3>3, <1>11, <1>12
  <2> HIDE DEF S
  <2>3. \A n \in 0 .. N : n \in S
    BY <1>1, <2>1, <2>2, UpTo
  <2> QED  BY <1>6, <2>3 DEF S
<1> QED  BY <1>2, <1>3, <1>8, <1>9, <1>10, <1>13 DEF Match

-----------------------------------------------------------------------------
(* What the page's loops keep true *)

Scored(C, remote) == {c \in C : PageExclusion(c, remote) = "none"}

\* What is selected, left out and why, while the candidates of P are still open.
Consistent(r, type, C, remote, P) ==
    /\ r \in PageStates(C)
    /\ P \subseteq Scored(C, remote)
    /\ r.selected \subseteq Scored(C, remote) \ P
    /\ \A c \in C \ Scored(C, remote) : r.why[c] = PageExclusion(c, remote)
    /\ \A c \in P : r.why[c] = "none"
    /\ \A c \in Scored(C, remote) \ P : c \notin r.selected => r.why[c] = "TOTAL_BUDGET"
    /\ \A c \in r.selected : r.why[c] = "none"
    /\ \A c \in Scored(C, remote) : Mandatory(c) => r.why[c] = "none"
    /\ \A c \in Scored(C, remote) :
          r.why[c] = "TOTAL_BUDGET" => r.used + length[c.kind] > InputBudget[type]
    /\ r.used = Total(r.selected)
    /\ r.used <= InputBudget[type]

\* A candidate that fits is selected.
LEMMA SelectsKeeps ==
    ASSUME length \in Lengths, NEW type \in OperationTypes, NEW C, C \subseteq Candidates,
           IsFiniteSet(C), NEW remote, NEW r, NEW P, Consistent(r, type, C, remote, P),
           NEW c \in P, r.used + length[c.kind] <= InputBudget[type]
    PROVE  Consistent(Selects(r, c), type, C, remote, P \ {c})
<1> DEFINE q == Selects(r, c)
<1>1. r \in PageStates(C) /\ c \in C /\ c \in Scored(C, remote) /\ c \notin r.selected
  BY DEF Consistent, Scored
<1>2. /\ q \in PageStates(C) /\ q.selected = r.selected \cup {c}
      /\ q.used = r.used + length[c.kind] /\ q.why = r.why
  <2>1. \A x \in PageStates(C) : \A d \in C :
           /\ Selects(x, d) \in PageStates(C)
           /\ Selects(x, d).selected = x.selected \cup {d}
           /\ Selects(x, d).used = x.used + length[d.kind]
           /\ Selects(x, d).why = x.why
    BY SelectsAny
  <2> QED  BY <1>1, <2>1
<1>3. /\ length[c.kind] \in Nat /\ r.used \in Nat /\ InputBudget[type] \in Nat
      /\ \A d \in C : length[d.kind] \in Nat
  BY <1>1, CandidateHasLength, ContextConstants DEF PageStates
<1> HIDE DEF q
<1>4. q.used = Total(q.selected)
  <2>1. r.selected \subseteq C
    BY <1>1 DEF PageStates
  <2>2. IsFiniteSet(r.selected) /\ r.selected \subseteq Candidates /\ c \in Candidates
    BY <1>1, <2>1, FS_Subset
  <2>3. Total(r.selected \cup {c}) = Total(r.selected) + length[c.kind]
    BY <1>1, <2>2, TotalAdds
  <2> QED  BY <1>2, <2>3 DEF Consistent
<1>5. \A d \in Scored(C, remote) :
         q.why[d] = "TOTAL_BUDGET" => q.used + length[d.kind] > InputBudget[type]
  <2>1. Scored(C, remote) \subseteq C
    BY DEF Scored
  <2> QED  BY <1>2, <1>3, <2>1 DEF Consistent
<1>6. q.used <= InputBudget[type]
  BY <1>2
<1>7. \A d \in q.selected : q.why[d] = "none"
  BY <1>2 DEF Consistent
<1>8. \A d \in Scored(C, remote) \ (P \ {c}) : d \notin q.selected => q.why[d] = "TOTAL_BUDGET"
  BY <1>2 DEF Consistent
<1>9. /\ P \ {c} \subseteq Scored(C, remote)
      /\ q.selected \subseteq Scored(C, remote) \ (P \ {c})
  BY <1>1, <1>2 DEF Consistent
<1>10. /\ \A d \in C \ Scored(C, remote) : q.why[d] = PageExclusion(d, remote)
       /\ \A d \in P \ {c} : q.why[d] = "none"
       /\ \A d \in Scored(C, remote) : Mandatory(d) => q.why[d] = "none"
  BY <1>2 DEF Consistent
<1> QED  BY <1>2, <1>4, <1>5, <1>6, <1>7, <1>8, <1>9, <1>10 DEF Consistent, q

\* One that does not, and need not, is left out.
LEMMA TurnsAwayKeeps ==
    ASSUME length \in Lengths, NEW type \in OperationTypes, NEW C, C \subseteq Candidates,
           NEW remote, NEW r, NEW P, Consistent(r, type, C, remote, P),
           NEW c \in P, ~Mandatory(c), ~(r.used + length[c.kind] <= InputBudget[type])
    PROVE  Consistent(TurnsAway(r, c), type, C, remote, P \ {c})
<1> DEFINE q == TurnsAway(r, c)
<1>1. r \in PageStates(C) /\ c \in C /\ c \in Scored(C, remote) /\ c \notin r.selected
  BY DEF Consistent, Scored
<1>2. /\ q \in PageStates(C) /\ q.selected = r.selected /\ q.used = r.used
      /\ q.why[c] = "TOTAL_BUDGET" /\ \A d \in C : d # c => q.why[d] = r.why[d]
  BY <1>1, TurnsAwayFields
<1>3. /\ length[c.kind] \in Nat /\ r.used \in Nat /\ InputBudget[type] \in Nat
  BY <1>1, CandidateHasLength, ContextConstants DEF PageStates
<1>4. r.selected \subseteq C /\ P \subseteq C /\ Scored(C, remote) \subseteq C
  BY <1>1 DEF PageStates, Scored, Consistent
<1> HIDE DEF q
<1>5. \A d \in Scored(C, remote) :
         q.why[d] = "TOTAL_BUDGET" => q.used + length[d.kind] > InputBudget[type]
  <2> SUFFICES ASSUME NEW d \in Scored(C, remote), q.why[d] = "TOTAL_BUDGET"
               PROVE  q.used + length[d.kind] > InputBudget[type]
    OBVIOUS
  <2>1. CASE d = c
    BY <2>1, <1>2, <1>3
  <2>2. CASE d # c
    BY <2>2, <1>2, <1>4 DEF Consistent
  <2> QED  BY <2>1, <2>2
<1>6. \A d \in q.selected : q.why[d] = "none"
  BY <1>1, <1>2, <1>4 DEF Consistent
<1>7. \A d \in Scored(C, remote) \ (P \ {c}) : d \notin q.selected => q.why[d] = "TOTAL_BUDGET"
  BY <1>2, <1>4 DEF Consistent
<1>8. /\ P \ {c} \subseteq Scored(C, remote)
      /\ q.selected \subseteq Scored(C, remote) \ (P \ {c})
  BY <1>1, <1>2 DEF Consistent
<1>9. /\ \A d \in C \ Scored(C, remote) : q.why[d] = PageExclusion(d, remote)
      /\ \A d \in P \ {c} : q.why[d] = "none"
      /\ \A d \in Scored(C, remote) : Mandatory(d) => q.why[d] = "none"
  BY <1>1, <1>2, <1>4 DEF Consistent
<1>10. q.used = Total(q.selected) /\ q.used <= InputBudget[type]
  BY <1>2 DEF Consistent
<1> QED  BY <1>2, <1>5, <1>6, <1>7, <1>8, <1>9, <1>10 DEF Consistent, q

\* One put off stays open.
LEMMA DefersKeeps ==
    ASSUME NEW type, NEW C, NEW remote, NEW r, NEW P, Consistent(r, type, C, remote, P),
           NEW c \in P
    PROVE  Consistent(Defers(r, c), type, C, remote, P)
<1>1. r \in PageStates(C) /\ c \in C
  BY DEF Consistent, Scored
<1>2. /\ Defers(r, c) \in PageStates(C)
      /\ Defers(r, c).selected = r.selected
      /\ Defers(r, c).used = r.used
      /\ Defers(r, c).why = r.why
  BY <1>1, DefersFields
<1> QED  BY <1>2 DEF Consistent

\* Before the first turn everything that is scored is open.
LEMMA UnofferedIsConsistent ==
    ASSUME NEW type \in OperationTypes, NEW C, NEW remote
    PROVE  /\ Consistent(Unoffered(C, remote), type, C, remote, Scored(C, remote))
           /\ Match(Unoffered(C, remote), Nothing)
<1> DEFINE r == Unoffered(C, remote)
<1>1. /\ r.selected = {} /\ r.deferred = {} /\ r.used = 0
      /\ r.share = [tier \in Tiers |-> 0] /\ r.why = [c \in C |-> PageExclusion(c, remote)]
  BY DEF Unoffered
<1>2. \A c \in C : PageExclusion(c, remote) \in Reasons
  BY DEF PageExclusion, Reasons
<1>3. r \in PageStates(C)
  BY <1>2 DEF Unoffered, PageStates
<1> HIDE DEF r
<1>4. InputBudget[type] \in Nat
  BY ContextConstants
<1>5. r.used = Total(r.selected) /\ r.used <= InputBudget[type]
  BY <1>1, <1>4, TotalOfNone
<1>6. \A c \in Scored(C, remote) : r.why[c] = "none"
  BY <1>1 DEF Scored
<1>7. \A c \in C \ Scored(C, remote) : r.why[c] = PageExclusion(c, remote)
  BY <1>1
<1>8. Consistent(r, type, C, remote, Scored(C, remote))
  BY <1>1, <1>3, <1>5, <1>6, <1>7 DEF Consistent
<1>9. Match(r, Nothing)
  BY <1>1 DEF Match, Nothing
<1> QED  BY <1>8, <1>9 DEF r

\* What the first loops make of a candidate: it is settled, or put off.
LEMMA OfferKeeps ==
    ASSUME length \in Lengths, NEW type \in OperationTypes, NEW C, C \subseteq Candidates,
           IsFiniteSet(C), NEW remote, NEW r, NEW P, Consistent(r, type, C, remote, P),
           NEW c \in P, Mandatory(c) => \A d \in r.selected : Mandatory(d),
           Total({d \in Scored(C, remote) : Mandatory(d)}) <= InputBudget[type]
    PROVE  \/ /\ Consistent(Offer(type, r, c), type, C, remote, P \ {c})
              /\ Offer(type, r, c).deferred = r.deferred
           \/ /\ Consistent(Offer(type, r, c), type, C, remote, P)
              /\ Offer(type, r, c).deferred = r.deferred \cup {c}
              /\ ~Mandatory(c)
<1>1. r \in PageStates(C) /\ c \in C /\ c \in Scored(C, remote) /\ c \notin r.selected
  BY DEF Consistent, Scored
<1>2. /\ r.selected \subseteq C /\ r.selected \subseteq Scored(C, remote)
      /\ Scored(C, remote) \subseteq C
  BY <1>1 DEF PageStates, Scored, Consistent
<1>3. /\ length[c.kind] \in Nat /\ r.used \in Nat /\ InputBudget[type] \in Nat
  BY <1>1, CandidateHasLength, ContextConstants DEF PageStates
<1>4. Mandatory(c) => r.used + length[c.kind] <= InputBudget[type]
  <2> DEFINE M == {d \in Scored(C, remote) : Mandatory(d)}
  <2> SUFFICES ASSUME Mandatory(c) PROVE r.used + length[c.kind] <= InputBudget[type]
    OBVIOUS
  <2>1. r.selected \cup {c} \subseteq M /\ M \subseteq C
    BY <1>1, <1>2
  <2>2. IsFiniteSet(M) /\ IsFiniteSet(r.selected)
    BY <1>2, <2>1, FS_Subset
  <2>3. Total(M) <= InputBudget[type]
    OBVIOUS
  <2> HIDE DEF M
  <2>4. M \subseteq Candidates /\ r.selected \subseteq Candidates /\ c \in Candidates
    BY <1>1, <1>2, <2>1
  <2>5. Total(r.selected \cup {c}) <= Total(M)
    BY <2>1, <2>2, <2>4, TotalGrows
  <2>6. Total(r.selected \cup {c}) = Total(r.selected) + length[c.kind]
    BY <1>1, <2>2, <2>4, TotalAdds
  <2>7. r.used = Total(r.selected)
    BY DEF Consistent
  <2>8. Total(M) \in Nat
    BY <2>2, <2>4, TotalCounts
  <2> QED  BY <2>3, <2>5, <2>6, <2>7, <2>8, <1>3
<1>5. Fits(r.used, c, type) <=> r.used + length[c.kind] <= InputBudget[type]
  BY DEF Fits
<1>6. r.used + length[c.kind] <= InputBudget[type]
         => Consistent(Selects(r, c), type, C, remote, P \ {c})
  BY SelectsKeeps
<1>7. Selects(r, c).deferred = r.deferred
  <2>1. \A x \in PageStates(C) : \A d \in C : Selects(x, d).deferred = x.deferred
    BY SelectsAny
  <2> QED  BY <1>1, <2>1
<1>8. ~Mandatory(c) /\ ~(r.used + length[c.kind] <= InputBudget[type])
         => Consistent(TurnsAway(r, c), type, C, remote, P \ {c})
  BY TurnsAwayKeeps
<1>9. TurnsAway(r, c).deferred = r.deferred
  BY <1>1, TurnsAwayFields
<1>10. Consistent(Defers(r, c), type, C, remote, P)
  BY DefersKeeps
<1>11. Defers(r, c).deferred = r.deferred \cup {c}
  BY <1>1, DefersFields
<1>12. CASE Mandatory(c)
  BY <1>12, <1>4, <1>6, <1>7, OfferCases
<1>13. CASE ~Mandatory(c) /\ ~Fits(r.used, c, type)
  BY <1>13, <1>5, <1>8, <1>9, OfferCases
<1>14. CASE ~Mandatory(c) /\ Fits(r.used, c, type) /\ InCap(r, c, type)
  BY <1>14, <1>5, <1>6, <1>7, OfferCases
<1>15. CASE ~Mandatory(c) /\ Fits(r.used, c, type) /\ ~InCap(r, c, type)
  BY <1>15, <1>10, <1>11, OfferCases
<1> QED  BY <1>12, <1>13, <1>14, <1>15

\* The last loop settles what was put off.
LEMMA OfferAgainKeeps ==
    ASSUME length \in Lengths, NEW type \in OperationTypes, NEW C, C \subseteq Candidates,
           IsFiniteSet(C), NEW remote, NEW r, NEW P, Consistent(r, type, C, remote, P),
           NEW c \in P, ~Mandatory(c), c \in r.deferred
    PROVE  /\ Consistent(OfferAgain(type, r, c), type, C, remote, P \ {c})
           /\ OfferAgain(type, r, c).deferred = r.deferred
<1>1. r \in PageStates(C) /\ c \in C
  BY DEF Consistent, Scored
<1>2. Fits(r.used, c, type) <=> r.used + length[c.kind] <= InputBudget[type]
  BY DEF Fits
<1>3. r.used + length[c.kind] <= InputBudget[type]
         => Consistent(Selects(r, c), type, C, remote, P \ {c})
  BY SelectsKeeps
<1>4. Selects(r, c).deferred = r.deferred
  <2>1. \A x \in PageStates(C) : \A d \in C : Selects(x, d).deferred = x.deferred
    BY SelectsAny
  <2> QED  BY <1>1, <2>1
<1>5. ~(r.used + length[c.kind] <= InputBudget[type])
         => Consistent(TurnsAway(r, c), type, C, remote, P \ {c})
  BY TurnsAwayKeeps
<1>6. TurnsAway(r, c).deferred = r.deferred
  BY <1>1, TurnsAwayFields
<1>7. CASE Fits(r.used, c, type)
  BY <1>7, <1>2, <1>3, <1>4, OfferAgainCases
<1>8. CASE ~Fits(r.used, c, type)
  BY <1>8, <1>2, <1>5, <1>6, OfferAgainCases
<1> QED  BY <1>7, <1>8

\* The members of a list after its first n.
After(list, n) == {list[i] : i \in n + 1 .. Len(list)}

\* The first places of a list of scored candidates, and what comes after.
LEMMA RankedIsListed ==
    ASSUME NEW C, C \subseteq Candidates, NEW remote, NEW ranked \in Seq(C),
           Lists(ranked, Scored(C, remote), ScoreRel(Scored(C, remote))),
           Len(ranked) = Cardinality(Scored(C, remote))
    PROVE  /\ \A c \in Scored(C, remote) : \E n \in 1 .. Len(ranked) : ranked[n] = c
           /\ \A n \in 1 .. Len(ranked) : ranked[n] \in Scored(C, remote)
           /\ \A m, n \in 1 .. Len(ranked) : m < n => PageBefore(ranked[m], ranked[n])
           /\ After(ranked, 0) = Scored(C, remote)
           /\ After(ranked, Len(ranked)) = {}
           /\ \A n \in 1 .. Len(ranked) :
                 /\ After(ranked, n - 1) = After(ranked, n) \cup {ranked[n]}
                 /\ ranked[n] \notin After(ranked, n)
<1> DEFINE N == Len(ranked)
           S == Scored(C, remote)
<1>1. N \in Nat /\ \A n \in 1 .. N : ranked[n] \in C
  OBVIOUS
<1>2. /\ \A c \in S : \E n \in 1 .. N : ranked[n] = c
      /\ \A n \in 1 .. N : ranked[n] \in S
      /\ \A m, n \in 1 .. N : m < n => PageBefore(ranked[m], ranked[n])
  <2>1. Lists(ranked, S, ScoreRel(S)) /\ N = Cardinality(S)
    OBVIOUS
  <2> HIDE DEF N, S
  <2>2. \A m, n \in 1 .. N : m < n => <<ranked[m], ranked[n]>> \in ScoreRel(S)
    BY <2>1 DEF Lists
  <2>3. \A m, n \in 1 .. N : m < n => PageBefore(ranked[m], ranked[n])
    BY <2>2 DEF ScoreRel
  <2> QED  BY <2>1, <2>3 DEF Lists
<1> HIDE DEF N, S
<1>3. \A c \in S : ~PageBefore(c, c)
  <2>1. \A c \in S : PageScore[c.kind] \in Nat /\ Tier(c) \in Int /\ RefPlace[c.kind] \in Nat
                       /\ c.id \in Nat
    <3>1. \A c \in S : c.kind \in Kinds /\ c.id \in Nat
      BY DEF S, Scored, Candidates
    <3> QED  BY <3>1, KindsAreRanked DEF Tier, Tiers
  <2> QED  BY <2>1 DEF PageBefore, RefBefore
<1>4. \A m, n \in 1 .. N : ranked[m] = ranked[n] => m = n
  <2> SUFFICES ASSUME NEW m \in 1 .. N, NEW n \in 1 .. N, ranked[m] = ranked[n], m # n
               PROVE  FALSE
    OBVIOUS
  <2>1. m < n \/ n < m
    OBVIOUS
  <2> QED  BY <2>1, <1>2, <1>3
<1>5. /\ After(ranked, 0) = S /\ After(ranked, N) = {}
      /\ \A n \in 1 .. N : /\ After(ranked, n - 1) = After(ranked, n) \cup {ranked[n]}
                           /\ ranked[n] \notin After(ranked, n)
  <2>1. \A n \in 0 .. N : After(ranked, n) = {ranked[i] : i \in n + 1 .. N}
    BY DEF After, N
  <2>2. 0 + 1 .. N = 1 .. N /\ N + 1 .. N = {}
    BY <1>1
  <2>3. After(ranked, 0) = S
    <3>1. After(ranked, 0) = {ranked[i] : i \in 1 .. N}
      BY <2>1, <2>2, <1>1
    <3> QED  BY <3>1, <1>2
  <2>4. After(ranked, N) = {}
    BY <2>1, <2>2, <1>1
  <2>5. ASSUME NEW n \in 1 .. N
        PROVE  /\ After(ranked, n - 1) = After(ranked, n) \cup {ranked[n]}
               /\ ranked[n] \notin After(ranked, n)
    <3>1. n \in 0 .. N /\ n - 1 \in 0 .. N /\ (n - 1) + 1 .. N = (n + 1 .. N) \cup {n}
      BY <1>1
    <3>2. After(ranked, n) = {ranked[i] : i \in n + 1 .. N}
      BY <2>1, <3>1
    <3>3. After(ranked, n - 1) = {ranked[i] : i \in (n - 1) + 1 .. N}
      BY <2>1, <3>1
    <3>4. \A i \in n + 1 .. N : i \in 1 .. N /\ i # n
      BY <1>1
    <3> QED  BY <3>1, <3>2, <3>3, <3>4, <1>4
  <2> QED  BY <2>3, <2>4, <2>5
<1> QED  BY <1>2, <1>5 DEF N, S

\* The first loops leave open only what they put off, and that is not mandatory.
LEMMA OffersKeep ==
    ASSUME length \in Lengths, NEW type \in OperationTypes, NEW C, C \subseteq Candidates,
           IsFiniteSet(C), NEW remote, NEW ranked \in Seq(C),
           Lists(ranked, Scored(C, remote), ScoreRel(Scored(C, remote))),
           Len(ranked) = Cardinality(Scored(C, remote)),
           Total({d \in Scored(C, remote) : Mandatory(d)}) <= InputBudget[type]
    PROVE  LET r == Offers(type, ranked, Unoffered(C, remote)) IN
           /\ Consistent(r, type, C, remote, r.deferred)
           /\ \A c \in r.deferred : ~Mandatory(c)
<1> DEFINE N == Len(ranked)
           S == Scored(C, remote)
           Open(r, n) == /\ Consistent(r, type, C, remote, After(ranked, n) \cup r.deferred)
                         /\ r.deferred \cap After(ranked, n) = {}
                         /\ \A c \in r.deferred : ~Mandatory(c)
<1>1. N \in Nat /\ \A n \in 1 .. N : ranked[n] \in C
  OBVIOUS
<1>2. /\ Consistent(Unoffered(C, remote), type, C, remote, S)
      /\ Match(Unoffered(C, remote), Nothing)
  BY UnofferedIsConsistent
<1>3. PICK run : /\ Offering(run, type, C, ranked, Unoffered(C, remote))
                 /\ Offers(type, ranked, Unoffered(C, remote)) = run[N]
  <2>1. Unoffered(C, remote) \in PageStates(C)
    BY <1>2 DEF Consistent
  <2> QED  BY <2>1, OffersRun
<1>4. /\ run \in [0 .. N -> PageStates(C)]
      /\ run[0] = Unoffered(C, remote)
      /\ \A n \in 1 .. N : run[n] = Offer(type, run[n - 1], ranked[n])
  BY <1>3 DEF Offering
<1>5. /\ \A c \in S : \E n \in 1 .. N : ranked[n] = c
      /\ \A n \in 1 .. N : ranked[n] \in S
      /\ \A m, n \in 1 .. N : m < n => PageBefore(ranked[m], ranked[n])
  BY RankedIsListed
<1>9. /\ After(ranked, 0) = S /\ After(ranked, N) = {}
      /\ \A n \in 1 .. N : /\ After(ranked, n - 1) = After(ranked, n) \cup {ranked[n]}
                           /\ ranked[n] \notin After(ranked, n)
  BY RankedIsListed
<1> HIDE DEF N, S
<1>6. \A c, d \in S : PageBefore(d, c) => (Mandatory(c) => Mandatory(d))
  BY DEF PageBefore
<1>10. Open(run[0], 0)
  <2>1. run[0].deferred = {}
    BY <1>4 DEF Unoffered
  <2>2. After(ranked, 0) \cup run[0].deferred = S
    BY <2>1, <1>9
  <2> QED  BY <1>2, <1>4, <2>1, <2>2
<1>11. ASSUME NEW n \in 1 .. N, Open(run[n - 1], n - 1)
       PROVE  Open(run[n], n)
  <2> DEFINE r == run[n - 1]
             c == ranked[n]
             q == run[n]
             P == After(ranked, n - 1) \cup r.deferred
  <2>1. r \in PageStates(C) /\ c \in C /\ c \in S /\ q = Offer(type, r, c)
    <3>1. n - 1 \in 0 .. N
      BY <1>1
    <3> QED  BY <3>1, <1>1, <1>4, <1>5
  <2>2. c \in P /\ c \notin r.deferred /\ P \ {c} = After(ranked, n) \cup r.deferred
    BY <1>9, <1>11
  <2>3. Mandatory(c) => \A d \in r.selected : Mandatory(d)
    <3> SUFFICES ASSUME Mandatory(c), NEW d \in r.selected PROVE Mandatory(d)
      OBVIOUS
    <3>1. d \in S /\ d \notin After(ranked, n - 1)
      BY <1>11 DEF Consistent, S
    <3>2. PICK i \in 1 .. N : ranked[i] = d
      BY <3>1, <1>5
    <3>3. i < n
      <4>1. i \notin (n - 1) + 1 .. N
        BY <3>1, <3>2 DEF After, N
      <4> QED  BY <4>1, <1>1
    <3> QED  BY <3>1, <3>2, <3>3, <2>1, <1>5, <1>6
  <2>4. Consistent(r, type, C, remote, P)
    BY <1>11
  <2>5. /\ r.deferred \cap After(ranked, n - 1) = {}
        /\ \A d \in r.deferred : ~Mandatory(d)
    BY <1>11
  <2>6. c \notin After(ranked, n) /\ After(ranked, n - 1) = After(ranked, n) \cup {c}
    BY <1>9
  <2> HIDE DEF r, c, q, P
  <2>7. \/ /\ Consistent(q, type, C, remote, P \ {c})
           /\ q.deferred = r.deferred
        \/ /\ Consistent(q, type, C, remote, P)
           /\ q.deferred = r.deferred \cup {c}
           /\ ~Mandatory(c)
    <3>1. \/ /\ Consistent(Offer(type, r, c), type, C, remote, P \ {c})
             /\ Offer(type, r, c).deferred = r.deferred
          \/ /\ Consistent(Offer(type, r, c), type, C, remote, P)
             /\ Offer(type, r, c).deferred = r.deferred \cup {c}
             /\ ~Mandatory(c)
      BY <2>2, <2>3, <2>4, OfferKeeps
    <3> QED  BY <3>1, <2>1
  <2>8. CASE Consistent(q, type, C, remote, P \ {c}) /\ q.deferred = r.deferred
    <3>1. P \ {c} = After(ranked, n) \cup q.deferred
      BY <2>2, <2>8
    <3>2. Consistent(q, type, C, remote, After(ranked, n) \cup q.deferred)
      BY <2>8, <3>1
    <3>3. q.deferred \cap After(ranked, n) = {}
      BY <2>5, <2>6, <2>8
    <3>4. \A d \in q.deferred : ~Mandatory(d)
      BY <2>5, <2>8
    <3> QED  BY <3>2, <3>3, <3>4 DEF q
  <2>9. CASE /\ Consistent(q, type, C, remote, P)
             /\ q.deferred = r.deferred \cup {c}
             /\ ~Mandatory(c)
    <3>1. P = After(ranked, n) \cup q.deferred
      BY <2>2, <2>9
    <3>2. Consistent(q, type, C, remote, After(ranked, n) \cup q.deferred)
      BY <2>9, <3>1
    <3>3. q.deferred \cap After(ranked, n) = {}
      BY <2>5, <2>6, <2>9
    <3>4. \A d \in q.deferred : ~Mandatory(d)
      BY <2>5, <2>9
    <3> QED  BY <3>2, <3>3, <3>4 DEF q
  <2> QED  BY <2>7, <2>8, <2>9
<1>12. Open(run[N], N)
  <2> DEFINE T == {n \in 0 .. N : Open(run[n], n)}
  <2> HIDE DEF Open
  <2>1. 0 \in T
    BY <1>1, <1>10
  <2>2. \A n \in 1 .. N : n - 1 \in T => n \in T
    BY <1>1, <1>11
  <2> HIDE DEF T
  <2>3. \A n \in 0 .. N : n \in T
    BY <1>1, <2>1, <2>2, UpTo
  <2>4. N \in 0 .. N
    BY <1>1
  <2> QED  BY <2>3, <2>4 DEF T
<1>13. After(ranked, N) \cup run[N].deferred = run[N].deferred
  BY <1>9
<1> QED  BY <1>3, <1>12, <1>13

\* The last loop leaves nothing open.
LEMMA OffersAgainKeep ==
    ASSUME length \in Lengths, NEW type \in OperationTypes, NEW C, C \subseteq Candidates,
           IsFiniteSet(C), NEW remote, NEW ranked \in Seq(C),
           Lists(ranked, Scored(C, remote), ScoreRel(Scored(C, remote))),
           Len(ranked) = Cardinality(Scored(C, remote)),
           NEW start, Consistent(start, type, C, remote, start.deferred),
           \A c \in start.deferred : ~Mandatory(c)
    PROVE  Consistent(OffersAgain(type, ranked, start), type, C, remote, {})
<1> DEFINE N == Len(ranked)
           D == start.deferred
           Open(r, n) == /\ Consistent(r, type, C, remote, D \cap After(ranked, n))
                         /\ r.deferred = D
<1>1. N \in Nat /\ \A n \in 1 .. N : ranked[n] \in C
  OBVIOUS
<1>2. PICK run : /\ OfferingAgain(run, type, C, ranked, start)
                 /\ OffersAgain(type, ranked, start) = run[N]
  <2>1. start \in PageStates(C)
    BY DEF Consistent
  <2> QED  BY <2>1, OffersAgainRun
<1>3. /\ run \in [0 .. N -> PageStates(C)]
      /\ run[0] = start
      /\ \A n \in 1 .. N : run[n] = OfferAgain(type, run[n - 1], ranked[n])
  BY <1>2 DEF OfferingAgain
<1>4. /\ After(ranked, 0) = Scored(C, remote) /\ After(ranked, N) = {}
      /\ \A n \in 1 .. N : /\ After(ranked, n - 1) = After(ranked, n) \cup {ranked[n]}
                           /\ ranked[n] \notin After(ranked, n)
  BY RankedIsListed
<1>5. D \subseteq Scored(C, remote)
  BY DEF Consistent
<1> HIDE DEF N, D
<1>6. Open(run[0], 0)
  <2>1. D \cap After(ranked, 0) = D
    BY <1>4, <1>5
  <2>2. Consistent(start, type, C, remote, D)
    BY DEF D
  <2> QED  BY <1>3, <2>1, <2>2 DEF D
<1>7. ASSUME NEW n \in 1 .. N, Open(run[n - 1], n - 1)
      PROVE  Open(run[n], n)
  <2> DEFINE r == run[n - 1]
             c == ranked[n]
             q == run[n]
             P == D \cap After(ranked, n - 1)
  <2>1. q = OfferAgain(type, r, c)
    BY <1>3
  <2>2. Consistent(r, type, C, remote, P) /\ r.deferred = D
    BY <1>7
  <2>3. c \in D => c \in P /\ P \ {c} = D \cap After(ranked, n)
    BY <1>4
  <2>4. c \notin D => P = D \cap After(ranked, n)
    BY <1>4
  <2> HIDE DEF r, c, q, P
  <2>5. CASE c \in D
    <3>1. ~Mandatory(c)
      BY <2>5 DEF D
    <3>2. /\ Consistent(OfferAgain(type, r, c), type, C, remote, P \ {c})
          /\ OfferAgain(type, r, c).deferred = r.deferred
      <4>1. c \in P /\ c \in r.deferred /\ Consistent(r, type, C, remote, P)
        BY <2>2, <2>3, <2>5
      <4> QED  BY <4>1, <3>1, OfferAgainKeeps
    <3>3. Consistent(q, type, C, remote, D \cap After(ranked, n)) /\ q.deferred = D
      BY <3>2, <2>1, <2>2, <2>3, <2>5
    <3> QED  BY <3>3 DEF q
  <2>6. CASE c \notin D
    <3>1. q = r
      BY <2>1, <2>2, <2>6, OfferAgainCases
    <3>2. Consistent(q, type, C, remote, D \cap After(ranked, n)) /\ q.deferred = D
      BY <3>1, <2>2, <2>4, <2>6
    <3> QED  BY <3>2 DEF q
  <2> QED  BY <2>5, <2>6
<1>8. Open(run[N], N)
  <2> DEFINE T == {n \in 0 .. N : Open(run[n], n)}
  <2> HIDE DEF Open
  <2>1. 0 \in T
    BY <1>1, <1>6
  <2>2. \A n \in 1 .. N : n - 1 \in T => n \in T
    BY <1>1, <1>7
  <2> HIDE DEF T
  <2>3. \A n \in 0 .. N : n \in T
    BY <1>1, <2>1, <2>2, UpTo
  <2>4. N \in 0 .. N
    BY <1>1
  <2> QED  BY <2>3, <2>4 DEF T
<1>9. D \cap After(ranked, N) = {}
  BY <1>4
<1> QED  BY <1>2, <1>8, <1>9

-----------------------------------------------------------------------------
(* What the page compiles *)

\* A list has the members of its set.
LEMMA ListsAreSequences ==
    ASSUME NEW S, IsFiniteSet(S), NEW before, NEW list, Lists(list, S, before)
    PROVE  /\ list \in Seq(S)
           /\ Len(list) = Cardinality(S)
           /\ ToSet(list) = S
<1> DEFINE N == Cardinality(S)
<1>1. N \in Nat
  BY FS_CardinalityType
<1>2. list \in [1 .. N -> S] /\ \A c \in S : \E n \in 1 .. N : list[n] = c
  BY DEF Lists
<1> HIDE DEF N
<1>3. list \in Seq(S) /\ Len(list) = N /\ DOMAIN list = 1 .. N
  BY <1>1, <1>2
<1>4. ToSet(list) = S
  BY <1>2, <1>3 DEF ToSet
<1> QED  BY <1>3, <1>4 DEF N

\* What the host collects: one candidate of a kind and an id, the target among them.
Collection(C) ==
    /\ C \subseteq Candidates
    /\ IsFiniteSet(C)
    /\ Distinct(C)
    /\ \E c \in C : Mandatory(c)
    /\ \A c \in C : Mandatory(c) => c.status = "canonical"

Ranked(C, remote) == InOrder(ByScore(Scored(C, remote)))

\* The state of the page's loops at their end.
Done(C, type, remote) ==
    OffersAgain(type, Ranked(C, remote), Offers(type, Ranked(C, remote), Unoffered(C, remote)))

\* The page goes through all that is scored, in the order of the scores.
LEMMA RankedLists ==
    ASSUME NEW C, Collection(C), NEW remote
    PROVE  /\ Ranked(C, remote) \in Seq(C)
           /\ Lists(Ranked(C, remote), Scored(C, remote), ScoreRel(Scored(C, remote)))
           /\ Len(Ranked(C, remote)) = Cardinality(Scored(C, remote))
<1> DEFINE S == Scored(C, remote)
<1>1. S \subseteq C /\ C \subseteq Candidates /\ IsFiniteSet(C)
  BY DEF Collection, Scored
<1>2. IsFiniteSet(S) /\ Distinct(S)
  BY <1>1, FS_Subset DEF Collection, Distinct
<1> HIDE DEF S
<1>3. Orders(ScoreRel(S), S) /\ ByScore(S) = PlacedBy(S, ScoreRel(S))
  BY <1>1, <1>2, ScoresOrder
<1>4. Lists(InOrder(PlacedBy(S, ScoreRel(S))), S, ScoreRel(S))
  BY <1>2, <1>3, InOrderLists
<1>5. Lists(Ranked(C, remote), S, ScoreRel(S))
  BY <1>3, <1>4 DEF Ranked, S
<1>6. Ranked(C, remote) \in Seq(S) /\ Len(Ranked(C, remote)) = Cardinality(S)
  BY <1>2, <1>5, ListsAreSequences
<1>7. Ranked(C, remote) \in Seq(C)
  BY <1>1, <1>6
<1> QED  BY <1>5, <1>6, <1>7 DEF S

\* What is mandatory is never kept out by a rule.
LEMMA MandatoryIsScored ==
    ASSUME NEW C, Collection(C), NEW remote
    PROVE  {c \in Scored(C, remote) : Mandatory(c)} = {c \in C : Mandatory(c)}
<1> SUFFICES ASSUME NEW c \in C, Mandatory(c) PROVE PageExclusion(c, remote) = "none"
  BY DEF Scored
<1>1. c.status = "canonical" /\ c.kind = "target"
  BY DEF Collection, Mandatory
<1> QED  BY <1>1 DEF PageExclusion, IsPrivate

\* When the mandatory fits, every candidate is selected or has its reason.
LEMMA DoneIsConsistent ==
    ASSUME length \in Lengths, NEW type \in OperationTypes, NEW C, Collection(C), NEW remote,
           Total({c \in C : Mandatory(c)}) <= InputBudget[type]
    PROVE  /\ Consistent(Done(C, type, remote), type, C, remote, {})
           /\ Done(C, type, remote).selected
                 = SecondPass(FirstPass(Ranked(C, remote), type), Ranked(C, remote), type).taken
<1> DEFINE ranked == Ranked(C, remote)
           first == Offers(type, ranked, Unoffered(C, remote))
<1>1. /\ ranked \in Seq(C)
      /\ Lists(ranked, Scored(C, remote), ScoreRel(Scored(C, remote)))
      /\ Len(ranked) = Cardinality(Scored(C, remote))
  BY RankedLists
<1>2. C \subseteq Candidates /\ IsFiniteSet(C)
  BY DEF Collection
<1>3. Total({c \in Scored(C, remote) : Mandatory(c)}) <= InputBudget[type]
  BY MandatoryIsScored
<1> HIDE DEF ranked
<1>4. Consistent(first, type, C, remote, first.deferred) /\ \A c \in first.deferred : ~Mandatory(c)
  BY <1>1, <1>2, <1>3, OffersKeep
<1> HIDE DEF first
<1>5. Consistent(OffersAgain(type, ranked, first), type, C, remote, {})
  BY <1>1, <1>2, <1>4, OffersAgainKeep
<1>6. Unoffered(C, remote) \in PageStates(C) /\ Match(Unoffered(C, remote), Nothing)
  BY UnofferedIsConsistent DEF Consistent
<1>7. OffersAgain(type, ranked, first).selected
         = SecondPass(FirstPass(ranked, type), ranked, type).taken
  BY <1>1, <1>2, <1>6, LoopsMatch DEF first
<1> QED  BY <1>5, <1>7 DEF Done, first, ranked

\* Those with a reason are those not selected.
LEMMA ExcludedAreTheOthers ==
    ASSUME NEW C, NEW type, NEW remote, NEW r, Consistent(r, type, C, remote, {})
    PROVE  /\ {c \in C : r.why[c] # "none"} = C \ r.selected
           /\ \A c \in C \ r.selected :
                 r.why[c] = IF c \in Scored(C, remote) THEN "TOTAL_BUDGET"
                            ELSE PageExclusion(c, remote)
<1>1. \A c \in r.selected : c \in C /\ r.why[c] = "none"
  BY DEF Consistent, Scored
<1>2. ASSUME NEW c \in C, c \notin r.selected
      PROVE  /\ r.why[c] = IF c \in Scored(C, remote) THEN "TOTAL_BUDGET"
                           ELSE PageExclusion(c, remote)
             /\ r.why[c] # "none"
  <2>1. CASE c \in Scored(C, remote)
    BY <1>2, <2>1 DEF Consistent
  <2>2. CASE c \notin Scored(C, remote)
    <3>1. r.why[c] = PageExclusion(c, remote)
      BY <2>2 DEF Consistent
    <3>2. PageExclusion(c, remote) # "none"
      BY <2>2 DEF Scored
    <3> QED  BY <2>2, <3>1, <3>2
  <2> QED  BY <2>1, <2>2
<1> QED  BY <1>1, <1>2

Left(C, r) == InOrder(ByReference(C \ r.selected))

\* The packet of some selection.
PacketOf(C, type, r) ==
    [ budget |-> InputBudget[type], used |-> r.used, items |-> InOrder(ByTier(r.selected)),
      exclusions |-> [i \in DOMAIN Left(C, r) |->
          [of |-> Left(C, r)[i], reason |-> r.why[Left(C, r)[i]]]] ]

\* Compile makes the packet of what its loops select.
LEMMA CompileMakes ==
    ASSUME length \in Lengths, NEW type \in OperationTypes, NEW C, Collection(C), NEW remote,
           Compile(C, type, remote) # NoPacket
    PROVE  /\ Total({c \in C : Mandatory(c)}) <= InputBudget[type]
           /\ Compile(C, type, remote) = PacketOf(C, type, Done(C, type, remote))
<1> DEFINE done == Done(C, type, remote)
           mandatory == {c \in Scored(C, remote) : Mandatory(c)}
           excluded == InOrder(ByReference({c \in C : done.why[c] # "none"}))
<1>1. Compile(C, type, remote)
         = IF Total(mandatory) > InputBudget[type] THEN NoPacket
           ELSE [ budget |-> InputBudget[type], used |-> done.used,
                  items |-> InOrder(ByTier(done.selected)),
                  exclusions |-> [i \in DOMAIN excluded |->
                       [of |-> excluded[i], reason |-> done.why[excluded[i]]]] ]
  BY DEF Compile, Done, Ranked, Scored
<1>2. mandatory = {c \in C : Mandatory(c)}
  BY MandatoryIsScored
<1> HIDE DEF mandatory
<1>3. ~(Total(mandatory) > InputBudget[type])
  BY <1>1
<1>4. Total({c \in C : Mandatory(c)}) <= InputBudget[type]
  <2>1. {c \in C : Mandatory(c)} \subseteq Candidates /\ IsFiniteSet({c \in C : Mandatory(c)})
    BY FS_Subset DEF Collection
  <2>2. Total(mandatory) \in Nat
    BY <1>2, <2>1, TotalCounts
  <2>3. InputBudget[type] \in Nat
    BY ContextConstants
  <2> QED  BY <1>2, <1>3, <2>2, <2>3
<1>5. Consistent(done, type, C, remote, {})
  BY <1>4, DoneIsConsistent
<1> HIDE DEF done, excluded
<1>6. excluded = Left(C, done)
  <2>1. {c \in C : done.why[c] # "none"} = C \ done.selected
    BY <1>5, ExcludedAreTheOthers
  <2> QED  BY <2>1 DEF excluded, Left
<1>7. Compile(C, type, remote) = PacketOf(C, type, done)
  BY <1>1, <1>3, <1>6 DEF PacketOf
<1> QED  BY <1>4, <1>7 DEF done

\* The lists of a packet: what is selected, and everything else.
LEMMA PacketLists ==
    ASSUME NEW C, Collection(C), NEW type, NEW r \in PageStates(C)
    PROVE  /\ PacketOf(C, type, r).items \in Seq(Candidates)
           /\ ToSet(PacketOf(C, type, r).items) = r.selected
           /\ Left(C, r) \in Seq(C \ r.selected)
<1> DEFINE S == r.selected
           X == C \ r.selected
<1>1. S \subseteq C /\ X \subseteq C /\ C \subseteq Candidates /\ IsFiniteSet(C)
  BY DEF Collection, PageStates
<1>2. IsFiniteSet(S) /\ Distinct(S) /\ IsFiniteSet(X) /\ Distinct(X)
  BY <1>1, FS_Subset DEF Collection, Distinct
<1>3. PacketOf(C, type, r).items = InOrder(ByTier(S))
  BY DEF PacketOf
<1>4. Left(C, r) = InOrder(ByReference(X))
  BY DEF Left
<1> HIDE DEF S, X
<1>5. Orders(TierRel(S), S) /\ ByTier(S) = PlacedBy(S, TierRel(S))
  BY <1>1, <1>2, TiersOrder
<1>6. Lists(InOrder(ByTier(S)), S, TierRel(S))
  BY <1>2, <1>5, InOrderLists
<1>7. InOrder(ByTier(S)) \in Seq(S) /\ ToSet(InOrder(ByTier(S))) = S
  BY <1>2, <1>6, ListsAreSequences
<1>8. Orders(RefRel(X), X) /\ ByReference(X) = PlacedBy(X, RefRel(X))
  BY <1>1, <1>2, RefsOrder
<1>9. Lists(InOrder(ByReference(X)), X, RefRel(X))
  BY <1>2, <1>8, InOrderLists
<1>10. InOrder(ByReference(X)) \in Seq(X)
  BY <1>2, <1>9, ListsAreSequences
<1>11. InOrder(ByTier(S)) \in Seq(Candidates)
  BY <1>1, <1>7
<1> QED  BY <1>3, <1>4, <1>7, <1>10, <1>11 DEF S, X

Exclusions == [of : Candidates, reason : Reasons]

Packets == [budget : Nat, used : Nat, items : Seq(Candidates), exclusions : Seq(Exclusions)]

\* A packet keeps to the budget and leaves out nothing that would fit.
Sound(packet, ask) ==
    /\ packet.budget = InputBudget[ask.type]
    /\ packet.used = Total(ToSet(packet.items))
    /\ packet.used <= InputBudget[ask.type]
    /\ \E c \in ToSet(packet.items) : Mandatory(c)
    /\ \A x \in ToSet(packet.exclusions) :
          \/ x.of.status # "canonical"
          \/ ask.remote /\ IsPrivate(x.of)
          \/ packet.used + length[x.of.kind] > InputBudget[ask.type]

LEMMA CompileIsSound ==
    ASSUME length \in Lengths, NEW ask \in Asks, NEW C, Collection(C),
           Compile(C, ask.type, ask.remote) # NoPacket
    PROVE  /\ Compile(C, ask.type, ask.remote) \in Packets
           /\ Sound(Compile(C, ask.type, ask.remote), ask)
<1> DEFINE type == ask.type
           remote == ask.remote
           packet == Compile(C, type, remote)
           r == Done(C, type, remote)
<1>1. type \in OperationTypes
  BY ContextConstants
<1>2. /\ Total({c \in C : Mandatory(c)}) <= InputBudget[type]
      /\ packet = PacketOf(C, type, r)
  BY <1>1, CompileMakes
<1>3. Consistent(r, type, C, remote, {})
  BY <1>1, <1>2, DoneIsConsistent
<1> HIDE DEF packet, r
<1>4. r \in PageStates(C)
  BY <1>3 DEF Consistent
<1>5. /\ packet.budget = InputBudget[type] /\ packet.used = r.used
      /\ packet.exclusions = [i \in DOMAIN Left(C, r) |->
             [of |-> Left(C, r)[i], reason |-> r.why[Left(C, r)[i]]]]
  BY <1>2 DEF PacketOf
<1>6. packet.items \in Seq(Candidates) /\ ToSet(packet.items) = r.selected
  BY <1>2, <1>4, PacketLists
<1>7. Left(C, r) \in Seq(C \ r.selected)
  BY <1>4, PacketLists
<1>8. r.used \in Nat /\ InputBudget[type] \in Nat /\ \A c \in C : c \in Candidates
  BY <1>1, <1>4, ContextConstants DEF PageStates, Collection
<1>9. ASSUME NEW i \in DOMAIN Left(C, r)
      PROVE  /\ Left(C, r)[i] \in C \ r.selected
             /\ packet.exclusions[i] = [of |-> Left(C, r)[i], reason |-> r.why[Left(C, r)[i]]]
             /\ packet.exclusions[i] \in Exclusions
  <2>1. Left(C, r)[i] \in C \ r.selected
    BY <1>7
  <2>2. r.why[Left(C, r)[i]] \in Reasons
    BY <1>4, <2>1 DEF PageStates
  <2>3. packet.exclusions[i] = [of |-> Left(C, r)[i], reason |-> r.why[Left(C, r)[i]]]
    BY <1>5
  <2> QED  BY <1>8, <2>1, <2>2, <2>3 DEF Exclusions
<1>10. packet.exclusions \in Seq(Exclusions) /\ DOMAIN packet.exclusions = DOMAIN Left(C, r)
  <2> DEFINE N == Len(Left(C, r))
  <2>1. N \in Nat /\ DOMAIN Left(C, r) = 1 .. N
    BY <1>7
  <2> HIDE DEF N
  <2>2. DOMAIN packet.exclusions = 1 .. N
    BY <1>5, <2>1
  <2>3. packet.exclusions = [i \in 1 .. N |-> packet.exclusions[i]]
    BY <1>5, <2>1
  <2>4. packet.exclusions \in [1 .. N -> Exclusions]
    BY <2>1, <2>3, <1>9
  <2> QED  BY <2>1, <2>2, <2>4
<1>11. packet \in Packets
  <2>1. packet = [budget |-> packet.budget, used |-> packet.used, items |-> packet.items,
                  exclusions |-> packet.exclusions]
    BY <1>2 DEF PacketOf
  <2> QED  BY <2>1, <1>5, <1>6, <1>8, <1>10 DEF Packets
<1>12. r.used = Total(r.selected) /\ r.used <= InputBudget[type]
  BY <1>3 DEF Consistent
<1>13. \E c \in r.selected : Mandatory(c)
  <2>1. PICK c \in C : Mandatory(c)
    BY DEF Collection
  <2>2. c \in Scored(C, remote)
    BY <2>1, MandatoryIsScored
  <2>3. r.why[c] = "none"
    BY <1>3, <2>1, <2>2 DEF Consistent
  <2>4. c \in r.selected
    BY <1>3, <2>2, <2>3 DEF Consistent
  <2> QED  BY <2>1, <2>4
<1>14. ASSUME NEW c \in C \ r.selected
       PROVE  \/ c.status # "canonical"
              \/ remote /\ IsPrivate(c)
              \/ r.used + length[c.kind] > InputBudget[type]
  <2>1. CASE c \in Scored(C, remote)
    BY <1>3, <2>1 DEF Consistent
  <2>2. CASE c \notin Scored(C, remote)
    BY <2>2 DEF Scored, PageExclusion
  <2> QED  BY <2>1, <2>2
<1>15. ASSUME NEW x \in ToSet(packet.exclusions)
       PROVE  \/ x.of.status # "canonical"
              \/ remote /\ IsPrivate(x.of)
              \/ packet.used + length[x.of.kind] > InputBudget[type]
  <2>1. PICK i \in DOMAIN Left(C, r) : x = packet.exclusions[i]
    BY <1>10 DEF ToSet
  <2>2. x.of \in C \ r.selected
    <3>1. /\ x = [of |-> Left(C, r)[i], reason |-> r.why[Left(C, r)[i]]]
          /\ Left(C, r)[i] \in C \ r.selected
      BY <2>1, <1>9
    <3>2. x.of = Left(C, r)[i]
      BY <3>1
    <3> QED  BY <3>1, <3>2
  <2> QED  BY <2>2, <1>5, <1>14
<1>16. Sound(packet, ask)
  BY <1>5, <1>6, <1>12, <1>13, <1>15 DEF Sound
<1> QED  BY <1>11, <1>16 DEF packet

-----------------------------------------------------------------------------
(* The host expects what the page compiles *)

\* What is expected of some collection that fits.
LEMMA ExpectedIs ==
    ASSUME length \in Lengths, NEW type \in OperationTypes, NEW C, Collection(C), NEW remote,
           Total({c \in C : Mandatory(c)}) <= InputBudget[type]
    PROVE  LET packet == PacketOf(C, type, Done(C, type, remote)) IN
           /\ Expected(C, type, remote).items = packet.items
           /\ Expected(C, type, remote).exclusions = packet.exclusions
<1> DEFINE r == Done(C, type, remote)
           ranked == Ranked(C, remote)
           eligible == {c \in C : RequiredExclusion(c, remote) = "none"}
           taken == SecondPass(FirstPass(InOrder(OfferOrder(eligible)), type),
                               InOrder(OfferOrder(eligible)), type).taken
           out == InOrder(ByReference(C \ taken))
           reason(c) == IF c \in eligible THEN "TOTAL_BUDGET" ELSE RequiredExclusion(c, remote)
<1>1. /\ Expected(C, type, remote).items = InOrder(PacketOrder(taken))
      /\ Expected(C, type, remote).exclusions
           = [i \in DOMAIN out |-> [of |-> out[i], reason |-> reason(out[i])]]
  BY DEF Expected
<1>2. \A c : RequiredExclusion(c, remote) = PageExclusion(c, remote)
  BY DEF RequiredExclusion, PageExclusion
<1>3. eligible = Scored(C, remote)
  BY <1>2 DEF Scored
<1>4. Scored(C, remote) \subseteq Candidates /\ C \subseteq Candidates
  BY DEF Scored, Collection
<1>5. OfferOrder(eligible) = ByScore(Scored(C, remote))
  BY <1>3, <1>4, SameOrder
<1>6. taken = SecondPass(FirstPass(ranked, type), ranked, type).taken
  BY <1>5 DEF Ranked
<1> HIDE DEF taken
<1>7. taken = r.selected
  BY <1>6, DoneIsConsistent
<1>8. Consistent(r, type, C, remote, {})
  BY DoneIsConsistent
<1> HIDE DEF r, ranked, eligible
<1>9. taken \subseteq Candidates
  BY <1>4, <1>7, <1>8 DEF Consistent
<1>10. PacketOrder(taken) = ByTier(taken)
  BY <1>9, SameOrder
<1>11. out = Left(C, r)
  BY <1>7 DEF Left
<1>12. ASSUME NEW i \in DOMAIN out PROVE reason(out[i]) = r.why[out[i]]
  <2>1. r \in PageStates(C)
    BY <1>8 DEF Consistent
  <2>2. Left(C, r) \in Seq(C \ r.selected)
    BY <2>1, PacketLists
  <2>3. out[i] \in C \ r.selected
    BY <1>11, <2>2
  <2> HIDE DEF out
  <2>4. r.why[out[i]] = IF out[i] \in Scored(C, remote) THEN "TOTAL_BUDGET"
                        ELSE PageExclusion(out[i], remote)
    BY <1>8, <2>3, ExcludedAreTheOthers
  <2> QED  BY <2>4, <1>2, <1>3
<1> HIDE DEF out, reason
<1>13. [i \in DOMAIN out |-> [of |-> out[i], reason |-> reason(out[i])]]
         = [i \in DOMAIN out |-> [of |-> out[i], reason |-> r.why[out[i]]]]
  BY <1>12
<1>14. PacketOf(C, type, r).exclusions
         = [i \in DOMAIN out |-> [of |-> out[i], reason |-> r.why[out[i]]]]
  BY <1>11 DEF PacketOf
<1>15. PacketOf(C, type, r).items = InOrder(ByTier(taken))
  BY <1>7 DEF PacketOf
<1> QED  BY <1>1, <1>10, <1>13, <1>14, <1>15 DEF r

\* And so what the page compiles is what the host expects.
LEMMA CompileIsExpected ==
    ASSUME length \in Lengths, NEW type \in OperationTypes, NEW C, Collection(C), NEW remote,
           Compile(C, type, remote) # NoPacket
    PROVE  /\ Total({c \in C : Mandatory(c)}) <= InputBudget[type]
           /\ Compile(C, type, remote).items = Expected(C, type, remote).items
           /\ Compile(C, type, remote).exclusions = Expected(C, type, remote).exclusions
BY CompileMakes, ExpectedIs

\* What is expected is collected and allowed.
LEMMA ExpectedIsScored ==
    ASSUME length \in Lengths, NEW type \in OperationTypes, NEW C, Collection(C), NEW remote,
           Total({c \in C : Mandatory(c)}) <= InputBudget[type]
    PROVE  ToSet(Expected(C, type, remote).items) \subseteq Scored(C, remote)
<1> DEFINE r == Done(C, type, remote)
<1>1. Consistent(r, type, C, remote, {})
  BY DoneIsConsistent
<1>2. Expected(C, type, remote).items = PacketOf(C, type, r).items
  BY ExpectedIs
<1> HIDE DEF r
<1>3. r \in PageStates(C) /\ r.selected \subseteq Scored(C, remote)
  BY <1>1 DEF Consistent
<1>4. ToSet(PacketOf(C, type, r).items) = r.selected
  BY <1>3, PacketLists
<1> QED  BY <1>2, <1>3, <1>4

-----------------------------------------------------------------------------
(* What the host collects *)

ProjectType ==
    /\ head \in Nat
    /\ textRev \in [Chapters -> Nat]
    /\ docRev \in [Chapters -> Nat]
    /\ summary \in [Scopes -> Nat]
    /\ queued \in [Scopes -> Nat]
    /\ item \in [ItemIds -> [status : Statuses, revision : Nat]]
    /\ length \in Lengths

\* The one candidate of a kind and an id that there can be.
TextNow(kind, id) == Candidate(kind, id, textRev[id], head, "canonical")
StructureNow(id) == Candidate("structure", id, docRev[id], head, "canonical")
SummaryNow(kind, id) == Candidate(kind, id, summary[id], summary[id], "canonical")
ItemNow(kind, id) == Candidate(kind, id, item[id].revision, head, item[id].status)

Collects(c, target, around) ==
    \/ \E kind \in {"target"} \cup around : c = TextNow(kind, target)
    \/ c = StructureNow(target)
    \/ \E s \in Chapters : Ready(s) /\ c = SummaryNow("chapter", s)
    \/ Ready(Project) /\ c = SummaryNow("whole", Project)
    \/ \E k \in Knowledge : item[k].status = "canonical" /\ c = ItemNow("knowledge", k)
    \/ \E s \in Styles : item[s].status # "absent" /\ c = ItemNow("style", s)

LEMMA CollectedIs ==
    ASSUME NEW target, NEW around, NEW c \in Collected(target, around)
    PROVE  Collects(c, target, around)
<1>1. c \in SummaryContext(target) =>
         \/ \E s \in Chapters : Ready(s) /\ c = SummaryNow("chapter", s)
         \/ Ready(Project) /\ c = SummaryNow("whole", Project)
  BY DEF SummaryContext, SummaryNow
<1>2. c \in KnowledgeContext =>
         \E k \in Knowledge : item[k].status = "canonical" /\ c = ItemNow("knowledge", k)
  BY DEF KnowledgeContext, ItemNow
<1>3. c \in StyleContext =>
         \E s \in Styles : item[s].status # "absent" /\ c = ItemNow("style", s)
  BY DEF StyleContext, ItemNow
<1>4. \/ c \in {TextNow(kind, target) : kind \in {"target"} \cup around}
      \/ c \in {StructureNow(target)}
      \/ c \in SummaryContext(target)
      \/ c \in KnowledgeContext
      \/ c \in StyleContext
  BY DEF Collected, TextNow, StructureNow
<1> QED  BY <1>1, <1>2, <1>3, <1>4 DEF Collects

Texts == {"target", "prefix", "suffix"}

\* What a candidate says, by its kind.
LEMMA CollectedFields ==
    ASSUME ProjectType, NEW target \in Chapters, NEW around \in SUBSET {"prefix", "suffix"},
           NEW c \in Collected(target, around)
    PROVE  /\ c \in Candidates
           /\ c.id \in Scopes \cup ItemIds
           /\ c.kind \in Texts => c = TextNow(c.kind, c.id) /\ c.id = target
           /\ c.kind = "structure" => c = StructureNow(c.id) /\ c.id = target
           /\ c.kind \in {"chapter", "whole"} =>
                 c = SummaryNow(c.kind, c.id) /\ Ready(c.id) /\ c.id \in Scopes
           /\ c.kind \in {"knowledge", "style"} =>
                 /\ c = ItemNow(c.kind, c.id) /\ c.id \in ItemIds
                 /\ item[c.id].status # "absent"
<1>1. Collects(c, target, around)
  BY CollectedIs
<1>2. Statuses = {"absent", "canonical", "archived", "rejected"}
  BY DEF Statuses
<1>3. Scopes \subseteq Nat /\ ItemIds \subseteq Nat /\ target \in Scopes /\ Project \in Scopes
  BY ContextConstants DEF Scopes, Project
<1>4. Knowledge \subseteq ItemIds /\ Styles \subseteq ItemIds /\ Chapters \subseteq Scopes
  BY DEF ItemIds, Scopes
<1>5. CASE \E kind \in {"target"} \cup around : c = TextNow(kind, target)
  <2>1. PICK kind \in Texts : c = TextNow(kind, target)
    BY <1>5 DEF Texts
  <2>2. textRev[target] \in Nat /\ head \in Nat
    BY DEF ProjectType
  <2>3. c = [kind |-> kind, id |-> target, version |-> textRev[target], commit |-> head,
             status |-> "canonical"]
    BY <2>1 DEF TextNow, Candidate
  <2>4. kind \in Kinds /\ kind \notin {"structure", "chapter", "whole", "knowledge", "style"}
    BY DEF Texts, Kinds
  <2>5. c.kind = kind /\ c.id = target
    BY <2>3
  <2>6. c \in Candidates
    BY <1>2, <1>3, <2>2, <2>3, <2>4 DEF Candidates
  <2> QED  BY <1>3, <2>1, <2>4, <2>5, <2>6
<1>6. CASE c = StructureNow(target)
  <2>1. docRev[target] \in Nat /\ head \in Nat
    BY DEF ProjectType
  <2>2. c = [kind |-> "structure", id |-> target, version |-> docRev[target], commit |-> head,
             status |-> "canonical"]
    BY <1>6 DEF StructureNow, Candidate
  <2>3. c.kind = "structure" /\ c.id = target
    BY <2>2
  <2>4. c \in Candidates
    BY <1>2, <1>3, <2>1, <2>2 DEF Candidates, Kinds
  <2> QED  BY <1>3, <1>6, <2>3, <2>4 DEF Texts
<1>7. ASSUME NEW kind \in {"chapter", "whole"}, NEW s \in Scopes, Ready(s), c = SummaryNow(kind, s)
      PROVE  /\ c \in Candidates /\ c.id \in Scopes
             /\ c.kind \in {"chapter", "whole"}
             /\ c = SummaryNow(c.kind, c.id) /\ Ready(c.id)
  <2>1. summary[s] \in Nat
    BY DEF ProjectType
  <2>2. c = [kind |-> kind, id |-> s, version |-> summary[s], commit |-> summary[s],
             status |-> "canonical"]
    BY <1>7 DEF SummaryNow, Candidate
  <2>3. c.kind = kind /\ c.id = s
    BY <2>2
  <2>4. c \in Candidates
    BY <1>2, <1>3, <2>1, <2>2 DEF Candidates, Kinds
  <2> QED  BY <1>7, <2>3, <2>4
<1>8. ASSUME NEW kind \in {"knowledge", "style"}, NEW i \in ItemIds, c = ItemNow(kind, i),
             item[i].status # "absent"
      PROVE  /\ c \in Candidates /\ c.id \in ItemIds /\ item[c.id].status # "absent"
             /\ c.kind \in {"knowledge", "style"}
             /\ c = ItemNow(c.kind, c.id)
  <2>1. item[i].revision \in Nat /\ item[i].status \in Statuses /\ head \in Nat
    BY DEF ProjectType
  <2>2. c = [kind |-> kind, id |-> i, version |-> item[i].revision, commit |-> head,
             status |-> item[i].status]
    BY <1>8 DEF ItemNow, Candidate
  <2>3. c.kind = kind /\ c.id = i
    BY <2>2
  <2>4. c \in Candidates
    BY <1>3, <2>1, <2>2 DEF Candidates, Kinds
  <2> QED  BY <1>8, <2>3, <2>4
<1>9. CASE \E s \in Chapters : Ready(s) /\ c = SummaryNow("chapter", s)
  <2>1. /\ c \in Candidates /\ c.id \in Scopes
        /\ c.kind \in {"chapter", "whole"}
        /\ c = SummaryNow(c.kind, c.id) /\ Ready(c.id)
    BY <1>4, <1>7, <1>9
  <2> QED  BY <2>1 DEF Texts
<1>10. CASE Ready(Project) /\ c = SummaryNow("whole", Project)
  <2>1. /\ c \in Candidates /\ c.id \in Scopes
        /\ c.kind \in {"chapter", "whole"}
        /\ c = SummaryNow(c.kind, c.id) /\ Ready(c.id)
    BY <1>3, <1>7, <1>10
  <2> QED  BY <2>1 DEF Texts
<1>11. CASE \E k \in Knowledge : item[k].status = "canonical" /\ c = ItemNow("knowledge", k)
  <2>1. /\ c \in Candidates /\ c.id \in ItemIds /\ item[c.id].status # "absent"
        /\ c.kind \in {"knowledge", "style"}
        /\ c = ItemNow(c.kind, c.id)
    BY <1>4, <1>8, <1>11
  <2> QED  BY <2>1 DEF Texts
<1>12. CASE \E s \in Styles : item[s].status # "absent" /\ c = ItemNow("style", s)
  <2>1. /\ c \in Candidates /\ c.id \in ItemIds /\ item[c.id].status # "absent"
        /\ c.kind \in {"knowledge", "style"}
        /\ c = ItemNow(c.kind, c.id)
    BY <1>4, <1>8, <1>12
  <2> QED  BY <2>1 DEF Texts
<1> QED  BY <1>1, <1>5, <1>6, <1>9, <1>10, <1>11, <1>12 DEF Collects

\* What is collected is a collection.
LEMMA CollectedIsCollection ==
    ASSUME ProjectType, NEW target \in Chapters, NEW around \in SUBSET {"prefix", "suffix"}
    PROVE  Collection(Collected(target, around))
<1> DEFINE C == Collected(target, around)
           Ids == Scopes \cup ItemIds
           key == [c \in C |-> <<RefPlace[c.kind], c.id>>]
<1>1. C \subseteq Candidates /\ \A c \in C : c.id \in Ids
  BY CollectedFields
<1>2. Distinct(C)
  <2> SUFFICES ASSUME NEW c \in C, NEW d \in C, c.kind = d.kind, c.id = d.id
               PROVE  c = d
    BY DEF Distinct
  <2>1. c.kind \in Texts \cup {"structure", "chapter", "whole", "knowledge", "style"}
    BY <1>1 DEF Candidates, Kinds, Texts
  <2>2. CASE c.kind \in Texts
    BY <2>2, CollectedFields
  <2>3. CASE c.kind = "structure"
    <3>1. c = StructureNow(c.id)
      BY <2>3, CollectedFields
    <3>2. d.kind = "structure"
      BY <2>3
    <3>3. d = StructureNow(d.id)
      BY <3>2, CollectedFields
    <3> QED  BY <3>1, <3>3
  <2>4. CASE c.kind \in {"chapter", "whole"}
    BY <2>4, CollectedFields
  <2>5. CASE c.kind \in {"knowledge", "style"}
    BY <2>5, CollectedFields
  <2> QED  BY <2>1, <2>2, <2>3, <2>4, <2>5
<1>3. \E c \in C : Mandatory(c)
  <2>1. TextNow("target", target) \in C
    BY DEF Collected, TextNow
  <2>2. Mandatory(TextNow("target", target))
    BY DEF Mandatory, TextNow, Candidate
  <2> QED  BY <2>1, <2>2
<1>4. \A c \in C : Mandatory(c) => c.status = "canonical"
  <2> SUFFICES ASSUME NEW c \in C, Mandatory(c) PROVE c.status = "canonical"
    OBVIOUS
  <2>1. c.kind \in Texts
    BY DEF Mandatory, Texts
  <2>2. c = TextNow(c.kind, c.id)
    BY <2>1, CollectedFields
  <2>3. TextNow(c.kind, c.id).status = "canonical"
    BY DEF TextNow, Candidate
  <2> QED  BY <2>2, <2>3
<1>5. IsFiniteSet(Ids)
  <2>1. IsFiniteSet(Chapters) /\ IsFiniteSet(ItemIds)
    BY ContextConstants
  <2>2. IsFiniteSet(Scopes)
    BY <2>1, FS_AddElement DEF Scopes
  <2> QED  BY <2>1, <2>2, FS_Union
<1>6. IsFiniteSet((1 .. 8) \X Ids)
  BY <1>5, IntervalCounts, FS_Product
<1>7. key \in Injection(C, (1 .. 8) \X Ids)
  <2>1. \A k \in Kinds : RefPlace[k] \in 1 .. 8
    BY DEF Kinds, RefPlace
  <2>2. \A c \in C : c.kind \in Kinds
    BY <1>1 DEF Candidates
  <2> HIDE DEF Ids, C
  <2>3. key \in [C -> (1 .. 8) \X Ids]
    BY <1>1, <2>1, <2>2
  <2>4. ASSUME NEW c \in C, NEW d \in C, key[c] = key[d] PROVE c = d
    <3>1. RefPlace[c.kind] = RefPlace[d.kind] /\ c.id = d.id
      BY <2>4
    <3>2. c.kind = d.kind
      BY <2>2, <3>1, KindsAreRanked
    <3> QED  BY <1>2, <3>1, <3>2 DEF Distinct
  <2> HIDE DEF key
  <2> QED  BY <2>3, <2>4 DEF Injection, IsInjective
<1>8. IsFiniteSet(C)
  <2> HIDE DEF key, C, Ids
  <2> QED  BY <1>6, <1>7, FS_Injection
<1> QED  BY <1>1, <1>2, <1>3, <1>4, <1>8 DEF Collection

-----------------------------------------------------------------------------
(* The invariant *)

Running ==
    [ stage : {"begun", "packed", "authorized"}, target : Chapters, head : Nat, textRev : Nat, ask : Asks,
      packet : Packets \cup {NoPacket}, attempts : Nat ]

\* There is no operation, or one whose packet, once made, is sound.
OperationIsSound ==
    \/ op = Idle
    \/ /\ op \in Running
       /\ op.stage # "begun" => op.packet \in Packets /\ Sound(op.packet, op.ask)

PacketInvariant == ProjectType /\ OperationIsSound

\* An operation that is not touched stays sound: lengths do not change.
LEMMA OperationIsKept ==
    ASSUME OperationIsSound, UNCHANGED <<length, op>>
    PROVE  OperationIsSound'
BY DEF OperationIsSound, Sound, Total, Tokens

LEMMA ProjectIsKept ==
    ASSUME ProjectType, UNCHANGED <<projectVars, length>>
    PROVE  ProjectType'
BY DEF ProjectType, projectVars

LEMMA BeginKeeps ==
    ASSUME PacketInvariant, Begin
    PROVE  PacketInvariant'
<1>1. ProjectType'
  BY ProjectIsKept DEF PacketInvariant, Begin
<1>2. PICK target \in Chapters, ask \in Asks :
          op' = [ stage |-> "begun", target |-> target, head |-> head,
                  textRev |-> textRev[target], ask |-> ask, packet |-> NoPacket, attempts |-> 0 ]
  BY DEF Begin
<1>3. head \in Nat /\ textRev[target] \in Nat
  BY DEF PacketInvariant, ProjectType
<1>4. op' \in Running /\ op'.stage = "begun"
  BY <1>2, <1>3 DEF Running
<1>5. OperationIsSound'
  BY <1>4 DEF OperationIsSound
<1> QED  BY <1>1, <1>5 DEF PacketInvariant

\* What is asked, and what there is to compile for it.
LEMMA OperationCollects ==
    ASSUME ProjectType, NEW o \in Running
    PROVE  /\ o.ask \in Asks /\ o.ask.type \in OperationTypes
           /\ o.target \in Chapters
           /\ Collection(Collected(o.target, o.ask.around))
           /\ length \in Lengths
<1>1. o.ask \in Asks /\ o.target \in Chapters
  BY DEF Running
<1>2. o.ask.type \in OperationTypes /\ o.ask.around \in SUBSET {"prefix", "suffix"}
  BY <1>1, ContextConstants
<1> QED  BY <1>1, <1>2, CollectedIsCollection DEF ProjectType

\* A stage other than idle is that of an operation.
LEMMA StageRuns ==
    ASSUME OperationIsSound, op.stage # "idle"
    PROVE  /\ op \in Running
           /\ op.stage # "begun" => op.packet \in Packets /\ Sound(op.packet, op.ask)
BY DEF OperationIsSound, Idle

LEMMA CollectKeeps ==
    ASSUME PacketInvariant, Collect
    PROVE  PacketInvariant'
<1> DEFINE C == Collected(op.target, op.ask.around)
           packet == Compile(C, op.ask.type, op.ask.remote)
<1>1. ProjectType'
  BY ProjectIsKept DEF PacketInvariant, Collect
<1>2. op \in Running
  <2>1. op.stage # "idle"
    BY DEF Collect
  <2> QED  BY <2>1, StageRuns DEF PacketInvariant
<1>3. op.ask \in Asks /\ Collection(C) /\ length \in Lengths
  BY <1>2, OperationCollects DEF PacketInvariant
<1>4. packet # NoPacket => packet \in Packets /\ Sound(packet, op.ask)
  <2> HIDE DEF C
  <2> QED  BY <1>3, CompileIsSound
<1>5. \/ op' = Idle
      \/ packet # NoPacket /\ op' = [op EXCEPT !.stage = "packed", !.packet = packet]
  BY DEF Collect
<1>6. length' = length
  BY DEF Collect
<1> HIDE DEF packet
<1>7. CASE op' = Idle
  BY <1>1, <1>7 DEF PacketInvariant, OperationIsSound, Idle
<1>8. CASE packet # NoPacket /\ op' = [op EXCEPT !.stage = "packed", !.packet = packet]
  <2>1. op' \in Running /\ op'.packet = packet /\ op'.ask = op.ask
    BY <1>2, <1>4, <1>8 DEF Running
  <2>2. Sound(packet, op.ask)
    BY <1>4, <1>8
  <2>3. Sound(op.packet, op.ask)'
    BY <1>6, <2>1, <2>2 DEF Sound, Total, Tokens
  <2>4. OperationIsSound'
    BY <1>4, <1>8, <2>1, <2>3 DEF OperationIsSound
  <2> QED  BY <1>1, <2>4 DEF PacketInvariant
<1> QED  BY <1>5, <1>7, <1>8

LEMMA RequestKeeps ==
    ASSUME PacketInvariant, Authorize \/ Execute
    PROVE  PacketInvariant'
<1>1. ProjectType'
  BY ProjectIsKept DEF PacketInvariant, Authorize, Execute
<1>2. op \in Running /\ op.packet \in Packets /\ Sound(op.packet, op.ask)
  <2>1. op.stage # "idle" /\ op.stage # "begun"
    BY DEF Authorize, Execute
  <2> QED  BY <2>1, StageRuns DEF PacketInvariant
<1>3. \/ op' = Idle
      \/ op' = [op EXCEPT !.stage = "authorized"]
      \/ op' = [op EXCEPT !.stage = "packed", !.attempts = @ + 1]
  BY DEF Authorize, Execute
<1>4. length' = length
  BY DEF Authorize, Execute
<1>5. CASE op' = Idle
  BY <1>1, <1>5 DEF PacketInvariant, OperationIsSound, Idle
<1>6. CASE \/ op' = [op EXCEPT !.stage = "authorized"]
           \/ op' = [op EXCEPT !.stage = "packed", !.attempts = @ + 1]
  <2>1. op' \in Running /\ op'.packet = op.packet /\ op'.ask = op.ask
    <3>1. CASE op' = [op EXCEPT !.stage = "authorized"]
      BY <1>2, <3>1 DEF Running
    <3>2. CASE op' = [op EXCEPT !.stage = "packed", !.attempts = @ + 1]
      <4>1. op.attempts + 1 \in Nat
        BY <1>2 DEF Running
      <4> QED  BY <1>2, <3>2, <4>1 DEF Running
    <3> QED  BY <1>6, <3>1, <3>2
  <2>2. Sound(op.packet, op.ask)'
    BY <1>2, <1>4, <2>1 DEF Sound, Total, Tokens
  <2>3. OperationIsSound'
    BY <1>2, <2>1, <2>2 DEF OperationIsSound
  <2> QED  BY <1>1, <2>3 DEF PacketInvariant
<1> QED  BY <1>3, <1>5, <1>6

LEMMA EndKeeps ==
    ASSUME PacketInvariant, End
    PROVE  PacketInvariant'
<1>1. ProjectType' /\ op' = Idle
  BY ProjectIsKept DEF PacketInvariant, End
<1> QED  BY <1>1 DEF PacketInvariant, OperationIsSound, Idle

\* What happens to the project leaves the operation alone.
LEMMA ProjectKeeps ==
    ASSUME PacketInvariant,
           \/ \E c \in Chapters : Save(c) \/ Rename(c)
           \/ \E s \in Scopes : Summarize(s)
           \/ \E k \in Knowledge : CreateKnowledgeItem(k) \/ SetKnowledgeItemStatus(k)
           \/ \E s \in Styles : CreateStyleSample(s) \/ SetStyleSampleStatus(s)
    PROVE  PacketInvariant'
<1> USE DEF PacketInvariant
<1>1. ASSUME UNCHANGED <<length, op>> PROVE OperationIsSound'
  BY <1>1, OperationIsKept
<1>2. head \in Nat /\ head + 1 \in Nat /\ \A s \in Scopes : queued[s] \in Nat
  BY DEF ProjectType
<1>3. ASSUME NEW scopes PROVE Invalidated(scopes) \in [Scopes -> Nat]
  BY <1>2 DEF Invalidated
<1>4. ASSUME NEW c \in Chapters, Save(c) PROVE ProjectType'
  BY <1>2, <1>3, <1>4 DEF Save, ProjectType
<1>5. ASSUME NEW c \in Chapters, Rename(c) PROVE ProjectType'
  BY <1>2, <1>3, <1>5 DEF Rename, ProjectType
<1>6. ASSUME NEW s \in Scopes, Summarize(s) PROVE ProjectType'
  BY <1>6 DEF Summarize, ProjectType
<1>7. Knowledge \subseteq ItemIds /\ Styles \subseteq ItemIds
  BY DEF ItemIds
<1>8. ASSUME NEW i \in ItemIds, item' = [item EXCEPT ![i] = NewItem]
      PROVE  item' \in [ItemIds -> [status : Statuses, revision : Nat]]
  BY <1>8 DEF ProjectType, NewItem, Statuses
<1>9. ASSUME NEW i \in ItemIds, NEW status \in Statuses, Revised(i, status)
      PROVE  item' \in [ItemIds -> [status : Statuses, revision : Nat]]
  <2>1. item[i].revision + 1 \in Nat
    BY DEF ProjectType
  <2>2. [status |-> status, revision |-> item[i].revision + 1]
           \in [status : Statuses, revision : Nat]
    BY <2>1
  <2>3. item' = [item EXCEPT ![i] = [status |-> status, revision |-> item[i].revision + 1]]
    BY <1>9 DEF Revised
  <2> QED  BY <2>2, <2>3 DEF ProjectType
<1>10. KnowledgeStatuses \subseteq Statuses /\ StyleStatuses \subseteq Statuses
  BY DEF KnowledgeStatuses, StyleStatuses, Statuses
<1>11. ASSUME UNCHANGED <<head, textRev, docRev, summary, queued, length, op>>,
              item' \in [ItemIds -> [status : Statuses, revision : Nat]]
       PROVE  ProjectType'
  BY <1>11 DEF ProjectType
<1>12. CASE \E c \in Chapters : Save(c) \/ Rename(c)
  BY <1>12, <1>1, <1>4, <1>5 DEF Save, Rename
<1>13. CASE \E s \in Scopes : Summarize(s)
  BY <1>13, <1>1, <1>6 DEF Summarize
<1>14. CASE \E k \in Knowledge : CreateKnowledgeItem(k) \/ SetKnowledgeItemStatus(k)
  BY <1>14, <1>1, <1>7, <1>8, <1>9, <1>10, <1>11 DEF CreateKnowledgeItem, SetKnowledgeItemStatus
<1>15. CASE \E s \in Styles : CreateStyleSample(s) \/ SetStyleSampleStatus(s)
  BY <1>15, <1>1, <1>7, <1>8, <1>9, <1>10, <1>11 DEF CreateStyleSample, SetStyleSampleStatus
<1> QED  BY <1>12, <1>13, <1>14, <1>15

LEMMA InitIsSound ==
    ASSUME CpInit
    PROVE  PacketInvariant
<1>1. ProjectType
  BY DEF CpInit, ProjectType, Statuses
<1> QED  BY <1>1 DEF CpInit, PacketInvariant, OperationIsSound

LEMMA NextKeeps ==
    ASSUME PacketInvariant, [CpNext]_cpVars
    PROVE  PacketInvariant'
<1>1. CASE Begin
  BY <1>1, BeginKeeps
<1>2. CASE Collect
  BY <1>2, CollectKeeps
<1>3. CASE Authorize \/ Execute
  BY <1>3, RequestKeeps
<1>4. CASE End
  BY <1>4, EndKeeps
<1>5. CASE \/ \E c \in Chapters : Save(c) \/ Rename(c)
           \/ \E s \in Scopes : Summarize(s)
           \/ \E k \in Knowledge : CreateKnowledgeItem(k) \/ SetKnowledgeItemStatus(k)
           \/ \E s \in Styles : CreateStyleSample(s) \/ SetStyleSampleStatus(s)
  BY <1>5, ProjectKeeps
<1>6. CASE UNCHANGED cpVars
  <2>1. UNCHANGED <<projectVars, length>> /\ UNCHANGED <<length, op>>
    BY <1>6 DEF cpVars, projectVars
  <2> QED  BY <2>1, ProjectIsKept, OperationIsKept DEF PacketInvariant
<1> QED  BY <1>1, <1>2, <1>3, <1>4, <1>5, <1>6 DEF CpNext

\* An operation is idle or well formed in every reachable state; its packet, once
\* made, is what the page's compiler promises.
THEOREM PacketInvariantHolds == CpSpec => []PacketInvariant
<1>1. CpInit => PacketInvariant
  BY InitIsSound
<1>2. PacketInvariant /\ [CpNext]_cpVars => PacketInvariant'
  BY NextKeeps
<1> QED  BY <1>1, <1>2, PTL DEF CpSpec

-----------------------------------------------------------------------------
(* The properties *)

LEMMA SoundFitsNothingMore ==
    ASSUME PacketInvariant
    PROVE  NothingMoreFits
<1> SUFFICES ASSUME op.stage \in {"packed", "authorized"}
             PROVE  LET used == Total(ToSet(op.packet.items)) IN
                    /\ used <= InputBudget[op.ask.type]
                    /\ \E c \in ToSet(op.packet.items) : c.kind = "target"
                    /\ \A x \in ToSet(op.packet.exclusions) :
                          \/ x.of.status # "canonical"
                          \/ op.ask.remote /\ x.of.id \in NeverSend
                               /\ x.of.kind \in {"knowledge", "style"}
                          \/ used + length[x.of.kind] > InputBudget[op.ask.type]
  BY DEF NothingMoreFits
<1>1. Sound(op.packet, op.ask)
  BY StageRuns DEF PacketInvariant
<1> QED  BY <1>1 DEF Sound, Mandatory, IsPrivate

\* No packet is over its budget, lacks the target, or leaves out for room what
\* there was room for: ContextCompiler.compile, whatever the lengths and budgets.
THEOREM PacketsAreFull == CpSpec => []NothingMoreFits
<1>1. PacketInvariant => NothingMoreFits
  BY SoundFitsNothingMore
<1> QED  BY <1>1, PacketInvariantHolds, PTL

LEMMA UndisturbedIsConfirmed ==
    ASSUME PacketInvariant
    PROVE  UndisturbedPacketIsConfirmed
<1> DEFINE C == Collected(op.target, op.ask.around)
           packet == Compile(C, op.ask.type, op.ask.remote)
           shown == [op EXCEPT !.packet = packet]
<1> SUFFICES ASSUME op.stage = "begun", IsBound(op), packet # NoPacket, FewEntries(packet)
             PROVE  Confirms(shown)
  BY DEF UndisturbedPacketIsConfirmed
<1>1. op \in Running
  BY StageRuns DEF PacketInvariant
<1>2. /\ op.ask \in Asks /\ op.ask.type \in OperationTypes
      /\ Collection(C) /\ length \in Lengths
  BY <1>1, OperationCollects DEF PacketInvariant
<1> HIDE DEF C
<1>3. packet \in Packets /\ Sound(packet, op.ask)
  BY <1>2, CompileIsSound
<1>4. /\ Total({c \in C : Mandatory(c)}) <= InputBudget[op.ask.type]
      /\ packet.items = Expected(C, op.ask.type, op.ask.remote).items
      /\ packet.exclusions = Expected(C, op.ask.type, op.ask.remote).exclusions
  BY <1>2, CompileIsExpected
<1> HIDE DEF packet
<1>5. /\ shown.packet = packet /\ shown.ask = op.ask /\ shown.target = op.target
      /\ shown.head = op.head /\ shown.textRev = op.textRev
  BY <1>1 DEF Running
<1> HIDE DEF shown
<1>6. Accounts(shown, C)
  BY <1>3, <1>4, <1>5 DEF Accounts, Sound
<1>7. InBudget(packet) /\ PromptAgrees(shown)
  BY <1>3, <1>5 DEF InBudget, PromptAgrees, Sound
<1>8. IsBound(shown)
  BY <1>5 DEF IsBound
<1> QED  BY <1>5, <1>6, <1>7, <1>8 DEF Confirms, C

\* The two compilers agree, whatever the project, the lengths and the budgets:
\* what the page compiles the host confirms if nothing has changed in between.
THEOREM CompilersAgree == CpSpec => []UndisturbedPacketIsConfirmed
<1>1. PacketInvariant => UndisturbedPacketIsConfirmed
  BY UndisturbedIsConfirmed
<1> QED  BY <1>1, PacketInvariantHolds, PTL

\* What the rules let through is current.
LEMMA ScoredIsCurrent ==
    ASSUME ProjectType, op \in Running,
           NEW c \in Scored(Collected(op.target, op.ask.around), op.ask.remote)
    PROVE  IsCurrent(c, op)
<1> DEFINE C == Collected(op.target, op.ask.around)
<1>1. op.target \in Chapters /\ op.ask.around \in SUBSET {"prefix", "suffix"}
  BY ContextConstants DEF Running
<1>2. c \in C /\ PageExclusion(c, op.ask.remote) = "none"
  BY DEF Scored
<1>3. /\ c \in Candidates
      /\ c.kind \in Texts => c = TextNow(c.kind, c.id) /\ c.id = op.target
      /\ c.kind = "structure" => c = StructureNow(c.id) /\ c.id = op.target
      /\ c.kind \in {"chapter", "whole"} =>
            c = SummaryNow(c.kind, c.id) /\ Ready(c.id)
      /\ c.kind \in {"knowledge", "style"} =>
            /\ c = ItemNow(c.kind, c.id) /\ c.id \in ItemIds
            /\ item[c.id].status # "absent"
  BY <1>1, <1>2, CollectedFields
<1>4. c.kind \in Texts \cup {"structure", "chapter", "whole", "knowledge", "style"}
  BY <1>3 DEF Candidates, Kinds, Texts
<1> HIDE DEF C
<1>5. CASE c.kind \in Texts
  <2>1. c.version = textRev[c.id] /\ c.id = op.target
    <3>1. TextNow(c.kind, c.id).version = textRev[c.id]
      BY DEF TextNow, Candidate
    <3> QED  BY <1>3, <1>5, <3>1
  <2> QED  BY <2>1, <1>5 DEF IsCurrent, Texts
<1>6. CASE c.kind = "structure"
  <2>1. c.version = docRev[c.id] /\ c.id = op.target
    <3>1. StructureNow(c.id).version = docRev[c.id]
      BY DEF StructureNow, Candidate
    <3> QED  BY <1>3, <1>6, <3>1
  <2> QED  BY <2>1, <1>6 DEF IsCurrent
<1>7. CASE c.kind \in {"chapter", "whole"}
  <2>1. c.version = summary[c.id] /\ queued[c.id] = 0
    <3>1. SummaryNow(c.kind, c.id).version = summary[c.id]
      BY DEF SummaryNow, Candidate
    <3> QED  BY <1>3, <1>7, <3>1 DEF Ready
  <2> QED  BY <2>1, <1>7 DEF IsCurrent
<1>8. CASE c.kind \in {"knowledge", "style"}
  <2>1. c.version = item[c.id].revision /\ c.status = item[c.id].status
    <3>1. ItemNow(c.kind, c.id).version = item[c.id].revision
      BY DEF ItemNow, Candidate
    <3>2. ItemNow(c.kind, c.id).status = item[c.id].status
      BY DEF ItemNow, Candidate
    <3> QED  BY <1>3, <1>8, <3>1, <3>2
  <2>2. c.status = "canonical"
    <3>1. c.status \notin {"archived", "rejected", "deleted"}
      BY <1>2 DEF PageExclusion
    <3>2. c.status \in Statuses
      BY <1>3 DEF Candidates
    <3>3. c.status # "absent"
      BY <1>3, <1>8, <2>1
    <3> QED  BY <3>1, <3>2, <3>3 DEF Statuses
  <2>3. item[c.id] \in [status : Statuses, revision : Nat]
    BY <1>3, <1>8 DEF ProjectType
  <2>4. item[c.id] = [status |-> "canonical", revision |-> c.version]
    BY <2>1, <2>2, <2>3
  <2>5. op.ask.remote => c.id \notin NeverSend
    BY <1>2, <1>8 DEF PageExclusion, IsPrivate
  <2> QED  BY <2>4, <2>5, <1>8 DEF IsCurrent
<1> QED  BY <1>4, <1>5, <1>6, <1>7, <1>8

-----------------------------------------------------------------------------
(* What was authorized, until it goes out *)

\* What the host lets go is what the rules let through.
LEMMA ConfirmedIsScored ==
    ASSUME ProjectType, op \in Running, Confirms(op), NEW c \in ToSet(op.packet.items)
    PROVE  c \in Scored(Collected(op.target, op.ask.around), op.ask.remote)
<1> DEFINE C == Collected(op.target, op.ask.around)
<1>1. Collection(C) /\ length \in Lengths /\ op.ask.type \in OperationTypes
  BY OperationCollects
<1>2. Accounts(op, C)
  BY DEF Confirms
<1> HIDE DEF C
<1>3. /\ Total({d \in C : Mandatory(d)}) <= InputBudget[op.ask.type]
      /\ op.packet.items = Expected(C, op.ask.type, op.ask.remote).items
  BY <1>2 DEF Accounts
<1>4. c \in Scored(C, op.ask.remote)
  BY <1>1, <1>3, ExpectedIsScored
<1> QED  BY <1>4 DEF C

Items == {"knowledge", "style"}
Summaries == {"chapter", "whole"}

\* Current, of what the head commit binds.
Held(c, o) ==
    /\ c.kind \in Kinds
    /\ c.kind \notin Items => IsCurrent(c, o)
    /\ c.kind \in Summaries => c.id \in Scopes

\* An operation began at the head or before it; what was authorized is held for
\* as long as its head is the head, and is nothing private to a remote model.
AuthorizationHolds ==
    /\ op.stage # "idle" => op.head <= head
    /\ op.stage = "authorized" =>
          \A c \in ToSet(op.packet.items) :
             ~(op.ask.remote /\ IsPrivate(c)) /\ (AtItsHead(op) => Held(c, op))

ContextInvariant == PacketInvariant /\ AuthorizationHolds

LEMMA ScoredIsHeld ==
    ASSUME ProjectType, op \in Running,
           NEW c \in Scored(Collected(op.target, op.ask.around), op.ask.remote)
    PROVE  ~(op.ask.remote /\ IsPrivate(c)) /\ Held(c, op)
<1>1. op.target \in Chapters /\ op.ask.around \in SUBSET {"prefix", "suffix"}
  BY ContextConstants DEF Running
<1>2. c \in Collected(op.target, op.ask.around) /\ PageExclusion(c, op.ask.remote) = "none"
  BY DEF Scored
<1>3. c.kind \in Kinds /\ (c.kind \in Summaries => c.id \in Scopes)
  BY <1>1, <1>2, CollectedFields DEF Summaries, Candidates
<1>4. ~(op.ask.remote /\ IsPrivate(c))
  BY <1>2 DEF PageExclusion
<1>5. IsCurrent(c, op)
  BY ScoredIsCurrent
<1> QED  BY <1>3, <1>4, <1>5 DEF Held

\* The check itself: the packet is that of the project as it is.
LEMMA AuthorizeHolds ==
    ASSUME PacketInvariant, AuthorizationHolds, Authorize
    PROVE  AuthorizationHolds'
<1>1. op.stage = "packed" /\ UNCHANGED <<projectVars, length>>
  BY DEF Authorize
<1>2. op \in Running /\ op.head <= head /\ ProjectType
  BY <1>1, StageRuns DEF PacketInvariant, AuthorizationHolds
<1>3. CASE op' = Idle
  BY <1>3 DEF Idle, AuthorizationHolds
<1>4. CASE Confirms(op) /\ op' = [op EXCEPT !.stage = "authorized"]
  <2>1. /\ op'.packet = op.packet /\ op'.ask = op.ask /\ op'.head = op.head
        /\ op'.target = op.target
    BY <1>2, <1>4 DEF Running
  <2>2. ASSUME NEW c \in ToSet(op.packet.items)
        PROVE  ~(op'.ask.remote /\ IsPrivate(c)) /\ Held(c, op)'
    <3>1. ~(op.ask.remote /\ IsPrivate(c)) /\ Held(c, op)
      BY <1>2, <1>4, ConfirmedIsScored, ScoredIsHeld
    <3> QED  BY <1>1, <2>1, <3>1 DEF Held, IsCurrent, projectVars
  <2>3. op'.head <= head'
    BY <1>1, <1>2, <2>1 DEF projectVars
  <2> QED  BY <2>1, <2>2, <2>3 DEF AuthorizationHolds
<1> QED  BY <1>3, <1>4 DEF Authorize

\* A commit moves the head past that of the operation.
LEMMA CommitHolds ==
    ASSUME PacketInvariant, AuthorizationHolds, head' = head + 1, op' = op
    PROVE  AuthorizationHolds'
<1>1. head \in Nat
  BY DEF PacketInvariant, ProjectType
<1>2. CASE op.stage = "idle"
  BY <1>2 DEF AuthorizationHolds
<1>3. CASE op.stage # "idle"
  <2>1. op.head \in Nat /\ op.head <= head
    BY <1>3, StageRuns DEF PacketInvariant, AuthorizationHolds, Running
  <2>2. op'.head <= head' /\ op'.head # head'
    BY <1>1, <2>1
  <2>3. ~AtItsHead(op)'
    BY <2>2 DEF AtItsHead
  <2> QED  BY <2>2, <2>3 DEF AuthorizationHolds, IsPrivate
<1> QED  BY <1>2, <1>3

\* A summary is made only of a scope that is queued, which no summary of the
\* packet is.
LEMMA SummarizeHolds ==
    ASSUME PacketInvariant, AuthorizationHolds, NEW s \in Scopes, Summarize(s)
    PROVE  AuthorizationHolds'
<1>1. /\ queued[s] # 0 /\ UNCHANGED <<head, textRev, docRev, item, op>>
      /\ summary' = [summary EXCEPT ![s] = queued[s]] /\ queued' = [queued EXCEPT ![s] = 0]
  BY DEF Summarize
<1>2. summary \in [Scopes -> Nat] /\ queued \in [Scopes -> Nat]
  BY DEF PacketInvariant, ProjectType
<1>3. ASSUME NEW c, Held(c, op) PROVE Held(c, op)'
  <2>1. CASE c.kind \in Summaries
    <3>1. c.id \in Scopes /\ c.version = summary[c.id] /\ queued[c.id] = 0
      BY <1>3, <2>1 DEF Held, IsCurrent, Summaries, Items
    <3>2. summary'[c.id] = summary[c.id] /\ queued'[c.id] = 0
      BY <1>1, <1>2, <3>1
    <3> QED  BY <1>3, <2>1, <3>1, <3>2 DEF Held, IsCurrent, Summaries
  <2>2. CASE c.kind \notin Summaries /\ c.kind \notin Items
    BY <1>1, <1>3, <2>2 DEF Held, IsCurrent, Summaries, Items
  <2>3. CASE c.kind \in Items
    BY <1>3, <2>3 DEF Held, Summaries, Items
  <2> QED  BY <2>1, <2>2, <2>3
<1>4. AtItsHead(op)' = AtItsHead(op) /\ op' = op /\ head' = head
  BY <1>1 DEF AtItsHead
<1> QED  BY <1>3, <1>4 DEF AuthorizationHolds, IsPrivate

\* The status of an item is nothing the head binds.
LEMMA ItemHolds ==
    ASSUME AuthorizationHolds, UNCHANGED <<head, textRev, docRev, summary, queued, op>>
    PROVE  AuthorizationHolds'
<1>1. ASSUME NEW c, Held(c, op) PROVE Held(c, op)'
  BY <1>1 DEF Held, IsCurrent, Items, Kinds
<1>2. AtItsHead(op)' = AtItsHead(op) /\ op' = op /\ head' = head
  BY DEF AtItsHead
<1> QED  BY <1>1, <1>2 DEF AuthorizationHolds, IsPrivate

LEMMA AuthorizationKeeps ==
    ASSUME PacketInvariant, AuthorizationHolds, [CpNext]_cpVars
    PROVE  AuthorizationHolds'
<1>1. CASE Begin
  <2>1. PICK target \in Chapters, ask \in Asks :
          op' = [ stage |-> "begun", target |-> target, head |-> head,
                  textRev |-> textRev[target], ask |-> ask, packet |-> NoPacket, attempts |-> 0 ]
    BY <1>1 DEF Begin
  <2>2. op'.head = head /\ op'.stage = "begun" /\ head' = head /\ head \in Nat
    BY <1>1, <2>1 DEF Begin, projectVars, PacketInvariant, ProjectType
  <2> QED  BY <2>2 DEF AuthorizationHolds
<1>2. CASE Collect \/ Execute \/ End
  <2>1. op.stage # "idle" /\ head' = head
    BY <1>2 DEF Collect, Execute, End, projectVars
  <2>2. op \in Running /\ op.head <= head
    BY <2>1, StageRuns DEF PacketInvariant, AuthorizationHolds
  <2>3. \/ op' = Idle
        \/ op'.stage = "packed" /\ op'.head = op.head
    BY <1>2, <2>2 DEF Collect, Execute, End, Running
  <2> QED  BY <2>1, <2>2, <2>3 DEF AuthorizationHolds, Idle
<1>3. CASE Authorize
  BY <1>3, AuthorizeHolds
<1>4. CASE \E c \in Chapters : Save(c) \/ Rename(c)
  BY <1>4, CommitHolds DEF Save, Rename
<1>5. CASE \E s \in Scopes : Summarize(s)
  BY <1>5, SummarizeHolds
<1>6. CASE \/ \E k \in Knowledge : CreateKnowledgeItem(k) \/ SetKnowledgeItemStatus(k)
           \/ \E s \in Styles : CreateStyleSample(s) \/ SetStyleSampleStatus(s)
  BY <1>6, ItemHolds DEF CreateKnowledgeItem, SetKnowledgeItemStatus,
                         CreateStyleSample, SetStyleSampleStatus
<1>7. CASE UNCHANGED cpVars
  BY <1>7, ItemHolds DEF cpVars
<1> QED  BY <1>1, <1>2, <1>3, <1>4, <1>5, <1>6, <1>7 DEF CpNext

THEOREM ContextInvariantHolds == CpSpec => []ContextInvariant
<1>1. CpInit => ContextInvariant
  BY InitIsSound DEF ContextInvariant, AuthorizationHolds, CpInit, Idle
<1>2. ContextInvariant /\ [CpNext]_cpVars => ContextInvariant'
  BY NextKeeps, AuthorizationKeeps DEF ContextInvariant
<1> QED  BY <1>1, <1>2, PTL DEF CpSpec

\* Only Authorize and Execute move between the two stages.
LEMMA StagesMove ==
    ASSUME PacketInvariant, [CpNext]_cpVars
    PROVE  /\ op.stage = "packed" /\ op'.stage = "authorized" => Confirms(op)
           /\ op.stage = "authorized" /\ op'.stage = "packed" => AtItsHead(op)
<1>1. op.stage # "idle" => op \in Running
  BY StageRuns DEF PacketInvariant
<1>2. CASE Begin
  BY <1>2 DEF Begin, Idle
<1>3. CASE Collect
  BY <1>3 DEF Collect
<1>4. CASE Authorize
  BY <1>4 DEF Authorize, Idle
<1>5. CASE Execute
  BY <1>5 DEF Execute, Idle
<1>6. CASE End
  BY <1>6 DEF End, Idle
<1>7. CASE \/ \E c \in Chapters : Save(c) \/ Rename(c)
           \/ \E s \in Scopes : Summarize(s)
           \/ \E k \in Knowledge : CreateKnowledgeItem(k) \/ SetKnowledgeItemStatus(k)
           \/ \E s \in Styles : CreateStyleSample(s) \/ SetStyleSampleStatus(s)
  <2>1. op' = op
    BY <1>7 DEF Save, Rename, Summarize, CreateKnowledgeItem, SetKnowledgeItemStatus,
                CreateStyleSample, SetStyleSampleStatus
  <2> QED  BY <2>1
<1>8. CASE UNCHANGED cpVars
  BY <1>8 DEF cpVars
<1> QED  BY <1>2, <1>3, <1>4, <1>5, <1>6, <1>7, <1>8 DEF CpNext

\* Whatever is authorized is what the project holds at that moment, for any
\* project: confirm_context_packet collects and compiles again at every attempt.
THEOREM AuthorizedContextIsCurrent == CpSpec => AuthorizedIsCurrent
<1>1. PacketInvariant /\ [CpNext]_cpVars =>
         [(op.stage = "packed" /\ op'.stage = "authorized")
            => \A c \in ToSet(op.packet.items) : IsCurrent(c, op)]_cpVars
  <2> SUFFICES ASSUME PacketInvariant, [CpNext]_cpVars,
                      op.stage = "packed", op'.stage = "authorized",
                      NEW c \in ToSet(op.packet.items)
               PROVE  IsCurrent(c, op)
    OBVIOUS
  <2>1. op \in Running /\ ProjectType
    BY StageRuns DEF PacketInvariant
  <2>2. Confirms(op)
    BY StagesMove
  <2> QED  BY <2>1, <2>2, ConfirmedIsScored, ScoredIsCurrent
<1> QED  BY <1>1, PacketInvariantHolds, PTL DEF CpSpec, AuthorizedIsCurrent

\* What goes out later is still the text, the structure and the summaries of the
\* project, and nothing private to a remote model, for any project: execution
\* compares the head, and nothing of these changes without it.
THEOREM SentContextIsCurrent == CpSpec => SentIsCurrent
<1>1. ContextInvariant /\ [CpNext]_cpVars =>
         [(op.stage = "authorized" /\ op'.stage = "packed")
            => \A c \in ToSet(op.packet.items) :
                  /\ c.kind \notin {"knowledge", "style"} => IsCurrent(c, op)
                  /\ ~(op.ask.remote /\ IsPrivate(c))]_cpVars
  <2> SUFFICES ASSUME ContextInvariant, [CpNext]_cpVars,
                      op.stage = "authorized", op'.stage = "packed",
                      NEW c \in ToSet(op.packet.items)
               PROVE  /\ c.kind \notin {"knowledge", "style"} => IsCurrent(c, op)
                      /\ ~(op.ask.remote /\ IsPrivate(c))
    OBVIOUS
  <2>1. AtItsHead(op)
    BY StagesMove DEF ContextInvariant
  <2>2. ~(op.ask.remote /\ IsPrivate(c)) /\ Held(c, op)
    BY <2>1 DEF ContextInvariant, AuthorizationHolds
  <2> QED  BY <2>2 DEF Held, Items
<1> QED  BY <1>1, ContextInvariantHolds, PTL DEF CpSpec, SentIsCurrent

=============================================================================
