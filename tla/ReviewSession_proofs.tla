------------------------ MODULE ReviewSession_proofs ------------------------
(***************************************************************************)
(* Reviewing proposals, for any proposals about texts of any length, any   *)
(* number of runs and windows and reviews of any length: what carrying out *)
(* hunks and replaying decisions compute, the invariant of the review, and *)
(* the theorems.                                                           *)
(***************************************************************************)
EXTENDS ReviewSession, OperationStore_proofs, FiniteSetTheorems, WellFoundedInduction

-----------------------------------------------------------------------------
(* Induction up to a number *)

\* A set of natural numbers that is not empty has a least element.
LEMMA Least ==
    ASSUME NEW S \in SUBSET Nat, S # {}
    PROVE  \E n \in S : \A m \in S : n <= m
<1>1. PICK n \in S : \A m \in S : <<m, n>> \notin OpToRel(<, Nat)
  BY NatLessThanWellFounded, WFMin
<1>2. \A m \in S : <<m, n>> \notin OpToRel(<, Nat) => n <= m
  BY DEF OpToRel
<1> QED  BY <1>1, <1>2

\* What holds of 0 and of the successor of whatever it holds of.
LEMMA UpTo ==
    ASSUME NEW N \in Nat, NEW S, 0 \in S, \A n \in 1 .. N : n - 1 \in S => n \in S
    PROVE  \A n \in 0 .. N : n \in S
<1> DEFINE T == {n \in 0 .. N : n \notin S}
<1> SUFFICES ASSUME T # {} PROVE FALSE
  OBVIOUS
<1>1. PICK n \in T : \A m \in T : n <= m
  <2>1. T \in SUBSET Nat
    OBVIOUS
  <2> HIDE DEF T
  <2> QED  BY <2>1, Least
<1>2. n # 0 /\ n - 1 \in 0 .. N /\ ~(n <= n - 1)
  BY <1>1
<1> QED  BY <1>1, <1>2

-----------------------------------------------------------------------------
(* Functions that a step extends from one number to the next *)

\* u is what n steps make of a base.
Extends(u, n, base, step) ==
    u = [k \in 0 .. n |-> IF k = 0 THEN base ELSE step[<<k, u[k - 1]>>]]

\* Such a function exists, and stays where the step leads.
LEMMA ExtensionExists ==
    ASSUME NEW N \in Nat, NEW V, NEW base \in V, NEW step \in [(1 .. N) \X V -> V]
    PROVE  \E u \in [0 .. N -> V] : Extends(u, N, base, step)
<1> DEFINE Extended(u, n) == u \in [0 .. n -> V] /\ Extends(u, n, base, step)
           S == {n \in 0 .. N : \E u : Extended(u, n)}
<1>1. 0 \in S
  <2>1. Extended([k \in 0 .. 0 |-> base], 0)
    BY DEF Extends
  <2> HIDE DEF Extended
  <2> QED  BY <2>1
<1>2. \A n \in 1 .. N : n - 1 \in S => n \in S
  <2> HIDE DEF Extended
  <2> SUFFICES ASSUME NEW n \in 1 .. N, n - 1 \in S
               PROVE  \E u : Extended(u, n)
    OBVIOUS
  <2>1. PICK u : Extended(u, n - 1)
    OBVIOUS
  <2> USE DEF Extended
  <2> DEFINE longer == [k \in 0 .. n |-> IF k = n THEN step[<<n, u[n - 1]>>] ELSE u[k]]
  <2>2. u[0] = base /\ \A k \in 1 .. n - 1 : u[k] = step[<<k, u[k - 1]>>]
    BY <2>1 DEF Extends
  <2>3. longer \in [0 .. n -> V]
    <3>1. u[n - 1] \in V
      BY <2>1
    <3>2. step[<<n, u[n - 1]>>] \in V
      BY <3>1
    <3>3. ASSUME NEW k \in 0 .. n, k # n PROVE u[k] \in V
      BY <2>1, <3>3
    <3> QED  BY <3>2, <3>3
  <2>4. \A k \in 1 .. n : k - 1 \in 0 .. n /\ longer[k - 1] = u[k - 1]
    OBVIOUS
  <2>5. \A k \in 0 .. n : longer[k] = IF k = 0 THEN base ELSE step[<<k, longer[k - 1]>>]
    <3>1. longer[0] = base
      BY <2>2
    <3>2. ASSUME NEW k \in 1 .. n PROVE longer[k] = step[<<k, u[k - 1]>>]
      <4>1. CASE k = n
        BY <4>1
      <4>2. CASE k # n
        <5>1. k \in 1 .. n - 1 /\ longer[k] = u[k]
          BY <4>2
        <5> HIDE DEF longer
        <5> QED  BY <5>1, <2>2
      <4> QED  BY <4>1, <4>2
    <3> HIDE DEF longer
    <3> QED  BY <2>4, <3>1, <3>2
  <2>6. Extends(longer, n, base, step)
    <3>1. longer = [k \in 0 .. n |-> longer[k]]
      BY <2>3
    <3> HIDE DEF longer
    <3>2. [k \in 0 .. n |-> longer[k]]
             = [k \in 0 .. n |-> IF k = 0 THEN base ELSE step[<<k, longer[k - 1]>>]]
      BY <2>5
    <3> QED  BY <3>1, <3>2 DEF Extends
  <2>7. Extended(longer, n)
    BY <2>3, <2>6
  <2> HIDE DEF Extended
  <2> QED  BY <2>7
<1>3. \A n \in 0 .. N : n \in S
  <2> HIDE DEF S
  <2> QED  BY <1>1, <1>2, UpTo
<1>4. N \in S
  BY <1>3
<1> HIDE DEF Extends
<1> QED  BY <1>4

-----------------------------------------------------------------------------
(* Offsets *)

\* The units of the first n + 1 characters are those of the first n and of one.
LEMMA UnitsAdd ==
    ASSUME NEW text \in Seq(Characters)
    PROVE  /\ Units(text, 0) = 0
           /\ \A n \in 1 .. Len(text) :
                 Units(text, n) = Units(text, n - 1) + Width(text[n])
           /\ \A n \in 0 .. Len(text) : Units(text, n) \in Nat
<1> DEFINE N == Len(text)
           step == [x \in (1 .. N) \X Nat |-> x[2] + Width(text[x[1]])]
           Is(u) == u = [k \in 0 .. N |-> IF k = 0 THEN 0 ELSE u[k - 1] + Width(text[k])]
           sum == CHOOSE u : Is(u)
<1>0. N \in Nat
  OBVIOUS
<1>1. step \in [(1 .. N) \X Nat -> Nat]
  BY DEF Width
<1>2. PICK u \in [0 .. N -> Nat] : Extends(u, N, 0, step)
  <2> HIDE DEF step, N
  <2> QED  BY <1>0, <1>1, ExtensionExists
<1>3. \A k \in 1 .. N : step[<<k, u[k - 1]>>] = u[k - 1] + Width(text[k])
  <2>1. \A k \in 1 .. N : u[k - 1] \in Nat
    BY <1>0
  <2> HIDE DEF N
  <2> QED  BY <2>1
<1>4. Is(u)
  <2>1. u = [k \in 0 .. N |-> IF k = 0 THEN 0 ELSE step[<<k, u[k - 1]>>]]
    BY <1>2 DEF Extends
  <2> HIDE DEF step, N
  <2>2. [k \in 0 .. N |-> IF k = 0 THEN 0 ELSE step[<<k, u[k - 1]>>]]
           = [k \in 0 .. N |-> IF k = 0 THEN 0 ELSE u[k - 1] + Width(text[k])]
    BY <1>0, <1>3
  <2> QED  BY <2>1, <2>2
<1>5. Is(sum)
  <2> HIDE DEF Is
  <2> QED  BY <1>4
<1>6. /\ sum[0] = 0
      /\ \A k \in 1 .. N : sum[k] = sum[k - 1] + Width(text[k])
  <2> HIDE DEF sum
  <2> QED  BY <1>5, <1>0
<1>7. \A n : Units(text, n) = sum[n]
  BY DEF Units
<1>8. \A n \in 0 .. N : sum[n] \in Nat
  <2> DEFINE S == {n \in 0 .. N : sum[n] \in Nat}
  <2>1. 0 \in S
    BY <1>6, <1>0
  <2>2. \A n \in 1 .. N : n - 1 \in S => n \in S
    <3> HIDE DEF sum
    <3>1. \A k \in 1 .. N : Width(text[k]) \in Nat
      BY DEF Width
    <3> QED  BY <1>6, <1>0, <3>1
  <2>3. \A n \in 0 .. N : n \in S
    <3> HIDE DEF S, N
    <3> QED  BY <2>1, <2>2, <1>0, UpTo
  <2> QED  BY <2>3
<1> HIDE DEF sum
<1> QED  BY <1>6, <1>7, <1>8

\* More characters have more units.
LEMMA UnitsGrow ==
    ASSUME NEW text \in Seq(Characters), NEW m \in 0 .. Len(text)
    PROVE  \A n \in 0 .. Len(text) : m < n => Units(text, m) < Units(text, n)
<1> DEFINE S == {n \in 0 .. Len(text) : m < n => Units(text, m) < Units(text, n)}
<1>0. Len(text) \in Nat
  OBVIOUS
<1>1. 0 \in S
  BY <1>0
<1>2. \A n \in 1 .. Len(text) : n - 1 \in S => n \in S
  <2> SUFFICES ASSUME NEW n \in 1 .. Len(text), n - 1 \in S, m < n
               PROVE  Units(text, m) < Units(text, n)
    OBVIOUS
  <2>1. /\ Units(text, n) = Units(text, n - 1) + Width(text[n])
        /\ Units(text, n - 1) \in Nat /\ Units(text, m) \in Nat
    BY UnitsAdd
  <2>2. Width(text[n]) \in {1, 2}
    BY DEF Width
  <2>3. m = n - 1 \/ Units(text, m) < Units(text, n - 1)
    OBVIOUS
  <2> QED  BY <2>1, <2>2, <2>3
<1>3. \A n \in 0 .. Len(text) : n \in S
  <2> HIDE DEF S
  <2> QED  BY <1>0, <1>1, <1>2, UpTo
<1> QED  BY <1>3

\* Texts that agree on their first characters agree on their units.
LEMMA UnitsAgree ==
    ASSUME NEW text \in Seq(Characters), NEW other \in Seq(Characters),
           NEW N \in 0 .. Len(text), N <= Len(other), \A n \in 1 .. N : other[n] = text[n]
    PROVE  \A n \in 0 .. N : Units(other, n) = Units(text, n)
<1> DEFINE S == {n \in 0 .. N : Units(other, n) = Units(text, n)}
<1>0. N \in Nat
  OBVIOUS
<1>1. 0 \in S
  BY UnitsAdd, <1>0
<1>2. \A n \in 1 .. N : n - 1 \in S => n \in S
  <2> SUFFICES ASSUME NEW n \in 1 .. N, n - 1 \in S
               PROVE  Units(other, n) = Units(text, n)
    OBVIOUS
  <2>1. n \in 1 .. Len(text) /\ n \in 1 .. Len(other)
    OBVIOUS
  <2> QED  BY <2>1, UnitsAdd
<1>3. \A n \in 0 .. N : n \in S
  <2> HIDE DEF S
  <2> QED  BY <1>0, <1>1, <1>2, UpTo
<1> QED  BY <1>3

\* The offset behind n characters is converted back to n.
LEMMA CharsOfUnits ==
    ASSUME NEW text \in Seq(Characters), NEW n \in 0 .. Len(text)
    PROVE  Chars(text, Units(text, n)) = n
<1> DEFINE behind == {k \in 1 .. Len(text) : Units(text, k) <= Units(text, n)}
<1>1. \A k \in 0 .. Len(text) : Units(text, k) \in Nat
  BY UnitsAdd
<1>2. behind = 1 .. n
  <2>1. ASSUME NEW k \in 1 .. Len(text), k <= n PROVE Units(text, k) <= Units(text, n)
    <3>1. k = n \/ Units(text, k) < Units(text, n)
      BY <2>1, UnitsGrow
    <3> QED  BY <3>1, <1>1
  <2>2. ASSUME NEW k \in 1 .. Len(text), ~(k <= n)
        PROVE  ~(Units(text, k) <= Units(text, n))
    <3>1. Units(text, n) < Units(text, k)
      BY <2>2, UnitsGrow
    <3> QED  BY <3>1, <1>1
  <2> QED  BY <2>1, <2>2
<1>3. Cardinality(1 .. n) = n
  BY FS_Interval
<1> QED  BY <1>2, <1>3 DEF Chars

-----------------------------------------------------------------------------
(* Carrying out hunks *)

LEMMA CharsInText ==
    ASSUME NEW text \in Seq(Characters), NEW offset
    PROVE  Chars(text, offset) \in 0 .. Len(text)
<1> DEFINE behind == {n \in 1 .. Len(text) : Units(text, n) <= offset}
<1>1. Len(text) \in Nat
  OBVIOUS
<1>2. IsFiniteSet(1 .. Len(text)) /\ Cardinality(1 .. Len(text)) = Len(text)
  BY SMTT(30), <1>1, FS_Interval
<1>3. behind \in SUBSET (1 .. Len(text))
  OBVIOUS
<1> HIDE DEF behind
<1>4. IsFiniteSet(behind) /\ Cardinality(behind) <= Len(text)
  BY <1>2, <1>3, FS_Subset
<1>5. Cardinality(behind) \in Nat
  BY <1>4, FS_CardinalityType
<1> QED  BY <1>1, <1>4, <1>5 DEF Chars, behind

LEMMA ReplaceIsText ==
    ASSUME NEW text \in Seq(Characters), NEW h, h.replacement \in Seq(Characters)
    PROVE  Replace(text, h) \in Seq(Characters)
<1> DEFINE left == SubSeq(text, 1, Chars(text, h.from))
           right == SubSeq(text, Chars(text, h.to) + 1, Len(text))
<1>1. Chars(text, h.from) \in 0 .. Len(text) /\ Chars(text, h.to) \in 0 .. Len(text)
  BY CharsInText
<1>2. left \in Seq(Characters)
  BY <1>1
<1>3. right \in Seq(Characters)
  BY <1>1
<1> HIDE DEF left, right
<1>4. (left \o h.replacement) \o right \in Seq(Characters)
  BY <1>2, <1>3
<1> QED  BY <1>4 DEF Replace, left, right

\* The texts in between.
LEMMA CarriedStep ==
    ASSUME NEW text \in Seq(Characters), NEW ids, NEW hunks \in Seq(HunkRecord(ids))
    PROVE  \E after \in [0 .. Len(hunks) -> Seq(Characters)] :
              /\ after[0] = text
              /\ \A k \in 1 .. Len(hunks) : after[k] = Replace(after[k - 1], hunks[k])
              /\ Carried(text, hunks) = after[Len(hunks)]
<1> DEFINE N == Len(hunks)
           T == Seq(Characters)
           step == [x \in (1 .. N) \X T |-> Replace(x[2], hunks[x[1]])]
           Is(u) == u = [k \in 0 .. N |-> IF k = 0 THEN text ELSE Replace(u[k - 1], hunks[k])]
           after == CHOOSE u : Is(u)
<1>0. N \in Nat /\ text \in T
  OBVIOUS
<1>1. \A k \in 1 .. N : hunks[k].replacement \in Seq(Characters)
  <2>1. \A k \in 1 .. N : hunks[k] \in HunkRecord(ids)
    OBVIOUS
  <2> QED  BY <2>1 DEF HunkRecord
<1>2. \A k \in 1 .. N, t \in T : Replace(t, hunks[k]) \in T
  BY <1>1, ReplaceIsText
<1>3. step \in [(1 .. N) \X T -> T]
  <2> HIDE DEF N, T
  <2> QED  BY <1>2
<1>4. PICK u \in [0 .. N -> T] : Extends(u, N, text, step)
  <2> HIDE DEF step, N, T
  <2> QED  BY <1>0, <1>3, ExtensionExists
<1>5. \A k \in 1 .. N : step[<<k, u[k - 1]>>] = Replace(u[k - 1], hunks[k])
  <2>1. \A k \in 1 .. N : u[k - 1] \in T
    <3> HIDE DEF T
    <3> QED  BY <1>0
  <2> HIDE DEF N, T
  <2> QED  BY <2>1
<1>6. Is(u)
  <2>1. u = [k \in 0 .. N |-> IF k = 0 THEN text ELSE step[<<k, u[k - 1]>>]]
    BY <1>4 DEF Extends
  <2> HIDE DEF step, N, T
  <2>2. [k \in 0 .. N |-> IF k = 0 THEN text ELSE step[<<k, u[k - 1]>>]]
           = [k \in 0 .. N |-> IF k = 0 THEN text ELSE Replace(u[k - 1], hunks[k])]
    BY <1>0, <1>5
  <2> QED  BY <2>1, <2>2
<1>7. Is(after)
  <2> HIDE DEF Is
  <2> QED  BY <1>6
<1>8. /\ after[0] = text
      /\ \A k \in 1 .. N : after[k] = Replace(after[k - 1], hunks[k])
  <2> HIDE DEF after, N
  <2> QED  BY <1>7, <1>0
<1>9. Carried(text, hunks) = after[N]
  BY DEF Carried
<1>10. \A n \in 0 .. N : after[n] \in T
  <2> HIDE DEF after, N, T
  <2> DEFINE S == {n \in 0 .. N : after[n] \in T}
  <2>1. 0 \in S
    BY <1>8, <1>0
  <2>2. ASSUME NEW n \in 1 .. N, n - 1 \in S PROVE n \in S
    <3>1. Replace(after[n - 1], hunks[n]) \in T
      BY <1>2, <2>2
    <3> QED  BY <1>8, <1>0, <3>1
  <2>3. \A n \in 0 .. N : n \in S
    <3> HIDE DEF S
    <3> QED  BY <2>1, <2>2, <1>0, UpTo
  <2> QED  BY <2>3
<1> HIDE DEF after, T
<1>11. after \in [0 .. N -> T]
  <2> DEFINE G(k) == IF k = 0 THEN text ELSE Replace(after[k - 1], hunks[k])
  <2>1. after = [k \in 0 .. N |-> G(k)]
    BY <1>7
  <2> HIDE DEF N, G
  <2> QED  BY <2>1, <1>10
<1> QED  BY <1>8, <1>9, <1>11 DEF T

\* The parts in between, and the last one.
Stop(text, hunks, n) == IF n = 0 THEN 0 ELSE Chars(text, hunks[n].to)

LEMMA SplicedStep ==
    ASSUME NEW text \in Seq(Characters), NEW ids, NEW hunks \in Seq(HunkRecord(ids))
    PROVE  \E part \in [0 .. Len(hunks) -> Seq(Characters)] :
              /\ part[0] = << >>
              /\ \A k \in 1 .. Len(hunks) : part[k] =
                    part[k - 1]
                      \o SubSeq(text, Stop(text, hunks, k - 1) + 1, Chars(text, hunks[k].from))
                      \o hunks[k].replacement
              /\ Spliced(text, hunks) =
                    part[Len(hunks)]
                      \o SubSeq(text, Stop(text, hunks, Len(hunks)) + 1, Len(text))
<1> DEFINE N == Len(hunks)
           T == Seq(Characters)
           Piece(k) == SubSeq(text, Stop(text, hunks, k - 1) + 1, Chars(text, hunks[k].from))
           More(t, k) == t \o Piece(k) \o hunks[k].replacement
           step == [x \in (1 .. N) \X T |-> More(x[2], x[1])]
           Is(u) == u = [k \in 0 .. N |-> IF k = 0 THEN << >> ELSE More(u[k - 1], k)]
           part == CHOOSE u : Is(u)
<1>0. N \in Nat /\ << >> \in T
  OBVIOUS
<1>1. \A k \in 1 .. N : hunks[k].replacement \in Seq(Characters)
  <2>1. \A k \in 1 .. N : hunks[k] \in HunkRecord(ids)
    OBVIOUS
  <2> QED  BY <2>1 DEF HunkRecord
<1>2. \A k \in 1 .. N, t \in T : More(t, k) \in T
  <2> SUFFICES ASSUME NEW k \in 1 .. N, NEW t \in T PROVE More(t, k) \in T
    OBVIOUS
  <2>1. /\ Stop(text, hunks, k - 1) \in 0 .. Len(text)
        /\ Chars(text, hunks[k].from) \in 0 .. Len(text)
    BY CharsInText DEF Stop
  <2>2. Piece(k) \in T
    BY <2>1
  <2>3. hunks[k].replacement \in T
    BY <1>1
  <2> HIDE DEF Piece
  <2> QED  BY <2>2, <2>3
<1> HIDE DEF More
<1>3. step \in [(1 .. N) \X T -> T]
  <2> HIDE DEF N, T
  <2> QED  BY <1>2
<1>4. PICK u \in [0 .. N -> T] : Extends(u, N, << >>, step)
  <2> HIDE DEF step, N, T
  <2> QED  BY <1>0, <1>3, ExtensionExists
<1>5. \A k \in 1 .. N : step[<<k, u[k - 1]>>] = More(u[k - 1], k)
  <2>1. \A k \in 1 .. N : u[k - 1] \in T
    <3> HIDE DEF T
    <3> QED  BY <1>0
  <2> HIDE DEF N, T
  <2> QED  BY <2>1
<1>6. Is(u)
  <2>1. u = [k \in 0 .. N |-> IF k = 0 THEN << >> ELSE step[<<k, u[k - 1]>>]]
    BY <1>4 DEF Extends
  <2> HIDE DEF step, N, T
  <2>2. [k \in 0 .. N |-> IF k = 0 THEN << >> ELSE step[<<k, u[k - 1]>>]]
           = [k \in 0 .. N |-> IF k = 0 THEN << >> ELSE More(u[k - 1], k)]
    BY <1>0, <1>5
  <2> QED  BY <2>1, <2>2
<1>7. Is(part)
  <2> HIDE DEF Is
  <2> QED  BY <1>6
<1>8. /\ part[0] = << >>
      /\ \A k \in 1 .. N : part[k] = More(part[k - 1], k)
  <2> HIDE DEF part, N
  <2> QED  BY <1>7, <1>0
<1>9. Spliced(text, hunks)
         = part[N] \o SubSeq(text, Stop(text, hunks, N) + 1, Len(text))
  BY DEF Spliced, Stop, More
<1>10. \A n \in 0 .. N : part[n] \in T
  <2> HIDE DEF part, N, T
  <2> DEFINE S == {n \in 0 .. N : part[n] \in T}
  <2>1. 0 \in S
    BY <1>8, <1>0
  <2>2. ASSUME NEW n \in 1 .. N, n - 1 \in S PROVE n \in S
    <3>1. More(part[n - 1], n) \in T
      BY <1>2, <2>2
    <3> QED  BY <1>8, <1>0, <3>1
  <2>3. \A n \in 0 .. N : n \in S
    <3> HIDE DEF S
    <3> QED  BY <2>1, <2>2, <1>0, UpTo
  <2> QED  BY <2>3
<1> HIDE DEF part, T
<1>11. part \in [0 .. N -> T]
  <2> DEFINE G(k) == IF k = 0 THEN << >> ELSE More(part[k - 1], k)
  <2>1. part = [k \in 0 .. N |-> G(k)]
    BY <1>7
  <2> HIDE DEF N, G
  <2> QED  BY <2>1, <1>10
<1> QED  BY <1>8, <1>9, <1>11 DEF T, More

\* Some of the hunks: in the same order, and nothing but these.
LEMMA ThoseStep ==
    ASSUME NEW ids, NEW hunks \in Seq(HunkRecord(ids)), NEW chosen
    PROVE  \E kept \in [0 .. Len(hunks) -> Seq(HunkRecord(ids))] :
              /\ kept[0] = << >>
              /\ \A k \in 1 .. Len(hunks) : kept[k] =
                    IF hunks[k].id \in chosen THEN Append(kept[k - 1], hunks[k])
                    ELSE kept[k - 1]
              /\ Those(hunks, chosen) = kept[Len(hunks)]
<1> DEFINE N == Len(hunks)
           T == Seq(HunkRecord(ids))
           More(t, k) == IF hunks[k].id \in chosen THEN Append(t, hunks[k]) ELSE t
           step == [x \in (1 .. N) \X T |-> More(x[2], x[1])]
           Is(u) == u = [k \in 0 .. N |-> IF k = 0 THEN << >> ELSE More(u[k - 1], k)]
           kept == CHOOSE u : Is(u)
<1>0. N \in Nat /\ << >> \in T
  OBVIOUS
<1>1. \A k \in 1 .. N : hunks[k] \in HunkRecord(ids)
  OBVIOUS
<1>2. \A k \in 1 .. N, t \in T : More(t, k) \in T
  <2> SUFFICES ASSUME NEW k \in 1 .. N, NEW t \in T PROVE More(t, k) \in T
    OBVIOUS
  <2>1. Append(t, hunks[k]) \in T
    BY <1>1
  <2> HIDE DEF T
  <2> QED  BY <2>1
<1> HIDE DEF More
<1>3. step \in [(1 .. N) \X T -> T]
  <2> HIDE DEF N, T
  <2> QED  BY <1>2
<1>4. PICK u \in [0 .. N -> T] : Extends(u, N, << >>, step)
  <2> HIDE DEF step, N, T
  <2> QED  BY <1>0, <1>3, ExtensionExists
<1>5. \A k \in 1 .. N : step[<<k, u[k - 1]>>] = More(u[k - 1], k)
  <2>1. \A k \in 1 .. N : u[k - 1] \in T
    <3> HIDE DEF T
    <3> QED  BY <1>0
  <2> HIDE DEF N, T
  <2> QED  BY <2>1
<1>6. Is(u)
  <2>1. u = [k \in 0 .. N |-> IF k = 0 THEN << >> ELSE step[<<k, u[k - 1]>>]]
    BY <1>4 DEF Extends
  <2> HIDE DEF step, N, T
  <2>2. [k \in 0 .. N |-> IF k = 0 THEN << >> ELSE step[<<k, u[k - 1]>>]]
           = [k \in 0 .. N |-> IF k = 0 THEN << >> ELSE More(u[k - 1], k)]
    BY <1>0, <1>5
  <2> QED  BY <2>1, <2>2
<1>7. Is(kept)
  <2> HIDE DEF Is
  <2> QED  BY <1>6
<1>8. /\ kept[0] = << >>
      /\ \A k \in 1 .. N : kept[k] = More(kept[k - 1], k)
  <2> HIDE DEF kept, N
  <2> QED  BY <1>7, <1>0
<1>9. Those(hunks, chosen) = kept[N]
  <2>1. kept = CHOOSE w : w = [k \in 0 .. N |->
                  IF k = 0 THEN << >>
                  ELSE IF hunks[k].id \in chosen THEN Append(w[k - 1], hunks[k])
                  ELSE w[k - 1]]
    BY Zenon DEF More
  <2> HIDE DEF kept
  <2> QED  BY <2>1, Zenon DEF Those
<1>10. \A n \in 0 .. N : kept[n] \in T
  <2> HIDE DEF kept, N, T
  <2> DEFINE S == {n \in 0 .. N : kept[n] \in T}
  <2>1. 0 \in S
    BY <1>8, <1>0
  <2>2. ASSUME NEW n \in 1 .. N, n - 1 \in S PROVE n \in S
    <3>1. More(kept[n - 1], n) \in T
      BY <1>2, <2>2
    <3> QED  BY <1>8, <1>0, <3>1
  <2>3. \A n \in 0 .. N : n \in S
    <3> HIDE DEF S
    <3> QED  BY <2>1, <2>2, <1>0, UpTo
  <2> QED  BY <2>3
<1> HIDE DEF kept, T
<1>11. kept \in [0 .. N -> T]
  <2> DEFINE G(k) == IF k = 0 THEN << >> ELSE More(kept[k - 1], k)
  <2>1. kept = [k \in 0 .. N |-> G(k)]
    BY <1>7
  <2> HIDE DEF N, G
  <2> QED  BY <2>1, <1>10
<1> QED  BY <1>8, <1>9, <1>11 DEF T, More

\* What orders two hunks of a proposal.
Apart(left, right) == left.to <= right.from /\ Before(right, left)

Ordered(hunks) == \A i, j \in 1 .. Len(hunks) : i < j => Apart(hunks[i], hunks[j])

\* The hunks lie on characters of the text, one after the other.
Placed(text, hunks) ==
    /\ \A i \in 1 .. Len(hunks) :
          /\ IsBoundary(text, hunks[i].from) /\ IsBoundary(text, hunks[i].to)
          /\ hunks[i].from <= hunks[i].to
    /\ Ordered(hunks)

LEMMA ThoseArePlaced ==
    ASSUME NEW text, NEW ids, NEW hunks \in Seq(HunkRecord(ids)), NEW chosen,
           Placed(text, hunks)
    PROVE  /\ Those(hunks, chosen) \in Seq(HunkRecord(ids))
           /\ Placed(text, Those(hunks, chosen))
<1> DEFINE N == Len(hunks)
           T == Seq(HunkRecord(ids))
           Part(s, n) == \A i \in 1 .. Len(s) : \E m \in 1 .. n : s[i] = hunks[m]
<1>1. PICK kept \in [0 .. N -> T] :
          /\ kept[0] = << >>
          /\ \A k \in 1 .. N : kept[k] = IF hunks[k].id \in chosen
                                         THEN Append(kept[k - 1], hunks[k]) ELSE kept[k - 1]
          /\ Those(hunks, chosen) = kept[N]
  BY ThoseStep
<1>2. N \in Nat /\ \A k \in 1 .. N : hunks[k] \in HunkRecord(ids)
  OBVIOUS
<1>3. \A n \in 0 .. N : kept[n] \in T
  OBVIOUS
<1> DEFINE S == {n \in 0 .. N : Part(kept[n], n) /\ Ordered(kept[n])}
<1>4. 0 \in S
  <2>1. 1 .. Len(kept[0]) = {}
    BY <1>1
  <2>2. Part(kept[0], 0) /\ Ordered(kept[0])
    BY <2>1, Zenon DEF Ordered
  <2> QED  BY <1>2, <2>2
<1>5. ASSUME NEW n \in 1 .. N, n - 1 \in S PROVE n \in S
  <2> DEFINE old == kept[n - 1]
  <2>1. old \in T /\ Len(old) \in Nat
    BY <1>3
  <2>2. Part(old, n - 1) /\ Ordered(old)
    BY <1>5
  <2> HIDE DEF old
  <2>3. Part(old, n)
    <3>1. \A m \in 1 .. n - 1 : m \in 1 .. n
      OBVIOUS
    <3> QED  BY <2>2, <3>1
  <2>4. CASE hunks[n].id \in chosen
    <3>1. kept[n] = Append(old, hunks[n])
      BY <1>1, <2>4 DEF old
    <3>2. /\ Len(kept[n]) = Len(old) + 1
          /\ \A i \in 1 .. Len(old) : kept[n][i] = old[i]
          /\ kept[n][Len(old) + 1] = hunks[n]
      BY <3>1, <2>1, <1>2, AppendProperties
    <3>3. ASSUME NEW i \in 1 .. Len(kept[n])
          PROVE  \/ i \in 1 .. Len(old) /\ kept[n][i] = old[i]
                 \/ i = Len(old) + 1 /\ kept[n][i] = hunks[n]
      <4>1. i \in 1 .. Len(old) \/ i = Len(old) + 1
        BY <3>2, <2>1
      <4>2. CASE i \in 1 .. Len(old)
        <5>1. kept[n][i] = old[i]
          BY <4>2, <3>2, Zenon
        <5> QED  BY <4>2, <5>1, Zenon
      <4>3. CASE i = Len(old) + 1
        BY <4>3, <3>2
      <4> QED  BY <4>1, <4>2, <4>3
    <3>4. Part(kept[n], n)
      <4>1. n \in 1 .. n
        OBVIOUS
      <4> QED  BY <3>3, <2>3, <4>1
    <3>5. ASSUME NEW i \in 1 .. Len(old) PROVE Apart(old[i], hunks[n])
      <4>1. PICK m \in 1 .. n - 1 : old[i] = hunks[m]
        BY <2>2
      <4>2. m \in 1 .. N /\ m < n
        BY <1>2
      <4> QED  BY <4>1, <4>2 DEF Placed, Ordered
    <3>6. Ordered(kept[n])
      <4> SUFFICES ASSUME NEW i \in 1 .. Len(kept[n]), NEW j \in 1 .. Len(kept[n]), i < j
                   PROVE  Apart(kept[n][i], kept[n][j])
        BY DEF Ordered
      <4>1. i \in 1 .. Len(old)
        BY <3>2, <2>1
      <4>2. CASE j \in 1 .. Len(old)
        BY <4>1, <4>2, <2>2, <3>2 DEF Ordered
      <4>3. CASE j = Len(old) + 1
        BY <4>1, <4>3, <3>2, <3>5
      <4> QED  BY <4>2, <4>3, <3>3
    <3> QED  BY <3>4, <3>6
  <2>5. CASE hunks[n].id \notin chosen
    <3>1. kept[n] = old
      BY <1>1, <2>5 DEF old
    <3> QED  BY <3>1, <2>2, <2>3
  <2> QED  BY <2>4, <2>5
<1>6. \A n \in 0 .. N : n \in S
  <2> HIDE DEF S
  <2> QED  BY <1>2, <1>4, <1>5, UpTo
<1>7. Part(kept[N], N) /\ Ordered(kept[N])
  BY <1>2, <1>6
<1> DEFINE those == kept[N]
<1>8. those \in T /\ Those(hunks, chosen) = those /\ Ordered(those) /\ Part(those, N)
  <2>1. those \in T
    BY <1>2, <1>3
  <2>2. Those(hunks, chosen) = those
    BY <1>1
  <2> QED  BY <2>1, <2>2, <1>7, Zenon
<1> HIDE DEF those
<1>9. ASSUME NEW i \in 1 .. Len(those)
      PROVE  /\ IsBoundary(text, those[i].from) /\ IsBoundary(text, those[i].to)
             /\ those[i].from <= those[i].to
  <2>1. PICK m \in 1 .. N : those[i] = hunks[m]
    BY <1>8
  <2> QED  BY <2>1 DEF Placed
<1> QED  BY <1>8, <1>9 DEF Placed

\* validate_proposal_hunks compares neighbours only; that makes any two apart.
LEMMA ValidArePlaced ==
    ASSUME NEW text, NEW ids, NEW hunks \in Seq(HunkRecord(ids)), NEW target,
           ValidHunks(text, target, hunks)
    PROVE  Placed(text, hunks)
<1> DEFINE N == Len(hunks)
<1>1. N \in Nat /\ DOMAIN hunks = 1 .. N
  OBVIOUS
<1>2. \A i \in 1 .. N : hunks[i].from \in Nat /\ hunks[i].to \in Nat
  <2>1. \A k \in 1 .. N : hunks[k] \in HunkRecord(ids)
    OBVIOUS
  <2> QED  BY <2>1 DEF HunkRecord
<1>3. \A i \in 1 .. N :
         /\ IsBoundary(text, hunks[i].from) /\ IsBoundary(text, hunks[i].to)
         /\ hunks[i].from <= hunks[i].to
         /\ i > 1 => /\ hunks[i].from >= hunks[i - 1].to
                     /\ ~(IsInsertion(hunks[i]) /\ IsInsertion(hunks[i - 1])
                            /\ hunks[i].from = hunks[i - 1].from)
  BY <1>1, Zenon DEF ValidHunks
<1> HIDE DEF N
<1>4. ASSUME NEW i \in 1 .. N PROVE \A j \in 0 .. N : i < j => hunks[i].to <= hunks[j].from
  <2> DEFINE S == {j \in 0 .. N : i < j => hunks[i].to <= hunks[j].from}
  <2>1. 0 \in S
    BY <1>1
  <2>2. ASSUME NEW j \in 1 .. N, j - 1 \in S PROVE j \in S
    <3> SUFFICES ASSUME i < j PROVE hunks[i].to <= hunks[j].from
      OBVIOUS
    <3>1. j > 1 /\ hunks[j].from >= hunks[j - 1].to /\ j - 1 \in 1 .. N
      BY <1>1, <1>3
    <3>2. CASE i = j - 1
      BY <3>1, <3>2, <1>2
    <3>3. CASE i # j - 1
      <4>1. hunks[i].to <= hunks[j - 1].from
        BY <2>2, <3>3
      <4> QED  BY <4>1, <3>1, <1>2, <1>3
    <3> QED  BY <3>2, <3>3
  <2>3. \A j \in 0 .. N : j \in S
    <3> HIDE DEF S
    <3> QED  BY <1>1, <2>1, <2>2, UpTo
  <2> QED  BY <2>3
<1>5. ASSUME NEW i \in 1 .. N, NEW j \in 1 .. N, i < j
      PROVE  Before(hunks[j], hunks[i])
  <2>1. /\ hunks[i].from <= hunks[i].to /\ hunks[i].to <= hunks[j].from
        /\ hunks[j].from <= hunks[j].to
    BY <1>3, <1>4, <1>5, <1>1
  <2> SUFFICES ASSUME ~Before(hunks[j], hunks[i]) PROVE FALSE
    OBVIOUS
  <2>2. /\ hunks[j].from = hunks[i].from /\ hunks[j].to = hunks[i].to
        /\ hunks[i].to = hunks[i].from
    BY <2>1, <1>2 DEF Before
  <2>3. i + 1 \in 1 .. N /\ i + 1 > 1 /\ i + 1 <= j /\ (i + 1) - 1 = i
    BY <1>1, <1>5
  <2>4. /\ hunks[i].to <= hunks[i + 1].from /\ hunks[i + 1].from <= hunks[i + 1].to
    BY <2>3, <1>3
  <2>5. hunks[i + 1].to <= hunks[j].to
    <3>1. CASE i + 1 = j
      BY <3>1, <1>2
    <3>2. CASE i + 1 # j
      <4>1. hunks[i + 1].to <= hunks[j].from
        BY <3>2, <2>3, <1>4
      <4> QED  BY <4>1, <2>1, <2>3, <1>2
    <3> QED  BY <3>1, <3>2
  <2>6. hunks[i + 1].from = hunks[i].from /\ hunks[i + 1].to = hunks[i + 1].from
    BY <2>2, <2>4, <2>5, <2>3, <1>2
  <2>7. IsInsertion(hunks[i + 1]) /\ IsInsertion(hunks[i])
    BY <2>2, <2>6 DEF IsInsertion
  <2> QED  BY <2>3, <2>6, <2>7, <1>3
<1>6. Ordered(hunks)
  <2>1. ASSUME NEW i \in 1 .. N, NEW j \in 1 .. N, i < j
        PROVE  Apart(hunks[i], hunks[j])
    BY <2>1, <1>1, <1>4, <1>5 DEF Apart
  <2> QED  BY <2>1 DEF Ordered, N
<1> QED  BY <1>3, <1>6 DEF Placed, N

\* Sorting by offset, downwards, turns the order around.
LEMMA DescendingReverses ==
    ASSUME NEW ids, NEW hunks \in Seq(HunkRecord(ids)), Ordered(hunks)
    PROVE  /\ Descending(hunks) \in Seq(HunkRecord(ids))
           /\ Len(Descending(hunks)) = Len(hunks)
           /\ \A i \in 1 .. Len(hunks) : Descending(hunks)[i] = hunks[Len(hunks) + 1 - i]
<1> DEFINE N == Len(hunks)
           sorts(order) == \A i, j \in 1 .. N : i < j =>
              order[i] # order[j] /\ ~Before(hunks[order[j]], hunks[order[i]])
           order == CHOOSE o \in [1 .. N -> 1 .. N] : sorts(o)
           rev == [i \in 1 .. N |-> N + 1 - i]
<1>1. N \in Nat /\ DOMAIN hunks = 1 .. N
  OBVIOUS
<1>2. \A i \in 1 .. N : hunks[i] \in HunkRecord(ids) /\ hunks[i].from \in Nat /\ hunks[i].to \in Nat
  <2>1. \A i \in 1 .. N : hunks[i] \in HunkRecord(ids)
    OBVIOUS
  <2> QED  BY <2>1 DEF HunkRecord
<1>3. ASSUME NEW i \in 1 .. N, NEW j \in 1 .. N, i < j
      PROVE  Before(hunks[j], hunks[i]) /\ ~Before(hunks[i], hunks[j])
  <2>1. Before(hunks[j], hunks[i])
    BY <1>3 DEF Ordered, Apart
  <2> QED  BY <2>1, <1>2 DEF Before
<1>4. rev \in [1 .. N -> 1 .. N] /\ sorts(rev)
  <2>1. rev \in [1 .. N -> 1 .. N]
    BY <1>1
  <2>2. ASSUME NEW i \in 1 .. N, NEW j \in 1 .. N, i < j
        PROVE  rev[i] # rev[j] /\ ~Before(hunks[rev[j]], hunks[rev[i]])
    <3>1. rev[i] \in 1 .. N /\ rev[j] \in 1 .. N /\ rev[j] < rev[i]
      BY <2>2, <1>1
    <3> HIDE DEF rev, N
    <3> QED  BY <3>1, <1>3, <1>1
  <2> QED  BY <2>1, <2>2
<1>5. order \in [1 .. N -> 1 .. N] /\ sorts(order)
  <2> HIDE DEF sorts, rev, N
  <2> QED  BY <1>4
<1>6. Descending(hunks) = [i \in 1 .. N |-> hunks[order[i]]]
  BY <1>1 DEF Descending
<1> HIDE DEF order, rev, N
<1>7. ASSUME NEW i \in 1 .. N, NEW j \in 1 .. N, i < j
      PROVE  order[j] < order[i]
  <2>1. /\ order[i] \in 1 .. N /\ order[j] \in 1 .. N /\ order[i] # order[j]
        /\ ~Before(hunks[order[j]], hunks[order[i]])
    BY <1>5, <1>7
  <2>2. ~(order[i] < order[j])
    BY <2>1, <1>3
  <2> QED  BY <2>1, <2>2, <1>1
<1>8. \A k \in 0 .. N : k # 0 => order[k] <= N + 1 - k
  <2> DEFINE S == {k \in 0 .. N : k # 0 => order[k] <= N + 1 - k}
  <2>1. 0 \in S
    BY <1>1
  <2>2. ASSUME NEW k \in 1 .. N, k - 1 \in S PROVE k \in S
    <3>1. order[k] \in 1 .. N
      BY <1>5
    <3>2. CASE k = 1
      BY <3>1, <3>2, <1>1
    <3>3. CASE k # 1
      <4>1. k - 1 \in 1 .. N /\ k - 1 < k
        BY <3>3, <1>1
      <4>2. order[k] < order[k - 1] /\ order[k - 1] \in 1 .. N
        BY <4>1, <1>5, <1>7
      <4> QED  BY <4>1, <4>2, <3>1, <2>2, <1>1
    <3> QED  BY <3>2, <3>3
  <2>3. \A k \in 0 .. N : k \in S
    <3> HIDE DEF S
    <3> QED  BY <1>1, <2>1, <2>2, UpTo
  <2> QED  BY <2>3
<1>9. \A k \in 0 .. N : k # N => k + 1 <= order[N - k]
  <2> DEFINE S == {k \in 0 .. N : k # N => k + 1 <= order[N - k]}
  <2>1. 0 \in S
    <3>1. N # 0 => order[N] \in 1 .. N
      BY <1>1, <1>5
    <3> QED  BY <3>1, <1>1
  <2>2. ASSUME NEW k \in 1 .. N, k - 1 \in S PROVE k \in S
    <3> SUFFICES ASSUME k # N PROVE k + 1 <= order[N - k]
      BY <1>1
    <3>1. N - k \in 1 .. N /\ N - (k - 1) \in 1 .. N /\ N - k < N - (k - 1) /\ k - 1 # N
      BY <1>1
    <3>2. order[N - (k - 1)] < order[N - k]
      BY <3>1, <1>7
    <3>3. order[N - (k - 1)] \in 1 .. N /\ order[N - k] \in 1 .. N
      BY <3>1, <1>5
    <3>4. (k - 1) + 1 <= order[N - (k - 1)]
      BY <2>2, <3>1
    <3> QED  BY <3>2, <3>3, <3>4, <1>1
  <2>3. \A k \in 0 .. N : k \in S
    <3> HIDE DEF S
    <3> QED  BY <1>1, <2>1, <2>2, UpTo
  <2> QED  BY <2>3
<1>10. ASSUME NEW i \in 1 .. N PROVE order[i] = N + 1 - i
  <2>1. order[i] <= N + 1 - i
    BY <1>8, <1>1
  <2>2. N - i \in 0 .. N /\ N - i # N /\ N - (N - i) = i
    BY <1>1
  <2>3. (N - i) + 1 <= order[i]
    BY <2>2, <1>9
  <2>4. order[i] \in 1 .. N
    BY <1>5
  <2> QED  BY <2>1, <2>3, <2>4, <1>1
<1>11. \A i \in 1 .. N : N + 1 - i \in 1 .. N
  BY <1>1
<1>12. Descending(hunks) = [i \in 1 .. N |-> hunks[N + 1 - i]]
  BY <1>6, <1>10
<1>13. /\ [i \in 1 .. N |-> hunks[N + 1 - i]] \in Seq(HunkRecord(ids))
       /\ Len([i \in 1 .. N |-> hunks[N + 1 - i]]) = N
  <2>1. \A i \in 1 .. N : hunks[N + 1 - i] \in HunkRecord(ids)
    BY <1>2, <1>11
  <2> QED  BY <2>1, <1>1
<1> QED  BY <1>12, <1>13 DEF N

LEMMA BoundaryChars ==
    ASSUME NEW text \in Seq(Characters), NEW offset, IsBoundary(text, offset)
    PROVE  /\ Chars(text, offset) \in 0 .. Len(text)
           /\ Units(text, Chars(text, offset)) = offset
<1>1. PICK n \in 0 .. Len(text) : Units(text, n) = offset
  BY DEF IsBoundary
<1>2. Chars(text, offset) = n
  BY <1>1, CharsOfUnits
<1> QED  BY <1>1, <1>2

LEMMA CharsGrow ==
    ASSUME NEW text \in Seq(Characters), NEW left, NEW right,
           IsBoundary(text, left), IsBoundary(text, right), left <= right
    PROVE  Chars(text, left) <= Chars(text, right)
<1> DEFINE m == Chars(text, left)
           n == Chars(text, right)
<1>1. m \in 0 .. Len(text) /\ n \in 0 .. Len(text)
  BY BoundaryChars
<1>2. Units(text, m) = left /\ Units(text, n) = right
  BY BoundaryChars
<1>3. left \in Nat /\ right \in Nat
  BY <1>1, <1>2, UnitsAdd
<1> HIDE DEF m, n
<1>4. n < m => right < left
  BY <1>1, <1>2, UnitsGrow
<1>5. m <= n
  BY <1>1, <1>3, <1>4
<1> QED  BY <1>5 DEF m, n

LEMMA Associates ==
    \A S : \A s, t, u \in Seq(S) : (s \o t) \o u = s \o (t \o u)
BY ConcatAssociative

\* The characters between two places exchanged for new ones.
Exchange(old, a, b, new) == SubSeq(old, 1, a) \o new \o SubSeq(old, b + 1, Len(old))

\* One hunk carried out: what comes before it stays, and the parts so far with
\* the rest of the text are what they were with the hunk and its rest.
CarriedBefore(text, part, stop, a, b, new, old, next) ==
    /\ next \in Seq(Characters) /\ stop <= Len(next)
    /\ \A m \in 1 .. stop : next[m] = text[m]
    /\ part \o SubSeq(next, stop + 1, Len(next))
         = (part \o SubSeq(text, stop + 1, a) \o new) \o SubSeq(old, b + 1, Len(old))

LEMMA SpliceOne ==
    ASSUME NEW text \in Seq(Characters), NEW old \in Seq(Characters),
           NEW new \in Seq(Characters), NEW part \in Seq(Characters),
           NEW stop \in Nat, NEW a \in Nat, NEW b \in Nat,
           stop <= a, a <= b, b <= Len(text), b <= Len(old),
           \A m \in 1 .. b : old[m] = text[m]
    PROVE  CarriedBefore(text, part, stop, a, b, new, old, Exchange(old, a, b, new))
<1> DEFINE T == Seq(Characters)
           next == Exchange(old, a, b, new)
           left == SubSeq(old, 1, a)
           right == SubSeq(old, b + 1, Len(old))
           between == SubSeq(text, stop + 1, a)
<1>1. Len(text) \in Nat /\ Len(old) \in Nat /\ Len(new) \in Nat /\ Len(part) \in Nat
  OBVIOUS
<1>2. left \in T /\ Len(left) = a /\ \A m \in 1 .. a : left[m] = old[m]
  BY <1>1
<1>3. right \in T
  BY <1>1
<1>4. /\ between \in T /\ Len(between) = a - stop
      /\ \A m \in 1 .. a - stop : between[m] = text[stop + m]
  BY <1>1
<1> HIDE DEF left, right, between
<1>5. /\ left \o new \in T /\ Len(left \o new) = a + Len(new)
      /\ \A m \in 1 .. a + Len(new) :
            (left \o new)[m] = IF m <= a THEN left[m] ELSE new[m - a]
  <2>1. /\ left \o new \in T /\ Len(left \o new) = Len(left) + Len(new)
        /\ \A m \in 1 .. Len(left) + Len(new) :
              (left \o new)[m] = IF m <= Len(left) THEN left[m] ELSE new[m - Len(left)]
    <3>1. left \in Seq(Characters)
      BY <1>2
    <3> QED  BY <3>1, ConcatProperties, Zenon
  <2> QED  BY <2>1, <1>2
<1> DEFINE front == left \o new
<1>6. next = front \o right
  BY DEF left, right, Exchange
<1> HIDE DEF front, next
<1>7. /\ next \in T /\ Len(next) = a + Len(new) + Len(right)
      /\ \A m \in 1 .. Len(next) : next[m] = IF m <= a + Len(new) THEN front[m]
                                             ELSE right[m - (a + Len(new))]
  <2>1. /\ front \o right \in T /\ Len(front \o right) = Len(front) + Len(right)
        /\ \A m \in 1 .. Len(front) + Len(right) :
              (front \o right)[m] = IF m <= Len(front) THEN front[m]
                                    ELSE right[m - Len(front)]
    BY <1>3, <1>5, ConcatProperties DEF front
  <2>2. Len(front) = a + Len(new)
    BY <1>5 DEF front
  <2> QED  BY <2>1, <2>2, <1>6
<1>8. Len(right) \in Nat
  BY <1>3, LenProperties
<1> DEFINE lf == a + Len(new)
<1>9. /\ Len(next) \in Nat /\ lf \in Nat /\ a <= lf /\ lf <= Len(next) /\ stop <= Len(next)
      /\ Len(next) = lf + Len(right)
  <2>1. lf \in Nat /\ a <= lf
    BY <1>1
  <2>2. Len(next) = lf + Len(right)
    BY <1>7
  <2> HIDE DEF lf
  <2> QED  BY <2>1, <2>2, <1>8
<1>10. \A m \in 1 .. Len(next) : next[m] = IF m <= lf THEN front[m] ELSE right[m - lf]
  BY <1>7
<1>11. \A m \in 1 .. lf : front[m] = IF m <= a THEN left[m] ELSE new[m - a]
  BY <1>5 DEF front
<1> HIDE DEF lf
<1>12. \A m \in 1 .. a : next[m] = text[m]
  <2> SUFFICES ASSUME NEW m \in 1 .. a PROVE next[m] = text[m]
    OBVIOUS
  <2>1. m \in 1 .. Len(next) /\ m <= lf /\ m \in 1 .. lf /\ m \in 1 .. b
    BY <1>9
  <2>2. next[m] = left[m]
    BY <2>1, <1>10, <1>11
  <2> QED  BY <2>1, <2>2, <1>2
<1> DEFINE rest == SubSeq(next, stop + 1, Len(next))
           middle == between \o new
           lm == (a - stop) + Len(new)
<1>13. /\ rest \in T /\ Len(rest) = Len(next) - stop
       /\ \A m \in 1 .. Len(next) - stop : rest[m] = next[stop + m]
  <2>1. next \in T
    BY <1>7
  <2> HIDE DEF T
  <2>2. /\ rest \in Seq(Characters)
        /\ Len(rest) = IF stop + 1 <= Len(next) THEN Len(next) - (stop + 1) + 1 ELSE 0
        /\ \A m \in 1 .. Len(next) - (stop + 1) + 1 : rest[m] = next[(stop + 1) + m - 1]
    <3>1. stop + 1 \in Int /\ Len(next) \in Int
      BY <1>9
    <3>2. \A i \in stop + 1 .. Len(next) : next[i] \in Characters
      BY <2>1, <1>9 DEF T
    <3> HIDE DEF rest
    <3> QED  BY <3>1, <3>2, SubSeqProperties DEF rest
  <2>3. Len(next) - (stop + 1) + 1 = Len(next) - stop
    BY <1>9
  <2>4. \A m \in 1 .. Len(next) - stop : (stop + 1) + m - 1 = stop + m
    BY <1>9
  <2>5. ~(stop + 1 <= Len(next)) => Len(next) - stop = 0
    BY <1>9
  <2> HIDE DEF rest
  <2> QED  BY <2>2, <2>3, <2>4, <2>5 DEF T
<1>14. lm \in Nat /\ stop + lm = lf /\ Len(next) - stop = lm + Len(right)
  <2>1. lm \in Nat /\ stop + lm = lf
    BY <1>1 DEF lf
  <2> HIDE DEF lm
  <2> QED  BY SMTT(30), <2>1, <1>8, <1>9
<1>15. /\ middle \in T /\ Len(middle) = lm
       /\ \A m \in 1 .. lm : middle[m] = IF m <= a - stop THEN between[m]
                                         ELSE new[m - (a - stop)]
  <2>1. /\ middle \in T /\ Len(middle) = Len(between) + Len(new)
        /\ \A m \in 1 .. Len(between) + Len(new) :
              middle[m] = IF m <= Len(between) THEN between[m] ELSE new[m - Len(between)]
    BY <1>4, ConcatProperties
  <2> HIDE DEF middle
  <2> QED  BY <2>1, <1>4
<1> HIDE DEF middle, lm, rest
<1>16. /\ middle \o right \in T /\ Len(middle \o right) = lm + Len(right)
       /\ \A m \in 1 .. lm + Len(right) :
             (middle \o right)[m] = IF m <= lm THEN middle[m] ELSE right[m - lm]
  <2>1. /\ middle \o right \in T /\ Len(middle \o right) = Len(middle) + Len(right)
        /\ \A m \in 1 .. Len(middle) + Len(right) :
              (middle \o right)[m] = IF m <= Len(middle) THEN middle[m]
                                     ELSE right[m - Len(middle)]
    BY <1>3, <1>15, ConcatProperties
  <2> QED  BY <2>1, <1>15
<1>17. rest = middle \o right
  <2>1. Len(rest) = Len(middle \o right)
    BY <1>13, <1>14, <1>16
  <2>2. ASSUME NEW m \in 1 .. Len(rest) PROVE rest[m] = (middle \o right)[m]
    <3>0. /\ rest[m] = next[stop + m] /\ m \in 1 .. lm + Len(right) /\ m \in Nat
          /\ m \in 1 .. Len(next) - stop
      BY <1>13, <1>14
    <3>1. stop + m \in 1 .. Len(next)
      BY <3>0, <1>9
    <3>2. CASE m <= a - stop
      <4>1. m \in 1 .. a - stop /\ m \in 1 .. lm /\ stop + m \in 1 .. a /\ m <= lm
        BY <3>0, <3>2, <1>14, <1>1 DEF lm
      <4>2. (middle \o right)[m] = text[stop + m]
        <5>1. (middle \o right)[m] = middle[m]
          BY <4>1, <3>0, <1>16
        <5>2. middle[m] = between[m]
          BY <4>1, <3>2, <1>15
        <5> QED  BY <4>1, <5>1, <5>2, <1>4
      <4>3. next[stop + m] = text[stop + m]
        BY <4>1, <1>12
      <4> QED  BY <3>0, <4>2, <4>3
    <3>3. CASE ~(m <= a - stop) /\ m <= lm
      <4>1. /\ m \in 1 .. lm /\ stop + m \in 1 .. lf
            /\ stop + m <= lf /\ ~(stop + m <= a)
            /\ (stop + m) - a = m - (a - stop)
        BY <3>0, <3>3, <1>14
      <4>2. (middle \o right)[m] = new[m - (a - stop)]
        BY <4>1, <3>0, <3>3, <1>15, <1>16
      <4>3. next[stop + m] = new[m - (a - stop)]
        BY <4>1, <3>1, <1>10, <1>11
      <4> QED  BY <3>0, <4>2, <4>3
    <3>4. CASE ~(m <= lm)
      <4>1. ~(stop + m <= lf) /\ (stop + m) - lf = m - lm
        BY <3>0, <3>4, <1>14
      <4>2. (middle \o right)[m] = right[m - lm]
        BY <3>0, <3>4, <1>16
      <4>3. next[stop + m] = right[m - lm]
        BY <4>1, <3>1, <1>10
      <4> QED  BY <3>0, <4>2, <4>3
    <3> QED  BY <3>2, <3>3, <3>4
  <2> QED  BY <2>1, <2>2, <1>13, <1>16, SeqEqual
<1>18. part \o rest = (part \o between \o new) \o right
  <2>1. part \o middle \in T /\ part \o middle = (part \o between) \o new
    <3>1. part \o middle \in T
      BY <1>15, ConcatProperties
    <3>2. (part \o between) \o new = part \o (between \o new)
      <4>1. between \in Seq(Characters)
        BY <1>4
      <4> QED  BY <4>1, Associates, SMTT(30)
    <3> QED  BY <3>1, <3>2 DEF middle
  <2>2. (part \o middle) \o right = part \o (middle \o right)
    <3>1. middle \in Seq(Characters) /\ right \in Seq(Characters)
      BY <1>3, <1>15
    <3> QED  BY <3>1, Associates, SMTT(30)
  <2> QED  BY <2>1, <2>2, <1>17
<1>19. \A m \in 1 .. stop : next[m] = text[m]
  BY <1>12
<1>20. CarriedBefore(text, part, stop, a, b, new, old, next)
  BY <1>7, <1>9, <1>18, <1>19, Zenon DEF CarriedBefore, rest, between, right, T
<1> QED  BY <1>20 DEF next

\* One step of carrying hunks out from the last to the first: the offsets of a
\* hunk mean the same before and after what comes behind it was exchanged.
LEMMA CarryOne ==
    ASSUME NEW text \in Seq(Characters), NEW old \in Seq(Characters),
           NEW part \in Seq(Characters), NEW stop \in Nat, NEW h,
           h.replacement \in Seq(Characters),
           IsBoundary(text, h.from), IsBoundary(text, h.to), h.from <= h.to,
           stop <= Chars(text, h.from), Chars(text, h.to) <= Len(old),
           \A m \in 1 .. Chars(text, h.to) : old[m] = text[m]
    PROVE  CarriedBefore(text, part, stop, Chars(text, h.from), Chars(text, h.to),
                         h.replacement, old, Replace(old, h))
<1> DEFINE a == Chars(text, h.from)
           b == Chars(text, h.to)
<1>1. a \in 0 .. Len(text) /\ b \in 0 .. Len(text) /\ Units(text, a) = h.from /\ Units(text, b) = h.to
  BY BoundaryChars
<1>2. a <= b
  BY CharsGrow
<1>3. Len(text) \in Nat /\ Len(old) \in Nat
  OBVIOUS
<1>4. b <= Len(old) /\ \A m \in 1 .. b : old[m] = text[m]
  OBVIOUS
<1>5. stop <= a
  OBVIOUS
<1> HIDE DEF a, b
<1>6. Units(old, a) = h.from /\ Units(old, b) = h.to
  <2>1. \A n \in 0 .. b : Units(old, n) = Units(text, n)
    BY <1>1, <1>4, UnitsAgree
  <2> QED  BY <2>1, <1>1, <1>2, <1>3
<1>7. Chars(old, h.from) = a /\ Chars(old, h.to) = b
  <2>1. a \in 0 .. Len(old) /\ b \in 0 .. Len(old)
    BY <1>1, <1>2, <1>3, <1>4
  <2>2. Chars(old, Units(old, a)) = a /\ Chars(old, Units(old, b)) = b
    BY <2>1, CharsOfUnits
  <2> QED  BY <2>2, <1>6
<1>8. Replace(old, h) = Exchange(old, a, b, h.replacement)
  BY <1>7, Zenon DEF Replace, Exchange
<1>9. a \in Nat /\ b \in Nat /\ b <= Len(text)
  BY <1>1, <1>3
<1>10. CarriedBefore(text, part, stop, a, b, h.replacement, old,
                     Exchange(old, a, b, h.replacement))
  <2>1. /\ text \in Seq(Characters) /\ old \in Seq(Characters) /\ part \in Seq(Characters)
        /\ h.replacement \in Seq(Characters) /\ stop \in Nat
    OBVIOUS
  <2> QED  BY <2>1, <1>2, <1>4, <1>5, <1>9, SpliceOne, Zenon
<1> QED  BY <1>8, <1>10, Zenon DEF a, b

\* Carrying out hunks in the order of apply_proposal_hunks, from the last to the
\* first, with offsets counted in the text as it was, gives the parts of the text
\* between the hunks, each followed by the replacement: no offset has shifted and
\* nothing else was touched.
THEOREM ApplyIsSpliced ==
    ASSUME NEW text \in Seq(Characters), NEW ids, NEW hunks \in Seq(HunkRecord(ids)),
           Placed(text, hunks)
    PROVE  Apply(text, hunks) = Spliced(text, hunks) /\ Apply(text, hunks) \in Seq(Characters)
<1> DEFINE N == Len(hunks)
           D == Descending(hunks)
           stop(n) == Stop(text, hunks, n)
           rest(t, n) == SubSeq(t, stop(n) + 1, Len(t))
<1>1. /\ N \in Nat
      /\ \A k \in 1 .. N : /\ hunks[k].replacement \in Seq(Characters)
                           /\ hunks[k].from \in Nat /\ hunks[k].to \in Nat
  <2>1. \A k \in 1 .. N : hunks[k] \in HunkRecord(ids)
    OBVIOUS
  <2> QED  BY SMTT(30), <2>1 DEF HunkRecord
<1>2. D \in Seq(HunkRecord(ids)) /\ Len(D) = N /\ \A i \in 1 .. N : D[i] = hunks[N + 1 - i]
  BY DescendingReverses DEF Placed
<1> HIDE DEF D
<1>3. PICK after \in [0 .. N -> Seq(Characters)] :
          /\ after[0] = text
          /\ \A k \in 1 .. N : after[k] = Replace(after[k - 1], D[k])
          /\ Carried(text, D) = after[N]
  BY <1>2, CarriedStep
<1>4. PICK part \in [0 .. N -> Seq(Characters)] :
          /\ part[0] = << >>
          /\ \A k \in 1 .. N : part[k] =
                part[k - 1] \o SubSeq(text, stop(k - 1) + 1, Chars(text, hunks[k].from))
                  \o hunks[k].replacement
          /\ Spliced(text, hunks) = part[N] \o rest(text, N)
  BY SplicedStep
<1>5. /\ stop(0) = 0
      /\ \A k \in 0 .. N : stop(k) \in 0 .. Len(text)
      /\ \A k \in 1 .. N : stop(k) = Chars(text, hunks[k].to)
  BY CharsInText, <1>1 DEF Stop
<1>6. \A k \in 1 .. N : stop(k - 1) <= Chars(text, hunks[k].from)
  <2> SUFFICES ASSUME NEW k \in 1 .. N PROVE stop(k - 1) <= Chars(text, hunks[k].from)
    OBVIOUS
  <2>1. CASE k = 1
    <3>1. Chars(text, hunks[k].from) \in 0 .. Len(text) /\ Len(text) \in Nat
      BY CharsInText
    <3>2. stop(k - 1) = 0
      BY <2>1, <1>5
    <3> HIDE DEF stop
    <3> QED  BY <3>1, <3>2
  <2>2. CASE k # 1
    <3>1. k - 1 \in 1 .. N /\ k - 1 < k
      BY <2>2, <1>1
    <3>2. /\ hunks[k - 1].to <= hunks[k].from
          /\ IsBoundary(text, hunks[k - 1].to) /\ IsBoundary(text, hunks[k].from)
      BY <3>1 DEF Placed, Ordered, Apart
    <3>3. stop(k - 1) = Chars(text, hunks[k - 1].to)
      BY <3>1, <1>5
    <3> HIDE DEF stop
    <3> QED  BY <3>2, <3>3, CharsGrow
  <2> QED  BY <2>1, <2>2
<1> DEFINE Fits(k) == /\ stop(N - k) <= Len(after[k])
                      /\ \A m \in 1 .. stop(N - k) : after[k][m] = text[m]
                      /\ part[N - k] \o rest(after[k], N - k) = Spliced(text, hunks)
           S == {k \in 0 .. N : Fits(k)}
<1> HIDE DEF stop
<1>7. 0 \in S
  <2>1. N - 0 = N /\ stop(N) \in 0 .. Len(text) /\ Len(text) \in Nat
    BY <1>1, <1>5
  <2>2. stop(N) <= Len(text)
    BY <2>1
  <2>3. Fits(0)
    BY <1>3, <1>4, <2>1, <2>2
  <2>4. 0 \in 0 .. N
    BY <1>1
  <2> HIDE DEF Fits, N
  <2> QED  BY <2>3, <2>4
<1>8. ASSUME NEW k \in 1 .. N, k - 1 \in S PROVE k \in S
  <2> DEFINE j == N - (k - 1)
             old == after[k - 1]
             h == hunks[j]
  <2>1. j \in 1 .. N /\ N + 1 - k = j /\ N - k = j - 1 /\ k - 1 \in 0 .. N /\ k \in 0 .. N
        /\ j - 1 \in 0 .. N
    BY <1>1
  <2>2. after[k] = Replace(old, h)
    BY <1>2, <1>3, <2>1
  <2>3. /\ stop(j) <= Len(old)
        /\ \A m \in 1 .. stop(j) : old[m] = text[m]
        /\ part[j] \o rest(old, j) = Spliced(text, hunks)
    BY <1>8
  <2>4. old \in Seq(Characters) /\ part[j - 1] \in Seq(Characters)
    BY <2>1, <1>3, <1>4
  <2> HIDE DEF j, old
  <2>5. /\ IsBoundary(text, h.from) /\ IsBoundary(text, h.to) /\ h.from <= h.to
        /\ h.replacement \in Seq(Characters) /\ stop(j) = Chars(text, h.to)
        /\ stop(j - 1) <= Chars(text, h.from) /\ stop(j - 1) \in Nat
    <3>1. IsBoundary(text, h.from) /\ IsBoundary(text, h.to) /\ h.from <= h.to
      BY <2>1 DEF Placed
    <3>2. h.replacement \in Seq(Characters) /\ stop(j) = Chars(text, h.to)
      BY <2>1, <1>1, <1>5
    <3>3. stop(j - 1) <= Chars(text, h.from) /\ stop(j - 1) \in 0 .. Len(text)
      BY <2>1, <1>5, <1>6
    <3> QED  BY <3>1, <3>2, <3>3
  <2> HIDE DEF h
  <2> DEFINE s == stop(j - 1)
             new == Replace(old, h)
  <2>6. /\ s <= Len(new)
        /\ \A m \in 1 .. s : new[m] = text[m]
        /\ part[j - 1] \o SubSeq(new, s + 1, Len(new))
             = (part[j - 1] \o SubSeq(text, s + 1, Chars(text, h.from)) \o h.replacement)
                 \o SubSeq(old, Chars(text, h.to) + 1, Len(old))
    <3>1. Chars(text, h.to) <= Len(old) /\ \A m \in 1 .. Chars(text, h.to) : old[m] = text[m]
      BY <2>3, <2>5
    <3> HIDE DEF s
    <3>2. s \in Nat /\ s <= Chars(text, h.from)
      BY <2>5 DEF s
    <3>3. CarriedBefore(text, part[j - 1], s, Chars(text, h.from), Chars(text, h.to),
                        h.replacement, old, new)
      BY <3>1, <3>2, <2>4, <2>5, CarryOne, Zenon
    <3> QED  BY <3>3, Zenon DEF CarriedBefore
  <2>7. part[j] = part[j - 1] \o SubSeq(text, s + 1, Chars(text, h.from)) \o h.replacement
    BY <1>4, <2>1 DEF h
  <2>8. part[j - 1] \o rest(new, j - 1) = Spliced(text, hunks)
    <3>1. rest(old, j) = SubSeq(old, Chars(text, h.to) + 1, Len(old))
      BY <2>5
    <3> QED  BY <3>1, <2>3, <2>6, <2>7, Zenon
  <2>9. Fits(k)
    <3>1. N - k = j - 1 /\ after[k] = new
      BY <2>1, <2>2
    <3> HIDE DEF rest, new
    <3> QED  BY <3>1, <2>6, <2>8, Zenon DEF new
  <2> QED  BY <2>1, <2>9
<1>9. \A k \in 0 .. N : k \in S
  <2> HIDE DEF S, N
  <2> QED  BY <1>1, <1>7, <1>8, UpTo
<1>10. Fits(N) /\ N - N = 0 /\ N \in 0 .. N /\ 0 \in 0 .. N
  <2>1. N - N = 0 /\ N \in 0 .. N /\ 0 \in 0 .. N
    BY <1>1
  <2> HIDE DEF Fits, N
  <2> QED  BY <2>1, <1>9
<1>11. after[N] = Spliced(text, hunks)
  <2> DEFINE t == after[N]
  <2>1. t \in Seq(Characters)
    BY <1>3, <1>10
  <2>2. part[N - N] \o SubSeq(t, stop(N - N) + 1, Len(t)) = Spliced(text, hunks)
    BY <1>10, Zenon
  <2>3. << >> \o SubSeq(t, 1, Len(t)) = Spliced(text, hunks)
    <3>1. part[N - N] = << >> /\ stop(N - N) + 1 = 1
      BY <1>1, <1>4, <1>5
    <3> QED  BY <2>2, <3>1, Zenon
  <2> HIDE DEF t
  <2>4. SubSeq(t, 1, Len(t)) = t
    BY <2>1, SubSeqFull
  <2>5. << >> \o t = t
    BY <2>1, ConcatEmptySeq
  <2> QED  BY <2>3, <2>4, <2>5 DEF t
<1>12. Apply(text, hunks) = after[N]
  BY <1>3 DEF Apply, D
<1> QED  BY <1>3, <1>10, <1>11, <1>12

-----------------------------------------------------------------------------
(* Replaying decisions *)

IdsOfHunks(hunks) == {hunks[i].id : i \in DOMAIN hunks}

\* What a log of any events leaves decided: "none" is no decision of a reviewer,
\* but the type of an event has it.
AnyDecisions(hunks) == [IdsOfHunks(hunks) -> {"pending", "none"} \cup Decided]

LEMMA AfterEventDecides ==
    ASSUME NEW hunks, NEW decisions \in AnyDecisions(hunks), NEW event \in ReviewEvent
    PROVE  AfterEvent(hunks, decisions, event) \in AnyDecisions(hunks)
<1>1. event.decision \in {"pending", "none"} \cup Decided
  BY DEF ReviewEvent, Decisions, Decided
<1> DEFINE T == Together(hunks, event.hunk)
           after == [i \in DOMAIN decisions |-> IF i \in T THEN event.decision ELSE decisions[i]]
<1>2. after \in AnyDecisions(hunks)
  <2> HIDE DEF T
  <2> QED  BY <1>1 DEF AnyDecisions
<1>3. AfterEvent(hunks, decisions, event) \in {decisions, after}
  BY DEF AfterEvent, DecideHunk
<1> QED  BY <1>2, <1>3

LEMMA ReplayStep ==
    ASSUME NEW hunks, NEW log \in Seq(ReviewEvent)
    PROVE  \E after \in [0 .. Len(log) -> AnyDecisions(hunks)] :
              /\ after[0] = Undecided(hunks)
              /\ \A k \in 1 .. Len(log) : after[k] = AfterEvent(hunks, after[k - 1], log[k])
              /\ Replay(hunks, log) = after[Len(log)]
<1> DEFINE N == Len(log)
           T == AnyDecisions(hunks)
           base == Undecided(hunks)
           step == [x \in (1 .. N) \X T |-> AfterEvent(hunks, x[2], log[x[1]])]
           Is(u) == u = [k \in 0 .. N |-> IF k = 0 THEN base
                                          ELSE AfterEvent(hunks, u[k - 1], log[k])]
           after == CHOOSE u : Is(u)
<1>0. N \in Nat /\ base \in T
  BY DEF AnyDecisions, Undecided, IdsOfHunks
<1>1. \A k \in 1 .. N : log[k] \in ReviewEvent
  OBVIOUS
<1> HIDE DEF T, base
<1>2. \A k \in 1 .. N, t \in T : AfterEvent(hunks, t, log[k]) \in T
  BY <1>1, AfterEventDecides DEF T
<1>3. step \in [(1 .. N) \X T -> T]
  <2> HIDE DEF N
  <2> QED  BY <1>2
<1>4. PICK u \in [0 .. N -> T] : Extends(u, N, base, step)
  <2> HIDE DEF step, N
  <2> QED  BY <1>0, <1>3, ExtensionExists
<1>5. \A k \in 1 .. N : step[<<k, u[k - 1]>>] = AfterEvent(hunks, u[k - 1], log[k])
  <2>1. \A k \in 1 .. N : u[k - 1] \in T
    BY <1>0
  <2> HIDE DEF N
  <2> QED  BY <2>1
<1>6. Is(u)
  <2>1. u = [k \in 0 .. N |-> IF k = 0 THEN base ELSE step[<<k, u[k - 1]>>]]
    BY <1>4 DEF Extends
  <2> HIDE DEF step, N
  <2>2. [k \in 0 .. N |-> IF k = 0 THEN base ELSE step[<<k, u[k - 1]>>]]
           = [k \in 0 .. N |-> IF k = 0 THEN base ELSE AfterEvent(hunks, u[k - 1], log[k])]
    BY <1>0, <1>5
  <2> QED  BY <2>1, <2>2
<1>7. Is(after)
  <2> HIDE DEF Is
  <2> QED  BY <1>6
<1>8. /\ after[0] = base
      /\ \A k \in 1 .. N : after[k] = AfterEvent(hunks, after[k - 1], log[k])
  <2> HIDE DEF after, N
  <2> QED  BY <1>7, <1>0
<1>9. Replay(hunks, log) = after[N]
  BY DEF Replay, base
<1>10. \A n \in 0 .. N : after[n] \in T
  <2> HIDE DEF after, N
  <2> DEFINE S == {n \in 0 .. N : after[n] \in T}
  <2>1. 0 \in S
    BY <1>8, <1>0
  <2>2. ASSUME NEW n \in 1 .. N, n - 1 \in S PROVE n \in S
    <3>1. AfterEvent(hunks, after[n - 1], log[n]) \in T
      BY <1>2, <2>2
    <3> QED  BY <1>8, <1>0, <3>1
  <2>3. \A n \in 0 .. N : n \in S
    <3> HIDE DEF S
    <3> QED  BY <2>1, <2>2, <1>0, UpTo
  <2> QED  BY <2>3
<1> HIDE DEF after
<1>11. after \in [0 .. N -> T]
  <2> DEFINE G(k) == IF k = 0 THEN base ELSE AfterEvent(hunks, after[k - 1], log[k])
  <2>1. after = [k \in 0 .. N |-> G(k)]
    BY <1>7
  <2> HIDE DEF N, G
  <2> QED  BY <2>1, <1>10
<1> QED  BY <1>8, <1>9, <1>11 DEF T, base

\* Nothing is decided by an empty log.
LEMMA ReplayNothing ==
    ASSUME NEW hunks
    PROVE  Replay(hunks, << >>) = Undecided(hunks)
<1>1. << >> \in Seq(ReviewEvent) /\ Len(<< >>) = 0
  OBVIOUS
<1> QED  BY ZenonT(40), <1>1, ReplayStep

\* One more event decides one more time.
LEMMA ReplayAppend ==
    ASSUME NEW hunks, NEW log \in Seq(ReviewEvent), NEW event \in ReviewEvent
    PROVE  /\ Replay(hunks, log) \in AnyDecisions(hunks)
           /\ Replay(hunks, Append(log, event)) = AfterEvent(hunks, Replay(hunks, log), event)
<1> DEFINE N == Len(log)
           longer == Append(log, event)
<1>1. /\ N \in Nat /\ longer \in Seq(ReviewEvent) /\ Len(longer) = N + 1
      /\ \A k \in 1 .. N : longer[k] = log[k]
      /\ longer[N + 1] = event
  BY AppendProperties
<1> HIDE DEF longer
<1>2. PICK u \in [0 .. N -> AnyDecisions(hunks)] :
          /\ u[0] = Undecided(hunks)
          /\ \A k \in 1 .. N : u[k] = AfterEvent(hunks, u[k - 1], log[k])
          /\ Replay(hunks, log) = u[N]
  BY ReplayStep
<1>3. PICK v \in [0 .. Len(longer) -> AnyDecisions(hunks)] :
          /\ v[0] = Undecided(hunks)
          /\ \A k \in 1 .. Len(longer) : v[k] = AfterEvent(hunks, v[k - 1], longer[k])
          /\ Replay(hunks, longer) = v[Len(longer)]
  BY <1>1, ReplayStep
<1> DEFINE S == {n \in 0 .. N : v[n] = u[n]}
<1>4. 0 \in S
  BY <1>1, <1>2, <1>3
<1>5. ASSUME NEW n \in 1 .. N, n - 1 \in S PROVE n \in S
  <2>1. n \in 1 .. Len(longer) /\ longer[n] = log[n]
    BY <1>1
  <2>2. v[n - 1] = u[n - 1]
    BY <1>5
  <2>3. v[n] = AfterEvent(hunks, v[n - 1], longer[n])
    BY <2>1, <1>3
  <2>4. u[n] = AfterEvent(hunks, u[n - 1], log[n])
    BY <1>2
  <2>5. v[n] = u[n]
    BY <2>1, <2>2, <2>3, <2>4
  <2> HIDE DEF N
  <2> QED  BY <2>5, <1>1
<1>6. \A n \in 0 .. N : n \in S
  <2> HIDE DEF S
  <2> QED  BY <1>1, <1>4, <1>5, UpTo
<1>7. v[N] = u[N] /\ u[N] \in AnyDecisions(hunks)
  BY <1>1, <1>6
<1>8. N + 1 \in 1 .. Len(longer) /\ (N + 1) - 1 = N
  BY <1>1
<1>9. v[N + 1] = AfterEvent(hunks, v[N], event)
  BY <1>1, <1>3, <1>8
<1> QED  BY <1>1, <1>2, <1>3, <1>7, <1>9 DEF longer

-----------------------------------------------------------------------------
(* The inductive invariant *)

DocRecord ==
    [ status : {"absent", "active", "archived"}, parent : Docs \cup {NoDoc},
      title : Titles, key : Nat, revision : Nat ]

\* The chapter of proposals is there, the head commit binds what is there now, and
\* a bundle can name it.
TextBlock == [active : BOOLEAN, text : Seq(Characters), revision : Nat]

ChapterSound ==
    /\ project \in [head : Nat, revision : Nat]
    /\ \E S : commits \in Seq(S)
    /\ Len(commits) <= MaxCommits
    /\ project.head \in DOMAIN commits
    /\ commits[project.head].root = View(doc, block)
    /\ doc \in [Docs -> DocRecord] /\ block \in [Docs -> TextBlock]
    /\ Target \in ActiveBlocks(doc, block)

ProposalRecord ==
    [ revision : Nat, text : Seq(Characters), from : Nat, to : Nat,
      hunks : Seq(HunkRecord(Hunks)) ]

\* What replaying a log leaves is a decision on every hunk or none, and the status
\* agrees with it.
ReviewSound(r) ==
    Reviewed(r) =>
        /\ ValidHunks(proposal[r].text, proposal[r], proposal[r].hunks)
        /\ run[r].base \in DOMAIN commits
        /\ DecisionsOf(r) \in [Ids(r) -> {"pending"} \cup Decided]
        /\ Consistent(review[r].status, DecisionsOf(r))

AppliedSound(r) ==
    IF review[r].status = "applied"
    THEN /\ receipt[r].commit \in DOMAIN commits
         /\ receipt[r].accepted = IdsWith(DecisionsOf(r), "accepted")
         /\ receipt[r].rejected = Ids(r) \ receipt[r].accepted
         /\ Holds(receipt[r].commit, r, receipt[r].accepted)
    ELSE receipt[r] = NoReceipt

\* The decisions a branch was made of.
DecisionsAt(r, revision) == Replay(proposal[r].hunks, SubSeq(review[r].log, 1, revision))

BranchSound(r) ==
    branch[r] # NoBranch =>
        /\ Reviewed(r)
        /\ branch[r].commit \in DOMAIN commits
        /\ branch[r].revision \in 0 .. Len(review[r].log)
        /\ AllDecided(DecisionsAt(r, branch[r].revision))
        /\ Holds(branch[r].commit, r, IdsWith(DecisionsAt(r, branch[r].revision), "accepted"))
        /\ \E s \in snapshots : s.commit = branch[r].commit /\ s.view = commits[s.commit].root

\* A copy of a review is behind its log, or equal to it: a revision that was read
\* before the decisions, or counted up with each of them, never runs ahead.
PageSound(p) ==
    LET s == page[p]
        r == s.open
    IN  /\ s = [ open |-> s.open, revision |-> s.revision, status |-> s.status,
                 decisions |-> s.decisions, branched |-> s.branched ]
        /\ r # NoCommit =>
              /\ Reviewed(r)
              /\ s.revision \in Nat /\ s.revision <= review[r].revision
              /\ s.revision = review[r].revision =>
                    s.status = review[r].status /\ s.decisions = DecisionsOf(r)

\* What a handler has yet to read, and what it has read by then.
Unread(kind) ==
    CASE kind = "open"   -> { << "session", "events" >>, << "events" >>, << >> }
      [] kind = "apply"  -> { << "session", "project", "events" >>,
                              << "project", "events" >>, << "events" >>, << >> }
      [] kind = "branch" -> { << "session", "events", "project" >>,
                              << "events", "project" >>, << "project" >>, << >> }

SessionRead(todo) ==
    todo \in { << "project", "events" >>, << "events", "project" >>,
               << "events" >>, << "project" >>, << >> }

EventsRead(todo) == todo \in { << "project" >>, << >> }

ProjectRead(kind, todo) == kind # "open" /\ todo \in { << "events" >>, << >> }

IsSeen(seen) ==
    seen = [ revision |-> seen.revision, status |-> seen.status,
             decisions |-> seen.decisions, head |-> seen.head,
             project |-> seen.project, text |-> seen.text,
             blockRevision |-> seen.blockRevision, view |-> seen.view ]

\* What a handler read of the session is behind the log or equal to it; what it read
\* of the project is what the commit binds that was the head.
HandlerSound(t) ==
    LET seen == t.seen
        r == t.of
    IN  /\ t = [kind |-> t.kind, of |-> r, todo |-> t.todo, seen |-> seen]
        /\ IsSeen(seen)
        /\ r \in Runs /\ Reviewed(r)
        /\ t.todo \in Unread(t.kind)
        /\ SessionRead(t.todo) =>
              /\ seen.revision \in Nat /\ seen.revision <= review[r].revision
              /\ seen.revision = review[r].revision => seen.status = review[r].status
        /\ EventsRead(t.todo) =>
              (seen.revision = review[r].revision => seen.decisions = DecisionsOf(r))
        /\ ProjectRead(t.kind, t.todo) =>
              seen.head \in DOMAIN commits /\ seen.view = commits[seen.head].root

TaskSound(p) ==
    \/ task[p].kind \in {"idle"} \cup Decided /\ task[p] = [kind |-> task[p].kind, todo |-> << >>]
    \/ task[p].kind \in {"open", "apply", "branch"} /\ HandlerSound(task[p])

ReviewInvariant ==
    /\ AuditInvariant
    /\ RvTypeOK
    /\ ChapterSound
    /\ proposal \in [Runs -> ProposalRecord]
    /\ page = [p \in Pages |-> page[p]] /\ task = [p \in Pages |-> task[p]]
    /\ \A r \in Runs : ReviewSound(r) /\ AppliedSound(r) /\ BranchSound(r)
    /\ \A p \in Pages : PageSound(p) /\ TaskSound(p)
-----------------------------------------------------------------------------
(* What stays right while others write *)

\* Of a review that there is, a step changes nothing but appends one event at most,
\* and none once it is applied.
ReviewGrows(r) ==
    Reviewed(r) =>
        /\ run'[r].base = run[r].base /\ proposal'[r] = proposal[r]
        /\ \/ review'[r] = review[r]
           \/ /\ review[r].status # "applied" /\ review'[r].status # "none"
              /\ review'[r].revision = review[r].revision + 1
              /\ \E e \in ReviewEvent : review'[r].log = Append(review[r].log, e)

\* Commits and snapshots are added only.
HistoryGrows ==
    /\ DOMAIN commits \subseteq DOMAIN commits'
    /\ \A i \in DOMAIN commits : commits'[i] = commits[i]
    /\ snapshots \subseteq snapshots'

LEMMA HoldsStays ==
    ASSUME NEW r \in Runs, NEW commit, NEW accepted, HistoryGrows,
           commit \in DOMAIN commits, run[r].base \in DOMAIN commits,
           run'[r].base = run[r].base, proposal'[r] = proposal[r],
           Holds(commit, r, accepted)
    PROVE  Holds(commit, r, accepted)'
BY DEF HistoryGrows, Holds

LEMMA ReviewStays ==
    ASSUME NEW r \in Runs, ReviewSound(r), HistoryGrows, ReviewGrows(r),
           review'[r] = review[r], Reviewed(r)
    PROVE  ReviewSound(r)'
<1>1. proposal'[r] = proposal[r] /\ run'[r].base = run[r].base
  BY DEF ReviewGrows
<1>2. DecisionsOf(r)' = DecisionsOf(r)
  BY <1>1 DEF DecisionsOf
<1>3. run[r].base \in DOMAIN commits'
  BY DEF ReviewSound, HistoryGrows
<1>4. Ids(r)' = Ids(r)
  BY <1>1 DEF Ids
<1> QED  BY <1>1, <1>2, <1>3, <1>4 DEF ReviewSound, Reviewed

LEMMA AppliedStays ==
    ASSUME NEW r \in Runs, ReviewSound(r), AppliedSound(r), HistoryGrows, ReviewGrows(r),
           receipt'[r] = receipt[r],
           IF review[r].status = "applied" THEN Reviewed(r) ELSE review'[r].status # "applied"
    PROVE  AppliedSound(r)'
<1>1. CASE review[r].status # "applied"
  BY <1>1 DEF AppliedSound
<1>2. CASE review[r].status = "applied"
  <2>1. /\ proposal'[r] = proposal[r] /\ run'[r].base = run[r].base
        /\ review'[r] = review[r]
    BY <1>2 DEF ReviewGrows
  <2>2. DecisionsOf(r)' = DecisionsOf(r) /\ Ids(r)' = Ids(r)
    BY <2>1 DEF DecisionsOf, Ids
  <2>3. PICK c, a : c = receipt[r].commit /\ a = receipt[r].accepted
    OBVIOUS
  <2>4. /\ c \in DOMAIN commits /\ Holds(c, r, a) /\ run[r].base \in DOMAIN commits
        /\ a = IdsWith(DecisionsOf(r), "accepted")
        /\ receipt[r].rejected = Ids(r) \ a
    BY <1>2, <2>3 DEF AppliedSound, ReviewSound
  <2>5. Holds(c, r, a)' /\ c \in DOMAIN commits'
    BY <2>1, <2>4, HoldsStays DEF HistoryGrows
  <2>6. c = receipt'[r].commit /\ a = receipt'[r].accepted /\ review'[r].status = "applied"
    BY <2>1, <2>3, <1>2
  <2> QED  BY <2>1, <2>2, <2>4, <2>5, <2>6 DEF AppliedSound
<1> QED  BY <1>1, <1>2

\* The log a branch was made at is still the beginning of the log.
LEMMA BeginningStays ==
    ASSUME NEW S, NEW log \in Seq(S), NEW e \in S, NEW n \in 0 .. Len(log)
    PROVE  SubSeq(Append(log, e), 1, n) = SubSeq(log, 1, n)
<1>1. /\ Len(log) \in Nat /\ Append(log, e) \in Seq(S) /\ Len(Append(log, e)) = Len(log) + 1
      /\ \A i \in 1 .. Len(log) : Append(log, e)[i] = log[i]
  BY AppendProperties
<1> DEFINE longer == Append(log, e)
<1> HIDE DEF longer
<1>2. \A i \in 1 .. n : longer[i] = log[i]
  BY <1>1 DEF longer
<1> QED  BY <1>1, <1>2 DEF longer

LEMMA BranchStays ==
    ASSUME NEW r \in Runs, ReviewSound(r), BranchSound(r), HistoryGrows, ReviewGrows(r),
           branch'[r] = branch[r], review[r].log \in Seq(ReviewEvent)
    PROVE  BranchSound(r)'
<1>1. CASE branch[r] = NoBranch
  BY <1>1 DEF BranchSound
<1>2. CASE branch[r] # NoBranch
  <2>1. PICK c, n : c = branch[r].commit /\ n = branch[r].revision
    OBVIOUS
  <2>2. /\ Reviewed(r) /\ c \in DOMAIN commits /\ n \in 0 .. Len(review[r].log)
        /\ AllDecided(DecisionsAt(r, n))
        /\ Holds(c, r, IdsWith(DecisionsAt(r, n), "accepted"))
        /\ \E s \in snapshots : s.commit = c /\ s.view = commits[s.commit].root
        /\ run[r].base \in DOMAIN commits
    BY <1>2, <2>1 DEF BranchSound, ReviewSound
  <2>3. /\ proposal'[r] = proposal[r] /\ run'[r].base = run[r].base
        /\ Reviewed(r)'
    BY <2>2 DEF ReviewGrows, Reviewed
  <2>4. /\ SubSeq(review'[r].log, 1, n) = SubSeq(review[r].log, 1, n)
        /\ n \in 0 .. Len(review'[r].log)
    <3>1. CASE review'[r] = review[r]
      BY <2>2, <3>1
    <3>2. ASSUME NEW e \in ReviewEvent, review'[r].log = Append(review[r].log, e)
          PROVE  /\ SubSeq(review'[r].log, 1, n) = SubSeq(review[r].log, 1, n)
                 /\ n \in 0 .. Len(review'[r].log)
      BY <2>2, <3>2, BeginningStays
    <3> QED  BY <2>2, <3>1, <3>2 DEF ReviewGrows
  <2>5. PICK d : d = DecisionsAt(r, n)
    OBVIOUS
  <2>6. DecisionsAt(r, n)' = d
    BY <2>3, <2>4, <2>5 DEF DecisionsAt
  <2>7. PICK a : a = IdsWith(d, "accepted")
    OBVIOUS
  <2>8. Holds(c, r, a)' /\ c \in DOMAIN commits'
    BY <2>2, <2>3, <2>5, <2>7, HoldsStays DEF HistoryGrows
  <2>9. \E s \in snapshots' : s.commit = c /\ s.view = commits'[s.commit].root
    BY <2>2 DEF HistoryGrows
  <2>10. branch'[r].commit = c /\ branch'[r].revision = n
    BY <2>1
  <2> QED  BY <2>2, <2>3, <2>4, <2>6, <2>7, <2>8, <2>9, <2>10, <2>5 DEF BranchSound
<1> QED  BY <1>1, <1>2

LEMMA PageStays ==
    ASSUME NEW p \in Pages, PageSound(p), page'[p] = page[p], review \in [Runs -> ReviewRecord],
           page[p].open # NoCommit => page[p].open \in Runs /\ ReviewGrows(page[p].open)
    PROVE  PageSound(p)'
<1>1. CASE page[p].open = NoCommit
  BY <1>1 DEF PageSound
<1>2. CASE page[p].open # NoCommit
  <2>1. PICK r \in Runs : r = page[p].open
    BY <1>2
  <2>2. /\ Reviewed(r) /\ page[p].revision \in Nat /\ page[p].revision <= review[r].revision
        /\ page[p].revision = review[r].revision =>
              page[p].status = review[r].status /\ page[p].decisions = DecisionsOf(r)
        /\ ReviewGrows(r) /\ review[r].revision \in Nat
    BY <1>2, <2>1 DEF PageSound, ReviewRecord
  <2>3. /\ Reviewed(r)' /\ page[p].revision <= review'[r].revision
        /\ page[p].revision = review'[r].revision =>
              page[p].status = review'[r].status /\ page[p].decisions = DecisionsOf(r)'
    <3>1. CASE review'[r] = review[r]
      <4>1. DecisionsOf(r)' = DecisionsOf(r)
        BY <2>2, <3>1 DEF DecisionsOf, ReviewGrows
      <4> QED  BY <2>2, <3>1, <4>1 DEF Reviewed
    <3>2. CASE review'[r].revision = review[r].revision + 1 /\ review'[r].status # "none"
      BY <2>2, <3>2 DEF Reviewed
    <3> QED  BY <2>2, <3>1, <3>2 DEF ReviewGrows
  <2>4. page'[p].open = r
    BY <2>1
  <2> QED  BY <2>1, <2>2, <2>3, <2>4 DEF PageSound
<1> QED  BY <1>1, <1>2

LEMMA HandlerStays ==
    ASSUME NEW t, HandlerSound(t), HistoryGrows, ReviewGrows(t.of),
           review \in [Runs -> ReviewRecord]
    PROVE  HandlerSound(t)'
<1>1. PICK r \in Runs : r = t.of
  BY DEF HandlerSound
<1>2. /\ Reviewed(r) /\ ReviewGrows(r) /\ review[r].revision \in Nat
  BY <1>1 DEF HandlerSound, ReviewRecord
<1>3. SessionRead(t.todo) =>
         /\ t.seen.revision \in Nat /\ t.seen.revision <= review'[r].revision
         /\ t.seen.revision = review'[r].revision => t.seen.status = review'[r].status
  <2>1. SessionRead(t.todo) =>
           /\ t.seen.revision \in Nat /\ t.seen.revision <= review[r].revision
           /\ t.seen.revision = review[r].revision => t.seen.status = review[r].status
    BY <1>1 DEF HandlerSound
  <2>2. \/ review'[r] = review[r]
        \/ review'[r].revision = review[r].revision + 1
    BY <1>2 DEF ReviewGrows
  <2> QED  BY <1>2, <2>1, <2>2
<1>4. EventsRead(t.todo) => SessionRead(t.todo)
  BY DEF EventsRead, SessionRead
<1>5. EventsRead(t.todo) =>
         (t.seen.revision = review'[r].revision => t.seen.decisions = DecisionsOf(r)')
  <2>1. CASE review'[r] = review[r]
    <3>1. DecisionsOf(r)' = DecisionsOf(r)
      BY <1>2, <2>1 DEF DecisionsOf, ReviewGrows
    <3> QED  BY <1>1, <2>1, <3>1 DEF HandlerSound
  <2>2. CASE review'[r].revision = review[r].revision + 1
    <3>1. SessionRead(t.todo) => t.seen.revision \in Nat /\ t.seen.revision <= review[r].revision
      BY <1>1 DEF HandlerSound
    <3> QED  BY <1>2, <1>4, <2>2, <3>1
  <2> QED  BY <1>2, <2>1, <2>2 DEF ReviewGrows
<1>6. ProjectRead(t.kind, t.todo) =>
         t.seen.head \in DOMAIN commits' /\ t.seen.view = commits'[t.seen.head].root
  BY DEF HandlerSound, HistoryGrows
<1>7. Reviewed(r)'
  BY <1>2 DEF Reviewed, ReviewGrows
<1> QED  BY <1>1, <1>3, <1>5, <1>6, <1>7 DEF HandlerSound

LEMMA TaskStays ==
    ASSUME NEW p \in Pages, TaskSound(p), task'[p] = task[p], HistoryGrows,
           review \in [Runs -> ReviewRecord], \A r \in Runs : ReviewGrows(r)
    PROVE  TaskSound(p)'
<1>1. PICK t : t = task[p]
  OBVIOUS
<1>2. CASE t.kind \in {"open", "apply", "branch"} /\ HandlerSound(t)
  <2>1. HandlerSound(t)'
    BY <1>2, HandlerStays DEF HandlerSound
  <2> QED  BY <1>1, <1>2, <2>1 DEF TaskSound
<1>3. CASE t.kind \in {"idle"} \cup Decided /\ t = [kind |-> t.kind, todo |-> << >>]
  BY <1>1, <1>3 DEF TaskSound
<1> QED  BY <1>1, <1>2, <1>3 DEF TaskSound

-----------------------------------------------------------------------------
(* The chapter *)

LEMMA TargetIsDocument == Target \in Docs
BY DocumentBound DEF Docs, Target

\* Nothing is shown otherwise but the text of the chapter.
TextOnly(these, those, blocks, others) ==
    \A d \in Docs : /\ those[d].status = these[d].status
                    /\ Meta(those[d]) = Meta(these[d])
                    /\ others[d].active = blocks[d].active
                    /\ d # Target => others[d].text = blocks[d].text

\* What is shown once the text of the chapter, and revisions, are others.
LEMMA TextShows ==
    ASSUME NEW these \in [Docs -> DocRecord], NEW those \in [Docs -> DocRecord],
           NEW blocks \in [Docs -> TextBlock], NEW others \in [Docs -> TextBlock],
           NEW text, Target \in ActiveBlocks(these, blocks), others[Target].text = text,
           TextOnly(these, those, blocks, others)
    PROVE  /\ View(those, others) = WithText(View(these, blocks), text)
           /\ Target \in ActiveBlocks(those, others)
<1> DEFINE A == Active(these)
           B == ActiveBlocks(these, blocks)
           ds == [d \in A |-> Meta(these[d])]
           bs == [d \in B |-> blocks[d].text]
<1> USE DEF TextOnly
<1>1. Active(those) = A
  BY DEF Active
<1>2. ActiveBlocks(those, others) = B
  BY <1>1 DEF ActiveBlocks, Active
<1>3. A \subseteq Docs /\ B \subseteq Docs /\ Target \in B
  BY DEF Active, ActiveBlocks
<1>4. [d \in Active(those) |-> Meta(those[d])] = ds
  <2> HIDE DEF A
  <2> QED  BY <1>1, <1>3
<1>5. [d \in ActiveBlocks(those, others) |-> others[d].text] = [bs EXCEPT ![Target] = text]
  <2> HIDE DEF B
  <2> QED  BY <1>2, <1>3
<1>6. View(those, others) = [docs |-> ds, blocks |-> [bs EXCEPT ![Target] = text]]
  <2> HIDE DEF ds, bs
  <2> QED  BY <1>4, <1>5 DEF View
<1>7. View(these, blocks) = [docs |-> ds, blocks |-> bs]
  BY DEF View
<1> HIDE DEF ds, bs, A, B
<1>8. WithText([docs |-> ds, blocks |-> bs], text)
         = [docs |-> ds, blocks |-> [bs EXCEPT ![Target] = text]]
  BY DEF WithText
<1> QED  BY <1>2, <1>3, <1>6, <1>7, <1>8 DEF B

\* A commit on any parent.
LEMMA CommitAppended ==
    ASSUME \E S : commits \in Seq(S), NEW c, commits' = Append(commits, c)
    PROVE  /\ \E S : commits' \in Seq(S)
           /\ Len(commits) \in Nat /\ Len(commits') = Len(commits) + 1
           /\ DOMAIN commits \subseteq DOMAIN commits'
           /\ \A i \in DOMAIN commits : commits'[i] = commits[i]
           /\ NextCommit \in DOMAIN commits' /\ commits'[NextCommit] = c
<1>1. PICK S : commits \in Seq(S)
  OBVIOUS
<1> DEFINE T == S \cup {c}
<1>2. commits \in Seq(T) /\ c \in T
  BY <1>1
<1>3. /\ commits' \in Seq(T) /\ Len(commits) \in Nat /\ Len(commits') = Len(commits) + 1
      /\ \A i \in 1 .. Len(commits) : commits'[i] = commits[i]
      /\ commits'[Len(commits) + 1] = c
      /\ DOMAIN commits = 1 .. Len(commits) /\ DOMAIN commits' = 1 .. Len(commits')
  <2> HIDE DEF T
  <2> QED  BY <1>2, AppendProperties
<1> HIDE DEF T
<1> QED  BY <1>3 DEF NextCommit

\* apply_block_edit on the chapter, with a root that binds the edited text.
LEMMA EditKeepsChapter ==
    ASSUME ChapterSound, NEW seen, NEW text \in Seq(Characters),
           ApplyBlockEdit(seen, Target, text, WithText(View(doc, block), text)),
           Len(commits) < MaxCommits
    PROVE  /\ ChapterSound' /\ HistoryGrows
           /\ NextCommit \in DOMAIN commits'
           /\ commits'[NextCommit].parent = project.head
           /\ commits'[NextCommit].root = WithText(View(doc, block), text)
<1> DEFINE root == WithText(View(doc, block), text)
           c == [parent |-> project.head, root |-> root]
<1>1. /\ block' = [block EXCEPT ![Target].text = text, ![Target].revision = @ + 1]
      /\ doc' = [doc EXCEPT ![Target].revision = @ + 1]
      /\ commits' = Append(commits, c)
      /\ project' = [head |-> NextCommit, revision |-> project.revision + 1]
      /\ snapshots' = snapshots
  BY Zenon DEF ApplyBlockEdit, MakeCommit
<1>2. c.parent = project.head /\ c.root = root
  OBVIOUS
<1>3. /\ doc \in [Docs -> DocRecord] /\ block \in [Docs -> TextBlock]
      /\ Target \in Docs /\ Target \in ActiveBlocks(doc, block)
      /\ project \in [head : Nat, revision : Nat]
      /\ \E S : commits \in Seq(S)
  BY TargetIsDocument DEF ChapterSound
<1> HIDE DEF c
<1>4. /\ \E S : commits' \in Seq(S)
      /\ Len(commits) \in Nat /\ Len(commits') = Len(commits) + 1
      /\ DOMAIN commits \subseteq DOMAIN commits'
      /\ \A i \in DOMAIN commits : commits'[i] = commits[i]
      /\ NextCommit \in DOMAIN commits' /\ commits'[NextCommit] = c
  BY <1>1, <1>3, CommitAppended
<1>5. /\ doc' \in [Docs -> DocRecord] /\ block' \in [Docs -> TextBlock]
      /\ \A d \in Docs : /\ doc'[d].status = doc[d].status /\ Meta(doc'[d]) = Meta(doc[d])
                         /\ block'[d].active = block[d].active
                         /\ d # Target => block'[d].text = block[d].text
      /\ block'[Target].text = text
  BY SMTT(30), <1>1, <1>3 DEF DocRecord, TextBlock, Meta
<1>6. View(doc', block') = root /\ Target \in ActiveBlocks(doc', block')
  <2>1. TextOnly(doc, doc', block, block')
    BY <1>5 DEF TextOnly
  <2> QED  BY <1>3, <1>5, <2>1, TextShows
<1>7. project' \in [head : Nat, revision : Nat] /\ project'.head = NextCommit
  BY <1>1, <1>3, <1>4 DEF NextCommit
<1>8. Len(commits') <= MaxCommits
  BY <1>4, CommitBound
<1>9. ChapterSound'
  BY <1>2, <1>4, <1>5, <1>6, <1>7, <1>8 DEF ChapterSound
<1>10. HistoryGrows
  BY <1>1, <1>4 DEF HistoryGrows
<1> QED  BY <1>2, <1>4, <1>9, <1>10

\* A candidate commit, which main does not move to.
LEMMA CandidateKeepsChapter ==
    ASSUME ChapterSound, NEW parent, NEW root, CandidateCommit(parent, root),
           doc' = doc, block' = block, snapshots \subseteq snapshots', Len(commits) < MaxCommits
    PROVE  /\ ChapterSound' /\ HistoryGrows
           /\ NextCommit \in DOMAIN commits'
           /\ commits'[NextCommit].parent = parent
           /\ commits'[NextCommit].root = root
<1> DEFINE c == [parent |-> parent, root |-> root]
<1>1. commits' = Append(commits, c) /\ project' = project /\ c.parent = parent /\ c.root = root
  BY DEF CandidateCommit
<1> HIDE DEF c
<1>2. /\ \E S : commits' \in Seq(S)
      /\ Len(commits) \in Nat /\ Len(commits') = Len(commits) + 1
      /\ DOMAIN commits \subseteq DOMAIN commits'
      /\ \A i \in DOMAIN commits : commits'[i] = commits[i]
      /\ NextCommit \in DOMAIN commits' /\ commits'[NextCommit] = c
  BY <1>1, CommitAppended DEF ChapterSound
<1>3. Len(commits') <= MaxCommits
  BY <1>2, CommitBound
<1>4. ChapterSound'
  <2>1. View(doc', block') = View(doc, block)
    OBVIOUS
  <2>2. ActiveBlocks(doc', block') = ActiveBlocks(doc, block)
    OBVIOUS
  <2> QED  BY <1>1, <1>2, <1>3, <2>1, <2>2 DEF ChapterSound
<1>5. HistoryGrows
  BY <1>2 DEF HistoryGrows
<1> QED  BY <1>1, <1>2, <1>4, <1>5

\* Saving the chapter past the review.
LEMMA WriteKeepsChapter ==
    ASSUME ChapterSound, NEW text \in Texts, SaveBlock(Now, Target, text),
           Len(commits) < MaxCommits
    PROVE  ChapterSound' /\ HistoryGrows
<1> DEFINE edited == [block EXCEPT ![Target].text = text]
<1>1. /\ doc \in [Docs -> DocRecord] /\ block \in [Docs -> TextBlock]
      /\ Target \in Docs /\ Target \in ActiveBlocks(doc, block)
      /\ text \in Seq(Characters)
  BY TargetIsDocument, TextsAreTexts DEF ChapterSound
<1>2. Now.doc = doc /\ Now.block = block
  BY DEF Now
<1>3. ApplyBlockEdit(Now, Target, text, View(doc, edited))
  BY <1>2, Zenon DEF SaveBlock
<1>4. /\ edited \in [Docs -> TextBlock] /\ edited[Target].text = text
      /\ \A d \in Docs : /\ edited[d].active = block[d].active
                         /\ d # Target => edited[d].text = block[d].text
  BY <1>1 DEF TextBlock
<1> HIDE DEF edited
<1>5. View(doc, edited) = WithText(View(doc, block), text)
  <2>1. TextOnly(doc, doc, block, edited)
    BY <1>4 DEF TextOnly
  <2> QED  BY <1>1, <1>4, <2>1, TextShows
<1>6. ApplyBlockEdit(Now, Target, text, WithText(View(doc, block), text))
  BY <1>3, <1>5, Zenon
<1> QED  BY <1>1, <1>6, EditKeepsChapter

-----------------------------------------------------------------------------
(* One step at a time *)

\* Whatever a step does not write itself stays right.
LEMMA RestStays ==
    ASSUME ReviewInvariant, HistoryGrows, \A r \in Runs : ReviewGrows(r),
           NEW rs, NEW ps, NEW ts,
           \A r \in Runs \ rs : /\ review'[r] = review[r] /\ receipt'[r] = receipt[r]
                                /\ branch'[r] = branch[r],
           \A p \in Pages \ ps : page'[p] = page[p],
           \A p \in Pages \ ts : task'[p] = task[p]
    PROVE  /\ \A r \in Runs \ rs : ReviewSound(r)' /\ AppliedSound(r)' /\ BranchSound(r)'
           /\ \A p \in Pages \ ps : PageSound(p)'
           /\ \A p \in Pages \ ts : TaskSound(p)'
<1>1. review \in [Runs -> ReviewRecord]
  BY DEF ReviewInvariant, AuditInvariant, OpTypeOK
<1>2. ASSUME NEW r \in Runs \ rs
      PROVE  ReviewSound(r)' /\ AppliedSound(r)' /\ BranchSound(r)'
  <2>1. /\ ReviewSound(r) /\ AppliedSound(r) /\ BranchSound(r) /\ ReviewGrows(r)
        /\ review'[r] = review[r] /\ receipt'[r] = receipt[r] /\ branch'[r] = branch[r]
    BY <1>2 DEF ReviewInvariant
  <2>2. ReviewSound(r)'
    <3>1. CASE Reviewed(r)
      BY <2>1, <3>1, ReviewStays
    <3>2. CASE ~Reviewed(r)
      BY <2>1, <3>2 DEF ReviewSound, Reviewed
    <3> QED  BY <3>1, <3>2
  <2>3. AppliedSound(r)'
    <3>1. IF review[r].status = "applied" THEN Reviewed(r) ELSE review'[r].status # "applied"
      BY <2>1 DEF Reviewed
    <3> QED  BY <2>1, <3>1, AppliedStays
  <2>4. review[r].log \in Seq(ReviewEvent)
    BY <1>1 DEF ReviewRecord
  <2> QED  BY <2>1, <2>2, <2>3, <2>4, BranchStays
<1>3. ASSUME NEW p \in Pages \ ps PROVE PageSound(p)'
  <2>1. page[p].open # NoCommit => page[p].open \in Runs
    BY DEF ReviewInvariant, RvTypeOK
  <2>2. PageSound(p) /\ page'[p] = page[p]
    BY DEF ReviewInvariant
  <2> QED  BY <1>1, <2>1, <2>2, PageStays
<1>4. ASSUME NEW p \in Pages \ ts PROVE TaskSound(p)'
  <2>1. TaskSound(p) /\ task'[p] = task[p]
    BY DEF ReviewInvariant
  <2> QED  BY <1>1, <2>1, TaskStays
<1> QED  BY <1>2, <1>3, <1>4

\* What append_review_event_in_transaction does to the runs and their reviews.
LEMMA AppendGrows ==
    ASSUME AuditInvariant, NEW r \in Runs, NEW c \in AnyReviewCommand, AppendReviewEvent(r, c),
           proposal' = proposal
    PROVE  /\ AuditInvariant'
           /\ \A q \in Runs : ReviewGrows(q) /\ run'[q].base = run[q].base
           /\ \A q \in Runs \ {r} : review'[q] = review[q]
           /\ review[r].status = c.expectedStatus /\ review[r].revision = c.expectedRevision
           /\ review[r].status \notin {"none", "applied"}
           /\ review[r].log \in Seq(ReviewEvent) /\ Len(review[r].log) = review[r].revision
           /\ review'[r].revision = review[r].revision + 1 /\ review'[r].status = c.nextStatus
           /\ DecisionsOf(r)' = IF c.kind = "decision"
                                THEN DecideHunk(proposal[r].hunks, DecisionsOf(r), c.hunk,
                                                c.decision)
                                ELSE DecisionsOf(r)
<1> DEFINE e == EventOf(c, review[r])
           head == [ revision |-> review[r].revision + 1, status |-> c.nextStatus,
                     log |-> Append(review[r].log, e) ]
<1>1. AuditInvariant'
  BY AppendKeepsAudit
<1>2. /\ review \in [Runs -> ReviewRecord] /\ run \in [Runs -> RunRecord]
      /\ review[r].status # "none" => ReplaysLog(review[r])
  BY DEF AuditInvariant, OpTypeOK, ReviewHeadReplaysLog
<1>3. /\ review[r].status # "none" /\ review[r].status = c.expectedStatus
      /\ review[r].revision = c.expectedRevision
      /\ ReviewHeadGuard(review[r].status, c.nextStatus)
      /\ UpdateOperationStateForReview(r, c.nextStatus)
      /\ review' = [review EXCEPT ![r] = head]
  BY DEF AppendReviewEvent
<1>4. review[r].status # "applied"
  BY <1>3 DEF ReviewHeadGuard
<1>5. /\ e \in ReviewEvent /\ e.kind = c.kind /\ e.hunk = c.hunk /\ e.decision = c.decision
  <2>1. review[r].revision \in Nat /\ review[r].status \in ReviewStatuses
    BY <1>2, <1>3 DEF ReviewRecord
  <2> QED  BY <2>1 DEF EventOf, ReviewEvent, AnyReviewCommand
<1>6. /\ head.revision = review[r].revision + 1 /\ head.status = c.nextStatus
      /\ head.log = Append(review[r].log, e)
  OBVIOUS
<1> HIDE DEF head, e
<1>7. review'[r] = head /\ \A q \in Runs \ {r} : review'[q] = review[q]
  BY <1>2, <1>3
<1>8. \A q \in Runs : run'[q].base = run[q].base
  <2>1. run[r] \in RunRecord
    BY <1>2
  <2>2. PICK current, desired :
           \/ run' = run
           \/ run' = [run EXCEPT ![r].state = desired,
                         ![r].lifecycle = Append(@, [from |-> current, to |-> desired])]
    BY <1>3, Zenon DEF UpdateOperationStateForReview
  <2>3. CASE run' = run
    BY <2>3
  <2>4. CASE run' = [run EXCEPT ![r].state = desired,
                        ![r].lifecycle = Append(@, [from |-> current, to |-> desired])]
    <3> DEFINE more == Append(run[r].lifecycle, [from |-> current, to |-> desired])
    <3>1. run' = [run EXCEPT ![r] = [run[r] EXCEPT !.state = desired, !.lifecycle = more]]
      BY <1>2, <2>1, <2>4
    <3> HIDE DEF more
    <3>2. [run[r] EXCEPT !.state = desired, !.lifecycle = more].base = run[r].base
      BY <2>1 DEF RunRecord
    <3> QED  BY <1>2, <3>1, <3>2
  <2> QED  BY <2>2, <2>3, <2>4
<1>9. review[r].log \in Seq(ReviewEvent) /\ Len(review[r].log) = review[r].revision
  BY <1>2, <1>3 DEF ReplaysLog, ReviewRecord
<1>10. c.nextStatus # "none"
  BY DEF AnyReviewCommand, ReviewStatuses
<1>11. \A q \in Runs : ReviewGrows(q)
  BY <1>3, <1>4, <1>5, <1>6, <1>7, <1>8, <1>10 DEF ReviewGrows
<1>12. DecisionsOf(r)' = AfterEvent(proposal[r].hunks, DecisionsOf(r), e)
  <2>1. Replay(proposal[r].hunks, Append(review[r].log, e))
           = AfterEvent(proposal[r].hunks, Replay(proposal[r].hunks, review[r].log), e)
    BY <1>5, <1>9, ReplayAppend
  <2> QED  BY <2>1, <1>6, <1>7 DEF DecisionsOf
<1>13. DecisionsOf(r)' = IF c.kind = "decision"
                         THEN DecideHunk(proposal[r].hunks, DecisionsOf(r), c.hunk, c.decision)
                         ELSE DecisionsOf(r)
  BY <1>5, <1>12 DEF AfterEvent
<1> QED
  BY <1>1, <1>3, <1>4, <1>6, <1>7, <1>8, <1>9, <1>11, <1>13

LEMMA DecideHunkDecides ==
    ASSUME NEW hunks, NEW ids, NEW decisions \in [ids -> {"pending"} \cup Decided], NEW id,
           NEW decision \in Decided
    PROVE  DecideHunk(hunks, decisions, id, decision) \in [ids -> {"pending"} \cup Decided]
BY DEF DecideHunk

\* The text, the page and the task of other pages are left alone.
LEMMA NothingWritten ==
    ASSUME ReviewInvariant, UNCHANGED storeVars
    PROVE  ChapterSound' /\ HistoryGrows
<1>1. /\ project' = project /\ commits' = commits /\ doc' = doc /\ block' = block
      /\ snapshots' = snapshots
  BY DEF storeVars
<1>2. View(doc', block') = View(doc, block) /\ ActiveBlocks(doc', block') = ActiveBlocks(doc, block)
  BY <1>1
<1>3. ChapterSound
  BY DEF ReviewInvariant
<1> QED  BY <1>1, <1>2, <1>3 DEF ChapterSound, HistoryGrows

\* decidePatchHunk on a page, and its host command.
LEMMA DecideKeeps ==
    ASSUME ReviewInvariant, NEW p \in Pages, NEW id \in Hunks, NEW decision \in Decided,
           page[p].open # NoCommit, DecideOn(p, id, decision), task' = task
    PROVE  ReviewInvariant'
<1>1. PICK r \in Runs : r = page[p].open
  BY DEF ReviewInvariant, RvTypeOK
<1>2. PICK s : s = page[p]
  OBVIOUS
<1>3. PICK decisions : decisions = DecideHunk(proposal[r].hunks, s.decisions, id, decision)
  OBVIOUS
<1>4. PICK next : next = NextStatus(decisions)
  OBVIOUS
<1> DEFINE c == [ expectedRevision |-> s.revision, expectedStatus |-> s.status,
                  kind |-> "decision", nextStatus |-> next, hunk |-> id,
                  decision |-> decision ]
<1>5. /\ AppendReviewEvent(r, c)
      /\ page' = [page EXCEPT ![p].revision = @ + 1, ![p].status = next,
                              ![p].decisions = decisions]
      /\ UNCHANGED storeVars /\ proposal' = proposal /\ receipt' = receipt /\ branch' = branch
  BY <1>1, <1>2, <1>3, <1>4, Zenon DEF DecideOn
<1>6. /\ s.open = r
      /\ s = [ open |-> s.open, revision |-> s.revision, status |-> s.status,
               decisions |-> s.decisions, branched |-> s.branched ]
      /\ Reviewed(r) /\ s.revision \in Nat /\ s.status \in ReviewStatuses
      /\ s.revision = review[r].revision =>
            s.status = review[r].status /\ s.decisions = DecisionsOf(r)
  BY <1>1, <1>2 DEF ReviewInvariant, PageSound, RvTypeOK
<1>7. next \in {"ready", "review"} /\ (next = "ready" <=> AllDecided(decisions))
  BY <1>4 DEF NextStatus
<1>8. c \in AnyReviewCommand
  BY <1>6, <1>7 DEF AnyReviewCommand, ReviewStatuses, EventKinds, Decided, Decisions
<1>9. /\ c.kind = "decision" /\ c.nextStatus = next /\ c.hunk = id /\ c.decision = decision
      /\ c.expectedRevision = s.revision
  OBVIOUS
<1> HIDE DEF c
<1>10. /\ AuditInvariant'
       /\ \A q \in Runs : ReviewGrows(q) /\ run'[q].base = run[q].base
       /\ \A q \in Runs \ {r} : review'[q] = review[q]
       /\ review[r].revision = s.revision /\ review[r].status # "applied"
       /\ review[r].log \in Seq(ReviewEvent)
       /\ review'[r].revision = review[r].revision + 1 /\ review'[r].status = next
       /\ DecisionsOf(r)' = DecideHunk(proposal[r].hunks, DecisionsOf(r), id, decision)
  BY <1>5, <1>8, <1>9, AppendGrows DEF ReviewInvariant
<1>11. DecisionsOf(r)' = decisions
  BY <1>3, <1>6, <1>10
<1>12. ChapterSound' /\ HistoryGrows
  BY <1>5, NothingWritten
<1>13. ReviewSound(r) /\ AppliedSound(r) /\ BranchSound(r)
  BY DEF ReviewInvariant
<1>14. ReviewSound(r)'
  <2>1. /\ ValidHunks(proposal[r].text, proposal[r], proposal[r].hunks)
        /\ run[r].base \in DOMAIN commits
        /\ DecisionsOf(r) \in [Ids(r) -> {"pending"} \cup Decided]
    BY <1>6, <1>13 DEF ReviewSound
  <2>2. Ids(r)' = Ids(r) /\ proposal'[r] = proposal[r] /\ run'[r].base = run[r].base
    BY <1>5, <1>10 DEF Ids
  <2>3. decisions \in [Ids(r) -> {"pending"} \cup Decided]
    <3>1. PICK before : before = DecisionsOf(r)
      OBVIOUS
    <3>2. before \in [Ids(r) -> {"pending"} \cup Decided]
      BY <2>1, <3>1
    <3>3. decisions = DecideHunk(proposal[r].hunks, before, id, decision)
      BY <1>10, <1>11, <3>1
    <3> QED  BY <3>2, <3>3, DecideHunkDecides, Zenon
  <2>4. Consistent(next, decisions)
    BY <1>7 DEF Consistent
  <2>5. run[r].base \in DOMAIN commits'
    BY <2>1, <1>12 DEF HistoryGrows
  <2> QED  BY <2>1, <2>2, <2>3, <2>4, <2>5, <1>10, <1>11 DEF ReviewSound
<1>15. AppliedSound(r)'
  BY <1>5, <1>7, <1>10, <1>12, <1>13, AppliedStays
<1>16. BranchSound(r)'
  BY <1>5, <1>10, <1>12, <1>13, BranchStays
<1>17. /\ \A q \in Runs \ {r} : ReviewSound(q)' /\ AppliedSound(q)' /\ BranchSound(q)'
       /\ \A q \in Pages \ {p} : PageSound(q)'
       /\ \A q \in Pages \ {} : TaskSound(q)'
  <2>1. \A q \in Pages \ {p} : page'[q] = page[q]
    <3>1. page = [q \in Pages |-> page[q]]
      BY DEF ReviewInvariant
    <3> QED  BY <3>1, <1>5
  <2>2. \A q \in Pages \ {} : task'[q] = task[q]
    OBVIOUS
  <2>3. \A q \in Runs \ {r} : /\ review'[q] = review[q] /\ receipt'[q] = receipt[q]
                              /\ branch'[q] = branch[q]
    BY <1>5, <1>10
  <2> QED  BY <2>1, <2>2, <2>3, <1>10, <1>12, RestStays
<1>18. /\ page' = [q \in Pages |-> page'[q]]
       /\ page'[p] = [ open |-> r, revision |-> s.revision + 1, status |-> next,
                       decisions |-> decisions, branched |-> s.branched ]
       /\ \A q \in Pages \ {p} : page'[q] = page[q]
  <2>1. page = [q \in Pages |-> page[q]]
    BY DEF ReviewInvariant
  <2>2. page' = [page EXCEPT ![p] = [page[p] EXCEPT !.revision = @ + 1, !.status = next,
                                                    !.decisions = decisions]]
    BY <2>1, <1>2, <1>5, <1>6
  <2>3. [page[p] EXCEPT !.revision = @ + 1, !.status = next, !.decisions = decisions]
           = [ open |-> r, revision |-> s.revision + 1, status |-> next,
               decisions |-> decisions, branched |-> s.branched ]
    <3>1. PICK rev, st, ds, br : /\ rev = s.revision /\ st = s.status /\ ds = s.decisions
                                 /\ br = s.branched
      OBVIOUS
    <3>2. s \in [ open : {r}, revision : {rev}, status : {st}, decisions : {ds},
                  branched : {br} ]
      BY <1>6, <3>1
    <3>3. PICK x : x = [s EXCEPT !.revision = rev + 1, !.status = next, !.decisions = decisions]
      OBVIOUS
    <3>4. x \in [ open : {r}, revision : {rev + 1}, status : {next}, decisions : {decisions},
                  branched : {br} ]
      BY <3>2, <3>3
    <3>5. x = [ open |-> r, revision |-> rev + 1, status |-> next, decisions |-> decisions,
                branched |-> br ]
      BY <3>4
    <3> QED  BY <1>2, <3>1, <3>3, <3>5, Zenon
  <2> QED  BY <2>1, <2>2, <2>3
<1>19. Reviewed(r)'
  BY <1>6, <1>10 DEF ReviewGrows, Reviewed
<1>20. PageSound(p)'
  <2>1. s.revision + 1 \in Nat /\ s.revision + 1 = review'[r].revision
    BY <1>6, <1>10
  <2> QED  BY <2>1, <1>10, <1>11, <1>18, <1>19 DEF PageSound
<1>21. RvTypeOK'
  <2>1. \A q \in Runs : Reviewed(q)' <=> Reviewed(q)
    BY <1>6, <1>10, <1>19 DEF Reviewed
  <2>2. \A q \in Pages : /\ page'[q].open \in Runs \cup {NoCommit}
                         /\ page'[q].status \in ReviewStatuses
    BY <1>7, <1>18 DEF ReviewInvariant, RvTypeOK, ReviewStatuses
  <2> QED  BY <2>1, <2>2, <1>5 DEF ReviewInvariant, RvTypeOK
<1> QED
  BY <1>5, <1>10, <1>12, <1>14, <1>15, <1>16, <1>17, <1>18, <1>20, <1>21 DEF ReviewInvariant

\* rejectCurrentReview, and its host command.
LEMMA RejectKeeps ==
    ASSUME ReviewInvariant, NEW p \in Pages, Reject(p)
    PROVE  ReviewInvariant'
<1>1. PICK r \in Runs : r = page[p].open
  BY DEF ReviewInvariant, RvTypeOK, Reject, Ready
<1>2. PICK s : s = page[p]
  OBVIOUS
<1> DEFINE c == [ expectedRevision |-> s.revision, expectedStatus |-> s.status,
                  kind |-> "reject", nextStatus |-> "rejected", hunk |-> NoHunk,
                  decision |-> "none" ]
<1>3. /\ AppendReviewEvent(r, c)
      /\ page' = [page EXCEPT ![p] = Closed]
      /\ UNCHANGED storeVars /\ proposal' = proposal /\ receipt' = receipt /\ branch' = branch
      /\ task' = task
  BY <1>1, <1>2, Zenon DEF Reject
<1>4. Reviewed(r) /\ s.revision \in Nat /\ s.status \in ReviewStatuses
  BY <1>1, <1>2 DEF ReviewInvariant, PageSound, RvTypeOK, Reject, Ready
<1>5. c \in AnyReviewCommand
  BY <1>4 DEF AnyReviewCommand, ReviewStatuses, EventKinds
<1>6. c.kind # "decision" /\ c.nextStatus = "rejected"
  OBVIOUS
<1> HIDE DEF c
<1>7. /\ AuditInvariant'
      /\ \A q \in Runs : ReviewGrows(q) /\ run'[q].base = run[q].base
      /\ \A q \in Runs \ {r} : review'[q] = review[q]
      /\ review[r].status # "applied" /\ review[r].log \in Seq(ReviewEvent)
      /\ review'[r].status = "rejected"
      /\ DecisionsOf(r)' = DecisionsOf(r)
  BY <1>3, <1>5, <1>6, AppendGrows DEF ReviewInvariant
<1>8. ChapterSound' /\ HistoryGrows
  BY <1>3, NothingWritten
<1>9. ReviewSound(r) /\ AppliedSound(r) /\ BranchSound(r)
  BY DEF ReviewInvariant
<1>10. ReviewSound(r)'
  <2>1. /\ ValidHunks(proposal[r].text, proposal[r], proposal[r].hunks)
        /\ run[r].base \in DOMAIN commits'
        /\ DecisionsOf(r) \in [Ids(r) -> {"pending"} \cup Decided]
    BY <1>4, <1>8, <1>9 DEF ReviewSound, HistoryGrows
  <2>2. Ids(r)' = Ids(r) /\ proposal'[r] = proposal[r] /\ run'[r].base = run[r].base
    BY <1>3, <1>7 DEF Ids
  <2>3. Consistent("rejected", DecisionsOf(r))
    BY DEF Consistent
  <2> QED  BY <2>1, <2>2, <2>3, <1>7 DEF ReviewSound
<1>11. AppliedSound(r)'
  BY <1>3, <1>7, <1>8, <1>9, AppliedStays
<1>12. BranchSound(r)'
  BY <1>3, <1>7, <1>8, <1>9, BranchStays
<1>13. /\ page' = [q \in Pages |-> page'[q]] /\ page'[p] = Closed
       /\ \A q \in Pages \ {p} : page'[q] = page[q]
  <2>1. page = [q \in Pages |-> page[q]]
    BY DEF ReviewInvariant
  <2> QED  BY <2>1, <1>3
<1>14. /\ \A q \in Runs \ {r} : ReviewSound(q)' /\ AppliedSound(q)' /\ BranchSound(q)'
       /\ \A q \in Pages \ {p} : PageSound(q)'
       /\ \A q \in Pages \ {} : TaskSound(q)'
  <2>1. \A q \in Pages \ {} : task'[q] = task[q]
    BY <1>3
  <2>2. \A q \in Runs \ {r} : /\ review'[q] = review[q] /\ receipt'[q] = receipt[q]
                              /\ branch'[q] = branch[q]
    BY <1>3, <1>7
  <2> QED  BY <2>1, <2>2, <1>7, <1>8, <1>13, RestStays
<1>15. PageSound(p)'
  BY <1>13 DEF PageSound, Closed
<1>16. RvTypeOK'
  <2>1. \A q \in Runs : Reviewed(q)' <=> Reviewed(q)
    BY <1>4, <1>7 DEF Reviewed
  <2>2. \A q \in Pages : /\ page'[q].open \in Runs \cup {NoCommit}
                         /\ page'[q].status \in ReviewStatuses
    <3>1. Closed.open = NoCommit /\ Closed.status \in ReviewStatuses
      BY DEF Closed, ReviewStatuses
    <3>2. \A q \in Pages : /\ page[q].open \in Runs \cup {NoCommit}
                           /\ page[q].status \in ReviewStatuses
      BY DEF ReviewInvariant, RvTypeOK
    <3> QED  BY <1>13, <3>1, <3>2
  <2> QED  BY <2>1, <2>2, <1>3 DEF ReviewInvariant, RvTypeOK
<1> QED
  BY <1>3, <1>7, <1>8, <1>10, <1>11, <1>12, <1>13, <1>14, <1>15, <1>16 DEF ReviewInvariant

-----------------------------------------------------------------------------
(* Pages that look and handlers that read *)

\* A step of one page that writes neither table nor text.
LEMMA LookingKeeps ==
    ASSUME ReviewInvariant, UNCHANGED <<opVars, storeVars, proposal, receipt, branch>>,
           NEW p \in Pages,
           \/ page' = page
           \/ /\ \E s : page' = [page EXCEPT ![p] = s]
              /\ PageSound(p)'
              /\ page'[p].open \in Runs \cup {NoCommit} /\ page'[p].status \in ReviewStatuses,
           NEW t, task' = [task EXCEPT ![p] = t],
           \/ t.kind \in {"idle"} \cup Decided /\ t = [kind |-> t.kind, todo |-> << >>]
           \/ t.kind \in {"open", "apply", "branch"} /\ HandlerSound(t)
    PROVE  ReviewInvariant'
<1>1. /\ run' = run /\ review' = review /\ UNCHANGED storeVars
      /\ proposal' = proposal /\ receipt' = receipt /\ branch' = branch
  BY DEF opVars
<1>2. ChapterSound' /\ HistoryGrows
  BY <1>1, NothingWritten
<1>3. \A r \in Runs : ReviewGrows(r)
  BY <1>1 DEF ReviewGrows
<1>4. /\ task' = [q \in Pages |-> task'[q]] /\ task'[p] = t
      /\ \A q \in Pages \ {p} : task'[q] = task[q]
  <2>1. task = [q \in Pages |-> task[q]]
    BY DEF ReviewInvariant
  <2> QED  BY <2>1
<1>5. /\ page' = [q \in Pages |-> page'[q]]
      /\ \A q \in Pages \ {p} : page'[q] = page[q]
  <2>1. page = [q \in Pages |-> page[q]]
    BY DEF ReviewInvariant
  <2>2. CASE page' = page
    BY <2>1, <2>2
  <2>3. ASSUME NEW s, page' = [page EXCEPT ![p] = s]
        PROVE  /\ page' = [q \in Pages |-> page'[q]]
               /\ \A q \in Pages \ {p} : page'[q] = page[q]
    BY <2>1, <2>3
  <2> QED  BY <2>2, <2>3
<1>6. /\ \A r \in Runs \ {} : ReviewSound(r)' /\ AppliedSound(r)' /\ BranchSound(r)'
      /\ \A q \in Pages \ {p} : PageSound(q)'
      /\ \A q \in Pages \ {p} : TaskSound(q)'
  <2>1. \A r \in Runs \ {} : /\ review'[r] = review[r] /\ receipt'[r] = receipt[r]
                             /\ branch'[r] = branch[r]
    BY <1>1
  <2> QED  BY <2>1, <1>2, <1>3, <1>4, <1>5, RestStays
<1>7. /\ PageSound(p)'
      /\ page'[p].open \in Runs \cup {NoCommit} /\ page'[p].status \in ReviewStatuses
  <2>1. CASE page' = page
    <3>1. page'[p] = page[p]
      BY <2>1
    <3>2. /\ page[p].open \in Runs \cup {NoCommit} /\ page[p].status \in ReviewStatuses
          /\ PageSound(p) /\ review \in [Runs -> ReviewRecord]
      BY DEF ReviewInvariant, RvTypeOK, AuditInvariant, OpTypeOK
    <3>3. page[p].open # NoCommit => page[p].open \in Runs /\ ReviewGrows(page[p].open)
      BY <1>3, <3>2
    <3> QED  BY <3>1, <3>2, <3>3, PageStays
  <2> QED  BY <2>1
<1>8. TaskSound(p)'
  <2>1. CASE t.kind \in {"open", "apply", "branch"} /\ HandlerSound(t)
    <3>1. review \in [Runs -> ReviewRecord] /\ ReviewGrows(t.of)
      BY <1>3, <2>1 DEF ReviewInvariant, AuditInvariant, OpTypeOK, HandlerSound
    <3>2. HandlerSound(t)'
      BY <1>2, <2>1, <3>1, HandlerStays
    <3> QED  BY <1>4, <2>1, <3>2 DEF TaskSound
  <2>2. CASE t.kind \in {"idle"} \cup Decided /\ t = [kind |-> t.kind, todo |-> << >>]
    BY <1>4, <2>2 DEF TaskSound
  <2> QED  BY <2>1, <2>2
<1>9. AuditInvariant'
  BY <1>1 DEF ReviewInvariant, AuditInvariant, OpTypeOK, RunStateEndsLifecycle,
     ReviewHeadReplaysLog, RunFollowsReview, OutcomeMatchesRecords, Present
<1>10. RvTypeOK'
  <2>1. \A q \in Pages : /\ page'[q].open \in Runs \cup {NoCommit}
                         /\ page'[q].status \in ReviewStatuses
    BY <1>5, <1>7 DEF ReviewInvariant, RvTypeOK
  <2>2. \A q \in Pages : task'[q].kind \in Decided \cup {"idle", "open", "apply", "branch"}
    BY <1>4 DEF ReviewInvariant, RvTypeOK
  <2> QED  BY <2>1, <2>2, <1>1 DEF ReviewInvariant, RvTypeOK, Reviewed
<1> QED
  BY <1>1, <1>2, <1>4, <1>5, <1>6, <1>7, <1>8, <1>9, <1>10 DEF ReviewInvariant

LEMMA PlanningKeeps ==
    ASSUME ReviewInvariant, NEW p \in Pages, BeginDecideAll(p) \/ EndDecideAll(p) \/ Refuse(p)
    PROVE  ReviewInvariant'
<1>1. /\ UNCHANGED <<opVars, storeVars, proposal, receipt, branch>> /\ page' = page
      /\ \E t : /\ task' = [task EXCEPT ![p] = t]
                /\ t.kind \in {"idle"} \cup Decided /\ t = [kind |-> t.kind, todo |-> << >>]
  BY DEF BeginDecideAll, EndDecideAll, Refuse, Idle
<1> QED  BY <1>1, LookingKeeps

LEMMA LeaveKeeps ==
    ASSUME ReviewInvariant, NEW p \in Pages, Leave(p)
    PROVE  ReviewInvariant'
<1>1. /\ UNCHANGED <<opVars, storeVars, proposal, receipt, branch>>
      /\ page' = [page EXCEPT ![p] = Closed] /\ task' = [task EXCEPT ![p] = Idle]
      /\ page = [q \in Pages |-> page[q]]
  BY DEF Leave, ReviewInvariant
<1>2. page'[p] = Closed
  BY <1>1
<1>3. PageSound(p)'
  BY <1>2 DEF PageSound, Closed
<1>4. page'[p].open \in Runs \cup {NoCommit} /\ page'[p].status \in ReviewStatuses
  BY <1>2 DEF Closed, ReviewStatuses
<1>5. Idle.kind \in {"idle"} \cup Decided /\ Idle = [kind |-> Idle.kind, todo |-> << >>]
  BY DEF Idle
<1> QED  BY <1>1, <1>3, <1>4, <1>5, LookingKeeps

LEMMA UnreadAtFirst ==
    ASSUME NEW kind \in {"open", "apply", "branch"}
    PROVE  /\ Reads(kind) \in Unread(kind)
           /\ ~SessionRead(Reads(kind)) /\ ~EventsRead(Reads(kind))
           /\ ~ProjectRead(kind, Reads(kind))
BY DEF Reads, Unread, SessionRead, EventsRead, ProjectRead

LEMMA BeginKeeps ==
    ASSUME ReviewInvariant, NEW p \in Pages, NEW r \in Runs, Reviewed(r),
           NEW kind \in {"open", "apply", "branch"}, Begin(p, r, kind),
           UNCHANGED <<opVars, storeVars, proposal, receipt, branch, page>>
    PROVE  ReviewInvariant'
<1> DEFINE t == [kind |-> kind, of |-> r, todo |-> Reads(kind), seen |-> NothingRead]
<1>1. task' = [task EXCEPT ![p] = t]
  BY DEF Begin
<1>2. t.kind = kind /\ t.of = r /\ t.todo = Reads(kind) /\ t.seen = NothingRead
  OBVIOUS
<1>3. t = [kind |-> t.kind, of |-> t.of, todo |-> t.todo, seen |-> t.seen]
  OBVIOUS
<1> HIDE DEF t
<1>4. IsSeen(NothingRead)
  BY DEF IsSeen, NothingRead
<1>5. HandlerSound(t)
  BY <1>2, <1>3, <1>4, UnreadAtFirst DEF HandlerSound
<1> QED  BY <1>1, <1>2, <1>5, LookingKeeps

LEMMA BeginningKeeps ==
    ASSUME ReviewInvariant, NEW p \in Pages,
           (\E r \in Runs : BeginOpen(p, r)) \/ BeginApply(p) \/ BeginBranch(p)
    PROVE  ReviewInvariant'
<1>1. ASSUME NEW r \in Runs, BeginOpen(p, r) PROVE ReviewInvariant'
  BY <1>1, BeginKeeps DEF BeginOpen, Reviewed
<1>2. ASSUME Ready(p), NEW kind \in {"apply", "branch"}, Begin(p, page[p].open, kind),
             UNCHANGED <<opVars, storeVars, proposal, receipt, branch, page>>
      PROVE  ReviewInvariant'
  <2>1. PICK r \in Runs : r = page[p].open
    BY <1>2 DEF ReviewInvariant, RvTypeOK, Ready
  <2>2. Reviewed(r)
    BY <1>2, <2>1 DEF ReviewInvariant, PageSound, Ready
  <2>3. Begin(p, r, kind)
    BY <1>2, <2>1
  <2> QED  BY <1>2, <2>2, <2>3, BeginKeeps
<1> QED  BY <1>1, <1>2 DEF BeginApply, BeginBranch

\* The statements a handler has yet to make come in an order: the session before
\* all others, and each of the others leaves alone what the other one read.
LEMMA UnreadStep ==
    ASSUME NEW kind \in {"open", "apply", "branch"}, NEW todo \in Unread(kind), todo # << >>
    PROVE  /\ Tail(todo) \in Unread(kind)
           /\ \/ /\ Head(todo) = "session"
                 /\ ~EventsRead(Tail(todo)) /\ ~ProjectRead(kind, Tail(todo))
              \/ /\ Head(todo) = "events" /\ SessionRead(todo)
                 /\ ProjectRead(kind, Tail(todo)) => ProjectRead(kind, todo)
              \/ /\ Head(todo) = "project" /\ SessionRead(todo)
                 /\ EventsRead(Tail(todo)) => EventsRead(todo)
<1> USE DEF Unread, SessionRead, EventsRead, ProjectRead
<1>1. CASE kind = "open"
  <2>1. CASE todo = << "session", "events" >>
    <3>1. Tail(todo) = << "events" >> /\ Head(todo) = "session"
      BY <2>1
    <3> QED  BY <3>1, <1>1
  <2>2. CASE todo = << "events" >>
    <3>1. Tail(todo) = << >> /\ Head(todo) = "events"
      BY <2>2
    <3> QED  BY <3>1, <1>1, <2>2
  <2> QED  BY <1>1, <2>1, <2>2
<1>2. CASE kind = "apply"
  <2>1. CASE todo = << "session", "project", "events" >>
    <3>1. Tail(todo) = << "project", "events" >> /\ Head(todo) = "session"
      BY <2>1
    <3> QED  BY <3>1, <1>2
  <2>2. CASE todo = << "project", "events" >>
    <3>1. Tail(todo) = << "events" >> /\ Head(todo) = "project"
      BY <2>2
    <3> QED  BY <3>1, <1>2, <2>2
  <2>3. CASE todo = << "events" >>
    <3>1. Tail(todo) = << >> /\ Head(todo) = "events"
      BY <2>3
    <3> QED  BY <3>1, <1>2, <2>3
  <2> QED  BY <1>2, <2>1, <2>2, <2>3
<1>3. CASE kind = "branch"
  <2>1. CASE todo = << "session", "events", "project" >>
    <3>1. Tail(todo) = << "events", "project" >> /\ Head(todo) = "session"
      BY <2>1
    <3> QED  BY <3>1, <1>3
  <2>2. CASE todo = << "events", "project" >>
    <3>1. Tail(todo) = << "project" >> /\ Head(todo) = "events"
      BY <2>2
    <3> QED  BY <3>1, <1>3, <2>2
  <2>3. CASE todo = << "project" >>
    <3>1. Tail(todo) = << >> /\ Head(todo) = "project"
      BY <2>3
    <3> QED  BY <3>1, <1>3, <2>3
  <2> QED  BY <1>3, <2>1, <2>2, <2>3
<1> QED  BY <1>1, <1>2, <1>3

\* What a statement reads, and that it leaves the rest.
Sees(seen, r, what, next) ==
    /\ IsSeen(next)
    /\ IF what = "session"
       THEN next.revision = review[r].revision /\ next.status = review[r].status
       ELSE next.revision = seen.revision /\ next.status = seen.status
    /\ next.decisions = IF what = "events" THEN DecisionsOf(r) ELSE seen.decisions
    /\ IF what = "project"
       THEN next.head = project.head /\ next.view = View(doc, block)
       ELSE next.head = seen.head /\ next.view = seen.view

LEMMA SeeingSees ==
    ASSUME NEW seen, IsSeen(seen), NEW r, NEW what \in {"session", "events", "project"},
           NEW next, next = Seeing(seen, r, what)
    PROVE  Sees(seen, r, what, next)
<1> USE DEF Sees
<1>1. PICK rev, st, ds, hd, pr, tx, br, vw :
         seen \in [ revision : {rev}, status : {st}, decisions : {ds}, head : {hd},
                    project : {pr}, text : {tx}, blockRevision : {br}, view : {vw} ]
  BY DEF IsSeen
<1>2. CASE what = "session"
  <2>1. PICK rev2, st2 : rev2 = review[r].revision /\ st2 = review[r].status
    OBVIOUS
  <2>2. next = [seen EXCEPT !.revision = rev2, !.status = st2]
    BY <1>2, <2>1 DEF Seeing
  <2>3. next \in [ revision : {rev2}, status : {st2}, decisions : {ds}, head : {hd},
                   project : {pr}, text : {tx}, blockRevision : {br}, view : {vw} ]
    BY <1>1, <2>2
  <2> QED  BY <1>1, <1>2, <2>1, <2>3 DEF IsSeen
<1>3. CASE what = "events"
  <2>1. PICK ds2 : ds2 = DecisionsOf(r)
    OBVIOUS
  <2>2. next = [seen EXCEPT !.decisions = ds2]
    BY <1>3, <2>1 DEF Seeing, DecisionsOf
  <2>3. next \in [ revision : {rev}, status : {st}, decisions : {ds2}, head : {hd},
                   project : {pr}, text : {tx}, blockRevision : {br}, view : {vw} ]
    BY <1>1, <2>2
  <2> QED  BY <1>1, <1>3, <2>1, <2>3 DEF IsSeen
<1>4. CASE what = "project"
  <2>1. PICK hd2, pr2, tx2, br2, vw2 :
           /\ hd2 = project.head /\ pr2 = project.revision /\ tx2 = block[Target].text
           /\ br2 = block[Target].revision /\ vw2 = View(doc, block)
    OBVIOUS
  <2>2. next = [seen EXCEPT !.head = hd2, !.project = pr2, !.text = tx2,
                            !.blockRevision = br2, !.view = vw2]
    BY <1>4, <2>1 DEF Seeing
  <2>3. next \in [ revision : {rev}, status : {st}, decisions : {ds}, head : {hd2},
                   project : {pr2}, text : {tx2}, blockRevision : {br2}, view : {vw2} ]
    BY <1>1, <2>2
  <2> QED  BY <1>1, <1>4, <2>1, <2>3 DEF IsSeen
<1> QED  BY <1>2, <1>3, <1>4

LEMMA ReadKeeps ==
    ASSUME ReviewInvariant, NEW p \in Pages, ReadNext(p)
    PROVE  ReviewInvariant'
<1>1. PICK t : t = task[p]
  OBVIOUS
<1>2. /\ t.todo # << >>
      /\ task' = [task EXCEPT ![p].todo = Tail(@),
                              ![p].seen = Seeing(@, t.of, Head(t.todo))]
      /\ UNCHANGED <<opVars, storeVars, proposal, receipt, branch, page>>
  BY <1>1 DEF ReadNext
<1>3. t.kind \in {"open", "apply", "branch"} /\ HandlerSound(t)
  <2>1. ~(t = [kind |-> t.kind, todo |-> << >>])
    BY <1>2
  <2> QED  BY <1>1, <2>1 DEF ReviewInvariant, TaskSound
<1>4. PICK kind, r, todo, seen :
         /\ t \in [kind : {kind}, of : {r}, todo : {todo}, seen : {seen}]
         /\ kind = t.kind /\ r = t.of /\ todo = t.todo /\ seen = t.seen
  BY <1>3 DEF HandlerSound
<1>5. PICK rest, next : rest = Tail(todo) /\ next = Seeing(seen, r, Head(todo))
  OBVIOUS
<1>6. PICK u : u = [t EXCEPT !.todo = rest, !.seen = next]
  OBVIOUS
<1>7. u \in [kind : {kind}, of : {r}, todo : {rest}, seen : {next}]
  BY <1>4, <1>6
<1>8. /\ u = [kind |-> u.kind, of |-> u.of, todo |-> u.todo, seen |-> u.seen]
      /\ u.kind = kind /\ u.of = r /\ u.todo = rest /\ u.seen = next
  BY <1>7
<1>9. task' = [task EXCEPT ![p] = u]
  <2>1. task = [q \in Pages |-> task[q]]
    BY DEF ReviewInvariant
  <2>2. task' = [task EXCEPT ![p].todo = rest, ![p].seen = next]
    BY <1>1, <1>2, <1>4, <1>5
  <2> QED  BY <2>1, <2>2, <1>1, <1>6
<1>10. /\ IsSeen(seen) /\ r \in Runs /\ Reviewed(r) /\ todo \in Unread(kind) /\ todo # << >>
       /\ kind \in {"open", "apply", "branch"}
       /\ SessionRead(todo) =>
             /\ seen.revision \in Nat /\ seen.revision <= review[r].revision
             /\ seen.revision = review[r].revision => seen.status = review[r].status
       /\ EventsRead(todo) =>
             (seen.revision = review[r].revision => seen.decisions = DecisionsOf(r))
       /\ ProjectRead(kind, todo) =>
             seen.head \in DOMAIN commits /\ seen.view = commits[seen.head].root
  BY <1>2, <1>3, <1>4 DEF HandlerSound
<1>11. /\ rest \in Unread(kind)
       /\ \/ /\ Head(todo) = "session" /\ ~EventsRead(rest) /\ ~ProjectRead(kind, rest)
          \/ /\ Head(todo) = "events" /\ SessionRead(todo)
             /\ ProjectRead(kind, rest) => ProjectRead(kind, todo)
          \/ /\ Head(todo) = "project" /\ SessionRead(todo)
             /\ EventsRead(rest) => EventsRead(todo)
  BY <1>5, <1>10, UnreadStep
<1>12. PICK what \in {"session", "events", "project"} : what = Head(todo)
  BY <1>11
<1>13. /\ IsSeen(next)
       /\ IF what = "session"
          THEN next.revision = review[r].revision /\ next.status = review[r].status
          ELSE next.revision = seen.revision /\ next.status = seen.status
       /\ next.decisions = IF what = "events" THEN DecisionsOf(r) ELSE seen.decisions
       /\ IF what = "project"
          THEN next.head = project.head /\ next.view = View(doc, block)
          ELSE next.head = seen.head /\ next.view = seen.view
  <2>1. next = Seeing(seen, r, what) /\ IsSeen(seen)
    BY <1>5, <1>10, <1>12
  <2>2. Sees(seen, r, what, next)
    BY <2>1, SeeingSees, Zenon
  <2> QED  BY <2>2, Zenon DEF Sees
<1>14. SessionRead(rest) =>
          /\ next.revision \in Nat /\ next.revision <= review[r].revision
          /\ next.revision = review[r].revision => next.status = review[r].status
  <2>1. review[r].revision \in Nat
    BY <1>10 DEF ReviewInvariant, AuditInvariant, OpTypeOK, ReviewRecord
  <2>2. CASE what = "session"
    BY <2>1, <2>2, <1>13
  <2>3. CASE what # "session"
    BY <2>3, <1>10, <1>11, <1>12, <1>13
  <2> QED  BY <2>2, <2>3
<1>15. EventsRead(rest) =>
          (next.revision = review[r].revision => next.decisions = DecisionsOf(r))
  BY <1>10, <1>11, <1>12, <1>13
<1>16. ProjectRead(kind, rest) =>
          next.head \in DOMAIN commits /\ next.view = commits[next.head].root
  BY <1>10, <1>11, <1>12, <1>13 DEF ReviewInvariant, ChapterSound
<1>17. HandlerSound(u)
  BY <1>8, <1>10, <1>11, <1>13, <1>14, <1>15, <1>16 DEF HandlerSound
<1> QED  BY <1>2, <1>8, <1>9, <1>10, <1>17, LookingKeeps

\* A handler that has read everything.
LEMMA AllRead ==
    ASSUME ReviewInvariant, NEW p \in Pages, NEW kind \in {"open", "apply", "branch"},
           Read(p, kind), NEW r, r = task[p].of, NEW seen, seen = task[p].seen
    PROVE  /\ r \in Runs /\ Reviewed(r)
           /\ seen.revision \in Nat /\ seen.revision <= review[r].revision
           /\ seen.revision = review[r].revision =>
                 seen.status = review[r].status /\ seen.decisions = DecisionsOf(r)
           /\ kind # "open" =>
                 seen.head \in DOMAIN commits /\ seen.view = commits[seen.head].root
<1>1. task[p].kind = kind /\ task[p].todo = << >>
  BY DEF Read
<1>2. HandlerSound(task[p])
  BY <1>1 DEF ReviewInvariant, TaskSound, Decided
<1>3. SessionRead(<< >>) /\ EventsRead(<< >>) /\ (kind # "open" => ProjectRead(kind, << >>))
  BY DEF SessionRead, EventsRead, ProjectRead
<1> QED  BY <1>1, <1>2, <1>3 DEF HandlerSound

\* load_review_candidate, and the page that shows it.
LEMMA OpenedKeeps ==
    ASSUME ReviewInvariant, NEW p \in Pages, Opened(p)
    PROVE  ReviewInvariant'
<1>1. PICK r, seen : r = task[p].of /\ seen = task[p].seen
  OBVIOUS
<1>2. PICK branched : branched = (branch[r] # NoBranch)
  OBVIOUS
<1> DEFINE s == [ open |-> r, revision |-> seen.revision, status |-> seen.status,
                  decisions |-> seen.decisions, branched |-> branched ]
<1>3. /\ Read(p, "open") /\ seen.status \in {"review", "ready"}
      /\ page' = [page EXCEPT ![p] = s] /\ task' = [task EXCEPT ![p] = Idle]
      /\ UNCHANGED <<opVars, storeVars, proposal, receipt, branch>>
  BY <1>1, <1>2 DEF Opened
<1>4. /\ r \in Runs /\ Reviewed(r)
      /\ seen.revision \in Nat /\ seen.revision <= review[r].revision
      /\ seen.revision = review[r].revision =>
            seen.status = review[r].status /\ seen.decisions = DecisionsOf(r)
  BY <1>1, <1>3, AllRead
<1>5. /\ s = [ open |-> s.open, revision |-> s.revision, status |-> s.status,
               decisions |-> s.decisions, branched |-> s.branched ]
      /\ s.open = r /\ s.revision = seen.revision /\ s.status = seen.status
      /\ s.decisions = seen.decisions
  OBVIOUS
<1> HIDE DEF s
<1>6. page'[p] = s
  <2>1. page = [q \in Pages |-> page[q]]
    BY DEF ReviewInvariant
  <2> QED  BY <2>1, <1>3
<1>7. review' = review /\ proposal' = proposal
  BY <1>3 DEF opVars
<1>8. PageSound(p)'
  BY <1>4, <1>5, <1>6, <1>7 DEF PageSound, Reviewed, DecisionsOf
<1>9. page'[p].open \in Runs \cup {NoCommit} /\ page'[p].status \in ReviewStatuses
  BY <1>3, <1>4, <1>5, <1>6 DEF ReviewStatuses
<1>10. Idle.kind \in {"idle"} \cup Decided /\ Idle = [kind |-> Idle.kind, todo |-> << >>]
  BY DEF Idle
<1> QED  BY <1>3, <1>8, <1>9, <1>10, LookingKeeps

-----------------------------------------------------------------------------
(* A run proposes *)

LEMMA ProposalIsBundle ==
    ASSUME NEW base \in Commits
    PROVE  ProposalBundle(base) \in Bundle /\ ProposalBundle(base).artifact = "patch_proposal"
           /\ ProposalBundle(base).base = base
<1> DEFINE states == << "draft", "compiling", "preflight", "queued", "streaming",
                        "validating", "review" >>
           lifecycle == [i \in 1 .. 6 |-> [from |-> states[i], to |-> states[i + 1]]]
           attempt == [ sequence |-> 1, outcome |-> "succeeded",
                        responseStarted |-> TRUE, failureCode |-> FALSE,
                        retriable |-> "null", retryDelay |-> FALSE, bounded |-> TRUE ]
<1>1. \A i \in 1 .. 6 : states[i] \in OperationStates /\ states[i + 1] \in OperationStates
  <2>1. \A i \in 1 .. 7 : states[i] \in OperationStates
    <3>1. ASSUME NEW i \in 1 .. 7 PROVE states[i] \in OperationStates
      <4>1. i = 1 \/ i = 2 \/ i = 3 \/ i = 4 \/ i = 5 \/ i = 6 \/ i = 7
        OBVIOUS
      <4> QED  BY <4>1 DEF OperationStates
    <3> QED  BY <3>1
  <2> QED  BY <2>1
<1>2. lifecycle \in Seq(Transition)
  <2>1. \A i \in 1 .. 6 : lifecycle[i] \in Transition
    <3> HIDE DEF states
    <3> QED  BY <1>1 DEF Transition
  <2>2. lifecycle \in [1 .. 6 -> Transition]
    <3> HIDE DEF states
    <3> QED  BY <1>1 DEF Transition
  <2> HIDE DEF lifecycle
  <2> QED  BY <2>2, SeqDef
<1>3. << attempt >> \in Seq(Attempt)
  <2>1. attempt \in Attempt
    BY DEF Attempt
  <2> HIDE DEF attempt
  <2> QED  BY <2>1
<1>4. ProposalBundle(base) =
         [ state |-> "review", base |-> base, packet |-> base,
           artifact |-> "patch_proposal", response |-> TRUE, failure |-> FALSE,
           bounded |-> TRUE, lifecycle |-> lifecycle, attempts |-> << attempt >> ]
  BY DEF ProposalBundle
<1> HIDE DEF lifecycle, attempt
<1>5. "review" \in OperationStates
  BY DEF OperationStates
<1>6. ProposalBundle(base) \in Bundle
  BY <1>2, <1>3, <1>4, <1>5 DEF Bundle
<1> QED  BY <1>4, <1>6

LEMMA UndecidedIsOpen ==
    ASSUME NEW hunks \in Seq(HunkRecord(Hunks)), hunks # << >>
    PROVE  /\ Undecided(hunks) \in [IdsOfHunks(hunks) -> {"pending"} \cup Decided]
           /\ ~AllDecided(Undecided(hunks))
<1>1. 1 \in DOMAIN hunks
  BY EmptySeq
<1>2. hunks[1].id \in IdsOfHunks(hunks)
  BY <1>1 DEF IdsOfHunks
<1>3. /\ DOMAIN Undecided(hunks) = IdsOfHunks(hunks)
      /\ \A id \in IdsOfHunks(hunks) : Undecided(hunks)[id] = "pending"
      /\ Undecided(hunks) \in [IdsOfHunks(hunks) -> {"pending"} \cup Decided]
  BY DEF Undecided, IdsOfHunks
<1> QED  BY <1>2, <1>3 DEF AllDecided

\* runAiOperation with a proposal, and the page that opens its review.
LEMMA ProposeKeeps ==
    ASSUME ReviewInvariant, NEW p \in Pages, NEW r \in Runs, Propose(p, r)
    PROVE  ReviewInvariant'
<1>1. PICK plan \in Proposals :
         /\ ValidHunks(block[Target].text, plan, plan.hunks)
         /\ PersistOperationBundle(r, ProposalBundle(project.head), DOMAIN commits)
         /\ proposal' = [proposal EXCEPT ![r] =
                [ revision |-> block[Target].revision, text |-> block[Target].text,
                  from |-> plan.from, to |-> plan.to, hunks |-> plan.hunks ]]
         /\ page' = [page EXCEPT ![p] =
                [Closed EXCEPT !.open = r, !.decisions = Undecided(plan.hunks)]]
  BY DEF Propose
<1>2. UNCHANGED storeVars /\ receipt' = receipt /\ branch' = branch /\ task' = task
  BY DEF Propose
<1>3. PICK hunks : hunks = plan.hunks
  OBVIOUS
<1> DEFINE new == [ revision |-> block[Target].revision, text |-> block[Target].text,
                    from |-> plan.from, to |-> plan.to, hunks |-> hunks ]
           s == [Closed EXCEPT !.open = r, !.decisions = Undecided(hunks)]
<1>4. /\ plan.from \in Nat /\ plan.to \in Nat /\ hunks \in Seq(HunkRecord(Hunks))
      /\ hunks # << >>
  BY <1>1, <1>3, ProposalsAssumption DEF ValidHunks
<1>5. /\ new \in ProposalRecord /\ new.hunks = hunks /\ new.text = block[Target].text
      /\ new.from = plan.from /\ new.to = plan.to
  BY <1>4, TargetIsDocument DEF ReviewInvariant, ChapterSound, TextBlock, ProposalRecord
<1>6. /\ s = [ open |-> s.open, revision |-> s.revision, status |-> s.status,
               decisions |-> s.decisions, branched |-> s.branched ]
      /\ s.open = r /\ s.revision = 0 /\ s.status = "review"
      /\ s.decisions = Undecided(hunks)
  <2>1. PICK ds : ds = Undecided(hunks)
    OBVIOUS
  <2>2. PICK none : none = << >>
    OBVIOUS
  <2>3. Closed \in [ open : {NoCommit}, revision : {0}, status : {"review"},
                     decisions : {none}, branched : {FALSE} ]
    BY <2>2 DEF Closed
  <2>4. s \in [ open : {r}, revision : {0}, status : {"review"},
                decisions : {ds}, branched : {FALSE} ]
    BY <2>1, <2>3
  <2> HIDE DEF s
  <2> QED  BY <2>1, <2>4
<1>7. proposal' = [proposal EXCEPT ![r] = new] /\ page' = [page EXCEPT ![p] = s]
  BY <1>1, <1>3
<1> HIDE DEF new, s
<1>8. /\ proposal' \in [Runs -> ProposalRecord] /\ proposal'[r] = new
      /\ \A q \in Runs \ {r} : proposal'[q] = proposal[q]
  BY <1>5, <1>7 DEF ReviewInvariant
<1>9. /\ page' = [q \in Pages |-> page'[q]] /\ page'[p] = s
      /\ \A q \in Pages \ {p} : page'[q] = page[q]
  <2>1. page = [q \in Pages |-> page[q]]
    BY DEF ReviewInvariant
  <2> QED  BY <2>1, <1>7
<1>10. project.head \in Commits /\ project.head \in DOMAIN commits
  <2>1. /\ \E S : commits \in Seq(S)
        /\ Len(commits) <= MaxCommits /\ project.head \in DOMAIN commits
    BY DEF ReviewInvariant, ChapterSound
  <2>2. DOMAIN commits = 1 .. Len(commits) /\ Len(commits) \in Nat
    BY <2>1
  <2>3. project.head \in 1 .. MaxCommits
    BY <2>1, <2>2, CommitBound
  <2> QED  BY <2>1, <2>3, CommitsAreNumbers
<1> DEFINE b == ProposalBundle(project.head)
<1>11. b \in Bundle /\ b.artifact = "patch_proposal" /\ b.base = project.head
  BY <1>10, ProposalIsBundle
<1>12. PersistOperationBundle(r, b, DOMAIN commits)
  BY <1>1
<1> HIDE DEF b
<1>13. AuditInvariant'
  BY <1>11, <1>12, PersistKeepsAudit DEF ReviewInvariant
<1>14. review[r] = NoReview
  BY <1>12, AbsentHasNoReview DEF ReviewInvariant, PersistOperationBundle
<1>15. run \in [Runs -> RunRecord] /\ review \in [Runs -> ReviewRecord]
  BY DEF ReviewInvariant, AuditInvariant, OpTypeOK
<1>16. /\ run'[r].base = project.head
       /\ \A q \in Runs \ {r} : run'[q] = run[q] /\ review'[q] = review[q]
  BY <1>11, <1>12, <1>15 DEF PersistOperationBundle
<1>17. review'[r].revision = 0 /\ review'[r].status = "review" /\ review'[r].log = << >>
  <2>1. review' = [review EXCEPT ![r].status = "review"]
    BY <1>11, <1>12 DEF PersistOperationBundle
  <2>2. review[r].revision = 0 /\ review[r].log = << >> /\ review[r] \in ReviewRecord
    BY <1>14, <1>15 DEF NoReview
  <2> QED  BY <2>1, <2>2, <1>15 DEF ReviewRecord
<1>18. ~Reviewed(r) /\ Reviewed(r)'
  BY <1>14, <1>17 DEF Reviewed, NoReview
<1>19. \A q \in Runs : ReviewGrows(q)
  BY <1>8, <1>16, <1>18 DEF ReviewGrows
<1>20. ChapterSound' /\ HistoryGrows
  BY <1>2, NothingWritten
<1>21. /\ \A q \in Runs \ {r} : ReviewSound(q)' /\ AppliedSound(q)' /\ BranchSound(q)'
       /\ \A q \in Pages \ {p} : PageSound(q)'
       /\ \A q \in Pages \ {} : TaskSound(q)'
  <2>1. \A q \in Pages \ {} : task'[q] = task[q]
    BY <1>2
  <2>2. \A q \in Runs \ {r} : /\ review'[q] = review[q] /\ receipt'[q] = receipt[q]
                              /\ branch'[q] = branch[q]
    BY <1>2, <1>16
  <2> QED  BY <2>1, <2>2, <1>9, <1>19, <1>20, RestStays
<1>22. DecisionsOf(r)' = Undecided(hunks)
  <2>1. Replay(hunks, << >>) = Undecided(hunks)
    BY ReplayNothing
  <2> QED  BY <2>1, <1>5, <1>8, <1>17 DEF DecisionsOf
<1>23. ReviewSound(r)'
  <2>1. ValidHunks(new.text, new, new.hunks)
    BY <1>1, <1>3, <1>5 DEF ValidHunks
  <2>2. run'[r].base \in DOMAIN commits'
    BY <1>10, <1>16, <1>20 DEF HistoryGrows
  <2>3. Ids(r)' = IdsOfHunks(hunks)
    BY <1>5, <1>8 DEF Ids, IdsOfHunks
  <2>4. /\ Undecided(hunks) \in [IdsOfHunks(hunks) -> {"pending"} \cup Decided]
        /\ ~AllDecided(Undecided(hunks))
    BY <1>4, UndecidedIsOpen
  <2>5. Consistent("review", Undecided(hunks))
    BY <2>4 DEF Consistent
  <2> QED  BY <2>1, <2>2, <2>3, <2>4, <2>5, <1>8, <1>17, <1>22 DEF ReviewSound
<1>24. AppliedSound(r)' /\ BranchSound(r)'
  <2>1. AppliedSound(r) /\ BranchSound(r)
    BY DEF ReviewInvariant
  <2>2. receipt[r] = NoReceipt /\ branch[r] = NoBranch
    BY <2>1, <1>14, <1>18 DEF AppliedSound, BranchSound, NoReview
  <2> QED  BY <2>2, <1>2, <1>17 DEF AppliedSound, BranchSound
<1>25. PageSound(p)'
  BY <1>6, <1>9, <1>17, <1>18, <1>22 DEF PageSound
<1>26. RvTypeOK'
  <2>1. proposal'[r] # NoProposal
    BY <1>4, <1>5, <1>8 DEF NoProposal
  <2>2. \A q \in Runs : Reviewed(q)' <=> proposal'[q] # NoProposal
    BY <2>1, <1>8, <1>16, <1>18 DEF ReviewInvariant, RvTypeOK, Reviewed
  <2>3. \A q \in Pages : /\ page'[q].open \in Runs \cup {NoCommit}
                         /\ page'[q].status \in ReviewStatuses
    BY <1>6, <1>9 DEF ReviewInvariant, RvTypeOK, ReviewStatuses
  <2> QED  BY <2>2, <2>3, <1>2 DEF ReviewInvariant, RvTypeOK
<1> QED
  BY <1>2, <1>8, <1>9, <1>13, <1>20, <1>21, <1>23, <1>24, <1>25, <1>26 DEF ReviewInvariant

-----------------------------------------------------------------------------
(* The chapter is written past the review *)

LEMMA WriteKeeps ==
    ASSUME ReviewInvariant, Write
    PROVE  ReviewInvariant'
<1>1. PICK text \in Texts : SaveBlock(Now, Target, text)
  BY DEF Write
<1>2. /\ UNCHANGED <<opVars, proposal, receipt, branch, page, task>>
      /\ Len(commits) < MaxCommits /\ ChapterSound
  BY DEF Write, ReviewInvariant
<1>3. ChapterSound' /\ HistoryGrows
  BY <1>1, <1>2, WriteKeepsChapter
<1>4. /\ run' = run /\ review' = review /\ proposal' = proposal /\ receipt' = receipt
      /\ branch' = branch /\ page' = page /\ task' = task
  BY <1>2 DEF opVars
<1>5. \A r \in Runs : ReviewGrows(r)
  BY <1>4 DEF ReviewGrows
<1>6. /\ \A r \in Runs \ {} : ReviewSound(r)' /\ AppliedSound(r)' /\ BranchSound(r)'
      /\ \A p \in Pages \ {} : PageSound(p)'
      /\ \A p \in Pages \ {} : TaskSound(p)'
  <2>1. \A r \in Runs \ {} : /\ review'[r] = review[r] /\ receipt'[r] = receipt[r]
                             /\ branch'[r] = branch[r]
    BY <1>4
  <2>2. \A p \in Pages \ {} : page'[p] = page[p]
    BY <1>4
  <2>3. \A p \in Pages \ {} : task'[p] = task[p]
    BY <1>4
  <2> QED  BY <2>1, <2>2, <2>3, <1>3, <1>5, RestStays
<1>7. AuditInvariant'
  BY <1>2 DEF opVars, ReviewInvariant, AuditInvariant, OpTypeOK, RunStateEndsLifecycle,
     ReviewHeadReplaysLog, RunFollowsReview, OutcomeMatchesRecords, Present
<1>8. RvTypeOK'
  BY <1>4 DEF ReviewInvariant, RvTypeOK, Reviewed
<1> QED  BY <1>3, <1>4, <1>6, <1>7, <1>8 DEF ReviewInvariant

-----------------------------------------------------------------------------
(* Decisions of a page *)

LEMMA ThoseAreHunks ==
    ASSUME NEW ids, NEW hunks \in Seq(HunkRecord(ids)), NEW chosen
    PROVE  Those(hunks, chosen) \in Seq(HunkRecord(ids))
<1>1. PICK kept \in [0 .. Len(hunks) -> Seq(HunkRecord(ids))] :
         Those(hunks, chosen) = kept[Len(hunks)]
  BY ThoseStep
<1>2. Len(hunks) \in 0 .. Len(hunks)
  OBVIOUS
<1> QED  BY <1>1, <1>2

\* decideCurrentHunk and a step of decideAllCurrentHunks.
LEMMA PageDecides ==
    ASSUME ReviewInvariant, NEW p \in Pages, page[p].open # NoCommit,
           Decide(p) \/ DecideNext(p)
    PROVE  ReviewInvariant'
<1>1. PICK r \in Runs : r = page[p].open
  BY DEF ReviewInvariant, RvTypeOK
<1>2. proposal[r] \in ProposalRecord
  BY DEF ReviewInvariant
<1>3. PICK hunks \in Seq(HunkRecord(Hunks)) : hunks = proposal[r].hunks
  BY <1>2 DEF ProposalRecord
<1>4. CASE Decide(p)
  <2>1. PICK id \in Ids(r), decision \in Decided : DecideOn(p, id, decision) /\ task' = task
    BY <1>1, <1>4 DEF Decide
  <2>2. id \in Hunks
    <3>1. \A k \in 1 .. Len(hunks) : hunks[k] \in HunkRecord(Hunks)
      OBVIOUS
    <3>2. DOMAIN hunks = 1 .. Len(hunks)
      OBVIOUS
    <3> QED  BY <3>1, <3>2, <1>3, <2>1 DEF Ids, HunkRecord
  <2> QED  BY <2>1, <2>2, DecideKeeps
<1>5. CASE DecideNext(p)
  <2>1. PICK plan : plan = NextInPlan(p)
    OBVIOUS
  <2>2. /\ plan # << >> /\ DecideOn(p, Head(plan).id, task[p].kind) /\ task' = task
        /\ task[p].kind \in Decided
    BY <1>5, <2>1 DEF DecideNext
  <2>3. plan \in Seq(HunkRecord(Hunks))
    <3>1. PICK ids : ids = DOMAIN page[p].decisions \ IdsWith(page[p].decisions, task[p].kind)
      OBVIOUS
    <3>2. plan = Those(hunks, ids)
      BY <1>1, <1>3, <2>1, <3>1 DEF NextInPlan
    <3> QED  BY <3>2, ThoseAreHunks, Zenon
  <2>4. Head(plan) \in HunkRecord(Hunks)
    BY <2>2, <2>3, HeadTailProperties
  <2>5. Head(plan).id \in Hunks
    BY <2>4 DEF HunkRecord
  <2> QED  BY <2>2, <2>5, DecideKeeps
<1> QED  BY <1>4, <1>5

-----------------------------------------------------------------------------
(* What is decided becomes text *)

\* The text a handler makes is the one the decisions say.
LEMMA TextIsSpliced ==
    ASSUME ReviewInvariant, NEW r \in Runs, Reviewed(r), NEW seen,
           seen.text = proposal[r].text,
           NEW accepted, accepted = IdsWith(seen.decisions, "accepted")
    PROVE  /\ TextAfter(r, seen) = Spliced(proposal[r].text, Those(proposal[r].hunks, accepted))
           /\ TextAfter(r, seen) \in Seq(Characters)
<1>1. proposal[r] \in ProposalRecord
  BY DEF ReviewInvariant
<1>2. PICK text \in Seq(Characters), hunks \in Seq(HunkRecord(Hunks)) :
         text = proposal[r].text /\ hunks = proposal[r].hunks
  BY <1>1 DEF ProposalRecord
<1>3. ValidHunks(text, proposal[r], hunks)
  BY <1>2 DEF ReviewInvariant, ReviewSound
<1>4. Placed(text, hunks)
  BY <1>3, ValidArePlaced
<1>5. PICK chosen : chosen = Those(hunks, accepted)
  OBVIOUS
<1>6. chosen \in Seq(HunkRecord(Hunks)) /\ Placed(text, chosen)
  BY <1>4, <1>5, ThoseArePlaced
<1>7. Apply(text, chosen) = Spliced(text, chosen) /\ Apply(text, chosen) \in Seq(Characters)
  BY <1>6, ApplyIsSpliced
<1>8. TextAfter(r, seen) = Apply(text, chosen)
  BY <1>2, <1>5, Zenon DEF TextAfter, Decision, Chosen
<1> QED  BY <1>2, <1>5, <1>7, <1>8, Zenon

\* Once everything is decided, what is not accepted is rejected.
LEMMA DecidedPartition ==
    ASSUME NEW ids, NEW decisions \in [ids -> {"pending"} \cup Decided], AllDecided(decisions)
    PROVE  /\ IdsWith(decisions, "accepted") \subseteq ids
           /\ IdsWith(decisions, "rejected") = ids \ IdsWith(decisions, "accepted")
BY DEF IdsWith, AllDecided, Decided

\* A page that is closed, and a process that is idle.
LEMMA ClosedIsSound ==
    ASSUME NEW p, page'[p] = Closed, task'[p] = Idle
    PROVE  PageSound(p)' /\ TaskSound(p)'
BY DEF PageSound, TaskSound, Closed, Idle

LEMMA PagesStayTyped ==
    ASSUME ReviewInvariant, NEW p \in Pages, page'[p] = Closed, task'[p] = Idle,
           \A q \in Pages \ {p} : page'[q] = page[q] /\ task'[q] = task[q],
           \A r \in Runs : Reviewed(r)' <=> Reviewed(r), proposal' = proposal,
           receipt' \in [Runs -> [commit : Nat, accepted : SUBSET Hunks,
                                  rejected : SUBSET Hunks]],
           branch' = branch
    PROVE  RvTypeOK'
<1>1. /\ Closed.open = NoCommit /\ Closed.status \in ReviewStatuses
      /\ Idle.kind = "idle"
  BY DEF Closed, ReviewStatuses, Idle
<1>2. \A q \in Pages : /\ page[q].open \in Runs \cup {NoCommit}
                       /\ page[q].status \in ReviewStatuses
                       /\ task[q].kind \in Decided \cup {"idle", "open", "apply", "branch"}
  BY DEF ReviewInvariant, RvTypeOK
<1>3. \A q \in Pages : /\ page'[q].open \in Runs \cup {NoCommit}
                       /\ page'[q].status \in ReviewStatuses
                       /\ task'[q].kind \in Decided \cup {"idle", "open", "apply", "branch"}
  BY <1>1, <1>2
<1> QED  BY <1>3 DEF ReviewInvariant, RvTypeOK

\* apply_reviewed_proposal.
LEMMA ApplyKeeps ==
    ASSUME ReviewInvariant, NEW p \in Pages, ApplyReviewed(p), Len(commits) < MaxCommits
    PROVE  ReviewInvariant'
<1>1. PICK r, seen : r = task[p].of /\ seen = task[p].seen
  OBVIOUS
<1>2. PICK text : text = TextAfter(r, seen)
  OBVIOUS
<1>3. PICK x : x = [Now EXCEPT !.head = seen.head, !.revision = seen.project,
                               !.block[Target].text = seen.text,
                               !.block[Target].revision = seen.blockRevision]
  OBVIOUS
<1>4. PICK accepted, rejected : /\ accepted = IdsWith(seen.decisions, "accepted")
                                /\ rejected = IdsWith(seen.decisions, "rejected")
  OBVIOUS
<1>5. PICK commit : commit = NextCommit
  OBVIOUS
<1> DEFINE c == [ expectedRevision |-> seen.revision, expectedStatus |-> "ready",
                  kind |-> "apply", nextStatus |-> "applied", hunk |-> NoHunk,
                  decision |-> "none" ]
           note == [commit |-> commit, accepted |-> accepted, rejected |-> rejected]
<1>6. /\ Read(p, "apply") /\ StillBased(r, seen)
      /\ Complete(proposal[r].hunks, seen.decisions)
      /\ ApplyBlockEdit(x, Target, text, WithText(seen.view, text))
      /\ AppendReviewEvent(r, c)
      /\ receipt' = [receipt EXCEPT ![r] = note]
      /\ page' = [page EXCEPT ![p] = Closed] /\ task' = [task EXCEPT ![p] = Idle]
      /\ proposal' = proposal /\ branch' = branch
  BY <1>1, <1>2, <1>3, <1>4, <1>5, Zenon DEF ApplyReviewed
<1>7. /\ r \in Runs /\ Reviewed(r) /\ seen.revision \in Nat
      /\ seen.revision = review[r].revision =>
            seen.status = review[r].status /\ seen.decisions = DecisionsOf(r)
      /\ seen.head \in DOMAIN commits /\ seen.view = commits[seen.head].root
  BY <1>1, <1>6, AllRead
<1>8. c \in AnyReviewCommand
  BY <1>7 DEF AnyReviewCommand, ReviewStatuses, EventKinds
<1>9. /\ c.kind # "decision" /\ c.nextStatus = "applied" /\ c.expectedRevision = seen.revision
      /\ note.commit = commit /\ note.accepted = accepted /\ note.rejected = rejected
  OBVIOUS
<1> HIDE DEF c
<1>10. /\ AuditInvariant'
       /\ \A q \in Runs : ReviewGrows(q) /\ run'[q].base = run[q].base
       /\ \A q \in Runs \ {r} : review'[q] = review[q]
       /\ review[r].revision = seen.revision
       /\ review[r].log \in Seq(ReviewEvent) /\ review'[r].status = "applied"
       /\ DecisionsOf(r)' = DecisionsOf(r)
  BY <1>6, <1>7, <1>8, <1>9, AppendGrows DEF ReviewInvariant
<1>11. PICK decisions : decisions = DecisionsOf(r)
  OBVIOUS
<1>12. seen.decisions = decisions /\ DecisionsOf(r)' = decisions
  BY <1>7, <1>10, <1>11
<1>13. /\ ReviewSound(r) /\ AppliedSound(r) /\ BranchSound(r) /\ ChapterSound
       /\ proposal[r] \in ProposalRecord
  BY <1>7 DEF ReviewInvariant
<1>14. /\ ValidHunks(proposal[r].text, proposal[r], proposal[r].hunks)
       /\ run[r].base \in DOMAIN commits
       /\ decisions \in [Ids(r) -> {"pending"} \cup Decided]
       /\ AllDecided(decisions)
  BY <1>6, <1>7, <1>11, <1>12, <1>13 DEF ReviewSound, Complete
<1>15. seen.head = project.head /\ seen.head = run[r].base /\ seen.text = proposal[r].text
  <2>1. x.head = seen.head
    <3>1. PICK head, revision, its, itsRevision :
             /\ head = seen.head /\ revision = seen.project
             /\ its = seen.text /\ itsRevision = seen.blockRevision
      OBVIOUS
    <3>2. x = [Now EXCEPT !.head = head, !.revision = revision, !.block[Target].text = its,
                          !.block[Target].revision = itsRevision]
      BY <1>3, <3>1, Zenon
    <3>3. x.head = head
      BY <3>2 DEF Now
    <3> QED  BY <3>1, <3>3
  <2>2. ExpectedHead(x)
    BY <1>6, Zenon DEF ApplyBlockEdit
  <2> QED  BY <2>1, <2>2, <1>6 DEF ExpectedHead, StillBased
<1>16. seen.view = View(doc, block)
  BY <1>7, <1>13, <1>15 DEF ChapterSound
<1>17. /\ text = Spliced(proposal[r].text, Those(proposal[r].hunks, accepted))
       /\ text \in Seq(Characters)
  BY <1>2, <1>4, <1>7, <1>15, TextIsSpliced
<1>18. /\ ChapterSound' /\ HistoryGrows
       /\ commit \in DOMAIN commits'
       /\ commits'[commit].parent = project.head
       /\ commits'[commit].root = WithText(View(doc, block), text)
  <2>1. ApplyBlockEdit(x, Target, text, WithText(View(doc, block), text))
    BY <1>6, <1>16, Zenon
  <2> QED  BY <2>1, <1>5, <1>13, <1>17, EditKeepsChapter
<1>19. Ids(r)' = Ids(r) /\ proposal'[r] = proposal[r] /\ run'[r].base = run[r].base
  BY <1>6, <1>7, <1>10 DEF Ids
<1>20. ReviewSound(r)'
  <2>1. run[r].base \in DOMAIN commits'
    BY <1>14, <1>18 DEF HistoryGrows
  <2>2. Consistent("applied", decisions)
    BY <1>14 DEF Consistent
  <2> QED  BY <2>1, <2>2, <1>10, <1>12, <1>14, <1>19 DEF ReviewSound
<1>21. accepted \subseteq Ids(r) /\ rejected = Ids(r) \ accepted
  BY <1>4, <1>12, <1>14, DecidedPartition
<1>22. /\ receipt'[r] = note
       /\ \A q \in Runs \ {r} : receipt'[q] = receipt[q]
       /\ receipt' \in [Runs -> [commit : Nat, accepted : SUBSET Hunks, rejected : SUBSET Hunks]]
  <2>1. receipt \in [Runs -> [commit : Nat, accepted : SUBSET Hunks, rejected : SUBSET Hunks]]
    BY DEF ReviewInvariant, RvTypeOK
  <2>2. Ids(r) \subseteq Hunks
    <3>1. PICK hunks \in Seq(HunkRecord(Hunks)) : hunks = proposal[r].hunks
      BY <1>13 DEF ProposalRecord
    <3>2. /\ \A k \in 1 .. Len(hunks) : hunks[k] \in HunkRecord(Hunks)
          /\ DOMAIN hunks = 1 .. Len(hunks)
      OBVIOUS
    <3> QED  BY <3>1, <3>2 DEF Ids, HunkRecord
  <2>3. commit \in Nat
    <3>1. \E S : commits \in Seq(S)
      BY <1>13 DEF ChapterSound
    <3> QED  BY <3>1, <1>5 DEF NextCommit
  <2>4. note \in [commit : Nat, accepted : SUBSET Hunks, rejected : SUBSET Hunks]
    BY <1>21, <2>2, <2>3
  <2> HIDE DEF note
  <2> QED  BY <1>6, <1>7, <2>1, <2>4
<1> HIDE DEF note
<1>23. AppliedSound(r)'
  <2>1. commits'[run[r].base].root = View(doc, block)
    BY <1>13, <1>14, <1>15, <1>18 DEF ChapterSound, HistoryGrows
  <2>2. Holds(commit, r, accepted)'
    BY <2>1, <1>15, <1>17, <1>18, <1>19 DEF Holds
  <2>3. accepted = IdsWith(decisions, "accepted")
    BY <1>4, <1>12
  <2> QED  BY <2>2, <2>3, <1>9, <1>10, <1>12, <1>18, <1>19, <1>21, <1>22 DEF AppliedSound
<1>24. BranchSound(r)'
  BY <1>6, <1>7, <1>10, <1>13, <1>18, BranchStays
<1>25. /\ page' = [q \in Pages |-> page'[q]] /\ page'[p] = Closed
       /\ \A q \in Pages \ {p} : page'[q] = page[q]
       /\ task' = [q \in Pages |-> task'[q]] /\ task'[p] = Idle
       /\ \A q \in Pages \ {p} : task'[q] = task[q]
  <2>1. page = [q \in Pages |-> page[q]] /\ task = [q \in Pages |-> task[q]]
    BY DEF ReviewInvariant
  <2> QED  BY <2>1, <1>6
<1>26. /\ \A q \in Runs \ {r} : ReviewSound(q)' /\ AppliedSound(q)' /\ BranchSound(q)'
       /\ \A q \in Pages \ {p} : PageSound(q)'
       /\ \A q \in Pages \ {p} : TaskSound(q)'
  <2>1. \A q \in Runs \ {r} : /\ review'[q] = review[q] /\ receipt'[q] = receipt[q]
                              /\ branch'[q] = branch[q]
    BY <1>6, <1>10, <1>22
  <2> QED  BY <2>1, <1>10, <1>18, <1>25, RestStays
<1>27. PageSound(p)' /\ TaskSound(p)'
  BY <1>25, ClosedIsSound
<1>28. RvTypeOK'
  <2>1. \A q \in Runs : Reviewed(q)' <=> Reviewed(q)
    BY <1>7, <1>10 DEF Reviewed
  <2> QED  BY <2>1, <1>6, <1>22, <1>25, PagesStayTyped
<1> QED
  BY <1>6, <1>7, <1>10, <1>18, <1>20, <1>22, <1>23, <1>24, <1>25, <1>26, <1>27, <1>28
     DEF ReviewInvariant

\* create_review_candidate_branch.
LEMMA BranchKeeps ==
    ASSUME ReviewInvariant, NEW p \in Pages, CreateBranch(p), Len(commits) < MaxCommits
    PROVE  ReviewInvariant'
<1>1. PICK r, seen : r = task[p].of /\ seen = task[p].seen
  OBVIOUS
<1>2. PICK text, root : text = TextAfter(r, seen) /\ root = WithText(seen.view, text)
  OBVIOUS
<1>3. PICK accepted : accepted = IdsWith(seen.decisions, "accepted")
  OBVIOUS
<1>4. PICK commit : commit = NextCommit
  OBVIOUS
<1> DEFINE made == [commit |-> commit, revision |-> seen.revision]
           snapshot == [commit |-> commit, view |-> WithText(View(doc, block), text)]
<1>5. /\ Read(p, "branch") /\ StillBased(r, seen)
      /\ Complete(proposal[r].hunks, seen.decisions)
      /\ StoreBranch(r, seen, text)
      /\ page' = [page EXCEPT ![p].branched = TRUE] /\ task' = [task EXCEPT ![p] = Idle]
      /\ UNCHANGED opVars /\ proposal' = proposal /\ receipt' = receipt
  BY <1>1, <1>2, Zenon DEF CreateBranch
<1>6. /\ <<review[r].revision, review[r].status>> = <<seen.revision, "ready">>
      /\ project.head = seen.head
      /\ CandidateCommit(seen.head, root)
      /\ snapshots' = snapshots \cup {snapshot}
      /\ branch' = [branch EXCEPT ![r] = made]
      /\ doc' = doc /\ block' = block
  BY <1>2, <1>4, <1>5, Zenon DEF StoreBranch
<1>7. /\ r \in Runs /\ Reviewed(r) /\ seen.revision \in Nat
      /\ seen.revision = review[r].revision =>
            seen.status = review[r].status /\ seen.decisions = DecisionsOf(r)
      /\ seen.head \in DOMAIN commits /\ seen.view = commits[seen.head].root
  BY <1>1, <1>5, AllRead
<1>8. review[r].revision = seen.revision /\ review[r].status = "ready"
  BY <1>6
<1>9. /\ run' = run /\ review' = review /\ AuditInvariant'
  BY <1>5 DEF opVars, ReviewInvariant, AuditInvariant, OpTypeOK, RunStateEndsLifecycle,
     ReviewHeadReplaysLog, RunFollowsReview, OutcomeMatchesRecords, Present
<1>10. \A q \in Runs : ReviewGrows(q)
  BY <1>5, <1>9 DEF ReviewGrows
<1>11. PICK decisions : decisions = DecisionsOf(r)
  OBVIOUS
<1>12. seen.decisions = decisions
  BY <1>7, <1>8, <1>11
<1>13. /\ ReviewSound(r) /\ AppliedSound(r) /\ ChapterSound
  BY <1>7 DEF ReviewInvariant
<1>14. /\ run[r].base \in DOMAIN commits /\ AllDecided(decisions)
  BY <1>5, <1>7, <1>12, <1>13 DEF ReviewSound, Complete
<1>15. seen.head = run[r].base /\ seen.text = proposal[r].text
  BY <1>5 DEF StillBased
<1>16. seen.view = View(doc, block)
  BY <1>6, <1>7, <1>13 DEF ChapterSound
<1>17. text = Spliced(proposal[r].text, Those(proposal[r].hunks, accepted))
  BY <1>2, <1>3, <1>7, <1>15, TextIsSpliced
<1>18. /\ ChapterSound' /\ HistoryGrows
       /\ commit \in DOMAIN commits'
       /\ commits'[commit].parent = seen.head
       /\ commits'[commit].root = root
  <2>1. snapshots \subseteq snapshots'
    BY <1>6
  <2> QED  BY <2>1, <1>4, <1>6, <1>13, CandidateKeepsChapter
<1>19. snapshot \in snapshots' /\ snapshot.commit = commit /\ snapshot.view = root
  <2>1. snapshot.view = WithText(View(doc, block), text)
    OBVIOUS
  <2>2. WithText(View(doc, block), text) = root
    BY <1>2, <1>16, Zenon
  <2> QED  BY <2>1, <2>2, <1>6
<1> HIDE DEF snapshot
<1>20. made.commit = commit /\ made.revision = seen.revision
  OBVIOUS
<1>21. /\ branch'[r] = made /\ branch' \in [Runs -> [commit : Nat, revision : Nat]]
       /\ \A q \in Runs \ {r} : branch'[q] = branch[q]
  <2>1. branch \in [Runs -> [commit : Nat, revision : Nat]]
    BY DEF ReviewInvariant, RvTypeOK
  <2>2. commit \in Nat
    <3>1. \E S : commits \in Seq(S)
      BY <1>13 DEF ChapterSound
    <3> QED  BY <3>1, <1>4 DEF NextCommit
  <2>3. made \in [commit : Nat, revision : Nat]
    BY <2>2, <1>7
  <2> HIDE DEF made
  <2> QED  BY <1>6, <1>7, <2>1, <2>3
<1> HIDE DEF made
<1>22. /\ review[r].log \in Seq(ReviewEvent) /\ Len(review[r].log) = seen.revision
  <2>1. review \in [Runs -> ReviewRecord] /\ ReplaysLog(review[r])
    BY <1>7 DEF ReviewInvariant, AuditInvariant, OpTypeOK, ReviewHeadReplaysLog, Reviewed
  <2> QED  BY <2>1, <1>7, <1>8 DEF ReviewRecord, ReplaysLog
<1>23. DecisionsAt(r, seen.revision)' = decisions
  <2>1. PICK log \in Seq(ReviewEvent) : log = review[r].log
    BY <1>22
  <2>2. SubSeq(log, 1, Len(log)) = log
    OBVIOUS
  <2>3. SubSeq(review'[r].log, 1, seen.revision) = review[r].log
    BY <2>1, <2>2, <1>9, <1>22
  <2> QED  BY <2>3, <1>5, <1>11 DEF DecisionsAt, DecisionsOf
<1>24. BranchSound(r)'
  <2>1. commits'[run[r].base].root = View(doc, block)
    BY <1>7, <1>15, <1>16, <1>18 DEF HistoryGrows
  <2>2. root = WithText(View(doc, block), text)
    BY <1>2, <1>16
  <2>3. Holds(commit, r, accepted)'
    BY <2>1, <2>2, <1>5, <1>9, <1>15, <1>17, <1>18 DEF Holds
  <2>4. accepted = IdsWith(decisions, "accepted")
    BY <1>3, <1>12
  <2>5. seen.revision \in 0 .. Len(review'[r].log)
    BY <1>7, <1>9, <1>22
  <2>6. \E s \in snapshots' : s.commit = commit /\ s.view = commits'[s.commit].root
    BY <1>18, <1>19
  <2>7. Reviewed(r)'
    BY <1>7, <1>9 DEF Reviewed
  <2> QED  BY <2>3, <2>4, <2>5, <2>6, <2>7, <1>14, <1>18, <1>20, <1>21, <1>23 DEF BranchSound
<1>25. ReviewSound(r)'
  BY <1>7, <1>9, <1>10, <1>13, <1>18, ReviewStays
<1>26. AppliedSound(r)'
  <2>1. receipt'[r] = receipt[r] /\ review[r].status # "applied" /\ review'[r].status # "applied"
    BY <1>5, <1>8, <1>9
  <2> QED  BY <2>1, <1>10, <1>7, <1>13, <1>18, AppliedStays
<1>27. /\ task' = [q \in Pages |-> task'[q]] /\ task'[p] = Idle
       /\ \A q \in Pages \ {p} : task'[q] = task[q]
  <2>1. task = [q \in Pages |-> task[q]]
    BY DEF ReviewInvariant
  <2> QED  BY <2>1, <1>5
<1>28. PICK s : s = page[p]
  OBVIOUS
<1>29. PageSound(p) /\ s.status \in ReviewStatuses /\ s.open \in Runs \cup {NoCommit}
  BY <1>28 DEF ReviewInvariant, RvTypeOK
<1>30. /\ page' = [q \in Pages |-> page'[q]]
       /\ page'[p] = [ open |-> s.open, revision |-> s.revision, status |-> s.status,
                       decisions |-> s.decisions, branched |-> TRUE ]
       /\ \A q \in Pages \ {p} : page'[q] = page[q]
  <2>1. page = [q \in Pages |-> page[q]]
    BY DEF ReviewInvariant
  <2>2. PICK open, rev, st, ds, br :
           /\ open = s.open /\ rev = s.revision /\ st = s.status /\ ds = s.decisions
           /\ br = s.branched
    OBVIOUS
  <2>3. s \in [ open : {open}, revision : {rev}, status : {st}, decisions : {ds},
                branched : {br} ]
    BY <1>28, <1>29, <2>2 DEF PageSound
  <2>4. PICK x : x = [s EXCEPT !.branched = TRUE]
    OBVIOUS
  <2>5. x \in [ open : {open}, revision : {rev}, status : {st}, decisions : {ds},
                branched : {TRUE} ]
    BY <2>3, <2>4
  <2>6. x = [ open |-> open, revision |-> rev, status |-> st, decisions |-> ds,
              branched |-> TRUE ]
    BY <2>5
  <2>7. page' = [page EXCEPT ![p] = x]
    BY <1>5, <1>28, <2>1, <2>4
  <2> QED  BY <2>1, <2>2, <2>6, <2>7
<1>31. PageSound(p)'
  BY <1>5, <1>9, <1>28, <1>29, <1>30 DEF PageSound, Reviewed, DecisionsOf
<1>32. TaskSound(p)'
  BY <1>27 DEF TaskSound, Idle
<1>33. /\ \A q \in Runs \ {r} : ReviewSound(q)' /\ AppliedSound(q)' /\ BranchSound(q)'
       /\ \A q \in Pages \ {p} : PageSound(q)'
       /\ \A q \in Pages \ {p} : TaskSound(q)'
  <2>1. \A q \in Runs \ {r} : /\ review'[q] = review[q] /\ receipt'[q] = receipt[q]
                              /\ branch'[q] = branch[q]
    BY <1>5, <1>9, <1>21
  <2> QED  BY <2>1, <1>10, <1>18, <1>27, <1>30, RestStays
<1>34. RvTypeOK'
  <2>1. \A q \in Pages : /\ page'[q].open \in Runs \cup {NoCommit}
                         /\ page'[q].status \in ReviewStatuses
    <3>1. page'[p].open = s.open /\ page'[p].status = s.status
      BY <1>30
    <3>2. \A q \in Pages : /\ page[q].open \in Runs \cup {NoCommit}
                           /\ page[q].status \in ReviewStatuses
      BY DEF ReviewInvariant, RvTypeOK
    <3> QED  BY <3>1, <3>2, <1>28, <1>30
  <2>2. \A q \in Pages : task'[q].kind \in Decided \cup {"idle", "open", "apply", "branch"}
    BY <1>27 DEF ReviewInvariant, RvTypeOK, Idle
  <2> QED  BY <2>1, <2>2, <1>5, <1>9, <1>21 DEF ReviewInvariant, RvTypeOK, Reviewed
<1> QED
  BY <1>5, <1>7, <1>9, <1>18, <1>24, <1>25, <1>26, <1>27, <1>30, <1>31, <1>32, <1>33, <1>34
     DEF ReviewInvariant

-----------------------------------------------------------------------------
(* The invariant holds *)

\* The first rows of the project are rows.
LEMMA InitRows ==
    ASSUME PsInit
    PROVE  doc \in [Docs -> DocRecord] /\ block \in [Docs -> TextBlock]
<1> DEFINE title == CHOOSE t \in Titles : TRUE
           text == CHOOSE t \in Texts : TRUE
<1>1. title \in Titles /\ text \in Texts
  BY SomethingToWrite
<1>2. /\ AbsentDocument = [status |-> "absent", parent |-> NoDoc, title |-> title, key |-> 0,
                           revision |-> 0]
      /\ AbsentBlock = [active |-> FALSE, text |-> text, revision |-> 0]
  BY DEF AbsentDocument, AbsentBlock
<1> HIDE DEF title, text
<1>3. AbsentBlock \in TextBlock
  BY <1>1, <1>2, TextsAreTexts DEF TextBlock
<1>4. AbsentDocument \in DocRecord
  BY <1>1, <1>2 DEF DocRecord
<1>5. doc \in [Docs -> DocRecord]
  BY <1>2, <1>4 DEF PsInit, DocRecord
<1>6. block \in [Docs -> TextBlock]
  BY <1>2, <1>3 DEF PsInit, TextBlock
<1> QED  BY <1>5, <1>6

LEMMA InitReview ==
    ASSUME RvInit
    PROVE  ReviewInvariant
<1>1. OpInit /\ PsInit
  BY DEF RvInit
<1>2. AuditInvariant
  BY <1>1, InitAudit
<1>3. \A r \in Runs : review[r] = NoReview /\ ~Reviewed(r)
  BY <1>1 DEF OpInit, Reviewed, NoReview
<1>4. ChapterSound
  <2>1. doc \in [Docs -> DocRecord] /\ block \in [Docs -> TextBlock]
    BY <1>1, InitRows
  <2>2. \A x : <<x>> \in Seq({x})
    OBVIOUS
  <2>3. PICK view : view = View(doc, block)
    OBVIOUS
  <2>4. /\ project = [head |-> 1, revision |-> 0]
        /\ commits = << [parent |-> 0, root |-> view] >>
    BY <1>1, <2>3 DEF PsInit
  <2>5. /\ project \in [head : Nat, revision : Nat] /\ \E S : commits \in Seq(S)
        /\ Len(commits) = 1 /\ project.head \in DOMAIN commits
        /\ commits[project.head].root = view
    <3>1. PICK c : c = [parent |-> 0, root |-> view]
      OBVIOUS
    <3>2. /\ commits = << c >> /\ c.root = view /\ project.head = 1
          /\ project \in [head : Nat, revision : Nat]
      BY <2>4, <3>1
    <3>3. Len(commits) = 1 /\ 1 \in DOMAIN commits /\ commits[1] = c
      BY <3>2
    <3>4. \E S : commits \in Seq(S)
      BY <3>2, <2>2
    <3> QED  BY <3>2, <3>3, <3>4
  <2>6. Target \in ActiveBlocks(doc, block)
    <3>1. doc[1] = [AbsentDocument EXCEPT !.status = "active"]
      BY <1>1, TargetIsDocument DEF PsInit, Target
    <3>2. block[1] = [AbsentBlock EXCEPT !.active = TRUE]
      BY <1>1, TargetIsDocument DEF PsInit, Target
    <3>3. doc[1].status = "active" /\ block[1].active
      BY <3>1, <3>2 DEF AbsentDocument, AbsentBlock
    <3> QED  BY <3>3, TargetIsDocument DEF Target, ActiveBlocks, Active
  <2> QED  BY <2>1, <2>3, <2>5, <2>6, CommitBound DEF ChapterSound
<1>5. proposal \in [Runs -> ProposalRecord]
  <2>1. NoProposal \in ProposalRecord
    BY DEF NoProposal, ProposalRecord
  <2> QED  BY <2>1 DEF RvInit
<1>6. /\ \A r \in Runs : /\ proposal[r] = NoProposal /\ receipt[r] = NoReceipt
                         /\ branch[r] = NoBranch
      /\ \A p \in Pages : page[p] = Closed /\ task[p] = Idle
      /\ page = [p \in Pages |-> page[p]] /\ task = [p \in Pages |-> task[p]]
  BY DEF RvInit
<1>7. \A r \in Runs : ReviewSound(r) /\ AppliedSound(r) /\ BranchSound(r)
  BY <1>3, <1>6 DEF ReviewSound, AppliedSound, BranchSound, NoReview
<1>8. \A p \in Pages : PageSound(p) /\ TaskSound(p)
  BY <1>6 DEF PageSound, TaskSound, Closed, Idle
<1>9. RvTypeOK
  <2>1. receipt \in [Runs -> [commit : Nat, accepted : SUBSET Hunks, rejected : SUBSET Hunks]]
    <3>1. NoReceipt \in [commit : Nat, accepted : SUBSET Hunks, rejected : SUBSET Hunks]
      BY DEF NoReceipt
    <3> QED  BY <3>1 DEF RvInit
  <2>2. branch \in [Runs -> [commit : Nat, revision : Nat]]
    BY DEF RvInit, NoBranch
  <2> QED  BY <2>1, <2>2, <1>3, <1>6 DEF RvTypeOK, Closed, Idle, ReviewStatuses
<1> QED  BY <1>2, <1>4, <1>5, <1>6, <1>7, <1>8, <1>9 DEF ReviewInvariant

LEMMA StutterKeeps ==
    ASSUME ReviewInvariant, UNCHANGED rvVars
    PROVE  ReviewInvariant'
<1>1. /\ UNCHANGED opVars /\ UNCHANGED storeVars /\ run' = run /\ review' = review
      /\ proposal' = proposal /\ receipt' = receipt /\ branch' = branch
      /\ page' = page /\ task' = task
  BY DEF rvVars, opVars
<1>2. ChapterSound' /\ HistoryGrows
  BY <1>1, NothingWritten
<1>3. \A r \in Runs : ReviewGrows(r)
  BY <1>1 DEF ReviewGrows
<1>4. /\ \A r \in Runs \ {} : ReviewSound(r)' /\ AppliedSound(r)' /\ BranchSound(r)'
      /\ \A p \in Pages \ {} : PageSound(p)'
      /\ \A p \in Pages \ {} : TaskSound(p)'
  <2>1. \A r \in Runs \ {} : /\ review'[r] = review[r] /\ receipt'[r] = receipt[r]
                             /\ branch'[r] = branch[r]
    BY <1>1
  <2>2. \A p \in Pages \ {} : page'[p] = page[p]
    BY <1>1
  <2>3. \A p \in Pages \ {} : task'[p] = task[p]
    BY <1>1
  <2> QED  BY <2>1, <2>2, <2>3, <1>2, <1>3, RestStays
<1>5. AuditInvariant'
  BY <1>1 DEF opVars, ReviewInvariant, AuditInvariant, OpTypeOK, RunStateEndsLifecycle,
     ReviewHeadReplaysLog, RunFollowsReview, OutcomeMatchesRecords, Present
<1>6. RvTypeOK'
  BY <1>1 DEF ReviewInvariant, RvTypeOK, Reviewed
<1> QED  BY <1>1, <1>2, <1>4, <1>5, <1>6 DEF ReviewInvariant

LEMMA NextKeepsReview ==
    ASSUME ReviewInvariant, [RvNext]_rvVars
    PROVE  ReviewInvariant'
<1>1. CASE Write
  BY <1>1, WriteKeeps
<1>2. ASSUME NEW p \in Pages, NEW r \in Runs, Propose(p, r)
      PROVE  ReviewInvariant'
  BY <1>2, ProposeKeeps
<1>3. ASSUME NEW p \in Pages,
             (\E r \in Runs : BeginOpen(p, r)) \/ BeginApply(p) \/ BeginBranch(p)
      PROVE  ReviewInvariant'
  BY <1>3, BeginningKeeps
<1>4. ASSUME NEW p \in Pages, page[p].open # NoCommit, Decide(p) \/ DecideNext(p)
      PROVE  ReviewInvariant'
  BY <1>4, PageDecides
<1>5. ASSUME NEW p \in Pages, Reject(p)
      PROVE  ReviewInvariant'
  BY <1>5, RejectKeeps
<1>6. ASSUME NEW p \in Pages, BeginDecideAll(p) \/ EndDecideAll(p) \/ Refuse(p)
      PROVE  ReviewInvariant'
  BY <1>6, PlanningKeeps
<1>7. ASSUME NEW p \in Pages, Leave(p)
      PROVE  ReviewInvariant'
  BY <1>7, LeaveKeeps
<1>8. ASSUME NEW p \in Pages, ReadNext(p)
      PROVE  ReviewInvariant'
  BY <1>8, ReadKeeps
<1>9. ASSUME NEW p \in Pages, Opened(p)
      PROVE  ReviewInvariant'
  BY <1>9, OpenedKeeps
<1>10. ASSUME NEW p \in Pages, Len(commits) < MaxCommits, ApplyReviewed(p)
       PROVE  ReviewInvariant'
  BY <1>10, ApplyKeeps
<1>11. ASSUME NEW p \in Pages, Len(commits) < MaxCommits, CreateBranch(p)
       PROVE  ReviewInvariant'
  BY <1>11, BranchKeeps
<1>12. CASE UNCHANGED rvVars
  BY <1>12, StutterKeeps
<1> QED
  BY <1>1, <1>2, <1>3, <1>4, <1>5, <1>6, <1>7, <1>8, <1>9, <1>10, <1>11, <1>12, Zenon
     DEF RvNext

-----------------------------------------------------------------------------
(* The theorems *)

\* In whatever order pages decide, handlers read and others write: no copy of a
\* review runs ahead of its log, what a handler read of the project is what its
\* commit binds, and applied and branched texts are the decided ones.
THEOREM ReviewInvariantHolds == RvSpec => []ReviewInvariant
<1>1. RvInit => ReviewInvariant
  BY InitReview
<1>2. ReviewInvariant /\ [RvNext]_rvVars => ReviewInvariant'
  BY NextKeepsReview
<1> QED  BY <1>1, <1>2, PTL DEF RvSpec

\* Runs, receipts, branches, pages and tasks keep their types, and a run has a
\* payload exactly if it has a review.
THEOREM ReviewTypeCorrect == RvSpec => []RvTypeOK
<1>1. ReviewInvariant => RvTypeOK
  BY DEF ReviewInvariant
<1> QED  BY <1>1, ReviewInvariantHolds, PTL

\* load_stored_review_candidate never refuses a stored review: although the store
\* takes the status on trust from pages that are behind each other, its compare of
\* revision and status leaves no status that replaying the log contradicts.
THEOREM ReviewsOpenAgain == RvSpec => []StatusMatchesReplay
<1>1. ReviewInvariant => StatusMatchesReplay
  BY DEF ReviewInvariant, StatusMatchesReplay, ReviewSound
<1> QED  BY <1>1, ReviewInvariantHolds, PTL

\* state.aiReview of a page whose revision is the log's shows the status and the
\* decisions of the log, whichever of opening and deciding made the copy.
THEOREM CurrentPageShowsLog == RvSpec => []PageAtHeadShowsLog
<1>1. ReviewInvariant => PageAtHeadShowsLog
  BY DEF ReviewInvariant, PageAtHeadShowsLog, PageSound
<1> QED  BY <1>1, ReviewInvariantHolds, PTL

\* apply_reviewed_proposal: the commit it makes holds the text its run read with
\* every accepted hunk carried out and no other, although session, project and log
\* are read apart and others write in between.
THEOREM AppliedAsDecided == RvSpec => []AppliedIsWhatWasDecided
<1>1. ReviewInvariant => AppliedIsWhatWasDecided
  <2> SUFFICES ASSUME ReviewInvariant, NEW r \in Runs
               PROVE  IF review[r].status = "applied"
                      THEN /\ receipt[r].accepted = IdsWith(DecisionsOf(r), "accepted")
                           /\ receipt[r].rejected = Ids(r) \ receipt[r].accepted
                           /\ Holds(receipt[r].commit, r, receipt[r].accepted)
                      ELSE receipt[r] = NoReceipt
    BY DEF AppliedIsWhatWasDecided
  <2>1. AppliedSound(r)
    BY DEF ReviewInvariant
  <2> QED  BY <2>1 DEF AppliedSound
<1> QED  BY <1>1, ReviewInvariantHolds, PTL

\* create_review_candidate_branch: commit and snapshot of a branch hold the text
\* that was decided at its revision, whatever is decided, written or applied later.
THEOREM BranchedAsDecided == RvSpec => []BranchKeepsDecidedText
<1>1. ReviewInvariant => BranchKeepsDecidedText
  BY DEF ReviewInvariant, BranchKeepsDecidedText, BranchSound, DecisionsAt
<1> QED  BY <1>1, ReviewInvariantHolds, PTL

=============================================================================
