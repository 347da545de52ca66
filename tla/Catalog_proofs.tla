--------------------------- MODULE Catalog_proofs ---------------------------
(***************************************************************************)
(* The stored catalogue keeps the promise of StoredFile, for every share,   *)
(* folder list, capacity and arena, and wherever the power is cut.          *)
(***************************************************************************)
EXTENDS Catalog, Album, CardSlot, SequenceTheorems, FiniteSetTheorems,
        WellFoundedInduction, TLAPS

-----------------------------------------------------------------------------
(* Naturals, recursive functions and sequences. *)

LEMMA LeastExists ==
    ASSUME NEW S \in SUBSET Nat, S # {}
    PROVE  \E n \in S : \A k \in S : n <= k
<1> DEFINE R == OpToRel(<, Nat)
<1>1. IsWellFoundedOn(R, Nat)
  BY NatLessThanWellFounded
<1>2. ASSUME NEW n \in Nat, NEW k \in Nat, <<k, n>> \notin R
      PROVE  n <= k
  BY <1>2 DEF OpToRel
<1> HIDE DEF R
<1>3. \E n \in S : \A k \in S : ~(<<k, n>> \in R)
  BY <1>1, WFMin
<1> QED
  BY <1>2, <1>3

\* A set of naturals with a bound has a greatest member.
LEMMA GreatestExists ==
    ASSUME NEW b \in Nat, NEW S \in SUBSET (0..b), S # {}
    PROVE  \E n \in S : \A k \in S : k <= n
<1> DEFINE T == {m \in 0..b : \E k \in S : m = b - k}
<1>1. T \in SUBSET Nat
  OBVIOUS
<1>2. PICK s \in S : TRUE
  OBVIOUS
<1>3. b - s \in T
  BY <1>2
<1>4. PICK m \in T : \A t \in T : m <= t
  BY <1>1, <1>3, LeastExists
<1>5. PICK n \in S : m = b - n
  BY <1>4
<1>6. ASSUME NEW k \in S PROVE k <= n
  <2>1. k \in 0..b /\ n \in 0..b
    OBVIOUS
  <2>2. b - k \in T
    BY <2>1
  <2>3. b - n <= b - k
    BY <1>4, <1>5, <2>2
  <2> QED
    BY <2>1, <2>3
<1> QED
  BY <1>6

\* Induction, over a set of naturals instead of a property of them.
LEMMA UpTo ==
    ASSUME NEW n \in Nat, NEW S, 0 \in S, \A k \in 0..(n - 1) : k \in S => k + 1 \in S
    PROVE  \A k \in 0..n : k \in S
<1> DEFINE left == {k \in 0..n : k \notin S}
<1> SUFFICES ASSUME left # {} PROVE FALSE
  OBVIOUS
<1>1. left \in SUBSET Nat
  OBVIOUS
<1> HIDE DEF left
<1>2. PICK k \in left : \A j \in left : k <= j
  BY <1>1, LeastExists
<1>3. k \in 0..n /\ k \notin S /\ k # 0
  BY <1>2 DEF left
<1>4. k - 1 \in 0..(n - 1) /\ k - 1 \notin S
  BY <1>3
<1>5. k - 1 \in left
  BY <1>4 DEF left
<1> QED
  BY <1>2, <1>3, <1>5

\* A function is defined by its first value and by what each value makes of the one before.
Recurses(A, base, n, next) == base \in A /\ n \in Nat /\ next \in [A \X (1..n) -> A]
Unrolls(g, A, base, n, next) ==
    /\ g \in [0..n -> A] /\ g[0] = base
    /\ \A i \in 1..n : g[i] = next[<<g[i - 1], i>>]

LEMMA RecursionIsDefined ==
    ASSUME NEW A, NEW base, NEW n, NEW next, Recurses(A, base, n, next)
    PROVE  \E g : Unrolls(g, A, base, n, next)
<1> USE DEF Recurses
<1> DEFINE Begun(g, m) ==
               /\ g \in [0..m -> A] /\ g[0] = base
               /\ \A i \in 1..m : g[i] = next[<<g[i - 1], i>>]
           S == {m \in 0..n : \E g : Begun(g, m)}
<1>1. 0 \in S
  <2>1. \E g : Begun(g, 0)
    <3> DEFINE g0 == [i \in 0..0 |-> base]
    <3>1. g0 \in [0..0 -> A] /\ g0[0] = base /\ \A i \in 1..0 : g0[i] = next[<<g0[i - 1], i>>]
      OBVIOUS
    <3> HIDE DEF g0
    <3> QED
      BY <3>1
  <2> HIDE DEF Begun
  <2> QED
    BY <2>1
<1>2. ASSUME NEW k \in 0..(n - 1), k \in S PROVE k + 1 \in S
  <2>1. PICK g : Begun(g, k)
    BY <1>2
  <2> DEFINE h == [i \in 0..(k + 1) |-> IF i = k + 1 THEN next[<<g[k], k + 1>>] ELSE g[i]]
  <2>2. <<g[k], k + 1>> \in A \X (1..n)
    BY <2>1
  <2>3. h \in [0..(k + 1) -> A]
    <3>1. ASSUME NEW i \in 0..(k + 1) PROVE h[i] \in A
      BY <2>1, <2>2
    <3>2. h = [i \in 0..(k + 1) |-> h[i]]
      OBVIOUS
    <3> HIDE DEF h
    <3> QED
      BY <3>1, <3>2
  <2>4. h[0] = base
    BY <2>1
  <2>5. ASSUME NEW i \in 1..(k + 1) PROVE h[i] = next[<<h[i - 1], i>>]
    <3>1. i - 1 \in 0..k /\ h[i - 1] = g[i - 1]
      OBVIOUS
    <3>4. h[i] = IF i = k + 1 THEN next[<<g[k], k + 1>>] ELSE g[i]
      OBVIOUS
    <3> HIDE DEF h
    <3>2. CASE i = k + 1
      <4>1. i - 1 = k
        BY <3>2
      <4> QED
        BY <3>1, <3>2, <3>4, <4>1
    <3>3. CASE i \in 1..k
      <4>1. g[i] = next[<<g[i - 1], i>>]
        BY <2>1, <3>3
      <4>2. i # k + 1
        BY <3>3
      <4> QED
        BY <3>1, <3>4, <4>1, <4>2
    <3> QED
      BY <3>2, <3>3
  <2> HIDE DEF h
  <2>6. Begun(h, k + 1)
    BY <2>3, <2>4, <2>5
  <2> QED
    BY <2>6
<1> HIDE DEF S
<1>3. n \in S
  BY <1>1, <1>2, UpTo
<1>4. PICK g : Begun(g, n)
  BY <1>3 DEF S
<1> QED
  BY <1>4 DEF Unrolls

\* What is kept of the first records of s.
Sifts(kept, T, s, S) ==
    /\ kept \in [0..Len(s) -> Seq(T)] /\ kept[0] = <<>> /\ Sifted(s, S) = kept[Len(s)]
    /\ \A i \in 1..Len(s) :
          kept[i] = IF s[i] \in S THEN Append(kept[i - 1], s[i]) ELSE kept[i - 1]

LEMMA SiftedByStep ==
    ASSUME NEW T, NEW s \in Seq(T), NEW S
    PROVE  \E kept : Sifts(kept, T, s, S)
<1> DEFINE n == Len(s)
           Step(r, i) == IF s[i] \in S THEN Append(r, s[i]) ELSE r
           next == [x \in Seq(T) \X (1..n) |-> Step(x[1], x[2])]
           Is(g) == g = [i \in 0..n |-> IF i = 0 THEN <<>>
                                        ELSE IF s[i] \in S THEN Append(g[i - 1], s[i]) ELSE g[i - 1]]
           kept == CHOOSE g : Is(g)
<1>1. n \in Nat /\ <<>> \in Seq(T) /\ \A i \in 1..n : s[i] \in T
  BY LenProperties, ElementOfSeq, EmptySeq
<1>2. next \in [Seq(T) \X (1..n) -> Seq(T)]
  <2>1. ASSUME NEW x \in Seq(T) \X (1..n) PROVE Step(x[1], x[2]) \in Seq(T)
    BY <1>1, AppendProperties
  <2> QED
    BY <2>1
<1> HIDE DEF n
<1>3. PICK g \in [0..n -> Seq(T)] : g[0] = <<>> /\ \A i \in 1..n : g[i] = next[<<g[i - 1], i>>]
  <2> DEFINE A == Seq(T)
             base == <<>>
  <2>1. base \in A /\ n \in Nat /\ next \in [A \X (1..n) -> A]
    BY <1>1, <1>2
  <2> HIDE DEF next, A, base
  <2>2. Recurses(A, base, n, next)
    BY <2>1 DEF Recurses
  <2>3. \E g : Unrolls(g, A, base, n, next)
    BY <2>2, RecursionIsDefined
  <2> QED
    BY <2>3 DEF A, base, Unrolls
<1>4. Is(g)
  <2>1. ASSUME NEW i \in 0..n
        PROVE  g[i] = IF i = 0 THEN <<>> ELSE IF s[i] \in S THEN Append(g[i - 1], s[i]) ELSE g[i - 1]
    <3>1. CASE i = 0
      BY <1>3, <3>1
    <3>2. CASE i # 0
      <4>1. i - 1 \in 0..n /\ i \in 1..n
        BY <1>1, <3>2
      <4>2. <<g[i - 1], i>> \in Seq(T) \X (1..n)
        BY <4>1
      <4>3. next[<<g[i - 1], i>>] = Step(g[i - 1], i)
        BY <4>2
      <4>4. g[i] = next[<<g[i - 1], i>>]
        BY <1>3, <4>1
      <4> QED
        BY <3>2, <4>3, <4>4
    <3> QED
      BY <3>1, <3>2
  <2> QED
    BY <2>1
<1> HIDE DEF next
<1>5. Is(kept)
  <2> HIDE DEF Is
  <2> QED
    BY <1>4
<1>6. Sifted(s, S) = kept[n]
  BY DEF Sifted, n
<1> HIDE DEF kept
<1>7. kept[0] = <<>>
  BY <1>1, <1>5
<1>8. ASSUME NEW i \in 1..n
      PROVE  kept[i] = IF s[i] \in S THEN Append(kept[i - 1], s[i]) ELSE kept[i - 1]
  <2>1. i \in 0..n /\ i # 0
    BY <1>1
  <2> QED
    BY <1>5, <2>1
<1>9. DOMAIN kept = 0..n /\ kept = [i \in 0..n |-> kept[i]]
  BY <1>5
<1>10. \A i \in 0..n : kept[i] \in Seq(T)
  <2> DEFINE W == {i \in 0..n : kept[i] \in Seq(T)}
  <2>0. kept[0] \in Seq(T)
    BY <1>1, <1>7
  <2>1. 0 \in W
    BY <1>1, <2>0
  <2>2. ASSUME NEW k \in 0..(n - 1), k \in W PROVE k + 1 \in W
    <3>1. k + 1 \in 1..n /\ (k + 1) - 1 = k /\ kept[k] \in Seq(T) /\ s[k + 1] \in T
      BY <1>1, <2>2
    <3>2. kept[k + 1] = IF s[k + 1] \in S THEN Append(kept[k], s[k + 1]) ELSE kept[k]
      BY <1>8, <3>1
    <3>3. Append(kept[k], s[k + 1]) \in Seq(T)
      BY <3>1, AppendProperties
    <3>4. kept[k + 1] \in Seq(T)
      BY <3>1, <3>2, <3>3
    <3> QED
      BY <1>1, <3>1, <3>4
  <2> HIDE DEF W
  <2>3. \A i \in 0..n : i \in W
    BY <1>1, <2>1, <2>2, UpTo
  <2> QED
    BY <2>3 DEF W
<1>11. kept \in [0..n -> Seq(T)]
  BY <1>9, <1>10
<1> QED
  BY <1>6, <1>7, <1>8, <1>11 DEF n, Sifts

\* Where the records of r, the ones in S, come from among the first m of s.
Embeds(pos, r, s, m, S) ==
    /\ pos \in [1..Len(r) -> 1..m]
    /\ \A i, j \in 1..Len(r) : i < j => pos[i] < pos[j]
    /\ \A i \in 1..Len(r) : r[i] = s[pos[i]] /\ r[i] \in S
    /\ \A k \in 1..m : s[k] \in S => \E i \in 1..Len(r) : pos[i] = k

LEMMA EmbedsOneMore ==
    ASSUME NEW T, NEW s \in Seq(T), NEW S, NEW r \in Seq(T), NEW m \in Nat, m + 1 <= Len(s),
           NEW pos, Embeds(pos, r, s, m, S)
    PROVE  \E after : Embeds(after, IF s[m + 1] \in S THEN Append(r, s[m + 1]) ELSE r, s, m + 1, S)
<1>0. Len(r) \in Nat /\ Len(s) \in Nat /\ s[m + 1] \in T
  BY LenProperties, ElementOfSeq
<1>1. CASE s[m + 1] \notin S
  <2>1. Embeds(pos, r, s, m + 1, S)
    <3>1. pos \in [1..Len(r) -> 1..(m + 1)]
      BY DEF Embeds
    <3>2. ASSUME NEW k \in 1..(m + 1), s[k] \in S PROVE \E i \in 1..Len(r) : pos[i] = k
      <4>1. k \in 1..m
        BY <1>1, <3>2
      <4> QED
        BY <3>2, <4>1 DEF Embeds
    <3> QED
      BY <3>1, <3>2 DEF Embeds
  <2> QED
    BY <1>1, <2>1
<1>2. CASE s[m + 1] \in S
  <2> DEFINE n == Len(r)
             q == Append(r, s[m + 1])
             after == [i \in 1..(n + 1) |-> IF i = n + 1 THEN m + 1 ELSE pos[i]]
  <2>1. Len(q) = n + 1 /\ q[n + 1] = s[m + 1] /\ \A i \in 1..n : q[i] = r[i]
    BY <1>0, AppendProperties
  <2>2. /\ DOMAIN after = 1..(n + 1) /\ after = [i \in 1..(n + 1) |-> after[i]]
        /\ \A i \in 1..(n + 1) : after[i] = IF i = n + 1 THEN m + 1 ELSE pos[i]
    OBVIOUS
  <2>3. n \in Nat /\ \A i \in 1..n : pos[i] \in 1..m
    BY <1>0 DEF Embeds
  <2>4. \A i, j \in 1..n : i < j => pos[i] < pos[j]
    BY DEF Embeds
  <2>5. \A i \in 1..n : r[i] = s[pos[i]] /\ r[i] \in S
    BY DEF Embeds
  <2>6. \A k \in 1..m : s[k] \in S => \E i \in 1..n : pos[i] = k
    BY DEF Embeds
  <2> HIDE DEF n, q, after
  <2>7. \A i \in 1..(n + 1) : i \in 1..n \/ i = n + 1
    BY <2>3
  <2>8. \A i \in 1..n : after[i] = pos[i] /\ i \in 1..(n + 1) /\ i # n + 1
    BY <2>2, <2>3
  <2>9. after[n + 1] = m + 1 /\ n + 1 \in 1..(n + 1)
    BY <2>2, <2>3
  <2>10. after \in [1..(n + 1) -> 1..(m + 1)]
    <3>1. \A i \in 1..(n + 1) : after[i] \in 1..(m + 1)
      BY <2>3, <2>7, <2>8, <2>9
    <3> QED
      BY <2>2, <3>1
  <2>11. ASSUME NEW i \in 1..(n + 1), NEW j \in 1..(n + 1), i < j PROVE after[i] < after[j]
    <3>1. i \in 1..n
      BY <2>3, <2>7, <2>11
    <3> QED
      BY <2>3, <2>4, <2>7, <2>8, <2>9, <2>11, <3>1
  <2>12. ASSUME NEW i \in 1..(n + 1) PROVE q[i] = s[after[i]] /\ q[i] \in S
    BY <1>2, <2>1, <2>5, <2>7, <2>8, <2>9
  <2>13. ASSUME NEW k \in 1..(m + 1), s[k] \in S PROVE \E i \in 1..(n + 1) : after[i] = k
    <3>1. CASE k = m + 1
      BY <2>9, <3>1
    <3>2. CASE k # m + 1
      <4>1. k \in 1..m
        BY <3>2
      <4>2. PICK i \in 1..n : pos[i] = k
        BY <2>6, <2>13, <4>1
      <4> QED
        BY <2>8, <4>2
    <3> QED
      BY <3>1, <3>2
  <2>14. Embeds(after, q, s, m + 1, S)
    BY <2>1, <2>10, <2>11, <2>12, <2>13 DEF Embeds
  <2> QED
    BY <1>2, <2>14 DEF q
<1> QED
  BY <1>1, <1>2

\* What is kept of a sequence are its records in S, in their order, each as often as before.
LEMMA SiftedProperties ==
    ASSUME NEW T, NEW s \in Seq(T), NEW S
    PROVE  Sifted(s, S) \in Seq(T) /\ \E pos : Embeds(pos, Sifted(s, S), s, Len(s), S)
<1>0. PICK kept : Sifts(kept, T, s, S)
  BY SiftedByStep
<1>1. /\ kept \in [0..Len(s) -> Seq(T)] /\ kept[0] = <<>> /\ Sifted(s, S) = kept[Len(s)]
      /\ \A i \in 1..Len(s) :
            kept[i] = IF s[i] \in S THEN Append(kept[i - 1], s[i]) ELSE kept[i - 1]
  BY <1>0 DEF Sifts
<1>2. Len(s) \in Nat
  BY LenProperties
<1> DEFINE n == Len(s)
           W == {m \in 0..n : \E pos : Embeds(pos, kept[m], s, m, S)}
<1>3. 0 \in W
  <2> DEFINE none == [i \in 1..0 |-> 0]
  <2>1. Len(kept[0]) = 0
    BY <1>1, EmptySeq
  <2>2. Embeds(none, kept[0], s, 0, S)
    BY <2>1 DEF Embeds
  <2> HIDE DEF none
  <2> QED
    BY <1>2, <2>2
<1>4. ASSUME NEW m \in 0..(n - 1), m \in W PROVE m + 1 \in W
  <2>1. PICK pos : Embeds(pos, kept[m], s, m, S)
    BY <1>4
  <2>2. m \in Nat /\ m + 1 <= Len(s) /\ kept[m] \in Seq(T) /\ m + 1 \in 1..Len(s) /\ (m + 1) - 1 = m
    BY <1>1, <1>2
  <2>3. kept[m + 1] = IF s[m + 1] \in S THEN Append(kept[m], s[m + 1]) ELSE kept[m]
    BY <1>1, <2>2
  <2>4. \E after : Embeds(after, kept[m + 1], s, m + 1, S)
    BY <2>1, <2>2, <2>3, EmbedsOneMore
  <2> QED
    BY <1>2, <2>2, <2>4
<1> HIDE DEF W
<1>5. n \in W
  <2>0. n \in Nat
    BY <1>2
  <2> HIDE DEF n
  <2>1. \A m \in 0..n : m \in W
    BY <2>0, <1>3, <1>4, UpTo
  <2> QED
    BY <2>0, <2>1
<1>6. Sifted(s, S) \in Seq(T)
  BY <1>1, <1>2
<1> QED
  BY <1>1, <1>5, <1>6 DEF W

\* One run of records taken out: what follows it closes up.
LeavesOut(S, s, a, b) ==
    /\ a \in Nat /\ b \in Nat /\ a + b <= Len(s)
    /\ \A k \in 1..Len(s) : s[k] \in S <=> ~(a < k /\ k <= a + b)
ClosesUp(r, s, a, b) ==
    /\ Len(r) = Len(s) - b
    /\ \A j \in 1..(Len(s) - b) : r[j] = IF j <= a THEN s[j] ELSE s[j + b]

LEMMA SiftedRun ==
    ASSUME NEW T, NEW s \in Seq(T), NEW S, NEW a, NEW b, LeavesOut(S, s, a, b)
    PROVE  ClosesUp(Sifted(s, S), s, a, b)
<1> USE DEF LeavesOut
<1> DEFINE n == Len(s)
           Left(m) == IF m <= a THEN m ELSE IF m <= a + b THEN a ELSE m - b
           Closed(r, m) == Len(r) = Left(m) /\ \A j \in 1..Left(m) : r[j] = IF j <= a THEN s[j] ELSE s[j + b]
<1>0. PICK kept : Sifts(kept, T, s, S)
  BY SiftedByStep
<1>1. /\ kept \in [0..Len(s) -> Seq(T)] /\ kept[0] = <<>> /\ Sifted(s, S) = kept[Len(s)]
      /\ \A i \in 1..Len(s) :
            kept[i] = IF s[i] \in S THEN Append(kept[i - 1], s[i]) ELSE kept[i - 1]
  BY <1>0 DEF Sifts
<1>2. n \in Nat
  BY LenProperties
<1> DEFINE W == {m \in 0..n : Closed(kept[m], m)}
<1>3. 0 \in W
  BY <1>1, <1>2, EmptySeq
<1>4. ASSUME NEW m \in 0..(n - 1), m \in W PROVE m + 1 \in W
  <2>0. m \in Nat /\ m \in 0..n /\ m + 1 \in 0..n /\ m + 1 \in 1..n /\ (m + 1) - 1 = m
    BY <1>2
  <2>1. /\ m \in Nat /\ kept[m] \in Seq(T) /\ m + 1 \in 1..n /\ (m + 1) - 1 = m
        /\ kept[m + 1] \in Seq(T) /\ s[m + 1] \in T
    BY <1>1, <2>0, ElementOfSeq
  <2>2. kept[m + 1] = IF s[m + 1] \in S THEN Append(kept[m], s[m + 1]) ELSE kept[m]
    BY <1>1, <2>1
  <2>3. Len(kept[m]) = Left(m) /\ \A j \in 1..Left(m) : kept[m][j] = IF j <= a THEN s[j] ELSE s[j + b]
    BY <1>4
  <2>4. CASE a < m + 1 /\ m + 1 <= a + b
    <3>1. kept[m + 1] = kept[m] /\ Left(m) = a /\ Left(m + 1) = a
      BY <2>1, <2>2, <2>4
    <3> QED
      BY <2>1, <2>3, <3>1
  <2>5. CASE ~(a < m + 1 /\ m + 1 <= a + b)
    <3>1. kept[m + 1] = Append(kept[m], s[m + 1]) /\ Left(m + 1) = Left(m) + 1 /\ Left(m) \in Nat
      BY <2>1, <2>2, <2>5
    <3>2. /\ Len(kept[m + 1]) = Left(m) + 1 /\ kept[m + 1][Left(m) + 1] = s[m + 1]
          /\ \A j \in 1..Left(m) : kept[m + 1][j] = kept[m][j]
      BY <2>1, <2>3, <3>1, AppendProperties
    <3>3. s[m + 1] = IF Left(m) + 1 <= a THEN s[Left(m) + 1] ELSE s[Left(m) + 1 + b]
      BY <2>1, <2>5
    <3>4. ASSUME NEW j \in 1..Left(m + 1)
          PROVE  kept[m + 1][j] = IF j <= a THEN s[j] ELSE s[j + b]
      <4>1. j \in 1..Left(m) \/ j = Left(m) + 1
        BY <3>1
      <4> HIDE DEF Left
      <4> QED
        BY <2>3, <3>2, <3>3, <4>1
    <3> HIDE DEF Left
    <3>5. Closed(kept[m + 1], m + 1)
      BY <3>1, <3>2, <3>4
    <3> HIDE DEF Closed
    <3> QED
      BY <2>1, <3>5
  <2> QED
    BY <2>4, <2>5
<1> HIDE DEF W
<1>5. n \in W
  <2>0. n \in Nat
    BY <1>2
  <2> HIDE DEF n
  <2>1. \A m \in 0..n : m \in W
    BY <2>0, <1>3, <1>4, UpTo
  <2> QED
    BY <2>0, <2>1
<1>6. Closed(kept[n], n) /\ Left(n) = n - b /\ kept[n] \in Seq(T)
  BY <1>1, <1>2, <1>5 DEF W
<1> QED
  BY <1>1, <1>6 DEF ClosesUp

-----------------------------------------------------------------------------
(* How the catalogue is stored. *)

\* What is renamed over the real name is the whole of what was to be stored: the .part
\* was written to its end before the old file went.
PartIsWhole == step \in {"unlink", "rename"} => part = buf

LEMMA PartWholeInit == Init => PartIsWhole
BY DEF Init, FileInit, PartIsWhole

LEMMA PartWholeNext == PartIsWhole /\ [Next]_vars => PartIsWhole'
<1> SUFFICES ASSUME PartIsWhole, [Next]_vars PROVE PartIsWhole'
  OBVIOUS
<1> USE DEF PartIsWhole
<1>1. CASE UNCHANGED fileVars
  BY <1>1 DEF fileVars
<1>2. CASE Refresh
  BY <1>2 DEF Refresh, Store
<1>3. CASE Storing
  <2>1. CASE WritePart
    BY <2>1 DEF WritePart, Close
  <2>2. CASE Unlink
    BY <2>2 DEF Unlink
  <2>3. CASE Rename
    BY <2>3 DEF Rename, Close
  <2>4. CASE Discard
    BY <2>4 DEF Discard, Close
  <2>5. QED
    BY <1>3, <2>1, <2>2, <2>3, <2>4 DEF Storing, Write
<1>4. CASE ChangeCard
  BY <1>4 DEF ChangeCard, CardSwapped
<1>5. CASE Boot
  BY <1>5 DEF Boot, FileCut, Close
<1>6. QED
  BY <1>1, <1>2, <1>3, <1>4, <1>5
     DEF Next, vars, NextFolder, ListingFails, Reload, ShareChanges, EditList

\* The same for the specification: it is what the renaming relies on.
LEMMA PartWhole == Spec => []PartIsWhole
BY PartWholeInit, PartWholeNext, PTL DEF Spec

LEMMA StepKeepsPromise ==
    PartIsWhole /\ [Next]_vars => [Promise!Next]_<<file, Offered>>
<1> SUFFICES ASSUME PartIsWhole, [Next]_vars
             PROVE  [Promise!Next]_<<file, Offered>>
  OBVIOUS
<1> USE DEF PartIsWhole, Offered, Promise!Next, Promise!Offer, Promise!Vanish,
            Promise!Settle, Promise!Swap
<1>1. CASE UNCHANGED fileVars
  BY <1>1 DEF fileVars
<1>2. CASE Refresh
  BY <1>2 DEF Refresh, Store
<1>3. CASE Storing
  <2>1. CASE WritePart
    BY <2>1 DEF WritePart, Close
  <2>2. CASE Unlink
    BY <2>2 DEF Unlink
  <2>3. CASE Rename
    BY <2>3 DEF Rename, Close
  <2>4. CASE Discard
    BY <2>4 DEF Discard, Close
  <2>5. QED
    BY <1>3, <2>1, <2>2, <2>3, <2>4 DEF Storing, Write
<1>4. CASE ChangeCard
  BY <1>4 DEF ChangeCard, CardSwapped
<1>5. CASE Boot
  BY <1>5 DEF Boot, FileCut, Close
<1>6. QED
  BY <1>1, <1>2, <1>3, <1>4, <1>5
     DEF Next, vars, NextFolder, ListingFails, Reload, ShareChanges, EditList

\* The catalogue's file only ever holds the old one, nothing, or the new one whole: every
\* step of the refresh, of the write, of the user and of the power is a step of the
\* promise or leaves it alone (board_storage.c:593).
THEOREM CatalogueFileKeepsPromise == Spec => OldNothingOrWhole
<1>1. Init => Promise!Init
  BY DEF Init, FileInit, Promise!Init, Offered
<1>2. QED
  BY <1>1, StepKeepsPromise, PartWhole, PTL DEF Spec, OldNothingOrWhole, Promise!Spec

-----------------------------------------------------------------------------
(* What it holds. *)

Catalogues == [recs : Seq(Path), used : Nat, truncated : BOOLEAN, full : BOOLEAN, cursor : Nat]

LEMMA RecordsReplaced ==
    ASSUME NEW c \in Catalogues, NEW recs \in Seq(Path), NEW used \in Nat
    PROVE  /\ [c EXCEPT !.recs = recs, !.used = used] \in Catalogues
           /\ [c EXCEPT !.recs = recs, !.used = used].recs = recs
           /\ [c EXCEPT !.recs = recs, !.used = used].cursor = c.cursor
BY DEF Catalogues

LEMMA AddOne ==
    ASSUME NEW c \in Catalogues, IsInjective(c.recs), NEW p \in Path
    PROVE  /\ Add(c, p) \in Catalogues /\ IsInjective(Add(c, p).recs)
           /\ Add(c, p).cursor = c.cursor
           /\ Add(c, p).recs \in {c.recs, Append(c.recs, p)}
<1> USE DEF Catalogues
<1>1. /\ c.recs \in Seq(Path) /\ Len(c.recs) \in Nat /\ DOMAIN c.recs = 1..Len(c.recs)
      /\ Append(c.recs, p) \in Seq(Path)
  BY LenProperties, AppendProperties
<1>2. CASE Len(c.recs) >= Capacity
  BY <1>1, <1>2 DEF Add
<1>3. CASE ~(Len(c.recs) >= Capacity) /\ Contains(c.recs, p)
  BY <1>1, <1>3 DEF Add
<1>4. CASE ~(Len(c.recs) >= Capacity) /\ ~Contains(c.recs, p) /\ c.used >= Arena
  BY <1>1, <1>4 DEF Add
<1>5. CASE ~(Len(c.recs) >= Capacity) /\ ~Contains(c.recs, p) /\ ~(c.used >= Arena)
  <2> DEFINE recs == Append(c.recs, p)
             used == c.used + 1
             d == [c EXCEPT !.recs = recs, !.used = used]
  <2>1. Add(c, p) = d
    BY <1>5 DEF Add
  <2>2. d \in Catalogues /\ d.cursor = c.cursor /\ d.recs = Append(c.recs, p)
    <3>1. recs \in Seq(Path) /\ used \in Nat /\ c \in Catalogues
      BY <1>1
    <3> HIDE DEF Catalogues, recs, used
    <3>2. d \in Catalogues /\ d.cursor = c.cursor /\ d.recs = recs
      BY <3>1, RecordsReplaced, ZenonT(60)
    <3> QED
      BY <3>2 DEF recs
  <2>3. IsInjective(Append(c.recs, p))
    <3> DEFINE q == Append(c.recs, p)
               n == Len(c.recs)
    <3>1. /\ DOMAIN q = 1..(n + 1) /\ q[n + 1] = p
          /\ \A i \in 1..n : q[i] = c.recs[i]
      BY <1>1, AppendProperties, LenProperties
    <3>2. \A i \in 1..n : c.recs[i] # p
      BY <1>5 DEF Contains
    <3>3. \A i, j \in 1..n : c.recs[i] = c.recs[j] => i = j
      BY <1>1 DEF IsInjective
    <3>4. n \in Nat
      BY <1>1
    <3> HIDE DEF q, n
    <3>5. \A i \in DOMAIN q : i \in 1..n \/ i = n + 1
      BY <3>1, <3>4
    <3> QED
      BY <3>1, <3>2, <3>3, <3>5 DEF IsInjective, q
  <2> HIDE DEF d
  <2> QED
    BY <2>1, <2>2, <2>3
<1> QED
  BY <1>2, <1>3, <1>4, <1>5

\* What has come of c once the first paths were added to it.
Grown(d, c, paths) ==
    /\ d \in Catalogues /\ IsInjective(d.recs) /\ d.cursor = c.cursor
    /\ Len(d.recs) >= Len(c.recs)
    /\ \A i \in 1..Len(c.recs) : d.recs[i] = c.recs[i]
    /\ \A i \in 1..Len(d.recs) : i > Len(c.recs) => d.recs[i] \in ToSet(paths)

LEMMA GrowsByOne ==
    ASSUME NEW c \in Catalogues, NEW paths \in Seq(Path), NEW d, Grown(d, c, paths),
           NEW i \in 1..Len(paths)
    PROVE  Grown(Add(d, paths[i]), c, paths)
<1> DEFINE p == paths[i]
           e == Add(d, p)
<1>1. p \in Path /\ p \in ToSet(paths) /\ d \in Catalogues /\ IsInjective(d.recs)
  BY ElementOfSeq, LenProperties DEF ToSet, Grown
<1> HIDE DEF p
<1>2. /\ e \in Catalogues /\ IsInjective(e.recs) /\ e.cursor = d.cursor
      /\ e.recs \in {d.recs, Append(d.recs, p)}
  BY <1>1, AddOne
<1> HIDE DEF e
<1>3. c.recs \in Seq(Path) /\ d.recs \in Seq(Path)
  BY <1>1 DEF Catalogues
<1>4. Len(c.recs) \in Nat /\ Len(d.recs) \in Nat
  BY <1>3, LenProperties
<1>5. ASSUME e.recs = d.recs PROVE Grown(e, c, paths)
  BY <1>2, <1>5 DEF Grown
<1>6. ASSUME e.recs = Append(d.recs, p) PROVE Grown(e, c, paths)
  <2>1. /\ Len(e.recs) = Len(d.recs) + 1 /\ e.recs[Len(d.recs) + 1] = p
        /\ \A j \in 1..Len(d.recs) : e.recs[j] = d.recs[j]
    BY <1>1, <1>3, <1>6, AppendProperties
  <2>2. \A j \in 1..Len(e.recs) : j \in 1..Len(d.recs) \/ j = Len(d.recs) + 1
    BY <1>4, <2>1
  <2>3. \A j \in 1..Len(c.recs) : j \in 1..Len(d.recs)
    BY <1>4 DEF Grown
  <2>4. /\ e.cursor = c.cursor /\ Len(d.recs) >= Len(c.recs)
        /\ \A j \in 1..Len(c.recs) : d.recs[j] = c.recs[j]
        /\ \A j \in 1..Len(d.recs) : j > Len(c.recs) => d.recs[j] \in ToSet(paths)
    BY <1>2 DEF Grown
  <2>5. Len(e.recs) >= Len(c.recs)
    BY <1>4, <2>1, <2>4
  <2>6. \A j \in 1..Len(c.recs) : e.recs[j] = c.recs[j]
    BY <2>1, <2>3, <2>4
  <2>7. ASSUME NEW j \in 1..Len(e.recs), j > Len(c.recs) PROVE e.recs[j] \in ToSet(paths)
    <3>1. CASE j \in 1..Len(d.recs)
      <4>1. e.recs[j] = d.recs[j]
        BY <2>1, <3>1
      <4> QED
        BY <2>4, <2>7, <3>1, <4>1
    <3>2. CASE j = Len(d.recs) + 1
      BY <1>1, <2>1, <3>2
    <3> QED
      BY <2>2, <3>1, <3>2
  <2> QED
    BY <1>2, <2>4, <2>5, <2>6, <2>7 DEF Grown
<1> QED
  BY <1>2, <1>5, <1>6 DEF e, p

\* Paths are added at the end, each once, until there is no room.
LEMMA AddAllGrows ==
    ASSUME NEW c \in Catalogues, IsInjective(c.recs), NEW paths \in Seq(Path)
    PROVE  Grown(AddAll(c, paths), c, paths)
<1> DEFINE n == Len(paths)
           next == [x \in {d \in Catalogues : Grown(d, c, paths)} \X (1..n) |-> Add(x[1], paths[x[2]])]
           Is(g) == g = [i \in 0..n |-> IF i = 0 THEN c ELSE Add(g[i - 1], paths[i])]
           added == CHOOSE g : Is(g)
           A == {d \in Catalogues : Grown(d, c, paths)}
<1>1. n \in Nat /\ \A i \in 1..n : paths[i] \in Path
  BY LenProperties, ElementOfSeq
<1>2. Grown(c, c, paths)
  <2>1. c.recs \in Seq(Path) /\ Len(c.recs) \in Nat
    BY LenProperties DEF Catalogues
  <2> QED
    BY <2>1 DEF Grown
<1>3. \A d \in A, i \in 1..n : Add(d, paths[i]) \in A
  <2>1. ASSUME NEW d \in A, NEW i \in 1..n PROVE Grown(Add(d, paths[i]), c, paths)
    BY GrowsByOne
  <2> QED
    BY <2>1 DEF Grown
<1>4. PICK g : Unrolls(g, A, c, n, next)
  <2>1. next \in [A \X (1..n) -> A]
    <3>1. \A x \in A \X (1..n) : Add(x[1], paths[x[2]]) \in A
      BY <1>3
    <3> HIDE DEF A
    <3> QED
      BY <3>1 DEF A
  <2>2. c \in A
    BY <1>2
  <2> HIDE DEF A, next
  <2>3. Recurses(A, c, n, next)
    BY <1>1, <2>1, <2>2 DEF Recurses
  <2> QED
    BY <2>3, RecursionIsDefined
<1>5. g \in [0..n -> A] /\ g[0] = c /\ \A i \in 1..n : g[i] = next[<<g[i - 1], i>>]
  BY <1>4 DEF Unrolls
<1>6. \A i \in 1..n : g[i] = Add(g[i - 1], paths[i])
  <2> SUFFICES ASSUME NEW i \in 1..n PROVE g[i] = Add(g[i - 1], paths[i])
    OBVIOUS
  <2>1. i - 1 \in 0..n
    BY <1>1
  <2>2. <<g[i - 1], i>> \in A \X (1..n)
    BY <1>5, <2>1
  <2>3. next[<<g[i - 1], i>>] = Add(g[i - 1], paths[i])
    BY <2>2
  <2> QED
    BY <1>5, <2>3
<1> HIDE DEF next, A, n
<1>7. Is(g)
  BY <1>5, <1>6
<1>8. Is(added)
  <2> HIDE DEF Is
  <2> QED
    BY <1>7
<1>9. AddAll(c, paths) = added[n]
  BY DEF AddAll, n
<1> HIDE DEF added
<1>10. \A i \in 0..n : added[i] = g[i]
  <2> DEFINE W == {i \in 0..n : added[i] = g[i]}
  <2>1. 0 \in W
    BY <1>1, <1>5, <1>8
  <2>2. ASSUME NEW i \in 0..(n - 1), i \in W PROVE i + 1 \in W
    <3>1. i + 1 \in 0..n /\ i + 1 # 0 /\ (i + 1) - 1 = i /\ i + 1 \in 1..n
      BY <1>1
    <3>2. added[i + 1] = Add(added[i], paths[i + 1])
      BY <1>8, <3>1
    <3>3. g[i + 1] = Add(g[i], paths[i + 1])
      BY <1>6, <3>1
    <3> QED
      BY <2>2, <3>1, <3>2, <3>3
  <2> HIDE DEF W
  <2>3. \A i \in 0..n : i \in W
    BY <1>1, <2>1, <2>2, UpTo
  <2> QED
    BY <2>3 DEF W
<1>11. n \in 0..n /\ g[n] \in A
  BY <1>1, <1>5
<1> QED
  BY <1>9, <1>10, <1>11 DEF A

LEMMA ListingIsFolder ==
    ASSUME NEW f \in Folder, share[f] \subseteq Leaf
    PROVE  Listing(f) \in Seq(Path) /\ ToSet(Listing(f)) = {f} \X share[f]
<1> DEFINE S == {f} \X share[f]
           n == Cardinality(S)
           l == SetToSeq(S)
<1>1. IsFiniteSet(S)
  <2>1. IsFiniteSet(share[f]) /\ IsFiniteSet({f})
    BY LeafAssumption, FS_Subset, FS_Singleton
  <2> QED
    BY <2>1, FS_Product
<1> S \subseteq Path
  BY DEF Path
<1> HIDE DEF S
<1>2. n \in Nat /\ ExistsBijection(1..n, S)
  BY <1>1, FS_CardinalityType
<1>3. \E g \in [1..n -> S] : IsInjective(g)
  BY <1>2 DEF ExistsBijection, Bijection, Injection, IsInjective
<1>4. l \in [1..n -> S] /\ IsInjective(l)
  BY <1>3 DEF SetToSeq
<1>5. Cardinality(1..n) = n
  BY <1>2, FS_Interval
<1> HIDE DEF n, l
<1>6. l \in Injection(1..n, S)
  BY <1>4 DEF Injection, IsInjective
<1>7. l \in Surjection(1..n, S)
  BY <1>1, <1>5, <1>6, FS_Injection DEF n
<1>8. \A x \in S : \E i \in 1..n : l[i] = x
  BY <1>7 DEF Surjection
<1>9. ToSet(l) = S
  BY <1>4, <1>8 DEF ToSet
<1>10. l \in Seq(Path)
  BY <1>2, <1>4, SeqDef
<1> QED
  BY <1>9, <1>10 DEF Listing, l, S

\* The records of a folder lie together.
Grouped(s) ==
    \A i, j, k \in 1..Len(s) :
        i < j /\ j < k /\ s[i][1] = s[k][1] => s[j][1] = s[i][1]

IsRun(s, f, a, b) ==
    /\ a \in Nat /\ b \in Nat /\ a + b <= Len(s) /\ (b = 0 => a = Len(s))
    /\ \A k \in 1..Len(s) : s[k][1] = f <=> a < k /\ k <= a + b

LEMMA FirstStartsRun ==
    ASSUME NEW c \in Catalogues, Grouped(c.recs), NEW f
    PROVE  \E b : IsRun(c.recs, f, FirstOf(c, f), b)
<1> DEFINE s == c.recs
           own == {i \in DOMAIN s : s[i][1] = f}
           n == Len(s)
<1>1. s \in Seq(Path) /\ n \in Nat /\ DOMAIN s = 1..n
  BY LenProperties DEF Catalogues
<1>2. CASE own = {}
  <2>1. FirstOf(c, f) = n
    BY <1>2 DEF FirstOf
  <2>2. IsRun(s, f, n, 0)
    BY <1>1, <1>2 DEF IsRun
  <2> QED
    BY <2>1, <2>2
<1>3. CASE own # {}
  <2> DEFINE m == Min(own)
  <2>1. own \in SUBSET Nat /\ own \in SUBSET (0..n)
    BY <1>1
  <2>2. m \in own /\ \A k \in own : m <= k
    <3> HIDE DEF own
    <3>1. \E k \in own : \A j \in own : k <= j
      BY <1>3, <2>1, LeastExists
    <3> QED
      BY <3>1 DEF Min
  <2>3. PICK z \in own : \A k \in own : k <= z
    <3> HIDE DEF own
    <3> QED
      BY <1>1, <1>3, <2>1, GreatestExists
  <2>4. FirstOf(c, f) = m - 1
    BY <1>3 DEF FirstOf
  <2> HIDE DEF m
  <2>5. m \in 1..n /\ z \in 1..n /\ m <= z /\ s[m][1] = f /\ s[z][1] = f
    BY <1>1, <2>2, <2>3
  <2>6. ASSUME NEW k \in 1..n PROVE s[k][1] = f <=> m <= k /\ k <= z
    <3>1. ASSUME s[k][1] = f PROVE m <= k /\ k <= z
      <4>1. k \in own
        BY <1>1, <3>1
      <4> QED
        BY <2>2, <2>3, <4>1
    <3>2. ASSUME m <= k, k <= z PROVE s[k][1] = f
      <4>1. CASE k = m \/ k = z
        BY <2>5, <4>1
      <4>2. CASE m < k /\ k < z
        BY <2>5, <4>2 DEF Grouped
      <4> QED
        BY <2>5, <3>2, <4>1, <4>2
    <3> QED
      BY <3>1, <3>2
  <2>7. IsRun(s, f, m - 1, z - m + 1)
    <3>1. m - 1 \in Nat /\ z - m + 1 \in Nat /\ (m - 1) + (z - m + 1) = z /\ z <= n /\ z - m + 1 # 0
      <4>1. n \in Nat /\ m \in 1..n /\ z \in 1..n /\ m <= z
        BY <1>1, <2>5
      <4> HIDE DEF n
      <4> QED
        BY <4>1
    <3>2. \A k \in 1..n : s[k][1] = f <=> m - 1 < k /\ k <= z
      BY <1>1, <2>5, <2>6
    <3> QED
      BY <1>1, <3>1, <3>2 DEF IsRun
  <2> QED
    BY <2>4, <2>7
<1> QED
  BY <1>2, <1>3

LEMMA OnlyRecordsChange ==
    ASSUME NEW c \in Catalogues, NEW recs \in Seq(Path), NEW truncated \in BOOLEAN
    PROVE  /\ [c EXCEPT !.recs = recs, !.truncated = truncated] \in Catalogues
           /\ [c EXCEPT !.recs = recs, !.truncated = truncated].recs = recs
           /\ [c EXCEPT !.recs = recs, !.truncated = truncated].cursor = c.cursor
           /\ [c EXCEPT !.recs = recs] \in Catalogues
           /\ [c EXCEPT !.recs = recs].recs = recs
           /\ [c EXCEPT !.recs = recs].cursor = c.cursor
BY DEF Catalogues

LEMMA KeepingProperties ==
    ASSUME NEW c \in Catalogues, NEW folders
    PROVE  /\ Keeping(c, folders) \in Catalogues /\ Keeping(c, folders).cursor = c.cursor
           /\ Keeping(c, folders).recs = Sifted(c.recs, folders \X Leaf)
<1> DEFINE kept == Sifted(c.recs, folders \X Leaf)
           truncated == c.truncated /\ kept = c.recs
<1>1. c.recs \in Seq(Path)
  BY DEF Catalogues
<1>2. kept \in Seq(Path)
  BY <1>1, SiftedProperties
<1>3. truncated \in BOOLEAN
  OBVIOUS
<1>4. Keeping(c, folders) = [c EXCEPT !.recs = kept, !.truncated = truncated]
  BY DEF Keeping
<1> DEFINE d == [c EXCEPT !.recs = kept, !.truncated = truncated]
<1> HIDE DEF kept, truncated
<1>5. d \in Catalogues /\ d.recs = kept /\ d.cursor = c.cursor
  BY <1>2, <1>3, OnlyRecordsChange
<1> HIDE DEF d
<1>6. Keeping(c, folders) = d
  BY <1>4 DEF d
<1> QED
  BY <1>5, <1>6 DEF kept

\* Dropping a folder closes up the records that followed its run.
LEMMA DropFolderDrops ==
    ASSUME NEW c \in Catalogues, NEW f, NEW a, NEW b, IsRun(c.recs, f, a, b)
    PROVE  /\ DropFolder(c, f) \in Catalogues /\ DropFolder(c, f).cursor = c.cursor
           /\ ClosesUp(DropFolder(c, f).recs, c.recs, a, b)
<1> DEFINE s == c.recs
           S == (Folder \ {f}) \X Leaf
<1>1. s \in Seq(Path) /\ Len(s) \in Nat /\ \A k \in 1..Len(s) : s[k] \in Path
  BY LenProperties, ElementOfSeq DEF Catalogues
<1>2. \A k \in 1..Len(s) : s[k] \in S <=> s[k][1] # f
  BY <1>1 DEF Path
<1>3. LeavesOut(S, s, a, b)
  <2>1. a \in Nat /\ b \in Nat /\ a + b <= Len(s)
    BY DEF IsRun
  <2>2. \A k \in 1..Len(s) : s[k] \in S <=> ~(a < k /\ k <= a + b)
    BY <1>2 DEF IsRun
  <2> QED
    BY <2>1, <2>2 DEF LeavesOut
<1>4. DropFolder(c, f) \in Catalogues /\ DropFolder(c, f).cursor = c.cursor
      /\ DropFolder(c, f).recs = Sifted(s, S)
  BY KeepingProperties DEF DropFolder
<1> HIDE DEF S
<1>5. ClosesUp(Sifted(s, S), s, a, b)
  BY <1>1, <1>3, SiftedRun
<1> QED
  BY <1>4, <1>5

\* The end of r moved forward to follow its first records.
Rotated(y, r, from, to) ==
    /\ y \in Seq(Path) /\ Len(y) = Len(r)
    /\ \A i \in 1..Len(r) :
           y[i] = IF i <= to THEN r[i]
                  ELSE IF i <= to + (Len(r) - from) THEN r[i - to + from]
                  ELSE r[i - (Len(r) - from)]

LEMMA RestoreRotates ==
    ASSUME NEW c \in Catalogues, NEW from \in Nat, NEW to \in Nat, to < from, from < Len(c.recs)
    PROVE  /\ RestoreAt(c, from, to) \in Catalogues /\ RestoreAt(c, from, to).cursor = c.cursor
           /\ Rotated(RestoreAt(c, from, to).recs, c.recs, from, to)
<1> DEFINE r == c.recs
           n == Len(r)
           x == SubSeq(r, 1, to)
           y == SubSeq(r, from + 1, n)
           z == SubSeq(r, to + 1, from)
           w == x \o y \o z
           d == [c EXCEPT !.recs = w]
<1>1. r \in Seq(Path) /\ n \in Nat
  BY LenProperties DEF Catalogues
<1>2. RestoreAt(c, from, to) = d
  BY <1>1 DEF RestoreAt
<1>3. x \in Seq(Path) /\ Len(x) = to /\ \A i \in 1..to : x[i] = r[i]
  BY <1>1, SubSeqProperties
<1>4. y \in Seq(Path) /\ Len(y) = n - from /\ \A i \in 1..(n - from) : y[i] = r[from + i]
  BY <1>1, SubSeqProperties
<1>5. z \in Seq(Path) /\ Len(z) = from - to /\ \A i \in 1..(from - to) : z[i] = r[to + i]
  BY <1>1, SubSeqProperties
<1> HIDE DEF x, y, z
<1> DEFINE v == x \o y
<1>6. v \in Seq(Path) /\ Len(v) = to + (n - from)
      /\ \A i \in 1..(to + (n - from)) : v[i] = IF i <= to THEN x[i] ELSE y[i - to]
  <2>1. v \in Seq(Path) /\ Len(v) = Len(x) + Len(y)
        /\ \A i \in 1..(Len(x) + Len(y)) : v[i] = IF i <= Len(x) THEN x[i] ELSE y[i - Len(x)]
    BY <1>3, <1>4, ConcatProperties
  <2> HIDE DEF n, r, v
  <2> QED
    BY <1>3, <1>4, <2>1
<1>7. w = v \o z
  OBVIOUS
<1> HIDE DEF v, w
<1>8. w \in Seq(Path) /\ Len(w) = n
      /\ \A i \in 1..n : w[i] = IF i <= to + (n - from) THEN v[i] ELSE z[i - (to + (n - from))]
  <2>1. w \in Seq(Path) /\ Len(w) = Len(v) + Len(z)
        /\ \A i \in 1..(Len(v) + Len(z)) : w[i] = IF i <= Len(v) THEN v[i] ELSE z[i - Len(v)]
    BY <1>5, <1>6, <1>7, ConcatProperties
  <2>2. Len(v) + Len(z) = n
    BY <1>1, <1>5, <1>6
  <2> HIDE DEF n, r
  <2> QED
    BY <1>6, <2>1, <2>2
<1>9. Rotated(w, r, from, to)
  <2> SUFFICES ASSUME NEW i \in 1..n
               PROVE  w[i] = IF i <= to THEN r[i]
                             ELSE IF i <= to + (n - from) THEN r[i - to + from]
                             ELSE r[i - (n - from)]
    BY <1>8 DEF Rotated
  <2> HIDE DEF n, r
  <2>1. CASE i <= to
    <3>1. i \in 1..to /\ i \in 1..(to + (n - from)) /\ i <= to + (n - from)
      BY <1>1, <2>1 DEF n, r
    <3> QED
      BY <1>3, <1>6, <1>8, <2>1, <3>1
  <2>2. CASE ~(i <= to) /\ i <= to + (n - from)
    <3>1. i \in 1..(to + (n - from)) /\ i - to \in 1..(n - from) /\ from + (i - to) = i - to + from
      BY <1>1, <2>2 DEF n, r
    <3> QED
      BY <1>4, <1>6, <1>8, <2>2, <3>1
  <2>3. CASE ~(i <= to) /\ ~(i <= to + (n - from))
    <3>1. i - (to + (n - from)) \in 1..(from - to) /\ to + (i - (to + (n - from))) = i - (n - from)
      BY <1>1, <2>3 DEF n, r
    <3> QED
      BY <1>5, <1>8, <2>3, <3>1
  <2> QED
    BY <2>1, <2>2, <2>3
<1> HIDE DEF n
<1>10. d \in Catalogues /\ d.recs = w /\ d.cursor = c.cursor
  BY <1>8, OnlyRecordsChange
<1> QED
  BY <1>2, <1>9, <1>10

\* A record is moved to one place only.
LEMMA RotatedInjective ==
    ASSUME NEW r \in Seq(Path), IsInjective(r), NEW from \in Nat, NEW to \in Nat,
           to < from, from < Len(r), NEW y, Rotated(y, r, from, to)
    PROVE  IsInjective(y)
<1> DEFINE n == Len(r)
           Back(i) == IF i <= to THEN i ELSE IF i <= to + (n - from) THEN i - to + from
                      ELSE i - (n - from)
<1>1. n \in Nat /\ DOMAIN r = 1..n /\ DOMAIN y = 1..n
  BY LenProperties DEF Rotated
<1>2. \A i, j \in 1..n : r[i] = r[j] => i = j
  BY <1>1 DEF IsInjective
<1>3. \A i \in 1..n : y[i] = r[Back(i)]
  BY DEF Rotated
<1> HIDE DEF n
<1>4. n \in Nat /\ to < from /\ from < n
  BY <1>1 DEF n
<1>5. \A i \in 1..n : Back(i) \in 1..n
  BY <1>4
<1>6. \A i, j \in 1..n : Back(i) = Back(j) => i = j
  BY <1>4
<1> HIDE DEF Back
<1>7. \A i, j \in 1..n : y[i] = y[j] => i = j
  BY <1>2, <1>3, <1>5, <1>6
<1> QED
  BY <1>1, <1>7 DEF IsInjective

\* What is in place of the run of f in s: t records of what the share has in it.
Replaced(r, s, f, a, b, t) ==
    /\ t \in Nat /\ Len(r) = Len(s) - b + t
    /\ \A i \in 1..Len(r) : i <= a => r[i] = s[i]
    /\ \A i \in 1..Len(r) : a < i /\ i <= a + t => r[i] \in {f} \X share[f]
    /\ \A i \in 1..Len(r) : a + t < i => r[i] = s[i - t + b]

LEMMA RefreshReplaces ==
    ASSUME NEW c \in Catalogues, IsInjective(c.recs), Grouped(c.recs),
           NEW f \in Folder, share[f] \subseteq Leaf
    PROVE  /\ Refreshed(c, f) \in Catalogues /\ Refreshed(c, f).cursor = c.cursor
           /\ IsInjective(Refreshed(c, f).recs)
           /\ \E a, b, t : /\ IsRun(c.recs, f, a, b)
                           /\ Replaced(Refreshed(c, f).recs, c.recs, f, a, b, t)
<1> DEFINE a == FirstOf(c, f)
           d == DropFolder(c, f)
           e == AddAll(d, Listing(f))
           s == c.recs
           n == Len(s)
<1>1. PICK b : IsRun(s, f, a, b)
  BY FirstStartsRun
<1>2. a \in Nat /\ b \in Nat /\ a + b <= n /\ n \in Nat /\ s \in Seq(Path) /\ DOMAIN s = 1..n
  BY <1>1, LenProperties DEF IsRun, Catalogues
<1>3. d \in Catalogues /\ d.cursor = c.cursor /\ ClosesUp(d.recs, s, a, b)
  BY <1>1, DropFolderDrops
<1>4. Listing(f) \in Seq(Path) /\ ToSet(Listing(f)) = {f} \X share[f]
  BY ListingIsFolder
<1>5. Refreshed(c, f) = RestoreAt(e, Len(d.recs), a)
  BY DEF Refreshed
<1> HIDE DEF a, d
<1>6. d.recs \in Seq(Path) /\ Len(d.recs) = n - b /\ DOMAIN d.recs = 1..(n - b)
      /\ \A j \in 1..(n - b) : d.recs[j] = IF j <= a THEN s[j] ELSE s[j + b]
  BY <1>3, LenProperties DEF ClosesUp, Catalogues
<1>7. IsInjective(d.recs)
  <2> HIDE DEF n
  <2> DEFINE From(j) == IF j <= a THEN j ELSE j + b
  <2>1. \A j \in 1..(n - b) : From(j) \in 1..n /\ d.recs[j] = s[From(j)]
    BY <1>2, <1>6
  <2>2. \A i, j \in 1..n : s[i] = s[j] => i = j
    BY <1>2 DEF IsInjective
  <2>4. \A i, j \in 1..(n - b) : From(i) = From(j) => i = j
    BY <1>2
  <2> HIDE DEF s, From
  <2>3. \A i, j \in 1..(n - b) : d.recs[i] = d.recs[j] => i = j
    BY <2>1, <2>2, <2>4
  <2> QED
    BY <1>6, <2>3 DEF IsInjective
<1>8. Grown(e, d, Listing(f))
  BY <1>3, <1>4, <1>7, AddAllGrows
<1> HIDE DEF e
<1> DEFINE t == Len(e.recs) - (n - b)
<1>9. /\ e \in Catalogues /\ e.cursor = c.cursor /\ IsInjective(e.recs) /\ e.recs \in Seq(Path)
      /\ Len(e.recs) \in Nat /\ n - b \in Nat /\ t \in Nat /\ Len(e.recs) = n - b + t
      /\ \A i \in 1..(n - b) : e.recs[i] = d.recs[i]
      /\ \A i \in 1..(n - b + t) : i > n - b => e.recs[i] \in {f} \X share[f]
  <2>1. e \in Catalogues /\ e.cursor = c.cursor /\ IsInjective(e.recs)
    BY <1>3, <1>8 DEF Grown
  <2>2. e.recs \in Seq(Path) /\ Len(e.recs) \in Nat
    BY <2>1, LenProperties DEF Catalogues
  <2>3. Len(e.recs) >= n - b
    BY <1>6, <1>8 DEF Grown
  <2>4. \A i \in 1..(n - b) : e.recs[i] = d.recs[i]
    BY <1>6, <1>8 DEF Grown
  <2>5. \A i \in 1..Len(e.recs) : i > n - b => e.recs[i] \in {f} \X share[f]
    BY <1>4, <1>6, <1>8 DEF Grown
  <2> HIDE DEF n
  <2>6. n - b \in Nat /\ t \in Nat /\ Len(e.recs) = n - b + t
    BY <1>2, <2>2, <2>3
  <2> QED
    BY <2>1, <2>2, <2>4, <2>5, <2>6
<1> HIDE DEF t
<1>10. CASE a = n - b \/ t = 0
  <2>1. RestoreAt(e, n - b, a) = e
    <3> HIDE DEF n
    <3>1. a >= n - b \/ n - b >= Len(e.recs)
      BY <1>2, <1>9, <1>10
    <3> QED
      BY <3>1 DEF RestoreAt
  <2>2. Replaced(e.recs, s, f, a, b, t)
    <3> HIDE DEF n
    <3>0. \A i \in 1..(n - b + t) : i <= n - b => i \in 1..(n - b)
      BY <1>2, <1>9
    <3>1. \A i \in 1..(n - b + t) : i <= a => e.recs[i] = s[i]
      <4>1. \A i \in 1..(n - b + t) : i <= a => i <= n - b
        BY <1>2, <1>9
      <4> HIDE DEF s
      <4> QED
        BY <1>6, <1>9, <3>0, <4>1
    <3>2. ASSUME NEW i \in 1..(n - b + t), a < i, i <= a + t
          PROVE  e.recs[i] \in {f} \X share[f]
      <4>1. i > n - b
        BY <1>2, <1>9, <1>10, <3>2
      <4> QED
        BY <1>9, <4>1
    <3>3. ASSUME NEW i \in 1..(n - b + t), a + t < i
          PROVE  e.recs[i] = s[i - t + b]
      <4>1. t = 0 /\ i \in 1..(n - b) /\ ~(i <= a) /\ i - t + b = i + b
        BY <1>2, <1>9, <1>10, <3>3
      <4> HIDE DEF s
      <4> QED
        BY <1>6, <1>9, <4>1
    <3> QED
      BY <1>9, <3>1, <3>2, <3>3 DEF n, Replaced
  <2>3. Refreshed(c, f) = e
    BY <1>5, <1>6, <2>1
  <2> QED
    BY <1>1, <1>9, <2>2, <2>3
<1>11. CASE a # n - b /\ t # 0
  <2> DEFINE y == RestoreAt(e, n - b, a)
             q == e.recs
  <2>1. a < n - b /\ n - b < Len(q)
    <3> HIDE DEF n
    <3> QED
      BY <1>2, <1>9, <1>11
  <2>2. y \in Catalogues /\ y.cursor = e.cursor /\ Rotated(y.recs, q, n - b, a)
    BY <1>2, <1>9, <2>1, RestoreRotates
  <2> HIDE DEF y
  <2>3. IsInjective(y.recs)
    BY <1>2, <1>9, <2>1, <2>2, RotatedInjective
  <2>4. Len(y.recs) = n - b + t /\ Len(q) - (n - b) = t
        /\ \A i \in 1..(n - b + t) :
               y.recs[i] = IF i <= a THEN q[i]
                           ELSE IF i <= a + t THEN q[i - a + (n - b)] ELSE q[i - t]
    <3>1. Len(q) = n - b + t /\ Len(q) - (n - b) = t
      <4> HIDE DEF n
      <4> QED
        BY <1>2, <1>9
    <3> HIDE DEF q, n
    <3> QED
      BY <2>2, <3>1 DEF Rotated
  <2>5. Replaced(y.recs, s, f, a, b, t)
    <3> HIDE DEF n
    <3>1. ASSUME NEW i \in 1..(n - b + t), i <= a PROVE y.recs[i] = s[i]
      <4>1. i \in 1..(n - b)
        BY <1>2, <1>9, <2>1, <3>1
      <4> HIDE DEF s, q
      <4>2. q[i] = d.recs[i] /\ d.recs[i] = s[i] /\ y.recs[i] = q[i]
        BY <1>6, <1>9, <2>4, <3>1, <4>1 DEF q
      <4> QED
        BY <4>2
    <3>2. ASSUME NEW i \in 1..(n - b + t), a < i, i <= a + t
          PROVE  y.recs[i] \in {f} \X share[f]
      <4>1. i - a + (n - b) \in 1..(n - b + t) /\ i - a + (n - b) > n - b /\ ~(i <= a)
        BY <1>2, <1>9, <3>2
      <4>2. y.recs[i] = q[i - a + (n - b)]
        BY <2>4, <3>2, <4>1
      <4> QED
        BY <1>9, <4>1, <4>2
    <3>3. ASSUME NEW i \in 1..(n - b + t), a + t < i
          PROVE  y.recs[i] = s[i - t + b]
      <4>1. i - t \in 1..(n - b) /\ ~(i <= a) /\ ~(i <= a + t) /\ ~(i - t <= a)
        BY <1>2, <1>9, <3>3
      <4> HIDE DEF s, q
      <4>2. y.recs[i] = q[i - t] /\ q[i - t] = d.recs[i - t] /\ d.recs[i - t] = s[i - t + b]
        BY <1>6, <1>9, <2>4, <4>1 DEF q
      <4> QED
        BY <4>2
    <3> QED
      BY <1>9, <2>4, <3>1, <3>2, <3>3 DEF n, Replaced
  <2>6. Refreshed(c, f) = y
    BY <1>5, <1>6 DEF y
  <2> QED
    BY <1>1, <1>9, <2>2, <2>3, <2>5, <2>6
<1> QED
  BY <1>10, <1>11

\* Replacing the run of a folder leaves the records of every folder together.
LEMMA ReplacedGrouped ==
    ASSUME NEW s \in Seq(Path), Grouped(s), NEW r \in Seq(Path), NEW f, NEW a, NEW b, NEW t,
           IsRun(s, f, a, b), Replaced(r, s, f, a, b, t)
    PROVE  Grouped(r)
<1> DEFINE n == Len(s)
           m == Len(r)
           In(i) == a < i /\ i <= a + t
           From(i) == IF i <= a THEN i ELSE i - t + b
<1>1. n \in Nat /\ m \in Nat /\ m = n - b + t /\ t \in Nat /\ a \in Nat /\ b \in Nat /\ a + b <= n
      /\ (b = 0 => a = n)
  BY LenProperties DEF IsRun, Replaced
<1>2. \A i \in 1..m : In(i) => r[i][1] = f
  BY DEF Replaced
<1>3. \A i \in 1..m : ~In(i) => From(i) \in 1..n /\ ~(a < From(i) /\ From(i) <= a + b)
  <2> HIDE DEF n, m
  <2> QED
    BY <1>1
<1>4. \A i \in 1..m : ~In(i) => r[i] = s[From(i)]
  <2>1. \A i \in 1..m : i <= a => r[i] = s[i]
    BY DEF Replaced
  <2>2. \A i \in 1..m : a + t < i => r[i] = s[i - t + b]
    BY DEF Replaced
  <2> HIDE DEF n, m
  <2>3. \A i \in 1..m : ~In(i) => (i <= a \/ (~(i <= a) /\ a + t < i))
    BY <1>1
  <2> QED
    BY <2>1, <2>2, <2>3
<1>5. \A k \in 1..n : s[k][1] = f <=> a < k /\ k <= a + b
  BY DEF IsRun
<1> SUFFICES ASSUME NEW i \in 1..m, NEW j \in 1..m, NEW k \in 1..m,
                    i < j, j < k, r[i][1] = r[k][1]
             PROVE  r[j][1] = r[i][1]
  BY DEF Grouped
<1>6. \A l \in 1..m : r[l][1] = f <=> In(l)
  <2> HIDE DEF n, m, From, In
  <2> QED
    BY <1>2, <1>3, <1>4, <1>5
<1>7. CASE In(i) \/ In(k)
  <2>1. In(i) /\ In(k)
    BY <1>6, <1>7
  <2>2. In(j)
    BY <1>1, <2>1
  <2> QED
    BY <1>2, <2>1, <2>2
<1>8. CASE ~In(i) /\ ~In(k)
  <2>1. From(i) < From(k) /\ From(i) \in 1..n /\ From(k) \in 1..n
    <3> HIDE DEF n, m
    <3> QED
      BY <1>1, <1>3, <1>8
  <2>2. s[From(i)][1] = s[From(k)][1]
    BY <1>4, <1>8
  <2>3. CASE ~In(j)
    <3>1. From(i) < From(j) /\ From(j) < From(k) /\ From(j) \in 1..n
      <4> HIDE DEF n, m
      <4> QED
        BY <1>1, <1>3, <1>8, <2>3
    <3> HIDE DEF From, In
    <3>2. s[From(j)][1] = s[From(i)][1]
      BY <2>1, <2>2, <3>1 DEF Grouped
    <3> QED
      BY <1>4, <1>8, <2>3, <3>2
  <2>4. CASE In(j)
    <3>1. i <= a /\ a + t < k
      BY <1>1, <1>8, <2>4
    <3>2. b # 0
      <4> HIDE DEF n
      <4> QED
        BY <1>1, <3>1 DEF m
    <3>3. a + 1 \in 1..n /\ From(i) < a + 1 /\ a + 1 < From(k) /\ a < a + 1 /\ a + 1 <= a + b
      <4> HIDE DEF n, m
      <4> QED
        BY <1>1, <3>1, <3>2
    <3> HIDE DEF From, In
    <3>4. s[a + 1][1] = s[From(i)][1]
      BY <2>1, <2>2, <3>3 DEF Grouped
    <3>5. s[From(i)][1] = f
      BY <1>5, <3>3, <3>4
    <3>6. r[i][1] = f
      BY <1>4, <1>8, <3>5
    <3> QED
      BY <1>6, <1>8, <3>6
  <2> QED
    BY <2>3, <2>4
<1> QED
  BY <1>7, <1>8

\* What is in a catalogue once the run of a folder was replaced.
LEMMA ReplacedHolds ==
    ASSUME NEW s \in Seq(Path), NEW r \in Seq(Path), NEW f, NEW a, NEW b, NEW t,
           IsRun(s, f, a, b), Replaced(r, s, f, a, b, t)
    PROVE  /\ \A p \in Path : p[1] # f => (p \in ToSet(r) <=> p \in ToSet(s))
           /\ \A p \in Path : p[1] = f /\ p \in ToSet(r) => p[2] \in share[f]
           /\ \A i \in 1..Len(r) : r[i][1] = f \/ \E k \in 1..Len(s) : s[k] = r[i]
<1> DEFINE n == Len(s)
           m == Len(r)
           In(i) == a < i /\ i <= a + t
           From(i) == IF i <= a THEN i ELSE i - t + b
           To(k) == IF k <= a THEN k ELSE k - b + t
<1>1. n \in Nat /\ m \in Nat /\ m = n - b + t /\ t \in Nat /\ a \in Nat /\ b \in Nat /\ a + b <= n
      /\ DOMAIN s = 1..n /\ DOMAIN r = 1..m
  BY LenProperties DEF IsRun, Replaced
<1>2. \A i \in 1..m : In(i) => r[i] \in {f} \X share[f]
  BY DEF Replaced
<1>3. \A k \in 1..n : s[k][1] = f <=> a < k /\ k <= a + b
  BY DEF IsRun
<1>4. \A i \in 1..m : i <= a => r[i] = s[i]
  BY DEF Replaced
<1>5. \A i \in 1..m : a + t < i => r[i] = s[i - t + b]
  BY DEF Replaced
<1> HIDE DEF n, m
<1>6. \A i \in 1..m : ~In(i) => From(i) \in 1..n /\ ~(a < From(i) /\ From(i) <= a + b)
                                /\ (i <= a \/ (~(i <= a) /\ a + t < i))
  BY <1>1
<1>7. \A i \in 1..m : ~In(i) => r[i] = s[From(i)]
  BY <1>4, <1>5, <1>6
<1>8. \A k \in 1..n : ~(a < k /\ k <= a + b) => To(k) \in 1..m /\ ~In(To(k)) /\ From(To(k)) = k
  BY <1>1
<1> HIDE DEF From, To, In
<1>9. \A k \in 1..n : s[k][1] # f => To(k) \in 1..m /\ r[To(k)] = s[k]
  BY <1>3, <1>7, <1>8
<1>10. \A i \in 1..m : ~In(i) => From(i) \in 1..n /\ r[i] = s[From(i)] /\ r[i][1] # f
  BY <1>3, <1>6, <1>7
<1>11. \A i \in 1..m : In(i) => r[i][1] = f /\ r[i][2] \in share[f]
  BY <1>2
<1>12. /\ \A p : p \in ToSet(r) <=> \E i \in 1..m : r[i] = p
       /\ \A p : p \in ToSet(s) <=> \E k \in 1..n : s[k] = p
  BY <1>1 DEF ToSet
<1>13. ASSUME NEW p \in Path, p[1] # f PROVE p \in ToSet(r) <=> p \in ToSet(s)
  BY <1>9, <1>10, <1>11, <1>12, <1>13
<1>14. ASSUME NEW p \in Path, p[1] = f, p \in ToSet(r) PROVE p[2] \in share[f]
  BY <1>10, <1>11, <1>12, <1>14
<1>15. ASSUME NEW i \in 1..m PROVE r[i][1] = f \/ \E k \in 1..n : s[k] = r[i]
  BY <1>10, <1>11
<1> QED
  BY <1>13, <1>14, <1>15 DEF n, m

\* As many records as before: the others stay where they were.
LEMMA ReplacedInPlace ==
    ASSUME NEW s \in Seq(Path), NEW r \in Seq(Path), NEW f, NEW a, NEW b, NEW t,
           IsRun(s, f, a, b), Replaced(r, s, f, a, b, t), Len(r) = Len(s)
    PROVE  \A i \in DOMAIN s : s[i][1] # f => r[i] = s[i]
<1> DEFINE n == Len(s)
<1>1. n \in Nat /\ t \in Nat /\ a \in Nat /\ b \in Nat /\ DOMAIN s = 1..n /\ n = n - b + t
  BY LenProperties DEF IsRun, Replaced
<1>2. \A k \in 1..n : s[k][1] = f <=> a < k /\ k <= a + b
  BY DEF IsRun
<1>3. \A i \in 1..n : i <= a => r[i] = s[i]
  BY DEF Replaced
<1>4. \A i \in 1..n : a + t < i => r[i] = s[i - t + b]
  BY DEF Replaced
<1> HIDE DEF n
<1>5. t = b
  BY <1>1
<1>6. \A i \in 1..n : i - t + b = i /\ (~(a < i /\ i <= a + b) => i <= a \/ a + t < i)
  BY <1>1, <1>5
<1> QED
  BY <1>1, <1>2, <1>3, <1>4, <1>6

\* The folders of a list are kept as they were, in their order.
LEMMA KeptProperties ==
    ASSUME NEW s \in Seq(Path), IsInjective(s), Grouped(s), NEW folders
    PROVE  LET r == Sifted(s, folders \X Leaf) IN
           /\ r \in Seq(Path) /\ IsInjective(r) /\ Grouped(r)
           /\ ToSet(r) = {p \in ToSet(s) : p[1] \in folders}
<1> DEFINE S == folders \X Leaf
           r == Sifted(s, S)
           m == Len(r)
           n == Len(s)
<1>1. r \in Seq(Path) /\ \E pos : Embeds(pos, r, s, n, S)
  BY SiftedProperties
<1> HIDE DEF r
<1>2. PICK pos : Embeds(pos, r, s, n, S)
  BY <1>1
<1>3. m \in Nat /\ n \in Nat /\ DOMAIN r = 1..m /\ DOMAIN s = 1..n /\ \A k \in 1..n : s[k] \in Path
  BY <1>1, LenProperties, ElementOfSeq
<1>4. /\ \A i \in 1..m : pos[i] \in 1..n
      /\ \A i, j \in 1..m : i < j => pos[i] < pos[j]
      /\ \A i \in 1..m : r[i] = s[pos[i]] /\ r[i] \in S
      /\ \A k \in 1..n : s[k] \in S => \E i \in 1..m : pos[i] = k
  BY <1>2 DEF Embeds
<1>5. \A k \in 1..n : s[k] \in S <=> s[k][1] \in folders
  BY <1>3 DEF Path
<1> HIDE DEF S, m, n
<1>6. IsInjective(r)
  <2>1. \A i, j \in 1..n : s[i] = s[j] => i = j
    BY <1>3 DEF IsInjective
  <2>2. ASSUME NEW i \in 1..m, NEW j \in 1..m, r[i] = r[j] PROVE i = j
    <3>1. pos[i] = pos[j]
      BY <1>4, <2>1, <2>2
    <3>2. ~(i < j) /\ ~(j < i)
      BY <1>3, <1>4, <3>1
    <3> QED
      BY <1>3, <3>2
  <2> QED
    BY <1>3, <2>2 DEF IsInjective
<1>7. Grouped(r)
  <2> SUFFICES ASSUME NEW i \in 1..m, NEW j \in 1..m, NEW k \in 1..m,
                      i < j, j < k, r[i][1] = r[k][1]
               PROVE  r[j][1] = r[i][1]
    BY DEF Grouped, m
  <2>1. /\ pos[i] \in 1..n /\ pos[j] \in 1..n /\ pos[k] \in 1..n
        /\ pos[i] < pos[j] /\ pos[j] < pos[k]
    BY <1>4
  <2>2. s[pos[i]][1] = s[pos[k]][1]
    BY <1>4
  <2>3. s[pos[j]][1] = s[pos[i]][1]
    BY <2>1, <2>2 DEF Grouped, n
  <2> QED
    BY <1>4, <2>3
<1>8. ToSet(r) = {p \in ToSet(s) : p[1] \in folders}
  <2>1. /\ \A p : p \in ToSet(r) <=> \E i \in 1..m : r[i] = p
        /\ \A p : p \in ToSet(s) <=> \E k \in 1..n : s[k] = p
    BY <1>3 DEF ToSet
  <2>2. ASSUME NEW p \in ToSet(r) PROVE p \in ToSet(s) /\ p[1] \in folders
    BY <1>4, <1>5, <2>1
  <2>3. ASSUME NEW p \in ToSet(s), p[1] \in folders PROVE p \in ToSet(r)
    BY <1>4, <1>5, <2>1, <2>3
  <2> QED
    BY <2>2, <2>3
<1> QED
  BY <1>1, <1>6, <1>7, <1>8 DEF r, S

\* A text that reads back: a cursor, and the records of whole folders.
Texts == {x \in Seq(Nat \cup Path) : x # <<>> /\ Head(x) \in Nat /\ Tail(x) \in Seq(Path) /\ Grouped(Tail(x))}

LEMMA EmptyIs == /\ Empty \in Catalogues /\ Empty.recs = <<>> /\ IsInjective(Empty.recs) /\ Grouped(Empty.recs)
<1>1. <<>> \in Seq(Path) /\ Len(<<>>) = 0
  BY EmptySeq
<1>2. Empty.recs = <<>> /\ Empty \in Catalogues
  BY <1>1 DEF Empty, Catalogues
<1>3. IsInjective(<<>>)
  BY DEF IsInjective
<1>4. Grouped(<<>>)
  BY <1>1 DEF Grouped
<1> QED
  BY <1>2, <1>3, <1>4

\* What is read back is a catalogue, whatever was stored.
LEMMA ParseIs ==
    ASSUME NEW x, x \in {Absent, <<>>} \/ x \in Texts
    PROVE  Parse(x) \in Catalogues /\ IsInjective(Parse(x).recs) /\ Grouped(Parse(x).recs)
<1> DEFINE c == AddAll(Empty, Tail(x))
<1>1. CASE x \in {Absent, <<>>} \/ c.recs # Tail(x)
  <2>1. Parse(x) = Empty
    BY <1>1 DEF Parse
  <2> QED
    BY <2>1, EmptyIs
<1>2. CASE ~(x \in {Absent, <<>>}) /\ c.recs = Tail(x)
  <2>1. x \in Texts
    BY <1>2
  <2>2. Tail(x) \in Seq(Path) /\ Head(x) \in Nat /\ Grouped(Tail(x))
    BY <2>1 DEF Texts
  <2>3. c \in Catalogues /\ IsInjective(c.recs)
    BY <2>2, EmptyIs, AddAllGrows DEF Grown
  <2>4. Parse(x) = [c EXCEPT !.cursor = Head(x)]
    BY <1>2 DEF Parse
  <2> HIDE DEF c
  <2>5. [c EXCEPT !.cursor = Head(x)] \in Catalogues /\ [c EXCEPT !.cursor = Head(x)].recs = c.recs
    BY <2>2, <2>3 DEF Catalogues
  <2> QED
    BY <1>2, <2>2, <2>3, <2>4, <2>5
<1> QED
  BY <1>1, <1>2

LEMMA SerialiseIs ==
    ASSUME NEW c \in Catalogues, Grouped(c.recs)
    PROVE  Serialise(c) \in Texts
<1> DEFINE h == <<c.cursor>>
           x == h \o c.recs
<1>1. c.cursor \in Nat /\ c.recs \in Seq(Path)
  BY DEF Catalogues
<1>2. h \in Seq(Nat \cup Path) /\ Len(h) = 1 /\ h[1] = c.cursor /\ c.recs \in Seq(Nat \cup Path)
  BY <1>1
<1> HIDE DEF h
<1>3. /\ x \in Seq(Nat \cup Path) /\ Len(x) = 1 + Len(c.recs)
      /\ \A i \in 1..(1 + Len(c.recs)) : x[i] = IF i <= 1 THEN h[i] ELSE c.recs[i - 1]
  <2> DEFINE T == Nat \cup Path
  <2> HIDE DEF T
  <2>1. /\ x \in Seq(T) /\ Len(x) = Len(h) + Len(c.recs)
        /\ \A i \in 1..(Len(h) + Len(c.recs)) : x[i] = IF i <= Len(h) THEN h[i] ELSE c.recs[i - Len(h)]
    BY <1>2, ConcatProperties DEF T
  <2> HIDE DEF x
  <2> QED
    BY <1>2, <2>1 DEF T
<1>4. Len(c.recs) \in Nat
  BY <1>1, LenProperties
<1> HIDE DEF x
<1>5. x # <<>>
  BY <1>3, <1>4
<1>6. Head(x) = c.cursor
  BY <1>2, <1>3, <1>4, <1>5, HeadTailProperties
<1>7. Tail(x) = c.recs
  <2>1. Tail(x) \in Seq(Nat \cup Path) /\ Len(Tail(x)) = Len(x) - 1
        /\ \A i \in 1..Len(Tail(x)) : Tail(x)[i] = x[i + 1]
    BY <1>3, <1>5, HeadTailProperties
  <2>2. Len(Tail(x)) = Len(c.recs)
    BY <1>3, <1>4, <2>1
  <2>3. \A i \in 1..Len(c.recs) : Tail(x)[i] = c.recs[i]
    <3> SUFFICES ASSUME NEW i \in 1..Len(c.recs) PROVE Tail(x)[i] = c.recs[i]
      OBVIOUS
    <3>1. i + 1 \in 1..(1 + Len(c.recs)) /\ ~(i + 1 <= 1) /\ (i + 1) - 1 = i
      BY <1>4
    <3> QED
      BY <1>3, <2>1, <2>2, <3>1
  <2> QED
    BY <1>2, <2>1, <2>2, <2>3, SeqEqual
<1>8. x \in Texts
  BY <1>1, <1>3, <1>5, <1>6, <1>7 DEF Texts
<1> QED
  BY <1>8 DEF Serialise, x, h

CatalogueTyped ==
    /\ cat \in Catalogues /\ IsInjective(cat.recs) /\ Grouped(cat.recs)
    /\ share \in [Folder -> SUBSET Leaf] /\ list \in Lists
    /\ at \in Folder \cup {Nobody} /\ current \subseteq Folder

\* What is stored, and what is being stored, reads back.
Legible(x) == x \in {Absent, <<>>} \/ x \in Texts
Readable == PartIsWhole /\ Legible(file) /\ Legible(buf)

\* From the first window on a list, until it changes, the catalogue has its folders only.
NoStrays ==
    at # Nobody \/ current # {} =>
        /\ \A p \in ToSet(cat.recs) : p[1] \in ToSet(list)
        /\ current \subseteq ToSet(list)
        /\ at # Nobody => at \in ToSet(list)

\* A folder taken in whole is in the catalogue as it is on the share.
TakenIn ==
    \A f \in current : \A x \in Leaf : <<f, x>> \in ToSet(cat.recs) <=> x \in share[f]

Whole == CatalogueTyped /\ Readable /\ NoStrays /\ TakenIn

LEMMA InitWhole == Init => Whole
<1> SUFFICES ASSUME Init PROVE Whole
  OBVIOUS
<1> USE DEF Init, FileInit
<1>1. CatalogueTyped
  BY EmptyIs DEF CatalogueTyped
<1>2. Readable
  BY DEF Readable, PartIsWhole, Legible
<1>3. NoStrays /\ TakenIn
  BY DEF NoStrays, TakenIn
<1> QED
  BY <1>1, <1>2, <1>3 DEF Whole

LEMMA InPath ==
    ASSUME NEW s \in Seq(Path)
    PROVE  /\ ToSet(s) \subseteq Path /\ \A i \in 1..Len(s) : s[i] \in ToSet(s)
           /\ DOMAIN s = 1..Len(s)
<1>1. Len(s) \in Nat /\ DOMAIN s = 1..Len(s) /\ \A i \in 1..Len(s) : s[i] \in Path
  BY LenProperties, ElementOfSeq
<1> QED
  BY <1>1 DEF ToSet

\* A refresh, whatever the share holds and however little room there is.
LEMMA RefreshWhole == ASSUME Whole, Refresh, PartIsWhole' PROVE Whole'
<1> USE DEF Whole
<1> DEFINE s == cat.recs
           r == cat'.recs
<1>1. /\ at \in Folder /\ at # Nobody /\ cat' = Refreshed(cat, at) /\ at' = Nobody
      /\ current' = IF ToSet(Listing(at)) \subseteq ToSet(cat'.recs)
                    THEN current \cup {at} ELSE current \ {at}
      /\ buf' = Serialise(cat') /\ UNCHANGED <<share, list, file>>
  BY DEF Refresh, Store, CatalogueTyped
<1>2. share[at] \subseteq Leaf
  BY <1>1 DEF CatalogueTyped
<1>3. /\ cat' \in Catalogues /\ IsInjective(r)
      /\ \E a, b, t : IsRun(s, at, a, b) /\ Replaced(r, s, at, a, b, t)
  BY <1>1, <1>2, RefreshReplaces DEF CatalogueTyped
<1>4. PICK a, b, t : IsRun(s, at, a, b) /\ Replaced(r, s, at, a, b, t)
  BY <1>3
<1>5. s \in Seq(Path) /\ r \in Seq(Path)
  BY <1>3 DEF CatalogueTyped, Catalogues
<1>6. Grouped(r)
  BY <1>4, <1>5, ReplacedGrouped DEF CatalogueTyped
<1>7. /\ \A p \in Path : p[1] # at => (p \in ToSet(r) <=> p \in ToSet(s))
      /\ \A p \in Path : p[1] = at /\ p \in ToSet(r) => p[2] \in share[at]
  BY <1>4, <1>5, ReplacedHolds
<1>8. ToSet(r) \subseteq Path /\ ToSet(Listing(at)) = {at} \X share[at]
  BY <1>1, <1>2, <1>5, InPath, ListingIsFolder
<1>9. CatalogueTyped'
  BY <1>1, <1>3, <1>6 DEF CatalogueTyped
<1>10. Readable'
  <2>1. Serialise(cat') \in Texts
    BY <1>3, <1>6, SerialiseIs
  <2> QED
    BY <1>1, <2>1 DEF Readable, Legible
<1> HIDE DEF r, s
<1>11. NoStrays'
  <2>1. /\ \A p \in ToSet(s) : p[1] \in ToSet(list)
        /\ current \subseteq ToSet(list) /\ at \in ToSet(list)
    BY <1>1 DEF NoStrays, s
  <2>2. ASSUME NEW p \in ToSet(r) PROVE p[1] \in ToSet(list)
    BY <1>7, <1>8, <2>1
  <2>3. current' \subseteq ToSet(list)
    BY <1>1, <2>1
  <2> QED
    BY <1>1, <2>2, <2>3 DEF NoStrays, r
<1>12. TakenIn'
  <2> SUFFICES ASSUME NEW f \in current', NEW x \in Leaf
               PROVE  <<f, x>> \in ToSet(r) <=> x \in share[f]
    BY <1>1 DEF TakenIn, r
  <2>1. f \in Folder /\ <<f, x>> \in Path /\ <<f, x>>[1] = f /\ <<f, x>>[2] = x
    BY <1>9 DEF CatalogueTyped, Path
  <2>2. CASE f = at
    <3>1. {at} \X share[at] \subseteq ToSet(r)
      BY <1>1, <1>8, <2>2 DEF r
    <3> QED
      BY <1>7, <2>1, <2>2, <3>1
  <2>3. CASE f # at
    <3>1. f \in current
      BY <1>1, <2>3
    <3>2. <<f, x>> \in ToSet(s) <=> x \in share[f]
      BY <3>1 DEF TakenIn, s
    <3> QED
      BY <1>7, <2>1, <2>3, <3>2
  <2> QED
    BY <2>2, <2>3
<1> QED
  BY <1>9, <1>10, <1>11, <1>12

LEMMA NextFolderWhole == ASSUME Whole, NextFolder, PartIsWhole' PROVE Whole'
<1> USE DEF Whole
<1> DEFINE n == Len(list)
           which == cat.cursor % n
           d == KeepFolders(cat)
           u == (which + 1) % n
<1>1. /\ at = Nobody /\ at' = list[which + 1] /\ cat' = [d EXCEPT !.cursor = u] /\ list # <<>>
      /\ UNCHANGED <<share, list, file, buf, current>>
  BY DEF NextFolder, Idle, fileVars
<1>2. list \in Seq(Folder) /\ n \in Nat /\ n > 0 /\ DOMAIN list = 1..n
  <2>1. list \in Seq(Folder)
    BY ListAssumption DEF CatalogueTyped
  <2> QED
    BY <1>1, <2>1, EmptySeq, LenProperties
<1>3. which \in 0..(n - 1) /\ u \in Nat /\ which + 1 \in 1..n
  <2>1. cat.cursor \in Nat
    BY DEF CatalogueTyped, Catalogues
  <2> HIDE DEF n
  <2>2. which \in 0..(n - 1)
    BY <1>2, <2>1
  <2> HIDE DEF which
  <2> QED
    BY <1>2, <2>2
<1> HIDE DEF which, u
<1>4. at' \in Folder /\ at' \in ToSet(list)
  BY <1>1, <1>2, <1>3, ElementOfSeq DEF ToSet
<1>5. cat.recs \in Seq(Path) /\ IsInjective(cat.recs) /\ Grouped(cat.recs)
  BY DEF CatalogueTyped, Catalogues
<1>6. d = Keeping(cat, ToSet(list))
  BY <1>1 DEF KeepFolders
<1>7. d \in Catalogues /\ d.recs = Sifted(cat.recs, ToSet(list) \X Leaf)
  BY <1>6, KeepingProperties DEF CatalogueTyped
<1>8. /\ IsInjective(d.recs) /\ Grouped(d.recs)
      /\ ToSet(d.recs) = {p \in ToSet(cat.recs) : p[1] \in ToSet(list)}
  <2> DEFINE K == ToSet(list)
             q == cat.recs
             r == Sifted(q, K \X Leaf)
  <2>1. q \in Seq(Path) /\ IsInjective(q) /\ Grouped(q)
    BY <1>5
  <2> HIDE DEF K, q
  <2>2. IsInjective(r) /\ Grouped(r) /\ ToSet(r) = {p \in ToSet(q) : p[1] \in K}
    BY <2>1, KeptProperties
  <2> QED
    BY <1>7, <2>2 DEF K, q
<1> HIDE DEF d
<1>9. cat' \in Catalogues /\ cat'.recs = d.recs
  BY <1>1, <1>3, <1>7 DEF Catalogues
<1>10. CatalogueTyped'
  BY <1>1, <1>4, <1>8, <1>9 DEF CatalogueTyped
<1>11. Readable'
  BY <1>1 DEF Readable, Legible
<1>12. current \subseteq ToSet(list)
  BY DEF NoStrays
<1>13. NoStrays'
  BY <1>1, <1>4, <1>8, <1>9, <1>12 DEF NoStrays
<1>14. TakenIn'
  <2> SUFFICES ASSUME NEW f \in current, NEW x \in Leaf
               PROVE  <<f, x>> \in ToSet(d.recs) <=> x \in share[f]
    BY <1>1, <1>9 DEF TakenIn
  <2>1. <<f, x>>[1] = f /\ f \in ToSet(list)
    BY <1>12
  <2> QED
    BY <1>8, <2>1 DEF TakenIn
<1> QED
  BY <1>10, <1>11, <1>13, <1>14

\* The catalogue is read back from the card, or the power came back.
LEMMA ReadBackWhole ==
    ASSUME Whole, PartIsWhole', cat' = Parse(file), at' = Nobody, current' = {},
           UNCHANGED <<share, list, file>>, buf' \in {buf, <<>>}
    PROVE  Whole'
<1> USE DEF Whole
<1>1. cat' \in Catalogues /\ IsInjective(cat'.recs) /\ Grouped(cat'.recs)
  BY ParseIs DEF Readable, Legible
<1>2. CatalogueTyped'
  BY <1>1 DEF CatalogueTyped
<1>3. Readable'
  BY DEF Readable, Legible
<1>4. NoStrays' /\ TakenIn'
  BY DEF NoStrays, TakenIn
<1> QED
  BY <1>2, <1>3, <1>4

LEMMA StoringWhole == ASSUME Whole, Storing, PartIsWhole' PROVE Whole'
<1> USE DEF Whole
<1>1. UNCHANGED <<share, list, cat, at, reload, current, events>>
  BY DEF Storing
<1>2. file' \in {file, Absent, buf} /\ buf' \in {buf, <<>>}
  <2>1. CASE WritePart
    BY <2>1 DEF WritePart, Close
  <2>2. CASE Unlink
    BY <2>2 DEF Unlink
  <2>3. CASE Rename
    BY <2>3 DEF Rename, Close, Readable, PartIsWhole
  <2>4. CASE Discard
    BY <2>4 DEF Discard, Close
  <2> QED
    BY <2>1, <2>2, <2>3, <2>4 DEF Storing, Write
<1>3. Readable'
  BY <1>2 DEF Readable, Legible
<1> QED
  BY <1>1, <1>3 DEF CatalogueTyped, NoStrays, TakenIn

LEMMA NextWhole == Whole /\ [Next]_vars => Whole'
<1> SUFFICES ASSUME Whole, [Next]_vars PROVE Whole'
  OBVIOUS
<1>0. PartIsWhole'
  BY PartWholeNext DEF Whole, Readable
<1>1. CASE NextFolder
  BY <1>0, <1>1, NextFolderWhole
<1>2. CASE Refresh
  BY <1>0, <1>2, RefreshWhole
<1>3. CASE Storing
  BY <1>0, <1>3, StoringWhole
<1>4. CASE Reload
  BY <1>0, <1>4, ReadBackWhole DEF Reload, Idle, fileVars
<1>5. CASE Boot
  BY <1>0, <1>5, ReadBackWhole DEF Boot, FileCut, Close
<1>6. CASE ListingFails \/ ChangeCard \/ UNCHANGED vars
  <2>1. Readable'
    BY <1>0, <1>6 DEF Whole, Readable, Legible, ListingFails, ChangeCard, CardSwapped, vars, fileVars
  <2>2. UNCHANGED <<share, list, cat, current>> /\ at' \in {at, Nobody}
    BY <1>6 DEF ListingFails, ChangeCard, vars
  <2> QED
    BY <2>1, <2>2 DEF Whole, CatalogueTyped, NoStrays, TakenIn
<1>7. CASE EditList
  <2>1. Readable'
    BY <1>0, <1>7 DEF Whole, Readable, Legible, EditList, fileVars
  <2> QED
    BY <1>7, <2>1 DEF EditList, Idle, Whole, CatalogueTyped, NoStrays, TakenIn
<1>8. ASSUME NEW f \in Folder, ShareChanges(f) PROVE Whole'
  <2>1. Readable'
    BY <1>0, <1>8 DEF Whole, Readable, Legible, ShareChanges, fileVars
  <2>2. PICK S \in SUBSET Leaf : share' = [share EXCEPT ![f] = S]
    BY <1>8 DEF ShareChanges
  <2>3. UNCHANGED <<list, cat, at>> /\ current' = current \ {f}
    BY <1>8 DEF ShareChanges
  <2>4. CatalogueTyped' /\ \A g \in current' : share'[g] = share[g]
    BY <2>2, <2>3 DEF Whole, CatalogueTyped
  <2>5. NoStrays'
    BY <2>3 DEF Whole, NoStrays
  <2>6. TakenIn'
    BY <2>3, <2>4 DEF Whole, TakenIn
  <2> QED
    BY <2>1, <2>4, <2>5, <2>6 DEF Whole
<1> QED
  BY <1>1, <1>2, <1>3, <1>4, <1>5, <1>6, <1>7, <1>8 DEF Next

LEMMA WholeFollows == Whole => FollowsShare
<1> SUFFICES ASSUME Whole, list # <<>>, ToSet(list) \subseteq current, at = Nobody
             PROVE  IsInjective(cat.recs) /\ ToSet(cat.recs) = Shared
  BY DEF FollowsShare
<1> USE DEF Whole
<1>1. cat.recs \in Seq(Path) /\ IsInjective(cat.recs) /\ list \in Seq(Folder) /\ share \in [Folder -> SUBSET Leaf]
  BY ListAssumption DEF CatalogueTyped, Catalogues
<1>2. ToSet(cat.recs) \subseteq Path
  BY <1>1, InPath
<1>3. \A f : Contains(list, f) <=> f \in ToSet(list)
  BY DEF Contains, ToSet
<1>4. current # {}
  <2>1. Len(list) \in Nat /\ DOMAIN list = 1..Len(list) /\ 1 \in 1..Len(list)
    BY <1>1, LenProperties, EmptySeq
  <2>2. list[1] \in ToSet(list)
    BY <2>1 DEF ToSet
  <2> QED
    BY <2>2
<1>5. \A p \in ToSet(cat.recs) : p[1] \in ToSet(list)
  BY <1>4 DEF NoStrays
<1>6. ASSUME NEW p \in Path PROVE p \in ToSet(cat.recs) <=> p[1] \in ToSet(list) /\ p[2] \in share[p[1]]
  <2>1. p = <<p[1], p[2]>> /\ p[1] \in Folder /\ p[2] \in Leaf
    BY DEF Path
  <2>2. CASE p[1] \in ToSet(list)
    <3>1. <<p[1], p[2]>> \in ToSet(cat.recs) <=> p[2] \in share[p[1]]
      BY <2>1, <2>2 DEF TakenIn
    <3> QED
      BY <2>1, <2>2, <3>1
  <2> QED
    BY <1>5, <2>2
<1> QED
  BY <1>1, <1>2, <1>3, <1>6 DEF Shared

\* Once every folder of the list has been taken in whole the catalogue is the share, for
\* every share, list, capacity and arena: no photograph twice, none that was deleted, none
\* of a folder that left the list (smb_catalog.c, catalogue_refresh of app_smb_sync.c).
THEOREM CatalogueFollowsShare == Spec => []FollowsShare
<1>1. Init => Whole
  BY InitWhole
<1>2. Whole /\ [Next]_vars => Whole'
  BY NextWhole
<1>3. Whole => FollowsShare
  BY WholeFollows
<1> QED
  BY <1>1, <1>2, <1>3, PTL DEF Spec

\* What OthersStay says of a step.
OtherStays ==
    Refresh /\ Len(cat'.recs) = Len(cat.recs) =>
        \A i \in DOMAIN cat.recs : cat.recs[i][1] # at => cat'.recs[i] = cat.recs[i]

LEMMA WholeStays == Whole /\ [Next]_vars => [OtherStays]_vars
<1> SUFFICES ASSUME Whole, Refresh, Len(cat'.recs) = Len(cat.recs)
             PROVE  \A i \in DOMAIN cat.recs : cat.recs[i][1] # at => cat'.recs[i] = cat.recs[i]
  BY DEF OtherStays
<1> USE DEF Whole
<1> DEFINE s == cat.recs
           r == cat'.recs
<1>1. at \in Folder /\ cat' = Refreshed(cat, at)
  BY DEF Refresh, CatalogueTyped
<1>2. share[at] \subseteq Leaf
  BY <1>1 DEF CatalogueTyped
<1>3. /\ cat' \in Catalogues
      /\ \E a, b, t : IsRun(s, at, a, b) /\ Replaced(r, s, at, a, b, t)
  BY <1>1, <1>2, RefreshReplaces DEF CatalogueTyped
<1>4. PICK a, b, t : IsRun(s, at, a, b) /\ Replaced(r, s, at, a, b, t)
  BY <1>3
<1>5. s \in Seq(Path) /\ r \in Seq(Path)
  BY <1>3 DEF CatalogueTyped, Catalogues
<1> QED
  BY <1>4, <1>5, ReplacedInPlace

\* A refresh that finds as many photographs as before leaves every record of another folder
\* at its index: what smb_catalog_restore_at() is for (tickets 44 and 45).
THEOREM OthersKeepPlace == Spec => OthersStay
<1>1. Init => Whole
  BY InitWhole
<1>2. Whole /\ [Next]_vars => Whole'
  BY NextWhole
<1>3. Whole /\ [Next]_vars => [OtherStays]_vars
  BY WholeStays
<1>4. Spec => [][OtherStays]_vars
  BY <1>1, <1>2, <1>3, PTL DEF Spec
<1> QED
  BY <1>4 DEF OthersStay, OtherStays

-----------------------------------------------------------------------------
(* CardSlot: the medium at /data. *)

SlotTyped ==
    /\ inserted \in Nat /\ moves \in Nat /\ mounted \in Nat \cup {Nothing}
    /\ media \in Medium /\ acted \in BOOLEAN
    /\ stage \in [Looker -> {"away", "read", "decide", "switch", "open", "refused", "tell"}]
    /\ sees \in [Looker -> BOOLEAN] /\ aims \in [Looker -> Medium]

\* One task opens at a time, and there is no volume while it does; the flash is volume 0.
OneOpens ==
    /\ mounted # Nothing => (media = "flash" <=> mounted = 0)
    /\ \A t \in Looker : stage[t] = "open" =>
           mounted = Nothing /\ \A u \in Looker : stage[u] = "open" => u = t

\* Whoever mounted the volume has still to tell of it, if it has not been told of.
ToldOrTelling ==
    mounted # Nothing => told = mounted \/ \E t \in Looker : stage[t] = "tell"

\* What a task on its way has seen and aims at.
OnItsWay ==
    \A t \in Looker :
        /\ stage[t] = "decide" =>
               IF sees[t] THEN inserted # 0 ELSE inserted = 0 \/ (t = "main" /\ ~acted)
        /\ stage[t] \in {"switch", "open"} =>
               IF aims[t] = "card" THEN inserted # 0
               ELSE inserted \in {0, spurned} \/ (t = "main" /\ ~acted)
        /\ stage[t] = "refused" => inserted \in {0, spurned}

\* A slot whose emptying has been acted on is followed: the next card will count as reseated.
EmptyIsSeen ==
    inserted = 0 /\ ~acted =>
        /\ ~lastPresent \/ stage["main"] \in {"read", "decide"}
        /\ media = "flash" \/ mounted = Nothing \/ stage["main"] \in {"read", "decide", "switch"}

\* A card is the volume, or was refused, or somebody is about to try it.
CardIsTried ==
    inserted # 0 =>
        /\ locked => ~lastPresent \/ spurned = inserted
        /\ media = "card" => mounted \in {inserted, Nothing}
        /\ \/ Follows \/ ~acted \/ stage["main"] \in {"read", "decide"}
           \/ \E t \in Looker : stage[t] = "switch" /\ aims[t] = "card"

Watched ==
    /\ SlotTyped /\ OneOpens /\ ToldOrTelling
    /\ ~unseen => OnItsWay /\ EmptyIsSeen /\ CardIsTried

LEMMA SlotInitWatched == SlotInit => Watched
<1> SUFFICES ASSUME SlotInit PROVE Watched
  OBVIOUS
<1> USE MovesAssumption DEF SlotInit, Looker, Medium, Nothing, Agree
<1>1. SlotTyped
  <2>1. acted \in BOOLEAN /\ media \in Medium
    BY Zenon
  <2> QED
    BY <2>1 DEF SlotTyped
<1>2. OneOpens /\ ToldOrTelling
  BY DEF OneOpens, ToldOrTelling
<1>3. OnItsWay /\ EmptyIsSeen
  BY DEF OnItsWay, EmptyIsSeen
<1>4. CardIsTried
  BY DEF CardIsTried, Follows
<1> QED
  BY <1>1, <1>2, <1>3, <1>4 DEF Watched

\* A reading is wrong only where it misses a card.
LEMMA MissesOnly == ASSUME NEW r \in BOOLEAN, Reading(r) PROVE r => inserted # 0
BY DEF Reading, Wrong

LEMMA HandleWatched == ASSUME Watched, CardIn \/ CardOut PROVE Watched'
<1> USE DEF Watched, SlotTyped, CardIn, CardOut, Handle, Goes, Moved, volumeVars, watchVars, pollVars, localVars,
            Looker, Medium, Nothing
<1>1. SlotTyped'
  BY DEF Reading
<1>2. OneOpens'
  BY DEF OneOpens
<1>3. ToldOrTelling'
  BY DEF ToldOrTelling
<1>4. ASSUME ~unseen' PROVE OnItsWay'
  BY <1>4 DEF OnItsWay
<1>5. ASSUME ~unseen' PROVE EmptyIsSeen'
  BY <1>5 DEF EmptyIsSeen
<1>6. ASSUME ~unseen' PROVE CardIsTried'
  <2>1. ~unseen /\ ~(acted # (inserted # 0)) /\ ~(\E t \in Looker : stage[t] # "away")
    BY <1>6, Zenon
  <2>2. inserted' # 0 => inserted = 0 /\ ~acted
    BY <2>1
  <2> QED
    BY <1>6, <2>1, <2>2 DEF CardIsTried, Follows, EmptyIsSeen
<1> QED
  BY <1>1, <1>2, <1>3, <1>4, <1>5, <1>6

LEMMA PollWatched == ASSUME Watched, Poll PROVE Watched'
<1> USE DEF Watched, SlotTyped, Poll, Goes, Moved, volumeVars, watchVars, pollVars, localVars,
            Looker, Medium, Nothing
<1>1. SlotTyped'
  BY DEF Reading
<1>2. OneOpens'
  BY DEF OneOpens
<1>3. ToldOrTelling'
  BY DEF ToldOrTelling
<1>4. ASSUME ~unseen' PROVE OnItsWay'
  BY <1>4 DEF OnItsWay
<1>5. ASSUME ~unseen' PROVE EmptyIsSeen'
  BY <1>5 DEF EmptyIsSeen
<1>6. ASSUME ~unseen' PROVE CardIsTried'
  BY <1>6 DEF CardIsTried, Follows
<1> QED
  BY <1>1, <1>2, <1>3, <1>4, <1>5, <1>6

LEMMA RescanWatched == ASSUME Watched, Rescan PROVE Watched'
<1> USE DEF Watched, SlotTyped, Rescan, Goes, Moved, volumeVars, watchVars, pollVars, localVars,
            Looker, Medium, Nothing
<1>1. SlotTyped'
  BY DEF Reading
<1>2. OneOpens'
  BY DEF OneOpens
<1>3. ToldOrTelling'
  BY DEF ToldOrTelling
<1>4. ASSUME ~unseen' PROVE OnItsWay'
  BY <1>4 DEF OnItsWay
<1>5. ASSUME ~unseen' PROVE EmptyIsSeen'
  BY <1>5 DEF EmptyIsSeen
<1>6. ASSUME ~unseen' PROVE CardIsTried'
  BY <1>6 DEF CardIsTried, Follows
<1> QED
  BY <1>1, <1>2, <1>3, <1>4, <1>5, <1>6

LEMMA LookWatched == ASSUME Watched, NEW t \in Looker, Look(t) PROVE Watched'
<1> USE DEF Watched, SlotTyped, Look, Goes, Moved, volumeVars, watchVars, pollVars, localVars,
            Looker, Medium, Nothing
<1>1. SlotTyped'
  BY DEF Reading
<1>2. OneOpens'
  BY DEF OneOpens
<1>3. ToldOrTelling'
  BY DEF ToldOrTelling
<1>4. ASSUME ~unseen' PROVE OnItsWay'
  <2>1. PICK r \in BOOLEAN :
            /\ Reading(r) /\ sees' = [sees EXCEPT ![t] = r]
            /\ unseen' = (unseen \/ (Wrong(r) /\ (acted \/ t = "httpd")))
    OBVIOUS
  <2>2. r => inserted # 0
    BY <2>1, MissesOnly
  <2>3. ~unseen /\ ~(Wrong(r) /\ (acted \/ t = "httpd"))
    BY <1>4, <2>1, Zenon
  <2>4. ~r => inserted = 0 \/ (t = "main" /\ ~acted)
    BY <2>3, Zenon DEF Wrong
  <2> QED
    BY <2>1, <2>2, <2>3, <2>4 DEF OnItsWay
<1>5. ASSUME ~unseen' PROVE EmptyIsSeen'
  BY <1>5 DEF EmptyIsSeen
<1>6. ASSUME ~unseen' PROVE CardIsTried'
  BY <1>6 DEF CardIsTried, Follows
<1> QED
  BY <1>1, <1>2, <1>3, <1>4, <1>5, <1>6

LEMMA DecideWatched == ASSUME Watched, NEW t \in Looker, Decide(t) PROVE Watched'
<1> USE DEF Watched, SlotTyped, Decide, DecideOn, Goes, Moved, volumeVars, watchVars, pollVars, localVars,
            Looker, Medium, Nothing
<1>1. SlotTyped'
  BY DEF Reading
<1>2. OneOpens'
  BY DEF OneOpens
<1>3. ToldOrTelling'
  BY DEF ToldOrTelling
<1>4. /\ aims' = [aims EXCEPT ![t] = IF sees[t] /\ ~locked' THEN "card" ELSE "flash"]
      /\ stage' = [stage EXCEPT ![t] = IF media = aims'[t] /\ mounted # Nothing
                                       THEN "away" ELSE "switch"]
      /\ stage[t] = "decide" /\ lastPresent' = sees[t]
      /\ UNCHANGED <<inserted, media, mounted, sees, acted, spurned, unseen>>
  OBVIOUS
<1>5. locked' => locked /\ sees[t] /\ lastPresent
  BY Zenon
<1>6. ~unseen' => ~unseen
  BY <1>4
<1>7. ASSUME ~unseen
      PROVE  /\ sees[t] => inserted # 0
             /\ ~sees[t] => inserted = 0 \/ (t = "main" /\ ~acted)
             /\ locked' /\ inserted # 0 => spurned = inserted
  BY <1>4, <1>5, <1>7 DEF OnItsWay, CardIsTried
<1>8. ASSUME ~unseen PROVE OnItsWay'
  BY <1>4, <1>7, <1>8 DEF OnItsWay
<1>9. ASSUME ~unseen PROVE EmptyIsSeen'
  BY <1>4, <1>7, <1>9 DEF EmptyIsSeen
<1>10. ASSUME ~unseen PROVE CardIsTried'
  <2> SUFFICES ASSUME inserted # 0 PROVE CardIsTried'
    BY <1>4 DEF CardIsTried
  <2>1. media = "card" => mounted \in {inserted, Nothing}
    BY <1>10 DEF CardIsTried
  <2>2. Follows' <=> Follows
    BY <1>4 DEF Follows
  <2>3. spurned = inserted => Follows
    BY <2>1 DEF Follows, OneOpens
  <2>4. CASE t = "main"
    <3>1. CASE ~acted \/ Follows
      BY <1>4, <1>5, <1>7, <1>10, <2>1, <2>2, <3>1 DEF CardIsTried
    <3>2. CASE acted /\ ~Follows
      <4>1. sees[t] /\ ~locked' /\ aims'[t] = "card"
        BY <1>4, <1>7, <1>10, <2>3, <3>2
      <4>2. stage'[t] = "switch"
        BY <1>4, <2>1, <3>2, <4>1 DEF Follows
      <4> QED
        BY <1>4, <2>1, <4>1, <4>2 DEF CardIsTried
    <3> QED
      BY <3>1, <3>2
  <2>5. CASE t # "main"
    BY <1>4, <1>5, <1>7, <1>10, <2>1, <2>2, <2>5 DEF CardIsTried
  <2> QED
    BY <2>4, <2>5
<1> QED
  BY <1>1, <1>2, <1>3, <1>6, <1>8, <1>9, <1>10

LEMMA SwitchWatched == ASSUME Watched, NEW t \in Looker, Switch(t) PROVE Watched'
<1> USE DEF Watched, SlotTyped, Switch, Goes, Moved, volumeVars, watchVars, pollVars, localVars,
            Looker, Medium, Nothing
<1>1. SlotTyped'
  BY DEF Reading
<1>2. OneOpens'
  BY DEF OneOpens
<1>3. ToldOrTelling'
  BY DEF ToldOrTelling
<1>4. ASSUME ~unseen' PROVE OnItsWay'
  BY <1>4 DEF OnItsWay
<1>5. ASSUME ~unseen' PROVE EmptyIsSeen'
  <2>1. inserted = 0 => aims[t] = "flash"
    BY <1>5 DEF OnItsWay
  <2>2. stage[t] = "switch" /\ stage' \in {[stage EXCEPT ![t] = "tell"], [stage EXCEPT ![t] = "open"]}
    OBVIOUS
  <2>3. media = aims[t] \/ mounted' = Nothing
    OBVIOUS
  <2> QED
    BY <1>5, <2>1, <2>2, <2>3 DEF EmptyIsSeen
<1>6. ASSUME ~unseen' PROVE CardIsTried'
  BY <1>6 DEF CardIsTried, Follows
<1> QED
  BY <1>1, <1>2, <1>3, <1>4, <1>5, <1>6

LEMMA OpensWatched == ASSUME Watched, NEW t \in Looker, Opens(t) PROVE Watched'
<1> USE DEF Watched, SlotTyped, Opens, Goes, Moved, volumeVars, watchVars, pollVars, localVars,
            Looker, Medium, Nothing
<1>1. SlotTyped'
  BY DEF Reading
<1>2. OneOpens'
  BY DEF OneOpens
<1>3. ToldOrTelling'
  BY DEF ToldOrTelling
<1>4. ASSUME ~unseen' PROVE OnItsWay'
  BY <1>4 DEF OnItsWay
<1>5. ASSUME ~unseen' PROVE EmptyIsSeen'
  BY <1>5 DEF EmptyIsSeen
<1>6. ASSUME ~unseen' PROVE CardIsTried'
  <2> SUFFICES ASSUME inserted # 0 PROVE CardIsTried'
    BY DEF CardIsTried
  <2>1. media' = aims[t] /\ mounted' = (IF aims[t] = "card" THEN inserted ELSE 0)
    OBVIOUS
  <2>2. aims[t] = "card" \/ spurned = inserted \/ (t = "main" /\ ~acted)
    BY <1>6 DEF OnItsWay
  <2>3. Follows' \/ ~acted'
    BY <2>1, <2>2 DEF Follows
  <2>4. media' = "card" => mounted' = inserted'
    BY <2>1
  <2>5. locked' => ~lastPresent' \/ spurned' = inserted'
    BY <1>6 DEF CardIsTried
  <2> QED
    BY <2>3, <2>4, <2>5 DEF CardIsTried
<1> QED
  BY <1>1, <1>2, <1>3, <1>4, <1>5, <1>6

LEMMA RefuseWatched == ASSUME Watched, NEW t \in Looker, Refuse(t) PROVE Watched'
<1> USE DEF Watched, SlotTyped, Refuse, Goes, Moved, volumeVars, watchVars, pollVars, localVars,
            Looker, Medium, Nothing
<1>1. SlotTyped'
  BY DEF Reading
<1>2. OneOpens'
  BY DEF OneOpens
<1>3. ToldOrTelling'
  BY DEF ToldOrTelling
<1>4. ASSUME ~unseen' PROVE OnItsWay'
  BY <1>4 DEF OnItsWay
<1>5. ASSUME ~unseen' PROVE EmptyIsSeen'
  BY <1>5 DEF EmptyIsSeen
<1>6. ASSUME ~unseen' PROVE CardIsTried'
  BY <1>6 DEF CardIsTried, Follows
<1> QED
  BY <1>1, <1>2, <1>3, <1>4, <1>5, <1>6

LEMMA FlashFailsWatched == ASSUME Watched, NEW t \in Looker, FlashFails(t) PROVE Watched'
<1> USE DEF Watched, SlotTyped, FlashFails, Goes, Moved, volumeVars, watchVars, pollVars, localVars,
            Looker, Medium, Nothing
<1>1. SlotTyped'
  BY DEF Reading
<1>2. OneOpens'
  BY DEF OneOpens
<1>3. ToldOrTelling'
  BY DEF ToldOrTelling
<1>4. ASSUME ~unseen' PROVE OnItsWay'
  BY <1>4 DEF OnItsWay
<1>5. ASSUME ~unseen' PROVE EmptyIsSeen'
  BY <1>5 DEF EmptyIsSeen
<1>6. ASSUME ~unseen' PROVE CardIsTried'
  BY <1>6 DEF CardIsTried, Follows
<1> QED
  BY <1>1, <1>2, <1>3, <1>4, <1>5, <1>6

LEMMA FallBackWatched == ASSUME Watched, NEW t \in Looker, FallBack(t) PROVE Watched'
<1> USE DEF Watched, SlotTyped, FallBack, Goes, Moved, volumeVars, watchVars, pollVars, localVars,
            Looker, Medium, Nothing
<1>1. SlotTyped'
  BY DEF Reading
<1>2. OneOpens'
  BY DEF OneOpens
<1>3. ToldOrTelling'
  BY DEF ToldOrTelling
<1>4. ASSUME ~unseen' PROVE OnItsWay'
  BY <1>4 DEF OnItsWay
<1>5. ASSUME ~unseen' PROVE EmptyIsSeen'
  BY <1>5 DEF EmptyIsSeen
<1>6. ASSUME ~unseen' PROVE CardIsTried'
  <2> SUFFICES ASSUME inserted # 0 PROVE CardIsTried'
    BY DEF CardIsTried
  <2>1. spurned = inserted
    BY <1>6 DEF OnItsWay
  <2>2. media = "card" => mounted \in {inserted, Nothing}
    BY <1>6 DEF CardIsTried
  <2>3. Follows
    BY <2>1, <2>2 DEF Follows, OneOpens
  <2>4. UNCHANGED <<inserted, media, mounted, spurned>>
    OBVIOUS
  <2> QED
    BY <2>1, <2>2, <2>3, <2>4 DEF CardIsTried, Follows
<1> QED
  BY <1>1, <1>2, <1>3, <1>4, <1>5, <1>6

LEMMA TellWatched == ASSUME Watched, NEW t \in Looker, Tell(t) PROVE Watched'
<1> USE DEF Watched, SlotTyped, Tell, TellOf, Goes, Moved, volumeVars, watchVars, pollVars, localVars,
            Looker, Medium, Nothing
<1>1. SlotTyped'
  BY DEF Reading
<1>2. OneOpens'
  BY DEF OneOpens
<1>3. ToldOrTelling'
  BY DEF ToldOrTelling
<1>4. ASSUME ~unseen' PROVE OnItsWay'
  BY <1>4 DEF OnItsWay
<1>5. ASSUME ~unseen' PROVE EmptyIsSeen'
  BY <1>5 DEF EmptyIsSeen
<1>6. ASSUME ~unseen' PROVE CardIsTried'
  BY <1>6 DEF CardIsTried, Follows
<1> QED
  BY <1>1, <1>2, <1>3, <1>4, <1>5, <1>6

LEMMA SlotNextWatched == Watched /\ [SlotNext]_slotVars => Watched'
<1> SUFFICES ASSUME Watched, [SlotNext]_slotVars PROVE Watched'
  OBVIOUS
<1>1. CASE UNCHANGED slotVars
  BY <1>1 DEF slotVars, volumeVars, watchVars, pollVars, localVars, Watched, SlotTyped, OneOpens,
              ToldOrTelling, OnItsWay, EmptyIsSeen, CardIsTried, Follows
<1> QED
  BY <1>1, HandleWatched, PollWatched, RescanWatched, LookWatched, DecideWatched, SwitchWatched,
     OpensWatched, RefuseWatched, FlashFailsWatched, FallBackWatched, TellWatched
     DEF SlotNext, Ensure

\* The volume follows the slot and its readers the volume, whatever the poll, the page and the
\* hand at the slot do to one another.
THEOREM SlotIsFollowed == SlotSpec => []CardIsFollowed
<1>1. Watched => (AllAway /\ mounted # Nothing => told = mounted)
  BY DEF Watched, ToldOrTelling, AllAway
<1>2. ASSUME Watched, AtRest, ~unseen PROVE Follows
  <2>1. \A t \in Looker : stage[t] = "away"
    BY <1>2 DEF AtRest, AllAway
  <2>2. stage["main"] = "away"
    BY <2>1 DEF Looker
  <2>3. CASE inserted = 0
    <3>1. ~acted
      BY <1>2, <2>3 DEF AtRest
    <3> QED
      BY <1>2, <2>2, <2>3, <3>1 DEF Watched, EmptyIsSeen, OneOpens, Follows
  <2>4. CASE inserted # 0
    <3>1. acted
      BY <1>2, <2>4 DEF AtRest
    <3> QED
      BY <1>2, <2>1, <2>2, <2>4, <3>1 DEF Watched, CardIsTried
  <2> QED
    BY <2>3, <2>4
<1> QED
  BY <1>1, <1>2, SlotInitWatched, SlotNextWatched, PTL DEF SlotSpec, CardIsFollowed

-----------------------------------------------------------------------------
(* Album: the numbers of the photographs, and their tiles. *)

AlbumTyped ==
    /\ volume \in Volume /\ uploads \in Nat /\ sent \in Nat /\ made \in Nat
    /\ photo \in [Volume -> [Number -> Nat]] /\ tile \in [Volume -> [Number -> Int]]
    /\ counter \in [Volume -> 0..LastNumber] /\ cached \in [Volume -> [Number -> Int]]
    /\ given \in [Volume -> SUBSET Number] /\ forgot \in [Volume -> SUBSET Number]
    /\ twice \in [Volume -> SUBSET Number] /\ orphan \in [Volume -> SUBSET Number]
    /\ crossed \in [Volume -> SUBSET Number] /\ ended \subseteq Volume
    /\ number \in 0..LastNumber /\ (worker # "idle" => number \in Number)

Naming == worker \in {"named", "opened", "recorded"}

\* The name in hand is free, and is the last only where the last has been handed out.
NameIsFree ==
    Naming => photo[volume][number] = Nobodys /\ (number < LastNumber \/ volume \in ended)

\* Until the last number is handed out, neither the counter nor a photograph has it, but for
\* a photograph of the factory; and the counter covers the numbers given, but for those that
\* were forgotten, where it is not being rewritten.
Remembered(v) == given[v] \ forgot[v]
CounterCovers ==
    \A v \in Volume \ ended :
        /\ counter[v] < LastNumber
        /\ \A n \in Number : photo[v][n] # Nobodys => n < LastNumber \/ n = 1
        /\ ~(v = volume /\ worker = "opened") => \A n \in Remembered(v) : n <= counter[v]

\* A name that has been picked is none of those, and is covered by the time it is used.
NameIsNew ==
    volume \notin ended =>
        /\ worker \in {"named", "opened"} => \A n \in Remembered(volume) : n < number
        /\ worker = "recorded" =>
               /\ number \notin Remembered(volume)
               /\ number <= counter[volume] \/ number \in forgot[volume]

Numbered == NameIsFree /\ CounterCovers /\ NameIsNew /\ NumbersAreNew

Excused(v, n) == n \in orphan[v] \cup crossed[v]

\* A tile is its photograph's, but where the worker is at it.
TilesMatch ==
    /\ \A v \in Volume, n \in Number :
           \/ tile[v][n] = Nobodys
           \/ photo[v][n] # Nobodys /\ tile[v][n] = photo[v][n]
           \/ Excused(v, n)
           \/ v = volume /\ n = number /\ worker = "tile"
           \/ v = volume /\ n = number /\ worker = "unlink" /\ photo[v][n] = Nobodys
    /\ worker \in {"made", "tile"} =>
           (made = photo[volume][number] /\ made # Nobodys) \/ Excused(volume, number)

\* The browser has tiles of numbers given on the medium it saw them on, and the right ones.
CacheMatches ==
    \A v \in Volume, n \in Number :
        /\ photo[v][n] # Nobodys => n \in given[v]
        /\ cached[v][n] # Nobodys => n \in given[v]
        /\ photo[v][n] # Nobodys /\ cached[v][n] # Nobodys =>
               \/ cached[v][n] = photo[v][n] \/ Excused(v, n) \/ n \in twice[v]

Tiled == TilesMatch /\ CacheMatches

LEMMA AtTyped ==
    ASSUME NEW S, NEW f \in [Volume -> [Number -> S]], NEW n \in Number, NEW x \in S,
           volume \in Volume
    PROVE  /\ At(f, n, x) \in [Volume -> [Number -> S]]
           /\ At(f, n, x)[volume][n] = x
           /\ \A v \in Volume, k \in Number : v # volume \/ k # n => At(f, n, x)[v][k] = f[v][k]
<1>1. f[volume] \in [Number -> S]
  OBVIOUS
<1>2. [f[volume] EXCEPT ![n] = x] \in [Number -> S]
  BY <1>1
<1>3. At(f, n, x) = [f EXCEPT ![volume] = [f[volume] EXCEPT ![n] = x]]
  BY DEF At
<1> QED
  BY <1>1, <1>2, <1>3

LEMMA JoinedTyped ==
    ASSUME NEW f \in [Volume -> SUBSET Number], NEW S \in SUBSET Number, volume \in Volume
    PROVE  /\ Joined(f, S) \in [Volume -> SUBSET Number]
           /\ Joined(f, S)[volume] = f[volume] \cup S
           /\ \A v \in Volume : v # volume => Joined(f, S)[v] = f[v]
<1>1. f[volume] \cup S \in SUBSET Number
  OBVIOUS
<1> QED
  BY <1>1 DEF Joined

LEMMA NumberIn == LastNumber \in Nat /\ 1 \in Number /\ Number \subseteq 0..LastNumber /\ Number \subseteq Nat
BY AlbumAssumption DEF Number

\* The name that is picked is free, and above every name held and counted while there are such.
LEMMA PickIsFree ==
    ASSUME AlbumTyped, Pick # 0
    PROVE  /\ Pick \in Number /\ photo[volume][Pick] = Nobodys
           /\ \/ counter[volume] < Pick
              \/ counter[volume] = LastNumber
              \/ LastNumber > 1 /\ photo[volume][LastNumber] # Nobodys
<1> DEFINE S == Held \cup {counter[volume]}
<1>1. S \in SUBSET (0..LastNumber) /\ LastNumber \in Nat
  BY AlbumAssumption DEF AlbumTyped, Held, Number
<1>2. \E n \in S : \A k \in S : k <= n
  BY <1>1, GreatestExists
<1>3. Highest \in S /\ \A k \in S : k <= Highest
  BY <1>2 DEF Highest
<1>4. CASE Highest < LastNumber
  <2>1. Pick = Highest + 1
    BY <1>4 DEF Pick
  <2>2. Highest \in 0..LastNumber /\ counter[volume] \in 0..LastNumber
    BY <1>1, <1>3
  <2>3. Pick \in Number /\ counter[volume] < Pick
    BY <1>1, <1>3, <1>4, <2>1, <2>2 DEF Number
  <2>4. Pick \notin Held
    BY <1>1, <1>3, <1>4, <2>1, <2>2
  <2> QED
    BY <2>3, <2>4 DEF Held
<1>5. CASE ~(Highest < LastNumber)
  <2>1. Number \ Held # {} /\ Pick = Least(Number \ Held)
    BY <1>5 DEF Pick
  <2>2. \E n \in Number \ Held : \A k \in Number \ Held : n <= k
    <3> DEFINE T == Number \ Held
    <3>1. T \in SUBSET Nat /\ T # {}
      BY <1>1, <2>1 DEF Number
    <3> HIDE DEF T
    <3>2. \E n \in T : \A k \in T : n <= k
      BY <3>1, LeastExists
    <3> QED
      BY <3>2 DEF T
  <2>3. Pick \in Number \ Held
    BY <2>1, <2>2 DEF Least
  <2>4. Highest = LastNumber
    BY <1>1, <1>3, <1>5
  <2>5. LastNumber \in Held => LastNumber > 1
    BY <1>1, <2>3 DEF Number
  <2> QED
    BY <1>3, <2>3, <2>4, <2>5 DEF Held
<1> QED
  BY <1>4, <1>5

Album == AlbumTyped /\ Numbered /\ Tiled

LEMMA AlbumInitTrue == AlbumInit => Album
<1> SUFFICES ASSUME AlbumInit PROVE Album
  OBVIOUS
<1> USE AlbumAssumption DEF AlbumInit, NoNumbers, Number, Nobodys, Factory, Volume
<1>1. AlbumTyped
  BY DEF AlbumTyped
<1>2. NameIsFree /\ NameIsNew
  BY DEF NameIsFree, NameIsNew, Naming
<1>3. CounterCovers /\ NumbersAreNew
  BY DEF CounterCovers, NumbersAreNew, Remembered
<1>4. TilesMatch /\ CacheMatches
  BY DEF TilesMatch, CacheMatches
<1> QED
  BY <1>1, <1>2, <1>3, <1>4 DEF Album, Numbered, Tiled

LEMMA UploadKeepsAlbum == ASSUME Album, Upload PROVE Album'
<1>1. AlbumTyped'
  <2>1. number' \in Number
    BY PickIsFree DEF Album, Upload
  <2>2. number' \in 0..LastNumber
    BY <2>1, NumberIn
  <2>3. uploads' \in Nat /\ sent' \in Nat /\ ended' \subseteq Volume
    BY DEF Album, AlbumTyped, Upload, Factory
  <2> QED
    BY <2>1, <2>2, <2>3 DEF Album, AlbumTyped, Upload, files
<1> USE AlbumAssumption, PickIsFree DEF Album, Numbered, Tiled, AlbumTyped, Upload, At, Joined, files,
            hand, albumBounds, albumGhosts, Number, Nobodys, Volume, CutTile, Factory
<1>2. NameIsFree'
  BY DEF NameIsFree, Naming
<1>3. CounterCovers'
  BY DEF CounterCovers, Remembered, Naming, NameIsNew
<1>4. NameIsNew'
  <2>1. volume' = volume /\ worker' = "named" /\ number' = Pick /\ ended \subseteq ended'
    OBVIOUS
  <2>2. ASSUME volume \notin ended', NEW n \in Remembered(volume) PROVE n < Pick
    <3>1. /\ counter[volume] < LastNumber /\ n <= counter[volume]
          /\ \A k \in Number : photo[volume][k] # Nobodys => k < LastNumber \/ k = 1
      BY <2>1, <2>2 DEF CounterCovers
    <3>2. Pick \in Number /\ counter[volume] < Pick
      <4>1. Pick # 0 /\ AlbumTyped
        OBVIOUS
      <4>2. Pick \in Number
        BY <4>1, PickIsFree
      <4>3. counter[volume] < Pick \/ (LastNumber > 1 /\ photo[volume][LastNumber] # Nobodys)
        BY <3>1, <4>1, PickIsFree
      <4>4. ~(LastNumber > 1 /\ photo[volume][LastNumber] # Nobodys)
        BY <3>1
      <4> QED
        BY <4>2, <4>3, <4>4
    <3> QED
      BY <3>1, <3>2 DEF Remembered
  <2>3. Remembered(volume)' = Remembered(volume)
    BY DEF Remembered
  <2> QED
    BY <2>1, <2>2, <2>3 DEF NameIsNew
<1>5. NumbersAreNew'
  BY DEF NumbersAreNew, NameIsNew, Remembered
<1>6. TilesMatch'
  BY DEF TilesMatch, Excused, NameIsFree, Naming
<1>7. CacheMatches'
  BY DEF CacheMatches, TilesMatch, Excused
<1> QED
  BY <1>1, <1>2, <1>3, <1>4, <1>5, <1>6, <1>7

LEMMA OpenCounterKeepsAlbum == ASSUME Album, OpenCounter PROVE Album'
<1>1. AlbumTyped'
  <2>1. [counter EXCEPT ![volume] = 0] \in [Volume -> 0..LastNumber]
    BY AtTyped, JoinedTyped, NumberIn DEF Album, AlbumTyped, Nobodys, CutTile
  <2>2. number \in Number /\ worker = "named" => Joined(forgot, {number}) \in [Volume -> SUBSET Number]
    BY JoinedTyped DEF Album, AlbumTyped
  <2> QED
    BY <2>1, <2>2, NumberIn
       DEF Album, AlbumTyped, OpenCounter, Recording, files, hand, albumBounds, albumGhosts
<1> USE AlbumAssumption DEF Album, Numbered, Tiled, AlbumTyped, OpenCounter, Recording, At, Joined, files,
            hand, albumBounds, albumGhosts, Number, Nobodys, Volume, CutTile, Factory
<1>2. NameIsFree'
  BY DEF NameIsFree, Naming
<1>3. CounterCovers'
  <2>1. \A v \in Volume : counter'[v] = counter[v] \/ (counter'[v] = 0 /\ v = volume /\ worker' = "opened")
    OBVIOUS
  <2>2. \A v \in Volume : Remembered(v)' \subseteq Remembered(v)
    BY DEF Remembered
  <2>3. UNCHANGED <<volume, photo, ended>> /\ worker = "named" /\ 0 < LastNumber
    OBVIOUS
  <2> QED
    BY <2>1, <2>2, <2>3 DEF CounterCovers
<1>4. NameIsNew'
  BY DEF NameIsNew, CounterCovers, Remembered
<1>5. NumbersAreNew'
  BY DEF NumbersAreNew, NameIsNew, Remembered
<1>6. TilesMatch'
  BY DEF TilesMatch, Excused, NameIsFree, Naming
<1>7. CacheMatches'
  BY DEF CacheMatches, TilesMatch, Excused
<1> QED
  BY <1>1, <1>2, <1>3, <1>4, <1>5, <1>6, <1>7

LEMMA KeepCounterKeepsAlbum == ASSUME Album, KeepCounter PROVE Album'
<1>1. AlbumTyped'
  <2>1. [counter EXCEPT ![volume] = number] \in [Volume -> 0..LastNumber]
    BY AtTyped, JoinedTyped, NumberIn DEF Album, AlbumTyped, Nobodys, CutTile
  <2>2. number \in Number => Joined(forgot, given[volume] \cup {number}) \in [Volume -> SUBSET Number]
    BY DEF Joined, Album, AlbumTyped
  <2> QED
    BY <2>1, <2>2, NumberIn
       DEF Album, AlbumTyped, KeepCounter, Recording, files, hand, albumBounds, albumGhosts
<1> USE AlbumAssumption DEF Album, Numbered, Tiled, AlbumTyped, KeepCounter, Recording, At, Joined, files,
            hand, albumBounds, albumGhosts, Number, Nobodys, Volume, CutTile, Factory
<1>2. NameIsFree'
  BY DEF NameIsFree, Naming
<1>3. CounterCovers'
  <2>1. CASE counter' = [counter EXCEPT ![volume] = number] /\ UNCHANGED forgot
    <3>1. volume \notin ended => number < LastNumber /\ \A n \in Remembered(volume) : n < number
      BY DEF NameIsFree, Naming, NameIsNew
    <3>2. \A v \in Volume : counter'[v] = IF v = volume THEN number ELSE counter[v]
      BY <2>1
    <3>3. \A v \in Volume : Remembered(v)' = Remembered(v) /\ Remembered(v) \subseteq Number
      BY <2>1 DEF Remembered
    <3> QED
      BY <3>1, <3>2, <3>3 DEF CounterCovers
  <2>2. CASE forgot' = Joined(forgot, given[volume] \cup {number}) /\ UNCHANGED counter
    <3>1. \A v \in Volume : Remembered(v)' = IF v = volume THEN {} ELSE Remembered(v)
      BY <2>2 DEF Remembered
    <3> QED
      BY <2>2, <3>1 DEF CounterCovers
  <2> QED
    BY <2>1, <2>2
<1>4. NameIsNew'
  BY DEF NameIsNew, CounterCovers, Remembered
<1>5. NumbersAreNew'
  BY DEF NumbersAreNew, NameIsNew, Remembered
<1>6. TilesMatch'
  BY DEF TilesMatch, Excused, NameIsFree, Naming
<1>7. CacheMatches'
  BY DEF CacheMatches, TilesMatch, Excused
<1> QED
  BY <1>1, <1>2, <1>3, <1>4, <1>5, <1>6, <1>7

LEMMA NamePhotoKeepsAlbum == ASSUME Album, NamePhoto PROVE Album'
<1>1. AlbumTyped'
  <2>1. number \in Number => At(photo, number, sent) \in [Volume -> [Number -> Nat]]
    BY AtTyped, JoinedTyped, NumberIn DEF Album, AlbumTyped, Nobodys, CutTile
  <2>2. number \in Number => Joined(given, {number}) \in [Volume -> SUBSET Number]
    BY JoinedTyped DEF Album, AlbumTyped
  <2>3. Joined(twice, given[volume] \cap {number}) \in [Volume -> SUBSET Number]
    BY AtTyped, JoinedTyped, NumberIn DEF Album, AlbumTyped, Nobodys, CutTile
  <2>4. photo' \in [Volume -> [Number -> Nat]]
    BY <2>1 DEF Album, AlbumTyped, NamePhoto
  <2>5. given' \in [Volume -> SUBSET Number] /\ twice' \in [Volume -> SUBSET Number]
    BY <2>2, <2>3 DEF Album, AlbumTyped, NamePhoto
  <2>6. number' \in 0..LastNumber /\ (worker' # "idle" => number' \in Number)
    BY NumberIn DEF Album, AlbumTyped, NamePhoto, Rest, hand
  <2>7. sent' \in Nat /\ made' \in Nat
    BY DEF Album, AlbumTyped, NamePhoto, Rest, hand, Nobodys
  <2> QED
    BY <2>4, <2>5, <2>6, <2>7 DEF Album, AlbumTyped, NamePhoto, albumBounds
<1> USE AlbumAssumption DEF Album, Numbered, Tiled, AlbumTyped, NamePhoto, Rest, At, Joined, files,
            hand, albumBounds, albumGhosts, Number, Nobodys, Volume, CutTile, Factory
<1>2. NameIsFree'
  BY DEF NameIsFree, Naming
<1>3. CounterCovers'
  <2>1. CASE UNCHANGED <<photo, given>>
    BY <2>1 DEF CounterCovers, Remembered
  <2>2. CASE photo' = At(photo, number, sent) /\ given' = Joined(given, {number})
    <3>1. volume \notin ended =>
              number < LastNumber /\ (number <= counter[volume] \/ number \in forgot[volume])
      BY DEF NameIsFree, Naming, NameIsNew
    <3>2. \A v \in Volume : Remembered(v)' = Remembered(v) \cup
              (IF v = volume /\ number \notin forgot[volume] THEN {number} ELSE {})
      BY <2>2 DEF Remembered
    <3>3. \A v \in Volume, n \in Number :
              photo'[v][n] = IF v = volume /\ n = number THEN sent ELSE photo[v][n]
      BY <2>2
    <3>4. volume' = volume /\ worker = "recorded" /\ worker' # "opened" /\ counter' = counter /\ ended' = ended
      OBVIOUS
    <3> QED
      BY <3>1, <3>2, <3>3, <3>4 DEF CounterCovers
  <2> QED
    BY <2>1, <2>2
<1>4. NameIsNew'
  BY DEF NameIsNew, CounterCovers, Remembered
<1>5. NumbersAreNew'
  BY DEF NumbersAreNew, NameIsNew, Remembered
<1>6. TilesMatch'
  BY DEF TilesMatch, Excused, NameIsFree, Naming
<1>7. CacheMatches'
  BY SMTT(30) DEF CacheMatches, TilesMatch, Excused
<1> QED
  BY <1>1, <1>2, <1>3, <1>4, <1>5, <1>6, <1>7

LEMMA MakeTileKeepsAlbum == ASSUME Album, MakeTile PROVE Album'
<1>1. AlbumTyped'
  <2>1. number \in Number => photo[volume][number] \in Nat
    BY AtTyped, JoinedTyped, NumberIn DEF Album, AlbumTyped, Nobodys, CutTile
  <2> QED
    BY <2>1, NumberIn
       DEF Album, AlbumTyped, MakeTile, Rest, Nobodys, files, hand, albumBounds, albumGhosts
<1> USE AlbumAssumption DEF Album, Numbered, Tiled, AlbumTyped, MakeTile, Rest, At, Joined, files,
            hand, albumBounds, albumGhosts, Number, Nobodys, Volume, CutTile, Factory
<1>2. NameIsFree'
  BY DEF NameIsFree, Naming
<1>3. CounterCovers'
  BY DEF CounterCovers, Remembered, Naming, NameIsNew
<1>4. NameIsNew'
  BY DEF NameIsNew, CounterCovers, Remembered
<1>5. NumbersAreNew'
  BY DEF NumbersAreNew, NameIsNew, Remembered
<1>6. TilesMatch'
  BY DEF TilesMatch, Excused, NameIsFree, Naming
<1>7. CacheMatches'
  BY DEF CacheMatches, TilesMatch, Excused
<1> QED
  BY <1>1, <1>2, <1>3, <1>4, <1>5, <1>6, <1>7

LEMMA OpenTileKeepsAlbum == ASSUME Album, OpenTile PROVE Album'
<1>1. AlbumTyped'
  <2>1. number \in Number => \A x \in {CutTile, Nobodys} : At(tile, number, x) \in [Volume -> [Number -> Int]]
    BY DEF At, Album, AlbumTyped, Nobodys, CutTile
  <2>2. tile' \in [Volume -> [Number -> Int]]
    BY <2>1 DEF Album, AlbumTyped, OpenTile, Unlinked
  <2>3. /\ number' \in 0..LastNumber /\ (worker' # "idle" => number' \in Number)
        /\ sent' \in Nat /\ made' \in Nat
    BY NumberIn DEF Album, AlbumTyped, OpenTile, Rest, hand, Nobodys
  <2> QED
    BY <2>2, <2>3 DEF Album, AlbumTyped, OpenTile, albumBounds, albumGhosts
<1> USE AlbumAssumption DEF Album, Numbered, Tiled, AlbumTyped, OpenTile, Unlinked, Rest, At, Joined, files,
            hand, albumBounds, albumGhosts, Number, Nobodys, Volume, CutTile, Factory
<1>2. NameIsFree'
  BY DEF NameIsFree, Naming
<1>3. CounterCovers'
  BY DEF CounterCovers, Remembered, Naming, NameIsNew
<1>4. NameIsNew'
  BY DEF NameIsNew, CounterCovers, Remembered
<1>5. NumbersAreNew'
  BY DEF NumbersAreNew, NameIsNew, Remembered
<1>6. TilesMatch'
  <2>0. UNCHANGED <<volume, photo, orphan, crossed>> /\ worker = "made"
    OBVIOUS
  <2>1. ASSUME worker' = "tile", tile' = At(tile, number, CutTile), UNCHANGED <<number, made>>
        PROVE  TilesMatch'
    <3>1. \A v \in Volume, n \in Number :
              tile'[v][n] = IF v = volume /\ n = number THEN CutTile ELSE tile[v][n]
      BY <2>1
    <3> QED
      BY <2>0, <2>1, <3>1 DEF TilesMatch, Excused
  <2>2. ASSUME worker' = "idle", tile' \in Unlinked(tile, number) PROVE TilesMatch'
    <3>1. \A v \in Volume, n \in Number : tile'[v][n] \in {tile[v][n], Nobodys}
      BY <2>2
    <3> QED
      BY <2>0, <2>2, <3>1 DEF TilesMatch, Excused
  <2> QED
    BY <2>1, <2>2
<1>7. CacheMatches'
  BY DEF CacheMatches, TilesMatch, Excused
<1> QED
  BY <1>1, <1>2, <1>3, <1>4, <1>5, <1>6, <1>7

LEMMA KeepTileKeepsAlbum == ASSUME Album, KeepTile PROVE Album'
<1>1. AlbumTyped'
  <2>1. number \in Number => \A x \in {made, Nobodys} : At(tile, number, x) \in [Volume -> [Number -> Int]]
    BY DEF At, Album, AlbumTyped, Nobodys, CutTile
  <2>2. tile' \in [Volume -> [Number -> Int]]
    BY <2>1 DEF Album, AlbumTyped, KeepTile
  <2>3. number' \in 0..LastNumber /\ worker' = "idle" /\ sent' \in Nat /\ made' \in Nat
    BY NumberIn DEF KeepTile, Rest, Nobodys
  <2>4. number \in Number => Joined(orphan, {number}) \in [Volume -> SUBSET Number]
    BY JoinedTyped DEF Album, AlbumTyped
  <2>5. orphan' \in [Volume -> SUBSET Number]
    BY <2>4 DEF Album, AlbumTyped, KeepTile
  <2> QED
    BY <2>2, <2>3, <2>5 DEF Album, AlbumTyped, KeepTile, albumBounds, albumGhosts
<1> USE AlbumAssumption DEF Album, Numbered, Tiled, AlbumTyped, KeepTile, Rest, At, Joined, files,
            hand, albumBounds, albumGhosts, Number, Nobodys, Volume, CutTile, Factory
<1>2. NameIsFree'
  BY DEF NameIsFree, Naming
<1>3. CounterCovers'
  BY DEF CounterCovers, Remembered, Naming, NameIsNew
<1>4. NameIsNew'
  BY DEF NameIsNew, CounterCovers, Remembered
<1>5. NumbersAreNew'
  BY DEF NumbersAreNew, NameIsNew, Remembered
<1>6. TilesMatch'
  <2>0. UNCHANGED <<volume, photo, crossed>> /\ worker' = "idle" /\ worker = "tile"
    OBVIOUS
  <2>1. ASSUME NEW x \in {made, Nobodys}, tile' = At(tile, number, x), UNCHANGED orphan
        PROVE  TilesMatch'
    <3>1. \A v \in Volume, n \in Number :
              tile'[v][n] = IF v = volume /\ n = number THEN x ELSE tile[v][n]
      BY <2>1
    <3>2. x = Nobodys \/ (x = photo[volume][number] /\ x # Nobodys) \/ Excused(volume, number)
      BY <2>0, <2>1 DEF TilesMatch
    <3>3. ASSUME NEW v \in Volume, NEW n \in Number
          PROVE  \/ tile'[v][n] = Nobodys
                 \/ photo[v][n] # Nobodys /\ tile'[v][n] = photo[v][n]
                 \/ Excused(v, n)
      BY <2>0, <3>1, <3>2 DEF TilesMatch
    <3> QED
      BY <2>0, <2>1, <3>3 DEF TilesMatch, Excused
  <2>2. ASSUME UNCHANGED tile, orphan' = Joined(orphan, {number}) PROVE TilesMatch'
    <3>1. \A v \in Volume : orphan'[v] = IF v = volume THEN orphan[v] \cup {number} ELSE orphan[v]
      BY <2>2
    <3>2. ASSUME NEW v \in Volume, NEW n \in Number
          PROVE  \/ tile[v][n] = Nobodys
                 \/ photo[v][n] # Nobodys /\ tile[v][n] = photo[v][n]
                 \/ n \in orphan'[v] \cup crossed[v]
      BY <2>0, <3>1 DEF TilesMatch, Excused
    <3> QED
      BY <2>0, <2>2, <3>2 DEF TilesMatch, Excused
  <2> QED
    BY <2>1, <2>2
<1>7. CacheMatches'
  <2>1. UNCHANGED <<photo, given, cached, twice, crossed>> /\ \A v \in Volume : orphan[v] \subseteq orphan'[v]
    OBVIOUS
  <2>2. \A v \in Volume, n \in Number : Excused(v, n) => Excused(v, n)'
    BY <2>1 DEF Excused
  <2> QED
    BY <2>1, <2>2 DEF CacheMatches
<1> QED
  BY <1>1, <1>2, <1>3, <1>4, <1>5, <1>6, <1>7

LEMMA DeleteKeepsAlbum == ASSUME Album, Delete PROVE Album'
<1>1. AlbumTyped'
  <2>1. number' \in Number => At(photo, number', Nobodys) \in [Volume -> [Number -> Nat]]
    BY AtTyped, JoinedTyped, NumberIn DEF Album, AlbumTyped, Nobodys, CutTile
  <2> QED
    BY <2>1, NumberIn
       DEF Album, AlbumTyped, Delete, Unlinked, Nobodys, files, hand, albumBounds, albumGhosts
<1> USE AlbumAssumption DEF Album, Numbered, Tiled, AlbumTyped, Delete, Unlinked, At, Joined, files,
            hand, albumBounds, albumGhosts, Number, Nobodys, Volume, CutTile, Factory
<1>2. NameIsFree'
  BY DEF NameIsFree, Naming
<1>3. CounterCovers'
  BY DEF CounterCovers, Remembered, Naming, NameIsNew
<1>4. NameIsNew'
  BY DEF NameIsNew, CounterCovers, Remembered
<1>5. NumbersAreNew'
  BY DEF NumbersAreNew, NameIsNew, Remembered
<1>6. TilesMatch'
  BY DEF TilesMatch, Excused, NameIsFree, Naming
<1>7. CacheMatches'
  <2>1. \A v \in Volume, n \in Number : photo'[v][n] \in {photo[v][n], Nobodys}
    OBVIOUS
  <2>2. UNCHANGED <<given, cached, twice, orphan, crossed>>
    OBVIOUS
  <2> QED
    BY <2>1, <2>2 DEF CacheMatches, Excused
<1> QED
  BY <1>1, <1>2, <1>3, <1>4, <1>5, <1>6, <1>7

LEMMA DeleteEndsKeepsAlbum == ASSUME Album, DeleteEnds PROVE Album'
<1>1. AlbumTyped'
  <2>1. number \in Number => At(tile, number, Nobodys) \in [Volume -> [Number -> Int]]
    BY DEF At, Album, AlbumTyped, Nobodys, CutTile
  <2>2. number \in Number => Joined(orphan, {number}) \in [Volume -> SUBSET Number]
    BY JoinedTyped DEF Album, AlbumTyped
  <2>3. tile' \in [Volume -> [Number -> Int]] /\ orphan' \in [Volume -> SUBSET Number]
    BY <2>1, <2>2 DEF Album, AlbumTyped, DeleteEnds
  <2>4. number' \in 0..LastNumber /\ worker' = "idle" /\ sent' \in Nat /\ made' \in Nat
    BY NumberIn DEF DeleteEnds, Rest, Nobodys
  <2> QED
    BY <2>3, <2>4 DEF Album, AlbumTyped, DeleteEnds, albumBounds
<1> USE AlbumAssumption DEF Album, Numbered, Tiled, AlbumTyped, DeleteEnds, Rest, At, Joined, files,
            hand, albumBounds, albumGhosts, Number, Nobodys, Volume, CutTile, Factory
<1>2. NameIsFree'
  BY DEF NameIsFree, Naming
<1>3. CounterCovers'
  BY DEF CounterCovers, Remembered, Naming, NameIsNew
<1>4. NameIsNew'
  BY DEF NameIsNew, CounterCovers, Remembered
<1>5. NumbersAreNew'
  BY DEF NumbersAreNew, NameIsNew, Remembered
<1>6. TilesMatch'
  <2>0. UNCHANGED <<volume, photo, crossed>> /\ worker' = "idle" /\ worker = "unlink"
    OBVIOUS
  <2>1. ASSUME tile' = At(tile, number, Nobodys), UNCHANGED orphan PROVE TilesMatch'
    <3>1. \A v \in Volume, n \in Number :
              tile'[v][n] = IF v = volume /\ n = number THEN Nobodys ELSE tile[v][n]
      BY <2>1
    <3> QED
      BY <2>0, <2>1, <3>1 DEF TilesMatch, Excused
  <2>2. ASSUME UNCHANGED tile, orphan' = Joined(orphan, {number}) PROVE TilesMatch'
    <3>1. \A v \in Volume : orphan'[v] = IF v = volume THEN orphan[v] \cup {number} ELSE orphan[v]
      BY <2>2
    <3> QED
      BY <2>0, <2>2, <3>1 DEF TilesMatch, Excused
  <2> QED
    BY <2>1, <2>2
<1>7. CacheMatches'
  <2>1. UNCHANGED <<photo, given, cached, twice, crossed>> /\ \A v \in Volume : orphan[v] \subseteq orphan'[v]
    OBVIOUS
  <2>2. \A v \in Volume, n \in Number : Excused(v, n) => Excused(v, n)'
    BY <2>1 DEF Excused
  <2> QED
    BY <2>1, <2>2 DEF CacheMatches
<1> QED
  BY <1>1, <1>2, <1>3, <1>4, <1>5, <1>6, <1>7

\* A tile that is seen matches if its number was given and it is the photograph's, or excused.
LEMMA SeenMatches ==
    ASSUME CacheMatches, NEW n, NEW x, n \in given[volume],
           x = photo[volume][n] \/ Excused(volume, n),
           \A v \in Volume, k \in Number :
               cached'[v][k] = IF v = volume /\ k = n THEN x ELSE cached[v][k],
           UNCHANGED <<photo, given, twice, orphan, crossed>>
    PROVE  CacheMatches'
<1> SUFFICES ASSUME NEW v \in Volume, NEW k \in Number
             PROVE  /\ photo[v][k] # Nobodys => k \in given[v]
                    /\ cached'[v][k] # Nobodys => k \in given[v]
                    /\ photo[v][k] # Nobodys /\ cached'[v][k] # Nobodys =>
                           \/ cached'[v][k] = photo[v][k] \/ Excused(v, k) \/ k \in twice[v]
  BY DEF CacheMatches, Excused
<1>1. CASE v = volume /\ k = n
  BY <1>1 DEF CacheMatches
<1>2. CASE ~(v = volume /\ k = n)
  <2>1. cached'[v][k] = cached[v][k]
    BY <1>2
  <2> QED
    BY <2>1 DEF CacheMatches
<1> QED
  BY <1>1, <1>2

LEMMA ViewKeepsAlbum == ASSUME Album, View PROVE Album'
<1>1. AlbumTyped'
  <2>1. \A n \in Number : photo[volume][n] \in Int /\ tile[volume][n] \in Int
    BY AtTyped, JoinedTyped, NumberIn DEF Album, AlbumTyped, Nobodys, CutTile
  <2>2. \A n \in Number, x \in Int : At(cached, n, x) \in [Volume -> [Number -> Int]]
    BY DEF At, Album, AlbumTyped
  <2>3. cached' \in [Volume -> [Number -> Int]]
    BY <2>1, <2>2 DEF View, Held
  <2> QED
    BY <2>3 DEF Album, AlbumTyped, View, files, hand, albumBounds, albumGhosts
<1> USE AlbumAssumption DEF Album, Numbered, Tiled, AlbumTyped, View, Held, At, Joined, files,
            hand, albumBounds, albumGhosts, Number, Nobodys, Volume, CutTile, Factory
<1>2. NameIsFree'
  BY DEF NameIsFree, Naming
<1>3. CounterCovers'
  BY DEF CounterCovers, Remembered, Naming, NameIsNew
<1>4. NameIsNew'
  BY DEF NameIsNew, CounterCovers, Remembered
<1>5. NumbersAreNew'
  BY DEF NumbersAreNew, NameIsNew, Remembered
<1>6. TilesMatch'
  BY DEF TilesMatch, Excused, NameIsFree, Naming
<1>7. CacheMatches'
  <2>1. PICK n \in Held : cached' = At(cached, n, IF tile[volume][n] # Nobodys THEN tile[volume][n]
                                                 ELSE photo[volume][n])
    OBVIOUS
  <2>2. n \in given[volume]
    BY DEF CacheMatches
  <2> DEFINE x == IF tile[volume][n] # Nobodys THEN tile[volume][n] ELSE photo[volume][n]
  <2>3. \A v \in Volume, k \in Number : cached'[v][k] = IF v = volume /\ k = n THEN x ELSE cached[v][k]
    BY <2>1
  <2>4. x = photo[volume][n] \/ Excused(volume, n)
    BY DEF TilesMatch
  <2>5. UNCHANGED <<volume, photo, given, twice, orphan, crossed>>
    OBVIOUS
  <2>6. CacheMatches
    OBVIOUS
  <2> HIDE DEF x, At, Held, Joined, Nobodys, CutTile, Factory, files, hand, albumBounds, albumGhosts
  <2> QED
    BY <2>2, <2>3, <2>4, <2>5, <2>6, SeenMatches
<1> QED
  BY <1>1, <1>2, <1>3, <1>4, <1>5, <1>6, <1>7

LEMMA ForgetKeepsAlbum == ASSUME Album, NEW k \in Number, Forget(k) PROVE Album'
<1>1. AlbumTyped'
  <2>1. \A v \in Volume : [cached[v] EXCEPT ![k] = Nobodys] \in [Number -> Int]
    BY DEF Album, AlbumTyped, Nobodys
  <2>2. cached' \in [Volume -> [Number -> Int]]
    BY <2>1 DEF Forget
  <2> QED
    BY <2>2 DEF Album, AlbumTyped, Forget, files, hand, albumBounds, albumGhosts
<1> USE AlbumAssumption DEF Album, Numbered, Tiled, AlbumTyped, Forget, files,
            hand, albumBounds, albumGhosts, Number, Nobodys, Volume, CutTile, Factory
<1>2. NameIsFree'
  BY DEF NameIsFree, Naming
<1>3. CounterCovers'
  BY DEF CounterCovers, Remembered, Naming, NameIsNew
<1>4. NameIsNew'
  BY DEF NameIsNew, CounterCovers, Remembered
<1>5. NumbersAreNew'
  BY DEF NumbersAreNew, NameIsNew, Remembered
<1>6. TilesMatch'
  BY DEF TilesMatch, Excused, NameIsFree, Naming
<1>7. CacheMatches'
  BY DEF CacheMatches, TilesMatch, Excused
<1> QED
  BY <1>1, <1>2, <1>3, <1>4, <1>5, <1>6, <1>7

LEMMA CardMovesKeepsAlbum == ASSUME Album, CardMoves PROVE Album'
<1>1. AlbumTyped'
  <2>1. number \in Number => \A v \in Volume : [crossed EXCEPT ![v] = @ \cup {number}] \in [Volume -> SUBSET Number]
    BY AtTyped, JoinedTyped, NumberIn DEF Album, AlbumTyped, Nobodys, CutTile
  <2> QED
    BY <2>1, NumberIn
       DEF Album, AlbumTyped, CardMoves, Accident, Nobodys, files, hand, albumBounds, albumGhosts
<1> USE AlbumAssumption DEF Album, Numbered, Tiled, AlbumTyped, CardMoves, Accident, Locked, At, Joined, files,
            hand, albumBounds, albumGhosts, Number, Nobodys, Volume, CutTile, Factory
<1>2. NameIsFree'
  BY DEF NameIsFree, Naming
<1>3. CounterCovers'
  BY DEF CounterCovers, Remembered, Naming, NameIsNew
<1>4. NameIsNew'
  BY DEF NameIsNew, CounterCovers, Remembered
<1>5. NumbersAreNew'
  BY DEF NumbersAreNew, NameIsNew, Remembered
<1>6. TilesMatch'
  BY DEF TilesMatch, Excused, NameIsFree, Naming
<1>7. CacheMatches'
  BY DEF CacheMatches, TilesMatch, Excused
<1> QED
  BY <1>1, <1>2, <1>3, <1>4, <1>5, <1>6, <1>7

LEMMA AlbumPowerCutKeepsAlbum == ASSUME Album, AlbumPowerCut PROVE Album'
<1>1. AlbumTyped'
  <2>1. Joined(forgot, given[volume]) \in [Volume -> SUBSET Number]
    BY AtTyped, JoinedTyped, NumberIn DEF Album, AlbumTyped, Nobodys, CutTile
  <2>2. number \in Number => Joined(orphan, {number}) \in [Volume -> SUBSET Number]
    BY JoinedTyped DEF Album, AlbumTyped
  <2>3. forgot' \in [Volume -> SUBSET Number]
    BY <2>1 DEF Album, AlbumTyped, AlbumPowerCut
  <2>4. orphan' \in [Volume -> SUBSET Number]
    BY <2>2 DEF Album, AlbumTyped, AlbumPowerCut
  <2>5. number' \in 0..LastNumber /\ worker' = "idle" /\ sent' \in Nat /\ made' \in Nat
    BY NumberIn DEF AlbumPowerCut, Rest, Nobodys
  <2> QED
    BY <2>3, <2>4, <2>5 DEF Album, AlbumTyped, AlbumPowerCut, files
<1> USE AlbumAssumption DEF Album, Numbered, Tiled, AlbumTyped, AlbumPowerCut, Accident, Rest, At, Joined, files,
            hand, albumBounds, albumGhosts, Number, Nobodys, Volume, CutTile, Factory
<1>2. NameIsFree'
  BY DEF NameIsFree, Naming
<1>3. CounterCovers'
  BY DEF CounterCovers, Remembered, Naming, NameIsNew
<1>4. NameIsNew'
  BY DEF NameIsNew, CounterCovers, Remembered
<1>5. NumbersAreNew'
  BY DEF NumbersAreNew, NameIsNew, Remembered
<1>6. TilesMatch'
  BY DEF TilesMatch, Excused, NameIsFree, Naming
<1>7. CacheMatches'
  BY DEF CacheMatches, TilesMatch, Excused
<1> QED
  BY <1>1, <1>2, <1>3, <1>4, <1>5, <1>6, <1>7

LEMMA AlbumNextTrue == Album /\ [AlbumNext]_albumVars => Album'
<1>1. ASSUME Album, UNCHANGED albumVars PROVE Album'
  BY <1>1 DEF albumVars, files, hand, albumBounds, albumGhosts, Album, AlbumTyped, Numbered, Tiled,
              NameIsFree, Naming, CounterCovers, Remembered, NameIsNew, NumbersAreNew,
              TilesMatch, Excused, CacheMatches
<1> QED
  BY <1>1, UploadKeepsAlbum, OpenCounterKeepsAlbum, KeepCounterKeepsAlbum, NamePhotoKeepsAlbum,
     MakeTileKeepsAlbum, OpenTileKeepsAlbum, KeepTileKeepsAlbum, DeleteKeepsAlbum,
     DeleteEndsKeepsAlbum, ViewKeepsAlbum, ForgetKeepsAlbum, CardMovesKeepsAlbum, AlbumPowerCutKeepsAlbum
     DEF AlbumNext

\* No name is given twice and no tile shown for another photograph's, however uploads, deletions,
\* changes of the card and losses of power follow one another, but for the cases named.
THEOREM AlbumStaysTrue == AlbumSpec => []AlbumIsTrue
<1>1. ASSUME Album PROVE TilesAreTrue
  <2>1. SUFFICES ASSUME NEW v \in Volume, NEW n \in Number, photo[v][n] # Nobodys
                 PROVE  /\ worker \notin {"tile"} \/ n # number => TrueTile(v, n, tile[v][n])
                        /\ TrueTile(v, n, cached[v][n]) \/ n \in twice[v]
    BY DEF TilesAreTrue
  <2>2. worker \notin {"tile"} \/ n # number => TrueTile(v, n, tile[v][n])
    BY <1>1, <2>1 DEF Album, Tiled, TilesMatch, Excused, TrueTile
  <2>3. TrueTile(v, n, cached[v][n]) \/ n \in twice[v]
    BY <1>1, <2>1 DEF Album, Tiled, CacheMatches, Excused, TrueTile
  <2> QED
    BY <2>2, <2>3
<1>2. Album => AlbumIsTrue
  BY <1>1 DEF Album, Numbered, AlbumIsTrue
<1> QED
  BY <1>2, AlbumInitTrue, AlbumNextTrue, PTL DEF AlbumSpec

=============================================================================
