----------------------------- MODULE WireProofs -----------------------------
(***************************************************************************)
(* Theorems of Wire for words of any width, messages of any size and any   *)
(* bytes.                                                                  *)
(***************************************************************************)
EXTENDS Wire, WellFoundedInduction, TLAPS

-----------------------------------------------------------------------------
(* Induction.  The principles are stated with sets, not with predicates,   *)
(* and so can be applied by every prover.                                  *)

\* Less-than on the natural numbers is well-founded.
LEMMA NaturalOrder ==
  \E R : IsWellFoundedOn(R, Nat) /\ R = {p \in Nat \X Nat : p[1] < p[2]}
<1>1. IsWellFoundedOn(OpToRel(<, Nat), Nat) BY NatLessThanWellFounded
<1>2. OpToRel(<, Nat) = {p \in Nat \X Nat : p[1] < p[2]} BY DEF OpToRel
<1> QED BY <1>1, <1>2, Zenon

\* A set of natural numbers has a least element.
LEMMA LeastNatural ==
  ASSUME NEW T \in SUBSET Nat, T # {}
  PROVE  \E x \in T : \A y \in T : x <= y
<1>1. PICK R : IsWellFoundedOn(R, Nat) /\ R = {p \in Nat \X Nat : p[1] < p[2]}
  BY NaturalOrder, Zenon
<1>2. PICK x \in T : \A y \in T : <<y, x>> \notin R BY <1>1, WFMin, Zenon
<1>3. ASSUME NEW y \in T PROVE x <= y
  <2>1. ~ (y < x) BY <1>1, <1>2
  <2> QED BY <2>1
<1> QED BY <1>3

\* A set that holds 0 and with every n also n + 1 holds the natural numbers.
LEMMA SetInduction ==
  ASSUME NEW S, 0 \in S, \A n \in Nat : n \in S => n + 1 \in S
  PROVE  \A n \in Nat : n \in S
<1> SUFFICES ASSUME NEW n \in Nat, n \notin S PROVE FALSE OBVIOUS
<1> DEFINE T == {m \in Nat : m \notin S}
<1>1. PICK m \in T : \A k \in T : m <= k
  <2>1. T \in SUBSET Nat /\ n \in T OBVIOUS
  <2> HIDE DEF T
  <2> QED BY <2>1, LeastNatural
<1>2. m # 0 /\ m - 1 \in Nat BY <1>1
<1>3. m - 1 \in S BY <1>1, <1>2
<1> QED BY <1>1, <1>2, <1>3

\* f begins with a and goes on by step.
Recurses(f, A, a, step) ==
  f \in [Nat -> A] /\ f[0] = a /\ \A n \in Nat : f[n + 1] = step[<<f[n], n>>]

\* A function may be defined by its first value and by what follows from each value.
LEMMA SetRecursion ==
  ASSUME NEW A, NEW a \in A, NEW step \in [A \X Nat -> A]
  PROVE  \E f : Recurses(f, A, a, step)
<1> DEFINE Is(n, g) == /\ g \in [0..n -> A] /\ g[0] = a
                       /\ \A k \in 0..(n - 1) : g[k + 1] = step[<<g[k], k>>]
           S == {n \in Nat : \E g : Is(n, g)}
           U == {n \in Nat : \A g, h : \A m \in Nat :
                   n <= m /\ Is(n, g) /\ Is(m, h) => g[n] = h[n]}
<1>1. 0 \in S
  <2>1. Is(0, [k \in 0..0 |-> a]) OBVIOUS
  <2> QED BY <2>1
<1>2. ASSUME NEW n \in Nat, n \in S PROVE n + 1 \in S
  <2>1. PICK g : Is(n, g) BY <1>2
  <2> DEFINE h == [k \in 0..(n + 1) |-> IF k = n + 1 THEN step[<<g[n], n>>] ELSE g[k]]
  <2>2. Is(n + 1, h)
    <3>1. g[n] \in A /\ step[<<g[n], n>>] \in A BY <2>1
    <3>2. h \in [0..(n + 1) -> A] BY <2>1, <3>1
    <3>3. h[0] = a BY <2>1
    <3>4. ASSUME NEW k \in 0..n PROVE h[k + 1] = step[<<h[k], k>>]
      <4>1. CASE k = n
        <5>1. h[n + 1] = step[<<g[n], n>>] /\ h[n] = g[n] OBVIOUS
        <5> HIDE DEF h
        <5> QED BY <4>1, <5>1
      <4>2. CASE k # n BY <2>1, <4>2
      <4> QED BY <4>1, <4>2
    <3> HIDE DEF h
    <3> QED BY <3>2, <3>3, <3>4
  <2> HIDE DEF h, Is
  <2>3. \E k : Is(n + 1, k) BY <2>2
  <2> QED BY <2>3
<1>3. \A n \in Nat : n \in S
  <2> HIDE DEF S
  <2> QED BY <1>1, <1>2, SetInduction
<1>4. 0 \in U OBVIOUS
<1>5. ASSUME NEW n \in Nat, n \in U PROVE n + 1 \in U
  <2> SUFFICES ASSUME NEW g, NEW h, NEW m \in Nat, n + 1 <= m, Is(n + 1, g), Is(m, h)
               PROVE  g[n + 1] = h[n + 1]
    OBVIOUS
  <2> DEFINE gn == [k \in 0..n |-> g[k]]
  <2>1. Is(n, gn) OBVIOUS
  <2>2. gn[n] = g[n] OBVIOUS
  <2>3. n <= m OBVIOUS
  <2> HIDE DEF gn
  <2>4. g[n] = h[n] BY <1>5, <2>1, <2>2, <2>3
  <2>5. g[n + 1] = step[<<g[n], n>>] /\ h[n + 1] = step[<<h[n], n>>] OBVIOUS
  <2> QED BY <2>4, <2>5
<1>6. \A n \in Nat : n \in U
  <2> HIDE DEF U
  <2> QED BY <1>4, <1>5, SetInduction
<1> DEFINE F == [n \in Nat |-> CHOOSE g : Is(n, g)]
           f == [n \in Nat |-> F[n][n]]
<1>7. \A n \in Nat : Is(n, F[n])
  <2> SUFFICES ASSUME NEW n \in Nat PROVE Is(n, F[n]) OBVIOUS
  <2>1. \E g : Is(n, g) BY <1>3
  <2>2. F[n] = CHOOSE g : Is(n, g) OBVIOUS
  <2> HIDE DEF Is, F
  <2> QED BY <2>1, <2>2
<1> HIDE DEF F
<1>8. f \in [Nat -> A] /\ f[0] = a BY <1>7
<1>9. ASSUME NEW n \in Nat PROVE f[n + 1] = step[<<f[n], n>>]
  <2>1. Is(n, F[n]) /\ Is(n + 1, F[n + 1]) BY <1>7
  <2>2. F[n][n] = F[n + 1][n]
    <3>1. n \in U BY <1>6
    <3>2. n <= n + 1 /\ n + 1 \in Nat OBVIOUS
    <3> HIDE DEF Is
    <3> QED BY <2>1, <3>1, <3>2
  <2>3. F[n + 1][n + 1] = step[<<F[n + 1][n], n>>] BY <2>1
  <2> QED BY <2>2, <2>3
<1> QED
  <2> HIDE DEF f
  <2>1. Recurses(f, A, a, step) BY <1>8, <1>9 DEF Recurses
  <2> QED BY <2>1

-----------------------------------------------------------------------------
(* Powers of two, and sums and concatenations along a sequence.            *)

\* A word is a whole number of groups but one bit.
LEMMA GroupsTyped ==
  /\ WordBits \in Nat /\ 8 <= WordBits /\ HalfBits \in 6..WordBits
  /\ Groups \in Nat /\ 2 <= Groups /\ 7 * Groups = WordBits + 6
<1>1. WordBits \in Nat /\ WordBits > 1 /\ WordBits % 7 = 1 /\ HalfBits \in 6..WordBits
  BY WidthAssumption
<1>2. WordBits >= 8 BY <1>1
<1>3. (WordBits + 6) % 7 = 0 BY <1>1
<1> QED BY <1>1, <1>2, <1>3 DEF Groups

\* The powers of two follow from one another.
LEMMA PowersEquation ==
  Pow2 = [n \in 0..(7 * Groups) |-> IF n = 0 THEN 1 ELSE 2 * Pow2[n - 1]]
<1> DEFINE Eq(g) == g = [n \in 0..(7 * Groups) |-> IF n = 0 THEN 1 ELSE 2 * g[n - 1]]
<1>1. PICK f \in [Nat -> Nat] : f[0] = 1 /\ \A n \in Nat : f[n + 1] = 2 * f[n]
  <2> DEFINE step == [p \in Nat \X Nat |-> 2 * p[1]]
  <2>1. step \in [Nat \X Nat -> Nat] OBVIOUS
  <2>2. \A a, n \in Nat : step[<<a, n>>] = 2 * a OBVIOUS
  <2>3. 1 \in Nat OBVIOUS
  <2> HIDE DEF step
  <2>4. PICK f : Recurses(f, Nat, 1, step) BY <2>1, <2>3, SetRecursion, Zenon
  <2>5. f \in [Nat -> Nat] /\ f[0] = 1 BY <2>4 DEF Recurses
  <2>6. ASSUME NEW n \in Nat PROVE f[n + 1] = 2 * f[n] BY <2>2, <2>4, <2>5 DEF Recurses
  <2> QED BY <2>5, <2>6
<1> DEFINE g == [n \in 0..(7 * Groups) |-> f[n]]
<1>2. Eq(g)
  <2>1. ASSUME NEW n \in 0..(7 * Groups), n # 0 PROVE f[n] = 2 * f[n - 1]
    <3>1. n - 1 \in Nat /\ n = (n - 1) + 1 BY <2>1, GroupsTyped
    <3> QED BY <1>1, <3>1
  <2>2. ASSUME NEW n \in 0..(7 * Groups), n # 0 PROVE g[n - 1] = f[n - 1]
    BY <2>2, GroupsTyped
  <2> QED BY <1>1, <2>1, <2>2
<1>3. \E h : Eq(h) BY <1>2
<1>4. Pow2 = CHOOSE h : Eq(h) BY DEF Pow2
<1>5. Eq(Pow2)
  <2> HIDE DEF Eq
  <2> QED BY <1>3, <1>4
<1> QED BY <1>5

LEMMA Powers ==
  /\ Pow2[0] = 1
  /\ \A n \in 0..(7 * Groups) : Pow2[n] \in Nat /\ Pow2[n] > 0
  /\ \A n \in Nat : n < 7 * Groups => Pow2[n + 1] = 2 * Pow2[n]
<1>0. 7 * Groups \in Nat BY GroupsTyped
<1>1. Pow2[0] = 1 BY <1>0, PowersEquation
<1>2. ASSUME NEW n \in Nat, n < 7 * Groups PROVE Pow2[n + 1] = 2 * Pow2[n]
  <2>1. n + 1 \in 0..(7 * Groups) /\ n + 1 # 0 /\ (n + 1) - 1 = n BY <1>0, <1>2
  <2> QED BY <2>1, PowersEquation
<1> DEFINE S == {n \in Nat : n <= 7 * Groups => Pow2[n] \in Nat /\ Pow2[n] > 0}
<1>3. 0 \in S BY <1>1
<1>4. ASSUME NEW n \in Nat, n \in S PROVE n + 1 \in S
  BY <1>0, <1>2, <1>4
<1>5. \A n \in Nat : n \in S
  <2> HIDE DEF S
  <2> QED BY <1>3, <1>4, SetInduction
<1> QED BY <1>0, <1>1, <1>2, <1>5

\* They grow.
LEMMA PowersGrow ==
  ASSUME NEW i \in 0..(7 * Groups), NEW j \in 0..(7 * Groups), i <= j
  PROVE  Pow2[i] <= Pow2[j]
<1> DEFINE S == {n \in Nat : i + n <= 7 * Groups => Pow2[i] <= Pow2[i + n]}
<1>0. 7 * Groups \in Nat BY GroupsTyped
<1>1. 0 \in S BY <1>0, Powers
<1>2. ASSUME NEW n \in Nat, n \in S PROVE n + 1 \in S
  <2> SUFFICES ASSUME i + (n + 1) <= 7 * Groups PROVE Pow2[i] <= Pow2[i + (n + 1)]
    OBVIOUS
  <2>1. i + n \in 0..(7 * Groups) /\ i + n < 7 * Groups /\ i + (n + 1) = (i + n) + 1
    BY <1>0
  <2>2. Pow2[i + (n + 1)] = 2 * Pow2[i + n] /\ Pow2[i + n] \in Nat /\ Pow2[i] \in Nat
    BY <1>0, <2>1, Powers
  <2>3. Pow2[i] <= Pow2[i + n] BY <1>2, <2>1
  <2> QED BY <2>2, <2>3
<1>3. \A n \in Nat : n \in S
  <2> HIDE DEF S
  <2> QED BY <1>1, <1>2, SetInduction
<1>4. j - i \in Nat /\ i + (j - i) = j BY <1>0
<1> QED BY <1>0, <1>3, <1>4

\* The partial sums of a sequence of integers.
LEMMA TotalPartial ==
  ASSUME NEW k \in Nat, NEW s \in [1..k -> Int]
  PROVE  \E f : /\ f \in [0..k -> Int] /\ f[0] = 0 /\ Total(s) = f[k]
                /\ \A i \in 1..k : f[i] = f[i - 1] + s[i]
<1> DEFINE Eq(g) == g = [i \in 0..Len(s) |-> IF i = 0 THEN 0 ELSE g[i - 1] + s[i]]
<1>0. s \in Seq(Int) /\ Len(s) = k OBVIOUS
<1>1. PICK f \in [Nat -> Int] :
        f[0] = 0 /\ \A n \in Nat : n < k => f[n + 1] = f[n] + s[n + 1]
  <2> DEFINE step == [p \in Int \X Nat |-> IF p[2] < k THEN p[1] + s[p[2] + 1] ELSE 0]
  <2>1. step \in [Int \X Nat -> Int] OBVIOUS
  <2>2. \A a \in Int, n \in Nat : n < k => step[<<a, n>>] = a + s[n + 1] OBVIOUS
  <2>3. 0 \in Int OBVIOUS
  <2> HIDE DEF step
  <2>4. PICK f : Recurses(f, Int, 0, step) BY <2>1, <2>3, SetRecursion, Zenon
  <2>5. f \in [Nat -> Int] /\ f[0] = 0 BY <2>4 DEF Recurses
  <2>6. ASSUME NEW n \in Nat, n < k PROVE f[n + 1] = f[n] + s[n + 1]
    BY <2>2, <2>4, <2>5, <2>6 DEF Recurses
  <2> QED BY <2>5, <2>6
<1> DEFINE g == [i \in 0..k |-> f[i]]
<1>2. ASSUME NEW i \in 1..k PROVE g[i] = g[i - 1] + s[i]
  <2>1. i - 1 \in Nat /\ i - 1 < k /\ i = (i - 1) + 1 OBVIOUS
  <2>2. f[i] = f[i - 1] + s[i] BY <1>1, <2>1
  <2> QED BY <2>2
<1>3. g \in [0..k -> Int] /\ g[0] = 0 BY <1>1
<1>4. Eq(g)
  <2> HIDE DEF g
  <2> QED BY <1>0, <1>2, <1>3
<1>5. \E h : Eq(h) BY <1>4, Zenon
<1>6. PICK h : h = (CHOOSE e : Eq(e)) /\ Total(s) = h[Len(s)] BY DEF Total
<1>7. Eq(h)
  <2> HIDE DEF Eq
  <2> QED BY <1>5, <1>6
<1> HIDE DEF g
<1>8. h[0] = 0 /\ \A i \in 1..k : h[i] = h[i - 1] + s[i] BY <1>0, <1>7
<1> DEFINE S == {i \in Nat : i <= k => h[i] \in Int}
<1>9. \A i \in Nat : i \in S
  <2>1. 0 \in S BY <1>8
  <2>2. ASSUME NEW i \in Nat, i \in S PROVE i + 1 \in S
    <3>1. i + 1 <= k => i + 1 \in 1..k /\ (i + 1) - 1 = i OBVIOUS
    <3> QED BY <1>8, <2>2, <3>1
  <2> HIDE DEF S
  <2> QED BY <2>1, <2>2, SetInduction
<1>10. h \in [0..k -> Int]
  <2> DEFINE e(i) == IF i = 0 THEN 0 ELSE h[i - 1] + s[i]
  <2>1. ASSUME NEW i \in 0..k PROVE e(i) \in Int
    <3>1. i # 0 => i - 1 \in Nat /\ i - 1 <= k BY <2>1
    <3> QED BY <1>9, <3>1
  <2>2. h = [i \in 0..k |-> e(i)] BY <1>0, <1>7
  <2> HIDE DEF e
  <2> QED BY <2>1, <2>2
<1> QED BY <1>0, <1>6, <1>8, <1>10

\* The sum of natural numbers is one.
LEMMA TotalNatural ==
  ASSUME NEW k \in Nat, NEW s \in [1..k -> Nat]
  PROVE  Total(s) \in Nat
<1>1. PICK f : /\ f \in [0..k -> Int] /\ f[0] = 0 /\ Total(s) = f[k]
               /\ \A i \in 1..k : f[i] = f[i - 1] + s[i]
  <2>1. s \in [1..k -> Int] OBVIOUS
  <2> QED BY <2>1, TotalPartial
<1> DEFINE S == {i \in Nat : i <= k => f[i] \in Nat}
<1>2. 0 \in S BY <1>1
<1>3. ASSUME NEW i \in Nat, i \in S PROVE i + 1 \in S
  <2>1. i + 1 <= k => i + 1 \in 1..k /\ (i + 1) - 1 = i OBVIOUS
  <2> QED BY <1>1, <1>3, <2>1
<1>4. \A i \in Nat : i \in S
  <2> HIDE DEF S
  <2> QED BY <1>2, <1>3, SetInduction
<1> QED BY <1>1, <1>4

\* The partial concatenations of a sequence of sequences.
Concatenates(f, A, k, s) ==
  /\ f \in [1..k -> Seq(A)] /\ f[1] = s[1] /\ FlattenSeq(s) = f[k]
  /\ \A i \in 2..k : f[i] = f[i - 1] \o s[i]

LEMMA FlattenPartial ==
  ASSUME NEW A, NEW k \in Nat, k > 0, NEW s \in [1..k -> Seq(A)]
  PROVE  \E f : Concatenates(f, A, k, s)
<1> DEFINE Eq(g) == g = [i \in 1..Len(s) |-> IF i = 1 THEN s[i] ELSE g[i - 1] \o s[i]]
<1>0. s \in Seq(Seq(A)) /\ Len(s) = k OBVIOUS
<1>1. PICK f \in [Nat -> Seq(A)] :
        f[0] = s[1] /\ \A n \in Nat : n + 2 <= k => f[n + 1] = f[n] \o s[n + 2]
  <2> DEFINE B == Seq(A)
             step == [p \in B \X Nat |-> IF p[2] + 2 <= k THEN p[1] \o s[p[2] + 2] ELSE s[1]]
  <2>1. step \in [B \X Nat -> B] OBVIOUS
  <2>2. \A a \in B, n \in Nat : n + 2 <= k => step[<<a, n>>] = a \o s[n + 2] OBVIOUS
  <2>3. s[1] \in B OBVIOUS
  <2> HIDE DEF step, B
  <2>4. PICK f : Recurses(f, B, s[1], step) BY <2>1, <2>3, SetRecursion, Zenon
  <2>5. f \in [Nat -> B] /\ f[0] = s[1] BY <2>4 DEF Recurses
  <2>6. ASSUME NEW n \in Nat, n + 2 <= k PROVE f[n + 1] = f[n] \o s[n + 2]
    BY <2>2, <2>4, <2>5, <2>6 DEF Recurses
  <2>7. f \in [Nat -> Seq(A)] BY <2>5 DEF B
  <2> QED BY <2>5, <2>6, <2>7
<1> DEFINE g == [i \in 1..k |-> f[i - 1]]
<1>2. ASSUME NEW i \in 2..k PROVE g[i] = g[i - 1] \o s[i]
  <2>1. i - 2 \in Nat /\ (i - 2) + 2 <= k /\ i - 1 = (i - 2) + 1 /\ (i - 2) + 2 = i OBVIOUS
  <2>2. f[i - 1] = f[i - 2] \o s[i] BY <1>1, <2>1
  <2>3. g[i] = f[i - 1] /\ g[i - 1] = f[i - 2]
    <3>1. i \in 1..k /\ i - 1 \in 1..k /\ (i - 1) - 1 = i - 2 OBVIOUS
    <3> QED BY <3>1
  <2> QED BY <2>2, <2>3
<1>3. g \in [1..k -> Seq(A)] /\ g[1] = s[1]
  <2>1. \A i \in 1..k : i - 1 \in Nat OBVIOUS
  <2> QED BY <1>1, <2>1
<1>4. Eq(g)
  <2> HIDE DEF g
  <2>1. ASSUME NEW i \in 1..k PROVE g[i] = IF i = 1 THEN s[i] ELSE g[i - 1] \o s[i]
    <3>1. CASE i = 1 BY <1>3, <3>1
    <3>2. CASE i # 1
      <4>1. i \in 2..k BY <3>2
      <4> QED BY <1>2, <3>2, <4>1, Zenon
    <3> QED BY <3>1, <3>2
  <2> QED BY <1>0, <1>3, <2>1
<1>5. \E h : Eq(h) BY <1>4, Zenon
<1>6. PICK h : h = (CHOOSE e : Eq(e)) /\ FlattenSeq(s) = h[Len(s)]
  <2>1. Len(s) # 0 BY <1>0
  <2> QED BY <2>1, Zenon DEF FlattenSeq
<1>7. Eq(h)
  <2> HIDE DEF Eq
  <2> QED BY <1>5, <1>6
<1> HIDE DEF g
<1>8. h[1] = s[1] /\ \A i \in 2..k : h[i] = h[i - 1] \o s[i]
  <2>1. ASSUME NEW i \in 1..k PROVE h[i] = IF i = 1 THEN s[i] ELSE h[i - 1] \o s[i]
    BY <1>0, <1>7, Zenon
  <2>2. 1 \in 1..k /\ \A i \in 2..k : i \in 1..k /\ i # 1 OBVIOUS
  <2> QED BY <2>1, <2>2, Zenon
<1> DEFINE S == {i \in Nat : i + 1 <= k => h[i + 1] \in Seq(A)}
<1>9. \A i \in Nat : i \in S
  <2>1. 0 \in S BY <1>8
  <2>2. ASSUME NEW i \in Nat, i \in S PROVE i + 1 \in S
    <3> SUFFICES ASSUME (i + 1) + 1 <= k PROVE h[(i + 1) + 1] \in Seq(A) OBVIOUS
    <3>1. (i + 1) + 1 \in 2..k /\ ((i + 1) + 1) - 1 = i + 1 OBVIOUS
    <3>2. h[(i + 1) + 1] = h[i + 1] \o s[(i + 1) + 1] BY <1>8, <3>1
    <3>3. h[i + 1] \in Seq(A) /\ s[(i + 1) + 1] \in Seq(A) BY <2>2
    <3> QED BY <3>2, <3>3
  <2> HIDE DEF S
  <2> QED BY <2>1, <2>2, SetInduction
<1>10. h \in [1..k -> Seq(A)]
  <2>1. ASSUME NEW i \in 1..k PROVE h[i] \in Seq(A)
    <3>1. i - 1 \in Nat /\ (i - 1) + 1 = i /\ i <= k OBVIOUS
    <3>2. i - 1 \in S BY <1>9, <3>1
    <3> QED BY <3>1, <3>2
  <2>2. h = [i \in 1..k |-> h[i]] BY <1>0, <1>7
  <2> QED BY <2>1, <2>2
<1>11. Concatenates(h, A, k, s) BY <1>0, <1>6, <1>8, <1>10 DEF Concatenates
<1> QED BY <1>11

\* A concatenation is as long as its parts together.
LEMMA FlattenLength ==
  ASSUME NEW A, NEW k \in Nat, NEW s \in [1..k -> Seq(A)]
  PROVE  FlattenSeq(s) \in Seq(A) /\ Len(FlattenSeq(s)) = Total([i \in 1..k |-> Len(s[i])])
<1> DEFINE l == [i \in 1..k |-> Len(s[i])]
<1>0. s \in Seq(Seq(A)) /\ Len(s) = k /\ l \in [1..k -> Int]
  /\ \A i \in 1..k : l[i] = Len(s[i]) OBVIOUS
<1> HIDE DEF l
<1>1. PICK t : /\ t \in [0..k -> Int] /\ t[0] = 0 /\ Total(l) = t[k]
               /\ \A i \in 1..k : t[i] = t[i - 1] + l[i]
  BY <1>0, TotalPartial
<1>2. CASE k = 0
  <2>1. s = <<>> /\ FlattenSeq(s) = s BY <1>0, <1>2 DEF FlattenSeq
  <2> QED BY <1>1, <1>2, <2>1 DEF l
<1>3. CASE k > 0
  <2>0. PICK f : Concatenates(f, A, k, s) BY <1>3, FlattenPartial, Zenon
  <2>1. /\ f \in [1..k -> Seq(A)] /\ f[1] = s[1] /\ FlattenSeq(s) = f[k]
        /\ \A i \in 2..k : f[i] = f[i - 1] \o s[i]
    BY <2>0 DEF Concatenates
  <2> DEFINE S == {i \in Nat : i + 1 <= k => Len(f[i + 1]) = t[i + 1]}
  <2>2. 0 \in S
    <3>1. t[1] = t[0] + l[1] BY <1>1, <1>3
    <3>2. l[1] = Len(f[1]) /\ f[1] \in Seq(A) BY <1>0, <1>3, <2>1
    <3> QED BY <1>1, <3>1, <3>2
  <2>3. ASSUME NEW i \in Nat, i \in S PROVE i + 1 \in S
    <3> SUFFICES ASSUME (i + 1) + 1 <= k PROVE Len(f[(i + 1) + 1]) = t[(i + 1) + 1] OBVIOUS
    <3>1. /\ (i + 1) + 1 \in 2..k /\ ((i + 1) + 1) - 1 = i + 1
          /\ (i + 1) + 1 \in 1..k /\ i + 1 \in 1..k OBVIOUS
    <3>2. f[(i + 1) + 1] = f[i + 1] \o s[(i + 1) + 1] BY <2>1, <3>1
    <3>3. t[(i + 1) + 1] = t[i + 1] + Len(s[(i + 1) + 1]) BY <1>0, <1>1, <3>1
    <3>4. f[i + 1] \in Seq(A) /\ s[(i + 1) + 1] \in Seq(A) BY <2>1, <3>1
    <3>5. Len(f[i + 1]) = t[i + 1] BY <2>3, <3>1
    <3>6. Len(f[i + 1] \o s[(i + 1) + 1]) = Len(f[i + 1]) + Len(s[(i + 1) + 1]) BY <3>4
    <3> QED BY <3>2, <3>3, <3>5, <3>6, Zenon
  <2>4. \A i \in Nat : i \in S
    <3> HIDE DEF S
    <3> QED BY <2>2, <2>3, SetInduction
  <2>5. k - 1 \in Nat /\ (k - 1) + 1 = k BY <1>3
  <2>6. Len(f[k]) = t[k]
    <3>1. k - 1 \in S BY <2>4, <2>5
    <3> QED BY <2>5, <3>1
  <2> QED BY <1>1, <1>3, <2>1, <2>6 DEF l
<1> QED BY <1>2, <1>3

-----------------------------------------------------------------------------
(* Words and varints. *)

\* A remainder, and that of a number that is small already.
LEMMA Remainder ==
  ASSUME NEW a \in Int, NEW b \in Nat, b > 0
  PROVE  a % b \in 0..(b - 1)
OBVIOUS

LEMMA SmallRemainder ==
  ASSUME NEW b \in Nat, NEW a \in 0..(b - 1)
  PROVE  a % b = a
OBVIOUS

\* The largest int is below half of a word.
LEMMA WordTyped ==
  /\ MaxInt \in Nat /\ MaxInt >= 127
  /\ Pow2[WordBits] = 2 * (MaxInt + 1) /\ Pow2[WordBits - 1] = MaxInt + 1
  /\ \A n \in Nat : n <= Pow2[WordBits] => n <= Pow2[7 * Groups]
  /\ Pow2[HalfBits] \in Nat /\ Pow2[HalfBits] > 0 /\ Pow2[HalfBits - 1] \in Nat
  /\ Pow2[HalfBits] = 2 * Pow2[HalfBits - 1] /\ Pow2[HalfBits - 1] >= 32
<1>1. /\ WordBits \in 0..(7 * Groups) /\ WordBits - 1 \in 0..(7 * Groups) /\ WordBits - 1 \in Nat
      /\ WordBits - 1 < 7 * Groups /\ (WordBits - 1) + 1 = WordBits /\ 7 * Groups \in 0..(7 * Groups)
      /\ 7 \in 0..(7 * Groups) /\ 7 <= WordBits - 1 /\ WordBits <= 7 * Groups
      /\ HalfBits \in 0..(7 * Groups) /\ HalfBits - 1 \in 0..(7 * Groups) /\ 7 * Groups >= 14
      /\ HalfBits - 1 \in Nat /\ HalfBits - 1 < 7 * Groups /\ (HalfBits - 1) + 1 = HalfBits
      /\ 5 \in 0..(7 * Groups) /\ 5 <= HalfBits - 1
  BY GroupsTyped
<1>2. Pow2[WordBits] = 2 * Pow2[WordBits - 1] /\ Pow2[WordBits - 1] \in Nat /\ Pow2[WordBits - 1] > 0
  BY <1>1, Powers
<1>3. Pow2[7] <= Pow2[WordBits - 1] /\ Pow2[WordBits] <= Pow2[7 * Groups]
  BY <1>1, PowersGrow
<1>4. Pow2[7] = 128 /\ Pow2[5] = 32
  <2>1. \A n \in 0..6 : Pow2[n + 1] = 2 * Pow2[n] BY <1>1, Powers
  <2>2. Pow2[1] = 2 /\ Pow2[2] = 4 BY <2>1, Powers
  <2>3. Pow2[3] = 8 /\ Pow2[4] = 16 BY <2>1, <2>2
  <2>4. Pow2[5] = 32 /\ Pow2[6] = 64 BY <2>1, <2>3
  <2> QED BY <2>1, <2>4
<1>5. Pow2[7 * Groups] \in Nat /\ Pow2[WordBits] \in Nat /\ Pow2[HalfBits] \in Nat /\ Pow2[HalfBits] > 0
      /\ Pow2[HalfBits - 1] \in Nat /\ Pow2[HalfBits] = 2 * Pow2[HalfBits - 1]
  BY <1>1, Powers
<1>6. Pow2[5] <= Pow2[HalfBits - 1] BY <1>1, PowersGrow
<1> QED BY <1>2, <1>3, <1>4, <1>5, <1>6 DEF MaxInt

\* A conversion to int keeps what an int can hold, and makes the rest of a word negative.
LEMMA SignedWord ==
  ASSUME NEW v \in 0..(Pow2[WordBits] - 1)
  PROVE  /\ v <= MaxInt => Signed(v, WordBits) = v
         /\ v > MaxInt => Signed(v, WordBits) \in Int /\ Signed(v, WordBits) < 0
<1> DEFINE P == Pow2[WordBits]
<1>1. P \in Nat /\ v \in 0..(P - 1) BY WordTyped
<1>2. v % P = v
  <2> HIDE DEF P
  <2> QED BY <1>1, SmallRemainder
<1>3. v % Pow2[WordBits] = v BY <1>2
<1> QED BY <1>3, WordTyped DEF Signed

LEMMA SignedHalf ==
  ASSUME NEW v \in Int
  PROVE  /\ Signed(v, HalfBits) \in -Pow2[HalfBits - 1]..(Pow2[HalfBits - 1] - 1)
         /\ v % Pow2[HalfBits] \in 0..(Pow2[HalfBits] - 1)
<1>1. v % Pow2[HalfBits] \in 0..(Pow2[HalfBits] - 1) BY WordTyped, Remainder
<1> QED BY <1>1, WordTyped DEF Signed

\* The length of a varint, and its bytes.
LEMMA SovTyped ==
  ASSUME NEW v \in 0..(Pow2[WordBits] - 1)
  PROVE  Sov(v) \in 1..Groups /\ v < Pow2[7 * Sov(v)] /\ (Sov(v) > 1 => v >= Pow2[7 * (Sov(v) - 1)])
<1> DEFINE T == {n \in Nat : n \in 1..Groups /\ v < Pow2[7 * n]}
<1>1. Groups \in T
  <2>1. v + 1 \in Nat /\ v + 1 <= Pow2[WordBits] BY WordTyped
  <2>2. v + 1 <= Pow2[7 * Groups] BY <2>1, WordTyped
  <2>3. 7 * Groups \in 0..(7 * Groups) BY GroupsTyped
  <2>4. Pow2[7 * Groups] \in Nat BY <2>3, Powers
  <2> QED BY <2>2, <2>4, GroupsTyped
<1>2. PICK n \in T : \A y \in T : n <= y
  <2>1. T \in SUBSET Nat OBVIOUS
  <2> HIDE DEF T
  <2> QED BY <1>1, <2>1, LeastNatural
<1>3. n > 1 => v >= Pow2[7 * (n - 1)]
  <2> SUFFICES ASSUME n > 1, ~ (v >= Pow2[7 * (n - 1)]) PROVE FALSE OBVIOUS
  <2>1. n - 1 \in 1..Groups /\ n - 1 \in Nat /\ 7 * (n - 1) \in 0..(7 * Groups) BY <1>2, GroupsTyped
  <2>2. Pow2[7 * (n - 1)] \in Nat BY <2>1, Powers
  <2>3. v < Pow2[7 * (n - 1)] BY <2>2
  <2>4. n - 1 \in T BY <2>1, <2>3
  <2>5. n <= n - 1 BY <1>2, <2>4
  <2> QED BY <1>2, <2>5
<1>4. \E k \in 1..Groups : v < Pow2[7 * k] /\ (k > 1 => v >= Pow2[7 * (k - 1)])
  BY <1>2, <1>3
<1> QED BY <1>4 DEF Sov

LEMMA EncodeVarintTyped ==
  ASSUME NEW v \in 0..(Pow2[WordBits] - 1)
  PROVE  EncodeVarint(v) \in Seq(Byte) /\ Len(EncodeVarint(v)) = Sov(v) /\ Sov(v) \in Nat
<1>1. Sov(v) \in 1..Groups /\ Sov(v) \in Nat BY SovTyped, GroupsTyped
<1> DEFINE e(i) == ((v \div Pow2[7 * (i - 1)]) % 128) + (IF i < Sov(v) THEN 128 ELSE 0)
<1>2. ASSUME NEW i \in 1..Sov(v) PROVE e(i) \in Byte
  <2>1. 7 * (i - 1) \in 0..(7 * Groups) BY <1>1, GroupsTyped
  <2>2. Pow2[7 * (i - 1)] \in Nat /\ Pow2[7 * (i - 1)] > 0 BY <2>1, Powers
  <2>3. v \div Pow2[7 * (i - 1)] \in Int BY <2>2
  <2>4. (v \div Pow2[7 * (i - 1)]) % 128 \in 0..127 BY <2>3
  <2> QED BY <2>4 DEF Byte
<1>3. EncodeVarint(v) = [i \in 1..Sov(v) |-> e(i)] BY DEF EncodeVarint
<1> HIDE DEF e
<1> QED BY <1>1, <1>2, <1>3

\* A varint that is read ends within the buffer, after where it began.
LEMMA ReadVarintTyped ==
  ASSUME NEW d \in Seq(Byte), NEW i \in Nat
  PROVE  \/ ReadVarint(d, i).err # "none"
         \/ /\ ReadVarint(d, i).err = "none"
            /\ ReadVarint(d, i).next \in Nat /\ i < ReadVarint(d, i).next
            /\ ReadVarint(d, i).next <= Len(d)
            /\ ReadVarint(d, i).val \in 0..(Pow2[WordBits] - 1)
<1> DEFINE ends == {j \in 1..Groups : i + j <= Len(d) /\ d[i + j] < 128}
           n == Min(ends)
<1>1. CASE ends = {} BY <1>1 DEF ReadVarint, Fail
<1>2. CASE ends # {}
  <2>1. n \in ends
    <3>1. ends \in SUBSET Nat BY GroupsTyped
    <3> HIDE DEF ends
    <3>2. \E x \in ends : \A y \in ends : x <= y BY <1>2, <3>1, LeastNatural
    <3> QED BY <3>2 DEF Min
  <2> DEFINE v == GroupsValue(d, i, n)
  <2>2. ReadVarint(d, i) = Read(v, i + n) BY <1>2 DEF ReadVarint
  <2>3. n \in Nat /\ n <= Groups /\ n > 0 /\ i + n <= Len(d) BY <2>1, GroupsTyped
  <2>4. v \in 0..(Pow2[WordBits] - 1)
    <3> DEFINE t == [j \in 1..n |-> (d[i + j] % 128) * Pow2[7 * (j - 1)]]
    <3> HIDE DEF n, ends
    <3>1. ASSUME NEW j \in 1..n PROVE (d[i + j] % 128) * Pow2[7 * (j - 1)] \in Int
      <4>1. 7 * (j - 1) \in 0..(7 * Groups) /\ i + j \in 1..Len(d) BY <2>3, GroupsTyped
      <4>2. Pow2[7 * (j - 1)] \in Int BY <4>1, Powers
      <4>3. d[i + j] \in Byte BY <4>1
      <4>4. d[i + j] % 128 \in Int
        <5>1. \A x \in Byte : x % 128 \in Int BY DEF Byte
        <5> QED BY <4>3, <5>1
      <4> DEFINE a == d[i + j] % 128
                 b == Pow2[7 * (j - 1)]
      <4>5. a \in Int /\ b \in Int BY <4>2, <4>4
      <4> HIDE DEF a, b
      <4>6. a * b \in Int BY <4>5
      <4> QED BY <4>6 DEF a, b
    <3>2. t \in [1..n -> Int] BY <3>1
    <3>3. v = Total(t) % Pow2[WordBits] BY DEF GroupsValue
    <3> HIDE DEF t, v
    <3>4. Total(t) \in Int
      <4>1. PICK f : /\ f \in [0..n -> Int] /\ f[0] = 0 /\ Total(t) = f[n]
                     /\ \A m \in 1..n : f[m] = f[m - 1] + t[m]
        BY <2>3, <3>2, TotalPartial
      <4> QED BY <2>3, <4>1
    <3>5. Pow2[WordBits] \in Nat /\ Pow2[WordBits] > 0 BY WordTyped
    <3> QED BY <3>3, <3>4, <3>5, Remainder
  <2> HIDE DEF n, v, ends
  <2> QED BY <2>2, <2>3, <2>4 DEF Read
<1> QED BY <1>1, <1>2

\* An index that is advanced does not wrap around.
LEMMA AdvanceTyped ==
  ASSUME NEW i \in 0..MaxInt, NEW n \in 0..MaxInt
  PROVE  \/ Advance(i, n).err # "none"
         \/ /\ Advance(i, n).err = "none" /\ i + n <= MaxInt
            /\ Advance(i, n).val = i + n /\ Advance(i, n).next = i + n
<1>1. i + n \in 0..(Pow2[WordBits] - 1) BY WordTyped
<1>2. /\ i + n <= MaxInt => Signed(i + n, WordBits) = i + n
      /\ i + n > MaxInt => Signed(i + n, WordBits) \in Int /\ Signed(i + n, WordBits) < 0
  BY <1>1, SignedWord
<1>3. CASE i + n <= MaxInt BY <1>2, <1>3 DEF Advance, Read
<1>4. CASE i + n > MaxInt
  BY <1>2, <1>4 DEF Advance, Fail
<1> QED BY <1>3, <1>4, WordTyped

\* A length that is read is not negative, and its value ends behind it.
LEMMA ReadLengthTyped ==
  ASSUME NEW d \in Seq(Byte), Len(d) <= MaxInt, NEW i \in Nat
  PROVE  \/ ReadLength(d, i).err # "none"
         \/ /\ ReadLength(d, i).err = "none"
            /\ ReadLength(d, i).next \in Nat /\ i < ReadLength(d, i).next
            /\ ReadLength(d, i).next <= Len(d)
            /\ ReadLength(d, i).val \in 0..MaxInt
            /\ ReadLength(d, i).next <= ReadLength(d, i).val
<1> DEFINE r == ReadVarint(d, i)
           len == Signed(r.val, WordBits)
           post == Advance(r.next, len)
<1>1. CASE r.err # "none" BY <1>1 DEF ReadLength
<1>2. CASE r.err = "none" /\ (len < 0 \/ post.err # "none")
  BY <1>2 DEF ReadLength, Fail
<1>3. CASE r.err = "none" /\ ~ (len < 0) /\ post.err = "none"
  <2>1. ReadLength(d, i) = Read(post.val, r.next) BY <1>3 DEF ReadLength
  <2>2. /\ r.next \in Nat /\ i < r.next /\ r.next <= Len(d)
        /\ r.val \in 0..(Pow2[WordBits] - 1)
    BY <1>3, ReadVarintTyped
  <2> HIDE DEF r
  <2>3. len \in 0..MaxInt
    <3>1. r.val <= MaxInt => Signed(r.val, WordBits) = r.val BY <2>2, SignedWord
    <3>2. r.val > MaxInt => Signed(r.val, WordBits) \in Int /\ Signed(r.val, WordBits) < 0
      BY <2>2, SignedWord
    <3> QED BY <1>3, <2>2, <3>1, <3>2, WordTyped
  <2> HIDE DEF len
  <2>4. post.val = r.next + len /\ r.next + len <= MaxInt
    <3>1. r.next \in 0..MaxInt BY <2>2, WordTyped
    <3> QED BY <1>3, <2>3, <3>1, AdvanceTyped
  <2> HIDE DEF post
  <2>5. MaxInt \in Nat /\ Len(d) \in Nat BY WordTyped
  <2>6. r.next + len \in Nat /\ r.next <= r.next + len /\ r.next + len \in 0..MaxInt
    BY <2>2, <2>3, <2>4, <2>5
  <2> QED BY <2>1, <2>2, <2>4, <2>6 DEF Read
<1> QED BY <1>1, <1>2, <1>3

\* skipTx goes forward.
LEMMA SkipValueTyped ==
  ASSUME NEW d \in Seq(Byte), Len(d) <= MaxInt, NEW i \in Nat, i <= Len(d), NEW wt, NEW k
  PROVE  \/ SkipValue(d, i, wt, k).err # "none"
         \/ /\ SkipValue(d, i, wt, k).err = "none"
            /\ SkipValue(d, i, wt, k).next \in Nat /\ i <= SkipValue(d, i, wt, k).next
            /\ SkipValue(d, i, wt, k).next <= MaxInt
<1>0. i \in 0..MaxInt /\ 8 \in 0..MaxInt /\ 4 \in 0..MaxInt /\ Len(d) \in Nat BY WordTyped
<1>1. CASE wt = 0
  BY <1>0, <1>1, ReadVarintTyped, WordTyped DEF SkipValue
<1>2. CASE wt = 1
  <2>1. SkipValue(d, i, wt, k) = Advance(i, 8) BY <1>2 DEF SkipValue
  <2> QED BY <1>0, <2>1, AdvanceTyped, WordTyped
<1>3. CASE wt = 2
  <2> DEFINE r == ReadLength(d, i)
  <2>1. SkipValue(d, i, wt, k) = (IF r.err # "none" THEN r ELSE Read(r.val, r.val))
    BY <1>3 DEF SkipValue
  <2>2. CASE r.err # "none" BY <2>1, <2>2
  <2>3. CASE r.err = "none"
    <3>1. r.val \in Nat /\ i < r.next /\ r.next <= r.val /\ r.next \in Nat BY <2>3, ReadLengthTyped
    <3>2. r.val <= MaxInt BY <2>3, ReadLengthTyped, WordTyped
    <3> HIDE DEF r
    <3> QED BY <2>1, <2>3, <3>1, <3>2 DEF Read
  <2> QED BY <2>2, <2>3
<1>4. CASE wt = 3 BY <1>0, <1>4, WordTyped DEF SkipValue, Read
<1>5. CASE wt = 4 BY <1>0, <1>5, WordTyped DEF SkipValue, Read, Fail
<1>6. CASE wt = 5
  <2>1. SkipValue(d, i, wt, k) = Advance(i, 4) BY <1>6 DEF SkipValue
  <2> QED BY <1>0, <2>1, AdvanceTyped, WordTyped
<1>7. CASE wt \notin {0, 1, 2, 3, 4, 5} BY <1>7 DEF SkipValue, Fail
<1> QED BY <1>1, <1>2, <1>3, <1>4, <1>5, <1>6, <1>7

LEMMA SkipOnceTyped ==
  ASSUME NEW d \in Seq(Byte), Len(d) <= MaxInt, NEW i \in Nat, NEW k \in Nat
  PROVE  \/ SkipOnce(d, i, k).err # "none"
         \/ /\ SkipOnce(d, i, k).err = "none" /\ SkipOnce(d, i, k).val \in Nat
            /\ SkipOnce(d, i, k).next \in Nat /\ i < SkipOnce(d, i, k).next
            /\ SkipOnce(d, i, k).next <= MaxInt
<1> DEFINE tag == ReadVarint(d, i)
           wt == tag.val % 8
           value == SkipValue(d, tag.next, wt, k)
           left == k + (IF wt = 3 THEN 1 ELSE IF wt = 4 THEN -1 ELSE 0)
<1>1. CASE tag.err # "none" BY <1>1 DEF SkipOnce
<1>2. CASE tag.err = "none" /\ value.err # "none" BY <1>2 DEF SkipOnce
<1>3. CASE tag.err = "none" /\ value.err = "none"
  <2>1. SkipOnce(d, i, k) = Read(left, value.next) BY <1>3 DEF SkipOnce
  <2>2. tag.next \in Nat /\ i < tag.next /\ tag.next <= Len(d) /\ tag.val \in Nat
    <3>1. /\ tag.next \in Nat /\ i < tag.next /\ tag.next <= Len(d)
          /\ tag.val \in 0..(Pow2[WordBits] - 1)
      BY <1>3, ReadVarintTyped
    <3> HIDE DEF tag
    <3> QED BY <3>1, WordTyped
  <2> HIDE DEF tag
  <2>3. value.next \in Nat /\ tag.next <= value.next /\ value.next <= MaxInt
    <3> HIDE DEF wt
    <3> QED BY <1>3, <2>2, SkipValueTyped
  <2>4. left \in Nat
    <3>1. wt \in 0..7 BY <2>2
    <3>2. wt = 4 => k # 0
      <4>1. wt = 4 /\ k = 0 => value = Fail("endgroup") BY DEF SkipValue
      <4> QED BY <1>3, <4>1 DEF Fail
    <3> QED BY <3>1, <3>2
  <2> HIDE DEF value, left
  <2>5. i < value.next BY <2>2, <2>3
  <2> QED BY <2>1, <2>3, <2>4, <2>5 DEF Read
<1> QED BY <1>1, <1>2, <1>3

-----------------------------------------------------------------------------
(* The pieces of an encoding, and the room that Size() gives them.         *)

LEMMA EmbeddedTyped ==
  ASSUME NEW tag \in Seq(Byte), NEW b \in Slices(MaxInt)
  PROVE  /\ Embedded(tag, b) \in Seq(Byte)
         /\ Len(Embedded(tag, b)) = EmbeddedSize(Len(tag), b)
         /\ EmbeddedSize(Len(tag), b) \in Nat
<1>1. b \in Seq(Byte) /\ Len(b) \in 0..(Pow2[WordBits] - 1) BY WordTyped DEF Slices
<1>2. /\ EncodeVarint(Len(b)) \in Seq(Byte) /\ Len(EncodeVarint(Len(b))) = Sov(Len(b))
      /\ Sov(Len(b)) \in Nat
  BY <1>1, EncodeVarintTyped
<1> QED BY <1>1, <1>2 DEF Embedded, EmbeddedSize

LEMMA BytesTyped ==
  ASSUME NEW tag \in Seq(Byte), NEW b \in Slices(MaxInt)
  PROVE  /\ Bytes(tag, b) \in Seq(Byte)
         /\ Len(Bytes(tag, b)) = BytesSize(Len(tag), b)
         /\ BytesSize(Len(tag), b) \in Nat
<1>1. CASE b = <<>> BY <1>1 DEF Bytes, BytesSize
<1>2. CASE b # <<>>
  <2>1. Bytes(tag, b) = Embedded(tag, b) /\ BytesSize(Len(tag), b) = EmbeddedSize(Len(tag), b)
    BY <1>2 DEF Bytes, BytesSize
  <2> QED BY <2>1, EmbeddedTyped
<1> QED BY <1>1, <1>2

LEMMA PointerTyped ==
  ASSUME NEW tag \in Seq(Byte), NEW p \in Seq(Slices(MaxInt)), Len(p) <= 1
  PROVE  /\ Pointer(tag, p) \in Seq(Byte)
         /\ Len(Pointer(tag, p)) = PointerSize(Len(tag), p)
         /\ PointerSize(Len(tag), p) \in Nat
<1>1. CASE p = <<>> BY <1>1 DEF Pointer, PointerSize
<1>2. CASE p # <<>>
  <2>1. Pointer(tag, p) = Embedded(tag, p[1]) /\ PointerSize(Len(tag), p) = EmbeddedSize(Len(tag), p[1])
    BY <1>2 DEF Pointer, PointerSize
  <2>2. p[1] \in Slices(MaxInt) BY <1>2
  <2> QED BY <2>1, <2>2, EmbeddedTyped
<1> QED BY <1>1, <1>2

LEMMA RepeatedTyped ==
  ASSUME NEW tag \in Seq(Byte), NEW s \in Seq(Slices(MaxInt))
  PROVE  /\ Repeated(tag, s) \in Seq(Byte)
         /\ Len(Repeated(tag, s)) = RepeatedSize(Len(tag), s)
         /\ RepeatedSize(Len(tag), s) \in Nat
<1> DEFINE k == Len(s)
           e == [i \in 1..k |-> Embedded(tag, s[i])]
           l == [i \in 1..k |-> EmbeddedSize(Len(tag), s[i])]
<1>1. k \in Nat /\ DOMAIN s = 1..k OBVIOUS
<1>2. ASSUME NEW i \in 1..k
      PROVE  /\ Embedded(tag, s[i]) \in Seq(Byte)
             /\ Len(Embedded(tag, s[i])) = EmbeddedSize(Len(tag), s[i])
             /\ EmbeddedSize(Len(tag), s[i]) \in Nat
  <2>1. s[i] \in Slices(MaxInt) OBVIOUS
  <2> QED BY <2>1, EmbeddedTyped
<1>3. e \in [1..k -> Seq(Byte)] /\ l \in [1..k -> Nat] BY <1>2
<1>4. [i \in 1..k |-> Len(e[i])] = l
  <2>1. \A i \in 1..k : Len(e[i]) = EmbeddedSize(Len(tag), s[i]) BY <1>2
  <2> QED BY <2>1
<1>5. Repeated(tag, s) = FlattenSeq(e) /\ RepeatedSize(Len(tag), s) = Total(l)
  BY <1>1 DEF Repeated, RepeatedSize
<1> HIDE DEF e, l, k
<1>6. FlattenSeq(e) \in Seq(Byte) /\ Len(FlattenSeq(e)) = Total([i \in 1..k |-> Len(e[i])])
  BY <1>1, <1>3, FlattenLength
<1>7. Total(l) \in Nat BY <1>1, <1>3, TotalNatural
<1> QED BY <1>4, <1>5, <1>6, <1>7

LEMMA VarintTyped ==
  ASSUME NEW tag \in Seq(Byte), NEW v \in Int
  PROVE  /\ Varint(tag, v) \in Seq(Byte)
         /\ Len(Varint(tag, v)) = VarintSize(Len(tag), v)
         /\ VarintSize(Len(tag), v) \in Nat
<1> DEFINE u == v % Pow2[WordBits]
<1>1. u \in 0..(Pow2[WordBits] - 1)
  <2>1. Pow2[WordBits] \in Nat /\ Pow2[WordBits] > 0 BY WordTyped
  <2> QED BY <2>1, Remainder
<1>2. /\ Varint(tag, v) = (IF v = 0 THEN <<>> ELSE tag \o EncodeVarint(u))
      /\ VarintSize(Len(tag), v) = (IF v = 0 THEN 0 ELSE Len(tag) + Sov(u))
  BY DEF Varint, VarintSize
<1> HIDE DEF u
<1>3. EncodeVarint(u) \in Seq(Byte) /\ Len(EncodeVarint(u)) = Sov(u) /\ Sov(u) \in Nat
  BY <1>1, EncodeVarintTyped
<1>4. CASE v = 0 BY <1>2, <1>4
<1>5. CASE v # 0
  <2>1. Varint(tag, v) = tag \o EncodeVarint(u) /\ VarintSize(Len(tag), v) = Len(tag) + Sov(u)
    BY <1>2, <1>5, Zenon
  <2>2. tag \o EncodeVarint(u) \in Seq(Byte) BY <1>3
  <2>3. Len(tag \o EncodeVarint(u)) = Len(tag) + Sov(u) /\ Len(tag) + Sov(u) \in Nat BY <1>3
  <2> QED BY <2>1, <2>2, <2>3, Zenon
<1> QED BY <1>4, <1>5

\* A piece of n bytes.
Piece(b, n) == b \in Seq(Byte) /\ Len(b) = n /\ n \in Nat

LEMMA Join ==
  ASSUME NEW a, NEW b, NEW i, NEW j, Piece(a, i), Piece(b, j)
  PROVE  Piece(a \o b, i + j)
BY DEF Piece

\* The piece that a field with the value v becomes, by the type of the field; only strings
\* have tags of two bytes.
AsPiece(type, v, c, e) ==
  /\ type \in {"string", "bytes"} =>
        /\ Piece(Bytes(<<c>>, v), BytesSize(1, v))
        /\ Piece(Bytes(<<c, e>>, v), BytesSize(2, v))
  /\ type = "message" => Piece(Embedded(<<c>>, v), EmbeddedSize(1, v))
  /\ type = "pointer" => Piece(Pointer(<<c>>, v), PointerSize(1, v))
  /\ type = "repeated" => Piece(Repeated(<<c>>, v), RepeatedSize(1, v))
  /\ type \in {"int32", "uint32"} => Piece(Varint(<<c>>, v), VarintSize(1, v))

LEMMA FieldPieces ==
  ASSUME NEW t \in DOMAIN Structs, NEW m, IsMessage(t, m, MaxInt),
         NEW f \in DOMAIN Structs[t], NEW c \in Byte, NEW e \in Byte
  PROVE  AsPiece(Structs[t][f], m[f], c, e)
<1>1. <<c>> \in Seq(Byte) /\ Len(<<c>>) = 1 /\ <<c, e>> \in Seq(Byte) /\ Len(<<c, e>>) = 2
  OBVIOUS
<1>2. m[f] \in FieldValues(Structs[t][f], MaxInt) BY DEF IsMessage
<1>3. ASSUME Structs[t][f] \in {"string", "bytes"}
      PROVE  /\ Piece(Bytes(<<c>>, m[f]), BytesSize(1, m[f]))
             /\ Piece(Bytes(<<c, e>>, m[f]), BytesSize(2, m[f]))
  <2>1. m[f] \in Slices(MaxInt) BY <1>2, <1>3 DEF FieldValues
  <2>2. Piece(Bytes(<<c>>, m[f]), BytesSize(Len(<<c>>), m[f])) BY <1>1, <2>1, BytesTyped DEF Piece
  <2>3. Piece(Bytes(<<c, e>>, m[f]), BytesSize(Len(<<c, e>>), m[f]))
    BY <1>1, <2>1, BytesTyped DEF Piece
  <2> QED BY <1>1, <2>2, <2>3
<1>4. ASSUME Structs[t][f] = "message" PROVE Piece(Embedded(<<c>>, m[f]), EmbeddedSize(1, m[f]))
  <2>1. m[f] \in Slices(MaxInt) BY <1>2, <1>4 DEF FieldValues
  <2>2. Piece(Embedded(<<c>>, m[f]), EmbeddedSize(Len(<<c>>), m[f]))
    BY <1>1, <2>1, EmbeddedTyped DEF Piece
  <2> QED BY <1>1, <2>2
<1>5. ASSUME Structs[t][f] = "pointer" PROVE Piece(Pointer(<<c>>, m[f]), PointerSize(1, m[f]))
  <2>1. m[f] \in Seq(Slices(MaxInt)) /\ Len(m[f]) <= 1 BY <1>2, <1>5 DEF FieldValues
  <2>2. Piece(Pointer(<<c>>, m[f]), PointerSize(Len(<<c>>), m[f]))
    BY <1>1, <2>1, PointerTyped DEF Piece
  <2> QED BY <1>1, <2>2
<1>6. ASSUME Structs[t][f] = "repeated" PROVE Piece(Repeated(<<c>>, m[f]), RepeatedSize(1, m[f]))
  <2>1. m[f] \in Seq(Slices(MaxInt)) BY <1>2, <1>6 DEF FieldValues
  <2>2. Piece(Repeated(<<c>>, m[f]), RepeatedSize(Len(<<c>>), m[f]))
    BY <1>1, <2>1, RepeatedTyped DEF Piece
  <2> QED BY <1>1, <2>2
<1>7. ASSUME Structs[t][f] \in {"int32", "uint32"}
      PROVE  Piece(Varint(<<c>>, m[f]), VarintSize(1, m[f]))
  <2>1. m[f] \in Int
    <3>1. CASE Structs[t][f] = "int32" BY <1>2, <3>1, WordTyped DEF FieldValues
    <3>2. CASE Structs[t][f] = "uint32" BY <1>2, <3>2, WordTyped DEF FieldValues
    <3> QED BY <1>7, <3>1, <3>2
  <2>2. Piece(Varint(<<c>>, m[f]), VarintSize(Len(<<c>>), m[f]))
    BY <1>1, <2>1, VarintTyped DEF Piece
  <2> QED BY <1>1, <2>2
<1> QED BY <1>3, <1>4, <1>5, <1>6, <1>7 DEF AsPiece

\* The bytes of the tags.
LEMMA TagBytes ==
  /\ 0 \in Byte /\ 1 \in Byte /\ 10 \in Byte /\ 16 \in Byte /\ 18 \in Byte /\ 24 \in Byte
  /\ 26 \in Byte /\ 34 \in Byte /\ 42 \in Byte /\ 50 \in Byte /\ 58 \in Byte /\ 66 \in Byte
  /\ 74 \in Byte /\ 82 \in Byte /\ 90 \in Byte /\ 98 \in Byte /\ 106 \in Byte /\ 114 \in Byte
  /\ 122 \in Byte /\ 130 \in Byte
BY DEF Byte

\* Of each message: what MarshalToSizedBuffer writes are bytes, exactly Size() of them.
LEMMA SizedMsgProxyClientState ==
  ASSUME NEW m, IsMessage("MsgProxyClientState", m, MaxInt)
  PROVE  Piece(MarshalMsgProxyClientState(m), SizeMsgProxyClientState(m))
<1>1. "MsgProxyClientState" \in DOMAIN Structs /\ Structs["MsgProxyClientState"] = MsgProxyClientState
  BY DEF Structs, TxStructs, LightClientStructs
<1>2. \A f \in DOMAIN MsgProxyClientState : \A c, e \in Byte : AsPiece(MsgProxyClientState[f], m[f], c, e)
  BY <1>1, FieldPieces, Zenon
<1>3. /\ AsPiece("string", m.UpstreamClientId, 10, 0)
      /\ AsPiece("message", m.UpstreamPrefix, 18, 0)
      /\ AsPiece("string", m.CounterpartyClientId, 26, 0)
      /\ AsPiece("pointer", m.ClientState, 34, 0) /\ AsPiece("pointer", m.ConsensusState, 42, 0)
      /\ AsPiece("bytes", m.ProofClient, 50, 0) /\ AsPiece("bytes", m.ProofConsensus, 58, 0)
      /\ AsPiece("message", m.ProofHeight, 66, 0) /\ AsPiece("message", m.ConsensusHeight, 74, 0)
      /\ AsPiece("string", m.Signer, 82, 0)
  BY <1>2, TagBytes DEF MsgProxyClientState
<1> QED BY <1>3, Join DEF MarshalMsgProxyClientState, SizeMsgProxyClientState, AsPiece

LEMMA SizedMsgProxyConnectionOpenTry ==
  ASSUME NEW m, IsMessage("MsgProxyConnectionOpenTry", m, MaxInt)
  PROVE  Piece(MarshalMsgProxyConnectionOpenTry(m), SizeMsgProxyConnectionOpenTry(m))
<1>1. "MsgProxyConnectionOpenTry" \in DOMAIN Structs /\ Structs["MsgProxyConnectionOpenTry"] = MsgProxyConnectionOpenTry
  BY DEF Structs, TxStructs, LightClientStructs
<1>2. \A f \in DOMAIN MsgProxyConnectionOpenTry : \A c, e \in Byte : AsPiece(MsgProxyConnectionOpenTry[f], m[f], c, e)
  BY <1>1, FieldPieces, Zenon
<1>3. /\ AsPiece("string", m.ConnectionId, 10, 0) /\ AsPiece("message", m.UpstreamPrefix, 18, 0)
      /\ AsPiece("message", m.Connection, 26, 0)
      /\ AsPiece("pointer", m.DownstreamClientState, 34, 0)
      /\ AsPiece("pointer", m.DownstreamConsensusState, 42, 0)
      /\ AsPiece("pointer", m.ProxyClientState, 50, 0) /\ AsPiece("bytes", m.ProofInit, 58, 0)
      /\ AsPiece("bytes", m.ProofClient, 66, 0) /\ AsPiece("bytes", m.ProofConsensus, 74, 0)
      /\ AsPiece("message", m.ProofHeight, 82, 0) /\ AsPiece("message", m.ConsensusHeight, 90, 0)
      /\ AsPiece("bytes", m.ProofProxyClient, 98, 0)
      /\ AsPiece("bytes", m.ProofProxyConsensus, 106, 0)
      /\ AsPiece("message", m.ProofProxyHeight, 114, 0)
      /\ AsPiece("message", m.ProxyConsensusHeight, 122, 0)
      /\ AsPiece("string", m.Signer, 130, 1)
  BY <1>2, TagBytes DEF MsgProxyConnectionOpenTry
<1> QED BY <1>3, Join DEF MarshalMsgProxyConnectionOpenTry, SizeMsgProxyConnectionOpenTry, AsPiece

LEMMA SizedMsgProxyConnectionOpenAck ==
  ASSUME NEW m, IsMessage("MsgProxyConnectionOpenAck", m, MaxInt)
  PROVE  Piece(MarshalMsgProxyConnectionOpenAck(m), SizeMsgProxyConnectionOpenAck(m))
<1>1. "MsgProxyConnectionOpenAck" \in DOMAIN Structs /\ Structs["MsgProxyConnectionOpenAck"] = MsgProxyConnectionOpenAck
  BY DEF Structs, TxStructs, LightClientStructs
<1>2. \A f \in DOMAIN MsgProxyConnectionOpenAck : \A c, e \in Byte : AsPiece(MsgProxyConnectionOpenAck[f], m[f], c, e)
  BY <1>1, FieldPieces, Zenon
<1>3. /\ AsPiece("string", m.ConnectionId, 10, 0) /\ AsPiece("message", m.UpstreamPrefix, 18, 0)
      /\ AsPiece("message", m.Connection, 26, 0)
      /\ AsPiece("pointer", m.DownstreamClientState, 34, 0)
      /\ AsPiece("pointer", m.DownstreamConsensusState, 42, 0)
      /\ AsPiece("pointer", m.ProxyClientState, 50, 0) /\ AsPiece("bytes", m.ProofTry, 58, 0)
      /\ AsPiece("bytes", m.ProofClient, 66, 0) /\ AsPiece("bytes", m.ProofConsensus, 74, 0)
      /\ AsPiece("message", m.ProofHeight, 82, 0) /\ AsPiece("message", m.ConsensusHeight, 90, 0)
      /\ AsPiece("bytes", m.ProofProxyClient, 98, 0)
      /\ AsPiece("bytes", m.ProofProxyConsensus, 106, 0)
      /\ AsPiece("message", m.ProofProxyHeight, 114, 0)
      /\ AsPiece("message", m.ProxyConsensusHeight, 122, 0)
      /\ AsPiece("string", m.Signer, 130, 1)
  BY <1>2, TagBytes DEF MsgProxyConnectionOpenAck
<1> QED BY <1>3, Join DEF MarshalMsgProxyConnectionOpenAck, SizeMsgProxyConnectionOpenAck, AsPiece

LEMMA SizedMsgProxyConnectionOpenConfirm ==
  ASSUME NEW m, IsMessage("MsgProxyConnectionOpenConfirm", m, MaxInt)
  PROVE  Piece(MarshalMsgProxyConnectionOpenConfirm(m), SizeMsgProxyConnectionOpenConfirm(m))
<1>1. "MsgProxyConnectionOpenConfirm" \in DOMAIN Structs /\ Structs["MsgProxyConnectionOpenConfirm"] = MsgProxyConnectionOpenConfirm
  BY DEF Structs, TxStructs, LightClientStructs
<1>2. \A f \in DOMAIN MsgProxyConnectionOpenConfirm : \A c, e \in Byte : AsPiece(MsgProxyConnectionOpenConfirm[f], m[f], c, e)
  BY <1>1, FieldPieces, Zenon
<1>3. /\ AsPiece("string", m.ConnectionId, 10, 0) /\ AsPiece("string", m.UpstreamClientId, 18, 0)
      /\ AsPiece("message", m.UpstreamPrefix, 26, 0)
      /\ AsPiece("string", m.CounterpartyConnectionId, 34, 0)
      /\ AsPiece("bytes", m.ProofAck, 42, 0) /\ AsPiece("message", m.ProofHeight, 50, 0)
      /\ AsPiece("string", m.Signer, 58, 0)
  BY <1>2, TagBytes DEF MsgProxyConnectionOpenConfirm
<1> QED BY <1>3, Join DEF MarshalMsgProxyConnectionOpenConfirm, SizeMsgProxyConnectionOpenConfirm, AsPiece

LEMMA SizedMsgProxyConnectionOpenFinalize ==
  ASSUME NEW m, IsMessage("MsgProxyConnectionOpenFinalize", m, MaxInt)
  PROVE  Piece(MarshalMsgProxyConnectionOpenFinalize(m), SizeMsgProxyConnectionOpenFinalize(m))
<1>1. "MsgProxyConnectionOpenFinalize" \in DOMAIN Structs /\ Structs["MsgProxyConnectionOpenFinalize"] = MsgProxyConnectionOpenFinalize
  BY DEF Structs, TxStructs, LightClientStructs
<1>2. \A f \in DOMAIN MsgProxyConnectionOpenFinalize : \A c, e \in Byte : AsPiece(MsgProxyConnectionOpenFinalize[f], m[f], c, e)
  BY <1>1, FieldPieces, Zenon
<1>3. /\ AsPiece("string", m.ConnectionId, 10, 0) /\ AsPiece("string", m.UpstreamClientId, 18, 0)
      /\ AsPiece("message", m.UpstreamPrefix, 26, 0) /\ AsPiece("bytes", m.ProofConfirm, 34, 0)
      /\ AsPiece("message", m.ProofHeight, 42, 0) /\ AsPiece("string", m.Signer, 50, 0)
  BY <1>2, TagBytes DEF MsgProxyConnectionOpenFinalize
<1> QED BY <1>3, Join DEF MarshalMsgProxyConnectionOpenFinalize, SizeMsgProxyConnectionOpenFinalize, AsPiece

LEMMA SizedMsgProxyChannelOpenTry ==
  ASSUME NEW m, IsMessage("MsgProxyChannelOpenTry", m, MaxInt)
  PROVE  Piece(MarshalMsgProxyChannelOpenTry(m), SizeMsgProxyChannelOpenTry(m))
<1>1. "MsgProxyChannelOpenTry" \in DOMAIN Structs /\ Structs["MsgProxyChannelOpenTry"] = MsgProxyChannelOpenTry
  BY DEF Structs, TxStructs, LightClientStructs
<1>2. \A f \in DOMAIN MsgProxyChannelOpenTry : \A c, e \in Byte : AsPiece(MsgProxyChannelOpenTry[f], m[f], c, e)
  BY <1>1, FieldPieces, Zenon
<1>3. /\ AsPiece("string", m.UpstreamClientId, 10, 0)
      /\ AsPiece("message", m.UpstreamPrefix, 18, 0) /\ AsPiece("int32", m.Order, 24, 0)
      /\ AsPiece("repeated", m.ConnectionHops, 34, 0) /\ AsPiece("string", m.PortId, 42, 0)
      /\ AsPiece("string", m.ChannelId, 50, 0) /\ AsPiece("string", m.DownstreamPortId, 58, 0)
      /\ AsPiece("string", m.Version, 66, 0) /\ AsPiece("bytes", m.ProofInit, 74, 0)
      /\ AsPiece("message", m.ProofHeight, 82, 0) /\ AsPiece("string", m.Signer, 90, 0)
  BY <1>2, TagBytes DEF MsgProxyChannelOpenTry
<1> QED BY <1>3, Join DEF MarshalMsgProxyChannelOpenTry, SizeMsgProxyChannelOpenTry, AsPiece

LEMMA SizedMsgProxyChannelOpenAck ==
  ASSUME NEW m, IsMessage("MsgProxyChannelOpenAck", m, MaxInt)
  PROVE  Piece(MarshalMsgProxyChannelOpenAck(m), SizeMsgProxyChannelOpenAck(m))
<1>1. "MsgProxyChannelOpenAck" \in DOMAIN Structs /\ Structs["MsgProxyChannelOpenAck"] = MsgProxyChannelOpenAck
  BY DEF Structs, TxStructs, LightClientStructs
<1>2. \A f \in DOMAIN MsgProxyChannelOpenAck : \A c, e \in Byte : AsPiece(MsgProxyChannelOpenAck[f], m[f], c, e)
  BY <1>1, FieldPieces, Zenon
<1>3. /\ AsPiece("string", m.UpstreamClientId, 10, 0)
      /\ AsPiece("message", m.UpstreamPrefix, 18, 0) /\ AsPiece("int32", m.Order, 24, 0)
      /\ AsPiece("repeated", m.ConnectionHops, 34, 0) /\ AsPiece("string", m.PortId, 42, 0)
      /\ AsPiece("string", m.ChannelId, 50, 0) /\ AsPiece("string", m.DownstreamPortId, 58, 0)
      /\ AsPiece("string", m.DownstreamChannelId, 66, 0) /\ AsPiece("string", m.Version, 74, 0)
      /\ AsPiece("bytes", m.ProofTry, 82, 0) /\ AsPiece("message", m.ProofHeight, 90, 0)
      /\ AsPiece("string", m.Signer, 98, 0)
  BY <1>2, TagBytes DEF MsgProxyChannelOpenAck
<1> QED BY <1>3, Join DEF MarshalMsgProxyChannelOpenAck, SizeMsgProxyChannelOpenAck, AsPiece

LEMMA SizedMsgProxyChannelOpenConfirm ==
  ASSUME NEW m, IsMessage("MsgProxyChannelOpenConfirm", m, MaxInt)
  PROVE  Piece(MarshalMsgProxyChannelOpenConfirm(m), SizeMsgProxyChannelOpenConfirm(m))
<1>1. "MsgProxyChannelOpenConfirm" \in DOMAIN Structs /\ Structs["MsgProxyChannelOpenConfirm"] = MsgProxyChannelOpenConfirm
  BY DEF Structs, TxStructs, LightClientStructs
<1>2. \A f \in DOMAIN MsgProxyChannelOpenConfirm : \A c, e \in Byte : AsPiece(MsgProxyChannelOpenConfirm[f], m[f], c, e)
  BY <1>1, FieldPieces, Zenon
<1>3. /\ AsPiece("string", m.UpstreamClientId, 10, 0)
      /\ AsPiece("message", m.UpstreamPrefix, 18, 0) /\ AsPiece("string", m.PortId, 26, 0)
      /\ AsPiece("string", m.ChannelId, 34, 0) /\ AsPiece("string", m.DownstreamChannelId, 42, 0)
      /\ AsPiece("bytes", m.ProofAck, 50, 0) /\ AsPiece("message", m.ProofHeight, 58, 0)
      /\ AsPiece("string", m.Signer, 66, 0)
  BY <1>2, TagBytes DEF MsgProxyChannelOpenConfirm
<1> QED BY <1>3, Join DEF MarshalMsgProxyChannelOpenConfirm, SizeMsgProxyChannelOpenConfirm, AsPiece

LEMMA SizedMsgProxyChannelOpenFinalize ==
  ASSUME NEW m, IsMessage("MsgProxyChannelOpenFinalize", m, MaxInt)
  PROVE  Piece(MarshalMsgProxyChannelOpenFinalize(m), SizeMsgProxyChannelOpenFinalize(m))
<1>1. "MsgProxyChannelOpenFinalize" \in DOMAIN Structs /\ Structs["MsgProxyChannelOpenFinalize"] = MsgProxyChannelOpenFinalize
  BY DEF Structs, TxStructs, LightClientStructs
<1>2. \A f \in DOMAIN MsgProxyChannelOpenFinalize : \A c, e \in Byte : AsPiece(MsgProxyChannelOpenFinalize[f], m[f], c, e)
  BY <1>1, FieldPieces, Zenon
<1>3. /\ AsPiece("string", m.UpstreamClientId, 10, 0)
      /\ AsPiece("message", m.UpstreamPrefix, 18, 0) /\ AsPiece("string", m.PortId, 26, 0)
      /\ AsPiece("string", m.ChannelId, 34, 0) /\ AsPiece("bytes", m.ProofConfirm, 42, 0)
      /\ AsPiece("message", m.ProofHeight, 50, 0) /\ AsPiece("string", m.Signer, 58, 0)
  BY <1>2, TagBytes DEF MsgProxyChannelOpenFinalize
<1> QED BY <1>3, Join DEF MarshalMsgProxyChannelOpenFinalize, SizeMsgProxyChannelOpenFinalize, AsPiece

LEMMA SizedMsgProxyRecvPacket ==
  ASSUME NEW m, IsMessage("MsgProxyRecvPacket", m, MaxInt)
  PROVE  Piece(MarshalMsgProxyRecvPacket(m), SizeMsgProxyRecvPacket(m))
<1>1. "MsgProxyRecvPacket" \in DOMAIN Structs /\ Structs["MsgProxyRecvPacket"] = MsgProxyRecvPacket
  BY DEF Structs, TxStructs, LightClientStructs
<1>2. \A f \in DOMAIN MsgProxyRecvPacket : \A c, e \in Byte : AsPiece(MsgProxyRecvPacket[f], m[f], c, e)
  BY <1>1, FieldPieces, Zenon
<1>3. /\ AsPiece("string", m.UpstreamClientId, 10, 0)
      /\ AsPiece("message", m.UpstreamPrefix, 18, 0) /\ AsPiece("message", m.Packet, 26, 0)
      /\ AsPiece("bytes", m.Proof, 34, 0) /\ AsPiece("message", m.ProofHeight, 42, 0)
      /\ AsPiece("string", m.Signer, 50, 0)
  BY <1>2, TagBytes DEF MsgProxyRecvPacket
<1> QED BY <1>3, Join DEF MarshalMsgProxyRecvPacket, SizeMsgProxyRecvPacket, AsPiece

LEMMA SizedMsgProxyAcknowledgePacket ==
  ASSUME NEW m, IsMessage("MsgProxyAcknowledgePacket", m, MaxInt)
  PROVE  Piece(MarshalMsgProxyAcknowledgePacket(m), SizeMsgProxyAcknowledgePacket(m))
<1>1. "MsgProxyAcknowledgePacket" \in DOMAIN Structs /\ Structs["MsgProxyAcknowledgePacket"] = MsgProxyAcknowledgePacket
  BY DEF Structs, TxStructs, LightClientStructs
<1>2. \A f \in DOMAIN MsgProxyAcknowledgePacket : \A c, e \in Byte : AsPiece(MsgProxyAcknowledgePacket[f], m[f], c, e)
  BY <1>1, FieldPieces, Zenon
<1>3. /\ AsPiece("string", m.UpstreamClientId, 10, 0)
      /\ AsPiece("message", m.UpstreamPrefix, 18, 0) /\ AsPiece("message", m.Packet, 26, 0)
      /\ AsPiece("bytes", m.Acknowledgement, 34, 0) /\ AsPiece("bytes", m.Proof, 42, 0)
      /\ AsPiece("message", m.ProofHeight, 50, 0) /\ AsPiece("string", m.Signer, 58, 0)
  BY <1>2, TagBytes DEF MsgProxyAcknowledgePacket
<1> QED BY <1>3, Join DEF MarshalMsgProxyAcknowledgePacket, SizeMsgProxyAcknowledgePacket, AsPiece

LEMMA SizedMultivClientState ==
  ASSUME NEW m, IsMessage("MultivClientState", m, MaxInt)
  PROVE  Piece(MarshalMultivClientState(m), SizeMultivClientState(m))
<1>1. "MultivClientState" \in DOMAIN Structs /\ Structs["MultivClientState"] = MultivClientState
  BY DEF Structs, TxStructs, LightClientStructs
<1>2. \A f \in DOMAIN MultivClientState : \A c, e \in Byte : AsPiece(MultivClientState[f], m[f], c, e)
  BY <1>1, FieldPieces, Zenon
<1>3. /\ AsPiece("pointer", m.UnderlyingClientState, 10, 0) /\ AsPiece("uint32", m.Depth, 16, 0)
  BY <1>2, TagBytes DEF MultivClientState
<1> QED BY <1>3, Join DEF MarshalMultivClientState, SizeMultivClientState, AsPiece

LEMMA SizedMultiProof ==
  ASSUME NEW m, IsMessage("MultiProof", m, MaxInt)
  PROVE  Piece(MarshalMultiProof(m), SizeMultiProof(m))
<1>1. "MultiProof" \in DOMAIN Structs /\ Structs["MultiProof"] = MultiProof
  BY DEF Structs, TxStructs, LightClientStructs
<1>2. \A f \in DOMAIN MultiProof : \A c, e \in Byte : AsPiece(MultiProof[f], m[f], c, e)
  BY <1>1, FieldPieces, Zenon
<1>3. /\ AsPiece("message", m.Head, 10, 0) /\ AsPiece("repeated", m.Branches, 18, 0)
      /\ AsPiece("message", m.Leaf, 26, 0)
  BY <1>2, TagBytes DEF MultiProof
<1> QED BY <1>3, Join DEF MarshalMultiProof, SizeMultiProof, AsPiece

LEMMA SizedProof ==
  ASSUME NEW m, IsMessage("Proof", m, MaxInt)
  PROVE  Piece(MarshalProof(m), SizeProof(m))
<1>1. "Proof" \in DOMAIN Structs /\ Structs["Proof"] = Proof
  BY DEF Structs, TxStructs, LightClientStructs
<1>2. \A f \in DOMAIN Proof : \A c, e \in Byte : AsPiece(Proof[f], m[f], c, e)
  BY <1>1, FieldPieces, Zenon
<1>3. /\ AsPiece("bytes", m.ClientProof, 10, 0) /\ AsPiece("pointer", m.ClientState, 18, 0)
      /\ AsPiece("bytes", m.ConsensusProof, 26, 0) /\ AsPiece("pointer", m.ConsensusState, 34, 0)
      /\ AsPiece("message", m.ProofHeight, 42, 0) /\ AsPiece("message", m.ConsensusHeight, 50, 0)
  BY <1>2, TagBytes DEF Proof
<1> QED BY <1>3, Join DEF MarshalProof, SizeProof, AsPiece

LEMMA SizedLeafProof ==
  ASSUME NEW m, IsMessage("LeafProof", m, MaxInt)
  PROVE  Piece(MarshalLeafProof(m), SizeLeafProof(m))
<1>1. "LeafProof" \in DOMAIN Structs /\ Structs["LeafProof"] = LeafProof
  BY DEF Structs, TxStructs, LightClientStructs
<1>2. \A f \in DOMAIN LeafProof : \A c, e \in Byte : AsPiece(LeafProof[f], m[f], c, e)
  BY <1>1, FieldPieces, Zenon
<1>3. /\ AsPiece("bytes", m.Proof, 10, 0) /\ AsPiece("message", m.ProofHeight, 18, 0)
  BY <1>2, TagBytes DEF LeafProof
<1> QED BY <1>3, Join DEF MarshalLeafProof, SizeLeafProof, AsPiece

LEMMA SizedProxyClientState ==
  ASSUME NEW m, IsMessage("ProxyClientState", m, MaxInt)
  PROVE  Piece(MarshalProxyClientState(m), SizeProxyClientState(m))
<1>1. "ProxyClientState" \in DOMAIN Structs /\ Structs["ProxyClientState"] = ProxyClientState
  BY DEF Structs, TxStructs, LightClientStructs
<1>2. \A f \in DOMAIN ProxyClientState : \A c, e \in Byte : AsPiece(ProxyClientState[f], m[f], c, e)
  BY <1>1, FieldPieces, Zenon
<1>3. /\ AsPiece("pointer", m.ProxyClientState, 10, 0)
      /\ AsPiece("string", m.UpstreamClientId, 18, 0) /\ AsPiece("pointer", m.ProxyPrefix, 26, 0)
      /\ AsPiece("pointer", m.IbcPrefix, 34, 0)
  BY <1>2, TagBytes DEF ProxyClientState
<1> QED BY <1>3, Join DEF MarshalProxyClientState, SizeProxyClientState, AsPiece

LEMMA SizedProxyConsensusState ==
  ASSUME NEW m, IsMessage("ProxyConsensusState", m, MaxInt)
  PROVE  Piece(MarshalProxyConsensusState(m), SizeProxyConsensusState(m))
<1>1. "ProxyConsensusState" \in DOMAIN Structs /\ Structs["ProxyConsensusState"] = ProxyConsensusState
  BY DEF Structs, TxStructs, LightClientStructs
<1>2. \A f \in DOMAIN ProxyConsensusState : \A c, e \in Byte : AsPiece(ProxyConsensusState[f], m[f], c, e)
  BY <1>1, FieldPieces, Zenon
<1>3. /\ AsPiece("pointer", m.ProxyConsensusState, 10, 0)
  BY <1>2, TagBytes DEF ProxyConsensusState
<1> QED BY <1>3, Join DEF MarshalProxyConsensusState, SizeProxyConsensusState, AsPiece

\* The messages of the three generated files.
LEMMA StructNames ==
  /\ DOMAIN TxStructs = {"MsgProxyClientState", "MsgProxyConnectionOpenTry", "MsgProxyConnectionOpenAck",
       "MsgProxyConnectionOpenConfirm", "MsgProxyConnectionOpenFinalize",
       "MsgProxyChannelOpenTry", "MsgProxyChannelOpenAck", "MsgProxyChannelOpenConfirm",
       "MsgProxyChannelOpenFinalize", "MsgProxyRecvPacket", "MsgProxyAcknowledgePacket"}
  /\ DOMAIN LightClientStructs = {"MultivClientState", "MultiProof", "Proof", "LeafProof", "ProxyClientState",
       "ProxyConsensusState"}
  /\ DOMAIN Structs = DOMAIN TxStructs \cup DOMAIN LightClientStructs
BY DEF Structs, TxStructs, LightClientStructs

\* Marshal never runs out of the buffer that Size() gave it, and returns all it wrote.
LEMMA MarshalTyped ==
  ASSUME NEW t \in DOMAIN Structs, NEW m, IsMessage(t, m, MaxInt)
  PROVE  /\ Fits(t, m)
         /\ Marshal(t, m) = Written(t, m) /\ Marshal(t, m) \in Seq(Byte)
<1>1. Piece(Written(t, m), Size(t, m))
  <2>1. CASE t = "MsgProxyClientState"
    <3>1. Written(t, m) = MarshalMsgProxyClientState(m) /\ Size(t, m) = SizeMsgProxyClientState(m)
      BY <2>1, StructNames DEF Written, Size, MarshalTx, SizeTx
    <3> QED BY <2>1, <3>1, SizedMsgProxyClientState
  <2>2. CASE t = "MsgProxyConnectionOpenTry"
    <3>1. Written(t, m) = MarshalMsgProxyConnectionOpenTry(m) /\ Size(t, m) = SizeMsgProxyConnectionOpenTry(m)
      BY <2>2, StructNames DEF Written, Size, MarshalTx, SizeTx
    <3> QED BY <2>2, <3>1, SizedMsgProxyConnectionOpenTry
  <2>3. CASE t = "MsgProxyConnectionOpenAck"
    <3>1. Written(t, m) = MarshalMsgProxyConnectionOpenAck(m) /\ Size(t, m) = SizeMsgProxyConnectionOpenAck(m)
      BY <2>3, StructNames DEF Written, Size, MarshalTx, SizeTx
    <3> QED BY <2>3, <3>1, SizedMsgProxyConnectionOpenAck
  <2>4. CASE t = "MsgProxyConnectionOpenConfirm"
    <3>1. Written(t, m) = MarshalMsgProxyConnectionOpenConfirm(m) /\ Size(t, m) = SizeMsgProxyConnectionOpenConfirm(m)
      BY <2>4, StructNames DEF Written, Size, MarshalTx, SizeTx
    <3> QED BY <2>4, <3>1, SizedMsgProxyConnectionOpenConfirm
  <2>5. CASE t = "MsgProxyConnectionOpenFinalize"
    <3>1. Written(t, m) = MarshalMsgProxyConnectionOpenFinalize(m) /\ Size(t, m) = SizeMsgProxyConnectionOpenFinalize(m)
      BY <2>5, StructNames DEF Written, Size, MarshalTx, SizeTx
    <3> QED BY <2>5, <3>1, SizedMsgProxyConnectionOpenFinalize
  <2>6. CASE t = "MsgProxyChannelOpenTry"
    <3>1. Written(t, m) = MarshalMsgProxyChannelOpenTry(m) /\ Size(t, m) = SizeMsgProxyChannelOpenTry(m)
      BY <2>6, StructNames DEF Written, Size, MarshalTx, SizeTx
    <3> QED BY <2>6, <3>1, SizedMsgProxyChannelOpenTry
  <2>7. CASE t = "MsgProxyChannelOpenAck"
    <3>1. Written(t, m) = MarshalMsgProxyChannelOpenAck(m) /\ Size(t, m) = SizeMsgProxyChannelOpenAck(m)
      BY <2>7, StructNames DEF Written, Size, MarshalTx, SizeTx
    <3> QED BY <2>7, <3>1, SizedMsgProxyChannelOpenAck
  <2>8. CASE t = "MsgProxyChannelOpenConfirm"
    <3>1. Written(t, m) = MarshalMsgProxyChannelOpenConfirm(m) /\ Size(t, m) = SizeMsgProxyChannelOpenConfirm(m)
      BY <2>8, StructNames DEF Written, Size, MarshalTx, SizeTx
    <3> QED BY <2>8, <3>1, SizedMsgProxyChannelOpenConfirm
  <2>9. CASE t = "MsgProxyChannelOpenFinalize"
    <3>1. Written(t, m) = MarshalMsgProxyChannelOpenFinalize(m) /\ Size(t, m) = SizeMsgProxyChannelOpenFinalize(m)
      BY <2>9, StructNames DEF Written, Size, MarshalTx, SizeTx
    <3> QED BY <2>9, <3>1, SizedMsgProxyChannelOpenFinalize
  <2>10. CASE t = "MsgProxyRecvPacket"
    <3>1. Written(t, m) = MarshalMsgProxyRecvPacket(m) /\ Size(t, m) = SizeMsgProxyRecvPacket(m)
      BY <2>10, StructNames DEF Written, Size, MarshalTx, SizeTx
    <3> QED BY <2>10, <3>1, SizedMsgProxyRecvPacket
  <2>11. CASE t = "MsgProxyAcknowledgePacket"
    <3>1. Written(t, m) = MarshalMsgProxyAcknowledgePacket(m) /\ Size(t, m) = SizeMsgProxyAcknowledgePacket(m)
      BY <2>11, StructNames DEF Written, Size, MarshalTx, SizeTx
    <3> QED BY <2>11, <3>1, SizedMsgProxyAcknowledgePacket
  <2>12. CASE t = "MultivClientState"
    <3>1. Written(t, m) = MarshalMultivClientState(m) /\ Size(t, m) = SizeMultivClientState(m)
      BY <2>12, StructNames DEF Written, Size, MarshalLightClient, SizeLightClient
    <3> QED BY <2>12, <3>1, SizedMultivClientState
  <2>13. CASE t = "MultiProof"
    <3>1. Written(t, m) = MarshalMultiProof(m) /\ Size(t, m) = SizeMultiProof(m)
      BY <2>13, StructNames DEF Written, Size, MarshalLightClient, SizeLightClient
    <3> QED BY <2>13, <3>1, SizedMultiProof
  <2>14. CASE t = "Proof"
    <3>1. Written(t, m) = MarshalProof(m) /\ Size(t, m) = SizeProof(m)
      BY <2>14, StructNames DEF Written, Size, MarshalLightClient, SizeLightClient
    <3> QED BY <2>14, <3>1, SizedProof
  <2>15. CASE t = "LeafProof"
    <3>1. Written(t, m) = MarshalLeafProof(m) /\ Size(t, m) = SizeLeafProof(m)
      BY <2>15, StructNames DEF Written, Size, MarshalLightClient, SizeLightClient
    <3> QED BY <2>15, <3>1, SizedLeafProof
  <2>16. CASE t = "ProxyClientState"
    <3>1. Written(t, m) = MarshalProxyClientState(m) /\ Size(t, m) = SizeProxyClientState(m)
      BY <2>16, StructNames DEF Written, Size, MarshalLightClient, SizeLightClient
    <3> QED BY <2>16, <3>1, SizedProxyClientState
  <2>17. CASE t = "ProxyConsensusState"
    <3>1. Written(t, m) = MarshalProxyConsensusState(m) /\ Size(t, m) = SizeProxyConsensusState(m)
      BY <2>17, StructNames DEF Written, Size, MarshalLightClient, SizeLightClient
    <3> QED BY <2>17, <3>1, SizedProxyConsensusState
  <2> QED BY StructNames, <2>1, <2>2, <2>3, <2>4, <2>5, <2>6, <2>7, <2>8, <2>9, <2>10, <2>11, <2>12, <2>13, <2>14, <2>15, <2>16, <2>17
<1> DEFINE w == Written(t, m)
           gap == [i \in 1..(Size(t, m) - Len(w)) |-> 0]
<1>2. w \in Seq(Byte) /\ Len(w) = Size(t, m) /\ Size(t, m) \in Nat BY <1>1 DEF Piece
<1>3. Marshal(t, m) = SubSeq(gap \o w, 1, Len(w)) BY DEF Marshal
<1> HIDE DEF w
<1>4. gap = <<>> BY <1>2
<1>5. gap \o w = w BY <1>2, <1>4
<1>6. SubSeq(w, 1, Len(w)) = w BY <1>2
<1>7. Fits(t, m) BY <1>2 DEF Fits, w
<1> QED BY <1>2, <1>3, <1>5, <1>6, <1>7 DEF w

-----------------------------------------------------------------------------
(* What Unmarshal stores. *)

\* What a case of the switch may do to a field of a type.
Suits(how, type) ==
  \/ how = "set" /\ type \in {"string", "bytes"}
  \/ how = "merge" /\ type = "message"
  \/ how = "allocate" /\ type = "pointer"
  \/ how \in {"append", "appendMessage"} /\ type = "repeated"
  \/ how = "varint" /\ type \in {"int32", "uint32"}

\* Every case of every switch suits the field it stores into.
LEMMA CasesSuit ==
  ASSUME NEW t \in DOMAIN Structs, NEW n \in DOMAIN Cases[t]
  PROVE  /\ Cases[t][n][2] \in DOMAIN Structs[t]
         /\ Suits(Cases[t][n][1], Structs[t][Cases[t][n][2]])
<1>1. CASE t = "MsgProxyClientState"
  <2>1. Structs[t] = MsgProxyClientState /\ Cases[t] = UnmarshalMsgProxyClientState
    BY <1>1 DEF Structs, Cases, TxStructs, LightClientStructs, TxCases, LightClientCases
  <2>2. n \in 1..10 BY <2>1 DEF UnmarshalMsgProxyClientState
  <2> QED BY <2>1, <2>2 DEF UnmarshalMsgProxyClientState, MsgProxyClientState, Suits
<1>2. CASE t = "MsgProxyConnectionOpenTry"
  <2>1. Structs[t] = MsgProxyConnectionOpenTry /\ Cases[t] = UnmarshalMsgProxyConnectionOpenTry
    BY <1>2 DEF Structs, Cases, TxStructs, LightClientStructs, TxCases, LightClientCases
  <2>2. n \in 1..16 BY <2>1 DEF UnmarshalMsgProxyConnectionOpenTry
  <2> QED BY <2>1, <2>2 DEF UnmarshalMsgProxyConnectionOpenTry, MsgProxyConnectionOpenTry, Suits
<1>3. CASE t = "MsgProxyConnectionOpenAck"
  <2>1. Structs[t] = MsgProxyConnectionOpenAck /\ Cases[t] = UnmarshalMsgProxyConnectionOpenAck
    BY <1>3 DEF Structs, Cases, TxStructs, LightClientStructs, TxCases, LightClientCases
  <2>2. n \in 1..16 BY <2>1 DEF UnmarshalMsgProxyConnectionOpenAck
  <2> QED BY <2>1, <2>2 DEF UnmarshalMsgProxyConnectionOpenAck, MsgProxyConnectionOpenAck, Suits
<1>4. CASE t = "MsgProxyConnectionOpenConfirm"
  <2>1. Structs[t] = MsgProxyConnectionOpenConfirm /\ Cases[t] = UnmarshalMsgProxyConnectionOpenConfirm
    BY <1>4 DEF Structs, Cases, TxStructs, LightClientStructs, TxCases, LightClientCases
  <2>2. n \in 1..7 BY <2>1 DEF UnmarshalMsgProxyConnectionOpenConfirm
  <2> QED BY <2>1, <2>2 DEF UnmarshalMsgProxyConnectionOpenConfirm, MsgProxyConnectionOpenConfirm, Suits
<1>5. CASE t = "MsgProxyConnectionOpenFinalize"
  <2>1. Structs[t] = MsgProxyConnectionOpenFinalize /\ Cases[t] = UnmarshalMsgProxyConnectionOpenFinalize
    BY <1>5 DEF Structs, Cases, TxStructs, LightClientStructs, TxCases, LightClientCases
  <2>2. n \in 1..6 BY <2>1 DEF UnmarshalMsgProxyConnectionOpenFinalize
  <2> QED BY <2>1, <2>2 DEF UnmarshalMsgProxyConnectionOpenFinalize, MsgProxyConnectionOpenFinalize, Suits
<1>6. CASE t = "MsgProxyChannelOpenTry"
  <2>1. Structs[t] = MsgProxyChannelOpenTry /\ Cases[t] = UnmarshalMsgProxyChannelOpenTry
    BY <1>6 DEF Structs, Cases, TxStructs, LightClientStructs, TxCases, LightClientCases
  <2>2. n \in 1..11 BY <2>1 DEF UnmarshalMsgProxyChannelOpenTry
  <2> QED BY <2>1, <2>2 DEF UnmarshalMsgProxyChannelOpenTry, MsgProxyChannelOpenTry, Suits
<1>7. CASE t = "MsgProxyChannelOpenAck"
  <2>1. Structs[t] = MsgProxyChannelOpenAck /\ Cases[t] = UnmarshalMsgProxyChannelOpenAck
    BY <1>7 DEF Structs, Cases, TxStructs, LightClientStructs, TxCases, LightClientCases
  <2>2. n \in 1..12 BY <2>1 DEF UnmarshalMsgProxyChannelOpenAck
  <2> QED BY <2>1, <2>2 DEF UnmarshalMsgProxyChannelOpenAck, MsgProxyChannelOpenAck, Suits
<1>8. CASE t = "MsgProxyChannelOpenConfirm"
  <2>1. Structs[t] = MsgProxyChannelOpenConfirm /\ Cases[t] = UnmarshalMsgProxyChannelOpenConfirm
    BY <1>8 DEF Structs, Cases, TxStructs, LightClientStructs, TxCases, LightClientCases
  <2>2. n \in 1..8 BY <2>1 DEF UnmarshalMsgProxyChannelOpenConfirm
  <2> QED BY <2>1, <2>2 DEF UnmarshalMsgProxyChannelOpenConfirm, MsgProxyChannelOpenConfirm, Suits
<1>9. CASE t = "MsgProxyChannelOpenFinalize"
  <2>1. Structs[t] = MsgProxyChannelOpenFinalize /\ Cases[t] = UnmarshalMsgProxyChannelOpenFinalize
    BY <1>9 DEF Structs, Cases, TxStructs, LightClientStructs, TxCases, LightClientCases
  <2>2. n \in 1..7 BY <2>1 DEF UnmarshalMsgProxyChannelOpenFinalize
  <2> QED BY <2>1, <2>2 DEF UnmarshalMsgProxyChannelOpenFinalize, MsgProxyChannelOpenFinalize, Suits
<1>10. CASE t = "MsgProxyRecvPacket"
  <2>1. Structs[t] = MsgProxyRecvPacket /\ Cases[t] = UnmarshalMsgProxyRecvPacket
    BY <1>10 DEF Structs, Cases, TxStructs, LightClientStructs, TxCases, LightClientCases
  <2>2. n \in 1..6 BY <2>1 DEF UnmarshalMsgProxyRecvPacket
  <2> QED BY <2>1, <2>2 DEF UnmarshalMsgProxyRecvPacket, MsgProxyRecvPacket, Suits
<1>11. CASE t = "MsgProxyAcknowledgePacket"
  <2>1. Structs[t] = MsgProxyAcknowledgePacket /\ Cases[t] = UnmarshalMsgProxyAcknowledgePacket
    BY <1>11 DEF Structs, Cases, TxStructs, LightClientStructs, TxCases, LightClientCases
  <2>2. n \in 1..7 BY <2>1 DEF UnmarshalMsgProxyAcknowledgePacket
  <2> QED BY <2>1, <2>2 DEF UnmarshalMsgProxyAcknowledgePacket, MsgProxyAcknowledgePacket, Suits
<1>12. CASE t = "MultivClientState"
  <2>1. Structs[t] = MultivClientState /\ Cases[t] = UnmarshalMultivClientState
    BY <1>12 DEF Structs, Cases, TxStructs, LightClientStructs, TxCases, LightClientCases
  <2>2. n \in 1..2 BY <2>1 DEF UnmarshalMultivClientState
  <2> QED BY <2>1, <2>2 DEF UnmarshalMultivClientState, MultivClientState, Suits
<1>13. CASE t = "MultiProof"
  <2>1. Structs[t] = MultiProof /\ Cases[t] = UnmarshalMultiProof
    BY <1>13 DEF Structs, Cases, TxStructs, LightClientStructs, TxCases, LightClientCases
  <2>2. n \in 1..3 BY <2>1 DEF UnmarshalMultiProof
  <2> QED BY <2>1, <2>2 DEF UnmarshalMultiProof, MultiProof, Suits
<1>14. CASE t = "Proof"
  <2>1. Structs[t] = Proof /\ Cases[t] = UnmarshalProof
    BY <1>14 DEF Structs, Cases, TxStructs, LightClientStructs, TxCases, LightClientCases
  <2>2. n \in 1..6 BY <2>1 DEF UnmarshalProof
  <2> QED BY <2>1, <2>2 DEF UnmarshalProof, Proof, Suits
<1>15. CASE t = "LeafProof"
  <2>1. Structs[t] = LeafProof /\ Cases[t] = UnmarshalLeafProof
    BY <1>15 DEF Structs, Cases, TxStructs, LightClientStructs, TxCases, LightClientCases
  <2>2. n \in 1..2 BY <2>1 DEF UnmarshalLeafProof
  <2> QED BY <2>1, <2>2 DEF UnmarshalLeafProof, LeafProof, Suits
<1>16. CASE t = "ProxyClientState"
  <2>1. Structs[t] = ProxyClientState /\ Cases[t] = UnmarshalProxyClientState
    BY <1>16 DEF Structs, Cases, TxStructs, LightClientStructs, TxCases, LightClientCases
  <2>2. n \in 1..4 BY <2>1 DEF UnmarshalProxyClientState
  <2> QED BY <2>1, <2>2 DEF UnmarshalProxyClientState, ProxyClientState, Suits
<1>17. CASE t = "ProxyConsensusState"
  <2>1. Structs[t] = ProxyConsensusState /\ Cases[t] = UnmarshalProxyConsensusState
    BY <1>17 DEF Structs, Cases, TxStructs, LightClientStructs, TxCases, LightClientCases
  <2>2. n \in 1..1 BY <2>1 DEF UnmarshalProxyConsensusState
  <2> QED BY <2>1, <2>2 DEF UnmarshalProxyConsensusState, ProxyConsensusState, Suits
<1> QED BY StructNames, <1>1, <1>2, <1>3, <1>4, <1>5, <1>6, <1>7, <1>8, <1>9, <1>10, <1>11, <1>12, <1>13, <1>14, <1>15, <1>16, <1>17

\* The types of the fields.
LEMMA FieldTypes ==
  ASSUME NEW t \in DOMAIN Structs, NEW f \in DOMAIN Structs[t]
  PROVE  Structs[t][f] \in {"string", "bytes", "message", "pointer", "repeated", "int32", "uint32"}
<1>1. CASE t = "MsgProxyClientState"
  <2>1. Structs[t] = MsgProxyClientState BY <1>1 DEF Structs, TxStructs, LightClientStructs
  <2> QED BY <2>1 DEF MsgProxyClientState
<1>2. CASE t = "MsgProxyConnectionOpenTry"
  <2>1. Structs[t] = MsgProxyConnectionOpenTry BY <1>2 DEF Structs, TxStructs, LightClientStructs
  <2> QED BY <2>1 DEF MsgProxyConnectionOpenTry
<1>3. CASE t = "MsgProxyConnectionOpenAck"
  <2>1. Structs[t] = MsgProxyConnectionOpenAck BY <1>3 DEF Structs, TxStructs, LightClientStructs
  <2> QED BY <2>1 DEF MsgProxyConnectionOpenAck
<1>4. CASE t = "MsgProxyConnectionOpenConfirm"
  <2>1. Structs[t] = MsgProxyConnectionOpenConfirm BY <1>4 DEF Structs, TxStructs, LightClientStructs
  <2> QED BY <2>1 DEF MsgProxyConnectionOpenConfirm
<1>5. CASE t = "MsgProxyConnectionOpenFinalize"
  <2>1. Structs[t] = MsgProxyConnectionOpenFinalize BY <1>5 DEF Structs, TxStructs, LightClientStructs
  <2> QED BY <2>1 DEF MsgProxyConnectionOpenFinalize
<1>6. CASE t = "MsgProxyChannelOpenTry"
  <2>1. Structs[t] = MsgProxyChannelOpenTry BY <1>6 DEF Structs, TxStructs, LightClientStructs
  <2> QED BY <2>1 DEF MsgProxyChannelOpenTry
<1>7. CASE t = "MsgProxyChannelOpenAck"
  <2>1. Structs[t] = MsgProxyChannelOpenAck BY <1>7 DEF Structs, TxStructs, LightClientStructs
  <2> QED BY <2>1 DEF MsgProxyChannelOpenAck
<1>8. CASE t = "MsgProxyChannelOpenConfirm"
  <2>1. Structs[t] = MsgProxyChannelOpenConfirm BY <1>8 DEF Structs, TxStructs, LightClientStructs
  <2> QED BY <2>1 DEF MsgProxyChannelOpenConfirm
<1>9. CASE t = "MsgProxyChannelOpenFinalize"
  <2>1. Structs[t] = MsgProxyChannelOpenFinalize BY <1>9 DEF Structs, TxStructs, LightClientStructs
  <2> QED BY <2>1 DEF MsgProxyChannelOpenFinalize
<1>10. CASE t = "MsgProxyRecvPacket"
  <2>1. Structs[t] = MsgProxyRecvPacket BY <1>10 DEF Structs, TxStructs, LightClientStructs
  <2> QED BY <2>1 DEF MsgProxyRecvPacket
<1>11. CASE t = "MsgProxyAcknowledgePacket"
  <2>1. Structs[t] = MsgProxyAcknowledgePacket BY <1>11 DEF Structs, TxStructs, LightClientStructs
  <2> QED BY <2>1 DEF MsgProxyAcknowledgePacket
<1>12. CASE t = "MultivClientState"
  <2>1. Structs[t] = MultivClientState BY <1>12 DEF Structs, TxStructs, LightClientStructs
  <2> QED BY <2>1 DEF MultivClientState
<1>13. CASE t = "MultiProof"
  <2>1. Structs[t] = MultiProof BY <1>13 DEF Structs, TxStructs, LightClientStructs
  <2> QED BY <2>1 DEF MultiProof
<1>14. CASE t = "Proof"
  <2>1. Structs[t] = Proof BY <1>14 DEF Structs, TxStructs, LightClientStructs
  <2> QED BY <2>1 DEF Proof
<1>15. CASE t = "LeafProof"
  <2>1. Structs[t] = LeafProof BY <1>15 DEF Structs, TxStructs, LightClientStructs
  <2> QED BY <2>1 DEF LeafProof
<1>16. CASE t = "ProxyClientState"
  <2>1. Structs[t] = ProxyClientState BY <1>16 DEF Structs, TxStructs, LightClientStructs
  <2> QED BY <2>1 DEF ProxyClientState
<1>17. CASE t = "ProxyConsensusState"
  <2>1. Structs[t] = ProxyConsensusState BY <1>17 DEF Structs, TxStructs, LightClientStructs
  <2> QED BY <2>1 DEF ProxyConsensusState
<1> QED BY StructNames, <1>1, <1>2, <1>3, <1>4, <1>5, <1>6, <1>7, <1>8, <1>9, <1>10, <1>11, <1>12, <1>13, <1>14, <1>15, <1>16, <1>17

\* Slices of at most i bytes have at most j.
LEMMA LongerValues ==
  ASSUME NEW type, NEW i \in Int, NEW j \in Int, i <= j, NEW v \in FieldValues(type, i),
         type \in {"string", "bytes", "message", "pointer", "repeated", "int32", "uint32"}
  PROVE  v \in FieldValues(type, j)
<1>1. \A b \in Slices(i) : b \in Slices(j) BY DEF Slices
<1>2. \A p \in Seq(Slices(i)) : p \in Seq(Slices(j)) BY <1>1
<1>3. CASE type \in {"string", "bytes", "message"} BY <1>1, <1>3 DEF FieldValues
<1>4. CASE type = "pointer" BY <1>2, <1>4 DEF FieldValues
<1>5. CASE type = "repeated" BY <1>2, <1>5 DEF FieldValues
<1>6. CASE type = "int32" BY <1>6 DEF FieldValues
<1>7. CASE type = "uint32" BY <1>7 DEF FieldValues
<1> QED BY <1>3, <1>4, <1>5, <1>6, <1>7

\* A field that takes the bytes b grows by b at most.
LEMMA StoreTyped ==
  ASSUME NEW how, NEW type, Suits(how, type), how # "varint",
         NEW i \in Nat, NEW j \in Nat, NEW b \in Seq(Byte), i + Len(b) <= j,
         NEW old \in FieldValues(type, i)
  PROVE  Store(how, old, b) \in FieldValues(type, j)
<1>1. b \in Slices(j) /\ i <= j BY DEF Slices
<1>2. \A p \in Seq(Slices(i)) : p \in Seq(Slices(j))
  <2>1. \A c \in Slices(i) : c \in Slices(j) BY <1>1 DEF Slices
  <2> QED BY <2>1
<1>3. CASE how = "set" BY <1>1, <1>3 DEF Store, FieldValues, Suits
<1>4. CASE how = "merge"
  <2>1. old \in Slices(i) /\ Store(how, old, b) = old \o b BY <1>4 DEF FieldValues, Suits, Store
  <2>2. old \o b \in Slices(j) BY <2>1 DEF Slices
  <2> QED BY <1>4, <2>1, <2>2 DEF FieldValues, Suits
<1>5. CASE how = "allocate"
  <2>1. type = "pointer" /\ old \in Seq(Slices(i)) BY <1>5 DEF FieldValues, Suits
  <2> DEFINE c == IF old = <<>> THEN b ELSE old[1] \o b
  <2>2. c \in Slices(j)
    <3>1. CASE old = <<>> BY <1>1, <3>1
    <3>2. CASE old # <<>>
      <4>1. old[1] \in Slices(i) BY <2>1, <3>2
      <4>2. old[1] \o b \in Slices(j) BY <4>1 DEF Slices
      <4> QED BY <3>2, <4>2
    <3> QED BY <3>1, <3>2
  <2>3. Store(how, old, b) = <<c>> BY <1>5 DEF Store
  <2> HIDE DEF c
  <2>4. <<c>> \in Seq(Slices(j)) /\ Len(<<c>>) <= 1 BY <2>2
  <2> QED BY <2>1, <2>3, <2>4 DEF FieldValues
<1>6. CASE how \in {"append", "appendMessage"}
  <2>1. type = "repeated" /\ old \in Seq(Slices(i)) BY <1>6 DEF FieldValues, Suits
  <2>2. Store(how, old, b) = Append(old, b) BY <1>6 DEF Store
  <2>3. old \in Seq(Slices(j)) BY <1>2, <2>1
  <2>4. Append(old, b) \in Seq(Slices(j)) BY <1>1, <2>3
  <2> QED BY <2>1, <2>2, <2>4 DEF FieldValues
<1> QED BY <1>3, <1>4, <1>5, <1>6 DEF Suits

\* The empty message.
LEMMA ZeroTyped ==
  ASSUME NEW t \in DOMAIN Structs, NEW n \in Nat
  PROVE  IsMessage(t, Zero(t), n)
<1>1. Zero(t) = [f \in DOMAIN Structs[t] |-> Zero(t)[f]] BY DEF Zero
<1>2. ASSUME NEW f \in DOMAIN Structs[t] PROVE Zero(t)[f] \in FieldValues(Structs[t][f], n)
  <2>1. Zero(t)[f] = IF Structs[t][f] \in {"int32", "uint32"} THEN 0 ELSE <<>> BY DEF Zero
  <2>2. <<>> \in Slices(n) /\ <<>> \in Seq(Slices(n)) /\ Len(<<>>) <= 1 BY DEF Slices
  <2>3. CASE Structs[t][f] \in {"int32", "uint32"}
    <3>1. Zero(t)[f] = 0 BY <2>1, <2>3
    <3>2. /\ 0 \in -Pow2[HalfBits - 1]..(Pow2[HalfBits - 1] - 1)
          /\ 0 \in 0..(Pow2[HalfBits] - 1)
      BY WordTyped
    <3> QED BY <2>3, <3>1, <3>2 DEF FieldValues
  <2>4. CASE Structs[t][f] \notin {"int32", "uint32"}
    <3>1. Zero(t)[f] = <<>> BY <2>1, <2>4
    <3>2. CASE Structs[t][f] \in {"string", "bytes", "message"} BY <2>2, <3>1, <3>2 DEF FieldValues
    <3>3. CASE Structs[t][f] = "pointer" BY <2>2, <3>1, <3>3 DEF FieldValues
    <3>4. CASE Structs[t][f] = "repeated" BY <2>2, <3>1, <3>4 DEF FieldValues
    <3> QED BY <2>4, <3>2, <3>3, <3>4, FieldTypes
  <2> QED BY <2>3, <2>4
<1> QED BY <1>1, <1>2 DEF IsMessage

\* A message whose slices have at most i bytes has slices of at most j.
LEMMA LongerMessage ==
  ASSUME NEW t \in DOMAIN Structs, NEW m, NEW i \in Int, NEW j \in Int, i <= j, IsMessage(t, m, i)
  PROVE  IsMessage(t, m, j)
<1>1. ASSUME NEW f \in DOMAIN Structs[t] PROVE m[f] \in FieldValues(Structs[t][f], j)
  <2>1. m[f] \in FieldValues(Structs[t][f], i) BY DEF IsMessage
  <2> QED BY <2>1, FieldTypes, LongerValues
<1> QED BY <1>1 DEF IsMessage

\* A message with one field set.
LEMMA FieldSet ==
  ASSUME NEW t \in DOMAIN Structs, NEW m, NEW i \in Int, NEW j \in Int, i <= j, IsMessage(t, m, i),
         NEW f \in DOMAIN Structs[t], NEW v \in FieldValues(Structs[t][f], j)
  PROVE  IsMessage(t, [m EXCEPT ![f] = v], j)
<1>1. IsMessage(t, m, j) BY LongerMessage
<1> QED BY <1>1 DEF IsMessage

-----------------------------------------------------------------------------
(* The inductive invariant. *)

\* A buffer fits into memory: the length of a Go slice is an int.
BufferFits == Len(data) <= MaxInt

WireTypes ==
  /\ kind \in DOMAIN Structs
  /\ Len(sent) \in Nat /\ DOMAIN sent = 1..Len(sent)
  /\ data \in Seq(Byte)
  /\ index \in 0..Len(data) /\ offset \in Nat /\ depth \in Nat /\ iterations \in Nat

\* What was sent fits into memory, and what has been decoded came out of the bytes read.
MessagesFit ==
  /\ \A i \in DOMAIN sent : IsMessage(kind, sent[i], MaxInt)
  /\ IsMessage(kind, message, index)
  /\ status \in {"sending", "sent"} => index = 0

\* Every run of the loops is paid for by a byte: Unmarshal's by one that it has passed,
\* skipTx's by one that it has passed within the field.
RunsPaid ==
  /\ status \in {"sending", "sent"} => iterations = 0
  /\ status = "decoding" => iterations <= 2 * index
  /\ status = "skipping" => index < Len(data) /\ iterations <= 2 * index + 1 + offset
  /\ iterations <= 2 * Len(data)

WireInv == WireTypes /\ MessagesFit /\ RunsPaid /\ NeverPanics

\* The first states.
LEMMA InitWire == WireInit => WireInv
<1> SUFFICES ASSUME WireInit PROVE WireInv OBVIOUS
<1>1. kind \in DOMAIN Structs /\ data \in Seq(Byte)
  <2>1. CASE kind \in Kinds /\ data = <<>> BY <2>1, WireAssumption
  <2>2. CASE kind \in RawKinds /\ data \in RawBuffers BY <2>2, WireAssumption
  <2> QED BY <2>1, <2>2 DEF WireInit
<1>2. /\ Len(sent) \in Nat /\ DOMAIN sent = 1..Len(sent)
      /\ \A i \in DOMAIN sent : IsMessage(kind, sent[i], MaxInt)
  <2>1. CASE kind \in Kinds /\ sent \in Batches(kind) BY <2>1, WireAssumption
  <2>2. CASE sent = <<>> BY <2>2
  <2> QED BY <2>1, <2>2 DEF WireInit
<1>3. /\ index = 0 /\ offset = 0 /\ depth = 0 /\ iterations = 0 /\ message = Zero(kind)
      /\ status \in {"sending", "decoding"}
  BY DEF WireInit
<1>4. WireTypes BY <1>1, <1>2, <1>3 DEF WireTypes
<1>5. MessagesFit BY <1>1, <1>2, <1>3, ZeroTyped DEF MessagesFit
<1>6. RunsPaid BY <1>1, <1>3 DEF RunsPaid
<1>7. NeverPanics BY <1>3 DEF NeverPanics
<1> QED BY <1>4, <1>5, <1>6, <1>7 DEF WireInv

\* Marshal writes bytes, and every message fits into its buffer.
LEMMA MarshalBatchStep ==
  ASSUME WireInv, MarshalBatch
  PROVE  WireInv'
<1> DEFINE k == Len(sent)
           e == [i \in DOMAIN sent |-> Marshal(kind, sent[i])]
<1>1. ASSUME NEW i \in DOMAIN sent
      PROVE  Fits(kind, sent[i]) /\ Marshal(kind, sent[i]) \in Seq(Byte)
  <2>1. kind \in DOMAIN Structs /\ IsMessage(kind, sent[i], MaxInt)
    BY DEF WireInv, WireTypes, MessagesFit
  <2> QED BY <2>1, MarshalTyped
<1>2. /\ data' = FlattenSeq(e) /\ status = "sending" /\ status' = "sent"
      /\ UNCHANGED <<kind, sent, index, message, offset, depth, iterations>>
  BY <1>1 DEF MarshalBatch, skipVars
<1>3. k \in Nat /\ e \in [1..k -> Seq(Byte)] BY <1>1 DEF WireInv, WireTypes
<1> HIDE DEF e, k
<1>4. data' \in Seq(Byte) BY <1>2, <1>3, FlattenLength
<1>5. index = 0 /\ iterations = 0 BY <1>2 DEF WireInv, MessagesFit, RunsPaid
<1>6. WireTypes' BY <1>2, <1>4, <1>5 DEF WireInv, WireTypes
<1>7. MessagesFit' BY <1>2, <1>5 DEF WireInv, MessagesFit
<1>8. RunsPaid' BY <1>2, <1>4, <1>5 DEF RunsPaid
<1>9. NeverPanics' BY <1>2 DEF NeverPanics
<1> QED BY <1>6, <1>7, <1>8, <1>9 DEF WireInv

\* Whatever bytes arrive, decoding starts at their beginning.
LEMMA ReceiveStep ==
  ASSUME WireInv, status = "sent", NEW d \in Seq(Byte), Receive(d)
  PROVE  WireInv'
<1>1. /\ data' = d /\ status' = "decoding" /\ index = 0 /\ iterations = 0
      /\ UNCHANGED <<kind, sent, index, message, offset, depth, iterations>>
  BY DEF Receive, skipVars, WireInv, MessagesFit, RunsPaid
<1>2. WireTypes' BY <1>1 DEF WireInv, WireTypes
<1>3. MessagesFit' BY <1>1 DEF WireInv, MessagesFit
<1>4. RunsPaid' BY <1>1 DEF RunsPaid
<1>5. NeverPanics' BY <1>1 DEF NeverPanics
<1> QED BY <1>2, <1>3, <1>4, <1>5 DEF WireInv

LEMMA TransportStep ==
  ASSUME WireInv, Deliver \/ Cut \/ Extend
  PROVE  WireInv'
<1>1. data \in Seq(Byte) BY DEF WireInv, WireTypes
<1>2. CASE Deliver BY <1>1, <1>2, ReceiveStep DEF Deliver
<1>3. CASE Cut
  <2>1. PICK n \in 0..(Len(data) - 1) : Receive(SubSeq(data, 1, n)) BY <1>3 DEF Cut
  <2>2. SubSeq(data, 1, n) \in Seq(Byte) BY <1>1
  <2>3. status = "sent" BY <1>3 DEF Cut
  <2> QED BY <2>1, <2>2, <2>3, ReceiveStep
<1>4. CASE Extend
  <2>1. PICK u \in UnknownFields : Receive(u \o data) \/ Receive(data \o u) BY <1>4 DEF Extend
  <2>2. u \in Seq(Byte) BY WireAssumption
  <2>3. u \o data \in Seq(Byte) /\ data \o u \in Seq(Byte) BY <1>1, <2>2
  <2>4. status = "sent" BY <1>4 DEF Extend
  <2> QED BY <2>1, <2>3, <2>4, ReceiveStep
<1> QED BY <1>2, <1>3, <1>4

\* A step that refuses, or ends, decoding.
LEMMA EndStep ==
  ASSUME WireInv, status \in {"decoding", "skipping"}, status' \in {"malformed", "decoded"},
         UNCHANGED <<kind, sent, data, index, message, offset, depth>>,
         iterations' \in Nat, iterations' <= 2 * Len(data)
  PROVE  WireInv'
<1>1. WireTypes' BY DEF WireInv, WireTypes
<1>2. MessagesFit' BY DEF WireInv, MessagesFit
<1>3. RunsPaid' BY DEF RunsPaid
<1>4. NeverPanics' BY DEF NeverPanics
<1> QED BY <1>1, <1>2, <1>3, <1>4 DEF WireInv

\* A step that stores a field: the index has passed at least its tag.
LEMMA FieldStep ==
  ASSUME WireInv, status = "decoding", status' = "decoding",
         UNCHANGED <<kind, sent, data, offset, depth>>, iterations' = iterations + 1,
         index' \in Nat, index < index', index' <= Len(data), IsMessage(kind, message', index')
  PROVE  WireInv'
<1>0. index \in Nat /\ iterations \in Nat /\ Len(data) \in Nat /\ iterations <= 2 * index
  BY DEF WireInv, WireTypes, RunsPaid
<1>1. WireTypes' BY <1>0 DEF WireInv, WireTypes
<1>2. MessagesFit' BY DEF WireInv, MessagesFit
<1>3. RunsPaid'
  <2> DEFINE i == index
             j == index'
             l == Len(data)
             k == iterations
  <2>0. i \in Nat /\ j \in Nat /\ l \in Nat /\ k \in Nat /\ i < j /\ j <= l /\ k <= 2 * i
    BY <1>0
  <2> HIDE DEF i, j, k, l
  <2>1. iterations' <= 2 * index' /\ 2 * index' <= 2 * Len(data)
    <3>1. k + 1 <= 2 * j /\ 2 * j <= 2 * l BY <2>0
    <3> QED BY <3>1 DEF i, j, k, l
  <2>2. iterations' <= 2 * Len(data') BY <1>0, <2>1
  <2> QED BY <2>1, <2>2 DEF RunsPaid
<1>4. NeverPanics' BY DEF NeverPanics
<1> QED BY <1>1, <1>2, <1>3, <1>4 DEF WireInv

\* Unmarshal, one field.
LEMMA UnmarshalFieldStep ==
  ASSUME WireInv, BufferFits, UnmarshalField
  PROVE  WireInv'
<1> DEFINE tag == ReadVarint(data, index)
           fieldNum == FieldNumber(tag.val)
           case == Cases[kind][fieldNum]
<1>0. /\ status = "decoding" /\ index < Len(data) /\ iterations' = iterations + 1
      /\ UNCHANGED <<kind, sent, data>>
  BY DEF UnmarshalField
<1>1. /\ kind \in DOMAIN Structs /\ data \in Seq(Byte) /\ Len(data) \in Nat /\ index \in Nat
      /\ Len(data) <= MaxInt /\ iterations \in Nat /\ iterations <= 2 * index
      /\ IsMessage(kind, message, index)
  BY <1>0 DEF WireInv, WireTypes, RunsPaid, MessagesFit, BufferFits
<1>2. iterations' \in Nat /\ iterations' <= 2 * Len(data) /\ iterations' <= 2 * index + 1
  BY <1>0, <1>1
<1>3. CASE Refuse("malformed") /\ UNCHANGED skipVars
  BY <1>0, <1>2, <1>3, EndStep DEF Refuse, skipVars
<1>4. CASE SkipUnknown
  <2>1. status' = "skipping" /\ offset' = 0 /\ depth' = 0 /\ UNCHANGED <<index, message>>
    BY <1>4 DEF SkipUnknown
  <2>2. WireTypes' BY <1>0, <1>2, <2>1 DEF WireInv, WireTypes
  <2>3. MessagesFit' BY <1>0, <2>1 DEF WireInv, MessagesFit
  <2>4. RunsPaid' BY <1>0, <1>1, <1>2, <2>1 DEF RunsPaid
  <2>5. NeverPanics' BY <2>1 DEF NeverPanics
  <2> QED BY <2>2, <2>3, <2>4, <2>5 DEF WireInv
<1>5. ASSUME tag.err = "none"
      PROVE  tag.next \in Nat /\ index < tag.next /\ tag.next <= Len(data)
  BY <1>1, <1>5, ReadVarintTyped
<1>6. ASSUME fieldNum \in DOMAIN Cases[kind]
      PROVE  case[2] \in DOMAIN Structs[kind] /\ Suits(case[1], Structs[kind][case[2]])
  BY <1>1, <1>6, CasesSuit
<1>7. CASE /\ tag.err = "none" /\ fieldNum \in DOMAIN Cases[kind] /\ case[1] = "varint"
           /\ ReadNumber(case[2], tag.next) /\ UNCHANGED skipVars
  <2> DEFINE at == tag.next
             f == case[2]
             r == ReadVarint(data, at)
             v == IF Structs[kind][f] = "int32" THEN Signed(r.val, HalfBits)
                                                ELSE r.val % Pow2[HalfBits]
  <2>1. at \in Nat /\ index < at /\ at <= Len(data) BY <1>5, <1>7
  <2>2. f \in DOMAIN Structs[kind] /\ Structs[kind][f] \in {"int32", "uint32"}
    BY <1>6, <1>7 DEF Suits
  <2>3. ReadNumber(f, at) /\ UNCHANGED <<offset, depth>> BY <1>7 DEF skipVars
  <2> HIDE DEF at, f
  <2>4. CASE r.err # "none"
    <3>1. Refuse("malformed") BY <2>3, <2>4 DEF ReadNumber
    <3> QED BY <1>0, <1>2, <2>3, <3>1, EndStep DEF Refuse
  <2>5. CASE r.err = "none"
    <3>1. r.next \in Nat /\ at < r.next /\ r.next <= Len(data) /\ r.val \in Int
      BY <1>1, <2>1, <2>5, ReadVarintTyped, WordTyped
    <3>2. message' = [message EXCEPT ![f] = v] /\ index' = r.next /\ UNCHANGED status
      BY <2>3, <2>5 DEF ReadNumber
    <3> HIDE DEF r
    <3>3. v \in FieldValues(Structs[kind][f], index')
      <4>1. CASE Structs[kind][f] = "int32" BY <3>1, <4>1, SignedHalf DEF FieldValues
      <4>2. CASE Structs[kind][f] = "uint32" BY <3>1, <4>2, SignedHalf DEF FieldValues
      <4> QED BY <2>2, <4>1, <4>2
    <3> HIDE DEF v
    <3>5. index' \in Nat /\ index < index' /\ index' <= Len(data) BY <1>1, <2>1, <3>1, <3>2
    <3>6. IsMessage(kind, message', index')
      <4>1. index \in Int /\ index' \in Int /\ index <= index' BY <1>1, <3>5
      <4> QED BY <1>1, <2>2, <3>2, <3>3, <4>1, FieldSet
    <3> QED BY <1>0, <2>3, <3>2, <3>5, <3>6, FieldStep
  <2> QED BY <2>4, <2>5
<1>8. CASE /\ tag.err = "none" /\ fieldNum \in DOMAIN Cases[kind] /\ case[1] # "varint"
           /\ ReadDelimited(case[1], case[2], tag.next) /\ UNCHANGED skipVars
  <2> DEFINE at == tag.next
             how == case[1]
             f == case[2]
             r == ReadLength(data, at)
             value == SubSeq(data, r.next + 1, r.val)
  <2>1. at \in Nat /\ index < at /\ at <= Len(data) BY <1>5, <1>8
  <2>2. f \in DOMAIN Structs[kind] /\ Suits(how, Structs[kind][f]) /\ how # "varint"
    BY <1>6, <1>8
  <2>3. ReadDelimited(how, f, at) /\ UNCHANGED <<offset, depth>> BY <1>8 DEF skipVars
  <2> HIDE DEF at, f, how
  <2>4. CASE Refuse("malformed")
    BY <1>0, <1>2, <2>3, <2>4, EndStep DEF Refuse
  <2>5. CASE r.err = "none" /\ r.val <= Len(data) /\ ~ Refuse("malformed")
    <3>1. /\ r.next \in Nat /\ at < r.next /\ r.val \in Nat /\ r.next <= r.val
      BY <1>1, <2>1, <2>5, ReadLengthTyped, WordTyped
    <3>2. Sliceable(data, r.next, r.val) BY <1>1, <2>5, <3>1 DEF Sliceable
    <3>3. message' = [message EXCEPT ![f] = Store(how, @, value)] /\ index' = r.val /\ UNCHANGED status
      BY <2>3, <2>5, <3>2 DEF ReadDelimited
    <3> HIDE DEF r
    <3>4. value \in Seq(Byte) /\ Len(value) = r.val - r.next BY <1>1, <2>5, <3>1
    <3> HIDE DEF value
    <3>5. index' \in Nat /\ index < index' /\ index' <= Len(data) /\ index + Len(value) <= index'
      BY <1>1, <2>1, <2>5, <3>1, <3>3, <3>4
    <3>6. message[f] \in FieldValues(Structs[kind][f], index) BY <1>1, <2>2 DEF IsMessage
    <3>7. Store(how, message[f], value) \in FieldValues(Structs[kind][f], index')
      BY <1>1, <2>2, <3>4, <3>5, <3>6, StoreTyped
    <3>8. message' = [message EXCEPT ![f] = Store(how, message[f], value)]
      BY <3>3
    <3>9. IsMessage(kind, message', index')
      <4>1. index \in Int /\ index' \in Int /\ index <= index' BY <1>1, <3>5
      <4> QED BY <1>1, <2>2, <3>7, <3>8, <4>1, FieldSet
    <3> QED BY <1>0, <2>3, <3>3, <3>5, <3>9, FieldStep
  <2>6. CASE r.err # "none" \/ ~ (r.val <= Len(data))
    <3>1. Refuse("malformed")
      <4>1. r.err # "none" \/ r.val > Len(data)
        <5>1. r.err = "none" => r.val \in Nat BY <1>1, <2>1, ReadLengthTyped, WordTyped
        <5> QED BY <1>1, <2>6, <5>1
      <4> QED BY <2>3, <4>1 DEF ReadDelimited
    <3> QED BY <2>4, <3>1
  <2> QED BY <2>4, <2>5, <2>6
<1> QED BY <1>3, <1>4, <1>7, <1>8 DEF UnmarshalField

\* skipTx, one run of its loop, and its end.
LEMMA SkipStep ==
  ASSUME WireInv, BufferFits, SkipField \/ SkipEnd
  PROVE  WireInv'
<1>0. /\ kind \in DOMAIN Structs /\ data \in Seq(Byte) /\ Len(data) \in Nat /\ index \in Nat
      /\ Len(data) <= MaxInt /\ iterations \in Nat /\ offset \in Nat /\ depth \in Nat
      /\ index < Len(data) /\ iterations <= 2 * index + 1 + offset /\ iterations <= 2 * Len(data)
      /\ status = "skipping" /\ UNCHANGED <<kind, sent, data, message>>
  BY DEF WireInv, WireTypes, RunsPaid, BufferFits, SkipField, SkipEnd
<1>1. CASE SkipEnd
  <2>1. status' = "malformed" /\ UNCHANGED <<kind, sent, data, index, message, offset, depth, iterations>>
    BY <1>1 DEF SkipEnd, skipVars
  <2> QED BY <1>0, <2>1, EndStep
<1>2. CASE SkipField
  <2> DEFINE rest == SubSeq(data, index + 1, Len(data))
             run == SkipOnce(rest, offset, depth)
  <2>1. rest \in Seq(Byte) /\ Len(rest) = Len(data) - index BY <1>0
  <2>2. index + offset < Len(data) /\ iterations' = iterations + 1 BY <1>2 DEF SkipField
  <2>3. iterations' \in Nat /\ iterations' <= 2 * Len(data) BY <1>0, <2>2
  <2>4. CASE status' = "malformed" /\ UNCHANGED <<index, skipVars>>
    BY <1>0, <2>3, <2>4, EndStep DEF skipVars
  <2>5. CASE run.err = "none"
    <3>1. /\ offset' = run.next /\ depth' = run.val
          /\ IF run.val = 0 THEN Skipped(run.next) ELSE UNCHANGED <<index, status>>
      BY <1>2, <2>5 DEF SkipField
    <3>2. run.next \in Nat /\ offset < run.next /\ run.next <= MaxInt /\ run.val \in Nat
      <4>1. Len(rest) <= MaxInt BY <1>0, <2>1, WordTyped
      <4> HIDE DEF rest
      <4> QED BY <1>0, <2>1, <2>5, <4>1, SkipOnceTyped
    <3>4. depth' \in Nat BY <3>1, <3>2
    <3> HIDE DEF run
    <3> DEFINE n == run.next
               left == run.val
    <3>5. n \in 0..MaxInt /\ offset < n /\ offset' = n BY <1>0, <3>1, <3>2, WordTyped
    <3>6. IF left = 0 THEN Skipped(n) ELSE UNCHANGED <<index, status>> BY <3>1
    <3> HIDE DEF n, left
    <3>7. CASE UNCHANGED <<index, status>>
      <4>1. WireTypes' BY <1>0, <2>3, <3>4, <3>5, <3>7 DEF WireInv, WireTypes
      <4>2. MessagesFit' BY <1>0, <3>7 DEF WireInv, MessagesFit
      <4>3. RunsPaid' BY <1>0, <2>2, <2>3, <3>5, <3>7, WordTyped DEF RunsPaid
      <4>4. NeverPanics' BY <1>0, <3>7 DEF NeverPanics
      <4> QED BY <4>1, <4>2, <4>3, <4>4 DEF WireInv
    <3>8. CASE Skipped(n)
      <4> DEFINE post == Advance(index, n)
      <4>1. index \in 0..MaxInt BY <1>0, WordTyped
      <4>2. \/ status' = "malformed" /\ UNCHANGED index
            \/ /\ post.err = "none" /\ ~ (post.val > Len(data))
               /\ status' = "decoding" /\ index' = post.val
        BY <3>8 DEF Skipped
      <4>3. CASE status' = "malformed" /\ UNCHANGED index
        <5>1. WireTypes' BY <1>0, <2>3, <3>4, <3>5, <4>3 DEF WireInv, WireTypes
        <5>2. MessagesFit' BY <1>0, <4>3 DEF WireInv, MessagesFit
        <5>3. RunsPaid' BY <1>0, <2>3, <4>3 DEF RunsPaid
        <5>4. NeverPanics' BY <4>3 DEF NeverPanics
        <5> QED BY <5>1, <5>2, <5>3, <5>4 DEF WireInv
      <4>4. CASE /\ post.err = "none" /\ ~ (post.val > Len(data))
                 /\ status' = "decoding" /\ index' = post.val
        <5>1. post.val = index + n BY <3>5, <4>1, <4>4, AdvanceTyped
        <5> HIDE DEF post
        <5>2. /\ index' \in Nat /\ index' <= Len(data) /\ index <= index'
              /\ iterations' <= 2 * index'
          BY <1>0, <2>2, <3>5, <4>4, <5>1, WordTyped
        <5>3. WireTypes' BY <1>0, <2>3, <3>4, <3>5, <5>2 DEF WireInv, WireTypes
        <5>4. IsMessage(kind, message, index') 
          <6>1. index \in Int /\ index' \in Int /\ IsMessage(kind, message, index)
            BY <1>0, <5>2 DEF WireInv, MessagesFit
          <6> QED BY <1>0, <5>2, <6>1, LongerMessage
        <5>5. MessagesFit' BY <1>0, <4>4, <5>4 DEF WireInv, MessagesFit
        <5>6. RunsPaid' BY <1>0, <2>3, <4>4, <5>2 DEF RunsPaid
        <5>7. NeverPanics' BY <4>4 DEF NeverPanics
        <5> QED BY <5>3, <5>5, <5>6, <5>7 DEF WireInv
      <4> QED BY <4>2, <4>3, <4>4
    <3> QED BY <3>6, <3>7, <3>8
  <2> QED BY <1>2, <2>4, <2>5 DEF SkipField
<1> QED BY <1>1, <1>2

\* The steps after decoding leave the buffer and the message alone.
LEMMA ServeStep ==
  ASSUME WireInv, UnpackInterfaces \/ GetSigners \/ Serve
  PROVE  WireInv'
<1>1. /\ status' \in {"unpacked", "refused", "authorized", "served", "unserved"}
      /\ UNCHANGED <<kind, sent, data, index, message, offset, depth, iterations>>
  BY DEF UnpackInterfaces, GetSigners, Serve, skipVars
<1>2. WireTypes' BY <1>1 DEF WireInv, WireTypes
<1>3. MessagesFit' BY <1>1 DEF WireInv, MessagesFit
<1>4. RunsPaid' BY <1>1 DEF WireInv, RunsPaid
<1>5. NeverPanics' BY <1>1 DEF NeverPanics
<1> QED BY <1>2, <1>3, <1>4, <1>5 DEF WireInv

\* What was decoded from a buffer that fits into memory can be marshalled.
LEMMA MarshalAgainStep ==
  ASSUME WireInv, BufferFits, MarshalAgain
  PROVE  WireInv'
<1>1. kind \in DOMAIN Structs /\ IsMessage(kind, message, MaxInt)
  <2>1. /\ kind \in DOMAIN Structs /\ index \in Int /\ MaxInt \in Int /\ index <= MaxInt
        /\ IsMessage(kind, message, index)
    BY WordTyped DEF WireInv, WireTypes, MessagesFit, BufferFits
  <2> QED BY <2>1, LongerMessage
<1>2. Fits(kind, message) /\ Marshal(kind, message) \in Seq(Byte) BY <1>1, MarshalTyped
<1>3. /\ data' \in Seq(Byte) /\ status' = "decoding" /\ sent' = <<message>>
      /\ index' = 0 /\ iterations' = 0 /\ message' = Zero(kind)
      /\ UNCHANGED <<kind, offset, depth>>
  BY <1>2 DEF MarshalAgain, skipVars
<1>4. WireTypes' BY <1>3 DEF WireInv, WireTypes
<1>5. MessagesFit'
  <2>1. IsMessage(kind, Zero(kind), 0) BY <1>1, ZeroTyped
  <2> QED BY <1>1, <1>3, <2>1 DEF MessagesFit
<1>6. RunsPaid' BY <1>3 DEF RunsPaid
<1>7. NeverPanics' BY <1>3 DEF NeverPanics
<1> QED BY <1>4, <1>5, <1>6, <1>7 DEF WireInv

LEMMA NextWire == WireInv /\ BufferFits /\ [WireNext]_vars => WireInv'
<1> SUFFICES ASSUME WireInv, BufferFits, [WireNext]_vars PROVE WireInv' OBVIOUS
<1>1. CASE MarshalBatch BY <1>1, MarshalBatchStep
<1>2. CASE Deliver \/ Cut \/ Extend BY <1>2, TransportStep
<1>3. CASE UnmarshalField BY <1>3, UnmarshalFieldStep
<1>4. CASE UnmarshalEnd
  <2>1. /\ status = "decoding" /\ status' \in {"malformed", "decoded"}
        /\ UNCHANGED <<kind, sent, data, index, message, offset, depth, iterations>>
    BY <1>4 DEF UnmarshalEnd, skipVars
  <2>2. iterations' \in Nat /\ iterations' <= 2 * Len(data)
    BY <2>1 DEF WireInv, WireTypes, RunsPaid
  <2> QED BY <2>1, <2>2, EndStep
<1>5. CASE SkipField \/ SkipEnd BY <1>5, SkipStep
<1>6. CASE UnpackInterfaces \/ GetSigners \/ Serve BY <1>6, ServeStep
<1>7. CASE MarshalAgain BY <1>7, MarshalAgainStep
<1>8. CASE UNCHANGED vars
  <2>1. UNCHANGED <<kind, sent, data, index, message, offset, depth, iterations, status>>
    BY <1>8 DEF vars, skipVars
  <2>2. WireTypes' BY <2>1 DEF WireInv, WireTypes
  <2>3. MessagesFit' BY <2>1 DEF WireInv, MessagesFit
  <2>4. RunsPaid' BY <2>1 DEF WireInv, RunsPaid
  <2>5. NeverPanics' BY <2>1 DEF WireInv, NeverPanics
  <2> QED BY <2>2, <2>3, <2>4, <2>5 DEF WireInv
<1> QED BY <1>1, <1>2, <1>3, <1>4, <1>5, <1>6, <1>7, <1>8 DEF WireNext

-----------------------------------------------------------------------------
(* The theorems.  No assumption is made on what the buffers hold.          *)

\* The inductive invariant holds as long as every buffer fits into memory.
THEOREM WireInvariant == WireSpec /\ []BufferFits => []WireInv
<1>1. WireInit => WireInv BY InitWire
<1>2. WireInv /\ BufferFits /\ [WireNext]_vars => WireInv' BY NextWire
<1> QED BY <1>1, <1>2, PTL DEF WireSpec

\* No codec panics: whatever the width of a word, the message, the cut, the unknown fields
\* and the bytes that arrive, Size() is what MarshalToSizedBuffer writes, and Unmarshal takes
\* no slice out of the bounds of the buffer.
THEOREM CodecNeverPanics == WireSpec /\ []BufferFits => []NeverPanics
<1>1. WireInv => NeverPanics BY DEF WireInv
<1> QED BY <1>1, WireInvariant, PTL

\* Unmarshal and skipTx end on every buffer: together their loops run at most twice for
\* each byte.
THEOREM UnmarshalEnds == WireSpec /\ []BufferFits => []DecodeEnds
<1>1. WireInv => DecodeEnds BY DEF WireInv, RunsPaid, DecodeEnds
<1> QED BY <1>1, WireInvariant, PTL

UnpackedFields(t) == {Unpacks(t)[i][1] : i \in DOMAIN Unpacks(t)}

\* After UnpackInterfaces the cached values are those of the fields that hold a value.
CacheFilled ==
  /\ status \in {"unpacked", "authorized", "served", "unserved"} =>
        cached = {f \in UnpackedFields(kind) : TypeOf(message[f]) # NoType}
  /\ status = "unserved" => ~ (ServerReads(kind) \subseteq cached)

\* Every Any that a handler reads is one that UnpackInterfaces unpacks.
LEMMA ReadsAreUnpacked ==
  ASSUME NEW t, NEW f \in ServerReads(t)
  PROVE  f \in UnpackedFields(t)
<1>1. CASE t = "MsgProxyClientState"
  BY <1>1 DEF ServerReads, UnpackedFields, Unpacks, UnpackMsgProxyClientState
<1>2. CASE t = "MsgProxyConnectionOpenTry"
  BY <1>2 DEF ServerReads, UnpackedFields, Unpacks, UnpackMsgProxyConnectionOpenTry
<1>3. CASE t = "MsgProxyConnectionOpenAck"
  BY <1>3 DEF ServerReads, UnpackedFields, Unpacks, UnpackMsgProxyConnectionOpenAck
<1>4. CASE t = "MultivClientState"
  BY <1>4 DEF ServerReads, UnpackedFields, Unpacks, UnpackMultivClientState
<1>5. CASE t = "ProxyClientState"
  BY <1>5 DEF ServerReads, UnpackedFields, Unpacks, UnpackProxyClientState
<1>6. CASE t = "ProxyConsensusState"
  BY <1>6 DEF ServerReads, UnpackedFields, Unpacks, UnpackProxyConsensusState
<1> QED BY <1>1, <1>2, <1>3, <1>4, <1>5, <1>6 DEF ServerReads

LEMMA NextCache == CacheFilled /\ [WireNext]_vars => CacheFilled'
<1> SUFFICES ASSUME CacheFilled, [WireNext]_vars PROVE CacheFilled' OBVIOUS
<1>1. CASE status' \notin {"unpacked", "authorized", "served", "unserved"}
  BY <1>1 DEF CacheFilled
<1>2. CASE MarshalBatch \/ Deliver \/ Cut \/ Extend \/ UnmarshalEnd \/ SkipField \/ SkipEnd \/ MarshalAgain
  <2>1. status' \notin {"unpacked", "authorized", "served", "unserved"}
    BY <1>2 DEF MarshalBatch, Deliver, Cut, Extend, Receive, UnmarshalEnd, SkipField, SkipEnd,
                Skipped, MarshalAgain
  <2> QED BY <1>1, <2>1
<1>3. CASE UnmarshalField
  <2>1. status' \notin {"unpacked", "authorized", "served", "unserved"}
    BY <1>3 DEF UnmarshalField, Refuse, SkipUnknown, ReadNumber, ReadDelimited
  <2> QED BY <1>1, <2>1
<1>4. CASE UnpackInterfaces
  <2> DEFINE us == Unpacks(kind)
  <2>1. CASE status' = "unpacked"
    <3>1. /\ cached' = {us[i][1] : i \in {j \in DOMAIN us : TypeOf(message[us[j][1]]) # NoType}}
          /\ kind' = kind /\ message' = message
      BY <1>4, <2>1 DEF UnpackInterfaces
    <3> HIDE DEF us
    <3>2. cached' = {f \in {us[i][1] : i \in DOMAIN us} : TypeOf(message[f]) # NoType}
      BY <3>1
    <3> QED BY <2>1, <3>1, <3>2 DEF CacheFilled, UnpackedFields, us
  <2> QED BY <1>1, <1>4, <2>1 DEF UnpackInterfaces
<1>5. CASE GetSigners \/ Serve
  <2>1. /\ status \in {"unpacked", "authorized"} /\ UNCHANGED <<kind, message, cached>>
        /\ status' \in {"refused", "authorized", "served", "unserved"}
        /\ status' = "unserved" => ~ (ServerReads(kind) \subseteq cached)
    BY <1>5 DEF GetSigners, Serve
  <2> QED BY <2>1 DEF CacheFilled
<1>6. CASE UNCHANGED vars BY <1>6 DEF vars, CacheFilled
<1> QED BY <1>2, <1>3, <1>4, <1>5, <1>6 DEF WireNext

\* A handler of the message server, or a light client, misses a value only if the sender left
\* it out, whatever the messages and buffers are.
THEOREM HandlersReadUnpacked == WireSpec => []HandlerReadsUnpacked
<1>1. WireInit => CacheFilled BY DEF WireInit, CacheFilled
<1>2. CacheFilled /\ [WireNext]_vars => CacheFilled' BY NextCache
<1>3. CacheFilled => HandlerReadsUnpacked
  <2> SUFFICES ASSUME CacheFilled, status = "unserved"
               PROVE  \E f \in ServerReads(kind) : TypeOf(message[f]) = NoType
    BY DEF HandlerReadsUnpacked
  <2>1. PICK f \in ServerReads(kind) : f \notin cached BY DEF CacheFilled
  <2>2. f \in UnpackedFields(kind) BY ReadsAreUnpacked
  <2> QED BY <2>1, <2>2 DEF CacheFilled
<1> QED BY <1>1, <1>2, <1>3, PTL DEF WireSpec

=============================================================================
