------------------------- MODULE WireRoundTripProofs -------------------------
(***************************************************************************)
(* What is marshalled is what is unmarshalled.  Unmarshal and skipTx are a *)
(* decoder whose states are tuples (Dec, Skp) and whose runs are steps     *)
(* between them (Steps).  Marshal writes the fields in the order of their  *)
(* numbers; from wherever a buffer holds their encoding, the decoder has a *)
(* way (Path) to its end that merges the fields one after the other, and   *)
(* unknown fields leave the message as it is.  The decoder is              *)
(* deterministic, so that the actions of Wire follow that way, and a step  *)
(* depends on the bytes it has read only, so that they follow it as far as *)
(* a buffer that was cut short reaches.                                    *)
(***************************************************************************)
EXTENDS WireProofs, SequenceTheorems

-----------------------------------------------------------------------------
(* Arithmetic, and varints. *)

\* Division with remainder.
LEMMA Division ==
  ASSUME NEW a \in Int, NEW p \in Nat, p > 0
  PROVE  \E q \in Int, r \in 0..(p - 1) : q = a \div p /\ r = a % p /\ a = p * q + r
<1> DEFINE q == a \div p
           r == a % p
<1>1. q \in Int /\ r \in 0..(p - 1) /\ r = a - p * q OBVIOUS
<1>2. q = a \div p /\ r = a % p OBVIOUS
<1> HIDE DEF q, r
<1>3. p * q \in Int BY <1>1
<1>4. a = p * q + r BY <1>1, <1>3
<1> QED BY <1>1, <1>2, <1>4

\* Quotient and remainder are unique.
LEMMA DivisionUnique ==
  ASSUME NEW p \in Nat, p > 0, NEW q \in Int, NEW r \in 0..(p - 1)
  PROVE  (p * q + r) \div p = q /\ (p * q + r) % p = r
OBVIOUS

\* The quotient of natural numbers is one.
LEMMA DivisionNatural ==
  ASSUME NEW a \in Nat, NEW p \in Nat, p > 0
  PROVE  a \div p \in Nat
OBVIOUS

\* Seven more bits of a number are one more group of its varint.
LEMMA ModStep ==
  ASSUME NEW a \in Nat, NEW p \in Nat, p > 0
  PROVE  a % (128 * p) = (a % p) + ((a \div p) % 128) * p
<1>1. PICK q \in Int, r \in 0..(p - 1) : q = a \div p /\ r = a % p /\ a = p * q + r BY Division
<1> DEFINE x == q \div 128
           y == q % 128
<1>2. x \in Int /\ q = 128 * x + y /\ y \in 0..127 BY <1>1
<1> HIDE DEF x, y
<1>3. a = (128 * p) * x + (y * p + r) BY <1>1, <1>2
<1>4. y * p + r \in 0..(128 * p - 1)
  <2>1. y * p \in Nat /\ y * p <= 127 * p BY <1>2
  <2> QED BY <1>1, <2>1
<1>5. 128 * p \in Nat /\ 128 * p > 0 OBVIOUS
<1>6. a % (128 * p) = y * p + r
  <2> DEFINE P == 128 * p
             R == y * p + r
  <2>1. P \in Nat /\ P > 0 /\ R \in 0..(P - 1) /\ a = P * x + R BY <1>3, <1>4, <1>5
  <2> HIDE DEF P, R
  <2>2. a % P = R BY <1>2, <2>1, DivisionUnique
  <2> QED BY <2>2 DEF P, R
<1>7. y * p + r = r + y * p
  <2>1. y * p \in Int BY <1>2
  <2> QED BY <1>1, <2>1
<1> QED BY <1>1, <1>6, <1>7 DEF x, y

\* The weights of the groups of a varint.
LEMMA PowersGroup ==
  ASSUME NEW k \in 0..(Groups - 1)
  PROVE  /\ 7 * k \in 0..(7 * Groups) /\ 7 * (k + 1) \in 0..(7 * Groups)
         /\ Pow2[7 * k] \in Nat /\ Pow2[7 * k] > 0 /\ Pow2[7 * (k + 1)] = 128 * Pow2[7 * k]
<1>1. 7 * k \in 0..(7 * Groups) /\ 7 * k \in Nat /\ 7 * k + 7 <= 7 * Groups /\ 7 * (k + 1) = 7 * k + 7
  BY GroupsTyped
<1> DEFINE i == 7 * k
<1>2. i \in Nat /\ i + 7 <= 7 * Groups /\ 7 * Groups \in Nat BY <1>1, GroupsTyped
<1> HIDE DEF i
<1>3. /\ Pow2[i + 1] = 2 * Pow2[i] /\ Pow2[(i + 1) + 1] = 2 * Pow2[i + 1]
      /\ Pow2[(i + 2) + 1] = 2 * Pow2[i + 2] /\ Pow2[(i + 3) + 1] = 2 * Pow2[i + 3]
      /\ Pow2[(i + 4) + 1] = 2 * Pow2[i + 4] /\ Pow2[(i + 5) + 1] = 2 * Pow2[i + 5]
      /\ Pow2[(i + 6) + 1] = 2 * Pow2[i + 6]
  <2>1. \A n \in Nat : n < 7 * Groups => Pow2[n + 1] = 2 * Pow2[n] BY Powers
  <2>2. \A n \in 0..6 : i + n \in Nat /\ i + n < 7 * Groups BY <1>2
  <2>3. \A n \in 0..6 : Pow2[(i + n) + 1] = 2 * Pow2[i + n] BY <2>1, <2>2
  <2>4. Pow2[(i + 0) + 1] = 2 * Pow2[i + 0] /\ i + 0 = i BY <1>2, <2>3
  <2> QED BY <2>3, <2>4
<1>4. (i + 1) + 1 = i + 2 /\ (i + 2) + 1 = i + 3 /\ (i + 3) + 1 = i + 4 /\ (i + 4) + 1 = i + 5
      /\ (i + 5) + 1 = i + 6 /\ (i + 6) + 1 = i + 7 BY <1>2
<1>5. Pow2[i] \in Nat /\ Pow2[i] > 0
  <2>1. i \in 0..(7 * Groups) BY <1>2
  <2> QED BY <2>1, Powers
<1>6. Pow2[i + 7] = 128 * Pow2[i]
  <2>1. Pow2[i + 2] = 4 * Pow2[i] BY <1>3, <1>4, <1>5
  <2>2. Pow2[i + 3] = 8 * Pow2[i] BY <1>3, <1>4, <1>5, <2>1
  <2>3. Pow2[i + 4] = 16 * Pow2[i] BY <1>3, <1>4, <1>5, <2>2
  <2>4. Pow2[i + 5] = 32 * Pow2[i] BY <1>3, <1>4, <1>5, <2>3
  <2>5. Pow2[i + 6] = 64 * Pow2[i] BY <1>3, <1>4, <1>5, <2>4
  <2> QED BY <1>3, <1>4, <1>5, <2>5
<1> QED BY <1>1, <1>5, <1>6, GroupsTyped DEF i

\* The buffer d holds e after the index i.
At(d, i, e) == i + Len(e) <= Len(d) /\ \A j \in 1..Len(e) : d[i + j] = e[j]

\* A byte of a varint: the group, and whether it is the last one.
LEMMA EncodedByte ==
  ASSUME NEW v \in 0..(Pow2[WordBits] - 1), NEW j \in 1..Sov(v)
  PROVE  /\ EncodeVarint(v)[j] < 128 <=> j = Sov(v)
         /\ EncodeVarint(v)[j] % 128 = (v \div Pow2[7 * (j - 1)]) % 128
         /\ (v \div Pow2[7 * (j - 1)]) % 128 \in 0..127
<1>1. Sov(v) \in 1..Groups /\ Sov(v) \in Nat BY SovTyped, GroupsTyped
<1>2. Pow2[7 * (j - 1)] \in Nat /\ Pow2[7 * (j - 1)] > 0
  <2>1. j - 1 \in 0..(Groups - 1) BY <1>1, GroupsTyped
  <2> QED BY <2>1, PowersGroup
<1> DEFINE b == (v \div Pow2[7 * (j - 1)]) % 128
<1>3. b \in 0..127
  <2>1. v \div Pow2[7 * (j - 1)] \in Int BY <1>2
  <2> QED BY <2>1
<1>4. EncodeVarint(v)[j] = b + (IF j < Sov(v) THEN 128 ELSE 0) BY <1>1 DEF EncodeVarint
<1> HIDE DEF b
<1>5. b + 128 \in 128..255 /\ (b + 128) % 128 = b /\ b % 128 = b /\ b + 0 = b BY <1>3
<1>6. CASE j < Sov(v) BY <1>1, <1>3, <1>4, <1>5, <1>6 DEF b
<1>7. CASE j = Sov(v) BY <1>1, <1>3, <1>4, <1>5, <1>7 DEF b
<1> QED BY <1>1, <1>6, <1>7

\* The groups of a varint add up to its value.
LEMMA GroupsSum ==
  ASSUME NEW v \in 0..(Pow2[WordBits] - 1), NEW d \in Seq(Byte), NEW i \in Nat,
         At(d, i, EncodeVarint(v))
  PROVE  GroupsValue(d, i, Sov(v)) = v
<1> DEFINE n == Sov(v)
           t == [j \in 1..n |-> (d[i + j] % 128) * Pow2[7 * (j - 1)]]
<1>1. n \in 1..Groups /\ n \in Nat /\ v < Pow2[7 * n] /\ v \in Nat BY SovTyped, GroupsTyped, WordTyped
<1>2. ASSUME NEW j \in 1..n
      PROVE  /\ j - 1 \in 0..(Groups - 1)
             /\ t[j] = ((v \div Pow2[7 * (j - 1)]) % 128) * Pow2[7 * (j - 1)]
             /\ t[j] \in Int
  <2>1. j - 1 \in 0..(Groups - 1) BY <1>1, GroupsTyped
  <2>2. Pow2[7 * (j - 1)] \in Nat BY <2>1, PowersGroup
  <2>3. d[i + j] = EncodeVarint(v)[j] BY EncodeVarintTyped DEF At
  <2>4. /\ d[i + j] % 128 = (v \div Pow2[7 * (j - 1)]) % 128
        /\ (v \div Pow2[7 * (j - 1)]) % 128 \in 0..127
    BY <2>3, EncodedByte
  <2> DEFINE a == (v \div Pow2[7 * (j - 1)]) % 128
             b == Pow2[7 * (j - 1)]
  <2>5. t[j] = a * b /\ a \in Int /\ b \in Int BY <2>2, <2>4
  <2>6. a * b \in Int
    <3> HIDE DEF a, b
    <3> QED BY <2>5
  <2> HIDE DEF t
  <2> QED BY <2>1, <2>5, <2>6
<1>3. GroupsValue(d, i, n) = Total(t) % Pow2[WordBits] BY DEF GroupsValue
<1>4. t \in [1..n -> Int]
  <2>1. t = [j \in 1..n |-> t[j]] OBVIOUS
  <2> HIDE DEF t
  <2> QED BY <1>2, <2>1
<1> HIDE DEF t, n
<1>5. PICK f : /\ f \in [0..n -> Int] /\ f[0] = 0 /\ Total(t) = f[n]
               /\ \A j \in 1..n : f[j] = f[j - 1] + t[j]
  BY <1>1, <1>4, TotalPartial
<1> DEFINE S == {k \in Nat : k <= n => f[k] = v % Pow2[7 * k]}
<1>6. 0 \in S
  <2>1. v % 1 = 0 BY <1>1
  <2>2. Pow2[7 * 0] = 1 BY Powers
  <2> QED BY <1>5, <2>1, <2>2
<1>7. ASSUME NEW k \in Nat, k \in S PROVE k + 1 \in S
  <2> SUFFICES ASSUME k + 1 <= n PROVE f[k + 1] = v % Pow2[7 * (k + 1)] OBVIOUS
  <2>1. k + 1 \in 1..n /\ (k + 1) - 1 = k /\ k \in 0..(Groups - 1) /\ k <= n
    BY <1>1, GroupsTyped
  <2> DEFINE P == Pow2[7 * k]
  <2>2. P \in Nat /\ P > 0 /\ Pow2[7 * (k + 1)] = 128 * P BY <2>1, PowersGroup
  <2>3. f[k + 1] = f[k] + t[k + 1] BY <1>5, <2>1
  <2>4. t[k + 1] = ((v \div P) % 128) * P BY <1>2, <2>1
  <2>5. f[k] = v % P BY <1>7, <2>1
  <2> HIDE DEF P
  <2>6. v % (128 * P) = (v % P) + ((v \div P) % 128) * P BY <1>1, <2>2, ModStep
  <2> QED BY <2>2, <2>3, <2>4, <2>5, <2>6, Zenon
<1>8. \A k \in Nat : k \in S
  <2> HIDE DEF S
  <2> QED BY <1>6, <1>7, SetInduction
<1>9. Total(t) = v % Pow2[7 * n] BY <1>1, <1>5, <1>8
<1>10. v % Pow2[7 * n] = v
  <2> DEFINE P == Pow2[7 * n]
  <2>1. 7 * n \in 0..(7 * Groups) BY <1>1, GroupsTyped
  <2>2. P \in Nat BY <2>1, Powers
  <2>3. v \in 0..(P - 1) BY <1>1, <2>2
  <2> HIDE DEF P
  <2>4. v % P = v BY <2>2, <2>3, SmallRemainder
  <2> QED BY <2>4 DEF P
<1>11. v % Pow2[WordBits] = v
  <2> DEFINE P == Pow2[WordBits]
  <2>1. P \in Nat /\ v \in 0..(P - 1) BY WordTyped
  <2> HIDE DEF P
  <2>2. v % P = v BY <2>1, SmallRemainder
  <2> QED BY <2>2 DEF P
<1> QED BY <1>3, <1>9, <1>10, <1>11 DEF n

\* What EncodeVarint wrote is what is read.
LEMMA ReadEncoded ==
  ASSUME NEW v \in 0..(Pow2[WordBits] - 1), NEW d \in Seq(Byte), NEW i \in Nat,
         At(d, i, EncodeVarint(v))
  PROVE  ReadVarint(d, i) = Read(v, i + Sov(v))
<1> DEFINE ends == {j \in 1..Groups : i + j <= Len(d) /\ d[i + j] < 128}
           n == Sov(v)
<1>1. n \in 1..Groups /\ n \in Nat /\ Groups \in Nat BY SovTyped, GroupsTyped
<1>2. i + n <= Len(d) /\ \A j \in 1..n : d[i + j] = EncodeVarint(v)[j]
  BY EncodeVarintTyped DEF At
<1>3. \A j \in 1..n : d[i + j] < 128 <=> j = n BY <1>2, EncodedByte
<1>4. n \in ends /\ \A j \in ends : n <= j
  <2>1. n \in ends BY <1>1, <1>2, <1>3
  <2>2. ASSUME NEW j \in ends PROVE n <= j
    <3>1. j \in 1..n => j = n BY <1>3
    <3> QED BY <1>1, <3>1
  <2> QED BY <2>1, <2>2
<1>5. ends \subseteq Nat BY <1>1
<1>6. ReadVarint(d, i) = IF ends # {} THEN Read(GroupsValue(d, i, Min(ends)), i + Min(ends))
                         ELSE Fail(IF i + Groups <= Len(d) THEN "overflow" ELSE "eof")
  BY DEF ReadVarint
<1> HIDE DEF ends
<1>7. Min(ends) = n
  <2> DEFINE x == Min(ends)
  <2>1. x \in ends /\ \A j \in ends : x <= j BY <1>4 DEF Min
  <2> HIDE DEF x, n
  <2>2. x <= n /\ n <= x /\ x \in Nat /\ n \in Nat BY <1>1, <1>4, <1>5, <2>1
  <2>3. x = n BY <2>2
  <2> QED BY <2>3 DEF x
<1>8. GroupsValue(d, i, n) = v BY GroupsSum
<1> QED BY <1>4, <1>6, <1>7, <1>8

\* A buffer holds two sequences in a row if it holds both.
LEMMA AtJoin ==
  ASSUME NEW d \in Seq(Byte), NEW i \in Nat, NEW a \in Seq(Byte), NEW b \in Seq(Byte)
  PROVE  At(d, i, a \o b) <=> At(d, i, a) /\ At(d, i + Len(a), b)
<1> DEFINE e == a \o b
<1>1. Len(a) \in Nat /\ Len(b) \in Nat /\ Len(e) = Len(a) + Len(b) /\ Len(d) \in Nat OBVIOUS
<1>2. \A j \in 1..Len(a) : e[j] = a[j] OBVIOUS
<1>3. \A j \in 1..Len(b) : e[Len(a) + j] = b[j] OBVIOUS
<1> HIDE DEF e
<1>4. ASSUME At(d, i, e) PROVE At(d, i, a) /\ At(d, i + Len(a), b)
  <2>1. i + Len(e) <= Len(d) /\ \A j \in 1..Len(e) : d[i + j] = e[j] BY <1>4 DEF At
  <2>2. At(d, i, a)
    <3>1. \A j \in 1..Len(a) : j \in 1..Len(e) BY <1>1
    <3> QED BY <1>1, <1>2, <2>1, <3>1 DEF At
  <2>3. At(d, i + Len(a), b)
    <3>1. ASSUME NEW j \in 1..Len(b) PROVE d[(i + Len(a)) + j] = b[j]
      <4>1. Len(a) + j \in 1..Len(e) /\ (i + Len(a)) + j = i + (Len(a) + j) BY <1>1
      <4> QED BY <1>3, <2>1, <4>1
    <3> QED BY <1>1, <2>1, <3>1 DEF At
  <2> QED BY <2>2, <2>3
<1>5. ASSUME At(d, i, a), At(d, i + Len(a), b) PROVE At(d, i, e)
  <2>1. /\ (i + Len(a)) + Len(b) <= Len(d)
        /\ \A j \in 1..Len(a) : d[i + j] = a[j]
        /\ \A j \in 1..Len(b) : d[(i + Len(a)) + j] = b[j]
    BY <1>5 DEF At
  <2>2. ASSUME NEW j \in 1..Len(e) PROVE d[i + j] = e[j]
    <3>1. CASE j \in 1..Len(a) BY <1>2, <2>1, <3>1
    <3>2. CASE j \notin 1..Len(a)
      <4> DEFINE k == j - Len(a)
      <4>1. k \in 1..Len(b) /\ (i + Len(a)) + k = i + j /\ Len(a) + k = j BY <1>1, <3>2
      <4> HIDE DEF k
      <4>2. d[(i + Len(a)) + k] = b[k] /\ e[Len(a) + k] = b[k] BY <1>3, <2>1, <4>1
      <4> QED BY <4>1, <4>2
    <3> QED BY <3>1, <3>2
  <2> QED BY <1>1, <2>1, <2>2 DEF At
<1> QED BY <1>4, <1>5 DEF e

\* The tag of field n.
Tag(n, wt) ==
  IF 8 * n + wt < 128 THEN <<8 * n + wt>>
  ELSE <<((8 * n + wt) % 128) + 128, (8 * n + wt) \div 128>>

\* The tags that Marshal writes as literals are varints.
LEMMA TagEncoded ==
  ASSUME NEW n \in 1..16, NEW wt \in {0, 2}
  PROVE  /\ 8 * n + wt \in 0..(Pow2[WordBits] - 1)
         /\ EncodeVarint(8 * n + wt) = Tag(n, wt) /\ Sov(8 * n + wt) = Len(Tag(n, wt))
         /\ Tag(n, wt) \in Seq(Byte)
<1> DEFINE v == 8 * n + wt
<1>1. v \in 8..130 OBVIOUS
<1>2. Tag(n, wt) = IF v < 128 THEN <<v>> ELSE <<(v % 128) + 128, v \div 128>> BY DEF Tag
<1> HIDE DEF v
<1>3. v \in 0..(Pow2[WordBits] - 1) BY <1>1, WordTyped
<1>4. /\ Sov(v) \in 1..Groups /\ v < Pow2[7 * Sov(v)]
      /\ Sov(v) > 1 => v >= Pow2[7 * (Sov(v) - 1)]
  BY <1>3, SovTyped
<1>5. Groups \in Nat /\ Groups >= 2 BY GroupsTyped
<1>6. Pow2[0] = 1 /\ Pow2[7] = 128 /\ Pow2[14] = 16384
  <2>1. Pow2[7 * 0] = 1 BY Powers
  <2>2. 0 \in 0..(Groups - 1) /\ 1 \in 0..(Groups - 1) BY <1>5
  <2>3. Pow2[7 * (0 + 1)] = 128 * Pow2[7 * 0] /\ Pow2[7 * (1 + 1)] = 128 * Pow2[7 * 1]
    BY <2>2, PowersGroup
  <2> QED BY <2>1, <2>3
<1>7. \A k \in 0..Groups : 7 * k \in 0..(7 * Groups) /\ Pow2[7 * k] \in Nat
  <2>1. \A k \in 0..Groups : 7 * k \in 0..(7 * Groups) BY <1>5
  <2> QED BY <2>1, Powers
<1>8. CASE v < 128
  <2>1. Sov(v) = 1
    <3> SUFFICES ASSUME Sov(v) > 1 PROVE FALSE BY <1>4, <1>5
    <3>1. Sov(v) - 1 \in 0..Groups /\ 7 * (Sov(v) - 1) \in 0..(7 * Groups) /\ 7 <= 7 * (Sov(v) - 1)
      BY <1>4, <1>5
    <3>2. 7 \in 0..(7 * Groups) BY <1>5
    <3>3. Pow2[7] <= Pow2[7 * (Sov(v) - 1)] /\ Pow2[7 * (Sov(v) - 1)] \in Nat
      BY <1>7, <3>1, <3>2, PowersGrow
    <3> QED BY <1>1, <1>4, <1>6, <1>8, <3>3
  <2>2. EncodeVarint(v) = [i \in 1..1 |-> ((v \div Pow2[7 * (i - 1)]) % 128) + (IF i < 1 THEN 128 ELSE 0)]
    BY <2>1 DEF EncodeVarint
  <2>3. v \div 1 = v /\ v % 128 = v BY <1>1, <1>8
  <2>4. EncodeVarint(v) = <<v>>
    <3>1. \A i \in 1..1 : ((v \div Pow2[7 * (i - 1)]) % 128) + (IF i < 1 THEN 128 ELSE 0) = v
      BY <1>1, <1>6, <2>3
    <3> QED BY <2>2, <3>1
  <2>5. v \in Byte BY <1>1 DEF Byte
  <2> QED BY <1>2, <1>3, <1>8, <2>1, <2>4, <2>5 DEF v
<1>9. CASE v >= 128
  <2>1. Sov(v) = 2
    <3>1. Sov(v) # 1 BY <1>1, <1>4, <1>6, <1>9
    <3> SUFFICES ASSUME Sov(v) > 2 PROVE FALSE BY <1>4, <1>5, <3>1
    <3>2. Sov(v) - 1 \in 0..Groups /\ 7 * (Sov(v) - 1) \in 0..(7 * Groups) /\ 14 <= 7 * (Sov(v) - 1)
      BY <1>4, <1>5
    <3>3. 14 \in 0..(7 * Groups) BY <1>5
    <3>4. Pow2[14] <= Pow2[7 * (Sov(v) - 1)] /\ Pow2[7 * (Sov(v) - 1)] \in Nat
      BY <1>7, <3>2, <3>3, PowersGrow
    <3> QED BY <1>1, <1>4, <1>6, <3>4
  <2>2. EncodeVarint(v) = [i \in 1..2 |-> ((v \div Pow2[7 * (i - 1)]) % 128) + (IF i < 2 THEN 128 ELSE 0)]
    BY <2>1 DEF EncodeVarint
  <2>3. /\ v \div 1 = v /\ (v \div 128) % 128 = v \div 128 /\ v \div 128 \in 0..1
        /\ (v % 128) + 128 \in 0..255
    BY <1>1, <1>9
  <2>4. EncodeVarint(v) = <<(v % 128) + 128, v \div 128>>
    <3> DEFINE e(i) == ((v \div Pow2[7 * (i - 1)]) % 128) + (IF i < 2 THEN 128 ELSE 0)
    <3>1. e(1) = (v % 128) + 128 /\ e(2) = v \div 128 BY <1>1, <1>6, <2>3
    <3>2. EncodeVarint(v) = [i \in 1..2 |-> e(i)] BY <2>2
    <3> HIDE DEF e
    <3>3. EncodeVarint(v) = <<e(1), e(2)>> BY <3>2
    <3> QED BY <3>1, <3>3
  <2>5. (v % 128) + 128 \in Byte /\ v \div 128 \in Byte BY <2>3 DEF Byte
  <2> QED BY <1>1, <1>2, <1>3, <1>9, <2>1, <2>4, <2>5 DEF v
<1> QED BY <1>1, <1>8, <1>9

\* A tag is read as the number and the wire type it was written for.
LEMMA TagRead ==
  ASSUME NEW n \in 1..16, NEW wt \in {0, 2}, NEW d \in Seq(Byte), NEW i \in Nat,
         At(d, i, Tag(n, wt))
  PROVE  /\ ReadVarint(d, i) = Read(8 * n + wt, i + Len(Tag(n, wt)))
         /\ FieldNumber(8 * n + wt) = n /\ (8 * n + wt) % 8 = wt
<1>1. ReadVarint(d, i) = Read(8 * n + wt, i + Sov(8 * n + wt)) BY TagEncoded, ReadEncoded
<1>2. Sov(8 * n + wt) = Len(Tag(n, wt)) BY TagEncoded
<1>3. (8 * n + wt) \div 8 = n /\ (8 * n + wt) % 8 = wt OBVIOUS
<1>4. Signed(n, HalfBits) = n
  <2> DEFINE P == Pow2[HalfBits]
  <2>1. P \in Nat /\ n \in 0..(P - 1) BY WordTyped
  <2>2. n % P = n
    <3> HIDE DEF P
    <3> QED BY <2>1, SmallRemainder
  <2>3. Signed(n, HalfBits) = IF n >= Pow2[HalfBits - 1] THEN n - P ELSE n BY <2>2 DEF Signed
  <2>4. ~ (n >= Pow2[HalfBits - 1]) BY WordTyped
  <2> QED BY <2>3, <2>4, Zenon
<1> QED BY <1>1, <1>2, <1>3, <1>4 DEF FieldNumber

\* The length that was written is read, and the value that follows it.
LEMMA LengthRead ==
  ASSUME NEW b \in Slices(MaxInt), NEW d \in Seq(Byte), Len(d) <= MaxInt, NEW i \in Nat,
         NEW j \in Nat, j = i + Sov(Len(b)), At(d, i, EncodeVarint(Len(b))), At(d, j, b)
  PROVE  /\ ReadLength(d, i) = Read(j + Len(b), j)
         /\ SubSeq(d, j + 1, j + Len(b)) = b
         /\ j + Len(b) <= Len(d)
<1> DEFINE n == Len(b)
<1>1. /\ n \in Nat /\ Len(d) \in Nat /\ MaxInt \in Nat /\ j + n <= Len(d) /\ b \in Seq(Byte)
      /\ \A k \in 1..n : d[j + k] = b[k]
  BY WordTyped DEF At, Slices
<1>2. n \in 0..(Pow2[WordBits] - 1) /\ n <= MaxInt BY <1>1, WordTyped DEF Slices
<1> HIDE DEF n
<1>3. SubSeq(d, j + 1, j + n) = b
  <2> DEFINE q == SubSeq(d, j + 1, j + n)
  <2>1. \A k \in (j + 1)..(j + n) : d[k] \in Byte
    <3>1. \A k \in (j + 1)..(j + n) : k \in 1..Len(d) BY <1>1
    <3> QED BY <3>1
  <2>2. j + 1 \in Int /\ j + n \in Int BY <1>1
  <2>3. /\ q \in Seq(Byte) /\ Len(q) = IF j + 1 <= j + n THEN (j + n) - (j + 1) + 1 ELSE 0
        /\ \A k \in 1..((j + n) - (j + 1) + 1) : q[k] = d[(j + 1) + k - 1]
    BY <2>1, <2>2, SubSeqProperties
  <2> HIDE DEF q
  <2>4. Len(q) = n BY <1>1, <2>3
  <2>5. ASSUME NEW k \in 1..n PROVE q[k] = b[k]
    <3>1. k \in 1..((j + n) - (j + 1) + 1) /\ (j + 1) + k - 1 = j + k BY <1>1
    <3>2. q[k] = d[j + k] BY <2>3, <3>1
    <3> QED BY <1>1, <3>2
  <2>6. q = b BY <1>1, <2>3, <2>4, <2>5, SeqEqual DEF n
  <2> QED BY <2>6 DEF q
<1>4. ReadVarint(d, i) = Read(n, j) BY <1>2, ReadEncoded DEF n
<1>5. Signed(n, WordBits) = n BY <1>2, SignedWord
<1>6. Advance(j, n) = Read(j + n, j + n)
  <2>0. j + n \in Nat /\ j + n <= MaxInt BY <1>1
  <2>1. j + n \in 0..(Pow2[WordBits] - 1) BY <2>0, WordTyped
  <2>2. Signed(j + n, WordBits) = j + n BY <2>0, <2>1, SignedWord
  <2>3. Advance(j, n) = IF j + n < 0 THEN Fail("length") ELSE Read(j + n, j + n)
    BY <2>2 DEF Advance
  <2>4. ~ (j + n < 0) BY <1>1
  <2> QED BY <2>3, <2>4, Zenon
<1>7. ReadLength(d, i) = Read(j + n, j)
  BY <1>1, <1>4, <1>5, <1>6 DEF ReadLength, Read
<1> QED BY <1>1, <1>3, <1>7 DEF n

-----------------------------------------------------------------------------
(* The decoder's steps.  A state of the decoder of messages of the type t  *)
(* on the buffer d is the loop it is in, iNdEx, the message, and skipTx's  *)
(* iNdEx and depth.                                                        *)

Dec(i, m) == <<"decoding", i, m, 0, 0>>
Skp(i, m, o, k) == <<"skipping", i, m, o, k>>

\* Field number n, with the wire type wt, at the index i; its tag ends at j.
TagAt(d, i, n, wt, j) ==
  LET tag == ReadVarint(d, i) IN
  /\ tag.err = "none" /\ FieldNumber(tag.val) = n /\ tag.val % 8 = wt /\ tag.next = j

\* A length-delimited value b, read at the index i and ending at j.
ValueAt(d, i, b, j) ==
  LET r == ReadLength(d, i) IN
  /\ r.err = "none" /\ r.val = j /\ j <= Len(d) /\ b = SubSeq(d, r.next + 1, j)

DelimitedStep(t, d, i, m, j, x) ==
  \E n \in DOMAIN Cases[t], at \in Nat, b \in Seq(Byte) :
    LET how == Cases[t][n][1] IN
    /\ TagAt(d, i, n, 2, at) /\ how # "varint" /\ n > 0
    /\ ValueAt(d, at, b, j)
    /\ how \in {"merge", "allocate", "appendMessage"} => Decodes(b)
    /\ x = [m EXCEPT ![Cases[t][n][2]] = Store(how, m[Cases[t][n][2]], b)]

Number(type, v) == IF type = "int32" THEN Signed(v, HalfBits) ELSE v % Pow2[HalfBits]

NumberStep(t, d, i, m, j, x) ==
  \E n \in DOMAIN Cases[t], at \in Nat :
    LET f == Cases[t][n][2]
        r == ReadVarint(d, at)
    IN  /\ TagAt(d, i, n, 0, at) /\ Cases[t][n][1] = "varint" /\ n > 0
        /\ r.err = "none" /\ r.next = j
        /\ x = [m EXCEPT ![f] = Number(Structs[t][f], r.val)]

SkipStarts(t, d, i) ==
  \E n \in Int, wt \in 0..7, at \in Nat :
    TagAt(d, i, n, wt, at) /\ wt # 4 /\ n > 0 /\ n \notin DOMAIN Cases[t]

Rest(d, i) == SubSeq(d, i + 1, Len(d))

SkipsOn(d, s, z) ==
  LET run == SkipOnce(Rest(d, s[2]), s[4], s[5]) IN
  /\ run.err = "none"
  /\ \/ run.val # 0 /\ z = Skp(s[2], s[3], run.next, run.val)
     \/ run.val = 0 /\ s[2] + run.next <= Len(d) /\ z = Dec(s[2] + run.next, s[3])

Steps(t, d, s, z) ==
  \/ /\ s[1] = "decoding" /\ s[2] < Len(d)
     /\ \/ DelimitedStep(t, d, s[2], s[3], z[2], z[3]) /\ z = Dec(z[2], z[3])
        \/ NumberStep(t, d, s[2], s[3], z[2], z[3]) /\ z = Dec(z[2], z[3])
        \/ SkipStarts(t, d, s[2]) /\ z = Skp(s[2], s[3], 0, 0)
  \/ s[1] = "skipping" /\ s[2] + s[4] < Len(d) /\ SkipsOn(d, s, z)

\* Steps that lead from a to b with messages in Q.
Run(p, n, t, d, Q, a, b) ==
  /\ p[0] = a /\ p[n] = b /\ \A k \in 0..n : p[k][3] \in Q
  /\ \A k \in 0..(n - 1) : Steps(t, d, p[k], p[k + 1])

Path(t, d, Q, a, b) == \E n \in Nat : \E p : Run(p, n, t, d, Q, a, b)

\* The way from a state to itself.
LEMMA PathHere ==
  ASSUME NEW t, NEW d, NEW Q, NEW a, a[3] \in Q
  PROVE  Path(t, d, Q, a, a)
<1> DEFINE p == [k \in 0..0 |-> a]
<1>1. Run(p, 0, t, d, Q, a, a) BY DEF Run
<1> HIDE DEF p
<1>2. \E q : Run(q, 0, t, d, Q, a, a) BY <1>1
<1> QED BY <1>2 DEF Path

\* Both ends of a way hold messages in Q.
LEMMA PathWithin ==
  ASSUME NEW t, NEW d, NEW Q, NEW a, NEW b, Path(t, d, Q, a, b)
  PROVE  a[3] \in Q /\ b[3] \in Q
<1>1. PICK n \in Nat : \E p : Run(p, n, t, d, Q, a, b) BY DEF Path
<1>2. PICK p : Run(p, n, t, d, Q, a, b) BY <1>1
<1>3. 0 \in 0..n /\ n \in 0..n OBVIOUS
<1> QED BY <1>2, <1>3 DEF Run

\* Two ways, one after the other.
LEMMA PathJoin ==
  ASSUME NEW t, NEW d, NEW Q, NEW a, NEW b, NEW c, Path(t, d, Q, a, b), Path(t, d, Q, b, c)
  PROVE  Path(t, d, Q, a, c)
<1>1. PICK n \in Nat : \E p : Run(p, n, t, d, Q, a, b) BY DEF Path
<1>2. PICK p : Run(p, n, t, d, Q, a, b) BY <1>1
<1>3. PICK m \in Nat : \E q : Run(q, m, t, d, Q, b, c) BY DEF Path
<1>4. PICK q : Run(q, m, t, d, Q, b, c) BY <1>3
<1> DEFINE r == [k \in 0..(n + m) |-> IF k <= n THEN p[k] ELSE q[k - n]]
<1>5. \A k \in 0..n : r[k] = p[k]
  <2>1. \A k \in 0..n : k \in 0..(n + m) /\ k <= n OBVIOUS
  <2> QED BY <2>1
<1>6. \A k \in 0..m : r[n + k] = q[k]
  <2> SUFFICES ASSUME NEW k \in 0..m PROVE r[n + k] = q[k] OBVIOUS
  <2>1. CASE k = 0
    <3>1. r[n] = p[n] /\ n + k = n BY <1>5, <2>1
    <3>2. p[n] = b /\ q[0] = b BY <1>2, <1>4 DEF Run
    <3> HIDE DEF r
    <3> QED BY <2>1, <3>1, <3>2
  <2>2. CASE k # 0
    <3>1. n + k \in 0..(n + m) /\ ~ (n + k <= n) /\ (n + k) - n = k BY <2>2
    <3> QED BY <3>1
  <2> QED BY <2>1, <2>2
<1> HIDE DEF r
<1>7. Run(r, n + m, t, d, Q, a, c)
  <2>1. r[0] = a /\ r[n + m] = c
    <3>1. 0 \in 0..n /\ m \in 0..m OBVIOUS
    <3> QED BY <1>2, <1>4, <1>5, <1>6, <3>1 DEF Run
  <2>2. ASSUME NEW k \in 0..(n + m) PROVE r[k][3] \in Q
    <3>1. CASE k <= n
      <4>1. k \in 0..n BY <3>1
      <4> QED BY <1>2, <1>5, <4>1 DEF Run
    <3>2. CASE ~ (k <= n)
      <4>1. k - n \in 0..m /\ n + (k - n) = k BY <3>2
      <4> QED BY <1>4, <1>6, <4>1 DEF Run
    <3> QED BY <3>1, <3>2
  <2>3. ASSUME NEW k \in 0..((n + m) - 1) PROVE Steps(t, d, r[k], r[k + 1])
    <3>1. CASE k < n
      <4>1. k \in 0..n /\ k + 1 \in 0..n /\ k \in 0..(n - 1) BY <3>1
      <4> QED BY <1>2, <1>5, <4>1 DEF Run
    <3>2. CASE ~ (k < n)
      <4> DEFINE j == k - n
      <4>1. j \in 0..m /\ j + 1 \in 0..m /\ j \in 0..(m - 1) /\ n + j = k /\ n + (j + 1) = k + 1 BY <3>2
      <4> HIDE DEF j
      <4>2. r[k] = q[j] /\ r[k + 1] = q[j + 1] BY <1>6, <4>1
      <4> QED BY <1>4, <4>1, <4>2 DEF Run
    <3> QED BY <3>1, <3>2
  <2> QED BY <2>1, <2>2, <2>3 DEF Run
<1>8. n + m \in Nat OBVIOUS
<1>9. \E q2 : Run(q2, n + m, t, d, Q, a, c) BY <1>7
<1> QED BY <1>8, <1>9 DEF Path

\* A way of one step.
LEMMA PathStep ==
  ASSUME NEW t, NEW d, NEW Q, NEW a, NEW b, Steps(t, d, a, b), a[3] \in Q, b[3] \in Q
  PROVE  Path(t, d, Q, a, b)
<1> DEFINE p == [k \in 0..1 |-> IF k = 0 THEN a ELSE b]
<1>1. p[0] = a /\ p[1] = b OBVIOUS
<1> HIDE DEF p
<1>2. \A k \in 0..1 : p[k][3] \in Q
  <2>1. \A k \in 0..1 : k = 0 \/ k = 1 OBVIOUS
  <2> QED BY <1>1, <2>1
<1>3. \A k \in 0..(1 - 1) : Steps(t, d, p[k], p[k + 1])
  <2>1. \A k \in 0..(1 - 1) : k = 0 /\ k + 1 = 1 OBVIOUS
  <2> QED BY <1>1, <2>1
<1>4. Run(p, 1, t, d, Q, a, b) BY <1>1, <1>2, <1>3 DEF Run
<1>5. \E q : Run(q, 1, t, d, Q, a, b) BY <1>4
<1> QED BY <1>5 DEF Path

\* A way that leads elsewhere has a first step.
LEMMA PathFirst ==
  ASSUME NEW t, NEW d, NEW Q, NEW a, NEW b, Path(t, d, Q, a, b), a # b
  PROVE  \E z : Steps(t, d, a, z) /\ Path(t, d, Q, z, b)
<1>1. PICK n \in Nat : \E p : Run(p, n, t, d, Q, a, b) BY DEF Path
<1>2. PICK p : Run(p, n, t, d, Q, a, b) BY <1>1
<1>3. n # 0 BY <1>2 DEF Run
<1> DEFINE q == [k \in 0..(n - 1) |-> p[k + 1]]
<1>4. \A k \in 0..(n - 1) : q[k] = p[k + 1] OBVIOUS
<1> HIDE DEF q
<1>5. Run(q, n - 1, t, d, Q, p[1], b)
  <2>1. q[0] = p[1] /\ q[n - 1] = b
    <3>1. 0 \in 0..(n - 1) /\ n - 1 \in 0..(n - 1) /\ (n - 1) + 1 = n /\ 0 + 1 = 1 BY <1>3
    <3> QED BY <1>2, <1>4, <3>1 DEF Run
  <2>2. ASSUME NEW k \in 0..(n - 1) PROVE q[k][3] \in Q
    <3>1. k + 1 \in 0..n OBVIOUS
    <3> QED BY <1>2, <1>4, <3>1 DEF Run
  <2>3. ASSUME NEW k \in 0..((n - 1) - 1) PROVE Steps(t, d, q[k], q[k + 1])
    <3>1. k \in 0..(n - 1) /\ k + 1 \in 0..(n - 1) OBVIOUS
    <3> QED BY <1>2, <1>4, <3>1 DEF Run
  <2> QED BY <2>1, <2>2, <2>3 DEF Run
<1>6. Path(t, d, Q, p[1], b)
  <2>1. n - 1 \in Nat BY <1>3
  <2>2. \E r : Run(r, n - 1, t, d, Q, p[1], b) BY <1>5
  <2> QED BY <2>1, <2>2 DEF Path
<1>7. Steps(t, d, a, p[1])
  <2>1. 0 \in 0..(n - 1) /\ 0 + 1 = 1 BY <1>3
  <2> QED BY <1>2, <2>1 DEF Run
<1> QED BY <1>6, <1>7

-----------------------------------------------------------------------------
(* The numbers of the fields. *)

\* The numbers of the fields of a message go from 1 to N, each field has one.
Numbering(t, N) ==
  /\ DOMAIN Cases[t] = 1..N
  /\ \A a \in 1..N : \A b \in 1..N : Cases[t][a][2] = Cases[t][b][2] => a = b
  /\ DOMAIN Structs[t] = {Cases[t][n][2] : n \in 1..N}

\* The cases of every switch number the fields of its struct, from 1 on.
LEMMA Numbered ==
  ASSUME NEW t \in DOMAIN Structs
  PROVE  Len(Cases[t]) \in 1..16 /\ Numbering(t, Len(Cases[t]))
<1>1. CASE t = "MsgProxyClientState"
  <2>1. Structs[t] = MsgProxyClientState /\ Cases[t] = UnmarshalMsgProxyClientState
    BY <1>1 DEF Structs, Cases, TxStructs, LightClientStructs, TxCases, LightClientCases
  <2>2. DOMAIN Cases[t] = 1..10 /\ Len(Cases[t]) = 10 /\ 10 \in 1..16
    BY <2>1 DEF UnmarshalMsgProxyClientState
  <2>3. \A a \in 1..10 : \A b \in 1..10 : Cases[t][a][2] = Cases[t][b][2] => a = b
    BY <2>1 DEF UnmarshalMsgProxyClientState
  <2>4. DOMAIN Structs[t] =
        {"UpstreamClientId", "UpstreamPrefix", "CounterpartyClientId", "ClientState", 
         "ConsensusState", "ProofClient", "ProofConsensus", "ProofHeight", 
         "ConsensusHeight", "Signer"}
    BY <2>1 DEF MsgProxyClientState
  <2>5. \A f \in DOMAIN Structs[t] : \E n \in 1..10 : Cases[t][n][2] = f
    BY <2>1, <2>4 DEF UnmarshalMsgProxyClientState
  <2>6. \A n \in 1..10 : Cases[t][n][2] \in DOMAIN Structs[t]
    BY <2>2, CasesSuit
  <2>7. DOMAIN Structs[t] = {Cases[t][n][2] : n \in 1..10} BY <2>5, <2>6, Zenon
  <2>8. Numbering(t, 10) BY <2>2, <2>3, <2>7, Zenon DEF Numbering
  <2> QED BY <2>2, <2>8
<1>2. CASE t = "MsgProxyConnectionOpenTry"
  <2>1. Structs[t] = MsgProxyConnectionOpenTry /\ Cases[t] = UnmarshalMsgProxyConnectionOpenTry
    BY <1>2 DEF Structs, Cases, TxStructs, LightClientStructs, TxCases, LightClientCases
  <2>2. DOMAIN Cases[t] = 1..16 /\ Len(Cases[t]) = 16 /\ 16 \in 1..16
    BY <2>1 DEF UnmarshalMsgProxyConnectionOpenTry
  <2>3. \A a \in 1..16 : \A b \in 1..16 : Cases[t][a][2] = Cases[t][b][2] => a = b
    BY <2>1 DEF UnmarshalMsgProxyConnectionOpenTry
  <2>4. DOMAIN Structs[t] =
        {"ConnectionId", "UpstreamPrefix", "Connection", "DownstreamClientState", 
         "DownstreamConsensusState", "ProxyClientState", "ProofInit", "ProofClient", 
         "ProofConsensus", "ProofHeight", "ConsensusHeight", "ProofProxyClient", 
         "ProofProxyConsensus", "ProofProxyHeight", "ProxyConsensusHeight", "Signer"}
    BY <2>1 DEF MsgProxyConnectionOpenTry
  <2>5. \A f \in DOMAIN Structs[t] : \E n \in 1..16 : Cases[t][n][2] = f
    <3>1. /\ Cases[t][1][2] = "ConnectionId" /\ Cases[t][2][2] = "UpstreamPrefix"
          /\ Cases[t][3][2] = "Connection" /\ Cases[t][4][2] = "DownstreamClientState"
          /\ Cases[t][5][2] = "DownstreamConsensusState" /\ Cases[t][6][2] = "ProxyClientState"
          /\ Cases[t][7][2] = "ProofInit" /\ Cases[t][8][2] = "ProofClient"
          /\ Cases[t][9][2] = "ProofConsensus" /\ Cases[t][10][2] = "ProofHeight"
          /\ Cases[t][11][2] = "ConsensusHeight" /\ Cases[t][12][2] = "ProofProxyClient"
          /\ Cases[t][13][2] = "ProofProxyConsensus" /\ Cases[t][14][2] = "ProofProxyHeight"
          /\ Cases[t][15][2] = "ProxyConsensusHeight" /\ Cases[t][16][2] = "Signer"
      BY <2>1 DEF UnmarshalMsgProxyConnectionOpenTry
    <3>2. \A n \in {1, 2, 3, 4, 5, 6, 7, 8, 9, 10, 11, 12, 13, 14, 15, 16} : n \in 1..16 OBVIOUS
    <3> QED BY <2>4, <3>1, <3>2
  <2>6. \A n \in 1..16 : Cases[t][n][2] \in DOMAIN Structs[t]
    BY <2>2, CasesSuit
  <2>7. DOMAIN Structs[t] = {Cases[t][n][2] : n \in 1..16} BY <2>5, <2>6, Zenon
  <2>8. Numbering(t, 16) BY <2>2, <2>3, <2>7, Zenon DEF Numbering
  <2> QED BY <2>2, <2>8
<1>3. CASE t = "MsgProxyConnectionOpenAck"
  <2>1. Structs[t] = MsgProxyConnectionOpenAck /\ Cases[t] = UnmarshalMsgProxyConnectionOpenAck
    BY <1>3 DEF Structs, Cases, TxStructs, LightClientStructs, TxCases, LightClientCases
  <2>2. DOMAIN Cases[t] = 1..16 /\ Len(Cases[t]) = 16 /\ 16 \in 1..16
    BY <2>1 DEF UnmarshalMsgProxyConnectionOpenAck
  <2>3. \A a \in 1..16 : \A b \in 1..16 : Cases[t][a][2] = Cases[t][b][2] => a = b
    BY <2>1 DEF UnmarshalMsgProxyConnectionOpenAck
  <2>4. DOMAIN Structs[t] =
        {"ConnectionId", "UpstreamPrefix", "Connection", "DownstreamClientState", 
         "DownstreamConsensusState", "ProxyClientState", "ProofTry", "ProofClient", 
         "ProofConsensus", "ProofHeight", "ConsensusHeight", "ProofProxyClient", 
         "ProofProxyConsensus", "ProofProxyHeight", "ProxyConsensusHeight", "Signer"}
    BY <2>1 DEF MsgProxyConnectionOpenAck
  <2>5. \A f \in DOMAIN Structs[t] : \E n \in 1..16 : Cases[t][n][2] = f
    <3>1. /\ Cases[t][1][2] = "ConnectionId" /\ Cases[t][2][2] = "UpstreamPrefix"
          /\ Cases[t][3][2] = "Connection" /\ Cases[t][4][2] = "DownstreamClientState"
          /\ Cases[t][5][2] = "DownstreamConsensusState" /\ Cases[t][6][2] = "ProxyClientState"
          /\ Cases[t][7][2] = "ProofTry" /\ Cases[t][8][2] = "ProofClient"
          /\ Cases[t][9][2] = "ProofConsensus" /\ Cases[t][10][2] = "ProofHeight"
          /\ Cases[t][11][2] = "ConsensusHeight" /\ Cases[t][12][2] = "ProofProxyClient"
          /\ Cases[t][13][2] = "ProofProxyConsensus" /\ Cases[t][14][2] = "ProofProxyHeight"
          /\ Cases[t][15][2] = "ProxyConsensusHeight" /\ Cases[t][16][2] = "Signer"
      BY <2>1 DEF UnmarshalMsgProxyConnectionOpenAck
    <3>2. \A n \in {1, 2, 3, 4, 5, 6, 7, 8, 9, 10, 11, 12, 13, 14, 15, 16} : n \in 1..16 OBVIOUS
    <3> QED BY <2>4, <3>1, <3>2
  <2>6. \A n \in 1..16 : Cases[t][n][2] \in DOMAIN Structs[t]
    BY <2>2, CasesSuit
  <2>7. DOMAIN Structs[t] = {Cases[t][n][2] : n \in 1..16} BY <2>5, <2>6, Zenon
  <2>8. Numbering(t, 16) BY <2>2, <2>3, <2>7, Zenon DEF Numbering
  <2> QED BY <2>2, <2>8
<1>4. CASE t = "MsgProxyConnectionOpenConfirm"
  <2>1. Structs[t] = MsgProxyConnectionOpenConfirm /\ Cases[t] = UnmarshalMsgProxyConnectionOpenConfirm
    BY <1>4 DEF Structs, Cases, TxStructs, LightClientStructs, TxCases, LightClientCases
  <2>2. DOMAIN Cases[t] = 1..7 /\ Len(Cases[t]) = 7 /\ 7 \in 1..16
    BY <2>1 DEF UnmarshalMsgProxyConnectionOpenConfirm
  <2>3. \A a \in 1..7 : \A b \in 1..7 : Cases[t][a][2] = Cases[t][b][2] => a = b
    BY <2>1 DEF UnmarshalMsgProxyConnectionOpenConfirm
  <2>4. DOMAIN Structs[t] =
        {"ConnectionId", "UpstreamClientId", "UpstreamPrefix", "CounterpartyConnectionId", 
         "ProofAck", "ProofHeight", "Signer"}
    BY <2>1 DEF MsgProxyConnectionOpenConfirm
  <2>5. \A f \in DOMAIN Structs[t] : \E n \in 1..7 : Cases[t][n][2] = f
    BY <2>1, <2>4 DEF UnmarshalMsgProxyConnectionOpenConfirm
  <2>6. \A n \in 1..7 : Cases[t][n][2] \in DOMAIN Structs[t]
    BY <2>2, CasesSuit
  <2>7. DOMAIN Structs[t] = {Cases[t][n][2] : n \in 1..7} BY <2>5, <2>6, Zenon
  <2>8. Numbering(t, 7) BY <2>2, <2>3, <2>7, Zenon DEF Numbering
  <2> QED BY <2>2, <2>8
<1>5. CASE t = "MsgProxyConnectionOpenFinalize"
  <2>1. Structs[t] = MsgProxyConnectionOpenFinalize /\ Cases[t] = UnmarshalMsgProxyConnectionOpenFinalize
    BY <1>5 DEF Structs, Cases, TxStructs, LightClientStructs, TxCases, LightClientCases
  <2>2. DOMAIN Cases[t] = 1..6 /\ Len(Cases[t]) = 6 /\ 6 \in 1..16
    BY <2>1 DEF UnmarshalMsgProxyConnectionOpenFinalize
  <2>3. \A a \in 1..6 : \A b \in 1..6 : Cases[t][a][2] = Cases[t][b][2] => a = b
    BY <2>1 DEF UnmarshalMsgProxyConnectionOpenFinalize
  <2>4. DOMAIN Structs[t] =
        {"ConnectionId", "UpstreamClientId", "UpstreamPrefix", "ProofConfirm", 
         "ProofHeight", "Signer"}
    BY <2>1 DEF MsgProxyConnectionOpenFinalize
  <2>5. \A f \in DOMAIN Structs[t] : \E n \in 1..6 : Cases[t][n][2] = f
    BY <2>1, <2>4 DEF UnmarshalMsgProxyConnectionOpenFinalize
  <2>6. \A n \in 1..6 : Cases[t][n][2] \in DOMAIN Structs[t]
    BY <2>2, CasesSuit
  <2>7. DOMAIN Structs[t] = {Cases[t][n][2] : n \in 1..6} BY <2>5, <2>6, Zenon
  <2>8. Numbering(t, 6) BY <2>2, <2>3, <2>7, Zenon DEF Numbering
  <2> QED BY <2>2, <2>8
<1>6. CASE t = "MsgProxyChannelOpenTry"
  <2>1. Structs[t] = MsgProxyChannelOpenTry /\ Cases[t] = UnmarshalMsgProxyChannelOpenTry
    BY <1>6 DEF Structs, Cases, TxStructs, LightClientStructs, TxCases, LightClientCases
  <2>2. DOMAIN Cases[t] = 1..11 /\ Len(Cases[t]) = 11 /\ 11 \in 1..16
    BY <2>1 DEF UnmarshalMsgProxyChannelOpenTry
  <2>3. \A a \in 1..11 : \A b \in 1..11 : Cases[t][a][2] = Cases[t][b][2] => a = b
    BY <2>1 DEF UnmarshalMsgProxyChannelOpenTry
  <2>4. DOMAIN Structs[t] =
        {"UpstreamClientId", "UpstreamPrefix", "Order", "ConnectionHops", "PortId", 
         "ChannelId", "DownstreamPortId", "Version", "ProofInit", "ProofHeight", "Signer"}
    BY <2>1 DEF MsgProxyChannelOpenTry
  <2>5. \A f \in DOMAIN Structs[t] : \E n \in 1..11 : Cases[t][n][2] = f
    BY <2>1, <2>4 DEF UnmarshalMsgProxyChannelOpenTry
  <2>6. \A n \in 1..11 : Cases[t][n][2] \in DOMAIN Structs[t]
    BY <2>2, CasesSuit
  <2>7. DOMAIN Structs[t] = {Cases[t][n][2] : n \in 1..11} BY <2>5, <2>6, Zenon
  <2>8. Numbering(t, 11) BY <2>2, <2>3, <2>7, Zenon DEF Numbering
  <2> QED BY <2>2, <2>8
<1>7. CASE t = "MsgProxyChannelOpenAck"
  <2>1. Structs[t] = MsgProxyChannelOpenAck /\ Cases[t] = UnmarshalMsgProxyChannelOpenAck
    BY <1>7 DEF Structs, Cases, TxStructs, LightClientStructs, TxCases, LightClientCases
  <2>2. DOMAIN Cases[t] = 1..12 /\ Len(Cases[t]) = 12 /\ 12 \in 1..16
    BY <2>1 DEF UnmarshalMsgProxyChannelOpenAck
  <2>3. \A a \in 1..12 : \A b \in 1..12 : Cases[t][a][2] = Cases[t][b][2] => a = b
    BY <2>1 DEF UnmarshalMsgProxyChannelOpenAck
  <2>4. DOMAIN Structs[t] =
        {"UpstreamClientId", "UpstreamPrefix", "Order", "ConnectionHops", "PortId", 
         "ChannelId", "DownstreamPortId", "DownstreamChannelId", "Version", "ProofTry", 
         "ProofHeight", "Signer"}
    BY <2>1 DEF MsgProxyChannelOpenAck
  <2>5. \A f \in DOMAIN Structs[t] : \E n \in 1..12 : Cases[t][n][2] = f
    BY <2>1, <2>4 DEF UnmarshalMsgProxyChannelOpenAck
  <2>6. \A n \in 1..12 : Cases[t][n][2] \in DOMAIN Structs[t]
    BY <2>2, CasesSuit
  <2>7. DOMAIN Structs[t] = {Cases[t][n][2] : n \in 1..12} BY <2>5, <2>6, Zenon
  <2>8. Numbering(t, 12) BY <2>2, <2>3, <2>7, Zenon DEF Numbering
  <2> QED BY <2>2, <2>8
<1>8. CASE t = "MsgProxyChannelOpenConfirm"
  <2>1. Structs[t] = MsgProxyChannelOpenConfirm /\ Cases[t] = UnmarshalMsgProxyChannelOpenConfirm
    BY <1>8 DEF Structs, Cases, TxStructs, LightClientStructs, TxCases, LightClientCases
  <2>2. DOMAIN Cases[t] = 1..8 /\ Len(Cases[t]) = 8 /\ 8 \in 1..16
    BY <2>1 DEF UnmarshalMsgProxyChannelOpenConfirm
  <2>3. \A a \in 1..8 : \A b \in 1..8 : Cases[t][a][2] = Cases[t][b][2] => a = b
    BY <2>1 DEF UnmarshalMsgProxyChannelOpenConfirm
  <2>4. DOMAIN Structs[t] =
        {"UpstreamClientId", "UpstreamPrefix", "PortId", "ChannelId", 
         "DownstreamChannelId", "ProofAck", "ProofHeight", "Signer"}
    BY <2>1 DEF MsgProxyChannelOpenConfirm
  <2>5. \A f \in DOMAIN Structs[t] : \E n \in 1..8 : Cases[t][n][2] = f
    BY <2>1, <2>4 DEF UnmarshalMsgProxyChannelOpenConfirm
  <2>6. \A n \in 1..8 : Cases[t][n][2] \in DOMAIN Structs[t]
    BY <2>2, CasesSuit
  <2>7. DOMAIN Structs[t] = {Cases[t][n][2] : n \in 1..8} BY <2>5, <2>6, Zenon
  <2>8. Numbering(t, 8) BY <2>2, <2>3, <2>7, Zenon DEF Numbering
  <2> QED BY <2>2, <2>8
<1>9. CASE t = "MsgProxyChannelOpenFinalize"
  <2>1. Structs[t] = MsgProxyChannelOpenFinalize /\ Cases[t] = UnmarshalMsgProxyChannelOpenFinalize
    BY <1>9 DEF Structs, Cases, TxStructs, LightClientStructs, TxCases, LightClientCases
  <2>2. DOMAIN Cases[t] = 1..7 /\ Len(Cases[t]) = 7 /\ 7 \in 1..16
    BY <2>1 DEF UnmarshalMsgProxyChannelOpenFinalize
  <2>3. \A a \in 1..7 : \A b \in 1..7 : Cases[t][a][2] = Cases[t][b][2] => a = b
    BY <2>1 DEF UnmarshalMsgProxyChannelOpenFinalize
  <2>4. DOMAIN Structs[t] =
        {"UpstreamClientId", "UpstreamPrefix", "PortId", "ChannelId", "ProofConfirm", 
         "ProofHeight", "Signer"}
    BY <2>1 DEF MsgProxyChannelOpenFinalize
  <2>5. \A f \in DOMAIN Structs[t] : \E n \in 1..7 : Cases[t][n][2] = f
    BY <2>1, <2>4 DEF UnmarshalMsgProxyChannelOpenFinalize
  <2>6. \A n \in 1..7 : Cases[t][n][2] \in DOMAIN Structs[t]
    BY <2>2, CasesSuit
  <2>7. DOMAIN Structs[t] = {Cases[t][n][2] : n \in 1..7} BY <2>5, <2>6, Zenon
  <2>8. Numbering(t, 7) BY <2>2, <2>3, <2>7, Zenon DEF Numbering
  <2> QED BY <2>2, <2>8
<1>10. CASE t = "MsgProxyRecvPacket"
  <2>1. Structs[t] = MsgProxyRecvPacket /\ Cases[t] = UnmarshalMsgProxyRecvPacket
    BY <1>10 DEF Structs, Cases, TxStructs, LightClientStructs, TxCases, LightClientCases
  <2>2. DOMAIN Cases[t] = 1..6 /\ Len(Cases[t]) = 6 /\ 6 \in 1..16
    BY <2>1 DEF UnmarshalMsgProxyRecvPacket
  <2>3. \A a \in 1..6 : \A b \in 1..6 : Cases[t][a][2] = Cases[t][b][2] => a = b
    BY <2>1 DEF UnmarshalMsgProxyRecvPacket
  <2>4. DOMAIN Structs[t] =
        {"UpstreamClientId", "UpstreamPrefix", "Packet", "Proof", "ProofHeight", "Signer"}
    BY <2>1 DEF MsgProxyRecvPacket
  <2>5. \A f \in DOMAIN Structs[t] : \E n \in 1..6 : Cases[t][n][2] = f
    BY <2>1, <2>4 DEF UnmarshalMsgProxyRecvPacket
  <2>6. \A n \in 1..6 : Cases[t][n][2] \in DOMAIN Structs[t]
    BY <2>2, CasesSuit
  <2>7. DOMAIN Structs[t] = {Cases[t][n][2] : n \in 1..6} BY <2>5, <2>6, Zenon
  <2>8. Numbering(t, 6) BY <2>2, <2>3, <2>7, Zenon DEF Numbering
  <2> QED BY <2>2, <2>8
<1>11. CASE t = "MsgProxyAcknowledgePacket"
  <2>1. Structs[t] = MsgProxyAcknowledgePacket /\ Cases[t] = UnmarshalMsgProxyAcknowledgePacket
    BY <1>11 DEF Structs, Cases, TxStructs, LightClientStructs, TxCases, LightClientCases
  <2>2. DOMAIN Cases[t] = 1..7 /\ Len(Cases[t]) = 7 /\ 7 \in 1..16
    BY <2>1 DEF UnmarshalMsgProxyAcknowledgePacket
  <2>3. \A a \in 1..7 : \A b \in 1..7 : Cases[t][a][2] = Cases[t][b][2] => a = b
    BY <2>1 DEF UnmarshalMsgProxyAcknowledgePacket
  <2>4. DOMAIN Structs[t] =
        {"UpstreamClientId", "UpstreamPrefix", "Packet", "Acknowledgement", "Proof", 
         "ProofHeight", "Signer"}
    BY <2>1 DEF MsgProxyAcknowledgePacket
  <2>5. \A f \in DOMAIN Structs[t] : \E n \in 1..7 : Cases[t][n][2] = f
    BY <2>1, <2>4 DEF UnmarshalMsgProxyAcknowledgePacket
  <2>6. \A n \in 1..7 : Cases[t][n][2] \in DOMAIN Structs[t]
    BY <2>2, CasesSuit
  <2>7. DOMAIN Structs[t] = {Cases[t][n][2] : n \in 1..7} BY <2>5, <2>6, Zenon
  <2>8. Numbering(t, 7) BY <2>2, <2>3, <2>7, Zenon DEF Numbering
  <2> QED BY <2>2, <2>8
<1>12. CASE t = "MultivClientState"
  <2>1. Structs[t] = MultivClientState /\ Cases[t] = UnmarshalMultivClientState
    BY <1>12 DEF Structs, Cases, TxStructs, LightClientStructs, TxCases, LightClientCases
  <2>2. DOMAIN Cases[t] = 1..2 /\ Len(Cases[t]) = 2 /\ 2 \in 1..16
    BY <2>1 DEF UnmarshalMultivClientState
  <2>3. \A a \in 1..2 : \A b \in 1..2 : Cases[t][a][2] = Cases[t][b][2] => a = b
    BY <2>1 DEF UnmarshalMultivClientState
  <2>4. DOMAIN Structs[t] =
        {"UnderlyingClientState", "Depth"}
    BY <2>1 DEF MultivClientState
  <2>5. \A f \in DOMAIN Structs[t] : \E n \in 1..2 : Cases[t][n][2] = f
    BY <2>1, <2>4 DEF UnmarshalMultivClientState
  <2>6. \A n \in 1..2 : Cases[t][n][2] \in DOMAIN Structs[t]
    BY <2>2, CasesSuit
  <2>7. DOMAIN Structs[t] = {Cases[t][n][2] : n \in 1..2} BY <2>5, <2>6, Zenon
  <2>8. Numbering(t, 2) BY <2>2, <2>3, <2>7, Zenon DEF Numbering
  <2> QED BY <2>2, <2>8
<1>13. CASE t = "MultiProof"
  <2>1. Structs[t] = MultiProof /\ Cases[t] = UnmarshalMultiProof
    BY <1>13 DEF Structs, Cases, TxStructs, LightClientStructs, TxCases, LightClientCases
  <2>2. DOMAIN Cases[t] = 1..3 /\ Len(Cases[t]) = 3 /\ 3 \in 1..16
    BY <2>1 DEF UnmarshalMultiProof
  <2>3. \A a \in 1..3 : \A b \in 1..3 : Cases[t][a][2] = Cases[t][b][2] => a = b
    BY <2>1 DEF UnmarshalMultiProof
  <2>4. DOMAIN Structs[t] =
        {"Head", "Branches", "Leaf"}
    BY <2>1 DEF MultiProof
  <2>5. \A f \in DOMAIN Structs[t] : \E n \in 1..3 : Cases[t][n][2] = f
    BY <2>1, <2>4 DEF UnmarshalMultiProof
  <2>6. \A n \in 1..3 : Cases[t][n][2] \in DOMAIN Structs[t]
    BY <2>2, CasesSuit
  <2>7. DOMAIN Structs[t] = {Cases[t][n][2] : n \in 1..3} BY <2>5, <2>6, Zenon
  <2>8. Numbering(t, 3) BY <2>2, <2>3, <2>7, Zenon DEF Numbering
  <2> QED BY <2>2, <2>8
<1>14. CASE t = "Proof"
  <2>1. Structs[t] = Proof /\ Cases[t] = UnmarshalProof
    BY <1>14 DEF Structs, Cases, TxStructs, LightClientStructs, TxCases, LightClientCases
  <2>2. DOMAIN Cases[t] = 1..6 /\ Len(Cases[t]) = 6 /\ 6 \in 1..16
    BY <2>1 DEF UnmarshalProof
  <2>3. \A a \in 1..6 : \A b \in 1..6 : Cases[t][a][2] = Cases[t][b][2] => a = b
    BY <2>1 DEF UnmarshalProof
  <2>4. DOMAIN Structs[t] =
        {"ClientProof", "ClientState", "ConsensusProof", "ConsensusState", "ProofHeight", 
         "ConsensusHeight"}
    BY <2>1 DEF Proof
  <2>5. \A f \in DOMAIN Structs[t] : \E n \in 1..6 : Cases[t][n][2] = f
    BY <2>1, <2>4 DEF UnmarshalProof
  <2>6. \A n \in 1..6 : Cases[t][n][2] \in DOMAIN Structs[t]
    BY <2>2, CasesSuit
  <2>7. DOMAIN Structs[t] = {Cases[t][n][2] : n \in 1..6} BY <2>5, <2>6, Zenon
  <2>8. Numbering(t, 6) BY <2>2, <2>3, <2>7, Zenon DEF Numbering
  <2> QED BY <2>2, <2>8
<1>15. CASE t = "LeafProof"
  <2>1. Structs[t] = LeafProof /\ Cases[t] = UnmarshalLeafProof
    BY <1>15 DEF Structs, Cases, TxStructs, LightClientStructs, TxCases, LightClientCases
  <2>2. DOMAIN Cases[t] = 1..2 /\ Len(Cases[t]) = 2 /\ 2 \in 1..16
    BY <2>1 DEF UnmarshalLeafProof
  <2>3. \A a \in 1..2 : \A b \in 1..2 : Cases[t][a][2] = Cases[t][b][2] => a = b
    BY <2>1 DEF UnmarshalLeafProof
  <2>4. DOMAIN Structs[t] =
        {"Proof", "ProofHeight"}
    BY <2>1 DEF LeafProof
  <2>5. \A f \in DOMAIN Structs[t] : \E n \in 1..2 : Cases[t][n][2] = f
    BY <2>1, <2>4 DEF UnmarshalLeafProof
  <2>6. \A n \in 1..2 : Cases[t][n][2] \in DOMAIN Structs[t]
    BY <2>2, CasesSuit
  <2>7. DOMAIN Structs[t] = {Cases[t][n][2] : n \in 1..2} BY <2>5, <2>6, Zenon
  <2>8. Numbering(t, 2) BY <2>2, <2>3, <2>7, Zenon DEF Numbering
  <2> QED BY <2>2, <2>8
<1>16. CASE t = "ProxyClientState"
  <2>1. Structs[t] = ProxyClientState /\ Cases[t] = UnmarshalProxyClientState
    BY <1>16 DEF Structs, Cases, TxStructs, LightClientStructs, TxCases, LightClientCases
  <2>2. DOMAIN Cases[t] = 1..4 /\ Len(Cases[t]) = 4 /\ 4 \in 1..16
    BY <2>1 DEF UnmarshalProxyClientState
  <2>3. \A a \in 1..4 : \A b \in 1..4 : Cases[t][a][2] = Cases[t][b][2] => a = b
    BY <2>1 DEF UnmarshalProxyClientState
  <2>4. DOMAIN Structs[t] =
        {"ProxyClientState", "UpstreamClientId", "ProxyPrefix", "IbcPrefix"}
    BY <2>1 DEF ProxyClientState
  <2>5. \A f \in DOMAIN Structs[t] : \E n \in 1..4 : Cases[t][n][2] = f
    BY <2>1, <2>4 DEF UnmarshalProxyClientState
  <2>6. \A n \in 1..4 : Cases[t][n][2] \in DOMAIN Structs[t]
    BY <2>2, CasesSuit
  <2>7. DOMAIN Structs[t] = {Cases[t][n][2] : n \in 1..4} BY <2>5, <2>6, Zenon
  <2>8. Numbering(t, 4) BY <2>2, <2>3, <2>7, Zenon DEF Numbering
  <2> QED BY <2>2, <2>8
<1>17. CASE t = "ProxyConsensusState"
  <2>1. Structs[t] = ProxyConsensusState /\ Cases[t] = UnmarshalProxyConsensusState
    BY <1>17 DEF Structs, Cases, TxStructs, LightClientStructs, TxCases, LightClientCases
  <2>2. DOMAIN Cases[t] = 1..1 /\ Len(Cases[t]) = 1 /\ 1 \in 1..16
    BY <2>1 DEF UnmarshalProxyConsensusState
  <2>3. \A a \in 1..1 : \A b \in 1..1 : Cases[t][a][2] = Cases[t][b][2] => a = b
    BY <2>1 DEF UnmarshalProxyConsensusState
  <2>4. DOMAIN Structs[t] =
        {"ProxyConsensusState"}
    BY <2>1 DEF ProxyConsensusState
  <2>5. \A f \in DOMAIN Structs[t] : \E n \in 1..1 : Cases[t][n][2] = f
    BY <2>1, <2>4 DEF UnmarshalProxyConsensusState
  <2>6. \A n \in 1..1 : Cases[t][n][2] \in DOMAIN Structs[t]
    BY <2>2, CasesSuit
  <2>7. DOMAIN Structs[t] = {Cases[t][n][2] : n \in 1..1} BY <2>5, <2>6, Zenon
  <2>8. Numbering(t, 1) BY <2>2, <2>3, <2>7, Zenon DEF Numbering
  <2> QED BY <2>2, <2>8
<1> QED BY StructNames, <1>1, <1>2, <1>3, <1>4, <1>5, <1>6, <1>7, <1>8, <1>9, <1>10, <1>11, <1>12, <1>13, <1>14, <1>15, <1>16, <1>17

-----------------------------------------------------------------------------
(* A field that is read, one step. *)

\* Two byte sequences, one after the other.
LEMMA Concat ==
  ASSUME NEW a \in Seq(Byte), NEW b \in Seq(Byte)
  PROVE  a \o b \in Seq(Byte) /\ Len(a \o b) = Len(a) + Len(b) /\ Len(a) \in Nat /\ Len(b) \in Nat
OBVIOUS

\* The length of an embedded field.
LEMMA EmbeddedAt ==
  ASSUME NEW n \in 1..16, NEW b \in Slices(MaxInt), NEW d \in Seq(Byte), Len(d) <= MaxInt,
         NEW i \in Nat, At(d, i, Embedded(Tag(n, 2), b))
  PROVE  \E at \in Nat : /\ TagAt(d, i, n, 2, at) /\ i < Len(d)
                         /\ ValueAt(d, at, b, i + Len(Embedded(Tag(n, 2), b)))
<1> DEFINE g == Tag(n, 2)
           e == EncodeVarint(Len(b))
           at == i + Len(g)
           j == at + Len(e)
<1>1. g \in Seq(Byte) /\ Len(g) \in Nat /\ Len(g) > 0
  <2>1. g \in Seq(Byte) BY TagEncoded
  <2>2. Len(g) > 0 BY DEF Tag
  <2> QED BY <2>1, <2>2
<1>2. b \in Seq(Byte) /\ Len(b) \in Nat /\ Len(b) \in 0..(Pow2[WordBits] - 1) BY WordTyped DEF Slices
<1>3. e \in Seq(Byte) /\ Len(e) = Sov(Len(b)) /\ Len(e) \in Nat BY <1>2, EncodeVarintTyped
<1>4. Embedded(g, b) = (g \o e) \o b BY DEF Embedded
<1>0. At(d, i, Embedded(g, b)) OBVIOUS
<1>00. At(d, i, g) => ReadVarint(d, i) = Read(8 * n + 2, i + Len(g)) 
           /\ FieldNumber(8 * n + 2) = n /\ (8 * n + 2) % 8 = 2
  BY TagRead
<1> HIDE DEF g, e
<1>5. g \o e \in Seq(Byte) /\ Len(g \o e) = Len(g) + Len(e)
      /\ Len((g \o e) \o b) = Len(g) + Len(e) + Len(b)
  <2>1. g \o e \in Seq(Byte) /\ Len(g \o e) = Len(g) + Len(e) BY <1>1, <1>3, Concat
  <2> DEFINE h == g \o e
  <2>2. h \in Seq(Byte) /\ Len(h) = Len(g) + Len(e) BY <2>1
  <2> HIDE DEF h
  <2>3. Len(h \o b) = Len(h) + Len(b) BY <1>2, <2>2, Concat
  <2> QED BY <2>1, <2>2, <2>3 DEF h
<1>6. At(d, i, (g \o e) \o b) BY <1>0, <1>4
<1>7. At(d, i, g \o e) /\ At(d, i + Len(g \o e), b) BY <1>2, <1>5, <1>6, AtJoin
<1>8. At(d, i, g) /\ At(d, at, e) BY <1>1, <1>3, <1>7, AtJoin
<1>9. at \in Nat /\ j \in Nat /\ i + Len(g \o e) = j BY <1>1, <1>3, <1>5
<1>10. TagAt(d, i, n, 2, at) BY <1>8, <1>00 DEF TagAt, Read
<1>11. j = at + Sov(Len(b)) /\ At(d, at, EncodeVarint(Len(b))) /\ At(d, j, b)
  BY <1>3, <1>7, <1>8, <1>9 DEF e
<1> HIDE DEF at, j
<1>12. /\ ReadLength(d, at) = Read(j + Len(b), j) /\ SubSeq(d, j + 1, j + Len(b)) = b
       /\ j + Len(b) <= Len(d)
  BY <1>9, <1>11, LengthRead
<1>13. ValueAt(d, at, b, j + Len(b)) BY <1>12 DEF ValueAt, Read
<1>14. j + Len(b) = i + Len(Embedded(g, b)) BY <1>1, <1>2, <1>3, <1>4, <1>5 DEF j, at
<1>15. i < Len(d) BY <1>1, <1>2, <1>3, <1>12 DEF j, at
<1> QED BY <1>9, <1>10, <1>13, <1>14, <1>15 DEF g

\* There are at most 16 fields.
LEMMA FieldNumbers ==
  ASSUME NEW t \in DOMAIN Structs
  PROVE  DOMAIN Cases[t] \subseteq 1..16
<1> DEFINE N == Len(Cases[t])
<1>1. N \in 1..16 /\ Numbering(t, N) BY Numbered
<1> HIDE DEF N
<1>2. DOMAIN Cases[t] = 1..N BY <1>1, Zenon DEF Numbering
<1>3. \A n \in 1..N : n \in 1..16 BY <1>1
<1> QED BY <1>2, <1>3, Zenon

\* A length-delimited field is read in one step, and its value stored.
LEMMA EmbeddedSteps ==
  ASSUME NEW t \in DOMAIN Structs, NEW n \in DOMAIN Cases[t], Cases[t][n][1] # "varint",
         NEW b \in Slices(MaxInt),
         Cases[t][n][1] \in {"merge", "allocate", "appendMessage"} => Decodes(b),
         NEW d \in Seq(Byte), Len(d) <= MaxInt,
         NEW i \in Nat, At(d, i, Embedded(Tag(n, 2), b)), NEW m
  PROVE  Steps(t, d, Dec(i, m),
               Dec(i + Len(Embedded(Tag(n, 2), b)),
                   [m EXCEPT ![Cases[t][n][2]] = Store(Cases[t][n][1], m[Cases[t][n][2]], b)]))
<1> DEFINE j == i + Len(Embedded(Tag(n, 2), b))
           x == [m EXCEPT ![Cases[t][n][2]] = Store(Cases[t][n][1], m[Cases[t][n][2]], b)]
<1>1. n \in 1..16 BY FieldNumbers
<1>2. PICK at \in Nat : TagAt(d, i, n, 2, at) /\ i < Len(d) /\ ValueAt(d, at, b, j)
  BY <1>1, EmbeddedAt
<1>3. b \in Seq(Byte) BY DEF Slices
<1> HIDE DEF j
<1>4. DelimitedStep(t, d, i, m, j, x)
  <2>1. x = [m EXCEPT ![Cases[t][n][2]] = Store(Cases[t][n][1], m[Cases[t][n][2]], b)] OBVIOUS
  <2>2. n > 0 BY <1>1
  <2> HIDE DEF x
  <2> QED BY <1>2, <1>3, <2>1, <2>2, Zenon DEF DelimitedStep
<1> HIDE DEF x
<1>5. /\ Dec(i, m)[1] = "decoding" /\ Dec(i, m)[2] = i /\ Dec(i, m)[3] = m
      /\ Dec(j, x)[2] = j /\ Dec(j, x)[3] = x
  BY DEF Dec
<1>6. Steps(t, d, Dec(i, m), Dec(j, x)) BY <1>2, <1>4, <1>5 DEF Steps
<1> QED BY <1>6 DEF j, x

\* A number is cut to half a word from a whole one.
LEMMA HalfOfWord ==
  ASSUME NEW v \in Int
  PROVE  (v % Pow2[WordBits]) % Pow2[HalfBits] = v % Pow2[HalfBits]
<1>1. PICK q \in Nat : q > 0 /\ Pow2[WordBits] = q * Pow2[HalfBits]
  <2> DEFINE S == {n \in Nat : HalfBits + n <= WordBits => \E q \in Nat : q > 0 /\ Pow2[HalfBits + n] = q * Pow2[HalfBits]}
  <2>0. /\ HalfBits \in Nat /\ WordBits \in Nat /\ HalfBits <= WordBits /\ WordBits <= 7 * Groups
        /\ 7 * Groups \in Nat
    BY GroupsTyped
  <2>1. 0 \in S
    <3>1. Pow2[HalfBits + 0] = 1 * Pow2[HalfBits] BY <2>0, WordTyped
    <3> QED BY <3>1
  <2>2. ASSUME NEW n \in Nat, n \in S PROVE n + 1 \in S
    <3> SUFFICES ASSUME HalfBits + (n + 1) <= WordBits
                 PROVE  \E q \in Nat : q > 0 /\ Pow2[HalfBits + (n + 1)] = q * Pow2[HalfBits]
      OBVIOUS
    <3>1. HalfBits + n <= WordBits /\ HalfBits + n \in Nat /\ HalfBits + n < 7 * Groups
          /\ HalfBits + (n + 1) = (HalfBits + n) + 1 BY <2>0
    <3>2. PICK q \in Nat : q > 0 /\ Pow2[HalfBits + n] = q * Pow2[HalfBits] BY <2>2, <3>1
    <3>3. Pow2[(HalfBits + n) + 1] = 2 * Pow2[HalfBits + n] BY <3>1, Powers
    <3>4. 2 * (q * Pow2[HalfBits]) = (2 * q) * Pow2[HalfBits]
      <4> DEFINE P == Pow2[HalfBits]
      <4>1. P \in Nat BY WordTyped
      <4> HIDE DEF P
      <4>2. 2 * (q * P) = (2 * q) * P BY <4>1
      <4> QED BY <4>2 DEF P
    <3>5. 2 * q \in Nat /\ 2 * q > 0 BY <3>2
    <3> QED BY <3>1, <3>2, <3>3, <3>4, <3>5
  <2>3. \A n \in Nat : n \in S
    <3> HIDE DEF S
    <3> QED BY <2>1, <2>2, SetInduction
  <2>4. WordBits - HalfBits \in Nat /\ HalfBits + (WordBits - HalfBits) = WordBits BY <2>0
  <2>5. WordBits - HalfBits \in S BY <2>3, <2>4
  <2>6. \E q \in Nat : q > 0 /\ Pow2[HalfBits + (WordBits - HalfBits)] = q * Pow2[HalfBits]
    BY <2>0, <2>4, <2>5
  <2> QED BY <2>4, <2>6
<1> DEFINE H == Pow2[HalfBits]
           W == Pow2[WordBits]
<1>2. H \in Nat /\ H > 0 /\ W \in Nat /\ W > 0 /\ W = q * H BY <1>1, WordTyped
<1> HIDE DEF H, W
<1>3. PICK x \in Int, r \in 0..(W - 1) : x = v \div W /\ r = v % W /\ v = W * x + r
  BY <1>2, Division
<1>4. PICK y \in Int, s \in 0..(H - 1) : y = r \div H /\ s = r % H /\ r = H * y + s
  BY <1>2, Division
<1>5. v = H * (q * x + y) + s
  <2>1. W * x = H * (q * x) BY <1>1, <1>2
  <2>2. q * x \in Int BY <1>1
  <2> DEFINE z == q * x
  <2> HIDE DEF z
  <2>3. H * z + H * y = H * (z + y) BY <1>2, <2>2 DEF z
  <2>4. v = H * z + (H * y + s) BY <1>3, <1>4, <2>1 DEF z
  <2>5. H * z \in Int /\ H * y \in Int /\ s \in Int BY <1>2, <2>2 DEF z
  <2>6. v = (H * z + H * y) + s BY <2>4, <2>5
  <2> QED BY <2>3, <2>6 DEF z
<1>6. v % H = s
  <2> DEFINE z == q * x + y
  <2>1. z \in Int BY <1>1
  <2> HIDE DEF z
  <2>2. v = H * z + s BY <1>5 DEF z
  <2>3. (H * z + s) % H = s BY <1>2, <2>1, DivisionUnique
  <2> QED BY <2>2, <2>3
<1> QED BY <1>3, <1>4, <1>6 DEF H, W

\* The number that was written is read.
LEMMA NumberKept ==
  ASSUME NEW type \in {"int32", "uint32"}, NEW v \in FieldValues(type, MaxInt)
  PROVE  v \in Int /\ Number(type, v % Pow2[WordBits]) = v
<1> DEFINE H == Pow2[HalfBits]
           L == Pow2[HalfBits - 1]
           u == v % Pow2[WordBits]
<1>1. H \in Nat /\ L \in Nat /\ H = 2 * L /\ H > 0 BY WordTyped
<1>2. v \in Int BY <1>1 DEF FieldValues
<1>3. u % H = v % H BY <1>2, HalfOfWord
<1>4. CASE type = "uint32"
  <2>1. v \in 0..(H - 1) BY <1>4 DEF FieldValues
  <2>2. Number(type, u) = u % H BY <1>4 DEF Number
  <2> HIDE DEF H, u
  <2>3. v % H = v BY <1>1, <2>1, SmallRemainder
  <2> QED BY <1>2, <1>3, <2>2, <2>3 DEF u
<1>5. CASE type = "int32"
  <2>1. v \in (-L)..(L - 1) BY <1>5 DEF FieldValues
  <2>2. Number(type, u) = IF u % H >= L THEN (u % H) - H ELSE u % H BY <1>5 DEF Number, Signed
  <2> HIDE DEF H, u, L
  <2>3. CASE v >= 0
    <3>1. v \in 0..(H - 1) BY <1>1, <2>1, <2>3
    <3>2. v % H = v BY <1>1, <3>1, SmallRemainder
    <3> QED BY <1>1, <1>2, <1>3, <2>1, <2>2, <3>2 DEF u
  <2>4. CASE v < 0
    <3> DEFINE r == v + H
    <3>1. r \in 0..(H - 1) /\ r >= L /\ r - H = v /\ v = H * (-1) + r BY <1>1, <2>1, <2>4
    <3> HIDE DEF r
    <3>2. (H * (-1) + r) % H = r BY <1>1, <3>1, DivisionUnique
    <3>3. u % H = r BY <1>3, <3>1, <3>2
    <3> QED BY <1>1, <1>2, <2>2, <3>1, <3>3 DEF u
  <2> QED BY <1>2, <2>3, <2>4
<1> QED BY <1>4, <1>5

\* A number is read in one step, with its sign.
LEMMA VarintSteps ==
  ASSUME NEW t \in DOMAIN Structs, NEW n \in DOMAIN Cases[t], Cases[t][n][1] = "varint",
         Structs[t][Cases[t][n][2]] \in {"int32", "uint32"},
         NEW v \in FieldValues(Structs[t][Cases[t][n][2]], MaxInt), v # 0,
         NEW d \in Seq(Byte), NEW i \in Nat, At(d, i, Varint(Tag(n, 0), v)), NEW m
  PROVE  Steps(t, d, Dec(i, m),
               Dec(i + Len(Varint(Tag(n, 0), v)), [m EXCEPT ![Cases[t][n][2]] = v]))
<1> DEFINE g == Tag(n, 0)
           u == v % Pow2[WordBits]
           e == EncodeVarint(u)
           at == i + Len(g)
           j == at + Len(e)
           x == [m EXCEPT ![Cases[t][n][2]] = v]
<1>0. n \in 1..16 BY FieldNumbers
<1>1. g \in Seq(Byte) /\ Len(g) \in Nat /\ Len(g) > 0
  <2>1. g \in Seq(Byte) BY <1>0, TagEncoded
  <2>2. Len(g) > 0 BY DEF Tag
  <2> QED BY <2>1, <2>2
<1>2. v \in Int /\ Number(Structs[t][Cases[t][n][2]], u) = v BY NumberKept
<1>3. u \in 0..(Pow2[WordBits] - 1)
  <2>1. Pow2[WordBits] \in Nat /\ Pow2[WordBits] > 0 BY WordTyped
  <2> QED BY <1>2, <2>1, Remainder
<1>4. Varint(g, v) = g \o e BY DEF Varint
<1>5. At(d, i, g \o e) BY <1>4
<1>6. At(d, i, g) => /\ ReadVarint(d, i) = Read(8 * n + 0, i + Len(g))
                     /\ FieldNumber(8 * n + 0) = n /\ (8 * n + 0) % 8 = 0
  BY <1>0, TagRead
<1> HIDE DEF u
<1>7. e \in Seq(Byte) /\ Len(e) = Sov(u) /\ Len(e) \in Nat BY <1>3, EncodeVarintTyped
<1>8. at \in Nat /\ j \in Nat /\ j = i + Len(g \o e) /\ i < j
  <2> HIDE DEF g, e
  <2>1. Len(g \o e) = Len(g) + Len(e) BY <1>1, <1>7, Concat
  <2> QED BY <1>1, <1>7, <2>1
<1>9. At(d, i, g) /\ At(d, at, e)
  <2> HIDE DEF g, e
  <2> QED BY <1>1, <1>5, <1>7, AtJoin
<1>10. ReadVarint(d, at) = Read(u, j) BY <1>3, <1>7, <1>8, <1>9, ReadEncoded
<1>11. j <= Len(d) BY <1>9 DEF At
<1>12. TagAt(d, i, n, 0, at) BY <1>6, <1>9 DEF TagAt, Read
<1>13. i < Len(d) BY <1>8, <1>11
<1> HIDE DEF at, j, e, g
<1>14. NumberStep(t, d, i, m, j, x)
  <2>1. x = [m EXCEPT ![Cases[t][n][2]] = Number(Structs[t][Cases[t][n][2]], u)] BY <1>2
  <2>2. ReadVarint(d, at).err = "none" /\ ReadVarint(d, at).next = j /\ ReadVarint(d, at).val = u
    BY <1>10 DEF Read
  <2>3. n > 0 BY <1>0
  <2> HIDE DEF x
  <2> QED BY <1>8, <1>12, <2>1, <2>2, <2>3 DEF NumberStep
<1> HIDE DEF x
<1>15. /\ Dec(i, m)[1] = "decoding" /\ Dec(i, m)[2] = i /\ Dec(i, m)[3] = m
      /\ Dec(j, x)[2] = j /\ Dec(j, x)[3] = x
  BY DEF Dec
<1>16. Steps(t, d, Dec(i, m), Dec(j, x)) BY <1>13, <1>14, <1>15 DEF Steps
<1>17. j = i + Len(Varint(Tag(n, 0), v)) BY <1>4, <1>8 DEF g
<1> QED BY <1>16, <1>17 DEF x

-----------------------------------------------------------------------------
(* What Marshal writes: the pieces of the fields, in the order of their numbers. *)

\* The piece of field number n of the message m.
PieceOf(t, n, m) ==
  LET how == Cases[t][n][1]
      v == m[Cases[t][n][2]]
  IN  CASE how = "set"                         -> Bytes(Tag(n, 2), v)
        [] how = "merge"                       -> Embedded(Tag(n, 2), v)
        [] how = "allocate"                    -> Pointer(Tag(n, 2), v)
        [] how \in {"append", "appendMessage"} -> Repeated(Tag(n, 2), v)
        [] how = "varint"                      -> Varint(Tag(n, 0), v)

\* The pieces of the first k fields, one after the other, are w.
Joins(p, t, m, k) ==
  p[1] = PieceOf(t, 1, m) /\ \A n \in 1..(k - 1) : p[n + 1] = p[n] \o PieceOf(t, n + 1, m)

Joined(t, m, w, k) == \E p : Joins(p, t, m, k) /\ p[k] = w

\* The first field.
LEMMA JoinedFirst ==
  ASSUME NEW t, NEW m
  PROVE  Joined(t, m, PieceOf(t, 1, m), 1)
<1> DEFINE p == [n \in 1..1 |-> PieceOf(t, 1, m)]
<1>1. p[1] = PieceOf(t, 1, m) OBVIOUS
<1> HIDE DEF p
<1>2. Joins(p, t, m, 1) /\ p[1] = PieceOf(t, 1, m) BY <1>1 DEF Joins
<1> QED BY <1>2 DEF Joined

\* The next field.
LEMMA JoinedStep ==
  ASSUME NEW t, NEW m, NEW w, NEW k \in Nat, k > 0, Joined(t, m, w, k)
  PROVE  Joined(t, m, w \o PieceOf(t, k + 1, m), k + 1)
<1>1. PICK p : Joins(p, t, m, k) /\ p[k] = w BY DEF Joined
<1> DEFINE q == [n \in 1..(k + 1) |-> IF n = k + 1 THEN w \o PieceOf(t, k + 1, m) ELSE p[n]]
<1>2. q[k + 1] = w \o PieceOf(t, k + 1, m) OBVIOUS
<1>3. \A n \in 1..k : q[n] = p[n]
  <2>1. \A n \in 1..k : n \in 1..(k + 1) /\ n # k + 1 OBVIOUS
  <2> QED BY <2>1
<1> HIDE DEF q
<1>4. ASSUME NEW n \in 1..((k + 1) - 1) PROVE q[n + 1] = q[n] \o PieceOf(t, n + 1, m)
  <2>1. CASE n = k
    <3>1. k \in 1..k OBVIOUS
    <3> QED BY <1>1, <1>2, <1>3, <2>1, <3>1
  <2>2. CASE n # k
    <3>1. n \in 1..(k - 1) /\ n \in 1..k /\ n + 1 \in 1..k BY <2>2
    <3> QED BY <1>1, <1>3, <3>1 DEF Joins
  <2> QED BY <2>1, <2>2
<1>5. q[1] = PieceOf(t, 1, m)
  <2>1. 1 \in 1..k OBVIOUS
  <2> QED BY <1>1, <1>3, <2>1 DEF Joins
<1>6. Joins(q, t, m, k + 1) BY <1>4, <1>5 DEF Joins
<1> QED BY <1>2, <1>6 DEF Joined

\* Of each message: the fields are written in the order of their numbers, each with the tag
\* and in the form that Unmarshal expects of that number.
LEMMA JoinedMsgProxyClientState ==
  ASSUME NEW m
  PROVE  Joined("MsgProxyClientState", m, MarshalMsgProxyClientState(m), 10)
<1> DEFINE P(n) == PieceOf("MsgProxyClientState", n, m)
           w1 == P(1)  w2 == w1 \o P(2)  w3 == w2 \o P(3)  w4 == w3 \o P(4)
            w5 == w4 \o P(5)  w6 == w5 \o P(6)  w7 == w6 \o P(7)  w8 == w7 \o P(8)
            w9 == w8 \o P(9)  w10 == w9 \o P(10)
<1>1. Cases["MsgProxyClientState"] = UnmarshalMsgProxyClientState
  BY DEF Structs, Cases, TxStructs, LightClientStructs, TxCases, LightClientCases
<1>2. /\ P(1) = Bytes(<<10>>, m.UpstreamClientId) /\ P(2) = Embedded(<<18>>, m.UpstreamPrefix)
      /\ P(3) = Bytes(<<26>>, m.CounterpartyClientId) /\ P(4) = Pointer(<<34>>, m.ClientState)
      /\ P(5) = Pointer(<<42>>, m.ConsensusState) /\ P(6) = Bytes(<<50>>, m.ProofClient)
      /\ P(7) = Bytes(<<58>>, m.ProofConsensus) /\ P(8) = Embedded(<<66>>, m.ProofHeight)
      /\ P(9) = Embedded(<<74>>, m.ConsensusHeight) /\ P(10) = Bytes(<<82>>, m.Signer)
  BY <1>1 DEF PieceOf, Tag, UnmarshalMsgProxyClientState
<1>3. MarshalMsgProxyClientState(m) = w10 BY <1>2 DEF MarshalMsgProxyClientState
<1> HIDE DEF w1, w2, w3, w4, w5, w6, w7, w8, w9, w10
<1>4. Joined("MsgProxyClientState", m, w1, 1) BY JoinedFirst DEF w1
<1>5. Joined("MsgProxyClientState", m, w2, 2) BY <1>4, JoinedStep DEF w2
<1>6. Joined("MsgProxyClientState", m, w3, 3) BY <1>5, JoinedStep DEF w3
<1>7. Joined("MsgProxyClientState", m, w4, 4) BY <1>6, JoinedStep DEF w4
<1>8. Joined("MsgProxyClientState", m, w5, 5) BY <1>7, JoinedStep DEF w5
<1>9. Joined("MsgProxyClientState", m, w6, 6) BY <1>8, JoinedStep DEF w6
<1>10. Joined("MsgProxyClientState", m, w7, 7) BY <1>9, JoinedStep DEF w7
<1>11. Joined("MsgProxyClientState", m, w8, 8) BY <1>10, JoinedStep DEF w8
<1>12. Joined("MsgProxyClientState", m, w9, 9) BY <1>11, JoinedStep DEF w9
<1>13. Joined("MsgProxyClientState", m, w10, 10) BY <1>12, JoinedStep DEF w10
<1> QED BY <1>3, <1>13

\* MsgProxyConnectionOpenTry.
LEMMA JoinedMsgProxyConnectionOpenTry ==
  ASSUME NEW m
  PROVE  Joined("MsgProxyConnectionOpenTry", m, MarshalMsgProxyConnectionOpenTry(m), 16)
<1> DEFINE P(n) == PieceOf("MsgProxyConnectionOpenTry", n, m)
           w1 == P(1)  w2 == w1 \o P(2)  w3 == w2 \o P(3)  w4 == w3 \o P(4)
            w5 == w4 \o P(5)  w6 == w5 \o P(6)  w7 == w6 \o P(7)  w8 == w7 \o P(8)
            w9 == w8 \o P(9)  w10 == w9 \o P(10)  w11 == w10 \o P(11)  w12 == w11 \o P(12)
            w13 == w12 \o P(13)  w14 == w13 \o P(14)  w15 == w14 \o P(15)  w16 == w15 \o P(16)
<1>1. Cases["MsgProxyConnectionOpenTry"] = UnmarshalMsgProxyConnectionOpenTry
  BY DEF Structs, Cases, TxStructs, LightClientStructs, TxCases, LightClientCases
<1>2. /\ P(1) = Bytes(<<10>>, m.ConnectionId) /\ P(2) = Embedded(<<18>>, m.UpstreamPrefix)
      /\ P(3) = Embedded(<<26>>, m.Connection)
      /\ P(4) = Pointer(<<34>>, m.DownstreamClientState)
      /\ P(5) = Pointer(<<42>>, m.DownstreamConsensusState)
      /\ P(6) = Pointer(<<50>>, m.ProxyClientState) /\ P(7) = Bytes(<<58>>, m.ProofInit)
      /\ P(8) = Bytes(<<66>>, m.ProofClient) /\ P(9) = Bytes(<<74>>, m.ProofConsensus)
      /\ P(10) = Embedded(<<82>>, m.ProofHeight) /\ P(11) = Embedded(<<90>>, m.ConsensusHeight)
      /\ P(12) = Bytes(<<98>>, m.ProofProxyClient)
      /\ P(13) = Bytes(<<106>>, m.ProofProxyConsensus)
      /\ P(14) = Embedded(<<114>>, m.ProofProxyHeight)
      /\ P(15) = Embedded(<<122>>, m.ProxyConsensusHeight)
      /\ P(16) = Bytes(<<130, 1>>, m.Signer)
  BY <1>1 DEF PieceOf, Tag, UnmarshalMsgProxyConnectionOpenTry
<1>3. MarshalMsgProxyConnectionOpenTry(m) = w16 BY <1>2 DEF MarshalMsgProxyConnectionOpenTry
<1> HIDE DEF w1, w2, w3, w4, w5, w6, w7, w8, w9, w10, w11, w12, w13, w14, w15, w16
<1>4. Joined("MsgProxyConnectionOpenTry", m, w1, 1) BY JoinedFirst DEF w1
<1>5. Joined("MsgProxyConnectionOpenTry", m, w2, 2) BY <1>4, JoinedStep DEF w2
<1>6. Joined("MsgProxyConnectionOpenTry", m, w3, 3) BY <1>5, JoinedStep DEF w3
<1>7. Joined("MsgProxyConnectionOpenTry", m, w4, 4) BY <1>6, JoinedStep DEF w4
<1>8. Joined("MsgProxyConnectionOpenTry", m, w5, 5) BY <1>7, JoinedStep DEF w5
<1>9. Joined("MsgProxyConnectionOpenTry", m, w6, 6) BY <1>8, JoinedStep DEF w6
<1>10. Joined("MsgProxyConnectionOpenTry", m, w7, 7) BY <1>9, JoinedStep DEF w7
<1>11. Joined("MsgProxyConnectionOpenTry", m, w8, 8) BY <1>10, JoinedStep DEF w8
<1>12. Joined("MsgProxyConnectionOpenTry", m, w9, 9) BY <1>11, JoinedStep DEF w9
<1>13. Joined("MsgProxyConnectionOpenTry", m, w10, 10) BY <1>12, JoinedStep DEF w10
<1>14. Joined("MsgProxyConnectionOpenTry", m, w11, 11) BY <1>13, JoinedStep DEF w11
<1>15. Joined("MsgProxyConnectionOpenTry", m, w12, 12) BY <1>14, JoinedStep DEF w12
<1>16. Joined("MsgProxyConnectionOpenTry", m, w13, 13) BY <1>15, JoinedStep DEF w13
<1>17. Joined("MsgProxyConnectionOpenTry", m, w14, 14) BY <1>16, JoinedStep DEF w14
<1>18. Joined("MsgProxyConnectionOpenTry", m, w15, 15) BY <1>17, JoinedStep DEF w15
<1>19. Joined("MsgProxyConnectionOpenTry", m, w16, 16) BY <1>18, JoinedStep DEF w16
<1> QED BY <1>3, <1>19

\* MsgProxyConnectionOpenAck.
LEMMA JoinedMsgProxyConnectionOpenAck ==
  ASSUME NEW m
  PROVE  Joined("MsgProxyConnectionOpenAck", m, MarshalMsgProxyConnectionOpenAck(m), 16)
<1> DEFINE P(n) == PieceOf("MsgProxyConnectionOpenAck", n, m)
           w1 == P(1)  w2 == w1 \o P(2)  w3 == w2 \o P(3)  w4 == w3 \o P(4)
            w5 == w4 \o P(5)  w6 == w5 \o P(6)  w7 == w6 \o P(7)  w8 == w7 \o P(8)
            w9 == w8 \o P(9)  w10 == w9 \o P(10)  w11 == w10 \o P(11)  w12 == w11 \o P(12)
            w13 == w12 \o P(13)  w14 == w13 \o P(14)  w15 == w14 \o P(15)  w16 == w15 \o P(16)
<1>1. Cases["MsgProxyConnectionOpenAck"] = UnmarshalMsgProxyConnectionOpenAck
  BY DEF Structs, Cases, TxStructs, LightClientStructs, TxCases, LightClientCases
<1>2. /\ P(1) = Bytes(<<10>>, m.ConnectionId) /\ P(2) = Embedded(<<18>>, m.UpstreamPrefix)
      /\ P(3) = Embedded(<<26>>, m.Connection)
      /\ P(4) = Pointer(<<34>>, m.DownstreamClientState)
      /\ P(5) = Pointer(<<42>>, m.DownstreamConsensusState)
      /\ P(6) = Pointer(<<50>>, m.ProxyClientState) /\ P(7) = Bytes(<<58>>, m.ProofTry)
      /\ P(8) = Bytes(<<66>>, m.ProofClient) /\ P(9) = Bytes(<<74>>, m.ProofConsensus)
      /\ P(10) = Embedded(<<82>>, m.ProofHeight) /\ P(11) = Embedded(<<90>>, m.ConsensusHeight)
      /\ P(12) = Bytes(<<98>>, m.ProofProxyClient)
      /\ P(13) = Bytes(<<106>>, m.ProofProxyConsensus)
      /\ P(14) = Embedded(<<114>>, m.ProofProxyHeight)
      /\ P(15) = Embedded(<<122>>, m.ProxyConsensusHeight)
      /\ P(16) = Bytes(<<130, 1>>, m.Signer)
  BY <1>1 DEF PieceOf, Tag, UnmarshalMsgProxyConnectionOpenAck
<1>3. MarshalMsgProxyConnectionOpenAck(m) = w16 BY <1>2 DEF MarshalMsgProxyConnectionOpenAck
<1> HIDE DEF w1, w2, w3, w4, w5, w6, w7, w8, w9, w10, w11, w12, w13, w14, w15, w16
<1>4. Joined("MsgProxyConnectionOpenAck", m, w1, 1) BY JoinedFirst DEF w1
<1>5. Joined("MsgProxyConnectionOpenAck", m, w2, 2) BY <1>4, JoinedStep DEF w2
<1>6. Joined("MsgProxyConnectionOpenAck", m, w3, 3) BY <1>5, JoinedStep DEF w3
<1>7. Joined("MsgProxyConnectionOpenAck", m, w4, 4) BY <1>6, JoinedStep DEF w4
<1>8. Joined("MsgProxyConnectionOpenAck", m, w5, 5) BY <1>7, JoinedStep DEF w5
<1>9. Joined("MsgProxyConnectionOpenAck", m, w6, 6) BY <1>8, JoinedStep DEF w6
<1>10. Joined("MsgProxyConnectionOpenAck", m, w7, 7) BY <1>9, JoinedStep DEF w7
<1>11. Joined("MsgProxyConnectionOpenAck", m, w8, 8) BY <1>10, JoinedStep DEF w8
<1>12. Joined("MsgProxyConnectionOpenAck", m, w9, 9) BY <1>11, JoinedStep DEF w9
<1>13. Joined("MsgProxyConnectionOpenAck", m, w10, 10) BY <1>12, JoinedStep DEF w10
<1>14. Joined("MsgProxyConnectionOpenAck", m, w11, 11) BY <1>13, JoinedStep DEF w11
<1>15. Joined("MsgProxyConnectionOpenAck", m, w12, 12) BY <1>14, JoinedStep DEF w12
<1>16. Joined("MsgProxyConnectionOpenAck", m, w13, 13) BY <1>15, JoinedStep DEF w13
<1>17. Joined("MsgProxyConnectionOpenAck", m, w14, 14) BY <1>16, JoinedStep DEF w14
<1>18. Joined("MsgProxyConnectionOpenAck", m, w15, 15) BY <1>17, JoinedStep DEF w15
<1>19. Joined("MsgProxyConnectionOpenAck", m, w16, 16) BY <1>18, JoinedStep DEF w16
<1> QED BY <1>3, <1>19

\* MsgProxyConnectionOpenConfirm.
LEMMA JoinedMsgProxyConnectionOpenConfirm ==
  ASSUME NEW m
  PROVE  Joined("MsgProxyConnectionOpenConfirm", m, MarshalMsgProxyConnectionOpenConfirm(m), 7)
<1> DEFINE P(n) == PieceOf("MsgProxyConnectionOpenConfirm", n, m)
           w1 == P(1)  w2 == w1 \o P(2)  w3 == w2 \o P(3)  w4 == w3 \o P(4)
            w5 == w4 \o P(5)  w6 == w5 \o P(6)  w7 == w6 \o P(7)
<1>1. Cases["MsgProxyConnectionOpenConfirm"] = UnmarshalMsgProxyConnectionOpenConfirm
  BY DEF Structs, Cases, TxStructs, LightClientStructs, TxCases, LightClientCases
<1>2. /\ P(1) = Bytes(<<10>>, m.ConnectionId) /\ P(2) = Bytes(<<18>>, m.UpstreamClientId)
      /\ P(3) = Embedded(<<26>>, m.UpstreamPrefix)
      /\ P(4) = Bytes(<<34>>, m.CounterpartyConnectionId) /\ P(5) = Bytes(<<42>>, m.ProofAck)
      /\ P(6) = Embedded(<<50>>, m.ProofHeight) /\ P(7) = Bytes(<<58>>, m.Signer)
  BY <1>1 DEF PieceOf, Tag, UnmarshalMsgProxyConnectionOpenConfirm
<1>3. MarshalMsgProxyConnectionOpenConfirm(m) = w7 BY <1>2 DEF MarshalMsgProxyConnectionOpenConfirm
<1> HIDE DEF w1, w2, w3, w4, w5, w6, w7
<1>4. Joined("MsgProxyConnectionOpenConfirm", m, w1, 1) BY JoinedFirst DEF w1
<1>5. Joined("MsgProxyConnectionOpenConfirm", m, w2, 2) BY <1>4, JoinedStep DEF w2
<1>6. Joined("MsgProxyConnectionOpenConfirm", m, w3, 3) BY <1>5, JoinedStep DEF w3
<1>7. Joined("MsgProxyConnectionOpenConfirm", m, w4, 4) BY <1>6, JoinedStep DEF w4
<1>8. Joined("MsgProxyConnectionOpenConfirm", m, w5, 5) BY <1>7, JoinedStep DEF w5
<1>9. Joined("MsgProxyConnectionOpenConfirm", m, w6, 6) BY <1>8, JoinedStep DEF w6
<1>10. Joined("MsgProxyConnectionOpenConfirm", m, w7, 7) BY <1>9, JoinedStep DEF w7
<1> QED BY <1>3, <1>10

\* MsgProxyConnectionOpenFinalize.
LEMMA JoinedMsgProxyConnectionOpenFinalize ==
  ASSUME NEW m
  PROVE  Joined("MsgProxyConnectionOpenFinalize", m, MarshalMsgProxyConnectionOpenFinalize(m), 6)
<1> DEFINE P(n) == PieceOf("MsgProxyConnectionOpenFinalize", n, m)
           w1 == P(1)  w2 == w1 \o P(2)  w3 == w2 \o P(3)  w4 == w3 \o P(4)
            w5 == w4 \o P(5)  w6 == w5 \o P(6)
<1>1. Cases["MsgProxyConnectionOpenFinalize"] = UnmarshalMsgProxyConnectionOpenFinalize
  BY DEF Structs, Cases, TxStructs, LightClientStructs, TxCases, LightClientCases
<1>2. /\ P(1) = Bytes(<<10>>, m.ConnectionId) /\ P(2) = Bytes(<<18>>, m.UpstreamClientId)
      /\ P(3) = Embedded(<<26>>, m.UpstreamPrefix) /\ P(4) = Bytes(<<34>>, m.ProofConfirm)
      /\ P(5) = Embedded(<<42>>, m.ProofHeight) /\ P(6) = Bytes(<<50>>, m.Signer)
  BY <1>1 DEF PieceOf, Tag, UnmarshalMsgProxyConnectionOpenFinalize
<1>3. MarshalMsgProxyConnectionOpenFinalize(m) = w6 BY <1>2 DEF MarshalMsgProxyConnectionOpenFinalize
<1> HIDE DEF w1, w2, w3, w4, w5, w6
<1>4. Joined("MsgProxyConnectionOpenFinalize", m, w1, 1) BY JoinedFirst DEF w1
<1>5. Joined("MsgProxyConnectionOpenFinalize", m, w2, 2) BY <1>4, JoinedStep DEF w2
<1>6. Joined("MsgProxyConnectionOpenFinalize", m, w3, 3) BY <1>5, JoinedStep DEF w3
<1>7. Joined("MsgProxyConnectionOpenFinalize", m, w4, 4) BY <1>6, JoinedStep DEF w4
<1>8. Joined("MsgProxyConnectionOpenFinalize", m, w5, 5) BY <1>7, JoinedStep DEF w5
<1>9. Joined("MsgProxyConnectionOpenFinalize", m, w6, 6) BY <1>8, JoinedStep DEF w6
<1> QED BY <1>3, <1>9

\* MsgProxyChannelOpenTry.
LEMMA JoinedMsgProxyChannelOpenTry ==
  ASSUME NEW m
  PROVE  Joined("MsgProxyChannelOpenTry", m, MarshalMsgProxyChannelOpenTry(m), 11)
<1> DEFINE P(n) == PieceOf("MsgProxyChannelOpenTry", n, m)
           w1 == P(1)  w2 == w1 \o P(2)  w3 == w2 \o P(3)  w4 == w3 \o P(4)
            w5 == w4 \o P(5)  w6 == w5 \o P(6)  w7 == w6 \o P(7)  w8 == w7 \o P(8)
            w9 == w8 \o P(9)  w10 == w9 \o P(10)  w11 == w10 \o P(11)
<1>1. Cases["MsgProxyChannelOpenTry"] = UnmarshalMsgProxyChannelOpenTry
  BY DEF Structs, Cases, TxStructs, LightClientStructs, TxCases, LightClientCases
<1>2. /\ P(1) = Bytes(<<10>>, m.UpstreamClientId) /\ P(2) = Embedded(<<18>>, m.UpstreamPrefix)
      /\ P(3) = Varint(<<24>>, m.Order) /\ P(4) = Repeated(<<34>>, m.ConnectionHops)
      /\ P(5) = Bytes(<<42>>, m.PortId) /\ P(6) = Bytes(<<50>>, m.ChannelId)
      /\ P(7) = Bytes(<<58>>, m.DownstreamPortId) /\ P(8) = Bytes(<<66>>, m.Version)
      /\ P(9) = Bytes(<<74>>, m.ProofInit) /\ P(10) = Embedded(<<82>>, m.ProofHeight)
      /\ P(11) = Bytes(<<90>>, m.Signer)
  BY <1>1 DEF PieceOf, Tag, UnmarshalMsgProxyChannelOpenTry
<1>3. MarshalMsgProxyChannelOpenTry(m) = w11 BY <1>2 DEF MarshalMsgProxyChannelOpenTry
<1> HIDE DEF w1, w2, w3, w4, w5, w6, w7, w8, w9, w10, w11
<1>4. Joined("MsgProxyChannelOpenTry", m, w1, 1) BY JoinedFirst DEF w1
<1>5. Joined("MsgProxyChannelOpenTry", m, w2, 2) BY <1>4, JoinedStep DEF w2
<1>6. Joined("MsgProxyChannelOpenTry", m, w3, 3) BY <1>5, JoinedStep DEF w3
<1>7. Joined("MsgProxyChannelOpenTry", m, w4, 4) BY <1>6, JoinedStep DEF w4
<1>8. Joined("MsgProxyChannelOpenTry", m, w5, 5) BY <1>7, JoinedStep DEF w5
<1>9. Joined("MsgProxyChannelOpenTry", m, w6, 6) BY <1>8, JoinedStep DEF w6
<1>10. Joined("MsgProxyChannelOpenTry", m, w7, 7) BY <1>9, JoinedStep DEF w7
<1>11. Joined("MsgProxyChannelOpenTry", m, w8, 8) BY <1>10, JoinedStep DEF w8
<1>12. Joined("MsgProxyChannelOpenTry", m, w9, 9) BY <1>11, JoinedStep DEF w9
<1>13. Joined("MsgProxyChannelOpenTry", m, w10, 10) BY <1>12, JoinedStep DEF w10
<1>14. Joined("MsgProxyChannelOpenTry", m, w11, 11) BY <1>13, JoinedStep DEF w11
<1> QED BY <1>3, <1>14

\* MsgProxyChannelOpenAck.
LEMMA JoinedMsgProxyChannelOpenAck ==
  ASSUME NEW m
  PROVE  Joined("MsgProxyChannelOpenAck", m, MarshalMsgProxyChannelOpenAck(m), 12)
<1> DEFINE P(n) == PieceOf("MsgProxyChannelOpenAck", n, m)
           w1 == P(1)  w2 == w1 \o P(2)  w3 == w2 \o P(3)  w4 == w3 \o P(4)
            w5 == w4 \o P(5)  w6 == w5 \o P(6)  w7 == w6 \o P(7)  w8 == w7 \o P(8)
            w9 == w8 \o P(9)  w10 == w9 \o P(10)  w11 == w10 \o P(11)  w12 == w11 \o P(12)
<1>1. Cases["MsgProxyChannelOpenAck"] = UnmarshalMsgProxyChannelOpenAck
  BY DEF Structs, Cases, TxStructs, LightClientStructs, TxCases, LightClientCases
<1>2. /\ P(1) = Bytes(<<10>>, m.UpstreamClientId) /\ P(2) = Embedded(<<18>>, m.UpstreamPrefix)
      /\ P(3) = Varint(<<24>>, m.Order) /\ P(4) = Repeated(<<34>>, m.ConnectionHops)
      /\ P(5) = Bytes(<<42>>, m.PortId) /\ P(6) = Bytes(<<50>>, m.ChannelId)
      /\ P(7) = Bytes(<<58>>, m.DownstreamPortId)
      /\ P(8) = Bytes(<<66>>, m.DownstreamChannelId) /\ P(9) = Bytes(<<74>>, m.Version)
      /\ P(10) = Bytes(<<82>>, m.ProofTry) /\ P(11) = Embedded(<<90>>, m.ProofHeight)
      /\ P(12) = Bytes(<<98>>, m.Signer)
  BY <1>1 DEF PieceOf, Tag, UnmarshalMsgProxyChannelOpenAck
<1>3. MarshalMsgProxyChannelOpenAck(m) = w12 BY <1>2 DEF MarshalMsgProxyChannelOpenAck
<1> HIDE DEF w1, w2, w3, w4, w5, w6, w7, w8, w9, w10, w11, w12
<1>4. Joined("MsgProxyChannelOpenAck", m, w1, 1) BY JoinedFirst DEF w1
<1>5. Joined("MsgProxyChannelOpenAck", m, w2, 2) BY <1>4, JoinedStep DEF w2
<1>6. Joined("MsgProxyChannelOpenAck", m, w3, 3) BY <1>5, JoinedStep DEF w3
<1>7. Joined("MsgProxyChannelOpenAck", m, w4, 4) BY <1>6, JoinedStep DEF w4
<1>8. Joined("MsgProxyChannelOpenAck", m, w5, 5) BY <1>7, JoinedStep DEF w5
<1>9. Joined("MsgProxyChannelOpenAck", m, w6, 6) BY <1>8, JoinedStep DEF w6
<1>10. Joined("MsgProxyChannelOpenAck", m, w7, 7) BY <1>9, JoinedStep DEF w7
<1>11. Joined("MsgProxyChannelOpenAck", m, w8, 8) BY <1>10, JoinedStep DEF w8
<1>12. Joined("MsgProxyChannelOpenAck", m, w9, 9) BY <1>11, JoinedStep DEF w9
<1>13. Joined("MsgProxyChannelOpenAck", m, w10, 10) BY <1>12, JoinedStep DEF w10
<1>14. Joined("MsgProxyChannelOpenAck", m, w11, 11) BY <1>13, JoinedStep DEF w11
<1>15. Joined("MsgProxyChannelOpenAck", m, w12, 12) BY <1>14, JoinedStep DEF w12
<1> QED BY <1>3, <1>15

\* MsgProxyChannelOpenConfirm.
LEMMA JoinedMsgProxyChannelOpenConfirm ==
  ASSUME NEW m
  PROVE  Joined("MsgProxyChannelOpenConfirm", m, MarshalMsgProxyChannelOpenConfirm(m), 8)
<1> DEFINE P(n) == PieceOf("MsgProxyChannelOpenConfirm", n, m)
           w1 == P(1)  w2 == w1 \o P(2)  w3 == w2 \o P(3)  w4 == w3 \o P(4)
            w5 == w4 \o P(5)  w6 == w5 \o P(6)  w7 == w6 \o P(7)  w8 == w7 \o P(8)
<1>1. Cases["MsgProxyChannelOpenConfirm"] = UnmarshalMsgProxyChannelOpenConfirm
  BY DEF Structs, Cases, TxStructs, LightClientStructs, TxCases, LightClientCases
<1>2. /\ P(1) = Bytes(<<10>>, m.UpstreamClientId) /\ P(2) = Embedded(<<18>>, m.UpstreamPrefix)
      /\ P(3) = Bytes(<<26>>, m.PortId) /\ P(4) = Bytes(<<34>>, m.ChannelId)
      /\ P(5) = Bytes(<<42>>, m.DownstreamChannelId) /\ P(6) = Bytes(<<50>>, m.ProofAck)
      /\ P(7) = Embedded(<<58>>, m.ProofHeight) /\ P(8) = Bytes(<<66>>, m.Signer)
  BY <1>1 DEF PieceOf, Tag, UnmarshalMsgProxyChannelOpenConfirm
<1>3. MarshalMsgProxyChannelOpenConfirm(m) = w8 BY <1>2 DEF MarshalMsgProxyChannelOpenConfirm
<1> HIDE DEF w1, w2, w3, w4, w5, w6, w7, w8
<1>4. Joined("MsgProxyChannelOpenConfirm", m, w1, 1) BY JoinedFirst DEF w1
<1>5. Joined("MsgProxyChannelOpenConfirm", m, w2, 2) BY <1>4, JoinedStep DEF w2
<1>6. Joined("MsgProxyChannelOpenConfirm", m, w3, 3) BY <1>5, JoinedStep DEF w3
<1>7. Joined("MsgProxyChannelOpenConfirm", m, w4, 4) BY <1>6, JoinedStep DEF w4
<1>8. Joined("MsgProxyChannelOpenConfirm", m, w5, 5) BY <1>7, JoinedStep DEF w5
<1>9. Joined("MsgProxyChannelOpenConfirm", m, w6, 6) BY <1>8, JoinedStep DEF w6
<1>10. Joined("MsgProxyChannelOpenConfirm", m, w7, 7) BY <1>9, JoinedStep DEF w7
<1>11. Joined("MsgProxyChannelOpenConfirm", m, w8, 8) BY <1>10, JoinedStep DEF w8
<1> QED BY <1>3, <1>11

\* MsgProxyChannelOpenFinalize.
LEMMA JoinedMsgProxyChannelOpenFinalize ==
  ASSUME NEW m
  PROVE  Joined("MsgProxyChannelOpenFinalize", m, MarshalMsgProxyChannelOpenFinalize(m), 7)
<1> DEFINE P(n) == PieceOf("MsgProxyChannelOpenFinalize", n, m)
           w1 == P(1)  w2 == w1 \o P(2)  w3 == w2 \o P(3)  w4 == w3 \o P(4)
            w5 == w4 \o P(5)  w6 == w5 \o P(6)  w7 == w6 \o P(7)
<1>1. Cases["MsgProxyChannelOpenFinalize"] = UnmarshalMsgProxyChannelOpenFinalize
  BY DEF Structs, Cases, TxStructs, LightClientStructs, TxCases, LightClientCases
<1>2. /\ P(1) = Bytes(<<10>>, m.UpstreamClientId) /\ P(2) = Embedded(<<18>>, m.UpstreamPrefix)
      /\ P(3) = Bytes(<<26>>, m.PortId) /\ P(4) = Bytes(<<34>>, m.ChannelId)
      /\ P(5) = Bytes(<<42>>, m.ProofConfirm) /\ P(6) = Embedded(<<50>>, m.ProofHeight)
      /\ P(7) = Bytes(<<58>>, m.Signer)
  BY <1>1 DEF PieceOf, Tag, UnmarshalMsgProxyChannelOpenFinalize
<1>3. MarshalMsgProxyChannelOpenFinalize(m) = w7 BY <1>2 DEF MarshalMsgProxyChannelOpenFinalize
<1> HIDE DEF w1, w2, w3, w4, w5, w6, w7
<1>4. Joined("MsgProxyChannelOpenFinalize", m, w1, 1) BY JoinedFirst DEF w1
<1>5. Joined("MsgProxyChannelOpenFinalize", m, w2, 2) BY <1>4, JoinedStep DEF w2
<1>6. Joined("MsgProxyChannelOpenFinalize", m, w3, 3) BY <1>5, JoinedStep DEF w3
<1>7. Joined("MsgProxyChannelOpenFinalize", m, w4, 4) BY <1>6, JoinedStep DEF w4
<1>8. Joined("MsgProxyChannelOpenFinalize", m, w5, 5) BY <1>7, JoinedStep DEF w5
<1>9. Joined("MsgProxyChannelOpenFinalize", m, w6, 6) BY <1>8, JoinedStep DEF w6
<1>10. Joined("MsgProxyChannelOpenFinalize", m, w7, 7) BY <1>9, JoinedStep DEF w7
<1> QED BY <1>3, <1>10

\* MsgProxyRecvPacket.
LEMMA JoinedMsgProxyRecvPacket ==
  ASSUME NEW m
  PROVE  Joined("MsgProxyRecvPacket", m, MarshalMsgProxyRecvPacket(m), 6)
<1> DEFINE P(n) == PieceOf("MsgProxyRecvPacket", n, m)
           w1 == P(1)  w2 == w1 \o P(2)  w3 == w2 \o P(3)  w4 == w3 \o P(4)
            w5 == w4 \o P(5)  w6 == w5 \o P(6)
<1>1. Cases["MsgProxyRecvPacket"] = UnmarshalMsgProxyRecvPacket
  BY DEF Structs, Cases, TxStructs, LightClientStructs, TxCases, LightClientCases
<1>2. /\ P(1) = Bytes(<<10>>, m.UpstreamClientId) /\ P(2) = Embedded(<<18>>, m.UpstreamPrefix)
      /\ P(3) = Embedded(<<26>>, m.Packet) /\ P(4) = Bytes(<<34>>, m.Proof)
      /\ P(5) = Embedded(<<42>>, m.ProofHeight) /\ P(6) = Bytes(<<50>>, m.Signer)
  BY <1>1 DEF PieceOf, Tag, UnmarshalMsgProxyRecvPacket
<1>3. MarshalMsgProxyRecvPacket(m) = w6 BY <1>2 DEF MarshalMsgProxyRecvPacket
<1> HIDE DEF w1, w2, w3, w4, w5, w6
<1>4. Joined("MsgProxyRecvPacket", m, w1, 1) BY JoinedFirst DEF w1
<1>5. Joined("MsgProxyRecvPacket", m, w2, 2) BY <1>4, JoinedStep DEF w2
<1>6. Joined("MsgProxyRecvPacket", m, w3, 3) BY <1>5, JoinedStep DEF w3
<1>7. Joined("MsgProxyRecvPacket", m, w4, 4) BY <1>6, JoinedStep DEF w4
<1>8. Joined("MsgProxyRecvPacket", m, w5, 5) BY <1>7, JoinedStep DEF w5
<1>9. Joined("MsgProxyRecvPacket", m, w6, 6) BY <1>8, JoinedStep DEF w6
<1> QED BY <1>3, <1>9

\* MsgProxyAcknowledgePacket.
LEMMA JoinedMsgProxyAcknowledgePacket ==
  ASSUME NEW m
  PROVE  Joined("MsgProxyAcknowledgePacket", m, MarshalMsgProxyAcknowledgePacket(m), 7)
<1> DEFINE P(n) == PieceOf("MsgProxyAcknowledgePacket", n, m)
           w1 == P(1)  w2 == w1 \o P(2)  w3 == w2 \o P(3)  w4 == w3 \o P(4)
            w5 == w4 \o P(5)  w6 == w5 \o P(6)  w7 == w6 \o P(7)
<1>1. Cases["MsgProxyAcknowledgePacket"] = UnmarshalMsgProxyAcknowledgePacket
  BY DEF Structs, Cases, TxStructs, LightClientStructs, TxCases, LightClientCases
<1>2. /\ P(1) = Bytes(<<10>>, m.UpstreamClientId) /\ P(2) = Embedded(<<18>>, m.UpstreamPrefix)
      /\ P(3) = Embedded(<<26>>, m.Packet) /\ P(4) = Bytes(<<34>>, m.Acknowledgement)
      /\ P(5) = Bytes(<<42>>, m.Proof) /\ P(6) = Embedded(<<50>>, m.ProofHeight)
      /\ P(7) = Bytes(<<58>>, m.Signer)
  BY <1>1 DEF PieceOf, Tag, UnmarshalMsgProxyAcknowledgePacket
<1>3. MarshalMsgProxyAcknowledgePacket(m) = w7 BY <1>2 DEF MarshalMsgProxyAcknowledgePacket
<1> HIDE DEF w1, w2, w3, w4, w5, w6, w7
<1>4. Joined("MsgProxyAcknowledgePacket", m, w1, 1) BY JoinedFirst DEF w1
<1>5. Joined("MsgProxyAcknowledgePacket", m, w2, 2) BY <1>4, JoinedStep DEF w2
<1>6. Joined("MsgProxyAcknowledgePacket", m, w3, 3) BY <1>5, JoinedStep DEF w3
<1>7. Joined("MsgProxyAcknowledgePacket", m, w4, 4) BY <1>6, JoinedStep DEF w4
<1>8. Joined("MsgProxyAcknowledgePacket", m, w5, 5) BY <1>7, JoinedStep DEF w5
<1>9. Joined("MsgProxyAcknowledgePacket", m, w6, 6) BY <1>8, JoinedStep DEF w6
<1>10. Joined("MsgProxyAcknowledgePacket", m, w7, 7) BY <1>9, JoinedStep DEF w7
<1> QED BY <1>3, <1>10

\* MultivClientState.
LEMMA JoinedMultivClientState ==
  ASSUME NEW m
  PROVE  Joined("MultivClientState", m, MarshalMultivClientState(m), 2)
<1> DEFINE P(n) == PieceOf("MultivClientState", n, m)
           w1 == P(1)  w2 == w1 \o P(2)
<1>1. Cases["MultivClientState"] = UnmarshalMultivClientState
  BY DEF Structs, Cases, TxStructs, LightClientStructs, TxCases, LightClientCases
<1>2. /\ P(1) = Pointer(<<10>>, m.UnderlyingClientState) /\ P(2) = Varint(<<16>>, m.Depth)
  BY <1>1 DEF PieceOf, Tag, UnmarshalMultivClientState
<1>3. MarshalMultivClientState(m) = w2 BY <1>2 DEF MarshalMultivClientState
<1> HIDE DEF w1, w2
<1>4. Joined("MultivClientState", m, w1, 1) BY JoinedFirst DEF w1
<1>5. Joined("MultivClientState", m, w2, 2) BY <1>4, JoinedStep DEF w2
<1> QED BY <1>3, <1>5

\* MultiProof.
LEMMA JoinedMultiProof ==
  ASSUME NEW m
  PROVE  Joined("MultiProof", m, MarshalMultiProof(m), 3)
<1> DEFINE P(n) == PieceOf("MultiProof", n, m)
           w1 == P(1)  w2 == w1 \o P(2)  w3 == w2 \o P(3)
<1>1. Cases["MultiProof"] = UnmarshalMultiProof
  BY DEF Structs, Cases, TxStructs, LightClientStructs, TxCases, LightClientCases
<1>2. /\ P(1) = Embedded(<<10>>, m.Head) /\ P(2) = Repeated(<<18>>, m.Branches)
      /\ P(3) = Embedded(<<26>>, m.Leaf)
  BY <1>1 DEF PieceOf, Tag, UnmarshalMultiProof
<1>3. MarshalMultiProof(m) = w3 BY <1>2 DEF MarshalMultiProof
<1> HIDE DEF w1, w2, w3
<1>4. Joined("MultiProof", m, w1, 1) BY JoinedFirst DEF w1
<1>5. Joined("MultiProof", m, w2, 2) BY <1>4, JoinedStep DEF w2
<1>6. Joined("MultiProof", m, w3, 3) BY <1>5, JoinedStep DEF w3
<1> QED BY <1>3, <1>6

\* Proof.
LEMMA JoinedProof ==
  ASSUME NEW m
  PROVE  Joined("Proof", m, MarshalProof(m), 6)
<1> DEFINE P(n) == PieceOf("Proof", n, m)
           w1 == P(1)  w2 == w1 \o P(2)  w3 == w2 \o P(3)  w4 == w3 \o P(4)
            w5 == w4 \o P(5)  w6 == w5 \o P(6)
<1>1. Cases["Proof"] = UnmarshalProof
  BY DEF Structs, Cases, TxStructs, LightClientStructs, TxCases, LightClientCases
<1>2. /\ P(1) = Bytes(<<10>>, m.ClientProof) /\ P(2) = Pointer(<<18>>, m.ClientState)
      /\ P(3) = Bytes(<<26>>, m.ConsensusProof) /\ P(4) = Pointer(<<34>>, m.ConsensusState)
      /\ P(5) = Embedded(<<42>>, m.ProofHeight) /\ P(6) = Embedded(<<50>>, m.ConsensusHeight)
  BY <1>1 DEF PieceOf, Tag, UnmarshalProof
<1>3. MarshalProof(m) = w6 BY <1>2 DEF MarshalProof
<1> HIDE DEF w1, w2, w3, w4, w5, w6
<1>4. Joined("Proof", m, w1, 1) BY JoinedFirst DEF w1
<1>5. Joined("Proof", m, w2, 2) BY <1>4, JoinedStep DEF w2
<1>6. Joined("Proof", m, w3, 3) BY <1>5, JoinedStep DEF w3
<1>7. Joined("Proof", m, w4, 4) BY <1>6, JoinedStep DEF w4
<1>8. Joined("Proof", m, w5, 5) BY <1>7, JoinedStep DEF w5
<1>9. Joined("Proof", m, w6, 6) BY <1>8, JoinedStep DEF w6
<1> QED BY <1>3, <1>9

\* LeafProof.
LEMMA JoinedLeafProof ==
  ASSUME NEW m
  PROVE  Joined("LeafProof", m, MarshalLeafProof(m), 2)
<1> DEFINE P(n) == PieceOf("LeafProof", n, m)
           w1 == P(1)  w2 == w1 \o P(2)
<1>1. Cases["LeafProof"] = UnmarshalLeafProof
  BY DEF Structs, Cases, TxStructs, LightClientStructs, TxCases, LightClientCases
<1>2. /\ P(1) = Bytes(<<10>>, m.Proof) /\ P(2) = Embedded(<<18>>, m.ProofHeight)
  BY <1>1 DEF PieceOf, Tag, UnmarshalLeafProof
<1>3. MarshalLeafProof(m) = w2 BY <1>2 DEF MarshalLeafProof
<1> HIDE DEF w1, w2
<1>4. Joined("LeafProof", m, w1, 1) BY JoinedFirst DEF w1
<1>5. Joined("LeafProof", m, w2, 2) BY <1>4, JoinedStep DEF w2
<1> QED BY <1>3, <1>5

\* ProxyClientState.
LEMMA JoinedProxyClientState ==
  ASSUME NEW m
  PROVE  Joined("ProxyClientState", m, MarshalProxyClientState(m), 4)
<1> DEFINE P(n) == PieceOf("ProxyClientState", n, m)
           w1 == P(1)  w2 == w1 \o P(2)  w3 == w2 \o P(3)  w4 == w3 \o P(4)
<1>1. Cases["ProxyClientState"] = UnmarshalProxyClientState
  BY DEF Structs, Cases, TxStructs, LightClientStructs, TxCases, LightClientCases
<1>2. /\ P(1) = Pointer(<<10>>, m.ProxyClientState) /\ P(2) = Bytes(<<18>>, m.UpstreamClientId)
      /\ P(3) = Pointer(<<26>>, m.ProxyPrefix) /\ P(4) = Pointer(<<34>>, m.IbcPrefix)
  BY <1>1 DEF PieceOf, Tag, UnmarshalProxyClientState
<1>3. MarshalProxyClientState(m) = w4 BY <1>2 DEF MarshalProxyClientState
<1> HIDE DEF w1, w2, w3, w4
<1>4. Joined("ProxyClientState", m, w1, 1) BY JoinedFirst DEF w1
<1>5. Joined("ProxyClientState", m, w2, 2) BY <1>4, JoinedStep DEF w2
<1>6. Joined("ProxyClientState", m, w3, 3) BY <1>5, JoinedStep DEF w3
<1>7. Joined("ProxyClientState", m, w4, 4) BY <1>6, JoinedStep DEF w4
<1> QED BY <1>3, <1>7

\* ProxyConsensusState.
LEMMA JoinedProxyConsensusState ==
  ASSUME NEW m
  PROVE  Joined("ProxyConsensusState", m, MarshalProxyConsensusState(m), 1)
<1> DEFINE P(n) == PieceOf("ProxyConsensusState", n, m)
           w1 == P(1)
<1>1. Cases["ProxyConsensusState"] = UnmarshalProxyConsensusState
  BY DEF Structs, Cases, TxStructs, LightClientStructs, TxCases, LightClientCases
<1>2. /\ P(1) = Pointer(<<10>>, m.ProxyConsensusState)
  BY <1>1 DEF PieceOf, Tag, UnmarshalProxyConsensusState
<1>3. MarshalProxyConsensusState(m) = w1 BY <1>2 DEF MarshalProxyConsensusState
<1> HIDE DEF w1
<1>4. Joined("ProxyConsensusState", m, w1, 1) BY JoinedFirst DEF w1
<1> QED BY <1>3, <1>4

\* The same of every message.
LEMMA MarshalJoined ==
  ASSUME NEW t \in DOMAIN Structs, NEW m
  PROVE  Joined(t, m, Written(t, m), Len(Cases[t]))
<1>1. CASE t = "MsgProxyClientState"
  <2>1. Written(t, m) = MarshalMsgProxyClientState(m) BY <1>1, StructNames DEF Written, MarshalTx
  <2>2. Len(Cases[t]) = 10
    BY <1>1 DEF Structs, Cases, TxStructs, LightClientStructs, TxCases, LightClientCases,
                UnmarshalMsgProxyClientState
  <2> QED BY <1>1, <2>1, <2>2, JoinedMsgProxyClientState
<1>2. CASE t = "MsgProxyConnectionOpenTry"
  <2>1. Written(t, m) = MarshalMsgProxyConnectionOpenTry(m) BY <1>2, StructNames DEF Written, MarshalTx
  <2>2. Len(Cases[t]) = 16
    BY <1>2 DEF Structs, Cases, TxStructs, LightClientStructs, TxCases, LightClientCases,
                UnmarshalMsgProxyConnectionOpenTry
  <2> QED BY <1>2, <2>1, <2>2, JoinedMsgProxyConnectionOpenTry
<1>3. CASE t = "MsgProxyConnectionOpenAck"
  <2>1. Written(t, m) = MarshalMsgProxyConnectionOpenAck(m) BY <1>3, StructNames DEF Written, MarshalTx
  <2>2. Len(Cases[t]) = 16
    BY <1>3 DEF Structs, Cases, TxStructs, LightClientStructs, TxCases, LightClientCases,
                UnmarshalMsgProxyConnectionOpenAck
  <2> QED BY <1>3, <2>1, <2>2, JoinedMsgProxyConnectionOpenAck
<1>4. CASE t = "MsgProxyConnectionOpenConfirm"
  <2>1. Written(t, m) = MarshalMsgProxyConnectionOpenConfirm(m) BY <1>4, StructNames DEF Written, MarshalTx
  <2>2. Len(Cases[t]) = 7
    BY <1>4 DEF Structs, Cases, TxStructs, LightClientStructs, TxCases, LightClientCases,
                UnmarshalMsgProxyConnectionOpenConfirm
  <2> QED BY <1>4, <2>1, <2>2, JoinedMsgProxyConnectionOpenConfirm
<1>5. CASE t = "MsgProxyConnectionOpenFinalize"
  <2>1. Written(t, m) = MarshalMsgProxyConnectionOpenFinalize(m) BY <1>5, StructNames DEF Written, MarshalTx
  <2>2. Len(Cases[t]) = 6
    BY <1>5 DEF Structs, Cases, TxStructs, LightClientStructs, TxCases, LightClientCases,
                UnmarshalMsgProxyConnectionOpenFinalize
  <2> QED BY <1>5, <2>1, <2>2, JoinedMsgProxyConnectionOpenFinalize
<1>6. CASE t = "MsgProxyChannelOpenTry"
  <2>1. Written(t, m) = MarshalMsgProxyChannelOpenTry(m) BY <1>6, StructNames DEF Written, MarshalTx
  <2>2. Len(Cases[t]) = 11
    BY <1>6 DEF Structs, Cases, TxStructs, LightClientStructs, TxCases, LightClientCases,
                UnmarshalMsgProxyChannelOpenTry
  <2> QED BY <1>6, <2>1, <2>2, JoinedMsgProxyChannelOpenTry
<1>7. CASE t = "MsgProxyChannelOpenAck"
  <2>1. Written(t, m) = MarshalMsgProxyChannelOpenAck(m) BY <1>7, StructNames DEF Written, MarshalTx
  <2>2. Len(Cases[t]) = 12
    BY <1>7 DEF Structs, Cases, TxStructs, LightClientStructs, TxCases, LightClientCases,
                UnmarshalMsgProxyChannelOpenAck
  <2> QED BY <1>7, <2>1, <2>2, JoinedMsgProxyChannelOpenAck
<1>8. CASE t = "MsgProxyChannelOpenConfirm"
  <2>1. Written(t, m) = MarshalMsgProxyChannelOpenConfirm(m) BY <1>8, StructNames DEF Written, MarshalTx
  <2>2. Len(Cases[t]) = 8
    BY <1>8 DEF Structs, Cases, TxStructs, LightClientStructs, TxCases, LightClientCases,
                UnmarshalMsgProxyChannelOpenConfirm
  <2> QED BY <1>8, <2>1, <2>2, JoinedMsgProxyChannelOpenConfirm
<1>9. CASE t = "MsgProxyChannelOpenFinalize"
  <2>1. Written(t, m) = MarshalMsgProxyChannelOpenFinalize(m) BY <1>9, StructNames DEF Written, MarshalTx
  <2>2. Len(Cases[t]) = 7
    BY <1>9 DEF Structs, Cases, TxStructs, LightClientStructs, TxCases, LightClientCases,
                UnmarshalMsgProxyChannelOpenFinalize
  <2> QED BY <1>9, <2>1, <2>2, JoinedMsgProxyChannelOpenFinalize
<1>10. CASE t = "MsgProxyRecvPacket"
  <2>1. Written(t, m) = MarshalMsgProxyRecvPacket(m) BY <1>10, StructNames DEF Written, MarshalTx
  <2>2. Len(Cases[t]) = 6
    BY <1>10 DEF Structs, Cases, TxStructs, LightClientStructs, TxCases, LightClientCases,
                UnmarshalMsgProxyRecvPacket
  <2> QED BY <1>10, <2>1, <2>2, JoinedMsgProxyRecvPacket
<1>11. CASE t = "MsgProxyAcknowledgePacket"
  <2>1. Written(t, m) = MarshalMsgProxyAcknowledgePacket(m) BY <1>11, StructNames DEF Written, MarshalTx
  <2>2. Len(Cases[t]) = 7
    BY <1>11 DEF Structs, Cases, TxStructs, LightClientStructs, TxCases, LightClientCases,
                UnmarshalMsgProxyAcknowledgePacket
  <2> QED BY <1>11, <2>1, <2>2, JoinedMsgProxyAcknowledgePacket
<1>12. CASE t = "MultivClientState"
  <2>1. Written(t, m) = MarshalMultivClientState(m) BY <1>12, StructNames DEF Written, MarshalLightClient
  <2>2. Len(Cases[t]) = 2
    BY <1>12 DEF Structs, Cases, TxStructs, LightClientStructs, TxCases, LightClientCases,
                UnmarshalMultivClientState
  <2> QED BY <1>12, <2>1, <2>2, JoinedMultivClientState
<1>13. CASE t = "MultiProof"
  <2>1. Written(t, m) = MarshalMultiProof(m) BY <1>13, StructNames DEF Written, MarshalLightClient
  <2>2. Len(Cases[t]) = 3
    BY <1>13 DEF Structs, Cases, TxStructs, LightClientStructs, TxCases, LightClientCases,
                UnmarshalMultiProof
  <2> QED BY <1>13, <2>1, <2>2, JoinedMultiProof
<1>14. CASE t = "Proof"
  <2>1. Written(t, m) = MarshalProof(m) BY <1>14, StructNames DEF Written, MarshalLightClient
  <2>2. Len(Cases[t]) = 6
    BY <1>14 DEF Structs, Cases, TxStructs, LightClientStructs, TxCases, LightClientCases,
                UnmarshalProof
  <2> QED BY <1>14, <2>1, <2>2, JoinedProof
<1>15. CASE t = "LeafProof"
  <2>1. Written(t, m) = MarshalLeafProof(m) BY <1>15, StructNames DEF Written, MarshalLightClient
  <2>2. Len(Cases[t]) = 2
    BY <1>15 DEF Structs, Cases, TxStructs, LightClientStructs, TxCases, LightClientCases,
                UnmarshalLeafProof
  <2> QED BY <1>15, <2>1, <2>2, JoinedLeafProof
<1>16. CASE t = "ProxyClientState"
  <2>1. Written(t, m) = MarshalProxyClientState(m) BY <1>16, StructNames DEF Written, MarshalLightClient
  <2>2. Len(Cases[t]) = 4
    BY <1>16 DEF Structs, Cases, TxStructs, LightClientStructs, TxCases, LightClientCases,
                UnmarshalProxyClientState
  <2> QED BY <1>16, <2>1, <2>2, JoinedProxyClientState
<1>17. CASE t = "ProxyConsensusState"
  <2>1. Written(t, m) = MarshalProxyConsensusState(m) BY <1>17, StructNames DEF Written, MarshalLightClient
  <2>2. Len(Cases[t]) = 1
    BY <1>17 DEF Structs, Cases, TxStructs, LightClientStructs, TxCases, LightClientCases,
                UnmarshalProxyConsensusState
  <2> QED BY <1>17, <2>1, <2>2, JoinedProxyConsensusState
<1> QED BY StructNames, <1>1, <1>2, <1>3, <1>4, <1>5, <1>6, <1>7, <1>8, <1>9, <1>10, <1>11, <1>12, <1>13, <1>14, <1>15, <1>16, <1>17

-----------------------------------------------------------------------------
(* Pieces in a row, and the messages that arise while they are read. *)

\* The sequences E[1], ..., E[K], one after the other.
InRow(F, E, K) ==
  F[1] = E[1] /\ \A k \in 1..(K - 1) : F[k + 1] = F[k] \o E[k + 1]

ByteRow(E, K) == \A k \in 1..K : E[k] \in Seq(Byte)

\* The buffer d holds each of them after those before it, from the index i on.
RowHeld(d, i, F, E, K) ==
  /\ \A k \in 1..K : F[k] \in Seq(Byte) /\ Len(F[k]) \in Nat
  /\ At(d, i, E[1]) /\ Len(F[1]) = Len(E[1])
  /\ \A k \in 1..(K - 1) : At(d, i + Len(F[k]), E[k + 1]) /\ Len(F[k + 1]) = Len(F[k]) + Len(E[k + 1])

\* A buffer that holds the whole row holds each of its parts.
LEMMA RowAt ==
  ASSUME NEW K \in Nat, K > 0, NEW F, NEW E, ByteRow(E, K),
         InRow(F, E, K), NEW d \in Seq(Byte), NEW i \in Nat, At(d, i, F[K])
  PROVE  RowHeld(d, i, F, E, K)
<1>0. \A k \in 1..K : E[k] \in Seq(Byte) BY DEF ByteRow
<1> DEFINE S == {k \in Nat : k + 1 <= K => F[k + 1] \in Seq(Byte)}
<1>1. 0 \in S
  <2>1. 1 \in 1..K OBVIOUS
  <2> QED BY <1>0, <2>1 DEF InRow
<1>2. ASSUME NEW k \in Nat, k \in S PROVE k + 1 \in S
  <2> SUFFICES ASSUME (k + 1) + 1 <= K PROVE F[(k + 1) + 1] \in Seq(Byte) OBVIOUS
  <2>1. k + 1 \in 1..(K - 1) /\ (k + 1) + 1 \in 1..K /\ k + 1 <= K OBVIOUS
  <2>2. F[k + 1] \in Seq(Byte) /\ E[(k + 1) + 1] \in Seq(Byte) BY <1>0, <1>2, <2>1
  <2>3. F[(k + 1) + 1] = F[k + 1] \o E[(k + 1) + 1] BY <2>1 DEF InRow
  <2> QED BY <2>2, <2>3, Concat
<1>3. \A k \in Nat : k \in S
  <2> HIDE DEF S
  <2> QED BY <1>1, <1>2, SetInduction
<1>4. ASSUME NEW k \in 1..K PROVE F[k] \in Seq(Byte) /\ Len(F[k]) \in Nat
  <2>1. k - 1 \in Nat /\ (k - 1) + 1 = k OBVIOUS
  <2>2. k - 1 \in S BY <1>3, <2>1
  <2>3. (k - 1) + 1 <= K => F[(k - 1) + 1] \in Seq(Byte) BY <2>2
  <2>4. F[k] \in Seq(Byte) BY <2>1, <2>3
  <2> QED BY <2>4
<1>5. ASSUME NEW k \in 1..(K - 1)
      PROVE  /\ k \in 1..K /\ k + 1 \in 1..K /\ F[k + 1] = F[k] \o E[k + 1]
             /\ E[k + 1] \in Seq(Byte) /\ F[k] \in Seq(Byte)
  <2>1. k \in 1..K /\ k + 1 \in 1..K OBVIOUS
  <2>2. F[k] \in Seq(Byte) BY <1>4, <2>1
  <2>3. F[k + 1] = F[k] \o E[k + 1] BY DEF InRow
  <2> QED BY <1>0, <2>1, <2>2, <2>3
<1> DEFINE T == {k \in Nat : k < K => At(d, i, F[K - k])}
<1>6. 0 \in T
  <2>1. K - 0 = K OBVIOUS
  <2> QED BY <2>1
<1>7. ASSUME NEW k \in Nat, k \in T PROVE k + 1 \in T
  <2> SUFFICES ASSUME k + 1 < K PROVE At(d, i, F[K - (k + 1)]) OBVIOUS
  <2> DEFINE j == K - (k + 1)
  <2>1. j \in 1..(K - 1) /\ j + 1 = K - k /\ k < K OBVIOUS
  <2>2. At(d, i, F[j + 1]) BY <1>7, <2>1
  <2> HIDE DEF j
  <2>3. At(d, i, F[j] \o E[j + 1]) BY <1>5, <2>1, <2>2
  <2>4. F[j] \in Seq(Byte) /\ E[j + 1] \in Seq(Byte) BY <1>5, <2>1
  <2>5. At(d, i, F[j]) BY <2>3, <2>4, AtJoin
  <2> QED BY <2>5 DEF j
<1>8. \A k \in Nat : k \in T
  <2> HIDE DEF T
  <2> QED BY <1>6, <1>7, SetInduction
<1>9. ASSUME NEW k \in 1..K PROVE At(d, i, F[k])
  <2>1. K - k \in Nat /\ K - k < K /\ K - (K - k) = k OBVIOUS
  <2> QED BY <1>8, <2>1
<1>10. ASSUME NEW k \in 1..(K - 1)
       PROVE  At(d, i + Len(F[k]), E[k + 1]) /\ Len(F[k + 1]) = Len(F[k]) + Len(E[k + 1])
  <2>1. At(d, i, F[k] \o E[k + 1]) BY <1>5, <1>9
  <2>2. F[k] \in Seq(Byte) /\ E[k + 1] \in Seq(Byte) BY <1>5
  <2>3. At(d, i + Len(F[k]), E[k + 1]) BY <2>1, <2>2, AtJoin
  <2>4. Len(F[k + 1]) = Len(F[k]) + Len(E[k + 1]) BY <1>5, <2>2, Concat
  <2> QED BY <2>3, <2>4
<1>11. 1 \in 1..K OBVIOUS
<1>12. At(d, i, E[1]) /\ Len(F[1]) = Len(E[1]) BY <1>9, <1>11 DEF InRow
<1> QED BY <1>4, <1>10, <1>12, Zenon DEF RowHeld

\* Reading E[k] leads from the message X[k - 1] to the message X[k].
ReadsRow(t, d, Q, E, X, K) ==
  \A k \in 1..K : \A j \in Nat :
    At(d, j, E[k]) => Path(t, d, Q, Dec(j, X[k - 1]), Dec(j + Len(E[k]), X[k]))

\* What is read piece by piece is read.
LEMMA RowPath ==
  ASSUME NEW t, NEW d \in Seq(Byte), NEW Q, NEW i \in Nat, NEW K \in Nat, K > 0, NEW F, NEW E,
         ByteRow(E, K), InRow(F, E, K), At(d, i, F[K]), NEW X,
         ReadsRow(t, d, Q, E, X, K)
  PROVE  Path(t, d, Q, Dec(i, X[0]), Dec(i + Len(F[K]), X[K]))
<1>1. /\ \A k \in 1..K : F[k] \in Seq(Byte) /\ Len(F[k]) \in Nat
      /\ At(d, i, E[1]) /\ Len(F[1]) = Len(E[1])
      /\ \A k \in 1..(K - 1) : /\ At(d, i + Len(F[k]), E[k + 1])
                               /\ Len(F[k + 1]) = Len(F[k]) + Len(E[k + 1])
  <2>1. RowHeld(d, i, F, E, K) BY RowAt
  <2> QED BY <2>1, Zenon DEF RowHeld
<1> DEFINE S == {k \in Nat : k + 1 <= K =>
                   Path(t, d, Q, Dec(i, X[0]), Dec(i + Len(F[k + 1]), X[k + 1]))}
<1>2. 0 \in S
  <2>1. 1 \in 1..K /\ 1 - 1 = 0 /\ 0 + 1 = 1 OBVIOUS
  <2>2. Path(t, d, Q, Dec(i, X[0]), Dec(i + Len(E[1]), X[1])) BY <1>1, <2>1 DEF ReadsRow
  <2> QED BY <1>1, <2>1, <2>2
<1>3. ASSUME NEW k \in Nat, k \in S PROVE k + 1 \in S
  <2> SUFFICES ASSUME (k + 1) + 1 <= K
               PROVE  Path(t, d, Q, Dec(i, X[0]), Dec(i + Len(F[(k + 1) + 1]), X[(k + 1) + 1]))
    OBVIOUS
  <2> DEFINE n == k + 1
             j == i + Len(F[n])
  <2>1. n \in 1..(K - 1) /\ n \in 1..K /\ n + 1 \in 1..K /\ (n + 1) - 1 = n /\ n <= K OBVIOUS
  <2>2. Path(t, d, Q, Dec(i, X[0]), Dec(j, X[n])) BY <1>3, <2>1
  <2> HIDE DEF n
  <2>3. j \in Nat /\ At(d, j, E[n + 1])
    <3>1. Len(F[n]) \in Nat /\ At(d, i + Len(F[n]), E[n + 1]) BY <1>1, <2>1, Zenon
    <3> QED BY <3>1
  <2>4. Path(t, d, Q, Dec(j, X[n]), Dec(j + Len(E[n + 1]), X[n + 1])) BY <2>1, <2>3 DEF ReadsRow
  <2>5. j + Len(E[n + 1]) = i + Len(F[n + 1])
    <3>1. Len(F[n]) \in Nat /\ Len(F[n + 1]) = Len(F[n]) + Len(E[n + 1]) /\ E[n + 1] \in Seq(Byte)
      BY <1>1, <2>1, Zenon DEF ByteRow
    <3> DEFINE x == Len(F[n])
               y == Len(E[n + 1])
               z == Len(F[n + 1])
    <3>2. x \in Nat /\ y \in Nat /\ z = x + y /\ j = i + x BY <3>1
    <3> HIDE DEF x, y, z, j
    <3>3. j + y = i + z BY <3>2
    <3> QED BY <3>3 DEF y, z
  <2> HIDE DEF j
  <2>6. Path(t, d, Q, Dec(i, X[0]), Dec(j + Len(E[n + 1]), X[n + 1])) BY <2>2, <2>4, PathJoin
  <2> QED BY <2>5, <2>6 DEF n
<1>4. \A k \in Nat : k \in S
  <2> HIDE DEF S
  <2> QED BY <1>2, <1>3, SetInduction
<1>5. K - 1 \in Nat /\ (K - 1) + 1 = K OBVIOUS
<1>6. K - 1 \in S BY <1>4, <1>5
<1>7. (K - 1) + 1 <= K => Path(t, d, Q, Dec(i, X[0]), Dec(i + Len(F[(K - 1) + 1]), X[(K - 1) + 1]))
  BY <1>6
<1> QED BY <1>5, <1>7

-----------------------------------------------------------------------------

\* The values that a field may have while the message b is read into a.
FieldStates(type, x, y) ==
  {x, MergeField(type, x, y)} \cup
  (IF type = "repeated" THEN {x \o SubSeq(y, 1, k) : k \in 0..Len(y)} ELSE {})

Between(t, a, b) ==
  LET States(f) == FieldStates(Structs[t][f], a[f], b[f]) IN
  {m \in [DOMAIN Structs[t] -> UNION {States(f) : f \in DOMAIN Structs[t]}] :
      \A f \in DOMAIN Structs[t] : m[f] \in States(f)}

\* The members of Between.
LEMMA BetweenIs ==
  ASSUME NEW t, NEW a, NEW b, NEW m
  PROVE  m \in Between(t, a, b) <=>
           /\ m = [f \in DOMAIN Structs[t] |-> m[f]]
           /\ \A f \in DOMAIN Structs[t] : m[f] \in FieldStates(Structs[t][f], a[f], b[f])
<1> DEFINE D == DOMAIN Structs[t]
           States(f) == FieldStates(Structs[t][f], a[f], b[f])
           U == UNION {States(f) : f \in D}
<1>1. \A f \in D : \A v \in States(f) : v \in U OBVIOUS
<1>2. m \in Between(t, a, b) <=> m \in [D -> U] /\ \A f \in D : m[f] \in States(f)
  BY DEF Between
<1> HIDE DEF U, States
<1>3. m = [f \in D |-> m[f]] /\ (\A f \in D : m[f] \in States(f)) => m \in [D -> U]
  BY <1>1
<1>4. m \in [D -> U] => m = [f \in D |-> m[f]] OBVIOUS
<1> QED BY <1>2, <1>3, <1>4 DEF States

\* Setting a field stays within Between.
LEMMA BetweenSet ==
  ASSUME NEW t, NEW a, NEW b, NEW m \in Between(t, a, b), NEW f \in DOMAIN Structs[t],
         NEW v \in FieldStates(Structs[t][f], a[f], b[f])
  PROVE  [m EXCEPT ![f] = v] \in Between(t, a, b)
<1> DEFINE x == [m EXCEPT ![f] = v]
           D == DOMAIN Structs[t]
<1>1. /\ m = [g \in D |-> m[g]]
      /\ \A g \in D : m[g] \in FieldStates(Structs[t][g], a[g], b[g])
  BY BetweenIs
<1>2. x = [g \in D |-> x[g]] BY <1>1
<1>3. \A g \in D : x[g] = IF g = f THEN v ELSE m[g] BY <1>1
<1> HIDE DEF x
<1>4. \A g \in D : x[g] \in FieldStates(Structs[t][g], a[g], b[g]) BY <1>1, <1>3
<1>5. x \in Between(t, a, b) BY <1>2, <1>4, BetweenIs
<1> QED BY <1>5 DEF x

\* A pointer that is not nil.
LEMMA Single ==
  ASSUME NEW A, NEW a \in Seq(A), Len(a) <= 1, a # <<>>
  PROVE  Len(a) = 1 /\ a[1] \in A /\ a = <<a[1]>>
<1> DEFINE n == Len(a)
<1>1. n # 0 /\ n \in Nat /\ n <= 1 BY EmptySeq
<1> HIDE DEF n
<1>2. n = 1 BY <1>1
<1>3. Len(a) = 1 BY <1>2 DEF n
<1>4. a[1] \in A BY <1>3
<1>5. a = <<a[1]>> BY <1>3
<1> QED BY <1>3, <1>4, <1>5

\* Two sequences of one element.
LEMMA Pair ==
  ASSUME NEW A, NEW x \in A, NEW y \in A
  PROVE  <<x>> \o <<y>> = <<x, y>> /\ <<x, y>> \in [1..2 -> A]
<1> DEFINE p == <<x>>
           q == <<y>>
           r == <<x, y>>
<1>1. p \in Seq(A) /\ Len(p) = 1 /\ p[1] = x /\ q \in Seq(A) /\ Len(q) = 1 /\ q[1] = y OBVIOUS
<1>2. r \in Seq(A) /\ Len(r) = 2 /\ r[1] = x /\ r[2] = y /\ r \in [1..2 -> A] OBVIOUS
<1> HIDE DEF p, q, r
<1>3. /\ p \o q \in Seq(A) /\ Len(p \o q) = Len(p) + Len(q)
      /\ \A i \in 1..(Len(p) + Len(q)) :
            (p \o q)[i] = IF i <= Len(p) THEN p[i] ELSE q[i - Len(p)]
  BY <1>1, ConcatProperties
<1>4. 1 \in 1..(1 + 1) /\ 2 \in 1..(1 + 1) /\ 1 <= 1 /\ ~ (2 <= 1) /\ 2 - 1 = 1 /\ 1 + 1 = 2 OBVIOUS
<1>5. (p \o q)[1] = x /\ (p \o q)[2] = y /\ Len(p \o q) = 2 BY <1>1, <1>3, <1>4
<1>6. \A i \in 1..2 : (p \o q)[i] = r[i]
  <2>1. \A i \in 1..2 : i = 1 \/ i = 2 OBVIOUS
  <2> QED BY <1>2, <1>5, <2>1
<1>7. p \o q = r BY <1>2, <1>3, <1>5, <1>6, SeqEqual
<1> QED BY <1>2, <1>7 DEF p, q, r

\* Merging a pointer appends to what it points to.
LEMMA PointerMerge ==
  ASSUME NEW a \in Seq(Seq(Byte)), Len(a) <= 1, NEW y \in Seq(Byte)
  PROVE  <<FlattenSeq(a \o <<y>>)>> = Store("allocate", a, y)
<1>1. Store("allocate", a, y) = <<IF a = <<>> THEN y ELSE a[1] \o y>> BY DEF Store
<1>2. CASE a = <<>>
  <2> DEFINE s == [k \in 1..1 |-> y]
  <2>1. s \in [1..1 -> Seq(Byte)] /\ s[1] = y /\ a \o <<y>> = s BY <1>2
  <2> HIDE DEF s
  <2>2. PICK F : Concatenates(F, Byte, 1, s) BY <2>1, FlattenPartial
  <2>3. FlattenSeq(s) = y BY <2>1, <2>2 DEF Concatenates
  <2> QED BY <1>1, <1>2, <2>1, <2>3
<1>3. CASE a # <<>>
  <2> DEFINE x == a[1]
             s == <<x, y>>
  <2>1. a = <<x>> /\ x \in Seq(Byte) BY <1>3, Single
  <2> HIDE DEF x
  <2>2. s \in [1..2 -> Seq(Byte)] /\ s[1] = x /\ s[2] = y /\ <<x>> \o <<y>> = s BY <2>1, Pair
  <2>3. a \o <<y>> = s BY <2>1, <2>2
  <2> HIDE DEF s
  <2>4. PICK F : Concatenates(F, Byte, 2, s)
    <3>1. 2 \in Nat /\ 2 > 0 OBVIOUS
    <3> QED BY <2>2, <3>1, FlattenPartial
  <2>5. FlattenSeq(s) = F[2] /\ F[1] = s[1] /\ F[2] = F[1] \o s[2]
    <3>1. 2 \in 2..2 /\ 2 - 1 = 1 OBVIOUS
    <3> QED BY <2>4, <3>1 DEF Concatenates
  <2>6. FlattenSeq(s) = x \o y BY <2>2, <2>5
  <2> QED BY <1>1, <1>3, <2>3, <2>6 DEF x
<1> QED BY <1>2, <1>3

\* Appending the elements one by one.
LEMMA AppendPrefix ==
  ASSUME NEW A, NEW a \in Seq(A), NEW s \in Seq(A), NEW k \in 1..Len(s)
  PROVE  Append(a \o SubSeq(s, 1, k - 1), s[k]) = a \o SubSeq(s, 1, k)
<1>1. Len(s) \in Nat /\ k \in Nat /\ k - 1 \in Nat /\ s[k] \in A OBVIOUS
<1> DEFINE p == SubSeq(s, 1, k - 1)
           q == SubSeq(s, 1, k)
<1>2. p \in Seq(A) /\ Len(p) = k - 1 /\ \A j \in 1..(k - 1) : p[j] = s[j] OBVIOUS
<1>3. q \in Seq(A) /\ Len(q) = k /\ \A j \in 1..k : q[j] = s[j] OBVIOUS
<1> HIDE DEF p, q
<1>4. q = Append(p, s[k]) BY <1>1, <1>2, <1>3
<1>5. a \o Append(p, s[k]) = Append(a \o p, s[k]) BY <1>1, <1>2
<1> QED BY <1>4, <1>5 DEF p, q

-----------------------------------------------------------------------------
(* Each field is read as MergeField says. *)

Typed(t, a) == \E n \in Nat : IsMessage(t, a, n)

\* The buffer d holds, after i, the piece of b's field number n; m is the message as far as
\* it is read, and the field still has the value that it has in a.
FieldHere(t, d, a, b, n, i, m) ==
  /\ t \in DOMAIN Structs /\ n \in DOMAIN Cases[t] /\ d \in Seq(Byte) /\ Len(d) <= MaxInt
  /\ i \in Nat /\ At(d, i, PieceOf(t, n, b)) /\ Typed(t, a)
  /\ IsMessage(t, b, MaxInt) /\ Decodable(t, b)
  /\ m \in Between(t, a, b) /\ m[Cases[t][n][2]] = a[Cases[t][n][2]]

\* Reading the piece merges the field.
FieldReads(t, d, a, b, n, i, m) ==
  LET f == Cases[t][n][2] IN
  Path(t, d, Between(t, a, b), Dec(i, m),
       Dec(i + Len(PieceOf(t, n, b)), [m EXCEPT ![f] = MergeField(Structs[t][f], a[f], b[f])]))

\* What holds of a field about to be read.
LEMMA FieldFacts ==
  ASSUME NEW t, NEW d, NEW a, NEW b, NEW n, NEW i, NEW m, FieldHere(t, d, a, b, n, i, m),
         NEW f, f = Cases[t][n][2]
  PROVE  /\ f \in DOMAIN Structs[t] /\ Suits(Cases[t][n][1], Structs[t][f])
         /\ b[f] \in FieldValues(Structs[t][f], MaxInt)
         /\ \E L \in Nat : a[f] \in FieldValues(Structs[t][f], L)
         /\ m = [g \in DOMAIN Structs[t] |-> m[g]] /\ m[f] = a[f]
<1>1. t \in DOMAIN Structs /\ n \in DOMAIN Cases[t] BY DEF FieldHere
<1>2. f \in DOMAIN Structs[t] /\ Suits(Cases[t][n][1], Structs[t][f]) BY <1>1, CasesSuit
<1>3. b[f] \in FieldValues(Structs[t][f], MaxInt) BY <1>2 DEF FieldHere, IsMessage
<1>4. \E L \in Nat : a[f] \in FieldValues(Structs[t][f], L) BY <1>2 DEF FieldHere, Typed, IsMessage
<1>5. m \in Between(t, a, b) /\ m[f] = a[f] BY DEF FieldHere
<1>6. m = [g \in DOMAIN Structs[t] |-> m[g]] BY <1>5, BetweenIs
<1> QED BY <1>2, <1>3, <1>4, <1>5, <1>6

\* A field that is read in one step.
LEMMA FieldByStep ==
  ASSUME NEW t, NEW d, NEW a, NEW b, NEW n, NEW i, NEW m, FieldHere(t, d, a, b, n, i, m),
         NEW f, f = Cases[t][n][2], NEW v, v = MergeField(Structs[t][f], a[f], b[f]),
         Steps(t, d, Dec(i, m), Dec(i + Len(PieceOf(t, n, b)), [m EXCEPT ![f] = v]))
  PROVE  FieldReads(t, d, a, b, n, i, m)
<1>1. m \in Between(t, a, b) BY DEF FieldHere
<1>2. f \in DOMAIN Structs[t] BY FieldFacts
<1>3. v \in FieldStates(Structs[t][f], a[f], b[f]) BY DEF FieldStates
<1> DEFINE x == [m EXCEPT ![f] = v]
           j == i + Len(PieceOf(t, n, b))
<1>4. x \in Between(t, a, b) BY <1>1, <1>2, <1>3, BetweenSet
<1>0. Steps(t, d, Dec(i, m), Dec(j, x)) OBVIOUS
<1> HIDE DEF x, j
<1>5. Dec(i, m)[3] = m /\ Dec(j, x)[3] = x BY DEF Dec
<1>6. Path(t, d, Between(t, a, b), Dec(i, m), Dec(j, x)) BY <1>0, <1>1, <1>4, <1>5, PathStep
<1> QED BY <1>6 DEF FieldReads, x, j

\* A field that is not written keeps its value.
LEMMA FieldLeftOut ==
  ASSUME NEW t, NEW d, NEW a, NEW b, NEW n, NEW i, NEW m, FieldHere(t, d, a, b, n, i, m),
         NEW f, f = Cases[t][n][2], a[f] = MergeField(Structs[t][f], a[f], b[f]),
         PieceOf(t, n, b) = <<>>
  PROVE  FieldReads(t, d, a, b, n, i, m)
<1>1. m \in Between(t, a, b) /\ i \in Nat BY DEF FieldHere
<1>2. m = [g \in DOMAIN Structs[t] |-> m[g]] /\ m[f] = a[f] BY FieldFacts
<1>3. [m EXCEPT ![f] = a[f]] = m BY <1>2
<1>4. i + Len(PieceOf(t, n, b)) = i BY <1>1
<1>5. Dec(i, m)[3] = m BY DEF Dec
<1>6. Path(t, d, Between(t, a, b), Dec(i, m), Dec(i, m)) BY <1>1, <1>5, PathHere
<1> QED BY <1>3, <1>4, <1>6 DEF FieldReads

\* A string or bytes field.
LEMMA FieldSetRead ==
  ASSUME NEW t, NEW d, NEW a, NEW b, NEW n, NEW i, NEW m, FieldHere(t, d, a, b, n, i, m),
         Cases[t][n][1] = "set"
  PROVE  FieldReads(t, d, a, b, n, i, m)
<1> DEFINE f == Cases[t][n][2]
           v == b[f]
<1>1. /\ Structs[t][f] \in {"string", "bytes"} /\ v \in FieldValues(Structs[t][f], MaxInt) /\ m[f] = a[f]
  BY FieldFacts DEF Suits
<1>2. v \in Slices(MaxInt) BY <1>1 DEF FieldValues
<1>3. PieceOf(t, n, b) = IF v = <<>> THEN <<>> ELSE Embedded(Tag(n, 2), v) BY DEF PieceOf, Bytes
<1>4. MergeField(Structs[t][f], a[f], v) = IF v = <<>> THEN a[f] ELSE v BY <1>1 DEF MergeField
<1> HIDE DEF f
<1>5. CASE v = <<>> BY <1>3, <1>4, <1>5, FieldLeftOut DEF f
<1>6. CASE v # <<>>
  <2>1. PieceOf(t, n, b) = Embedded(Tag(n, 2), v) /\ MergeField(Structs[t][f], a[f], v) = v
    BY <1>3, <1>4, <1>6
  <2>2. /\ t \in DOMAIN Structs /\ n \in DOMAIN Cases[t] /\ d \in Seq(Byte) /\ Len(d) <= MaxInt
        /\ i \in Nat /\ At(d, i, Embedded(Tag(n, 2), v))
    BY <2>1 DEF FieldHere
  <2>3. Cases[t][n][1] # "varint" /\ Cases[t][n][1] \notin {"merge", "allocate", "appendMessage"}
    OBVIOUS
  <2>4. Store("set", m[f], v) = v BY DEF Store
  <2> HIDE DEF v
  <2>5. Steps(t, d, Dec(i, m), Dec(i + Len(Embedded(Tag(n, 2), v)),
                [m EXCEPT ![f] = Store(Cases[t][n][1], m[f], v)]))
    BY <1>2, <2>2, <2>3, EmbeddedSteps DEF f
  <2>6. Steps(t, d, Dec(i, m), Dec(i + Len(PieceOf(t, n, b)), [m EXCEPT ![f] = v]))
    BY <2>1, <2>4, <2>5
  <2> QED BY <2>1, <2>6, FieldByStep DEF f, v
<1> QED BY <1>5, <1>6

\* An embedded message.
LEMMA FieldMergeRead ==
  ASSUME NEW t, NEW d, NEW a, NEW b, NEW n, NEW i, NEW m, FieldHere(t, d, a, b, n, i, m),
         Cases[t][n][1] = "merge"
  PROVE  FieldReads(t, d, a, b, n, i, m)
<1> DEFINE f == Cases[t][n][2]
           v == b[f]
<1>1. /\ Structs[t][f] = "message" /\ v \in FieldValues(Structs[t][f], MaxInt) /\ m[f] = a[f]
  BY FieldFacts DEF Suits
<1>2. v \in Slices(MaxInt) BY <1>1 DEF FieldValues
<1>3. PieceOf(t, n, b) = Embedded(Tag(n, 2), v) BY DEF PieceOf
<1>4. MergeField(Structs[t][f], a[f], v) = a[f] \o v BY <1>1 DEF MergeField
<1>5. Decodes(v) BY DEF FieldHere, Decodable
<1> HIDE DEF f
<1>6. /\ t \in DOMAIN Structs /\ n \in DOMAIN Cases[t] /\ d \in Seq(Byte) /\ Len(d) <= MaxInt
      /\ i \in Nat /\ At(d, i, Embedded(Tag(n, 2), v))
  BY <1>3 DEF FieldHere
<1>7. Cases[t][n][1] # "varint" OBVIOUS
<1>8. Store("merge", m[f], v) = a[f] \o v BY <1>1 DEF Store
<1> HIDE DEF v
<1>9. Steps(t, d, Dec(i, m), Dec(i + Len(Embedded(Tag(n, 2), v)),
              [m EXCEPT ![f] = Store(Cases[t][n][1], m[f], v)]))
  BY <1>2, <1>5, <1>6, <1>7, EmbeddedSteps DEF f
<1>10. Steps(t, d, Dec(i, m), Dec(i + Len(PieceOf(t, n, b)), [m EXCEPT ![f] = a[f] \o v]))
  BY <1>3, <1>8, <1>9
<1> QED BY <1>4, <1>10, FieldByStep DEF f, v

\* A pointer.
LEMMA FieldPointerRead ==
  ASSUME NEW t, NEW d, NEW a, NEW b, NEW n, NEW i, NEW m, FieldHere(t, d, a, b, n, i, m),
         Cases[t][n][1] = "allocate"
  PROVE  FieldReads(t, d, a, b, n, i, m)
<1> DEFINE f == Cases[t][n][2]
           v == b[f]
           y == v[1]
           old == a[f]
<1>1. /\ Structs[t][f] = "pointer" /\ v \in FieldValues(Structs[t][f], MaxInt) /\ m[f] = old
      /\ \E L \in Nat : old \in FieldValues(Structs[t][f], L)
  BY FieldFacts DEF Suits
<1>2. v \in Seq(Slices(MaxInt)) /\ Len(v) <= 1 BY <1>1 DEF FieldValues
<1>3. old \in Seq(Seq(Byte)) /\ Len(old) <= 1
  <2>1. PICK L \in Nat : old \in FieldValues("pointer", L) BY <1>1
  <2>2. old \in Seq(Slices(L)) /\ Len(old) <= 1 BY <2>1 DEF FieldValues
  <2>3. Slices(L) \subseteq Seq(Byte) BY DEF Slices
  <2> HIDE DEF old
  <2>4. old \in Seq(Seq(Byte)) BY <2>2, <2>3
  <2> QED BY <2>2, <2>4
<1>4. PieceOf(t, n, b) = IF v = <<>> THEN <<>> ELSE Embedded(Tag(n, 2), y) BY DEF PieceOf, Pointer
<1>5. MergeField(Structs[t][f], old, v) = IF v = <<>> THEN old ELSE <<FlattenSeq(old \o v)>>
  BY <1>1 DEF MergeField
<1>6. \A k \in DOMAIN v : Decodes(v[k]) BY DEF FieldHere, Decodable
<1> HIDE DEF f
<1>7. CASE v = <<>> BY <1>4, <1>5, <1>7, FieldLeftOut DEF f
<1>8. CASE v # <<>>
  <2>0. v = <<y>> /\ y \in Slices(MaxInt) /\ Len(v) = 1 BY <1>2, <1>8, Single
  <2>00. Decodes(y) BY <1>2, <1>6, <2>0
  <2>1. PieceOf(t, n, b) = Embedded(Tag(n, 2), y) /\ MergeField(Structs[t][f], old, v) = <<FlattenSeq(old \o v)>>
    BY <1>4, <1>5, <1>8
  <2>2. /\ t \in DOMAIN Structs /\ n \in DOMAIN Cases[t] /\ d \in Seq(Byte) /\ Len(d) <= MaxInt
        /\ i \in Nat /\ At(d, i, Embedded(Tag(n, 2), y))
    BY <2>1 DEF FieldHere
  <2>3. Cases[t][n][1] # "varint" OBVIOUS
  <2> HIDE DEF y
  <2>4. Store("allocate", m[f], y) = <<FlattenSeq(old \o v)>>
    <3>1. y \in Seq(Byte) BY <2>0 DEF Slices
    <3> HIDE DEF v, old
    <3>2. <<FlattenSeq(old \o <<y>>)>> = Store("allocate", old, y) BY <1>3, <3>1, PointerMerge
    <3> QED BY <1>1, <2>0, <3>2
  <2> HIDE DEF v
  <2>5. Steps(t, d, Dec(i, m), Dec(i + Len(Embedded(Tag(n, 2), y)),
                [m EXCEPT ![f] = Store(Cases[t][n][1], m[f], y)]))
    BY <2>0, <2>00, <2>2, <2>3, EmbeddedSteps DEF f
  <2> DEFINE w == <<FlattenSeq(old \o v)>>
  <2>6. Steps(t, d, Dec(i, m), Dec(i + Len(PieceOf(t, n, b)), [m EXCEPT ![f] = w]))
    BY <2>1, <2>4, <2>5
  <2>7. w = MergeField(Structs[t][f], a[f], b[f]) BY <2>1 DEF v
  <2> HIDE DEF w
  <2> QED BY <2>6, <2>7, FieldByStep DEF f
<1> QED BY <1>7, <1>8

\* A number.
LEMMA FieldNumberRead ==
  ASSUME NEW t, NEW d, NEW a, NEW b, NEW n, NEW i, NEW m, FieldHere(t, d, a, b, n, i, m),
         Cases[t][n][1] = "varint"
  PROVE  FieldReads(t, d, a, b, n, i, m)
<1> DEFINE f == Cases[t][n][2]
           v == b[f]
<1>1. /\ Structs[t][f] \in {"int32", "uint32"} /\ v \in FieldValues(Structs[t][f], MaxInt)
  BY FieldFacts DEF Suits
<1>3. PieceOf(t, n, b) = Varint(Tag(n, 0), v) BY DEF PieceOf
<1>4. MergeField(Structs[t][f], a[f], v) = IF v = 0 THEN a[f] ELSE v BY <1>1 DEF MergeField
<1>2. v = 0 => Varint(Tag(n, 0), v) = <<>> BY DEF Varint
<1> HIDE DEF f
<1>5. CASE v = 0 BY <1>2, <1>3, <1>4, <1>5, FieldLeftOut DEF f
<1>6. CASE v # 0
  <2>1. MergeField(Structs[t][f], a[f], v) = v BY <1>4, <1>6
  <2>2. /\ t \in DOMAIN Structs /\ n \in DOMAIN Cases[t] /\ d \in Seq(Byte)
        /\ i \in Nat /\ At(d, i, Varint(Tag(n, 0), v))
    BY <1>3 DEF FieldHere
  <2> HIDE DEF v
  <2>5. Steps(t, d, Dec(i, m), Dec(i + Len(Varint(Tag(n, 0), v)), [m EXCEPT ![f] = v]))
    BY <1>1, <1>6, <2>2, VarintSteps DEF f
  <2>6. Steps(t, d, Dec(i, m), Dec(i + Len(PieceOf(t, n, b)), [m EXCEPT ![f] = v]))
    BY <1>3, <2>5
  <2> QED BY <2>1, <2>6, FieldByStep DEF f, v
<1> QED BY <1>5, <1>6

-----------------------------------------------------------------------------
(* Repeated fields. *)

\* None and all of the elements.
LEMMA PrefixEnds ==
  ASSUME NEW A, NEW a \in Seq(A), NEW s \in Seq(A)
  PROVE  a \o SubSeq(s, 1, 0) = a /\ a \o SubSeq(s, 1, Len(s)) = a \o s /\ Len(s) \in Nat
<1>1. SubSeq(s, 1, 0) = <<>> OBVIOUS
<1>2. a \o <<>> = a BY ConcatEmptySeq
<1>3. SubSeq(s, 1, Len(s)) = s
  <2> DEFINE q == SubSeq(s, 1, Len(s))
  <2>1. q \in Seq(A) /\ Len(q) = Len(s) /\ \A i \in 1..Len(s) : q[i] = s[i] OBVIOUS
  <2> HIDE DEF q
  <2>2. q = s BY <2>1, SeqEqual
  <2> QED BY <2>2 DEF q
<1> QED BY <1>1, <1>2, <1>3

\* FlattenSeq is the row of its parts.
LEMMA FlattenRow ==
  ASSUME NEW K \in Nat, K > 0, NEW E \in [1..K -> Seq(Byte)]
  PROVE  \E F : InRow(F, E, K) /\ F[K] = FlattenSeq(E)
<1>1. PICK F : Concatenates(F, Byte, K, E) BY FlattenPartial
<1>2. F[1] = E[1] /\ F[K] = FlattenSeq(E) /\ \A k \in 2..K : F[k] = F[k - 1] \o E[k]
  BY <1>1 DEF Concatenates
<1>3. ASSUME NEW k \in 1..(K - 1) PROVE F[k + 1] = F[k] \o E[k + 1]
  <2>1. k + 1 \in 2..K /\ (k + 1) - 1 = k OBVIOUS
  <2> QED BY <1>2, <2>1
<1>4. InRow(F, E, K) BY <1>2, <1>3 DEF InRow
<1> QED BY <1>2, <1>4

\* A repeated field is read element by element.
LEMMA FieldRepeatedRead ==
  ASSUME NEW t, NEW d, NEW a, NEW b, NEW n, NEW i, NEW m, FieldHere(t, d, a, b, n, i, m),
         Cases[t][n][1] \in {"append", "appendMessage"}
  PROVE  FieldReads(t, d, a, b, n, i, m)
<1> DEFINE f == Cases[t][n][2]
           v == b[f]
           old == a[f]
           K == Len(v)
           g == Tag(n, 2)
<1>1. /\ Structs[t][f] = "repeated" /\ v \in FieldValues(Structs[t][f], MaxInt) /\ m[f] = old
      /\ f \in DOMAIN Structs[t] /\ m = [h \in DOMAIN Structs[t] |-> m[h]]
      /\ \E L \in Nat : old \in FieldValues(Structs[t][f], L)
  BY FieldFacts DEF Suits
<1>2. v \in Seq(Slices(MaxInt)) BY <1>1 DEF FieldValues
<1>20. v \in Seq(Seq(Byte)) /\ K \in Nat /\ DOMAIN v = 1..K
  <2>1. Slices(MaxInt) \subseteq Seq(Byte) BY DEF Slices
  <2> HIDE DEF v
  <2> QED BY <1>2, <2>1
<1>3. old \in Seq(Seq(Byte))
  <2>1. PICK L \in Nat : old \in FieldValues("repeated", L) BY <1>1
  <2>2. old \in Seq(Slices(L)) BY <2>1 DEF FieldValues
  <2>3. Slices(L) \subseteq Seq(Byte) BY DEF Slices
  <2> HIDE DEF old
  <2> QED BY <2>2, <2>3
<1>4. PieceOf(t, n, b) = FlattenSeq([k \in 1..K |-> Embedded(g, v[k])])
  <2>1. PieceOf(t, n, b) = Repeated(g, v) BY DEF PieceOf
  <2> HIDE DEF v
  <2> QED BY <1>20, <2>1 DEF Repeated
<1>5. MergeField(Structs[t][f], old, v) = old \o v BY <1>1 DEF MergeField
<1>6. Cases[t][n][1] = "appendMessage" => \A k \in 1..K : Decodes(v[k])
  BY <1>20 DEF FieldHere, Decodable
<1>7. /\ t \in DOMAIN Structs /\ n \in DOMAIN Cases[t] /\ d \in Seq(Byte) /\ Len(d) <= MaxInt
      /\ i \in Nat /\ At(d, i, PieceOf(t, n, b)) /\ m \in Between(t, a, b)
  BY DEF FieldHere
<1>8. old \o SubSeq(v, 1, 0) = old /\ old \o SubSeq(v, 1, K) = old \o v
  <2> HIDE DEF old, v
  <2> QED BY <1>3, <1>20, PrefixEnds
<1>9. CASE K = 0
  <2>1. v = <<>> BY <1>9, <1>20, EmptySeq
  <2>2. old \o v = old
    <3> HIDE DEF old
    <3> QED BY <1>3, <2>1, ConcatEmptySeq
  <2>3. FlattenSeq([k \in 1..K |-> Embedded(g, v[k])]) = <<>>
    <3> DEFINE s == [k \in 1..K |-> Embedded(g, v[k])]
    <3>1. s = <<>> BY <1>9
    <3> HIDE DEF s
    <3>2. Len(s) = 0 BY <3>1
    <3>3. FlattenSeq(s) = s BY <3>2, Zenon DEF FlattenSeq
    <3> QED BY <3>1, <3>3 DEF s
  <2> HIDE DEF f
  <2> QED BY <1>4, <1>5, <2>2, <2>3, FieldLeftOut DEF f
<1>10. CASE K > 0
  <2> DEFINE E == [k \in 1..K |-> Embedded(g, v[k])]
             X == [k \in 0..K |-> [m EXCEPT ![f] = old \o SubSeq(v, 1, k)]]
             Q == Between(t, a, b)
  <2>1. \A k \in 1..K : v[k] \in Slices(MaxInt)
    <3> HIDE DEF v
    <3> QED BY <1>2
  <2>2. g \in Seq(Byte)
    <3>1. n \in 1..16 BY <1>7, FieldNumbers
    <3> QED BY <3>1, TagEncoded
  <2>3. \A k \in 1..K : E[k] = Embedded(g, v[k]) /\ E[k] \in Seq(Byte)
    <3> SUFFICES ASSUME NEW k \in 1..K PROVE E[k] = Embedded(g, v[k]) /\ E[k] \in Seq(Byte) OBVIOUS
    <3>1. E[k] = Embedded(g, v[k]) OBVIOUS
    <3>2. Embedded(g, v[k]) \in Seq(Byte)
      <4> HIDE DEF g, v
      <4> QED BY <2>1, <2>2, EmbeddedTyped DEF K
    <3> QED BY <3>1, <3>2
  <2>4. E \in [1..K -> Seq(Byte)]
    <3>1. E = [k \in 1..K |-> E[k]] OBVIOUS
    <3> HIDE DEF E
    <3> QED BY <2>3, <3>1
  <2>5. PieceOf(t, n, b) = FlattenSeq(E) BY <1>4
  <2>6. \A k \in 0..K : X[k] = [m EXCEPT ![f] = old \o SubSeq(v, 1, k)] OBVIOUS
  <2> HIDE DEF E, X
  <2>7. PICK F : InRow(F, E, K) /\ F[K] = FlattenSeq(E)
    <3> HIDE DEF K
    <3> QED BY <1>10, <1>20, <2>4, FlattenRow
  <2>8. ByteRow(E, K) BY <2>3 DEF ByteRow
  <2>9. ASSUME NEW k \in 0..K PROVE X[k] \in Q
    <3> DEFINE w == old \o SubSeq(v, 1, k)
    <3>1. w \in FieldStates(Structs[t][f], old, v) BY <1>1 DEF FieldStates
    <3>2. X[k] = [m EXCEPT ![f] = w] BY <2>6
    <3>3. m \in Between(t, a, b) /\ f \in DOMAIN Structs[t] BY <1>1, <1>7
    <3>4. w \in FieldStates(Structs[t][f], a[f], b[f]) BY <3>1
    <3> HIDE DEF w, f, X
    <3>5. [m EXCEPT ![f] = w] \in Between(t, a, b) BY <3>3, <3>4, BetweenSet
    <3> QED BY <3>2, <3>5
  <2>10. ASSUME NEW k \in 1..K, NEW j \in Nat, At(d, j, E[k])
         PROVE  Path(t, d, Q, Dec(j, X[k - 1]), Dec(j + Len(E[k]), X[k]))
    <3> DEFINE p == X[k - 1]
               q == X[k]
               y == v[k]
               how == Cases[t][n][1]
               e == E[k]
    <3>1. k - 1 \in 0..K /\ k \in 0..K BY <1>20
    <3>2. p \in Q /\ q \in Q BY <2>9, <3>1
    <3>3. p = [m EXCEPT ![f] = old \o SubSeq(v, 1, k - 1)] /\ q = [m EXCEPT ![f] = old \o SubSeq(v, 1, k)]
      BY <2>6, <3>1
    <3>4. p[f] = old \o SubSeq(v, 1, k - 1) BY <1>1, <3>3
    <3>5. Append(old \o SubSeq(v, 1, k - 1), y) = old \o SubSeq(v, 1, k)
      <4> HIDE DEF old, v
      <4> QED BY <1>3, <1>20, AppendPrefix DEF K
    <3>6. Store(how, p[f], y) = old \o SubSeq(v, 1, k)
      <4>1. Store(how, p[f], y) = Append(p[f], y) BY DEF Store
      <4> HIDE DEF p, y, how, old, v, f
      <4> QED BY <3>4, <3>5, <4>1
    <3>7. [p EXCEPT ![f] = Store(how, p[f], y)] = q
      <4>1. [p EXCEPT ![f] = old \o SubSeq(v, 1, k)] = q BY <1>1, <3>3
      <4> HIDE DEF p, q, how, y, old, v, f
      <4> QED BY <3>6, <4>1
    <3>8. At(d, j, Embedded(Tag(n, 2), y)) /\ e = Embedded(Tag(n, 2), y) /\ y \in Slices(MaxInt)
      BY <2>1, <2>3, <2>10
    <3>9. how # "varint" /\ (how \in {"merge", "allocate", "appendMessage"} => Decodes(y)) BY <1>6
    <3> HIDE DEF y, p, q
    <3>10. Steps(t, d, Dec(j, p), Dec(j + Len(Embedded(Tag(n, 2), y)),
                  [p EXCEPT ![Cases[t][n][2]] = Store(Cases[t][n][1], p[Cases[t][n][2]], y)]))
      BY <1>7, <3>8, <3>9, EmbeddedSteps
    <3>11. Steps(t, d, Dec(j, p), Dec(j + Len(e), q)) BY <3>7, <3>8, <3>10
    <3> HIDE DEF e, Q
    <3>12. Dec(j, p)[3] = p /\ Dec(j + Len(e), q)[3] = q BY DEF Dec
    <3>13. Path(t, d, Q, Dec(j, p), Dec(j + Len(e), q)) BY <3>2, <3>11, <3>12, PathStep
    <3> QED BY <3>13 DEF e, p, q
  <2>11. ReadsRow(t, d, Q, E, X, K)
    <3> HIDE DEF Q, K
    <3> QED BY <2>10, Zenon DEF ReadsRow
  <2>12. At(d, i, F[K]) BY <1>7, <2>5, <2>7
  <2>13. Path(t, d, Q, Dec(i, X[0]), Dec(i + Len(F[K]), X[K]))
    <3> HIDE DEF Q, K
    <3> QED BY <1>7, <1>10, <1>20, <2>7, <2>8, <2>11, <2>12, RowPath
  <2>14. X[0] = m
    <3>0. 0 \in 0..K
      <4> HIDE DEF K
      <4> QED BY <1>20
    <3>1. X[0] = [m EXCEPT ![f] = old \o SubSeq(v, 1, 0)] BY <2>6, <3>0
    <3>2. [m EXCEPT ![f] = old] = m BY <1>1
    <3> HIDE DEF old, v, f
    <3> QED BY <1>8, <3>1, <3>2
  <2>15. X[K] = [m EXCEPT ![f] = old \o v]
    <3>0. K \in 0..K
      <4> HIDE DEF K
      <4> QED BY <1>20
    <3>1. X[K] = [m EXCEPT ![f] = old \o SubSeq(v, 1, K)] BY <2>6, <3>0
    <3> HIDE DEF old, v, f
    <3> QED BY <1>8, <3>1
  <2> QED BY <1>5, <2>5, <2>7, <2>13, <2>14, <2>15 DEF FieldReads
<1> QED BY <1>9, <1>10, <1>20

\* Every field is read as MergeField says.
LEMMA FieldRead ==
  ASSUME NEW t, NEW d, NEW a, NEW b, NEW n, NEW i, NEW m, FieldHere(t, d, a, b, n, i, m)
  PROVE  FieldReads(t, d, a, b, n, i, m)
<1>1. Suits(Cases[t][n][1], Structs[t][Cases[t][n][2]]) BY FieldFacts
<1> QED BY <1>1, FieldSetRead, FieldMergeRead, FieldPointerRead, FieldNumberRead, FieldRepeatedRead DEF Suits

-----------------------------------------------------------------------------
(* A whole message. *)

\* A piece is bytes.
LEMMA PieceTyped ==
  ASSUME NEW t \in DOMAIN Structs, NEW n \in DOMAIN Cases[t], NEW b, IsMessage(t, b, MaxInt)
  PROVE  PieceOf(t, n, b) \in Seq(Byte)
<1> DEFINE f == Cases[t][n][2]
           v == b[f]
           how == Cases[t][n][1]
           type == Structs[t][f]
<1>1. f \in DOMAIN Structs[t] /\ Suits(how, type) BY CasesSuit
<1>2. v \in FieldValues(type, MaxInt) BY <1>1 DEF IsMessage
<1>3. n \in 1..16 BY FieldNumbers
<1>4. Tag(n, 0) \in Seq(Byte) /\ Tag(n, 2) \in Seq(Byte) BY <1>3, TagEncoded
<1> HIDE DEF v
<1>5. CASE how = "set" /\ type \in {"string", "bytes"}
  <2>1. v \in Slices(MaxInt) BY <1>2, <1>5 DEF FieldValues
  <2>2. PieceOf(t, n, b) = Bytes(Tag(n, 2), v) BY <1>5 DEF PieceOf, v
  <2> QED BY <1>4, <2>1, <2>2, BytesTyped
<1>6. CASE how = "merge" /\ type = "message"
  <2>1. v \in Slices(MaxInt) BY <1>2, <1>6 DEF FieldValues
  <2>2. PieceOf(t, n, b) = Embedded(Tag(n, 2), v) BY <1>6 DEF PieceOf, v
  <2> QED BY <1>4, <2>1, <2>2, EmbeddedTyped
<1>7. CASE how = "allocate" /\ type = "pointer"
  <2>1. v \in Seq(Slices(MaxInt)) /\ Len(v) <= 1 BY <1>2, <1>7 DEF FieldValues
  <2>2. PieceOf(t, n, b) = Pointer(Tag(n, 2), v) BY <1>7 DEF PieceOf, v
  <2> QED BY <1>4, <2>1, <2>2, PointerTyped
<1>8. CASE how \in {"append", "appendMessage"} /\ type = "repeated"
  <2>1. v \in Seq(Slices(MaxInt)) BY <1>2, <1>8 DEF FieldValues
  <2>2. PieceOf(t, n, b) = Repeated(Tag(n, 2), v) BY <1>8 DEF PieceOf, v
  <2> QED BY <1>4, <2>1, <2>2, RepeatedTyped
<1>9. CASE how = "varint" /\ type \in {"int32", "uint32"}
  <2>1. v \in Int BY <1>2, <1>9, NumberKept
  <2>2. PieceOf(t, n, b) = Varint(Tag(n, 0), v) BY <1>9 DEF PieceOf, v
  <2> QED BY <1>4, <2>1, <2>2, VarintTyped
<1> QED BY <1>1, <1>5, <1>6, <1>7, <1>8, <1>9 DEF Suits

\* The message after the first k fields of b are read into a.
After(t, a, b, k) ==
  [f \in DOMAIN Structs[t] |->
     IF \E n \in 1..k : Cases[t][n][2] = f THEN MergeField(Structs[t][f], a[f], b[f]) ELSE a[f]]

\* The message after k fields arises on the way.
LEMMA AfterBetween ==
  ASSUME NEW t, NEW a, NEW b, NEW k
  PROVE  After(t, a, b, k) \in Between(t, a, b)
<1> DEFINE m == After(t, a, b, k)
           D == DOMAIN Structs[t]
<1>1. m = [f \in D |-> m[f]] BY DEF After
<1>2. \A f \in D : m[f] \in {a[f], MergeField(Structs[t][f], a[f], b[f])} BY DEF After
<1> HIDE DEF m
<1>3. \A f \in D : m[f] \in FieldStates(Structs[t][f], a[f], b[f]) BY <1>2 DEF FieldStates
<1>4. m \in Between(t, a, b) BY <1>1, <1>3, BetweenIs
<1> QED BY <1>4 DEF m

\* Field number k is still what it was before it is read.
LEMMA AfterStep ==
  ASSUME NEW t \in DOMAIN Structs, NEW a, NEW b, NEW k \in DOMAIN Cases[t], NEW f, f = Cases[t][k][2]
  PROVE  /\ After(t, a, b, k - 1)[f] = a[f] /\ f \in DOMAIN Structs[t] /\ k \in 1..16
         /\ After(t, a, b, k) = [After(t, a, b, k - 1) EXCEPT ![f] = MergeField(Structs[t][f], a[f], b[f])]
<1> DEFINE D == DOMAIN Structs[t]
           K == Len(Cases[t])
<1>1. K \in 1..16 /\ Numbering(t, K) BY Numbered
<1> HIDE DEF K
<1>2. k \in 1..K BY <1>1 DEF Numbering
<1>3. \A n \in 1..K : Cases[t][n][2] = f => n = k BY <1>1, <1>2 DEF Numbering
<1>4. \A n \in 1..(k - 1) : n \in 1..K /\ n # k BY <1>1, <1>2
<1>5. ~ \E n \in 1..(k - 1) : Cases[t][n][2] = f BY <1>3, <1>4
<1>6. f \in D BY CasesSuit
<1>7. After(t, a, b, k - 1)[f] = a[f] BY <1>5, <1>6 DEF After
<1>8. \A n \in 1..k : n \in 1..(k - 1) \/ n = k BY <1>1, <1>2
<1>9. \A n \in 1..(k - 1) : n \in 1..k BY <1>1, <1>2
<1>10. k \in 1..k /\ k \in 1..16 BY <1>1, <1>2
<1>11. ASSUME NEW g \in D
       PROVE  (\E n \in 1..k : Cases[t][n][2] = g) <=> (g = f \/ \E n \in 1..(k - 1) : Cases[t][n][2] = g)
  BY <1>8, <1>9, <1>10
<1> DEFINE p == After(t, a, b, k - 1)
           q == After(t, a, b, k)
           v == MergeField(Structs[t][f], a[f], b[f])
<1>12. p = [g \in D |-> p[g]] /\ q = [g \in D |-> q[g]] BY DEF After
<1>13. \A g \in D : q[g] = IF g = f THEN v ELSE p[g]
  <2> SUFFICES ASSUME NEW g \in D PROVE q[g] = IF g = f THEN v ELSE p[g] OBVIOUS
  <2>1. /\ q[g] = IF \E n \in 1..k : Cases[t][n][2] = g THEN MergeField(Structs[t][g], a[g], b[g]) ELSE a[g]
        /\ p[g] = IF \E n \in 1..(k - 1) : Cases[t][n][2] = g THEN MergeField(Structs[t][g], a[g], b[g]) ELSE a[g]
    BY DEF After
  <2> HIDE DEF p, q
  <2> QED BY <1>11, <2>1
<1> HIDE DEF p, q, v
<1>14. q = [p EXCEPT ![f] = v] BY <1>6, <1>12, <1>13
<1> QED BY <1>6, <1>7, <1>10, <1>14 DEF p, q, v

\* Before the first field, and after the last.
LEMMA AfterEnds ==
  ASSUME NEW t \in DOMAIN Structs, NEW a, Typed(t, a), NEW b
  PROVE  After(t, a, b, 0) = a /\ After(t, a, b, Len(Cases[t])) = Merge(t, a, b)
<1> DEFINE D == DOMAIN Structs[t]
           K == Len(Cases[t])
<1>1. Numbering(t, K) BY Numbered
<1>2. \A f \in D : \E n \in 1..K : Cases[t][n][2] = f BY <1>1 DEF Numbering
<1>3. a = [f \in D |-> a[f]] BY DEF Typed, IsMessage
<1>4. After(t, a, b, 0) = [f \in D |-> a[f]]
  <2>1. \A f : ~ \E n \in 1..0 : Cases[t][n][2] = f OBVIOUS
  <2> QED BY <2>1 DEF After
<1>5. After(t, a, b, K) = Merge(t, a, b) BY <1>2 DEF After, Merge
<1> QED BY <1>3, <1>4, <1>5

\* A buffer holds, after i, the encoding of the message b, and a is what was read before.
MessageHere(t, d, a, b, i) ==
  /\ t \in DOMAIN Structs /\ d \in Seq(Byte) /\ Len(d) <= MaxInt /\ i \in Nat
  /\ Typed(t, a) /\ IsMessage(t, b, MaxInt) /\ Decodable(t, b) /\ At(d, i, Written(t, b))

\* Unmarshal reads a marshalled message to its end, and merges it into what it has.
LEMMA MessageRead ==
  ASSUME NEW t, NEW d, NEW a, NEW b, NEW i, MessageHere(t, d, a, b, i)
  PROVE  Path(t, d, Between(t, a, b), Dec(i, a), Dec(i + Len(Written(t, b)), Merge(t, a, b)))
<1>1. /\ t \in DOMAIN Structs /\ d \in Seq(Byte) /\ Len(d) <= MaxInt /\ i \in Nat
      /\ Typed(t, a) /\ IsMessage(t, b, MaxInt) /\ Decodable(t, b) /\ At(d, i, Written(t, b))
  BY DEF MessageHere
<1> DEFINE K == Len(Cases[t])
           E == [n \in 1..K |-> PieceOf(t, n, b)]
           X == [k \in 0..K |-> After(t, a, b, k)]
           Q == Between(t, a, b)
<1>2. K \in 1..16 /\ DOMAIN Cases[t] = 1..K BY <1>1, Numbered DEF Numbering
<1>3. Joined(t, b, Written(t, b), K) BY <1>1, MarshalJoined
<1>4. /\ \A n \in 1..K : E[n] = PieceOf(t, n, b)
      /\ \A k \in 0..K : X[k] = After(t, a, b, k)
  OBVIOUS
<1>5. After(t, a, b, 0) = a /\ After(t, a, b, K) = Merge(t, a, b) BY <1>1, AfterEnds
<1> HIDE DEF K, E, X
<1>6. PICK F : Joins(F, t, b, K) /\ F[K] = Written(t, b) BY <1>3 DEF Joined
<1>7. InRow(F, E, K)
  <2>1. 1 \in 1..K BY <1>2
  <2>2. F[1] = E[1] BY <1>4, <1>6, <2>1 DEF Joins
  <2>3. ASSUME NEW k \in 1..(K - 1) PROVE F[k + 1] = F[k] \o E[k + 1]
    <3>1. k + 1 \in 1..K BY <1>2
    <3> QED BY <1>4, <1>6, <3>1 DEF Joins
  <2> QED BY <2>2, <2>3 DEF InRow
<1>8. ByteRow(E, K)
  <2>1. \A k \in 1..K : PieceOf(t, k, b) \in Seq(Byte) BY <1>1, <1>2, PieceTyped
  <2> QED BY <1>4, <2>1 DEF ByteRow
<1>9. ASSUME NEW k \in 1..K, NEW j \in Nat, At(d, j, E[k])
      PROVE  Path(t, d, Q, Dec(j, X[k - 1]), Dec(j + Len(E[k]), X[k]))
  <2> DEFINE f == Cases[t][k][2]
             m == After(t, a, b, k - 1)
  <2>0. k \in DOMAIN Cases[t] BY <1>2
  <2>1. /\ m[f] = a[f]
        /\ After(t, a, b, k) = [m EXCEPT ![f] = MergeField(Structs[t][f], a[f], b[f])]
    BY <1>1, <2>0, AfterStep
  <2>2. m \in Between(t, a, b) BY AfterBetween
  <2>3. E[k] = PieceOf(t, k, b) BY <1>4
  <2>4. At(d, j, PieceOf(t, k, b)) BY <1>9, <2>3
  <2> HIDE DEF m
  <2>5. FieldHere(t, d, a, b, k, j, m) BY <1>1, <2>0, <2>1, <2>2, <2>4 DEF FieldHere
  <2>6. FieldReads(t, d, a, b, k, j, m) BY <2>5, FieldRead
  <2>7. Path(t, d, Q, Dec(j, m), Dec(j + Len(PieceOf(t, k, b)), After(t, a, b, k)))
    BY <2>1, <2>6 DEF FieldReads
  <2>8. X[k - 1] = m /\ X[k] = After(t, a, b, k)
    <3>1. k - 1 \in 0..K /\ k \in 0..K BY <1>2
    <3> QED BY <1>4, <3>1 DEF m
  <2> QED BY <2>3, <2>7, <2>8
<1> HIDE DEF Q
<1>10. ReadsRow(t, d, Q, E, X, K) BY <1>9, Zenon DEF ReadsRow
<1>11. At(d, i, F[K]) BY <1>1, <1>6
<1>12. K \in Nat /\ K > 0 /\ 0 \in 0..K /\ K \in 0..K BY <1>2
<1>13. Path(t, d, Q, Dec(i, X[0]), Dec(i + Len(F[K]), X[K]))
  BY <1>1, <1>7, <1>8, <1>10, <1>11, <1>12, RowPath
<1>14. X[0] = a /\ X[K] = Merge(t, a, b) BY <1>4, <1>5, <1>12
<1> QED BY <1>6, <1>13, <1>14 DEF Q

-----------------------------------------------------------------------------
(* A batch of messages. *)

\* A way within Q is one within a larger set.
LEMMA PathWider ==
  ASSUME NEW t, NEW d, NEW Q, NEW R, Q \subseteq R, NEW a, NEW b, Path(t, d, Q, a, b)
  PROVE  Path(t, d, R, a, b)
<1>1. PICK n \in Nat : \E p : Run(p, n, t, d, Q, a, b) BY DEF Path
<1>2. PICK p : Run(p, n, t, d, Q, a, b) BY <1>1
<1>3. Run(p, n, t, d, R, a, b) BY <1>2 DEF Run
<1>4. \E q : Run(q, n, t, d, R, a, b) BY <1>3
<1> QED BY <1>4 DEF Path

\* What two messages mean together is a message.
LEMMA MergeTyped ==
  ASSUME NEW t \in DOMAIN Structs, NEW a, Typed(t, a), NEW b, IsMessage(t, b, MaxInt)
  PROVE  Typed(t, Merge(t, a, b))
<1>1. PICK L \in Nat : IsMessage(t, a, L) BY DEF Typed
<1> DEFINE N == L + MaxInt
           m == Merge(t, a, b)
           D == DOMAIN Structs[t]
<1>2. N \in Nat /\ L \in Int /\ N \in Int /\ MaxInt \in Int /\ MaxInt \in Nat /\ L <= N /\ MaxInt <= N BY WordTyped
<1>20. \A k \in Nat : k <= MaxInt => L + k <= N BY WordTyped
<1>3. m = [f \in D |-> m[f]] /\ \A f \in D : m[f] = MergeField(Structs[t][f], a[f], b[f])
  BY DEF Merge
<1> HIDE DEF m, N
<1>4. ASSUME NEW f \in D PROVE m[f] \in FieldValues(Structs[t][f], N)
  <2> DEFINE x == a[f]
             y == b[f]
             type == Structs[t][f]
  <2>1. x \in FieldValues(type, L) /\ y \in FieldValues(type, MaxInt) BY <1>1 DEF IsMessage
  <2>2. type \in {"string", "bytes", "message", "pointer", "repeated", "int32", "uint32"} BY FieldTypes
  <2>3. m[f] = MergeField(type, x, y) BY <1>3
  <2> HIDE DEF x, y, type
  <2>4. x \in FieldValues(type, N) /\ y \in FieldValues(type, N) BY <1>2, <2>1, <2>2, LongerValues
  <2>5. CASE type \in {"string", "bytes", "int32", "uint32"}
    <3>1. m[f] \in {x, y} BY <2>3, <2>5 DEF MergeField
    <3> QED BY <2>4, <3>1 DEF type
  <2>6. CASE type = "message"
    <3>1. y \in Seq(Byte) /\ Len(y) \in Nat /\ Len(y) <= MaxInt BY <2>1, <2>6 DEF FieldValues, Slices
    <3>2. L + Len(y) <= N BY <1>20, <3>1
    <3>3. Suits("merge", type) BY <2>6 DEF Suits
    <3>4. Store("merge", x, y) \in FieldValues(type, N) BY <1>1, <1>2, <2>1, <3>1, <3>2, <3>3, StoreTyped
    <3>5. Store("merge", x, y) = x \o y BY DEF Store
    <3>6. m[f] = x \o y BY <2>3, <2>6 DEF MergeField
    <3> QED BY <3>4, <3>5, <3>6 DEF type
  <2>7. CASE type = "pointer"
    <3>1. m[f] = IF y = <<>> THEN x ELSE <<FlattenSeq(x \o y)>> BY <2>3, <2>7 DEF MergeField
    <3>2. CASE y = <<>> BY <2>4, <3>1, <3>2 DEF type
    <3>3. CASE y # <<>>
      <4> DEFINE z == y[1]
      <4>1. y \in Seq(Slices(MaxInt)) /\ Len(y) <= 1 BY <2>1, <2>7 DEF FieldValues
      <4>2. y = <<z>> /\ z \in Slices(MaxInt) BY <3>3, <4>1, Single
      <4>3. z \in Seq(Byte) /\ Len(z) \in Nat /\ Len(z) <= MaxInt BY <4>2 DEF Slices
      <4>4. x \in Seq(Slices(L)) /\ Len(x) <= 1 BY <2>1, <2>7 DEF FieldValues
      <4>5. Slices(L) \subseteq Seq(Byte) BY DEF Slices
      <4>6. x \in Seq(Seq(Byte)) BY <4>4, <4>5
      <4> HIDE DEF z
      <4>7. <<FlattenSeq(x \o <<z>>)>> = Store("allocate", x, z) BY <4>3, <4>4, <4>6, PointerMerge
      <4>8. L + Len(z) <= N BY <1>20, <4>3
      <4>9. Suits("allocate", type) BY <2>7 DEF Suits
      <4>10. Store("allocate", x, z) \in FieldValues(type, N)
        BY <1>1, <1>2, <2>1, <4>3, <4>8, <4>9, StoreTyped
      <4> QED BY <3>1, <3>3, <4>2, <4>7, <4>10 DEF type
    <3> QED BY <3>2, <3>3
  <2>8. CASE type = "repeated"
    <3>1. x \in Seq(Slices(N)) /\ y \in Seq(Slices(N)) BY <2>4, <2>8 DEF FieldValues
    <3>2. x \o y \in Seq(Slices(N)) BY <3>1, ConcatProperties
    <3>3. m[f] = x \o y BY <2>3, <2>8 DEF MergeField
    <3> QED BY <2>8, <3>2, <3>3 DEF FieldValues, type
  <2> QED BY <2>2, <2>5, <2>6, <2>7, <2>8
<1>5. IsMessage(t, m, N) BY <1>3, <1>4 DEF IsMessage
<1> QED BY <1>2, <1>5 DEF Typed, m

\* The meaning of a batch follows from the meaning of its beginnings.
LEMMA MergedEquation ==
  ASSUME NEW t, NEW batch, Len(batch) \in Nat
  PROVE  /\ Merged(t, batch)[0] = Zero(t)
         /\ \A n \in 1..Len(batch) :
              Merged(t, batch)[n] = Merge(t, Merged(t, batch)[n - 1], batch[n])
<1> DEFINE K == Len(batch)
           Eq(g, k) == g = [n \in 0..k |-> IF n = 0 THEN Zero(t) ELSE Merge(t, g[n - 1], batch[n])]
           S == {k \in Nat : \E g : Eq(g, k)}
<1>0. K \in Nat OBVIOUS
<1>00. Merged(t, batch) = CHOOSE g : Eq(g, K) BY Zenon DEF Merged
<1> HIDE DEF K
<1>1. 0 \in S
  <2> DEFINE g == [n \in 0..0 |-> Zero(t)]
  <2>1. Eq(g, 0)
    <3>1. \A n \in 0..0 : n = 0 OBVIOUS
    <3> QED BY <3>1
  <2> HIDE DEF Eq
  <2>2. \E h : Eq(h, 0) BY <2>1
  <2> QED BY <2>2
<1>2. ASSUME NEW k \in Nat, k \in S PROVE k + 1 \in S
  <2>1. PICK g : Eq(g, k) BY <1>2
  <2> DEFINE h == [n \in 0..(k + 1) |-> IF n = k + 1 THEN Merge(t, g[k], batch[k + 1]) ELSE g[n]]
  <2>2. h[k + 1] = Merge(t, g[k], batch[k + 1]) /\ \A n \in 0..k : h[n] = g[n]
    <3>1. \A n \in 0..k : n \in 0..(k + 1) /\ n # k + 1 OBVIOUS
    <3>2. k + 1 \in 0..(k + 1) OBVIOUS
    <3> QED BY <3>1, <3>2
  <2>3. \A n \in 0..k : g[n] = IF n = 0 THEN Zero(t) ELSE Merge(t, g[n - 1], batch[n]) BY <2>1
  <2>4. h = [n \in 0..(k + 1) |-> h[n]] OBVIOUS
  <2> HIDE DEF h
  <2>5. ASSUME NEW n \in 0..(k + 1)
        PROVE  h[n] = IF n = 0 THEN Zero(t) ELSE Merge(t, h[n - 1], batch[n])
    <3>1. CASE n = k + 1
      <4>1. n - 1 = k /\ k \in 0..k /\ n # 0 BY <3>1
      <4>2. h[n] = Merge(t, g[k], batch[n]) /\ h[n - 1] = g[k] BY <2>2, <3>1, <4>1
      <4> QED BY <4>1, <4>2
    <3>2. CASE n = 0
      <4>1. 0 \in 0..k OBVIOUS
      <4> QED BY <2>2, <2>3, <3>2, <4>1
    <3>3. CASE n # k + 1 /\ n # 0
      <4>1. n \in 0..k /\ n - 1 \in 0..k BY <3>3
      <4>2. h[n] = g[n] /\ h[n - 1] = g[n - 1] BY <2>2, <4>1
      <4>3. g[n] = Merge(t, g[n - 1], batch[n]) BY <2>3, <3>3, <4>1
      <4> QED BY <3>3, <4>2, <4>3
    <3> QED BY <3>1, <3>2, <3>3
  <2>6. Eq(h, k + 1) BY <2>4, <2>5
  <2> HIDE DEF Eq
  <2>7. \E e : Eq(e, k + 1) BY <2>6
  <2> QED BY <2>7
<1>3. K \in S
  <2>1. \A k \in Nat : k \in S
    <3> HIDE DEF S
    <3> QED BY <1>1, <1>2, SetInduction
  <2> QED BY <1>0, <2>1
<1>4. Eq(Merged(t, batch), K)
  <2>1. \E g : Eq(g, K) BY <1>3
  <2> HIDE DEF Eq
  <2> QED BY <1>00, <2>1
<1> DEFINE M == Merged(t, batch)
<1>5. Eq(M, K) BY <1>4
<1> HIDE DEF M
<1>6. \A n \in 0..K : M[n] = IF n = 0 THEN Zero(t) ELSE Merge(t, M[n - 1], batch[n]) BY <1>5
<1>7. 0 \in 0..K /\ \A n \in 1..K : n \in 0..K /\ n # 0 BY <1>0
<1> QED BY <1>6, <1>7 DEF M, K

GoodBatch(t, batch) ==
  /\ t \in DOMAIN Structs /\ Len(batch) \in Nat /\ DOMAIN batch = 1..Len(batch)
  /\ \A i \in 1..Len(batch) : IsMessage(t, batch[i], MaxInt) /\ Decodable(t, batch[i])

\* What a batch means is a message.
LEMMA MergedTyped ==
  ASSUME NEW t, NEW batch, GoodBatch(t, batch), NEW k \in 0..Len(batch)
  PROVE  Typed(t, Merged(t, batch)[k])
<1> DEFINE K == Len(batch)
           M == Merged(t, batch)
           S == {n \in Nat : n <= K => Typed(t, M[n])}
<1>1. t \in DOMAIN Structs /\ K \in Nat /\ \A i \in 1..K : IsMessage(t, batch[i], MaxInt)
  BY DEF GoodBatch
<1>2. M[0] = Zero(t) /\ \A n \in 1..K : M[n] = Merge(t, M[n - 1], batch[n]) BY <1>1, MergedEquation
<1> HIDE DEF M
<1>3. 0 \in S
  <2>1. IsMessage(t, Zero(t), 0) BY <1>1, ZeroTyped
  <2>2. Typed(t, Zero(t)) BY <2>1 DEF Typed
  <2> QED BY <1>2, <2>2
<1>4. ASSUME NEW n \in Nat, n \in S PROVE n + 1 \in S
  <2> SUFFICES ASSUME n + 1 <= K PROVE Typed(t, M[n + 1]) OBVIOUS
  <2>1. n + 1 \in 1..K /\ (n + 1) - 1 = n /\ n <= K BY <1>1
  <2>2. Typed(t, M[n]) BY <1>4, <2>1
  <2>3. M[n + 1] = Merge(t, M[n], batch[n + 1]) /\ IsMessage(t, batch[n + 1], MaxInt) BY <1>1, <1>2, <2>1
  <2> QED BY <1>1, <2>2, <2>3, MergeTyped
<1>5. \A n \in Nat : n \in S
  <2> HIDE DEF S
  <2> QED BY <1>3, <1>4, SetInduction
<1>6. k \in Nat /\ k <= K BY <1>1
<1>7. k \in S BY <1>5, <1>6
<1> QED BY <1>6, <1>7 DEF M

\* The messages that may arise while a batch is read.
Arising(t, batch) ==
  UNION {Between(t, Merged(t, batch)[k - 1], batch[k]) : k \in 1..Len(batch)}

Encoding(t, batch) == FlattenSeq([i \in DOMAIN batch |-> Marshal(t, batch[i])])

\* The encodings of a batch, one after the other, are read as what the batch means.
LEMMA BatchRead ==
  ASSUME NEW t, NEW batch, GoodBatch(t, batch), Len(batch) > 0,
         NEW d \in Seq(Byte), Len(d) <= MaxInt, NEW i \in Nat, At(d, i, Encoding(t, batch))
  PROVE  Path(t, d, Arising(t, batch), Dec(i, Zero(t)),
              Dec(i + Len(Encoding(t, batch)), Merged(t, batch)[Len(batch)]))
<1> DEFINE K == Len(batch)
           M == Merged(t, batch)
           Q == Arising(t, batch)
           E == [k \in 1..K |-> Marshal(t, batch[k])]
<1>1. /\ t \in DOMAIN Structs /\ K \in Nat /\ K > 0 /\ DOMAIN batch = 1..K
      /\ \A k \in 1..K : IsMessage(t, batch[k], MaxInt) /\ Decodable(t, batch[k])
  BY DEF GoodBatch
<1>2. M[0] = Zero(t) /\ \A n \in 1..K : M[n] = Merge(t, M[n - 1], batch[n]) BY <1>1, MergedEquation
<1>3. \A k \in 0..K : Typed(t, M[k]) BY MergedTyped
<1>4. \A k \in 1..K : E[k] = Written(t, batch[k]) /\ E[k] \in Seq(Byte) BY <1>1, MarshalTyped
<1>5. E \in [1..K -> Seq(Byte)]
  <2>1. E = [k \in 1..K |-> E[k]] OBVIOUS
  <2> HIDE DEF E
  <2> QED BY <1>4, <2>1
<1>6. Encoding(t, batch) = FlattenSeq(E) BY <1>1 DEF Encoding
<1>7. \A k \in 1..K : Between(t, M[k - 1], batch[k]) \subseteq Q BY DEF Arising
<1> HIDE DEF E, M, Q, K
<1>8. PICK F : InRow(F, E, K) /\ F[K] = FlattenSeq(E) BY <1>1, <1>5, FlattenRow
<1>9. ByteRow(E, K) BY <1>4 DEF ByteRow
<1>10. ASSUME NEW k \in 1..K, NEW j \in Nat, At(d, j, E[k])
       PROVE  Path(t, d, Q, Dec(j, M[k - 1]), Dec(j + Len(E[k]), M[k]))
  <2> DEFINE a == M[k - 1]
             b == batch[k]
  <2>1. k - 1 \in 0..K BY <1>1
  <2>2. Typed(t, a) BY <1>3, <2>1
  <2>3. IsMessage(t, b, MaxInt) /\ Decodable(t, b) /\ E[k] = Written(t, b) BY <1>1, <1>4
  <2>4. At(d, j, Written(t, b)) BY <1>10, <2>3
  <2>5. M[k] = Merge(t, a, b) BY <1>2
  <2>6. Between(t, a, b) \subseteq Q BY <1>7
  <2> HIDE DEF a, b
  <2>7. MessageHere(t, d, a, b, j) BY <1>1, <2>2, <2>3, <2>4 DEF MessageHere
  <2>8. Path(t, d, Between(t, a, b), Dec(j, a), Dec(j + Len(Written(t, b)), Merge(t, a, b)))
    BY <2>7, MessageRead
  <2>9. Path(t, d, Q, Dec(j, a), Dec(j + Len(Written(t, b)), Merge(t, a, b)))
    BY <2>6, <2>8, PathWider
  <2> QED BY <2>3, <2>5, <2>9 DEF a
<1>11. ReadsRow(t, d, Q, E, M, K) BY <1>10, Zenon DEF ReadsRow
<1>12. At(d, i, F[K]) BY <1>6, <1>8
<1>13. Path(t, d, Q, Dec(i, M[0]), Dec(i + Len(F[K]), M[K]))
  BY <1>1, <1>8, <1>9, <1>11, <1>12, RowPath
<1> QED BY <1>2, <1>6, <1>8, <1>13 DEF K, M, Q

-----------------------------------------------------------------------------
(* What is read depends only on the bytes that are read. *)

\* A varint is read from the bytes up to its end.
LEMMA VarintLocal ==
  ASSUME NEW u \in Seq(Byte), NEW d \in Seq(Byte), NEW i \in Nat, At(d, i, u),
         NEW o \in Nat, ReadVarint(u, o).err = "none"
  PROVE  ReadVarint(d, i + o) = Read(ReadVarint(u, o).val, i + ReadVarint(u, o).next)
<1> DEFINE ue == {j \in 1..Groups : o + j <= Len(u) /\ u[o + j] < 128}
           de == {j \in 1..Groups : (i + o) + j <= Len(d) /\ d[(i + o) + j] < 128}
           n == Min(ue)
           x == Min(de)
<1>1. /\ ReadVarint(u, o) = IF ue # {} THEN Read(GroupsValue(u, o, n), o + n)
                            ELSE Fail(IF o + Groups <= Len(u) THEN "overflow" ELSE "eof")
      /\ ReadVarint(d, i + o) = IF de # {} THEN Read(GroupsValue(d, i + o, x), (i + o) + x)
                            ELSE Fail(IF (i + o) + Groups <= Len(d) THEN "overflow" ELSE "eof")
  BY DEF ReadVarint
<1>2. Groups \in Nat /\ Len(u) \in Nat /\ Len(d) \in Nat BY GroupsTyped
<1>3. i + Len(u) <= Len(d) /\ \A j \in 1..Len(u) : d[i + j] = u[j] BY DEF At
<1>4. ue \subseteq Nat /\ de \subseteq Nat BY <1>2
<1>5. \A j \in ue : j \in de
  <2> SUFFICES ASSUME NEW j \in ue PROVE j \in de OBVIOUS
  <2>1. j \in 1..Groups /\ o + j <= Len(u) /\ u[o + j] < 128 OBVIOUS
  <2>2. o + j \in 1..Len(u) /\ i + (o + j) = (i + o) + j /\ (i + o) + j <= Len(d) BY <1>2, <1>3, <2>1
  <2>3. d[(i + o) + j] = u[o + j] BY <1>3, <2>2
  <2> QED BY <2>1, <2>2, <2>3
<1>6. \A j \in de : o + j <= Len(u) => j \in ue
  <2> SUFFICES ASSUME NEW j \in de, o + j <= Len(u) PROVE j \in ue OBVIOUS
  <2>1. j \in 1..Groups /\ d[(i + o) + j] < 128 OBVIOUS
  <2>2. o + j \in 1..Len(u) /\ i + (o + j) = (i + o) + j BY <1>2, <2>1
  <2>3. d[(i + o) + j] = u[o + j] BY <1>3, <2>2
  <2> QED BY <2>1, <2>3
<1>7. \A j \in ue : o + j <= Len(u) /\ j \in 1..Groups OBVIOUS
<1> HIDE DEF ue, de
<1>8. ue # {} BY <1>1 DEF Fail
<1>9. n \in ue /\ \A j \in ue : n <= j
  <2>1. \E y \in ue : \A j \in ue : y <= j BY <1>4, <1>8, LeastNatural
  <2> QED BY <2>1 DEF Min
<1>10. x \in de /\ \A j \in de : x <= j
  <2>1. de # {} BY <1>5, <1>9
  <2>2. \E y \in de : \A j \in de : y <= j BY <1>4, <2>1, LeastNatural
  <2> QED BY <2>2 DEF Min
<1> HIDE DEF n, x
<1>11. n \in Nat /\ x \in Nat /\ n \in 1..Groups /\ o + n <= Len(u) BY <1>4, <1>7, <1>9, <1>10
<1>12. x <= n BY <1>5, <1>9, <1>10
<1>13. o + x <= Len(u) BY <1>2, <1>11, <1>12
<1>14. n <= x BY <1>6, <1>9, <1>10, <1>13
<1>15. x = n BY <1>11, <1>12, <1>14
<1>16. GroupsValue(d, i + o, n) = GroupsValue(u, o, n)
  <2> DEFINE a == [j \in 1..n |-> (d[(i + o) + j] % 128) * Pow2[7 * (j - 1)]]
             b == [j \in 1..n |-> (u[o + j] % 128) * Pow2[7 * (j - 1)]]
  <2>1. \A j \in 1..n : d[(i + o) + j] = u[o + j]
    <3> SUFFICES ASSUME NEW j \in 1..n PROVE d[(i + o) + j] = u[o + j] OBVIOUS
    <3>1. o + j \in 1..Len(u) /\ i + (o + j) = (i + o) + j BY <1>2, <1>11
    <3> QED BY <1>3, <3>1
  <2>2. a = b BY <2>1, Zenon
  <2>3. GroupsValue(d, i + o, n) = Total(a) % Pow2[WordBits] BY Zenon DEF GroupsValue
  <2>4. GroupsValue(u, o, n) = Total(b) % Pow2[WordBits] BY Zenon DEF GroupsValue
  <2> HIDE DEF a, b
  <2> QED BY <2>2, <2>3, <2>4, Zenon
<1>17. (i + o) + n = i + (o + n) BY <1>11
<1>18. ReadVarint(d, i + o) = Read(GroupsValue(d, i + o, n), (i + o) + n)
  BY <1>1, <1>10, <1>15, Zenon
<1>19. ReadVarint(u, o) = Read(GroupsValue(u, o, n), o + n) BY <1>1, <1>8, Zenon
<1> DEFINE v == GroupsValue(u, o, n)
           e == o + n
<1>20. ReadVarint(u, o) = Read(v, e) /\ ReadVarint(d, i + o) = Read(v, i + e)
  BY <1>16, <1>17, <1>18, <1>19
<1> HIDE DEF v, e
<1> QED BY <1>20 DEF Read

\* Of a buffer that begins with u.
LEMMA VarintPrefix ==
  ASSUME NEW u \in Seq(Byte), NEW w \in Seq(Byte), At(w, 0, u),
         NEW o \in Nat, ReadVarint(u, o).err = "none"
  PROVE  ReadVarint(w, o) = ReadVarint(u, o)
<1> DEFINE r == ReadVarint(u, o)
<1>1. ReadVarint(w, 0 + o) = Read(r.val, 0 + r.next) BY VarintLocal
<1>2. r.next \in Nat BY ReadVarintTyped
<1>3. r = Read(r.val, r.next)
  <2>1. \/ \E v, n : r = Read(v, n)
        \/ \E e \in {"overflow", "eof"} : r = Fail(e)
    BY Zenon DEF ReadVarint
  <2>2. \A e \in {"overflow", "eof"} : r # Fail(e) BY DEF Fail
  <2>3. PICK v, n : r = Read(v, n) BY <2>1, <2>2, Zenon
  <2> HIDE DEF r
  <2> QED BY <2>3 DEF Read
<1> HIDE DEF r
<1>4. 0 + o = o /\ 0 + r.next = r.next BY <1>2
<1>5. ReadVarint(w, o) = r BY <1>1, <1>3, <1>4
<1> QED BY <1>5 DEF r

\* So is a length,
LEMMA LengthPrefix ==
  ASSUME NEW u \in Seq(Byte), NEW w \in Seq(Byte), At(w, 0, u),
         NEW o \in Nat, ReadLength(u, o).err = "none"
  PROVE  ReadLength(w, o) = ReadLength(u, o)
<1> DEFINE r == ReadVarint(u, o)
<1>1. r.err = "none"
  <2>1. r.err # "none" => ReadLength(u, o) = r BY DEF ReadLength
  <2> QED BY <2>1
<1>2. ReadVarint(w, o) = r BY <1>1, VarintPrefix
<1> QED BY <1>2, Zenon DEF ReadLength

\* so is the value of a field that is skipped,
LEMMA SkipValuePrefix ==
  ASSUME NEW u \in Seq(Byte), NEW w \in Seq(Byte), At(w, 0, u),
         NEW o \in Nat, NEW wt, NEW k, SkipValue(u, o, wt, k).err = "none"
  PROVE  SkipValue(w, o, wt, k) = SkipValue(u, o, wt, k)
<1>1. CASE wt = 0
  <2>1. SkipValue(u, o, wt, k) = ReadVarint(u, o) /\ SkipValue(w, o, wt, k) = ReadVarint(w, o)
    BY <1>1 DEF SkipValue
  <2> QED BY <2>1, VarintPrefix
<1>2. CASE wt = 2
  <2> DEFINE R(d) == LET r == ReadLength(d, o) IN IF r.err # "none" THEN r ELSE Read(r.val, r.val)
  <2>1. SkipValue(u, o, wt, k) = R(u) /\ SkipValue(w, o, wt, k) = R(w)
    BY <1>2 DEF SkipValue
  <2>2. ReadLength(u, o).err = "none"
    <3>1. ReadLength(u, o).err # "none" => SkipValue(u, o, wt, k) = ReadLength(u, o) BY <2>1
    <3> QED BY <3>1
  <2>3. ReadLength(w, o) = ReadLength(u, o) BY <2>2, LengthPrefix
  <2>4. R(w) = R(u) BY <2>3, Zenon
  <2> QED BY <2>1, <2>4
<1>3. CASE wt # 0 /\ wt # 2 BY <1>3 DEF SkipValue
<1> QED BY <1>1, <1>2, <1>3

\* and so is a run of skipTx's loop.
LEMMA SkipOncePrefix ==
  ASSUME NEW u \in Seq(Byte), NEW w \in Seq(Byte), At(w, 0, u),
         NEW o \in Nat, NEW k, SkipOnce(u, o, k).err = "none"
  PROVE  SkipOnce(w, o, k) = SkipOnce(u, o, k) /\ ReadVarint(u, o).err = "none" /\ o < Len(u)
<1> DEFINE tag == ReadVarint(u, o)
           wt == tag.val % 8
           v == SkipValue(u, tag.next, wt, k)
<1>1. tag.err = "none"
  <2>1. tag.err # "none" => SkipOnce(u, o, k) = tag BY Zenon DEF SkipOnce
  <2> QED BY <2>1
<1>2. tag.next \in Nat /\ o < tag.next /\ tag.next <= Len(u) BY <1>1, ReadVarintTyped
<1>3. v.err = "none"
  <2>1. v.err # "none" => SkipOnce(u, o, k) = v BY <1>1, Zenon DEF SkipOnce
  <2> QED BY <2>1
<1>4. ReadVarint(w, o) = tag BY <1>1, VarintPrefix
<1>5. SkipValue(w, tag.next, wt, k) = v BY <1>2, <1>3, SkipValuePrefix
<1>6. SkipOnce(w, o, k) = SkipOnce(u, o, k) BY <1>4, <1>5, Zenon DEF SkipOnce
<1> QED BY <1>1, <1>2, <1>6

-----------------------------------------------------------------------------
(* Unknown fields. *)

\* The rest of a buffer.
LEMMA RestIs ==
  ASSUME NEW d \in Seq(Byte), NEW i \in Nat, i <= Len(d)
  PROVE  /\ Rest(d, i) \in Seq(Byte) /\ Len(Rest(d, i)) = Len(d) - i
         /\ \A j \in 1..(Len(d) - i) : Rest(d, i)[j] = d[i + j]
<1> DEFINE n == Len(d)
           q == SubSeq(d, i + 1, n)
<1>1. n \in Nat /\ i <= n OBVIOUS
<1>2. \A k \in (i + 1)..n : d[k] \in Byte
  <2>1. \A k \in (i + 1)..n : k \in 1..Len(d) OBVIOUS
  <2> QED BY <2>1
<1>3. /\ q \in Seq(Byte) /\ Len(q) = IF i + 1 <= n THEN n - (i + 1) + 1 ELSE 0
      /\ \A k \in 1..(n - (i + 1) + 1) : q[k] = d[(i + 1) + k - 1]
  BY <1>1, <1>2, SubSeqProperties
<1> HIDE DEF q, n
<1>4. Len(q) = n - i BY <1>1, <1>3
<1>5. \A j \in 1..(n - i) : j \in 1..(n - (i + 1) + 1) /\ (i + 1) + j - 1 = i + j BY <1>1
<1>6. \A j \in 1..(n - i) : q[j] = d[i + j] BY <1>3, <1>5
<1> QED BY <1>3, <1>4, <1>6 DEF Rest, q, n

\* What the buffer holds after i, its rest begins with.
LEMMA RestAt ==
  ASSUME NEW d \in Seq(Byte), NEW i \in Nat, NEW u \in Seq(Byte), At(d, i, u)
  PROVE  Rest(d, i) \in Seq(Byte) /\ At(Rest(d, i), 0, u) /\ i <= Len(d)
<1> DEFINE r == Rest(d, i)
<1>1. i + Len(u) <= Len(d) /\ \A j \in 1..Len(u) : d[i + j] = u[j] BY DEF At
<1>2. Len(u) \in Nat /\ Len(d) \in Nat OBVIOUS
<1>3. i <= Len(d) BY <1>1, <1>2
<1>4. /\ r \in Seq(Byte) /\ Len(r) = Len(d) - i
      /\ \A j \in 1..(Len(d) - i) : r[j] = d[i + j]
  BY <1>3, RestIs
<1> HIDE DEF r
<1>5. \A j \in 1..Len(u) : 0 + j = j /\ j \in 1..(Len(d) - i) BY <1>1, <1>2
<1>6. At(r, 0, u) BY <1>1, <1>2, <1>4, <1>5 DEF At
<1> QED BY <1>3, <1>4, <1>6 DEF r

\* The runs of skipTx's loop follow from one another.
NextRun(d, r) == IF r.err # "none" THEN r ELSE SkipOnce(d, r.next, r.val)

\* SkipRuns satisfies its equation.
LEMMA SkipRunsEquation ==
  ASSUME NEW d, Len(d) \in Nat
  PROVE  /\ SkipRuns(d)[0] = Read(0, 0)
         /\ \A n \in 1..Len(d) : SkipRuns(d)[n] = NextRun(d, SkipRuns(d)[n - 1])
<1> DEFINE K == Len(d)
           Eq(g, k) == g = [n \in 0..k |-> IF n = 0 THEN Read(0, 0)
                              ELSE IF g[n - 1].err # "none" THEN g[n - 1]
                              ELSE SkipOnce(d, g[n - 1].next, g[n - 1].val)]
           S == {k \in Nat : \E g : Eq(g, k)}
<1>0. K \in Nat OBVIOUS
<1>00. SkipRuns(d) = CHOOSE g : Eq(g, K) BY Zenon DEF SkipRuns
<1>01. \A g, k : Eq(g, k) <=> g = [n \in 0..k |-> IF n = 0 THEN Read(0, 0) ELSE NextRun(d, g[n - 1])]
  BY Zenon DEF NextRun
<1> HIDE DEF K
<1> HIDE DEF Eq
<1>1. 0 \in S
  <2> DEFINE g == [n \in 0..0 |-> Read(0, 0)]
  <2>1. g = [n \in 0..0 |-> IF n = 0 THEN Read(0, 0) ELSE NextRun(d, g[n - 1])]
    <3>1. \A n \in 0..0 : n = 0 OBVIOUS
    <3> QED BY <3>1
  <2> HIDE DEF g
  <2>2. \E h : Eq(h, 0) BY <1>01, <2>1
  <2> QED BY <2>2
<1>2. ASSUME NEW k \in Nat, k \in S PROVE k + 1 \in S
  <2>1. PICK g : Eq(g, k) BY <1>2
  <2> DEFINE h == [n \in 0..(k + 1) |-> IF n = k + 1 THEN NextRun(d, g[k]) ELSE g[n]]
  <2>2. h[k + 1] = NextRun(d, g[k]) /\ \A n \in 0..k : h[n] = g[n]
    <3>1. \A n \in 0..k : n \in 0..(k + 1) /\ n # k + 1 OBVIOUS
    <3>2. k + 1 \in 0..(k + 1) OBVIOUS
    <3> QED BY <3>1, <3>2
  <2>3. \A n \in 0..k : g[n] = IF n = 0 THEN Read(0, 0) ELSE NextRun(d, g[n - 1]) BY <1>01, <2>1
  <2>4. h = [n \in 0..(k + 1) |-> h[n]] OBVIOUS
  <2> HIDE DEF h
  <2>5. ASSUME NEW n \in 0..(k + 1)
        PROVE  h[n] = IF n = 0 THEN Read(0, 0) ELSE NextRun(d, h[n - 1])
    <3>1. CASE n = k + 1
      <4>1. n - 1 = k /\ k \in 0..k /\ n # 0 BY <3>1
      <4>2. h[n] = NextRun(d, g[k]) /\ h[n - 1] = g[k] BY <2>2, <3>1, <4>1
      <4> QED BY <4>1, <4>2
    <3>2. CASE n = 0
      <4>1. 0 \in 0..k OBVIOUS
      <4> QED BY <2>2, <2>3, <3>2, <4>1
    <3>3. CASE n # k + 1 /\ n # 0
      <4>1. n \in 0..k /\ n - 1 \in 0..k BY <3>3
      <4>2. h[n] = g[n] /\ h[n - 1] = g[n - 1] BY <2>2, <4>1
      <4>3. g[n] = NextRun(d, g[n - 1]) BY <2>3, <3>3, <4>1
      <4> QED BY <3>3, <4>2, <4>3
    <3> QED BY <3>1, <3>2, <3>3
  <2>6. h = [n \in 0..(k + 1) |-> IF n = 0 THEN Read(0, 0) ELSE NextRun(d, h[n - 1])] BY <2>4, <2>5
  <2>7. \E e : Eq(e, k + 1) BY <1>01, <2>6
  <2> QED BY <2>7
<1>3. K \in S
  <2>1. \A k \in Nat : k \in S
    <3> HIDE DEF S
    <3> QED BY <1>1, <1>2, SetInduction
  <2> QED BY <1>0, <2>1
<1> DEFINE M == SkipRuns(d)
<1>4. Eq(M, K)
  <2>1. \E g : Eq(g, K) BY <1>3
  <2> QED BY <1>00, <2>1
<1> HIDE DEF M
<1>6. \A n \in 0..K : M[n] = IF n = 0 THEN Read(0, 0) ELSE NextRun(d, M[n - 1]) BY <1>01, <1>4
<1>7. 0 \in 0..K /\ \A n \in 1..K : n \in 0..K /\ n # 0 BY <1>0
<1> QED BY <1>6, <1>7 DEF M, K

\* An encoding of fields that no message has.
Unknown(t, u) ==
  /\ u \in Seq(Byte) /\ Skips(u)
  /\ FieldNumber(ReadVarint(u, 0).val) > 0
  /\ FieldNumber(ReadVarint(u, 0).val) \notin DOMAIN Cases[t]

\* N runs of skipTx's loop, from the tag on, skip exactly u.
SkipsIn(u, r, N) ==
  /\ N \in 1..Len(u) /\ r[0] = Read(0, 0) /\ r[N] = Read(0, Len(u))
  /\ \A j \in 1..(N - 1) : r[j].err = "none" /\ r[j].val # 0
  /\ \A j \in 0..(N - 1) :
       /\ r[j].next \in Nat /\ r[j].val \in Nat
       /\ SkipOnce(u, r[j].next, r[j].val) = r[j + 1] /\ r[j + 1].err = "none"

\* The runs of skipTx on a field that it skips exactly.
LEMMA SkippedIn ==
  ASSUME NEW u \in Seq(Byte), Len(u) <= MaxInt, Skips(u)
  PROVE  \E r, N : SkipsIn(u, r, N)
<1> DEFINE r == SkipRuns(u)
<1>1. Len(u) \in Nat OBVIOUS
<1>2. PICK N \in 1..Len(u) : /\ r[N] = Read(0, Len(u))
                             /\ \A j \in 1..(N - 1) : r[j].err = "none" /\ r[j].val # 0
  BY DEF Skips
<1>3. r[0] = Read(0, 0) /\ \A n \in 1..Len(u) : r[n] = NextRun(u, r[n - 1]) BY <1>1, SkipRunsEquation
<1> HIDE DEF r
<1>4. r[0].err = "none" /\ r[0].next = 0 /\ r[0].val = 0 /\ r[N].err = "none" BY <1>2, <1>3 DEF Read
<1>5. ASSUME NEW j \in 0..N PROVE r[j].err = "none"
  <2>1. j \in 1..(N - 1) \/ j = 0 \/ j = N BY <1>1, <1>2
  <2> QED BY <1>2, <1>4, <2>1
<1>6. ASSUME NEW j \in 0..(N - 1) PROVE SkipOnce(u, r[j].next, r[j].val) = r[j + 1] /\ r[j + 1].err = "none"
  <2>1. j \in 0..N /\ j + 1 \in 0..N /\ j + 1 \in 1..Len(u) /\ (j + 1) - 1 = j BY <1>1, <1>2
  <2>2. r[j].err = "none" /\ r[j + 1].err = "none" BY <1>5, <2>1
  <2>3. r[j + 1] = NextRun(u, r[j]) BY <1>3, <2>1
  <2> QED BY <2>2, <2>3 DEF NextRun
<1> DEFINE S == {j \in Nat : j <= N - 1 => r[j].next \in Nat /\ r[j].val \in Nat}
<1>7. 0 \in S BY <1>4
<1>8. ASSUME NEW j \in Nat, j \in S PROVE j + 1 \in S
  <2> SUFFICES ASSUME j + 1 <= N - 1 PROVE r[j + 1].next \in Nat /\ r[j + 1].val \in Nat OBVIOUS
  <2>1. j \in 0..(N - 1) /\ j <= N - 1 BY <1>1, <1>2
  <2>2. r[j].next \in Nat /\ r[j].val \in Nat BY <1>8, <2>1
  <2>3. SkipOnce(u, r[j].next, r[j].val) = r[j + 1] /\ r[j + 1].err = "none" BY <1>6, <2>1
  <2> DEFINE o == r[j].next
             k == r[j].val
             z == r[j + 1]
  <2>4. o \in Nat /\ k \in Nat /\ SkipOnce(u, o, k) = z /\ z.err = "none" BY <2>2, <2>3
  <2> HIDE DEF o, k, z
  <2>5. z.next \in Nat /\ z.val \in Nat BY <2>4, SkipOnceTyped
  <2> QED BY <2>5 DEF z
<1>9. \A j \in Nat : j \in S
  <2> HIDE DEF S
  <2> QED BY <1>7, <1>8, SetInduction
<1>10. ASSUME NEW j \in 0..(N - 1) PROVE r[j].next \in Nat /\ r[j].val \in Nat
  <2>1. j \in Nat /\ j <= N - 1 BY <1>1, <1>2
  <2>2. j \in S BY <1>9, <2>1
  <2> QED BY <2>1, <2>2
<1>11. SkipsIn(u, r, N) BY <1>2, <1>3, <1>6, <1>10, Zenon DEF SkipsIn
<1> QED BY <1>11

\* The parts of a decoder's state.
LEMMA SkpParts ==
  ASSUME NEW i, NEW m, NEW o, NEW k
  PROVE  /\ Skp(i, m, o, k)[1] = "skipping" /\ Skp(i, m, o, k)[2] = i /\ Skp(i, m, o, k)[3] = m
         /\ Skp(i, m, o, k)[4] = o /\ Skp(i, m, o, k)[5] = k
         /\ Dec(i, m)[1] = "decoding" /\ Dec(i, m)[2] = i /\ Dec(i, m)[3] = m
         /\ Dec(i, m)[4] = 0 /\ Dec(i, m)[5] = 0
BY DEF Skp, Dec

\* One run of skipTx's loop on a buffer that holds u.
LEMMA SkipRead ==
  ASSUME NEW t, NEW u \in Seq(Byte), NEW d \in Seq(Byte), NEW i \in Nat, At(d, i, u),
         NEW o \in Nat, NEW k \in Nat, SkipOnce(u, o, k).err = "none", NEW m
  PROVE  LET z == SkipOnce(u, o, k) IN
         /\ z.val # 0 => Steps(t, d, Skp(i, m, o, k), Skp(i, m, z.next, z.val))
         /\ z.val = 0 /\ z.next = Len(u) => Steps(t, d, Skp(i, m, o, k), Dec(i + Len(u), m))
<1> DEFINE z == SkipOnce(u, o, k)
           s == Skp(i, m, o, k)
           w == Rest(d, i)
<1>1. w \in Seq(Byte) /\ At(w, 0, u) BY RestAt
<1>2. SkipOnce(w, o, k) = z /\ o < Len(u)
  <2> HIDE DEF w
  <2> QED BY <1>1, SkipOncePrefix
<1>3. s[1] = "skipping" /\ s[2] = i /\ s[3] = m /\ s[4] = o /\ s[5] = k BY SkpParts
<1>4. i + o < Len(d) /\ i + Len(u) <= Len(d)
  <2>1. i + Len(u) <= Len(d) /\ Len(u) \in Nat /\ Len(d) \in Nat BY DEF At
  <2> QED BY <1>2, <2>1
<1>5. z.err = "none" /\ SkipOnce(Rest(d, s[2]), s[4], s[5]) = z BY <1>2, <1>3
<1> HIDE DEF s, z
<1>6. ASSUME z.val # 0 PROVE Steps(t, d, s, Skp(i, m, z.next, z.val))
  <2>1. SkipsOn(d, s, Skp(i, m, z.next, z.val)) BY <1>3, <1>5, <1>6, Zenon DEF SkipsOn
  <2> QED BY <1>3, <1>4, <2>1 DEF Steps
<1>7. ASSUME z.val = 0, z.next = Len(u) PROVE Steps(t, d, s, Dec(i + Len(u), m))
  <2>1. s[2] + z.next <= Len(d) BY <1>3, <1>4, <1>7
  <2>2. Dec(s[2] + z.next, s[3]) = Dec(i + Len(u), m) BY <1>3, <1>7
  <2>3. SkipsOn(d, s, Dec(i + Len(u), m)) BY <1>5, <1>7, <2>1, <2>2, Zenon DEF SkipsOn
  <2> QED BY <1>3, <1>4, <2>3 DEF Steps
<1> QED BY <1>6, <1>7 DEF s, z

\* Fields that the message does not have are skipped.
LEMMA UnknownRead ==
  ASSUME NEW t, NEW u, Unknown(t, u), NEW d \in Seq(Byte), Len(d) <= MaxInt, NEW i \in Nat,
         At(d, i, u), NEW Q, NEW m \in Q
  PROVE  Path(t, d, Q, Dec(i, m), Dec(i + Len(u), m))
<1>1. /\ u \in Seq(Byte) /\ Skips(u) /\ FieldNumber(ReadVarint(u, 0).val) > 0
      /\ FieldNumber(ReadVarint(u, 0).val) \notin DOMAIN Cases[t]
  BY DEF Unknown
<1>2. Len(u) \in Nat /\ Len(d) \in Nat /\ i + Len(u) <= Len(d) /\ Len(u) <= MaxInt
  <2>1. Len(u) \in Nat /\ Len(d) \in Nat BY <1>1
  <2>2. i + Len(u) <= Len(d) BY DEF At
  <2> QED BY <2>1, <2>2, WordTyped
<1>3. \E x, y : SkipsIn(u, x, y) BY <1>1, <1>2, SkippedIn
<1>4. PICK r, N : SkipsIn(u, r, N) BY <1>3
<1>5. /\ N \in 1..Len(u) /\ r[0] = Read(0, 0) /\ r[N] = Read(0, Len(u))
      /\ \A j \in 1..(N - 1) : r[j].err = "none" /\ r[j].val # 0
      /\ \A j \in 0..(N - 1) :
           /\ r[j].next \in Nat /\ r[j].val \in Nat
           /\ SkipOnce(u, r[j].next, r[j].val) = r[j + 1] /\ r[j + 1].err = "none"
  BY <1>4 DEF SkipsIn
<1>6. r[0].next = 0 /\ r[0].val = 0 /\ r[N].next = Len(u) /\ r[N].val = 0 BY <1>5 DEF Read
<1> DEFINE P(j) == Skp(i, m, r[j].next, r[j].val)
           S == {j \in Nat : j <= N - 1 => Path(t, d, Q, Skp(i, m, 0, 0), P(j))}
<1>7. ASSUME NEW j \in 0..(N - 1)
      PROVE  /\ r[j + 1].val # 0 => Steps(t, d, P(j), P(j + 1))
             /\ r[j + 1].val = 0 /\ r[j + 1].next = Len(u) => Steps(t, d, P(j), Dec(i + Len(u), m))
  <2> DEFINE o == r[j].next
             k == r[j].val
             z == r[j + 1]
  <2>1. o \in Nat /\ k \in Nat /\ SkipOnce(u, o, k) = z /\ z.err = "none" BY <1>5
  <2> HIDE DEF o, k, z
  <2>2. SkipOnce(u, o, k).err = "none" BY <2>1
  <2>3. /\ z.val # 0 => Steps(t, d, Skp(i, m, o, k), Skp(i, m, z.next, z.val))
        /\ z.val = 0 /\ z.next = Len(u) => Steps(t, d, Skp(i, m, o, k), Dec(i + Len(u), m))
    BY <1>1, <2>1, <2>2, SkipRead
  <2> QED BY <2>3 DEF o, k, z
<1>8. \A j : P(j)[3] = m BY SkpParts
<1>9. Skp(i, m, 0, 0)[3] = m /\ Dec(i, m)[3] = m /\ Dec(i + Len(u), m)[3] = m BY SkpParts
<1>10. P(0) = Skp(i, m, 0, 0) BY <1>6
<1> HIDE DEF P
<1>11. 0 \in S
  <2>1. Path(t, d, Q, Skp(i, m, 0, 0), Skp(i, m, 0, 0)) BY <1>9, PathHere
  <2> QED BY <1>10, <2>1
<1>12. ASSUME NEW j \in Nat, j \in S PROVE j + 1 \in S
  <2> SUFFICES ASSUME j + 1 <= N - 1 PROVE Path(t, d, Q, Skp(i, m, 0, 0), P(j + 1)) OBVIOUS
  <2>1. j \in 0..(N - 1) /\ j <= N - 1 /\ j + 1 \in 1..(N - 1) BY <1>2, <1>5
  <2>2. Path(t, d, Q, Skp(i, m, 0, 0), P(j)) BY <1>12, <2>1
  <2>3. r[j + 1].val # 0 BY <1>5, <2>1
  <2>4. Steps(t, d, P(j), P(j + 1)) BY <1>7, <2>1, <2>3
  <2>5. P(j)[3] \in Q /\ P(j + 1)[3] \in Q BY <1>8
  <2>6. Path(t, d, Q, P(j), P(j + 1)) BY <2>4, <2>5, PathStep
  <2> QED BY <2>2, <2>6, PathJoin
<1>13. \A j \in Nat : j \in S
  <2> HIDE DEF S
  <2> QED BY <1>11, <1>12, SetInduction
<1> DEFINE n == N - 1
<1>14. n \in Nat /\ n <= N - 1 /\ n \in 0..(N - 1) /\ n + 1 = N BY <1>2, <1>5
<1>15. n \in S BY <1>13, <1>14
<1>16. Path(t, d, Q, Skp(i, m, 0, 0), P(n)) BY <1>14, <1>15
<1> HIDE DEF n
<1>17. Steps(t, d, P(n), Dec(i + Len(u), m)) BY <1>6, <1>7, <1>14
<1>18. P(n)[3] \in Q /\ Dec(i + Len(u), m)[3] \in Q BY <1>8, <1>9
<1>19. Path(t, d, Q, P(n), Dec(i + Len(u), m)) BY <1>17, <1>18, PathStep
<1>20. Path(t, d, Q, Skp(i, m, 0, 0), Dec(i + Len(u), m)) BY <1>16, <1>19, PathJoin
<1>21. Steps(t, d, Dec(i, m), Skp(i, m, 0, 0))
  <2> DEFINE tag == ReadVarint(u, 0)
             wt == tag.val % 8
             fn == FieldNumber(tag.val)
  <2>1. SkipOnce(u, 0, 0).err = "none"
    <3>1. 0 \in 0..(N - 1) BY <1>2, <1>5
    <3>2. SkipOnce(u, r[0].next, r[0].val) = r[0 + 1] /\ r[0 + 1].err = "none" BY <1>5, <3>1
    <3> QED BY <1>6, <3>2
  <2>2. tag.err = "none"
    <3>1. tag.err # "none" => SkipOnce(u, 0, 0) = tag BY Zenon DEF SkipOnce
    <3> QED BY <2>1, <3>1
  <2>3. tag.next \in Nat /\ tag.val \in Nat BY <1>1, <2>2, ReadVarintTyped, WordTyped
  <2>4. wt # 4
    <3>1. SkipValue(u, tag.next, wt, 0).err = "none"
      <4>1. SkipValue(u, tag.next, wt, 0).err # "none" => SkipOnce(u, 0, 0) = SkipValue(u, tag.next, wt, 0)
        BY <2>2, Zenon DEF SkipOnce
      <4> QED BY <2>1, <4>1
    <3>2. wt = 4 => SkipValue(u, tag.next, wt, 0) = Fail("endgroup") BY DEF SkipValue
    <3> QED BY <3>1, <3>2 DEF Fail
  <2>5. wt \in 0..7
    <3> HIDE DEF tag
    <3> QED BY <2>3
  <2>6. fn \in Int
    <3>1. tag.val \div 8 \in Int
      <4> HIDE DEF tag
      <4> QED BY <2>3
    <3> QED BY <3>1, SignedHalf, WordTyped DEF FieldNumber
  <2>7. ReadVarint(d, i) = Read(tag.val, i + tag.next)
    <3>1. ReadVarint(d, i + 0) = Read(tag.val, i + tag.next) BY <1>1, <2>2, VarintLocal
    <3>2. i + 0 = i OBVIOUS
    <3> QED BY <3>1, <3>2
  <2>8. i + tag.next \in Nat
    <3> HIDE DEF tag
    <3> QED BY <2>3
  <2> DEFINE at == i + tag.next
  <2>9. TagAt(d, i, fn, wt, at) BY <2>7 DEF TagAt, Read
  <2>10. fn > 0 /\ fn \notin DOMAIN Cases[t] BY <1>1
  <2> HIDE DEF fn, wt, tag, at
  <2>11. SkipStarts(t, d, i) BY <2>4, <2>5, <2>6, <2>8, <2>9, <2>10, Zenon DEF SkipStarts, at
  <2>12. Dec(i, m)[1] = "decoding" /\ Dec(i, m)[2] = i /\ Dec(i, m)[3] = m BY SkpParts
  <2>13. i < Len(d) BY <1>2, <1>5
  <2> QED BY <2>11, <2>12, <2>13 DEF Steps
<1>22. Path(t, d, Q, Dec(i, m), Skp(i, m, 0, 0)) BY <1>9, <1>21, PathStep
<1> QED BY <1>20, <1>22, PathJoin

-----------------------------------------------------------------------------
(* Steps within what arrived. *)

\* d is a beginning of w.
Begins(d, w) == d \in Seq(Byte) /\ w \in Seq(Byte) /\ At(w, 0, d) /\ Len(d) <= MaxInt

\* The bytes of a beginning.
LEMMA BeginsSame ==
  ASSUME NEW d, NEW w, Begins(d, w)
  PROVE  /\ d \in Seq(Byte) /\ w \in Seq(Byte) /\ Len(d) \in Nat /\ Len(w) \in Nat
         /\ Len(d) <= Len(w) /\ At(w, 0, d) /\ Len(d) <= MaxInt
         /\ \A j \in 1..Len(d) : w[j] = d[j]
<1>1. d \in Seq(Byte) /\ w \in Seq(Byte) /\ At(w, 0, d) /\ Len(d) <= MaxInt BY DEF Begins
<1>2. Len(d) \in Nat /\ Len(w) \in Nat BY <1>1
<1>3. 0 + Len(d) <= Len(w) /\ \A j \in 1..Len(d) : w[0 + j] = d[j] BY <1>1 DEF At
<1>4. 0 + Len(d) = Len(d) /\ \A j \in 1..Len(d) : 0 + j = j BY <1>2
<1> QED BY <1>1, <1>2, <1>3, <1>4

\* A slice within the beginning.
LEMMA SubSeqPrefix ==
  ASSUME NEW d, NEW w, Begins(d, w), NEW x \in Nat, NEW j \in Nat, j <= Len(d)
  PROVE  SubSeq(d, x + 1, j) = SubSeq(w, x + 1, j)
<1> DEFINE p == SubSeq(d, x + 1, j)
           q == SubSeq(w, x + 1, j)
<1>1. /\ d \in Seq(Byte) /\ w \in Seq(Byte) /\ Len(d) \in Nat /\ Len(w) \in Nat /\ Len(d) <= Len(w)
      /\ \A k \in 1..Len(d) : w[k] = d[k]
  BY BeginsSame
<1>2. \A k \in (x + 1)..j : k \in 1..Len(d) /\ k \in 1..Len(w) BY <1>1
<1>3. \A k \in (x + 1)..j : d[k] \in Byte /\ w[k] \in Byte /\ w[k] = d[k] BY <1>1, <1>2
<1>4. x + 1 \in Int /\ j \in Int OBVIOUS
<1>5. /\ p \in Seq(Byte) /\ Len(p) = IF x + 1 <= j THEN j - (x + 1) + 1 ELSE 0
      /\ \A k \in 1..(j - (x + 1) + 1) : p[k] = d[(x + 1) + k - 1]
  BY <1>3, <1>4, SubSeqProperties
<1>6. /\ q \in Seq(Byte) /\ Len(q) = IF x + 1 <= j THEN j - (x + 1) + 1 ELSE 0
      /\ \A k \in 1..(j - (x + 1) + 1) : q[k] = w[(x + 1) + k - 1]
  BY <1>3, <1>4, SubSeqProperties
<1> HIDE DEF p, q
<1>7. Len(p) = Len(q) BY <1>5, <1>6
<1>8. ASSUME NEW k \in 1..Len(p) PROVE p[k] = q[k]
  <2>1. k \in 1..(j - (x + 1) + 1) /\ (x + 1) + k - 1 \in (x + 1)..j BY <1>5
  <2>2. p[k] = d[(x + 1) + k - 1] /\ q[k] = w[(x + 1) + k - 1] BY <1>5, <1>6, <2>1
  <2> QED BY <1>3, <2>1, <2>2
<1>9. p = q BY <1>5, <1>6, <1>7, <1>8, SeqEqual
<1> QED BY <1>9 DEF p, q

\* A tag within the beginning.
LEMMA TagLocal ==
  ASSUME NEW d, NEW w, Begins(d, w), NEW i \in Nat, NEW n, NEW wt, NEW at, TagAt(d, i, n, wt, at)
  PROVE  TagAt(w, i, n, wt, at)
<1>1. ReadVarint(d, i).err = "none" BY DEF TagAt
<1>2. ReadVarint(w, i) = ReadVarint(d, i) BY <1>1, BeginsSame, VarintPrefix
<1> QED BY <1>2 DEF TagAt

\* A value within the beginning.
LEMMA ValueLocal ==
  ASSUME NEW d, NEW w, Begins(d, w), NEW i \in Nat, NEW b, NEW j, ValueAt(d, i, b, j)
  PROVE  ValueAt(w, i, b, j)
<1> DEFINE r == ReadLength(d, i)
<1>1. r.err = "none" /\ r.val = j /\ j <= Len(d) /\ b = SubSeq(d, r.next + 1, j) BY DEF ValueAt
<1>2. ReadLength(w, i) = r BY <1>1, BeginsSame, LengthPrefix
<1>3. r.next \in Nat /\ r.val \in Nat BY <1>1, BeginsSame, ReadLengthTyped, WordTyped
<1> HIDE DEF r
<1>4. SubSeq(d, r.next + 1, j) = SubSeq(w, r.next + 1, j) BY <1>1, <1>3, SubSeqPrefix
<1>5. j <= Len(w) BY <1>1, <1>3, BeginsSame
<1> QED BY <1>1, <1>2, <1>4, <1>5 DEF ValueAt

\* The rest of the beginning is a beginning of the rest.
LEMMA RestLocal ==
  ASSUME NEW d, NEW w, Begins(d, w), NEW i \in Nat, i <= Len(d)
  PROVE  Rest(d, i) \in Seq(Byte) /\ Rest(w, i) \in Seq(Byte) /\ At(Rest(w, i), 0, Rest(d, i))
<1> DEFINE p == Rest(d, i)
           q == Rest(w, i)
<1>1. /\ d \in Seq(Byte) /\ w \in Seq(Byte) /\ Len(d) \in Nat /\ Len(w) \in Nat /\ Len(d) <= Len(w)
      /\ \A k \in 1..Len(d) : w[k] = d[k]
  BY BeginsSame
<1>2. i <= Len(w) BY <1>1
<1>3. p \in Seq(Byte) /\ Len(p) = Len(d) - i /\ \A j \in 1..(Len(d) - i) : p[j] = d[i + j]
  BY <1>1, RestIs
<1>4. q \in Seq(Byte) /\ Len(q) = Len(w) - i /\ \A j \in 1..(Len(w) - i) : q[j] = w[i + j]
  BY <1>1, <1>2, RestIs
<1> HIDE DEF p, q
<1>5. \A j \in 1..(Len(d) - i) : j \in 1..(Len(w) - i) /\ i + j \in 1..Len(d) /\ 0 + j = j BY <1>1
<1>6. \A j \in 1..(Len(d) - i) : q[0 + j] = p[j] BY <1>1, <1>3, <1>4, <1>5
<1>7. 0 + Len(p) <= Len(q) BY <1>1, <1>3, <1>4
<1>8. At(q, 0, p) BY <1>3, <1>6, <1>7 DEF At
<1> QED BY <1>3, <1>4, <1>8 DEF p, q

\* Whatever the depth is, the index after a run is a natural number.
LEMMA SkipNext ==
  ASSUME NEW d \in Seq(Byte), Len(d) <= MaxInt, NEW i \in Nat, NEW k, SkipOnce(d, i, k).err = "none"
  PROVE  SkipOnce(d, i, k).next \in Nat
<1> DEFINE tag == ReadVarint(d, i)
           wt == tag.val % 8
           v == SkipValue(d, tag.next, wt, k)
           left == k + (IF wt = 3 THEN 1 ELSE IF wt = 4 THEN -1 ELSE 0)
<1>1. SkipOnce(d, i, k) = IF tag.err # "none" THEN tag ELSE IF v.err # "none" THEN v ELSE Read(left, v.next)
  BY Zenon DEF SkipOnce
<1>2. tag.err = "none" /\ v.err = "none" BY <1>1
<1>3. tag.next \in Nat /\ tag.next <= Len(d) BY <1>2, ReadVarintTyped
<1>4. v.next \in Nat BY <1>2, <1>3, SkipValueTyped
<1> HIDE DEF v, left, tag, wt
<1>5. SkipOnce(d, i, k) = Read(left, v.next) BY <1>1, <1>2
<1> QED BY <1>4, <1>5 DEF Read

\* A decoder's state on the buffer d.
StateOf(d, s) == s[2] \in Nat /\ s[2] <= Len(d) /\ s[4] \in Nat

\* A step on the beginning of a buffer is a step on the buffer.
LEMMA StepsLocal ==
  ASSUME NEW t, NEW d, NEW w, Begins(d, w), NEW s, StateOf(d, s), NEW z, Steps(t, d, s, z)
  PROVE  Steps(t, w, s, z)
<1>1. s[2] \in Nat /\ s[2] <= Len(d) /\ s[4] \in Nat BY DEF StateOf
<1>2. Len(d) \in Nat /\ Len(w) \in Nat /\ Len(d) <= Len(w) BY BeginsSame
<1> DEFINE i == s[2]
           m == s[3]
<1>3. CASE /\ s[1] = "decoding" /\ i < Len(d)
           /\ DelimitedStep(t, d, i, m, z[2], z[3]) /\ z = Dec(z[2], z[3])
  <2>1. DelimitedStep(t, w, i, m, z[2], z[3])
    <3> DEFINE j == z[2]
               x == z[3]
    <3> HIDE DEF j, x, m, i
    <3>1. PICK n \in DOMAIN Cases[t], at \in Nat, b \in Seq(Byte) :
            LET how == Cases[t][n][1] IN
            /\ TagAt(d, i, n, 2, at) /\ how # "varint" /\ n > 0
            /\ ValueAt(d, at, b, j)
            /\ how \in {"merge", "allocate", "appendMessage"} => Decodes(b)
            /\ x = [m EXCEPT ![Cases[t][n][2]] = Store(how, m[Cases[t][n][2]], b)]
      BY <1>3, Zenon DEF DelimitedStep, j, x
    <3>2. TagAt(w, i, n, 2, at) BY <1>1, <3>1, TagLocal DEF i
    <3>3. ValueAt(w, at, b, j) BY <3>1, ValueLocal
    <3>4. DelimitedStep(t, w, i, m, j, x) BY <3>1, <3>2, <3>3, Zenon DEF DelimitedStep
    <3> QED BY <3>4 DEF j, x
  <2>2. i < Len(w) BY <1>1, <1>2, <1>3
  <2> QED BY <1>3, <2>1, <2>2 DEF Steps
<1>4. CASE /\ s[1] = "decoding" /\ i < Len(d)
           /\ NumberStep(t, d, i, m, z[2], z[3]) /\ z = Dec(z[2], z[3])
  <2>1. NumberStep(t, w, i, m, z[2], z[3])
    <3> DEFINE j == z[2]
               x == z[3]
    <3> HIDE DEF j, x, m, i
    <3>1. PICK n \in DOMAIN Cases[t], at \in Nat :
            LET f == Cases[t][n][2]
                r == ReadVarint(d, at)
            IN  /\ TagAt(d, i, n, 0, at) /\ Cases[t][n][1] = "varint" /\ n > 0
                /\ r.err = "none" /\ r.next = j
                /\ x = [m EXCEPT ![f] = Number(Structs[t][f], r.val)]
      BY <1>4, Zenon DEF NumberStep, j, x
    <3>2. TagAt(w, i, n, 0, at) BY <1>1, <3>1, TagLocal DEF i
    <3>3. ReadVarint(w, at) = ReadVarint(d, at) BY <3>1, BeginsSame, VarintPrefix
    <3>4. NumberStep(t, w, i, m, j, x) BY <3>1, <3>2, <3>3, Zenon DEF NumberStep
    <3> QED BY <3>4 DEF j, x
  <2>2. i < Len(w) BY <1>1, <1>2, <1>4
  <2> QED BY <1>4, <2>1, <2>2 DEF Steps
<1>5. CASE s[1] = "decoding" /\ i < Len(d) /\ SkipStarts(t, d, i) /\ z = Skp(i, m, 0, 0)
  <2>1. SkipStarts(t, w, i)
    <3> HIDE DEF i
    <3>1. PICK n \in Int, wt \in 0..7, at \in Nat :
            TagAt(d, i, n, wt, at) /\ wt # 4 /\ n > 0 /\ n \notin DOMAIN Cases[t]
      BY <1>5 DEF SkipStarts
    <3>2. TagAt(w, i, n, wt, at) BY <1>1, <3>1, TagLocal DEF i
    <3> QED BY <3>1, <3>2, Zenon DEF SkipStarts
  <2>2. i < Len(w) BY <1>1, <1>2, <1>5
  <2> QED BY <1>5, <2>1, <2>2 DEF Steps
<1>6. CASE s[1] = "skipping" /\ i + s[4] < Len(d) /\ SkipsOn(d, s, z)
  <2> DEFINE p == Rest(d, i)
             q == Rest(w, i)
             run == SkipOnce(p, s[4], s[5])
  <2>1. p \in Seq(Byte) /\ q \in Seq(Byte) /\ At(q, 0, p) BY <1>1, RestLocal
  <2>2. /\ run.err = "none"
        /\ \/ run.val # 0 /\ z = Skp(i, m, run.next, run.val)
           \/ run.val = 0 /\ i + run.next <= Len(d) /\ z = Dec(i + run.next, m)
    BY <1>6, Zenon DEF SkipsOn
  <2>3. SkipOnce(q, s[4], s[5]) = run
    <3> HIDE DEF p, q
    <3> QED BY <1>1, <2>1, <2>2, SkipOncePrefix
  <2>4. run.val = 0 /\ i + run.next <= Len(d) => i + run.next <= Len(w)
    <3>1. run.next \in Nat
      <4>1. Len(p) <= MaxInt
        <5>1. Len(p) = Len(d) - i BY <1>1, BeginsSame, RestIs
        <5> QED BY <1>1, <1>2, <5>1, BeginsSame, WordTyped
      <4> QED BY <1>1, <2>1, <2>2, <4>1, SkipNext
    <3> HIDE DEF run
    <3> QED BY <1>1, <1>2, <3>1
  <2>5. SkipsOn(w, s, z)
    <3> HIDE DEF run
    <3> QED BY <2>2, <2>3, <2>4, Zenon DEF SkipsOn
  <2>6. i + s[4] < Len(w) BY <1>1, <1>2, <1>6
  <2> QED BY <1>6, <2>5, <2>6 DEF Steps
<1> QED BY <1>3, <1>4, <1>5, <1>6 DEF Steps

-----------------------------------------------------------------------------
(* The decoder is deterministic. *)

\* What a step from s reads: the kind of the step and where it leads.
LEMMA DelimitedSame ==
  ASSUME NEW t, NEW d, NEW i, NEW m, NEW j, NEW x, NEW k, NEW y,
         DelimitedStep(t, d, i, m, j, x), DelimitedStep(t, d, i, m, k, y)
  PROVE  j = k /\ x = y
<1>1. PICK n \in DOMAIN Cases[t], at \in Nat, b \in Seq(Byte) :
        /\ TagAt(d, i, n, 2, at) /\ ValueAt(d, at, b, j)
        /\ x = [m EXCEPT ![Cases[t][n][2]] = Store(Cases[t][n][1], m[Cases[t][n][2]], b)]
  BY Zenon DEF DelimitedStep
<1>2. PICK o \in DOMAIN Cases[t], bt \in Nat, c \in Seq(Byte) :
        /\ TagAt(d, i, o, 2, bt) /\ ValueAt(d, bt, c, k)
        /\ y = [m EXCEPT ![Cases[t][o][2]] = Store(Cases[t][o][1], m[Cases[t][o][2]], c)]
  BY Zenon DEF DelimitedStep
<1>3. n = o /\ at = bt BY <1>1, <1>2, Zenon DEF TagAt
<1>4. j = k /\ b = c BY <1>1, <1>2, <1>3, Zenon DEF ValueAt
<1> QED BY <1>1, <1>2, <1>3, <1>4

\* A number is read in one way.
LEMMA NumberSame ==
  ASSUME NEW t, NEW d, NEW i, NEW m, NEW j, NEW x, NEW k, NEW y,
         NumberStep(t, d, i, m, j, x), NumberStep(t, d, i, m, k, y)
  PROVE  j = k /\ x = y
<1>1. PICK n \in DOMAIN Cases[t], at \in Nat :
        /\ TagAt(d, i, n, 0, at) /\ ReadVarint(d, at).next = j
        /\ x = [m EXCEPT ![Cases[t][n][2]] = Number(Structs[t][Cases[t][n][2]], ReadVarint(d, at).val)]
  BY Zenon DEF NumberStep
<1>2. PICK o \in DOMAIN Cases[t], bt \in Nat :
        /\ TagAt(d, i, o, 0, bt) /\ ReadVarint(d, bt).next = k
        /\ y = [m EXCEPT ![Cases[t][o][2]] = Number(Structs[t][Cases[t][o][2]], ReadVarint(d, bt).val)]
  BY Zenon DEF NumberStep
<1>3. n = o /\ at = bt BY <1>1, <1>2, Zenon DEF TagAt
<1> QED BY <1>1, <1>2, <1>3

\* The tag tells which of the three kinds of step it is.
LEMMA TagsTell ==
  ASSUME NEW t, NEW d, NEW i, NEW m
  PROVE  /\ \A j, x, k, y : ~ (DelimitedStep(t, d, i, m, j, x) /\ NumberStep(t, d, i, m, k, y))
         /\ \A j, x : ~ (DelimitedStep(t, d, i, m, j, x) /\ SkipStarts(t, d, i))
         /\ \A k, y : ~ (NumberStep(t, d, i, m, k, y) /\ SkipStarts(t, d, i))
<1> DEFINE fn == FieldNumber(ReadVarint(d, i).val)
<1>1. ASSUME NEW j, NEW x, DelimitedStep(t, d, i, m, j, x)
      PROVE  fn \in DOMAIN Cases[t] /\ Cases[t][fn][1] # "varint"
  <2>1. PICK n \in DOMAIN Cases[t], at \in Nat : TagAt(d, i, n, 2, at) /\ Cases[t][n][1] # "varint"
    BY <1>1, Zenon DEF DelimitedStep
  <2>2. fn = n BY <2>1 DEF TagAt
  <2> QED BY <2>1, <2>2
<1>2. ASSUME NEW j, NEW x, NumberStep(t, d, i, m, j, x)
      PROVE  fn \in DOMAIN Cases[t] /\ Cases[t][fn][1] = "varint"
  <2>1. PICK n \in DOMAIN Cases[t], at \in Nat : TagAt(d, i, n, 0, at) /\ Cases[t][n][1] = "varint"
    BY <1>2, Zenon DEF NumberStep
  <2>2. fn = n BY <2>1 DEF TagAt
  <2> QED BY <2>1, <2>2
<1>3. ASSUME SkipStarts(t, d, i) PROVE fn \notin DOMAIN Cases[t]
  <2>1. PICK n \in Int, wt \in 0..7, at \in Nat : TagAt(d, i, n, wt, at) /\ n \notin DOMAIN Cases[t]
    BY <1>3, Zenon DEF SkipStarts
  <2>2. fn = n BY <2>1 DEF TagAt
  <2> QED BY <2>1, <2>2
<1> HIDE DEF fn
<1> QED BY <1>1, <1>2, <1>3

\* Unmarshal and skipTx are deterministic.
LEMMA StepsSame ==
  ASSUME NEW t, NEW d, NEW s, NEW y, NEW z, Steps(t, d, s, y), Steps(t, d, s, z)
  PROVE  y = z
<1> DEFINE i == s[2]
           m == s[3]
           A(p) == DelimitedStep(t, d, i, m, p[2], p[3]) /\ p = Dec(p[2], p[3])
           B(p) == NumberStep(t, d, i, m, p[2], p[3]) /\ p = Dec(p[2], p[3])
           C(p) == SkipStarts(t, d, i) /\ p = Skp(i, m, 0, 0)
<1>1. CASE s[1] = "decoding"
  <2>1. (A(y) \/ B(y) \/ C(y)) /\ (A(z) \/ B(z) \/ C(z)) BY <1>1 DEF Steps
  <2>2. CASE A(y) /\ A(z)
    <3>1. y[2] = z[2] /\ y[3] = z[3] BY <2>2, DelimitedSame
    <3>2. y = Dec(y[2], y[3]) /\ z = Dec(z[2], z[3]) BY <2>2
    <3> QED BY <3>1, <3>2, Zenon
  <2>3. CASE B(y) /\ B(z)
    <3>1. y[2] = z[2] /\ y[3] = z[3] BY <2>3, NumberSame
    <3>2. y = Dec(y[2], y[3]) /\ z = Dec(z[2], z[3]) BY <2>3
    <3> QED BY <3>1, <3>2, Zenon
  <2>4. CASE C(y) /\ C(z) BY <2>4
  <2> HIDE DEF i, m
  <2>5. ~ (A(y) /\ B(z)) /\ ~ (A(z) /\ B(y)) BY TagsTell
  <2>6. ~ (A(y) /\ C(z)) /\ ~ (A(z) /\ C(y)) BY TagsTell
  <2>7. ~ (B(y) /\ C(z)) /\ ~ (B(z) /\ C(y)) BY TagsTell
  <2> HIDE DEF A, B, C
  <2> QED BY <2>1, <2>2, <2>3, <2>4, <2>5, <2>6, <2>7
<1>2. CASE s[1] = "skipping"
  <2>1. SkipsOn(d, s, y) /\ SkipsOn(d, s, z) BY <1>2 DEF Steps
  <2> DEFINE run == SkipOnce(Rest(d, i), s[4], s[5])
  <2>2. \/ run.val # 0 /\ y = Skp(i, m, run.next, run.val)
        \/ run.val = 0 /\ y = Dec(i + run.next, m)
    BY <2>1, Zenon DEF SkipsOn
  <2>3. \/ run.val # 0 /\ z = Skp(i, m, run.next, run.val)
        \/ run.val = 0 /\ z = Dec(i + run.next, m)
    BY <2>1, Zenon DEF SkipsOn
  <2>4. y = (IF run.val # 0 THEN Skp(i, m, run.next, run.val) ELSE Dec(i + run.next, m))
    <3> HIDE DEF run, i, m
    <3> QED BY <2>2
  <2>5. z = (IF run.val # 0 THEN Skp(i, m, run.next, run.val) ELSE Dec(i + run.next, m))
    <3> HIDE DEF run, i, m
    <3> QED BY <2>3
  <2> HIDE DEF run, i, m
  <2> QED BY <2>4, <2>5
<1> QED BY <1>1, <1>2 DEF Steps

-----------------------------------------------------------------------------
(* The actions of the decoder are its steps. *)

Decoder == IF status = "decoding" THEN Dec(index, message) ELSE Skp(index, message, offset, depth)

\* A decoder that refuses a buffer could not have gone on.
Stuck(t, d, s) == ~ \E z : Steps(t, d, s, z)

DecoderSteps ==
  \/ status' = "malformed" /\ Stuck(kind, data, Decoder)
  \/ status' \in {"decoding", "skipping"} /\ Steps(kind, data, Decoder, Decoder')

\* No step from a state of Unmarshal's loop.
LEMMA DecodingStuck ==
  ASSUME NEW t, NEW d, NEW i, NEW m,
         \A j, x : ~ DelimitedStep(t, d, i, m, j, x), \A j, x : ~ NumberStep(t, d, i, m, j, x),
         ~ SkipStarts(t, d, i)
  PROVE  Stuck(t, d, Dec(i, m))
<1> DEFINE s == Dec(i, m)
<1>1. s[1] = "decoding" /\ s[2] = i /\ s[3] = m BY SkpParts
<1>2. s[1] # "skipping" BY <1>1
<1> HIDE DEF s
<1>3. ASSUME NEW z, Steps(t, d, s, z) PROVE FALSE
  <2>1. \/ DelimitedStep(t, d, s[2], s[3], z[2], z[3])
        \/ NumberStep(t, d, s[2], s[3], z[2], z[3])
        \/ SkipStarts(t, d, s[2])
    BY <1>2, <1>3, Zenon DEF Steps
  <2> QED BY <1>1, <2>1
<1> QED BY <1>3 DEF Stuck, s

\* Every run of Unmarshal's loop is a step of the decoder, or there is none.
LEMMA UnmarshalFieldSteps ==
  ASSUME WireInv, BufferFits, UnmarshalField
  PROVE  DecoderSteps
<1> DEFINE tag == ReadVarint(data, index)
           fieldNum == FieldNumber(tag.val)
           wireType == tag.val % 8
           case == Cases[kind][fieldNum]
<1>1. /\ kind \in DOMAIN Structs /\ data \in Seq(Byte) /\ Len(data) \in Nat /\ index \in Nat
      /\ Len(data) <= MaxInt /\ status = "decoding" /\ index < Len(data)
      /\ UNCHANGED <<kind, data>>
  BY DEF WireInv, WireTypes, BufferFits, UnmarshalField
<1>2. Decoder = Dec(index, message) BY <1>1 DEF Decoder
<1>3. /\ Dec(index, message)[1] = "decoding" /\ Dec(index, message)[2] = index
      /\ Dec(index, message)[3] = message
  BY SkpParts
<1>4. \A n, wt, at : TagAt(data, index, n, wt, at) <=>
        tag.err = "none" /\ fieldNum = n /\ wireType = wt /\ tag.next = at
  BY Zenon DEF TagAt
<1>5. tag.err = "none" => tag.next \in Nat /\ tag.val \in Nat BY <1>1, ReadVarintTyped, WordTyped
<1>50. tag.err = "none" => wireType \in 0..7 /\ fieldNum \in Int
  <2> SUFFICES ASSUME tag.err = "none" PROVE wireType \in 0..7 /\ fieldNum \in Int OBVIOUS
  <2>1. tag.val \in Nat BY <1>5
  <2> DEFINE x == tag.val
             y == x \div 8
  <2>2. x \in Nat BY <2>1
  <2> HIDE DEF x
  <2>3. x % 8 \in 0..7 /\ x \div 8 \in Int BY <2>2
  <2>4. Signed(y, HalfBits) \in Int BY <2>3, SignedHalf, WordTyped
  <2> QED BY <2>3, <2>4 DEF FieldNumber, x
<1>6. IF tag.err # "none" \/ wireType = 4 \/ fieldNum <= 0
      THEN Refuse("malformed") /\ UNCHANGED skipVars
      ELSE IF fieldNum \notin DOMAIN Cases[kind]
      THEN SkipUnknown
      ELSE IF wireType # (IF case[1] = "varint" THEN 0 ELSE 2)
      THEN Refuse("malformed") /\ UNCHANGED skipVars
      ELSE IF case[1] = "varint"
      THEN ReadNumber(case[2], tag.next) /\ UNCHANGED skipVars
      ELSE ReadDelimited(case[1], case[2], tag.next) /\ UNCHANGED skipVars
  BY Zenon DEF UnmarshalField
<1> HIDE DEF tag, fieldNum, wireType, case
<1>7. ASSUME NEW j, NEW x, DelimitedStep(kind, data, index, message, j, x)
      PROVE  /\ tag.err = "none" /\ fieldNum \in DOMAIN Cases[kind] /\ wireType = 2 /\ fieldNum > 0
             /\ case[1] # "varint"
             /\ \E b : /\ ValueAt(data, tag.next, b, j)
                       /\ case[1] \in {"merge", "allocate", "appendMessage"} => Decodes(b)
  <2>1. PICK n \in DOMAIN Cases[kind], at \in Nat, b \in Seq(Byte) :
          /\ TagAt(data, index, n, 2, at) /\ Cases[kind][n][1] # "varint" /\ n > 0
          /\ ValueAt(data, at, b, j)
          /\ Cases[kind][n][1] \in {"merge", "allocate", "appendMessage"} => Decodes(b)
    BY <1>7, Zenon DEF DelimitedStep
  <2>2. tag.err = "none" /\ fieldNum = n /\ wireType = 2 /\ tag.next = at BY <1>4, <2>1
  <2> QED BY <2>1, <2>2 DEF case
<1>8. ASSUME NEW j, NEW x, NumberStep(kind, data, index, message, j, x)
      PROVE  /\ tag.err = "none" /\ fieldNum \in DOMAIN Cases[kind] /\ wireType = 0 /\ fieldNum > 0
             /\ case[1] = "varint" /\ ReadVarint(data, tag.next).err = "none"
  <2>1. PICK n \in DOMAIN Cases[kind], at \in Nat :
          /\ TagAt(data, index, n, 0, at) /\ Cases[kind][n][1] = "varint" /\ n > 0
          /\ ReadVarint(data, at).err = "none"
    BY <1>8, Zenon DEF NumberStep
  <2>2. tag.err = "none" /\ fieldNum = n /\ wireType = 0 /\ tag.next = at BY <1>4, <2>1
  <2> QED BY <2>1, <2>2 DEF case
<1>9. SkipStarts(kind, data, index) <=>
        /\ tag.err = "none" /\ wireType # 4 /\ fieldNum > 0 /\ fieldNum \notin DOMAIN Cases[kind]
  <2>1. ASSUME SkipStarts(kind, data, index)
        PROVE  tag.err = "none" /\ wireType # 4 /\ fieldNum > 0 /\ fieldNum \notin DOMAIN Cases[kind]
    <3>1. PICK n \in Int, wt \in 0..7, at \in Nat :
            TagAt(data, index, n, wt, at) /\ wt # 4 /\ n > 0 /\ n \notin DOMAIN Cases[kind]
      BY <2>1, Zenon DEF SkipStarts
    <3> QED BY <1>4, <3>1
  <2>2. ASSUME tag.err = "none", wireType # 4, fieldNum > 0, fieldNum \notin DOMAIN Cases[kind]
        PROVE  SkipStarts(kind, data, index)
    <3>1. TagAt(data, index, fieldNum, wireType, tag.next) BY <1>4, <2>2
    <3>2. fieldNum \in Int /\ wireType \in 0..7 /\ tag.next \in Nat BY <1>5, <1>50, <2>2
    <3> QED BY <2>2, <3>1, <3>2, Zenon DEF SkipStarts
  <2> QED BY <2>1, <2>2
<1>10. CASE tag.err # "none" \/ wireType = 4 \/ fieldNum <= 0
  <2>1. status' = "malformed" BY <1>6, <1>10 DEF Refuse
  <2>0. ~ (tag.err = "none" /\ wireType # 4 /\ fieldNum > 0)
    <3>1. tag.err = "none" /\ fieldNum <= 0 => ~ (fieldNum > 0) BY <1>50
    <3> QED BY <1>10, <3>1
  <2>2. \A j, x : ~ DelimitedStep(kind, data, index, message, j, x) BY <1>7, <2>0
  <2>3. \A j, x : ~ NumberStep(kind, data, index, message, j, x) BY <1>8, <2>0
  <2>4. ~ SkipStarts(kind, data, index) BY <1>9, <2>0
  <2>5. Stuck(kind, data, Dec(index, message)) BY <2>2, <2>3, <2>4, DecodingStuck
  <2> QED BY <1>2, <2>1, <2>5 DEF DecoderSteps
<1>11. CASE /\ tag.err = "none" /\ wireType # 4 /\ ~ (fieldNum <= 0)
            /\ fieldNum \notin DOMAIN Cases[kind]
  <2>0. fieldNum > 0 BY <1>11, <1>50
  <2>1. SkipUnknown BY <1>6, <1>11
  <2>2. status' = "skipping" /\ Decoder' = Skp(index, message, 0, 0)
    BY <2>1 DEF SkipUnknown, Decoder
  <2>3. SkipStarts(kind, data, index) BY <1>9, <1>11, <2>0
  <2>4. Steps(kind, data, Dec(index, message), Skp(index, message, 0, 0))
    BY <1>1, <1>3, <2>3 DEF Steps
  <2> QED BY <1>2, <2>2, <2>4 DEF DecoderSteps
<1>12. CASE /\ tag.err = "none" /\ wireType # 4 /\ ~ (fieldNum <= 0)
            /\ fieldNum \in DOMAIN Cases[kind] /\ wireType # (IF case[1] = "varint" THEN 0 ELSE 2)
  <2>1. status' = "malformed" BY <1>6, <1>12 DEF Refuse
  <2>2. \A j, x : ~ DelimitedStep(kind, data, index, message, j, x) BY <1>7, <1>12
  <2>3. \A j, x : ~ NumberStep(kind, data, index, message, j, x) BY <1>8, <1>12
  <2>4. ~ SkipStarts(kind, data, index) BY <1>9, <1>12
  <2>5. Stuck(kind, data, Dec(index, message)) BY <2>2, <2>3, <2>4, DecodingStuck
  <2> QED BY <1>2, <2>1, <2>5 DEF DecoderSteps
<1>13. CASE /\ tag.err = "none" /\ wireType # 4 /\ ~ (fieldNum <= 0)
            /\ fieldNum \in DOMAIN Cases[kind] /\ wireType = 0 /\ case[1] = "varint"
  <2> DEFINE at == tag.next
             f == case[2]
             r == ReadVarint(data, at)
             x == [message EXCEPT ![f] = Number(Structs[kind][f], r.val)]
  <2>0. fieldNum > 0 /\ at \in Nat BY <1>5, <1>13, <1>50
  <2>1. ReadNumber(f, at) BY <1>6, <1>13
  <2>2. CASE r.err # "none"
    <3>1. status' = "malformed" BY <2>1, <2>2 DEF ReadNumber, Refuse
    <3>2. \A j, y : ~ DelimitedStep(kind, data, index, message, j, y) BY <1>7, <1>13
    <3>3. \A j, y : ~ NumberStep(kind, data, index, message, j, y) BY <1>8, <2>2
    <3>4. ~ SkipStarts(kind, data, index) BY <1>9, <1>13
    <3>5. Stuck(kind, data, Dec(index, message)) BY <3>2, <3>3, <3>4, DecodingStuck
    <3> QED BY <1>2, <3>1, <3>5 DEF DecoderSteps
  <2>3. CASE r.err = "none"
    <3>1. message' = x /\ index' = r.next /\ UNCHANGED status
      BY <2>1, <2>3 DEF ReadNumber, Number
    <3>2. TagAt(data, index, fieldNum, 0, at) BY <1>4, <1>13
    <3>3. NumberStep(kind, data, index, message, r.next, x)
      BY <1>13, <2>0, <2>3, <3>2, Zenon DEF NumberStep, case
    <3>4. Decoder' = Dec(r.next, x) BY <1>1, <3>1 DEF Decoder
    <3> HIDE DEF x, r
    <3>5. Dec(r.next, x)[2] = r.next /\ Dec(r.next, x)[3] = x BY SkpParts
    <3>6. Steps(kind, data, Dec(index, message), Dec(r.next, x)) BY <1>1, <1>3, <3>3, <3>5 DEF Steps
    <3> QED BY <1>1, <1>2, <3>1, <3>4, <3>6 DEF DecoderSteps
  <2> QED BY <2>2, <2>3
<1>14. CASE /\ tag.err = "none" /\ wireType # 4 /\ ~ (fieldNum <= 0)
            /\ fieldNum \in DOMAIN Cases[kind] /\ wireType = 2 /\ case[1] # "varint"
  <2> DEFINE at == tag.next
             how == case[1]
             f == case[2]
             r == ReadLength(data, at)
             value == SubSeq(data, r.next + 1, r.val)
             x == [message EXCEPT ![f] = Store(how, message[f], value)]
  <2>0. fieldNum > 0 /\ at \in Nat BY <1>5, <1>14, <1>50
  <2>1. ReadDelimited(how, f, at) BY <1>6, <1>14
  <2>2. r.err = "none" => /\ r.next \in Nat /\ r.val \in Nat /\ r.next <= r.val
    BY <1>1, <2>0, ReadLengthTyped, WordTyped
  <2>3. \A j, b : ValueAt(data, at, b, j) => r.err = "none" /\ r.val = j /\ j <= Len(data) /\ b = value
    BY Zenon DEF ValueAt
  <2>4. CASE \/ r.err # "none" \/ r.val > Len(data)
             \/ how \in {"merge", "allocate", "appendMessage"} /\ ~ Decodes(value)
    <3>1. status' = "malformed"
      <4>1. CASE r.err # "none" \/ r.val > Len(data) BY <2>1, <4>1 DEF ReadDelimited, Refuse
      <4>2. CASE ~ (r.err # "none" \/ r.val > Len(data))
        <5>1. Sliceable(data, r.next, r.val)
          <6> HIDE DEF r
          <6> QED BY <1>1, <2>2, <4>2 DEF Sliceable
        <5>2. Refuse("malformed") BY <2>1, <2>4, <4>2, <5>1 DEF ReadDelimited
        <5> QED BY <5>2 DEF Refuse
      <4> QED BY <4>1, <4>2
    <3>2. \A j, y : ~ DelimitedStep(kind, data, index, message, j, y)
      <4> SUFFICES ASSUME NEW j, NEW y, DelimitedStep(kind, data, index, message, j, y) PROVE FALSE
        OBVIOUS
      <4>1. PICK b : /\ ValueAt(data, at, b, j)
                     /\ how \in {"merge", "allocate", "appendMessage"} => Decodes(b)
        BY <1>7
      <4>2. r.err = "none" /\ r.val = j /\ j <= Len(data) /\ b = value BY <2>3, <4>1
      <4>3. r.val \in Nat BY <2>2, <4>2
      <4> HIDE DEF r, value, how
      <4>4. ~ (r.val > Len(data)) BY <1>1, <4>2, <4>3
      <4> QED BY <2>4, <4>1, <4>2, <4>4
    <3>3. \A j, y : ~ NumberStep(kind, data, index, message, j, y) BY <1>8, <1>14
    <3>4. ~ SkipStarts(kind, data, index) BY <1>9, <1>14
    <3>5. Stuck(kind, data, Dec(index, message)) BY <3>2, <3>3, <3>4, DecodingStuck
    <3> QED BY <1>2, <3>1, <3>5 DEF DecoderSteps
  <2>5. CASE /\ r.err = "none" /\ ~ (r.val > Len(data))
             /\ how \in {"merge", "allocate", "appendMessage"} => Decodes(value)
    <3>0. Sliceable(data, r.next, r.val) /\ r.val <= Len(data)
      <4>1. r.err = "none" /\ ~ (r.val > Len(data)) BY <2>5
      <4> HIDE DEF r
      <4> QED BY <1>1, <2>2, <4>1 DEF Sliceable
    <3>1. message' = x /\ index' = r.val /\ UNCHANGED status
      BY <2>1, <2>5, <3>0 DEF ReadDelimited
    <3>2. TagAt(data, index, fieldNum, 2, at) BY <1>4, <1>14
    <3>3. ValueAt(data, at, value, r.val) BY <2>5, <3>0 DEF ValueAt
    <3>4. value \in Seq(Byte)
      <4>1. r.next \in Nat /\ r.val \in Nat /\ r.val <= Len(data) BY <2>2, <2>5, <3>0
      <4> HIDE DEF r
      <4>2. \A k \in (r.next + 1)..r.val : k \in 1..Len(data) BY <1>1, <4>1
      <4>3. \A k \in (r.next + 1)..r.val : data[k] \in Byte BY <1>1, <4>2
      <4>4. r.next + 1 \in Int /\ r.val \in Int BY <4>1
      <4> QED BY <4>3, <4>4, SubSeqProperties
    <3>5. how \in {"merge", "allocate", "appendMessage"} => Decodes(value) BY <2>5
    <3>6. x = [message EXCEPT ![f] = Store(how, message[f], value)] OBVIOUS
    <3>7. Decoder' = Dec(r.val, x) BY <1>1, <3>1 DEF Decoder
    <3> HIDE DEF x, value, r
    <3>8. DelimitedStep(kind, data, index, message, r.val, x)
      BY <1>14, <2>0, <3>2, <3>3, <3>4, <3>5, <3>6, Zenon DEF DelimitedStep, case
    <3>9. Dec(r.val, x)[2] = r.val /\ Dec(r.val, x)[3] = x BY SkpParts
    <3>10. Steps(kind, data, Dec(index, message), Dec(r.val, x)) BY <1>1, <1>3, <3>8, <3>9 DEF Steps
    <3> QED BY <1>1, <1>2, <3>1, <3>7, <3>10 DEF DecoderSteps
  <2> QED BY <2>4, <2>5
<1> QED BY <1>10, <1>11, <1>12, <1>13, <1>14, Zenon

\* An index that fits is advanced.
LEMMA AdvanceExact ==
  ASSUME NEW i \in 0..MaxInt, NEW n \in 0..MaxInt, i + n <= MaxInt
  PROVE  Advance(i, n).err = "none"
<1>1. i + n \in 0..(Pow2[WordBits] - 1) BY WordTyped
<1>2. Signed(i + n, WordBits) = i + n BY <1>1, SignedWord
<1>3. ~ (Signed(i + n, WordBits) < 0) BY <1>1, <1>2, WordTyped
<1> QED BY <1>3 DEF Advance, Read

\* No step from a state of skipTx's loop.
LEMMA SkippingStuck ==
  ASSUME NEW t, NEW d, NEW i, NEW m, NEW o, NEW k,
         \A z : ~ (i + o < Len(d) /\ SkipsOn(d, Skp(i, m, o, k), z))
  PROVE  Stuck(t, d, Skp(i, m, o, k))
<1> DEFINE s == Skp(i, m, o, k)
<1>1. s[1] = "skipping" /\ s[2] = i /\ s[4] = o BY SkpParts
<1>2. s[1] # "decoding" BY <1>1
<1>3. \A z : ~ (s[2] + s[4] < Len(d) /\ SkipsOn(d, s, z)) BY <1>1
<1> HIDE DEF s
<1>4. ASSUME NEW z, Steps(t, d, s, z) PROVE FALSE
  <2>1. s[2] + s[4] < Len(d) /\ SkipsOn(d, s, z) BY <1>2, <1>4, Zenon DEF Steps
  <2> QED BY <1>3, <2>1
<1> QED BY <1>4 DEF Stuck, s

\* What SkipsOn says of a state of skipTx.
LEMMA SkipsOnIs ==
  ASSUME NEW d, NEW i, NEW m, NEW o, NEW k, NEW z
  PROVE  LET run == SkipOnce(Rest(d, i), o, k) IN
         SkipsOn(d, Skp(i, m, o, k), z) <=>
           /\ run.err = "none"
           /\ \/ run.val # 0 /\ z = Skp(i, m, run.next, run.val)
              \/ run.val = 0 /\ i + run.next <= Len(d) /\ z = Dec(i + run.next, m)
<1> DEFINE s == Skp(i, m, o, k)
<1>1. s[2] = i /\ s[3] = m /\ s[4] = o /\ s[5] = k BY SkpParts
<1> HIDE DEF s
<1>2. LET run == SkipOnce(Rest(d, s[2]), s[4], s[5]) IN
         SkipsOn(d, s, z) <=>
           /\ run.err = "none"
           /\ \/ run.val # 0 /\ z = Skp(s[2], s[3], run.next, run.val)
              \/ run.val = 0 /\ s[2] + run.next <= Len(d) /\ z = Dec(s[2] + run.next, s[3])
  BY Zenon DEF SkipsOn
<1>3. QED BY <1>1, <1>2 DEF s

\* Every run of skipTx's loop is a step of the decoder, or there is none.
LEMMA SkipFieldSteps ==
  ASSUME WireInv, BufferFits, SkipField
  PROVE  DecoderSteps
<1> DEFINE rest == Rest(data, index)
           run == SkipOnce(rest, offset, depth)
<1>1. /\ data \in Seq(Byte) /\ Len(data) \in Nat /\ index \in Nat /\ offset \in Nat /\ depth \in Nat
      /\ Len(data) <= MaxInt /\ status = "skipping" /\ index + offset < Len(data) /\ index < Len(data)
      /\ UNCHANGED <<kind, data, message>>
  BY DEF WireInv, WireTypes, RunsPaid, BufferFits, SkipField
<1>2. Decoder = Skp(index, message, offset, depth) BY <1>1 DEF Decoder
<1>3. rest \in Seq(Byte) /\ Len(rest) <= MaxInt
  <2>1. rest \in Seq(Byte) /\ Len(rest) = Len(data) - index BY <1>1, RestIs
  <2> HIDE DEF rest
  <2> QED BY <1>1, <2>1, WordTyped
<1>4. run.err = "none" => /\ run.val \in Nat /\ run.next \in Nat /\ run.next <= MaxInt
  <2> HIDE DEF rest
  <2> QED BY <1>1, <1>3, SkipOnceTyped
<1>5. IF run.err # "none"
      THEN status' = "malformed" /\ UNCHANGED <<index, skipVars>>
      ELSE /\ offset' = run.next /\ depth' = run.val
           /\ IF run.val = 0 THEN Skipped(run.next) ELSE UNCHANGED <<index, status>>
  BY Zenon DEF SkipField, Rest
<1>6. \A z : SkipsOn(data, Skp(index, message, offset, depth), z) <=>
         /\ run.err = "none"
         /\ \/ run.val # 0 /\ z = Skp(index, message, run.next, run.val)
            \/ run.val = 0 /\ index + run.next <= Len(data) /\ z = Dec(index + run.next, message)
  BY SkipsOnIs
<1>7. \A z : SkipsOn(data, Skp(index, message, offset, depth), z) =>
               Steps(kind, data, Skp(index, message, offset, depth), z)
  <2> DEFINE s == Skp(index, message, offset, depth)
  <2>1. s[1] = "skipping" /\ s[2] = index /\ s[4] = offset BY SkpParts
  <2> HIDE DEF s
  <2>2. \A z : SkipsOn(data, s, z) => Steps(kind, data, s, z) BY <1>1, <2>1 DEF Steps
  <2> QED BY <2>2 DEF s
<1> HIDE DEF run, rest
<1>8. CASE run.err # "none"
  <2>1. status' = "malformed" BY <1>5, <1>8
  <2>2. Stuck(kind, data, Skp(index, message, offset, depth)) BY <1>6, <1>8, SkippingStuck
  <2> QED BY <1>2, <2>1, <2>2 DEF DecoderSteps
<1>9. CASE run.err = "none" /\ run.val # 0
  <2>1. status' = "skipping" /\ index' = index /\ offset' = run.next /\ depth' = run.val
    BY <1>1, <1>5, <1>9
  <2>2. Decoder' = Skp(index, message, run.next, run.val) BY <1>1, <2>1 DEF Decoder
  <2>3. SkipsOn(data, Skp(index, message, offset, depth), Skp(index, message, run.next, run.val))
    BY <1>6, <1>9
  <2>4. Steps(kind, data, Skp(index, message, offset, depth), Skp(index, message, run.next, run.val))
    BY <1>7, <2>3
  <2> QED BY <1>2, <2>1, <2>2, <2>4 DEF DecoderSteps
<1>10. CASE run.err = "none" /\ run.val = 0
  <2> DEFINE n == run.next
             post == Advance(index, n)
  <2>1. Skipped(n) BY <1>5, <1>10
  <2>2. n \in 0..MaxInt /\ index \in 0..MaxInt BY <1>1, <1>4, <1>10, WordTyped
  <2>3. IF post.err # "none" \/ post.val > Len(data)
        THEN status' = "malformed" /\ UNCHANGED index
        ELSE status' = "decoding" /\ index' = post.val
    BY <2>1, Zenon DEF Skipped
  <2>4. post.err = "none" => post.val = index + n BY <2>2, AdvanceTyped
  <2>5. index + n <= MaxInt => post.err = "none" BY <2>2, AdvanceExact
  <2> HIDE DEF post
  <2>6. CASE index + n <= Len(data)
    <3>1. post.err = "none" /\ post.val = index + n
      <4>1. index + n <= MaxInt BY <1>1, <2>2, <2>6, WordTyped
      <4> QED BY <4>1, <2>4, <2>5
    <3>2. ~ (post.val > Len(data)) BY <1>1, <2>2, <2>6, <3>1
    <3>3. status' = "decoding" /\ index' = index + n BY <2>3, <3>1, <3>2
    <3>4. Decoder' = Dec(index + n, message) BY <1>1, <3>3 DEF Decoder
    <3>5. SkipsOn(data, Skp(index, message, offset, depth), Dec(index + n, message))
      BY <1>6, <1>10, <2>6
    <3>6. Steps(kind, data, Skp(index, message, offset, depth), Dec(index + n, message))
      BY <1>7, <3>5
    <3> QED BY <1>2, <3>3, <3>4, <3>6 DEF DecoderSteps
  <2>7. CASE ~ (index + n <= Len(data))
    <3>1. post.err # "none" \/ post.val > Len(data) BY <1>1, <2>2, <2>4, <2>7
    <3>2. status' = "malformed" BY <2>3, <3>1
    <3>3. \A z : ~ SkipsOn(data, Skp(index, message, offset, depth), z) BY <1>6, <1>10, <2>7
    <3>4. Stuck(kind, data, Skp(index, message, offset, depth)) BY <3>3, SkippingStuck
    <3> QED BY <1>2, <3>2, <3>4 DEF DecoderSteps
  <2> QED BY <2>6, <2>7
<1> QED BY <1>8, <1>9, <1>10

\* At the end of the buffer there is none.
LEMMA SkipEndSteps ==
  ASSUME WireInv, SkipEnd
  PROVE  DecoderSteps
<1>1. /\ Len(data) \in Nat /\ index \in Nat /\ offset \in Nat
      /\ status = "skipping" /\ index + offset >= Len(data) /\ status' = "malformed"
  BY DEF WireInv, WireTypes, SkipEnd
<1>2. Decoder = Skp(index, message, offset, depth) BY <1>1 DEF Decoder
<1>3. ~ (index + offset < Len(data)) BY <1>1
<1>4. Stuck(kind, data, Skp(index, message, offset, depth)) BY <1>3, SkippingStuck
<1> QED BY <1>1, <1>2, <1>4 DEF DecoderSteps

-----------------------------------------------------------------------------
(* Embedded messages stay decodable. *)

\* The value of a field that the case `how` stores into is one that its own Unmarshal takes.
DecodesAs(how, v) ==
  /\ how = "merge" => Decodes(v)
  /\ how \in {"allocate", "appendMessage"} => \A i \in DOMAIN v : Decodes(v[i])

\* Decodable, field by field.
LEMMA DecodableIs ==
  ASSUME NEW t, NEW m
  PROVE  Decodable(t, m) <=> \A n \in DOMAIN Cases[t] : DecodesAs(Cases[t][n][1], m[Cases[t][n][2]])
BY Zenon DEF Decodable, DecodesAs

\* Two decodable messages, merged.
LEMMA DecodesJoin ==
  ASSUME NEW a \in Seq(Byte), NEW b \in Seq(Byte), Decodes(a), Decodes(b)
  PROVE  Decodes(a \o b)
<1> DEFINE e == a \o b
<1>1. DOMAIN e = 1..(Len(a) + Len(b)) /\ Len(a) \in Nat /\ Len(b) \in Nat OBVIOUS
<1>2. DOMAIN a = 1..Len(a) /\ DOMAIN b = 1..Len(b) OBVIOUS
<1>3. \A i \in 1..(Len(a) + Len(b)) : e[i] = IF i <= Len(a) THEN a[i] ELSE b[i - Len(a)]
  BY ConcatProperties
<1>4. ASSUME NEW i \in DOMAIN e PROVE e[i] # Corrupt
  <2>1. i \in Int /\ 1 <= i /\ i <= Len(a) + Len(b) BY <1>1
  <2>2. CASE i <= Len(a)
    <3>1. i \in DOMAIN a /\ e[i] = a[i] BY <1>1, <1>2, <1>3, <2>1, <2>2
    <3> QED BY <3>1 DEF Decodes
  <2>3. CASE ~ (i <= Len(a))
    <3>1. i - Len(a) \in DOMAIN b /\ e[i] = b[i - Len(a)] BY <1>1, <1>2, <1>3, <2>1, <2>3
    <3> QED BY <3>1 DEF Decodes
  <2> QED BY <2>2, <2>3
<1> QED BY <1>4 DEF Decodes

\* What the switch stores is decodable when what it stores into, and what it read, are.
LEMMA StoreDecodes ==
  ASSUME NEW how, NEW type, Suits(how, type), NEW n \in Nat, NEW old \in FieldValues(type, n),
         DecodesAs(how, old), NEW b \in Seq(Byte),
         how \in {"merge", "allocate", "appendMessage"} => Decodes(b)
  PROVE  DecodesAs(how, Store(how, old, b))
<1>1. CASE how = "merge"
  <2>1. type = "message" BY <1>1 DEF Suits
  <2>2. old \in Seq(Byte) BY <2>1 DEF FieldValues, Slices
  <2>3. Decodes(old) /\ Decodes(b) BY <1>1 DEF DecodesAs
  <2>4. Store(how, old, b) = old \o b BY <1>1 DEF Store
  <2>5. Decodes(old \o b) BY <2>2, <2>3, DecodesJoin
  <2> QED BY <1>1, <2>4, <2>5 DEF DecodesAs
<1>2. CASE how = "allocate"
  <2>1. type = "pointer" BY <1>2 DEF Suits
  <2>2. old \in Seq(Slices(n)) /\ Len(old) <= 1 BY <2>1 DEF FieldValues
  <2> DEFINE x == IF old = <<>> THEN b ELSE old[1] \o b
  <2>3. Store(how, old, b) = <<x>> BY <1>2 DEF Store
  <2>4. Decodes(b) BY <1>2
  <2>5. Decodes(x)
    <3>1. CASE old = <<>> BY <2>4, <3>1
    <3>2. CASE old # <<>>
      <4>1. Len(old) = 1 /\ old[1] \in Slices(n) /\ 1 \in DOMAIN old BY <2>2, <3>2, Single
      <4>2. old[1] \in Seq(Byte) BY <4>1 DEF Slices
      <4>3. Decodes(old[1]) BY <1>2, <4>1 DEF DecodesAs
      <4> QED BY <2>4, <3>2, <4>2, <4>3, DecodesJoin
    <3> QED BY <3>1, <3>2
  <2> HIDE DEF x
  <2>6. \A i \in DOMAIN <<x>> : <<x>>[i] = x OBVIOUS
  <2>7. \A i \in DOMAIN <<x>> : Decodes(<<x>>[i]) BY <2>5, <2>6
  <2> QED BY <1>2, <2>3, <2>7 DEF DecodesAs
<1>3. CASE how = "appendMessage"
  <2>1. type = "repeated" BY <1>3 DEF Suits
  <2>2. old \in Seq(Slices(n)) BY <2>1 DEF FieldValues
  <2>3. Store(how, old, b) = Append(old, b) BY <1>3 DEF Store
  <2>4. Decodes(b) /\ \A i \in DOMAIN old : Decodes(old[i]) BY <1>3 DEF DecodesAs
  <2>5. \A i \in DOMAIN Append(old, b) : IF i \in DOMAIN old THEN Append(old, b)[i] = old[i]
                                         ELSE Append(old, b)[i] = b
    BY <2>2
  <2>6. \A i \in DOMAIN Append(old, b) : Decodes(Append(old, b)[i]) BY <2>4, <2>5
  <2> QED BY <1>3, <2>3, <2>6 DEF DecodesAs
<1>4. CASE how \notin {"merge", "allocate", "appendMessage"} BY <1>4 DEF DecodesAs
<1> QED BY <1>1, <1>2, <1>3, <1>4

\* Storing into a field leaves the others decodable.
LEMMA StoredDecodable ==
  ASSUME NEW t \in DOMAIN Structs, NEW m, Typed(t, m), Decodable(t, m), NEW n \in DOMAIN Cases[t],
         NEW v, DecodesAs(Cases[t][n][1], v)
  PROVE  Decodable(t, [m EXCEPT ![Cases[t][n][2]] = v])
<1> DEFINE f == Cases[t][n][2]
           x == [m EXCEPT ![f] = v]
<1>1. f \in DOMAIN Structs[t] BY CasesSuit
<1>2. DOMAIN m = DOMAIN Structs[t]
  <2>1. m = [g \in DOMAIN Structs[t] |-> m[g]] BY Zenon DEF Typed, IsMessage
  <2> QED BY <2>1
<1>3. x[f] = v /\ \A g \in DOMAIN Structs[t] : g # f => x[g] = m[g]
  <2> HIDE DEF f
  <2> QED BY <1>1, <1>2
<1>4. Numbering(t, Len(Cases[t])) BY Numbered
<1>5. ASSUME NEW k \in DOMAIN Cases[t], Cases[t][k][2] = f PROVE k = n
  BY <1>4, <1>5, Zenon DEF Numbering
<1> HIDE DEF x
<1>6. ASSUME NEW k \in DOMAIN Cases[t] PROVE DecodesAs(Cases[t][k][1], x[Cases[t][k][2]])
  <2>1. CASE Cases[t][k][2] = f
    <3>1. k = n BY <1>5, <2>1
    <3> QED BY <1>3, <3>1
  <2>2. CASE Cases[t][k][2] # f
    <3>1. Cases[t][k][2] \in DOMAIN Structs[t] BY CasesSuit
    <3>2. x[Cases[t][k][2]] = m[Cases[t][k][2]] BY <1>3, <2>2, <3>1
    <3>3. DecodesAs(Cases[t][k][1], m[Cases[t][k][2]]) BY DecodableIs
    <3> QED BY <3>2, <3>3
  <2> QED BY <2>1, <2>2
<1>7. Decodable(t, x) BY <1>6, DecodableIs
<1> QED BY <1>7 DEF x

\* Unmarshal fills a message with nothing its fields' own Unmarshal refuses.
LEMMA StepsDecodable ==
  ASSUME NEW t \in DOMAIN Structs, NEW d, NEW s, NEW z, Steps(t, d, s, z),
         Typed(t, s[3]), Decodable(t, s[3])
  PROVE  Decodable(t, z[3])
<1> DEFINE m == s[3]
<1>1. CASE DelimitedStep(t, d, s[2], m, z[2], z[3])
  <2>1. PICK n \in DOMAIN Cases[t], at \in Nat, b \in Seq(Byte) :
          /\ Cases[t][n][1] \in {"merge", "allocate", "appendMessage"} => Decodes(b)
          /\ z[3] = [m EXCEPT ![Cases[t][n][2]] = Store(Cases[t][n][1], m[Cases[t][n][2]], b)]
    BY <1>1, Zenon DEF DelimitedStep
  <2> DEFINE how == Cases[t][n][1]
             f == Cases[t][n][2]
  <2>2. f \in DOMAIN Structs[t] /\ Suits(how, Structs[t][f]) BY CasesSuit
  <2>3. PICK L \in Nat : m[f] \in FieldValues(Structs[t][f], L) BY <2>2, Zenon DEF Typed, IsMessage
  <2>4. DecodesAs(how, m[f]) BY DecodableIs
  <2> HIDE DEF how, f
  <2>5. DecodesAs(how, Store(how, m[f], b)) BY <2>1, <2>2, <2>3, <2>4, StoreDecodes DEF how
  <2>6. Decodable(t, [m EXCEPT ![f] = Store(how, m[f], b)]) BY <2>5, StoredDecodable DEF how, f
  <2> QED BY <2>1, <2>6 DEF how, f
<1>2. CASE NumberStep(t, d, s[2], m, z[2], z[3])
  <2>1. PICK n \in DOMAIN Cases[t], at \in Nat :
          /\ Cases[t][n][1] = "varint"
          /\ z[3] = [m EXCEPT ![Cases[t][n][2]] = Number(Structs[t][Cases[t][n][2]], ReadVarint(d, at).val)]
    BY <1>2, Zenon DEF NumberStep
  <2>2. DecodesAs(Cases[t][n][1], Number(Structs[t][Cases[t][n][2]], ReadVarint(d, at).val))
    BY <2>1 DEF DecodesAs
  <2> QED BY <2>1, <2>2, StoredDecodable
<1>3. CASE z[3] = m BY <1>3
<1>4. \/ DelimitedStep(t, d, s[2], m, z[2], z[3]) \/ NumberStep(t, d, s[2], m, z[2], z[3])
      \/ z = Skp(s[2], m, 0, 0) \/ SkipsOn(d, s, z)
  BY Zenon DEF Steps
<1>5. ASSUME NEW i, NEW o, NEW k, z = Skp(i, m, o, k) PROVE z[3] = m BY <1>5, SkpParts
<1>6. ASSUME NEW i, z = Dec(i, m) PROVE z[3] = m BY <1>6, SkpParts
<1>7. ASSUME SkipsOn(d, s, z) PROVE z[3] = m
  <2> DEFINE run == SkipOnce(Rest(d, s[2]), s[4], s[5])
  <2>1. z = Skp(s[2], m, run.next, run.val) \/ z = Dec(s[2] + run.next, m) BY <1>7, Zenon DEF SkipsOn
  <2> HIDE DEF run, m
  <2> QED BY <1>5, <1>6, <2>1
<1> HIDE DEF m
<1> QED BY <1>1, <1>2, <1>3, <1>4, <1>5, <1>7

\* The zero message is decodable.
LEMMA ZeroDecodable ==
  ASSUME NEW t \in DOMAIN Structs
  PROVE  Decodable(t, Zero(t))
<1>1. ASSUME NEW n \in DOMAIN Cases[t] PROVE DecodesAs(Cases[t][n][1], Zero(t)[Cases[t][n][2]])
  <2> DEFINE how == Cases[t][n][1]
             f == Cases[t][n][2]
  <2>1. f \in DOMAIN Structs[t] /\ Suits(how, Structs[t][f]) BY CasesSuit
  <2>2. CASE how \in {"merge", "allocate", "appendMessage"}
    <3>1. Structs[t][f] \in {"message", "pointer", "repeated"} BY <2>1, <2>2 DEF Suits
    <3>2. Zero(t)[f] = <<>>
      <4> HIDE DEF f
      <4> QED BY <2>1, <3>1 DEF Zero
    <3>3. Decodes(<<>>) BY DEF Decodes
    <3> QED BY <3>2, <3>3 DEF DecodesAs
  <2>3. CASE how \notin {"merge", "allocate", "appendMessage"} BY <2>3 DEF DecodesAs
  <2> QED BY <2>2, <2>3
<1> QED BY <1>1, DecodableIs

-----------------------------------------------------------------------------
(* What arrives whole. *)

\* One sequence.
LEMMA FlattenOne ==
  ASSUME NEW b \in Seq(Byte)
  PROVE  FlattenSeq(<<b>>) = b
<1>1. 1 \in Nat /\ 1 > 0 /\ <<b>> \in [1..1 -> Seq(Byte)] OBVIOUS
<1>2. PICK f : Concatenates(f, Byte, 1, <<b>>)
  <2> DEFINE s == <<b>>
  <2>1. s \in [1..1 -> Seq(Byte)] BY <1>1
  <2> HIDE DEF s
  <2>2. \E f : Concatenates(f, Byte, 1, s) BY <1>1, <2>1, FlattenPartial
  <2> QED BY <2>2 DEF s
<1> QED BY <1>2 DEF Concatenates

\* What is marshalled is bytes.
LEMMA EncodingTyped ==
  ASSUME NEW t, NEW batch, GoodBatch(t, batch)
  PROVE  Encoding(t, batch) \in Seq(Byte) /\ Len(Encoding(t, batch)) \in Nat
<1> DEFINE k == Len(batch)
           e == [i \in DOMAIN batch |-> Marshal(t, batch[i])]
<1>1. k \in Nat /\ DOMAIN batch = 1..k /\ t \in DOMAIN Structs
      /\ \A i \in 1..k : IsMessage(t, batch[i], MaxInt) BY DEF GoodBatch
<1>2. \A i \in 1..k : Marshal(t, batch[i]) \in Seq(Byte) BY <1>1, MarshalTyped
<1>3. e \in [1..k -> Seq(Byte)] BY <1>1, <1>2
<1> HIDE DEF e, k
<1>4. FlattenSeq(e) \in Seq(Byte) BY <1>1, <1>3, FlattenLength
<1>5. Encoding(t, batch) \in Seq(Byte) BY <1>4 DEF Encoding, e
<1> QED BY <1>5

\* A buffer holds itself.
LEMMA AtWhole ==
  ASSUME NEW d \in Seq(Byte)
  PROVE  At(d, 0, d)
<1>1. Len(d) \in Nat /\ \A j \in 1..Len(d) : 0 + j = j OBVIOUS
<1> QED BY <1>1 DEF At

\* The buffers that arrive whole.
Arrives(t, batch, d) ==
  \/ d = Encoding(t, batch)
  \/ \E u : Unknown(t, u) /\ (d = u \o Encoding(t, batch) \/ d = Encoding(t, batch) \o u)

\* Unmarshal reads every one of them to its end, and to its meaning.
LEMMA ArrivedRead ==
  ASSUME NEW t, NEW batch, GoodBatch(t, batch), Len(batch) > 0,
         NEW d, Arrives(t, batch, d), Len(d) <= MaxInt
  PROVE  /\ d \in Seq(Byte)
         /\ Path(t, d, Arising(t, batch), Dec(0, Zero(t)), Dec(Len(d), Merged(t, batch)[Len(batch)]))
<1> DEFINE e == Encoding(t, batch)
           Q == Arising(t, batch)
           m == Merged(t, batch)[Len(batch)]
           z == Zero(t)
<1>1. e \in Seq(Byte) /\ Len(e) \in Nat BY EncodingTyped
<1>2. ASSUME NEW b \in Seq(Byte), Len(b) <= MaxInt, NEW i \in Nat, At(b, i, e)
      PROVE  Path(t, b, Q, Dec(i, z), Dec(i + Len(e), m)) /\ z \in Q /\ m \in Q
  <2>1. Path(t, b, Q, Dec(i, z), Dec(i + Len(e), m)) BY <1>2, BatchRead
  <2> HIDE DEF z, m, Q, e
  <2>2. \A j, x : Dec(j, x)[3] = x BY SkpParts
  <2>3. Dec(i, z)[3] \in Q /\ Dec(i + Len(e), m)[3] \in Q BY <2>1, PathWithin
  <2> QED BY <2>1, <2>2, <2>3
<1>3. CASE d = e
  <2>1. At(e, 0, e) /\ 0 \in Nat BY <1>1, AtWhole
  <2>2. 0 + Len(e) = Len(e) BY <1>1
  <2> HIDE DEF e, Q, m, z
  <2>3. Path(t, e, Q, Dec(0, z), Dec(0 + Len(e), m)) BY <1>1, <1>2, <1>3, <2>1
  <2> QED BY <1>1, <1>3, <2>2, <2>3 DEF e, Q, m, z
<1>4. ASSUME NEW u, Unknown(t, u), d = u \o e \/ d = e \o u
      PROVE  d \in Seq(Byte) /\ Path(t, d, Q, Dec(0, z), Dec(Len(d), m))
  <2>1. u \in Seq(Byte) /\ Len(u) \in Nat BY <1>4 DEF Unknown
  <2> HIDE DEF e, Q, m, z
  <2>2. CASE d = u \o e
    <3>1. d \in Seq(Byte) /\ Len(d) = Len(u) + Len(e) BY <1>1, <2>1, <2>2, Concat
    <3>2. At(d, 0, u) /\ At(d, 0 + Len(u), e) BY <1>1, <2>1, <2>2, <3>1, AtJoin, AtWhole
    <3>3. 0 + Len(u) = Len(u) BY <2>1
    <3>4. At(d, Len(u), e) BY <3>2, <3>3
    <3>5. Path(t, d, Q, Dec(Len(u), z), Dec(Len(u) + Len(e), m)) /\ z \in Q
      BY <1>2, <2>1, <3>1, <3>4
    <3>6. Path(t, d, Q, Dec(0, z), Dec(0 + Len(u), z))
      BY <1>4, <3>1, <3>2, <3>5, UnknownRead
    <3>7. Path(t, d, Q, Dec(0, z), Dec(Len(u), z)) BY <3>3, <3>6
    <3>8. Path(t, d, Q, Dec(0, z), Dec(Len(u) + Len(e), m)) BY <3>5, <3>7, PathJoin
    <3> QED BY <3>1, <3>8
  <2>3. CASE d = e \o u
    <3>1. d \in Seq(Byte) /\ Len(d) = Len(e) + Len(u) BY <1>1, <2>1, <2>3, Concat
    <3>2. At(d, 0, e) /\ At(d, 0 + Len(e), u) BY <1>1, <2>1, <2>3, <3>1, AtJoin, AtWhole
    <3>3. 0 + Len(e) = Len(e) BY <1>1
    <3>4. At(d, Len(e), u) BY <3>2, <3>3
    <3>5. Path(t, d, Q, Dec(0, z), Dec(0 + Len(e), m)) /\ m \in Q BY <1>2, <3>1, <3>2
    <3>6. Path(t, d, Q, Dec(Len(e), m), Dec(Len(e) + Len(u), m))
      BY <1>1, <1>4, <3>1, <3>4, <3>5, UnknownRead
    <3>7. Path(t, d, Q, Dec(0, z), Dec(Len(e), m)) BY <3>3, <3>5
    <3>8. Path(t, d, Q, Dec(0, z), Dec(Len(e) + Len(u), m)) BY <3>6, <3>7, PathJoin
    <3> QED BY <3>1, <3>8
  <2> QED BY <1>4, <2>2, <2>3
<1> QED BY <1>3, <1>4 DEF Arrives

\* A decoder that is on its way, in the part d of w that arrived.
LEMMA PathOn ==
  ASSUME NEW t, NEW d, NEW w, Begins(d, w), NEW Q, NEW s, StateOf(d, s), NEW e,
         Path(t, w, Q, s, e), s # e, NEW z, Steps(t, d, s, z)
  PROVE  Path(t, w, Q, z, e)
<1>1. PICK y : Steps(t, w, s, y) /\ Path(t, w, Q, y, e) BY PathFirst
<1>2. Steps(t, w, s, z) BY StepsLocal
<1>3. y = z BY <1>1, <1>2, StepsSame
<1> QED BY <1>1, <1>3

-----------------------------------------------------------------------------
(* The invariant. *)

\* Unmarshal is on its way to the meaning of what was sent, in a buffer w that what arrived
\* is the beginning of.
OnItsWay(w) ==
  /\ Begins(data, w) /\ Len(w) <= MaxInt /\ (intact => w = data)
  /\ Path(kind, w, Arising(kind, sent), Decoder, Dec(Len(w), Meaning))

\* What was sent, and what has been decoded, can be marshalled and decoded.
Resendable ==
  /\ GoodBatch(kind, sent) /\ (sent # <<>> => Len(sent) > 0) /\ (~intact => Len(sent) = 1)
  /\ status # "malformed" => Decodable(kind, message)

Sending ==
  status \in {"sending", "sent"} =>
    /\ kind \in Kinds /\ index = 0 /\ message = Zero(kind) /\ intact
    /\ status = "sent" => data = Encoding(kind, sent)

Reading ==
  status \in {"decoding", "skipping"} /\ sent # <<>> => \E w : OnItsWay(w)

Ended ==
  status \notin {"sending", "sent", "decoding", "skipping"} /\ sent # <<>> =>
    /\ intact => status # "malformed" /\ message = Meaning
    /\ ~intact /\ status # "malformed" => message \in Arising(kind, sent)

RoundTrip == Resendable /\ Sending /\ Reading /\ Ended

\* The first states.
LEMMA InitRoundTrip == WireInit => RoundTrip
<1> SUFFICES ASSUME WireInit PROVE RoundTrip OBVIOUS
<1>1. /\ index = 0 /\ intact = TRUE /\ message = Zero(kind)
      /\ \/ /\ kind \in Kinds /\ sent \in Batches(kind) /\ status = "sending"
         \/ /\ kind \in RawKinds /\ sent = <<>> /\ status = "decoding"
  BY DEF WireInit
<1>2. kind \in DOMAIN Structs BY <1>1, WireAssumption
<1>3. GoodBatch(kind, sent) /\ (sent # <<>> => Len(sent) > 0)
  <2>1. CASE kind \in Kinds /\ sent \in Batches(kind)
    <3>1. /\ Len(sent) \in Nat /\ sent = [i \in 1..Len(sent) |-> sent[i]]
          /\ \A i \in DOMAIN sent : IsMessage(kind, sent[i], MaxInt) /\ Decodable(kind, sent[i])
      BY <2>1, WireAssumption, Zenon
    <3>2. DOMAIN sent = 1..Len(sent) BY <3>1
    <3>3. GoodBatch(kind, sent) BY <1>2, <3>1, <3>2 DEF GoodBatch
    <3>4. Len(sent) = 0 => sent = <<>> BY <3>1
    <3> QED BY <3>1, <3>3, <3>4
  <2>2. CASE sent = <<>>
    <3>1. Len(sent) = 0 /\ DOMAIN sent = 1..0 BY <2>2
    <3>2. \A i \in 1..0 : FALSE OBVIOUS
    <3> QED BY <1>2, <2>2, <3>1, <3>2 DEF GoodBatch
  <2> QED BY <1>1, <2>1, <2>2
<1>4. Resendable BY <1>1, <1>2, <1>3, ZeroDecodable DEF Resendable
<1>5. Sending BY <1>1 DEF Sending
<1>6. Reading BY <1>1 DEF Reading
<1>7. Ended BY <1>1 DEF Ended
<1> QED BY <1>4, <1>5, <1>6, <1>7 DEF RoundTrip

\* Marshal.
LEMMA MarshalBatchRoundTrip ==
  ASSUME WireInv, RoundTrip, MarshalBatch
  PROVE  RoundTrip'
<1>1. \A i \in DOMAIN sent : Fits(kind, sent[i])
  BY MarshalTyped DEF WireInv, WireTypes, MessagesFit
<1>2. /\ status = "sending" /\ status' = "sent" /\ data' = Encoding(kind, sent)
      /\ UNCHANGED <<kind, sent, intact, index, message>>
  BY <1>1 DEF MarshalBatch, Encoding
<1>3. Resendable' BY <1>2 DEF RoundTrip, Resendable
<1>4. Sending' BY <1>2 DEF RoundTrip, Sending
<1>5. Reading' BY <1>2 DEF Reading
<1>6. Ended' BY <1>2 DEF Ended
<1> QED BY <1>3, <1>4, <1>5, <1>6 DEF RoundTrip

\* Whatever arrives is the beginning of a buffer that holds all that was sent.
LEMMA ReceiveRoundTrip ==
  ASSUME WireInv, RoundTrip, status = "sent", NEW d, Receive(d),
         ~intact' => Len(sent) = 1, BufferFits', NEW w, Len(w) <= MaxInt, Begins(d, w), intact' => w = d,
         Arrives(kind, sent, w)
  PROVE  RoundTrip'
<1>1. /\ data' = d /\ status' = "decoding" /\ index' = 0 /\ message' = Zero(kind)
      /\ UNCHANGED <<kind, sent, message>>
  BY DEF Receive, RoundTrip, Sending
<1>2. Resendable' BY <1>1 DEF RoundTrip, Resendable
<1>3. Sending' BY <1>1 DEF Sending
<1>4. Reading'
  <2> SUFFICES ASSUME sent # <<>> PROVE (\E b : OnItsWay(b))' BY <1>1 DEF Reading
  <2>1. GoodBatch(kind, sent) /\ Len(sent) > 0 BY DEF RoundTrip, Resendable
  <2>2. Path(kind, w, Arising(kind, sent), Dec(0, Zero(kind)), Dec(Len(w), Merged(kind, sent)[Len(sent)]))
    BY <2>1, ArrivedRead
  <2>3. Decoder' = Dec(0, Zero(kind)) BY <1>1 DEF Decoder
  <2>4. Meaning' = Merged(kind, sent)[Len(sent)] BY <1>1 DEF Meaning
  <2>5. Path(kind', w, Arising(kind', sent'), Decoder', Dec(Len(w), Meaning')) BY <1>1, <2>2, <2>3, <2>4
  <2>6. Begins(data', w) /\ (intact' => w = data') BY <1>1
  <2> QED BY <2>5, <2>6 DEF OnItsWay
<1>5. Ended' BY <1>1 DEF Ended
<1> QED BY <1>2, <1>3, <1>4, <1>5 DEF RoundTrip

\* The transport: whole, cut short, or with a newer sender's field.
LEMMA TransportRoundTrip ==
  ASSUME WireInv, RoundTrip, BufferFits, BufferFits', Deliver \/ Cut \/ Extend
  PROVE  RoundTrip'
<1>1. /\ status = "sent" /\ data = Encoding(kind, sent) /\ kind \in Kinds /\ intact
      /\ data \in Seq(Byte) /\ Len(data) \in Nat /\ Len(data) <= MaxInt
  BY DEF Deliver, Cut, Extend, RoundTrip, Sending, WireInv, WireTypes, BufferFits
<1>2. ASSUME NEW d \in Seq(Byte), Len(d) <= MaxInt PROVE Begins(d, d)
  BY <1>2, AtWhole DEF Begins
<1>3. CASE Deliver
  <2>1. Receive(data) /\ UNCHANGED intact BY <1>3 DEF Deliver
  <2>2. Arrives(kind, sent, data) BY <1>1 DEF Arrives
  <2>3. Begins(data, data) BY <1>1, <1>2
  <2> QED BY <1>1, <2>1, <2>2, <2>3, ReceiveRoundTrip
<1>4. CASE Cut
  <2>1. PICK n \in 0..(Len(data) - 1) : Receive(SubSeq(data, 1, n)) BY <1>4 DEF Cut
  <2>2. Len(sent) = 1 /\ intact' = FALSE BY <1>4 DEF Cut
  <2>3. Arrives(kind, sent, data) BY <1>1 DEF Arrives
  <2> DEFINE d == SubSeq(data, 1, n)
  <2>4. n \in Nat /\ n <= Len(data) BY <1>1
  <2>5. d \in Seq(Byte) /\ Len(d) = n /\ \A j \in 1..n : d[j] = data[j]
    BY <1>1, <2>4, SubSeqProperties
  <2> HIDE DEF d
  <2>6. Begins(d, data)
    <3>1. Len(d) <= MaxInt BY <1>1, <2>4, <2>5, WordTyped
    <3>2. 0 + Len(d) <= Len(data) BY <2>4, <2>5
    <3>3. \A j \in 1..Len(d) : data[0 + j] = d[j] BY <2>4, <2>5
    <3> QED BY <1>1, <2>5, <3>1, <3>2, <3>3 DEF Begins, At
  <2>7. Receive(d) BY <2>1 DEF d
  <2> QED BY <1>1, <2>2, <2>3, <2>6, <2>7, ReceiveRoundTrip
<1>5. CASE Extend
  <2>1. PICK u \in UnknownFields : Receive(u \o data) \/ Receive(data \o u) BY <1>5 DEF Extend
  <2>2. Unknown(kind, u) BY <1>1, WireAssumption DEF Unknown
  <2>3. UNCHANGED intact BY <1>5 DEF Extend
  <2>4. ASSUME NEW d, Receive(d), d = u \o data \/ d = data \o u PROVE RoundTrip'
    <3>1. d \in Seq(Byte)
      <4>1. u \in Seq(Byte) BY <2>2 DEF Unknown
      <4> QED BY <1>1, <2>4, <4>1, Concat
    <3>2. Len(d) <= MaxInt BY <2>4 DEF BufferFits, Receive
    <3>3. Arrives(kind, sent, d) BY <1>1, <2>2, <2>4 DEF Arrives
    <3>4. Begins(d, d) BY <1>2, <3>1, <3>2
    <3> QED BY <1>1, <2>3, <2>4, <3>2, <3>3, <3>4, ReceiveRoundTrip
  <2> QED BY <2>1, <2>4
<1> QED BY <1>3, <1>4, <1>5

\* What the decoder's state holds.
LEMMA DecoderHolds ==
  ASSUME WireInv, status \in {"decoding", "skipping"}
  PROVE  /\ StateOf(data, Decoder) /\ Decoder[1] = status /\ Decoder[2] = index /\ Decoder[3] = message
<1>1. index \in Nat /\ index <= Len(data) /\ offset \in Nat /\ 0 \in Nat BY DEF WireInv, WireTypes
<1>2. CASE status = "decoding"
  <2>1. Decoder = Dec(index, message) BY <1>2 DEF Decoder
  <2>2. Decoder[1] = "decoding" /\ Decoder[2] = index /\ Decoder[3] = message /\ Decoder[4] = 0
    BY <2>1, SkpParts
  <2> QED BY <1>1, <1>2, <2>2 DEF StateOf
<1>3. CASE status = "skipping"
  <2>1. Decoder = Skp(index, message, offset, depth) BY <1>3 DEF Decoder
  <2>2. Decoder[1] = "skipping" /\ Decoder[2] = index /\ Decoder[3] = message /\ Decoder[4] = offset
    BY <2>1, SkpParts
  <2> QED BY <1>1, <1>3, <2>2 DEF StateOf
<1> QED BY <1>2, <1>3

\* A decoder that has not reached the end of what arrived is not at the end of its way.
LEMMA NotThere ==
  ASSUME WireInv, (status = "decoding" /\ index < Len(data)) \/ status = "skipping",
         NEW w, Begins(data, w), NEW m
  PROVE  Decoder # Dec(Len(w), m)
<1>1. Decoder[1] = status /\ Decoder[2] = index BY DecoderHolds
<1>2. Dec(Len(w), m)[1] = "decoding" /\ Dec(Len(w), m)[2] = Len(w) BY SkpParts
<1>3. Len(data) <= Len(w) /\ Len(data) \in Nat /\ Len(w) \in Nat BY BeginsSame
<1>4. index \in Nat BY DEF WireInv, WireTypes
<1> SUFFICES ASSUME Decoder = Dec(Len(w), m) PROVE FALSE OBVIOUS
<1>5. status = "decoding" /\ index = Len(w) BY <1>1, <1>2
<1>6. index < Len(data) BY <1>5
<1> QED BY <1>3, <1>4, <1>5, <1>6

\* A step of the decoder is the next one of its way; a decoder that refuses a buffer that
\* arrived whole had a next step.
LEMMA DecoderRoundTrip ==
  ASSUME WireInv, WireInv', RoundTrip, DecoderSteps,
         (status = "decoding" /\ index < Len(data)) \/ status = "skipping",
         UNCHANGED <<kind, sent, intact, data>>
  PROVE  RoundTrip'
<1> DEFINE end(w) == Dec(Len(w), Meaning)
           Q == Arising(kind, sent)
<1>1. UNCHANGED <<kind, sent, intact, data, Meaning>> BY DEF Meaning
<1>2. ASSUME sent # <<>>
      PROVE  \E w : /\ Begins(data, w) /\ Len(w) <= MaxInt /\ (intact => w = data)
                    /\ Path(kind, w, Q, Decoder, end(w)) /\ Decoder # end(w)
  <2>1. PICK w : OnItsWay(w) BY <1>2 DEF RoundTrip, Reading
  <2>2. Begins(data, w) /\ Decoder # end(w) BY <2>1, NotThere DEF OnItsWay
  <2> QED BY <2>1, <2>2 DEF OnItsWay
<1>3. StateOf(data, Decoder) /\ Decoder[3] = message BY DecoderHolds
<1>4. CASE status' = "malformed" /\ Stuck(kind, data, Decoder)
  <2>1. sent # <<>> => ~intact
    <3> SUFFICES ASSUME sent # <<>>, intact PROVE FALSE OBVIOUS
    <3>1. PICK w : w = data /\ Path(kind, w, Q, Decoder, end(w)) /\ Decoder # end(w) BY <1>2
    <3>2. Path(kind, data, Q, Decoder, end(data)) /\ Decoder # end(data) BY <3>1
    <3> HIDE DEF end, Q
    <3>3. \E z : Steps(kind, data, Decoder, z) BY <3>2, PathFirst
    <3> QED BY <1>4, <3>3 DEF Stuck
  <2>2. Resendable' BY <1>1, <1>4 DEF RoundTrip, Resendable
  <2>3. Sending' BY <1>4 DEF Sending
  <2>4. Reading' BY <1>4 DEF Reading
  <2>5. Ended' BY <1>1, <1>4, <2>1 DEF Ended
  <2> QED BY <2>2, <2>3, <2>4, <2>5 DEF RoundTrip
<1>5. CASE status' \in {"decoding", "skipping"} /\ Steps(kind, data, Decoder, Decoder')
  <2>1. Decoder'[3] = message'
    <3>1. (status = "decoding" => Decoder = Dec(index, message))'
          /\ (status # "decoding" => Decoder = Skp(index, message, offset, depth))'
      BY DEF Decoder
    <3> QED BY <3>1, SkpParts
  <2>2. Decodable(kind, message')
    <3>1. kind \in DOMAIN Structs /\ Decodable(kind, message) /\ IsMessage(kind, message, index) /\ index \in Nat
      BY DEF WireInv, WireTypes, MessagesFit, RoundTrip, Resendable
    <3>2. Typed(kind, Decoder[3]) /\ Decodable(kind, Decoder[3]) BY <1>3, <3>1 DEF Typed
    <3>3. Decodable(kind, Decoder'[3]) BY <1>5, <3>1, <3>2, StepsDecodable
    <3> QED BY <2>1, <3>3
  <2>3. Resendable' BY <1>1, <2>2 DEF RoundTrip, Resendable
  <2>4. Sending' BY <1>5 DEF Sending
  <2>5. Reading'
    <3> SUFFICES ASSUME sent # <<>> PROVE (\E w : OnItsWay(w))' BY <1>1 DEF Reading
    <3>1. PICK w : /\ Begins(data, w) /\ Len(w) <= MaxInt /\ (intact => w = data)
                   /\ Path(kind, w, Q, Decoder, end(w)) /\ Decoder # end(w)
      BY <1>2
    <3> HIDE DEF end, Q
    <3>2. Path(kind, w, Q, Decoder', end(w)) BY <1>3, <1>5, <3>1, PathOn
    <3>3. Path(kind', w, Arising(kind', sent'), Decoder', Dec(Len(w), Meaning')) BY <1>1, <3>2 DEF end, Q
    <3>4. Begins(data', w) /\ Len(w) <= MaxInt /\ (intact' => w = data') BY <1>1, <3>1
    <3> QED BY <3>3, <3>4 DEF OnItsWay
  <2>6. Ended' BY <1>5 DEF Ended
  <2> QED BY <2>3, <2>4, <2>5, <2>6 DEF RoundTrip
<1> QED BY <1>4, <1>5 DEF DecoderSteps

\* At the end of what arrived whole Unmarshal is at the end of its way.
LEMMA EndRoundTrip ==
  ASSUME WireInv, RoundTrip, UnmarshalEnd
  PROVE  RoundTrip'
<1>1. /\ status = "decoding" /\ index = Len(data) /\ status' = "decoded" /\ index \in Nat
      /\ UNCHANGED <<kind, sent, intact, message>>
  BY DEF WireInv, WireTypes, UnmarshalEnd
<1>2. Decoder = Dec(index, message) BY <1>1 DEF Decoder
<1>3. Decoder[2] = index /\ Decoder[3] = message /\ Decoder[1] = "decoding" BY <1>1, DecoderHolds
<1>4. UNCHANGED Meaning BY <1>1 DEF Meaning
<1>5. ASSUME sent # <<>>
      PROVE  /\ intact => message = Meaning
             /\ message \in Arising(kind, sent)
  <2>1. PICK w : OnItsWay(w) BY <1>1, <1>5 DEF RoundTrip, Reading
  <2> DEFINE e == Dec(Len(w), Meaning)
             Q == Arising(kind, sent)
  <2>2. Path(kind, w, Q, Decoder, e) /\ (intact => w = data) BY <2>1 DEF OnItsWay
  <2>3. e[3] = Meaning BY SkpParts
  <2> HIDE DEF e, Q
  <2>4. Decoder[3] \in Q BY <2>2, PathWithin
  <2>5. ASSUME intact PROVE message = Meaning
    <3>1. w = data BY <2>2, <2>5
    <3>2. ASSUME Decoder # e PROVE FALSE
      <4>1. PICK z : Steps(kind, w, Decoder, z) BY <2>2, <3>2, PathFirst
      <4>2. Decoder[1] # "skipping" BY <1>3
      <4>3. Decoder[2] < Len(w) BY <4>1, <4>2, Zenon DEF Steps
      <4>4. index < Len(data) BY <1>3, <3>1, <4>3
      <4> QED BY <1>1, <4>4
    <3> QED BY <1>3, <2>3, <3>2
  <2> QED BY <1>3, <2>4, <2>5 DEF Q
<1>6. Resendable' BY <1>1 DEF RoundTrip, Resendable
<1>7. Sending' BY <1>1 DEF Sending
<1>8. Reading' BY <1>1 DEF Reading
<1>9. Ended' BY <1>1, <1>4, <1>5 DEF Ended
<1> QED BY <1>6, <1>7, <1>8, <1>9 DEF RoundTrip

\* What happens to a decoded message leaves it as it is.
LEMMA ServeRoundTrip ==
  ASSUME WireInv, RoundTrip, UnpackInterfaces \/ GetSigners \/ Serve
  PROVE  RoundTrip'
<1>1. /\ status \in {"decoded", "unpacked", "authorized"}
      /\ status' \in {"unpacked", "refused", "authorized", "served", "unserved"}
      /\ UNCHANGED <<kind, sent, intact, data, index, message>>
  BY DEF UnpackInterfaces, GetSigners, Serve
<1>2. UNCHANGED Meaning BY <1>1 DEF Meaning
<1>3. Resendable' BY <1>1 DEF RoundTrip, Resendable
<1>4. Sending' BY <1>1 DEF Sending
<1>5. Reading' BY <1>1 DEF Reading
<1>6. Ended' BY <1>1, <1>2 DEF RoundTrip, Ended
<1> QED BY <1>3, <1>4, <1>5, <1>6 DEF RoundTrip

\* A decoded message is marshalled again.
LEMMA MarshalAgainRoundTrip ==
  ASSUME WireInv, RoundTrip, BufferFits, BufferFits', MarshalAgain
  PROVE  RoundTrip'
<1> DEFINE m == message
           e == Marshal(kind, m)
           b == <<m>>
<1>1. kind \in DOMAIN Structs /\ IsMessage(kind, m, MaxInt)
  <2>1. /\ kind \in DOMAIN Structs /\ index \in Int /\ MaxInt \in Int /\ index <= MaxInt
        /\ IsMessage(kind, m, index)
    BY WordTyped DEF WireInv, WireTypes, MessagesFit, BufferFits
  <2> QED BY <2>1, LongerMessage
<1>2. Fits(kind, m) /\ e \in Seq(Byte) BY <1>1, MarshalTyped
<1>3. /\ status = "decoded" /\ status' = "decoding" /\ data' = e /\ sent' = b /\ intact' = TRUE
      /\ index' = 0 /\ message' = Zero(kind) /\ kind' = kind
  BY <1>2 DEF MarshalAgain
<1>4. Decodable(kind, m) BY <1>3 DEF RoundTrip, Resendable
<1>5. Len(b) = 1 /\ DOMAIN b = 1..1 /\ b[1] = m /\ \A i \in 1..1 : b[i] = m OBVIOUS
<1>6. Encoding(kind, b) = e
  <2> DEFINE s == [i \in DOMAIN b |-> Marshal(kind, b[i])]
  <2>1. s = <<e>>
    <3>1. DOMAIN b = 1..1 /\ \A i \in 1..1 : Marshal(kind, b[i]) = e BY <1>5
    <3> HIDE DEF b, e
    <3>2. s = [i \in 1..1 |-> e] BY <3>1
    <3>3. <<e>> = [i \in 1..1 |-> e] OBVIOUS
    <3> QED BY <3>2, <3>3
  <2> HIDE DEF s
  <2>2. FlattenSeq(s) = e BY <1>2, <2>1, FlattenOne
  <2> QED BY <2>2 DEF Encoding, s
<1> HIDE DEF m, e, b
<1>7. GoodBatch(kind, b) BY <1>1, <1>4, <1>5 DEF GoodBatch
<1>8. Len(e) <= MaxInt BY <1>3 DEF BufferFits
<1>9. Arrives(kind, b, e) BY <1>6 DEF Arrives
<1>10. Path(kind, e, Arising(kind, b), Dec(0, Zero(kind)), Dec(Len(e), Merged(kind, b)[Len(b)]))
  <2>1. Len(b) > 0 BY <1>5
  <2> QED BY <1>7, <1>8, <1>9, <2>1, ArrivedRead
<1>11. Resendable'
  <2>1. Decodable(kind, Zero(kind)) BY <1>1, ZeroDecodable
  <2> QED BY <1>3, <1>5, <1>7, <2>1 DEF Resendable
<1>12. Sending' BY <1>3 DEF Sending
<1>13. Reading'
  <2>1. Begins(data', e) /\ (intact' => e = data') BY <1>2, <1>3, <1>8, AtWhole DEF Begins
  <2>2. Decoder' = Dec(0, Zero(kind)) BY <1>3 DEF Decoder
  <2>3. Meaning' = Merged(kind, b)[Len(b)] BY <1>3 DEF Meaning
  <2>4. Path(kind', e, Arising(kind', sent'), Decoder', Dec(Len(e), Meaning'))
    BY <1>3, <1>10, <2>2, <2>3
  <2>5. (\E w : OnItsWay(w))' BY <1>8, <2>1, <2>4 DEF OnItsWay
  <2> QED BY <2>5 DEF Reading
<1>14. Ended' BY <1>3 DEF Ended
<1> QED BY <1>11, <1>12, <1>13, <1>14 DEF RoundTrip

\* Every step.
LEMMA NextRoundTrip ==
  WireInv /\ RoundTrip /\ BufferFits /\ BufferFits' /\ [WireNext]_vars => RoundTrip'
<1> SUFFICES ASSUME WireInv, RoundTrip, BufferFits, BufferFits', [WireNext]_vars PROVE RoundTrip' OBVIOUS
<1>0. WireInv' BY NextWire
<1>1. CASE MarshalBatch BY <1>1, MarshalBatchRoundTrip
<1>2. CASE Deliver \/ Cut \/ Extend BY <1>2, TransportRoundTrip
<1>3. CASE UnmarshalField
  <2>1. DecoderSteps BY <1>3, UnmarshalFieldSteps
  <2>2. status = "decoding" /\ index < Len(data) /\ UNCHANGED <<kind, sent, intact, data>>
    BY <1>3 DEF UnmarshalField
  <2> QED BY <1>0, <2>1, <2>2, DecoderRoundTrip
<1>4. CASE SkipField \/ SkipEnd
  <2>1. DecoderSteps BY <1>4, SkipFieldSteps, SkipEndSteps
  <2>2. status = "skipping" /\ UNCHANGED <<kind, sent, intact, data>> BY <1>4 DEF SkipField, SkipEnd
  <2> QED BY <1>0, <2>1, <2>2, DecoderRoundTrip
<1>5. CASE UnmarshalEnd BY <1>5, EndRoundTrip
<1>6. CASE UnpackInterfaces \/ GetSigners \/ Serve BY <1>6, ServeRoundTrip
<1>7. CASE MarshalAgain BY <1>7, MarshalAgainRoundTrip
<1>8. CASE UNCHANGED vars
  <2>1. UNCHANGED <<kind, sent, intact, data, index, message, offset, depth, status>>
    BY <1>8 DEF vars, skipVars
  <2>2. UNCHANGED <<Meaning, Decoder>> BY <2>1 DEF Meaning, Decoder
  <2>3. Resendable' BY <2>1 DEF RoundTrip, Resendable
  <2>4. Sending' BY <2>1 DEF RoundTrip, Sending
  <2>5. Reading' BY <2>1, <2>2 DEF RoundTrip, Reading, OnItsWay
  <2>6. Ended' BY <2>1, <2>2 DEF RoundTrip, Ended
  <2> QED BY <2>3, <2>4, <2>5, <2>6 DEF RoundTrip
<1> QED BY <1>1, <1>2, <1>3, <1>4, <1>5, <1>6, <1>7, <1>8 DEF WireNext

-----------------------------------------------------------------------------
(* The theorems. *)

\* RoundTrip holds as long as every buffer fits into memory.
LEMMA RoundTripInvariant == WireSpec /\ []BufferFits => [](WireInv /\ RoundTrip)
<1>1. WireInit => WireInv /\ RoundTrip BY InitWire, InitRoundTrip
<1>2. (WireInv /\ RoundTrip) /\ BufferFits /\ BufferFits' /\ [WireNext]_vars => (WireInv /\ RoundTrip)'
  BY NextWire, NextRoundTrip
<1> QED BY <1>1, <1>2, PTL DEF WireSpec

\* A buffer that arrives whole, with or without a newer sender's field, is accepted and means
\* what was marshalled into it, and what Unmarshal accepted survives being marshalled and
\* unmarshalled again: for every width of a word, every message and every batch.
THEOREM WholeBuffersRoundTrip == WireSpec /\ []BufferFits => []DecodedAsSent
<1>1. RoundTrip => DecodedAsSent
  <2> SUFFICES ASSUME RoundTrip, sent # <<>>, intact
               PROVE  /\ status # "malformed"
                      /\ status \in {"decoded", "unpacked", "authorized", "served"} => message = Meaning
    BY DEF DecodedAsSent
  <2> QED BY DEF RoundTrip, Ended
<1> QED BY <1>1, RoundTripInvariant, PTL

\* Of one message nothing but whole fields arises on the way.
LEMMA ArisingFields ==
  ASSUME NEW t, NEW batch, GoodBatch(t, batch), Len(batch) = 1, NEW m \in Arising(t, batch)
  PROVE  \A f \in DOMAIN m :
           \/ m[f] \in {Zero(t)[f], batch[1][f]}
           \/ Structs[t][f] = "repeated" /\ IsPrefix(m[f], batch[1][f])
<1> DEFINE b == batch[1]
           z == Zero(t)
<1>1. t \in DOMAIN Structs /\ IsMessage(t, b, MaxInt)
  BY DEF GoodBatch
<1>2. PICK k \in 1..Len(batch) : m \in Between(t, Merged(t, batch)[k - 1], batch[k]) BY DEF Arising
<1>3. k = 1 /\ k - 1 = 0 BY <1>2
<1>4. Merged(t, batch)[0] = z BY MergedEquation DEF GoodBatch
<1>5. m \in Between(t, z, b) BY <1>2, <1>3, <1>4
<1> HIDE DEF b, z
<1>6. /\ m = [f \in DOMAIN Structs[t] |-> m[f]]
      /\ \A f \in DOMAIN Structs[t] : m[f] \in FieldStates(Structs[t][f], z[f], b[f])
  BY <1>5, BetweenIs
<1>7. DOMAIN m = DOMAIN Structs[t] BY <1>6
<1>8. ASSUME NEW f \in DOMAIN Structs[t]
      PROVE  \/ m[f] \in {z[f], b[f]}
             \/ Structs[t][f] = "repeated" /\ IsPrefix(m[f], b[f])
  <2> DEFINE type == Structs[t][f]
             v == b[f]
  <2>1. m[f] \in FieldStates(type, z[f], v) BY <1>6
  <2>2. v \in FieldValues(type, MaxInt) BY <1>1 DEF IsMessage
  <2>3. z[f] = IF type \in {"int32", "uint32"} THEN 0 ELSE <<>> BY <1>8 DEF z, Zero
  <2>4. PICK n \in DOMAIN Cases[t] : Cases[t][n][2] = f
    <3>1. Numbering(t, Len(Cases[t])) BY <1>1, Numbered
    <3> QED BY <3>1, Zenon DEF Numbering
  <2>5. type \in {"string", "bytes", "message", "pointer", "repeated", "int32", "uint32"}
    <3>1. Suits(Cases[t][n][1], type) BY <1>1, <2>4, CasesSuit
    <3> QED BY <3>1 DEF Suits
  <2> HIDE DEF type, v
  <2>6. CASE type \in {"string", "bytes"}
    <3>1. MergeField(type, z[f], v) = v BY <2>3, <2>6 DEF MergeField
    <3>2. m[f] \in {z[f], v} BY <2>1, <2>6, <3>1 DEF FieldStates
    <3> QED BY <3>2 DEF v
  <2>7. CASE type \in {"int32", "uint32"}
    <3>1. MergeField(type, z[f], v) = v BY <2>3, <2>7 DEF MergeField
    <3>2. m[f] \in {z[f], v} BY <2>1, <2>7, <3>1 DEF FieldStates
    <3> QED BY <3>2 DEF v
  <2>8. CASE type = "message"
    <3>1. v \in Seq(Byte) /\ z[f] = <<>> BY <2>2, <2>3, <2>8 DEF FieldValues, Slices
    <3>2. MergeField(type, z[f], v) = <<>> \o v BY <2>8, <3>1 DEF MergeField
    <3>3. <<>> \o v = v BY <3>1, ConcatEmptySeq
    <3>4. m[f] \in {z[f], v} BY <2>1, <2>8, <3>2, <3>3 DEF FieldStates
    <3> QED BY <3>4 DEF v
  <2>9. CASE type = "pointer"
    <3>1. v \in Seq(Slices(MaxInt)) /\ Len(v) <= 1 /\ z[f] = <<>> BY <2>2, <2>3, <2>9 DEF FieldValues
    <3>2. MergeField(type, z[f], v) = v
      <4>1. CASE v = <<>> BY <2>9, <3>1, <4>1 DEF MergeField
      <4>2. CASE v # <<>>
        <5>1. v[1] \in Slices(MaxInt) /\ v = <<v[1]>> BY <3>1, <4>2, Single
        <5>2. v[1] \in Seq(Byte) BY <5>1 DEF Slices
        <5>3. FlattenSeq(v) = v[1] BY <5>1, <5>2, FlattenOne
        <5>4. <<>> \o v = v BY <3>1, ConcatEmptySeq
        <5>5. MergeField(type, z[f], v) = <<FlattenSeq(z[f] \o v)>> BY <2>9, <4>2 DEF MergeField
        <5>6. FlattenSeq(z[f] \o v) = v[1] BY <3>1, <5>3, <5>4
        <5> QED BY <5>1, <5>5, <5>6
      <4> QED BY <4>1, <4>2
    <3>3. m[f] \in {z[f], v} BY <2>1, <2>9, <3>2 DEF FieldStates
    <3> QED BY <3>3 DEF v
  <2>10. CASE type = "repeated"
    <3>1. v \in Seq(Slices(MaxInt)) /\ z[f] = <<>> BY <2>2, <2>3, <2>10 DEF FieldValues
    <3>2. <<>> \o v = v BY <3>1, ConcatEmptySeq
    <3>3. MergeField(type, z[f], v) = v BY <2>10, <3>1, <3>2 DEF MergeField
    <3>4. CASE m[f] \in {z[f], v} BY <3>4 DEF v
    <3>5. ASSUME NEW i \in 0..Len(v), m[f] = z[f] \o SubSeq(v, 1, i) PROVE IsPrefix(m[f], v)
      <4> DEFINE q == SubSeq(v, 1, i)
      <4>1. i \in Nat /\ i <= Len(v) BY <3>1
      <4>2. q \in Seq(Slices(MaxInt)) /\ Len(q) = i BY <3>1, <4>1, SubSeqProperties
      <4>3. q = SubSeq(v, 1, Len(q)) BY <4>2
      <4>4. Len(q) <= Len(v) BY <4>1, <4>2
      <4>5. IsPrefix(q, v)
        <5> HIDE DEF q
        <5>1. SubSeq(q, 1, Len(q)) = q BY <4>2
        <5> QED BY <4>3, <4>4, <5>1, Zenon DEF IsPrefix
      <4>6. m[f] = q
        <5> HIDE DEF q
        <5> QED BY <3>1, <3>5, <4>2, ConcatEmptySeq DEF q
      <4> QED BY <4>5, <4>6
    <3>6. m[f] \in {z[f], v} \/ \E i \in 0..Len(v) : m[f] = z[f] \o SubSeq(v, 1, i)
      BY <2>1, <2>10, <3>3 DEF FieldStates
    <3> QED BY <2>10, <3>4, <3>5, <3>6 DEF type, v
  <2> QED BY <2>5, <2>6, <2>7, <2>8, <2>9, <2>10
<1> QED BY <1>7, <1>8 DEF b, z

\* A buffer that was cut short anywhere is refused or loses whole fields, for every width of a
\* word and every message.
THEOREM CutBuffersLoseWholeFields == WireSpec /\ []BufferFits => []CutLosesWholeFields
<1>1. RoundTrip => CutLosesWholeFields
  <2> SUFFICES ASSUME RoundTrip, ~intact, status = "decoded"
               PROVE  \A f \in DOMAIN message :
                        \/ message[f] \in {Zero(kind)[f], sent[1][f]}
                        \/ Structs[kind][f] = "repeated" /\ IsPrefix(message[f], sent[1][f])
    BY DEF CutLosesWholeFields
  <2>1. GoodBatch(kind, sent) /\ Len(sent) = 1 BY DEF RoundTrip, Resendable
  <2>2. sent # <<>> BY <2>1
  <2>3. message \in Arising(kind, sent) BY <2>2 DEF RoundTrip, Ended
  <2> QED BY <2>1, <2>3, ArisingFields
<1> QED BY <1>1, RoundTripInvariant, PTL

=============================================================================
