------------------------ MODULE LocalExchangeProofs ------------------------
(* Local exchanges of any number of producers, consumers and inputs: sums  *)
(* of numbers, and the invariants on types, the states of the queues, and  *)
(* who waits for what.                                                     *)
EXTENDS LocalExchange, WellFoundedInduction, TLAPS

-----------------------------------------------------------------------------
(* Sums                                                                    *)

(* Least-element principle: every nonempty set of naturals has a least     *)
(* element.                                                                *)
LEMMA Least ==
    ASSUME NEW T, T \subseteq Nat, T # {}
    PROVE  \E m \in T : \A y \in T : m <= y
<1> DEFINE R == {ss \in Nat \X Nat : ss[1] < ss[2]}
<1>1. IsWellFoundedOn(R, Nat)
  BY Zenon, NatLessThanWellFounded DEF OpToRel
<1> HIDE DEF R
<1>2. PICK m \in T : \A y \in T : ~(<<y, m>> \in R)
  BY Zenon, <1>1, WFMin
<1>3. ASSUME NEW y \in T
      PROVE  m <= y
  <2>1. y \in Nat /\ m \in Nat
    BY Zenon
  <2>2. y < m => <<y, m>> \in R
    BY Zenon, <2>1 DEF R
  <2> QED
    BY <1>2, <2>1, <2>2
<1> QED
  BY Zenon, <1>3

(* A set of naturals up to n that has 0 and, with each number, the next    *)
(* one, has all of them.                                                   *)
LEMMA UpTo ==
    ASSUME NEW n \in Nat, NEW S, 0 \in S,
           \A k \in 0..n : k \in S /\ k < n => k + 1 \in S
    PROVE  0..n \subseteq S
<1> SUFFICES ASSUME ~(0..n \subseteq S) PROVE FALSE
  BY Zenon
<1> DEFINE T == (0..n) \ S
<1>1. T # {} /\ T \subseteq Nat
  OBVIOUS
<1>2. PICK m \in T : \A y \in T : m <= y
  BY Zenon, <1>1, Least
<1>3. m \in 1..n /\ m - 1 \in 0..n /\ m - 1 \notin T
  BY <1>2
<1> QED
  BY <1>2, <1>3

(* s are the sums of the beginnings of q, a sequence of n numbers.         *)
AreSums(s, q, n) ==
    /\ s \in [0..n -> Int]
    /\ s[0] = 0
    /\ \A k \in 1..n : s[k] = s[k - 1] + q[k]

(* A sequence of numbers has such sums.                                    *)
LEMMA SumsExist ==
    ASSUME NEW n \in Nat, NEW q \in [1..n -> Int]
    PROVE  \E s : AreSums(s, q, n)
<1> DEFINE S == {k \in 0..n : \E s : AreSums(s, q, k)}
<1>1. 0 \in S
  <2>1. AreSums([k \in 0..0 |-> 0], q, 0)
    BY DEF AreSums
  <2> QED
    BY <2>1
<1>2. ASSUME NEW k \in 0..n, k \in S, k < n
      PROVE  k + 1 \in S
  <2>1. PICK s : AreSums(s, q, k)
    BY Zenon, <1>2
  <2> DEFINE t == [j \in 0..(k + 1) |-> IF j = k + 1 THEN s[k] + q[k + 1] ELSE s[j]]
  <2>2. k \in Nat /\ k + 1 \in 1..n /\ q[k + 1] \in Int
    BY <1>2
  <2>3. s \in [0..k -> Int] /\ s[0] = 0 /\ \A j \in 1..k : s[j] = s[j - 1] + q[j]
    BY Zenon, <2>1 DEF AreSums
  <2>4. t \in [0..(k + 1) -> Int]
    BY <2>2, <2>3
  <2>5. t[0] = 0
    BY <2>2, <2>3
  <2>6. ASSUME NEW j \in 1..(k + 1)
        PROVE  t[j] = t[j - 1] + q[j]
    <3>1. CASE j = k + 1
      BY <2>2, <2>3, <3>1
    <3>2. CASE j \in 1..k
      BY <2>2, <2>3, <3>2
    <3> QED
      BY <2>2, <3>1, <3>2
  <2>7. AreSums(t, q, k + 1)
    BY Zenon, <2>4, <2>5, <2>6 DEF AreSums
  <2> QED
    BY <2>7, <2>2
<1> HIDE DEF S
<1>3. n \in S
  <2>1. 0..n \subseteq S
    BY Zenon, <1>1, <1>2, UpTo
  <2> QED
    BY <2>1
<1> QED
  BY Zenon, <1>3 DEF S

(* SumSeq is the last of them.                                             *)
LEMMA SumIsLast ==
    ASSUME NEW n \in Nat, NEW q \in [1..n -> Int], NEW s, AreSums(s, q, n)
    PROVE  SumSeq(q) = s[n]
<1> DEFINE Eq(t) == t = [k \in 0..n |-> IF k = 0 THEN 0 ELSE t[k - 1] + q[k]]
           f == CHOOSE t : Eq(t)
<1>1. Eq(s)
  BY DEF AreSums
<1>2. Eq(f)
  BY Zenon, <1>1
<1>3. Len(q) = n
  OBVIOUS
<1>4. SumSeq(q) = f[n]
  BY Zenon, <1>3 DEF SumSeq
<1> DEFINE S == {k \in 0..n : f[k] = s[k]}
<1> HIDE DEF f
<1>5. 0 \in S
  BY <1>1, <1>2
<1>6. ASSUME NEW k \in 0..n, k \in S, k < n
      PROVE  k + 1 \in S
  <2>1. k + 1 \in 0..n /\ k + 1 # 0 /\ (k + 1) - 1 = k
    BY <1>6
  <2>2. f[k + 1] = f[k] + q[k + 1] /\ s[k + 1] = s[k] + q[k + 1]
    BY Zenon, <1>1, <1>2, <2>1
  <2> QED
    BY Zenon, <1>6, <2>1, <2>2
<1> HIDE DEF S
<1>7. n \in S
  <2>1. 0..n \subseteq S
    BY Zenon, <1>5, <1>6, UpTo
  <2> QED
    BY <2>1
<1> QED
  BY Zenon, <1>4, <1>7 DEF S

(* The sum of integers is an integer.                                      *)
LEMMA SumType ==
    ASSUME NEW n \in Nat, NEW q \in [1..n -> Int]
    PROVE  SumSeq(q) \in Int
<1>1. PICK s : AreSums(s, q, n)
  BY Zenon, SumsExist
<1>2. SumSeq(q) = s[n]
  BY Zenon, <1>1, SumIsLast
<1>3. s \in [0..n -> Int] /\ n \in 0..n
  BY <1>1 DEF AreSums
<1> QED
  BY Zenon, <1>2, <1>3

(* Sequences are functions.                                                *)
LEMMA SeqIsFunction ==
    ASSUME NEW T, NEW q \in Seq(T)
    PROVE  Len(q) \in Nat /\ q \in [1..Len(q) -> T]
  OBVIOUS

(* The sum of nothing.                                                     *)
LEMMA SumEmpty == SumSeq(<<>>) = 0
<1> DEFINE q == <<>>
           s == [k \in 0..0 |-> 0]
<1>1. q \in Seq(Int) /\ Len(q) = 0
  OBVIOUS
<1>2. q \in [1..0 -> Int]
  <2> HIDE DEF q
  <2> QED
    BY Zenon, <1>1, SeqIsFunction
<1>3. s \in [0..0 -> Int] /\ s[0] = 0 /\ \A k \in 1..0 : s[k] = s[k - 1] + q[k]
  OBVIOUS
<1> HIDE DEF q, s
<1>4. AreSums(s, q, 0)
  BY Zenon, <1>3 DEF AreSums
<1>5. SumSeq(q) = s[0]
  BY Zenon, <1>2, <1>4, SumIsLast
<1> QED
  BY Zenon, <1>3, <1>5 DEF q

(* The sum of a sequence and one more.                                     *)
LEMMA SumAppend ==
    ASSUME NEW q \in Seq(Int), NEW x \in Int
    PROVE  SumSeq(Append(q, x)) = SumSeq(q) + x
<1> DEFINE n == Len(q)
           r == Append(q, x)
<1>1. n \in Nat /\ q \in [1..n -> Int]
  BY Zenon, SeqIsFunction
<1>2. r \in Seq(Int) /\ Len(r) = n + 1
  OBVIOUS
<1>3. r \in [1..(n + 1) -> Int]
  BY Zenon, <1>2, SeqIsFunction
<1>4. r[n + 1] = x /\ \A j \in 1..n : r[j] = q[j]
  OBVIOUS
<1> HIDE DEF n, r
<1>5. PICK s : AreSums(s, q, n)
  BY Zenon, <1>1, SumsExist
<1>6. s \in [0..n -> Int] /\ s[0] = 0 /\ \A j \in 1..n : s[j] = s[j - 1] + q[j]
  BY Zenon, <1>5 DEF AreSums
<1> DEFINE t == [j \in 0..(n + 1) |-> IF j = n + 1 THEN s[n] + x ELSE s[j]]
<1>7. t \in [0..(n + 1) -> Int] /\ t[0] = 0
  BY <1>1, <1>6
<1>8. ASSUME NEW j \in 1..(n + 1)
      PROVE  t[j] = t[j - 1] + r[j]
  <2>1. CASE j = n + 1
    BY <1>1, <1>4, <1>6, <2>1
  <2>2. CASE j \in 1..n
    <3>1. t[j] = s[j] /\ t[j - 1] = s[j - 1]
      BY <1>1, <2>2
    <3>2. s[j] = s[j - 1] + q[j] /\ r[j] = q[j]
      BY Zenon, <1>4, <1>6, <2>2
    <3> QED
      BY Zenon, <3>1, <3>2
  <2> QED
    BY <1>1, <2>1, <2>2
<1>9. t[n + 1] = s[n] + x
  BY <1>1
<1> HIDE DEF t
<1>10. AreSums(t, r, n + 1)
  BY Zenon, <1>7, <1>8 DEF AreSums
<1>11. SumSeq(q) = s[n]
  BY Zenon, <1>1, <1>5, SumIsLast
<1>12. n + 1 \in Nat
  BY <1>1
<1>13. SumSeq(r) = t[n + 1]
  BY Zenon, <1>3, <1>10, <1>12, SumIsLast
<1> QED
  BY Zenon, <1>9, <1>11, <1>13 DEF r

(* The sum without the first.                                              *)
LEMMA SumTail ==
    ASSUME NEW q \in Seq(Int), q # <<>>
    PROVE  SumSeq(Tail(q)) = SumSeq(q) - Head(q)
<1> DEFINE n == Len(q)
           r == Tail(q)
<1>1. n \in Nat /\ q \in [1..n -> Int]
  BY Zenon, SeqIsFunction
<1>2. r \in Seq(Int) /\ Len(r) = n - 1 /\ n > 0 /\ Head(q) = q[1]
  OBVIOUS
<1>3. r \in [1..(n - 1) -> Int]
  BY Zenon, <1>2, SeqIsFunction
<1>4. \A j \in 1..(n - 1) : r[j] = q[j + 1]
  OBVIOUS
<1> HIDE DEF n, r
<1>5. PICK s : AreSums(s, q, n)
  BY Zenon, <1>1, SumsExist
<1>6. s \in [0..n -> Int] /\ s[0] = 0 /\ \A j \in 1..n : s[j] = s[j - 1] + q[j]
  BY Zenon, <1>5 DEF AreSums
<1> DEFINE t == [j \in 0..(n - 1) |-> s[j + 1] - q[1]]
<1>7. t \in [0..(n - 1) -> Int]
  <2>1. ASSUME NEW j \in 0..(n - 1)
        PROVE  s[j + 1] - q[1] \in Int
    <3>1. j + 1 \in 0..n /\ 1 \in 1..n
      BY <1>1, <1>2
    <3>2. s[j + 1] \in Int /\ q[1] \in Int
      BY Zenon, <1>1, <1>6, <3>1
    <3> QED
      BY <3>2
  <2> QED
    BY Zenon, <2>1
<1>8. t[0] = 0
  BY <1>1, <1>2, <1>6
<1>9. ASSUME NEW j \in 1..(n - 1)
      PROVE  t[j] = t[j - 1] + r[j]
  <2>1. j \in Nat /\ j - 1 \in 0..(n - 1) /\ j \in 0..(n - 1) /\ j + 1 \in 1..n
    BY <1>1
  <2>2. t[j] = s[j + 1] - q[1] /\ t[j - 1] = s[(j - 1) + 1] - q[1]
    BY Zenon, <2>1
  <2>3. s[j + 1] = s[j] + q[j + 1] /\ (j - 1) + 1 = j
    BY <1>6, <2>1
  <2>4. s[j] \in Int /\ q[j + 1] \in Int /\ q[1] \in Int
    BY <1>1, <1>6, <2>1
  <2> QED
    BY <1>4, <2>2, <2>3, <2>4
<1>10. t[n - 1] = s[n] - q[1]
  BY <1>1, <1>2
<1> HIDE DEF t
<1>11. AreSums(t, r, n - 1)
  BY Zenon, <1>7, <1>8, <1>9 DEF AreSums
<1>12. SumSeq(q) = s[n]
  BY Zenon, <1>1, <1>5, SumIsLast
<1>13. n - 1 \in Nat
  BY <1>1, <1>2
<1>14. SumSeq(r) = t[n - 1]
  BY Zenon, <1>3, <1>11, <1>13, SumIsLast
<1> QED
  BY Zenon, <1>2, <1>10, <1>12, <1>14 DEF r

(* The sum when one term changes.                                          *)
LEMMA SumExcept ==
    ASSUME NEW n \in Nat, NEW q \in [1..n -> Int], NEW i \in 1..n, NEW v \in Int
    PROVE  SumSeq([q EXCEPT ![i] = v]) = SumSeq(q) - q[i] + v
<1> DEFINE r == [q EXCEPT ![i] = v]
<1>1. r \in [1..n -> Int]
  BY Zenon
<1>2. PICK s : AreSums(s, q, n)
  BY Zenon, SumsExist
<1> DEFINE t == [j \in 0..n |-> IF j < i THEN s[j] ELSE s[j] - q[i] + v]
<1>3. AreSums(t, r, n)
  <2>1. s \in [0..n -> Int] /\ s[0] = 0 /\ \A j \in 1..n : s[j] = s[j - 1] + q[j]
    BY Zenon, <1>2 DEF AreSums
  <2>2. t \in [0..n -> Int] /\ t[0] = 0
    <3>1. (\A j \in 0..n : s[j] \in Int) /\ q[i] \in Int
      BY Zenon, <2>1
    <3>2. 0 \in 0..n /\ 0 < i
      OBVIOUS
    <3>3. \A j \in 0..n : (IF j < i THEN s[j] ELSE s[j] - q[i] + v) \in Int
      BY <3>1
    <3> QED
      BY Zenon, <2>1, <3>2, <3>3
  <2>3. ASSUME NEW j \in 1..n
        PROVE  t[j] = t[j - 1] + r[j]
    <3>1. j \in 0..n /\ j - 1 \in 0..n /\ s[j] = s[j - 1] + q[j]
      BY <2>1
    <3>2. s[j - 1] \in Int /\ q[j] \in Int /\ q[i] \in Int
      BY Zenon, <2>1, <3>1
    <3>3. t[j] = IF j < i THEN s[j] ELSE s[j] - q[i] + v
      BY Zenon, <3>1
    <3>4. t[j - 1] = IF j - 1 < i THEN s[j - 1] ELSE s[j - 1] - q[i] + v
      BY Zenon, <3>1
    <3>5. r[j] = IF j = i THEN v ELSE q[j]
      BY Zenon
    <3> HIDE DEF t, r
    <3> QED
      BY <3>1, <3>2, <3>3, <3>4, <3>5
  <2> HIDE DEF t, r
  <2> QED
    BY Zenon, <2>2, <2>3 DEF AreSums
<1>4. SumSeq(q) = s[n] /\ SumSeq(r) = t[n]
  BY Zenon, <1>1, <1>2, <1>3, SumIsLast
<1> QED
  BY <1>4

(* Terms up to a bound.                                                    *)
LEMMA SumAtMost ==
    ASSUME NEW n \in Nat, NEW q \in [1..n -> Int], NEW m \in Int,
           \A i \in 1..n : q[i] <= m
    PROVE  SumSeq(q) <= n * m
<1>1. PICK s : AreSums(s, q, n)
  BY Zenon, SumsExist
<1> DEFINE S == {k \in 0..n : s[k] <= k * m}
<1>2. 0 \in S
  BY <1>1 DEF AreSums
<1>3. ASSUME NEW k \in 0..n, k \in S, k < n
      PROVE  k + 1 \in S
  <2>1. s[k + 1] = s[k] + q[k + 1] /\ q[k + 1] <= m /\ s[k] \in Int /\ q[k + 1] \in Int
    BY <1>1, <1>3 DEF AreSums
  <2>2. (k + 1) * m = k * m + m /\ k * m \in Int
    OBVIOUS
  <2> QED
    BY <2>1, <2>2, <1>3
<1> HIDE DEF S
<1>4. n \in S
  <2>1. 0..n \subseteq S
    BY Zenon, <1>2, <1>3, UpTo
  <2> QED
    BY <2>1
<1> QED
  BY Zenon, <1>1, <1>4, SumIsLast DEF S

(* Two inequalities with the same factors, added.                          *)
LEMMA AddScaled ==
    ASSUME NEW a \in Nat, NEW b \in Nat, NEW x \in Int, NEW y \in Int,
           NEW z \in Int, NEW w \in Int, a * x <= b * y, a * z <= b * w
    PROVE  a * (x + z) <= b * (y + w)
<1>1. a * (x + z) = a * x + a * z /\ a * x \in Int /\ a * z \in Int
  OBVIOUS
<1>2. b * (y + w) = b * y + b * w /\ b * y \in Int /\ b * w \in Int
  OBVIOUS
<1> QED
  BY <1>1, <1>2

(* Sums compare as their terms do, with factors on both sides.             *)
LEMMA SumScaled ==
    ASSUME NEW n \in Nat, NEW q \in [1..n -> Int], NEW r \in [1..n -> Int],
           NEW a \in Nat, NEW b \in Nat,
           \A i \in 1..n : a * q[i] <= b * r[i]
    PROVE  a * SumSeq(q) <= b * SumSeq(r)
<1>1. PICK s : AreSums(s, q, n)
  BY Zenon, SumsExist
<1>2. PICK t : AreSums(t, r, n)
  BY Zenon, SumsExist
<1> DEFINE S == {k \in 0..n : a * s[k] <= b * t[k]}
<1>3. 0 \in S
  BY <1>1, <1>2 DEF AreSums
<1>4. ASSUME NEW k \in 0..n, k \in S, k < n
      PROVE  k + 1 \in S
  <2>1. k + 1 \in 1..n /\ (k + 1) - 1 = k /\ k + 1 \in 0..n
    BY <1>4
  <2>2. s[k + 1] = s[k] + q[k + 1] /\ s[k] \in Int /\ q[k + 1] \in Int
    BY Zenon, <1>1, <2>1 DEF AreSums
  <2>3. t[k + 1] = t[k] + r[k + 1] /\ t[k] \in Int /\ r[k + 1] \in Int
    BY Zenon, <1>2, <2>1 DEF AreSums
  <2>4. a * s[k] <= b * t[k] /\ a * q[k + 1] <= b * r[k + 1]
    BY Zenon, <1>4, <2>1
  <2>5. s[k] \in Int /\ t[k] \in Int /\ q[k + 1] \in Int /\ r[k + 1] \in Int
    BY Zenon, <2>2, <2>3
  <2>6. a * (s[k] + q[k + 1]) <= b * (t[k] + r[k + 1])
    BY Zenon, <2>4, <2>5, AddScaled
  <2>9. a * s[k + 1] <= b * t[k + 1]
    BY Zenon, <2>2, <2>3, <2>6
  <2> QED
    BY Zenon, <2>1, <2>9
<1> HIDE DEF S
<1>5. n \in S
  <2>1. 0..n \subseteq S
    BY Zenon, <1>3, <1>4, UpTo
  <2> QED
    BY <2>1
<1>6. SumSeq(q) = s[n] /\ SumSeq(r) = t[n]
  BY Zenon, <1>1, <1>2, SumIsLast
<1> QED
  BY Zenon, <1>5, <1>6 DEF S

(* Larger terms have a larger sum.                                         *)
LEMMA SumMonotone ==
    ASSUME NEW n \in Nat, NEW q \in [1..n -> Int], NEW r \in [1..n -> Int],
           \A i \in 1..n : q[i] <= r[i]
    PROVE  SumSeq(q) <= SumSeq(r)
<1>1. \A i \in 1..n : 1 * q[i] <= 1 * r[i]
  OBVIOUS
<1>2. 1 * SumSeq(q) <= 1 * SumSeq(r)
  BY Zenon, <1>1, SumScaled
<1>3. SumSeq(q) \in Int /\ SumSeq(r) \in Int
  BY Zenon, SumType
<1> QED
  BY <1>2, <1>3

(* A term among zeros                                                      *)
LEMMA SumOfOne ==
    ASSUME NEW n \in Nat, NEW i \in 1..n, NEW x \in Int
    PROVE  SumSeq([k \in 1..n |-> IF k = i THEN x ELSE 0]) = x
<1> DEFINE z == [k \in 1..n |-> 0]
           o == [k \in 1..n |-> IF k = i THEN x ELSE 0]
<1>1. z \in [1..n -> Int] /\ z[i] = 0
  OBVIOUS
<1>2. o = [z EXCEPT ![i] = x]
  BY Zenon
<1>3. AreSums([k \in 0..n |-> 0], z, n)
  BY DEF AreSums
<1> HIDE DEF z, o
<1>4. SumSeq(z) = 0
  BY <1>1, <1>3, SumIsLast
<1>5. SumSeq(o) = 0 - 0 + x
  BY Zenon, <1>1, <1>2, <1>4, SumExcept
<1> QED
  BY <1>5 DEF o

(* No term of a sum of naturals is larger than the sum.                    *)
LEMMA SumAtLeast ==
    ASSUME NEW n \in Nat, NEW q \in [1..n -> Nat], NEW i \in 1..n
    PROVE  SumSeq(q) \in Nat /\ q[i] <= SumSeq(q)
<1> DEFINE o == [k \in 1..n |-> IF k = i THEN q[i] ELSE 0]
<1>1. q \in [1..n -> Int] /\ o \in [1..n -> Int] /\ q[i] \in Nat
  OBVIOUS
<1>2. \A k \in 1..n : o[k] <= q[k]
  OBVIOUS
<1>3. SumSeq(o) = q[i]
  BY Zenon, <1>1, SumOfOne
<1> HIDE DEF o
<1>4. SumSeq(o) <= SumSeq(q)
  BY Zenon, <1>1, <1>2, SumMonotone
<1>5. SumSeq(q) \in Int
  BY Zenon, <1>1, SumType
<1> QED
  BY <1>1, <1>3, <1>4, <1>5

(* A finite set of numbers that has members has a largest one.             *)
LEMMA FiniteMax ==
    ASSUME NEW S, IsFiniteSet(S), S # {}, NEW f \in [S -> Int]
    PROVE  \E x \in S : \A y \in S : f[y] <= f[x]
<1>1. PICK g \in Seq(S) : \A y \in S : \E k \in 1..Len(g) : g[k] = y
  BY Zenon DEF IsFiniteSet
<1> DEFINE n == Len(g)
<1>2. n \in Nat /\ \A i \in 1..n : g[i] \in S
  OBVIOUS
<1> HIDE DEF n
<1> DEFINE T == {k \in 0..n : k > 0 =>
                    \E j \in 1..k : \A i \in 1..k : f[g[i]] <= f[g[j]]}
<1>3. 0 \in T
  BY <1>2
<1>4. ASSUME NEW k \in 0..n, k \in T, k < n
      PROVE  k + 1 \in T
  <2>1. k + 1 \in 0..n /\ k \in Nat
    BY <1>2, <1>4
  <2>2. \A i \in 1..(k + 1) : f[g[i]] \in Int
    <3>1. \A i \in 1..(k + 1) : i \in 1..n
      BY <1>2, <2>1
    <3>2. \A i \in 1..n : f[g[i]] \in Int
      BY Zenon, <1>2
    <3> QED
      BY Zenon, <3>1, <3>2
  <2>3. CASE k = 0
    <3>1. 1 \in 1..(k + 1) /\ \A i \in 1..(k + 1) : i = 1
      BY <2>3
    <3>2. \A i \in 1..(k + 1) : f[g[i]] <= f[g[1]]
      BY <2>2, <3>1
    <3> QED
      BY Zenon, <2>1, <3>1, <3>2
  <2>4. CASE k > 0
    <3>1. PICK j \in 1..k : \A i \in 1..k : f[g[i]] <= f[g[j]]
      BY Zenon, <1>4, <2>4
    <3> DEFINE m == IF f[g[j]] <= f[g[k + 1]] THEN k + 1 ELSE j
    <3>2. m \in 1..(k + 1) /\ j \in 1..(k + 1)
      BY <2>1
    <3>3. \A i \in 1..(k + 1) : f[g[i]] <= f[g[m]]
      <4>1. f[g[j]] \in Int /\ f[g[k + 1]] \in Int /\ f[g[j]] <= f[g[m]]
            /\ f[g[k + 1]] <= f[g[m]]
        BY <2>1, <2>2, <3>2
      <4>2. f[g[m]] \in Int
        BY Zenon, <2>2, <3>2
      <4> HIDE DEF m
      <4>3. ASSUME NEW i \in 1..(k + 1), i # k + 1
            PROVE  f[g[i]] <= f[g[m]]
        <5>1. i \in 1..k
          BY <2>1, <4>3
        <5>2. f[g[i]] <= f[g[j]] /\ f[g[i]] \in Int
          BY Zenon, <2>2, <3>1, <5>1
        <5> DEFINE a == f[g[i]]
                   b == f[g[j]]
                   c == f[g[m]]
        <5>3. a \in Int /\ b \in Int /\ c \in Int /\ a <= b /\ b <= c
          BY Zenon, <4>1, <4>2, <5>2
        <5> HIDE DEF a, b, c
        <5>4. a <= c
          BY <5>3
        <5> QED
          BY Zenon, <5>4 DEF a, c
      <4> QED
        BY Zenon, <4>1, <4>3
    <3> QED
      BY Zenon, <2>1, <3>2, <3>3
  <2> QED
    BY <2>1, <2>3, <2>4
<1> HIDE DEF T
<1>5. 0..n \subseteq T
  BY Zenon, <1>2, <1>3, <1>4, UpTo
<1>6. n \in T
  BY <1>2, <1>5
<1>7. n > 0
  BY <1>1, <1>2 DEF n
<1>8. PICK j \in 1..n : \A i \in 1..n : f[g[i]] <= f[g[j]]
  BY <1>6, <1>7 DEF T
<1>9. g[j] \in S
  BY <1>2
<1>10. \A y \in S : \E i \in 1..n : g[i] = y
  BY <1>1 DEF n
<1> QED
  BY Zenon, <1>8, <1>9, <1>10

-----------------------------------------------------------------------------
(* The inductive invariant                                                 *)

(* The sizes of the parts of inputs                                        *)
Sizes == {InputBytes(in, p) : in \in Inputs, p \in Partitions}

Entry == [vec : Items, bytes : Sizes]

(* The states of a producer within addInput()                              *)
Adding == {"getVector", "enqueue", "notify"}

QueueTypes ==
    /\ queue \in [Partitions -> Seq(Entry)]
    /\ pendingProducers \in [Partitions -> Int]
    /\ noMoreProducers \in BOOLEAN
    /\ closed \subseteq Partitions /\ consumerPromises \subseteq Partitions
    /\ promises \subseteq Producers \X Partitions

PoolTypes == pool \in Seq(Entry) /\ content \in [Items -> Items]

ProducerTypes ==
    /\ ppc \in [Producers -> Adding \cup {"create", "run", "noMoreData",
                                          "noMoreDataNotify", "done"}]
    /\ part \in [Producers -> 0..NumPartitions]
    /\ input \in [Producers -> Inputs \cup {NoInput}]
    /\ numInputs \in [Producers -> 0..MaxInputs]
    /\ futures \in [Producers -> SUBSET Partitions]
    /\ vec \in [Producers -> Items \cup {NoVector}]
    /\ upstream \in [Producers -> Items \cup {NoVector}]
    /\ pNotify \in [Producers -> SUBSET ({0} \X Partitions)]

ConsumerTypes ==
    /\ cpc \in [Partitions -> {"create", "run", "waiting", "notify", "push", "hold",
                               "finished", "closing", "closed"}]
    /\ held \in [Partitions -> Entry \cup {NoEntry}]
    /\ cNotify \in [Partitions -> SUBSET ((0..exchange.producers) \X Partitions)]

(* What a producer has in hand in each of its states                       *)
ProducerAt(i) ==
    /\ ppc[i] \in Adding =>
          /\ input[i] \in Inputs /\ part[i] \in Partitions /\ numInputs[i] > 0
          /\ input[i].rows[part[i]] > 0
    /\ ppc[i] = "enqueue" => vec[i] \in Items
    /\ ppc[i] \in {"noMoreData", "noMoreDataNotify"} => part[i] \in Partitions
    /\ ppc[i] \notin {"notify", "noMoreDataNotify"} => pNotify[i] = {}

TypeInv ==
    /\ exchange \in Exchanges
    /\ QueueTypes /\ PoolTypes /\ ProducerTypes /\ ConsumerTypes
    /\ \A i \in Producers : ProducerAt(i)

(* The drivers start when all the producers are known; what a consumer     *)
(* holds, and whether its queue is closed, follow from where it is.        *)
ConsumerAt(p) ==
    /\ p \in closed <=> cpc[p] \in {"closing", "closed"}
    /\ IF cpc[p] \in {"notify", "push", "hold"} THEN held[p] \in Entry
       ELSE held[p] = NoEntry

StateInv ==
    /\ IF noMoreProducers THEN \A i \in Producers : ppc[i] # "create"
       ELSE /\ \A i \in Producers : ppc[i] \in {"create", "run"}
            /\ \A p \in Partitions : cpc[p] = "create"
    /\ \A p \in Partitions : ConsumerAt(p)

(* Who waits, and where the promise is                                     *)
ConsumerWait(p) ==
    cpc[p] = "waiting" =>
        \/ p \in consumerPromises /\ queue[p] = <<>> /\ ~isFinishedLocked(p)
        \/ \E i \in Producers : <<0, p>> \in pNotify[i]

ProducerWait(i) ==
    \A p \in futures[i] :
        <<i, p>> \in promises \/ \E q \in Partitions : <<i, p>> \in cNotify[q]

ToNotify(p) ==
    /\ cpc[p] \notin {"notify", "closing"} => cNotify[p] = {}
    /\ \A q \in Partitions : <<0, q>> \in cNotify[p] => q = p /\ cpc[p] = "closing"

WaitInv ==
    /\ \A p \in Partitions : ConsumerWait(p) /\ ToNotify(p)
    /\ \A i \in Producers : ProducerWait(i)

-----------------------------------------------------------------------------
(* The exchange that is executed                                           *)

(* What is assumed of an exchange.                                         *)
LEMMA Constants ==
    ASSUME exchange \in Exchanges
    PROVE  /\ exchange.producers \in Nat \ {0}
           /\ NumPartitions \in Nat \ {0} /\ MaxInputs \in Nat
           /\ MaxBufferSize \in Nat \ {0}
           /\ Partitions = 1..NumPartitions
           /\ IsFiniteSet(Inputs) /\ Inputs # {}
  BY ExchangeAssumption DEF NumPartitions, MaxInputs, Inputs, Partitions

(* The sets that depend on the exchange only.                              *)
LEMMA Fixed ==
    ASSUME exchange' = exchange
    PROVE  /\ Producers' = Producers /\ NumPartitions' = NumPartitions
           /\ Partitions' = Partitions /\ Inputs' = Inputs
           /\ MaxInputs' = MaxInputs /\ Items' = Items /\ Entry' = Entry
<1>1. /\ Producers' = Producers /\ NumPartitions' = NumPartitions
      /\ Partitions' = Partitions /\ Inputs' = Inputs
      /\ MaxInputs' = MaxInputs /\ Items' = Items
  BY Zenon DEF Producers, NumPartitions, Partitions, Inputs, MaxInputs, Items
<1>2. Sizes' = Sizes
  BY <1>1 DEF Sizes, InputBytes, NumRows
<1> QED
  BY Zenon, <1>1, <1>2 DEF Entry

(* An input has rows for some partition, and for one only if it is passed  *)
(* on as it is.                                                            *)
LEMMA InputType ==
    ASSUME exchange \in Exchanges, NEW in \in Inputs
    PROVE  /\ in.total \in Nat /\ in.single \in BOOLEAN
           /\ in.rows \in [Partitions -> Nat]
           /\ \E p \in Partitions : in.rows[p] > 0 /\ \A q \in 1..(p - 1) : in.rows[q] = 0
           /\ in.single => \E p \in Partitions : \A q \in Partitions \ {p} : in.rows[q] = 0
  BY ExchangeAssumption DEF NumPartitions, Inputs, Partitions

(* addInput() visits the partitions that get rows, and no other.           *)
LEMMA NextPartIs ==
    ASSUME exchange \in Exchanges, NEW in \in Inputs, NEW p \in 1..(NumPartitions + 1)
    PROVE  \/ /\ NextPart(in, p) = 0
              /\ \A q \in p..NumPartitions :
                    ~(in.rows[q] > 0 /\ \A r \in p..(q - 1) : in.rows[r] = 0)
           \/ /\ NextPart(in, p) \in Partitions /\ NextPart(in, p) >= p
              /\ in.rows[NextPart(in, p)] > 0
              /\ \A r \in p..(NextPart(in, p) - 1) : in.rows[r] = 0
<1> DEFINE next == {q \in p..NumPartitions :
                       in.rows[q] > 0 /\ \A r \in p..(q - 1) : in.rows[r] = 0}
           n == NextPart(in, p)
<1>1. NumPartitions \in Nat /\ Partitions = 1..NumPartitions
  BY Constants
<1>2. CASE next = {}
  <2>1. n = 0
    BY Zenon, <1>2 DEF NextPart
  <2> QED
    BY Zenon, <1>2, <2>1
<1>3. CASE next # {}
  <2>1. n \in next
    BY Zenon, <1>3 DEF NextPart
  <2> HIDE DEF n
  <2>2. n \in p..NumPartitions /\ in.rows[n] > 0 /\ \A r \in p..(n - 1) : in.rows[r] = 0
    BY <2>1
  <2>3. n \in Partitions /\ n >= p
    BY <1>1, <2>2
  <2> QED
    BY <2>2, <2>3 DEF n
<1> QED
  BY <1>2, <1>3

(* An input always has a first partition.                                  *)
LEMMA FirstPart ==
    ASSUME exchange \in Exchanges, NEW in \in Inputs
    PROVE  NextPart(in, 1) \in Partitions /\ in.rows[NextPart(in, 1)] > 0
<1>1. NumPartitions \in Nat /\ Partitions = 1..NumPartitions
  BY Constants
<1>2. \E q \in 1..NumPartitions : in.rows[q] > 0 /\ \A r \in 1..(q - 1) : in.rows[r] = 0
  BY Zenon, <1>1, InputType
<1>3. 1 \in 1..(NumPartitions + 1)
  BY <1>1
<1> QED
  BY Zenon, <1>2, <1>3, NextPartIs

-----------------------------------------------------------------------------
(* Types                                                                   *)

(* The types of the queues depend on their variables only ..               *)
LEMMA QueueFrame ==
    ASSUME QueueTypes, exchange' = exchange, UNCHANGED <<queueVars, memoryVars>>
    PROVE  QueueTypes'
  BY Fixed DEF QueueTypes, queueVars, memoryVars

(* .. so do those of the vector pool ..                                    *)
LEMMA PoolFrame ==
    ASSUME PoolTypes, exchange' = exchange, UNCHANGED <<poolVars, content>>
    PROVE  PoolTypes'
  BY Fixed DEF PoolTypes, poolVars

(* .. of the producers ..                                                  *)
LEMMA ProducerFrame ==
    ASSUME ProducerTypes, exchange' = exchange, UNCHANGED producerVars,
           \A i \in Producers : ProducerAt(i),
           futures' \in [Producers -> SUBSET Partitions]
    PROVE  ProducerTypes' /\ \A i \in Producers' : ProducerAt(i)'
<1>1. ProducerTypes'
  BY Fixed DEF ProducerTypes, producerVars
<1>2. \A i \in Producers' : ProducerAt(i)'
  BY Fixed DEF ProducerAt, producerVars
<1> QED
  BY <1>1, <1>2

(* .. and of the consumers.                                                *)
LEMMA ConsumerFrame ==
    ASSUME ConsumerTypes, exchange' = exchange, UNCHANGED <<cpc, consumerVars>>
    PROVE  ConsumerTypes'
  BY Fixed DEF ConsumerTypes, consumerVars

(* TypeInv from its parts.                                                 *)
LEMMA TypesTogether ==
    ASSUME exchange \in Exchanges, exchange' = exchange,
           QueueTypes', PoolTypes', ProducerTypes', ConsumerTypes',
           \A i \in Producers' : ProducerAt(i)'
    PROVE  TypeInv'
  BY DEF TypeInv

(* What producer j has is not touched by the others.                       *)
LEMMA OtherProducer ==
    ASSUME NEW j \in Producers, ProducerAt(j), exchange' = exchange,
           ppc'[j] = ppc[j], part'[j] = part[j], input'[j] = input[j],
           numInputs'[j] = numInputs[j], vec'[j] = vec[j], pNotify'[j] = pNotify[j]
    PROVE  ProducerAt(j)'
  BY Fixed DEF ProducerAt

(* Where a producer is when it goes on with partition p.                   *)
LEMMA AddToType ==
    ASSUME TypeInv, NEW i \in Producers, NEW in \in Inputs, NEW p \in 0..NumPartitions,
           AddTo(i, in, p)
    PROVE  /\ ppc' \in [Producers -> Adding \cup {"create", "run", "noMoreData",
                                                  "noMoreDataNotify", "done"}]
           /\ part' \in [Producers -> 0..NumPartitions]
           /\ input' \in [Producers -> Inputs \cup {NoInput}]
           /\ part'[i] = p
           /\ p = 0 => ppc'[i] = "run"
           /\ p # 0 => input'[i] = in /\ ppc'[i] \in {"enqueue", "getVector"}
           /\ p # 0 /\ ppc'[i] = "enqueue" => in.single
           /\ \A j \in Producers \ {i} :
                 ppc'[j] = ppc[j] /\ part'[j] = part[j] /\ input'[j] = input[j]
<1>1. /\ ppc \in [Producers -> Adding \cup {"create", "run", "noMoreData",
                                            "noMoreDataNotify", "done"}]
      /\ part \in [Producers -> 0..NumPartitions]
      /\ input \in [Producers -> Inputs \cup {NoInput}]
  BY Zenon DEF TypeInv, ProducerTypes
<1>2. part' \in [Producers -> 0..NumPartitions]
  BY Zenon, <1>1 DEF AddTo
<1>3. input' \in [Producers -> Inputs \cup {NoInput}]
  BY Zenon, <1>1 DEF AddTo
<1>4. ppc' \in [Producers -> Adding \cup {"create", "run", "noMoreData",
                                          "noMoreDataNotify", "done"}]
  BY Zenon, <1>1 DEF AddTo, Adding
<1>5. /\ part'[i] = p
      /\ p = 0 => ppc'[i] = "run"
      /\ p # 0 => input'[i] = in /\ ppc'[i] \in {"enqueue", "getVector"}
      /\ p # 0 /\ ppc'[i] = "enqueue" => in.single
  BY Zenon, <1>1 DEF AddTo
<1>6. \A j \in Producers \ {i} :
         ppc'[j] = ppc[j] /\ part'[j] = part[j] /\ input'[j] = input[j]
  BY Zenon, <1>1 DEF AddTo
<1> QED
  BY Zenon, <1>2, <1>3, <1>4, <1>5, <1>6

(* The consumers and producers whose promises are fulfilled                *)
LEMMA NotifyType ==
    ASSUME TypeInv, NEW S, notify(S), exchange' = exchange,
           UNCHANGED consumerVars
    PROVE  ConsumerTypes' /\ futures' \in [Producers -> SUBSET Partitions]
<1>1. cpc' \in [Partitions -> {"create", "run", "waiting", "notify", "push", "hold",
                               "finished", "closing", "closed"}]
  BY Zenon DEF TypeInv, ConsumerTypes, notify
<1>2. ConsumerTypes'
  BY Zenon, <1>1, Fixed DEF TypeInv, ConsumerTypes, consumerVars
<1>3. futures' \in [Producers -> SUBSET Partitions]
  <2>1. \A i \in Producers : futures[i] \subseteq Partitions
    BY Zenon DEF TypeInv, ProducerTypes
  <2> QED
    BY Zenon, <2>1 DEF notify
<1> QED
  BY Zenon, <1>2, <1>3

(* The exchange that the task has created.                                 *)
LEMMA InitTypes == Init => TypeInv
<1> SUFFICES ASSUME Init PROVE TypeInv
  BY Zenon
<1>1. exchange \in Exchanges
  BY Zenon DEF Init
<1>2. MaxInputs \in Nat /\ NumPartitions \in Nat
  BY Zenon, <1>1, Constants
<1>3. QueueTypes /\ PoolTypes
  <2>1. <<>> \in Seq(Entry)
    OBVIOUS
  <2>2. queue \in [Partitions -> Seq(Entry)] /\ pool \in Seq(Entry)
    BY Zenon, <2>1 DEF Init
  <2>3. /\ pendingProducers \in [Partitions -> Int]
        /\ content \in [Items -> Items]
    BY DEF Init
  <2> QED
    <3>1. /\ noMoreProducers \in BOOLEAN
          /\ closed \subseteq Partitions /\ consumerPromises \subseteq Partitions
          /\ promises \subseteq Producers \X Partitions
      <4>1. /\ noMoreProducers = FALSE /\ closed = {} /\ consumerPromises = {}
            /\ promises = {}
        BY Zenon DEF Init
      <4>2. noMoreProducers \in BOOLEAN
        BY Zenon, <4>1
      <4>3. /\ closed \subseteq Partitions /\ consumerPromises \subseteq Partitions
            /\ promises \subseteq Producers \X Partitions
        BY Zenon, <4>1
      <4> QED
        BY Zenon, <4>2, <4>3
    <3> QED
      BY Zenon, <2>2, <2>3, <3>1 DEF QueueTypes, PoolTypes
<1>4. ProducerTypes
  <2>1. 0 \in 0..NumPartitions /\ 0 \in 0..MaxInputs
    BY <1>2
  <2>2. /\ part \in [Producers -> 0..NumPartitions]
        /\ numInputs \in [Producers -> 0..MaxInputs]
    BY Zenon, <2>1 DEF Init
  <2>3. /\ ppc \in [Producers -> Adding \cup {"create", "run", "noMoreData",
                                              "noMoreDataNotify", "done"}]
        /\ input \in [Producers -> Inputs \cup {NoInput}]
        /\ vec \in [Producers -> Items \cup {NoVector}]
        /\ upstream \in [Producers -> Items \cup {NoVector}]
    BY Zenon DEF Init
  <2>4. /\ futures \in [Producers -> SUBSET Partitions]
        /\ pNotify \in [Producers -> SUBSET ({0} \X Partitions)]
    BY Zenon DEF Init
  <2> QED
    BY Zenon, <2>2, <2>3, <2>4 DEF ProducerTypes
<1>5. ConsumerTypes
  BY Zenon DEF Init, ConsumerTypes
<1>6. \A i \in Producers : ProducerAt(i)
  BY Zenon DEF Init, ProducerAt, Adding
<1> QED
  BY Zenon, <1>1, <1>3, <1>4, <1>5, <1>6 DEF TypeInv

(* addProducer and noMoreProducers keep the types.                         *)
LEMMA CreateTypes ==
    ASSUME TypeInv, Create
    PROVE  TypeInv'
<1>1. CASE NoMoreProducers
  <2>1. exchange' = exchange /\ UNCHANGED producerVars /\ UNCHANGED futures
    BY Zenon, <1>1 DEF NoMoreProducers
  <2>2. QueueTypes'
    BY Zenon, <1>1, <2>1, Fixed DEF NoMoreProducers, TypeInv, QueueTypes, memoryVars
  <2>3. PoolTypes'
    BY Zenon, <1>1, <2>1, PoolFrame DEF NoMoreProducers, TypeInv
  <2>4. ConsumerTypes'
    BY Zenon, <1>1, <2>1, Fixed DEF NoMoreProducers, TypeInv, ConsumerTypes, consumerVars
  <2>5. ProducerTypes' /\ \A i \in Producers' : ProducerAt(i)'
    <3>1. futures' \in [Producers -> SUBSET Partitions]
      BY Zenon, <2>1 DEF TypeInv, ProducerTypes
    <3> QED
      BY Zenon, <2>1, <3>1, ProducerFrame DEF TypeInv
  <2> QED
    BY Zenon, <2>1, <2>2, <2>3, <2>4, <2>5, TypesTogether DEF TypeInv
<1>2. ASSUME NEW i \in Producers, AddProducer(i)
      PROVE  TypeInv'
  <2>1. exchange' = exchange
    BY Zenon, <1>2 DEF AddProducer
  <2>2. QueueTypes'
    <3>1. pendingProducers' \in [Partitions -> Int]
      BY <1>2 DEF AddProducer, TypeInv, QueueTypes
    <3> QED
      BY Zenon, <1>2, <2>1, <3>1, Fixed DEF AddProducer, TypeInv, QueueTypes, memoryVars
  <2>3. PoolTypes'
    BY Zenon, <1>2, <2>1, PoolFrame DEF AddProducer, TypeInv
  <2>4. ConsumerTypes'
    BY Zenon, <1>2, <2>1, ConsumerFrame DEF AddProducer, TypeInv
  <2>5. /\ ppc' \in [Producers -> Adding \cup {"create", "run", "noMoreData",
                                               "noMoreDataNotify", "done"}]
        /\ ppc'[i] = "run" /\ \A j \in Producers \ {i} : ppc'[j] = ppc[j]
    BY Zenon, <1>2 DEF AddProducer, TypeInv, ProducerTypes
  <2>6. ProducerTypes'
    BY Zenon, <1>2, <2>1, <2>5, Fixed DEF AddProducer, TypeInv, ProducerTypes
  <2>7. ASSUME NEW j \in Producers
        PROVE  ProducerAt(j)'
    <3>1. CASE j = i
      BY Zenon, <1>2, <2>5, <3>1 DEF AddProducer, TypeInv, ProducerAt, Adding
    <3>2. CASE j # i
      BY Zenon, <1>2, <2>1, <2>5, <3>2, OtherProducer DEF AddProducer, TypeInv
    <3> QED
      BY Zenon, <3>1, <3>2
  <2> QED
    BY Zenon, <2>1, <2>2, <2>3, <2>4, <2>6, <2>7, Fixed, TypesTogether DEF TypeInv
<1> QED
  BY Zenon, <1>1, <1>2 DEF Create
(* The partition after the one a producer is at                            *)
LEMMA NextPartType ==
    ASSUME TypeInv, NEW i \in Producers, ppc[i] \in Adding
    PROVE  /\ input[i] \in Inputs /\ part[i] \in Partitions
           /\ part[i] + 1 \in 1..(NumPartitions + 1)
           /\ NextPart(input[i], part[i] + 1) \in 0..NumPartitions
           /\ NextPart(input[i], part[i] + 1) # 0 =>
                 /\ NextPart(input[i], part[i] + 1) \in Partitions
                 /\ NextPart(input[i], part[i] + 1) > part[i]
                 /\ input[i].rows[NextPart(input[i], part[i] + 1)] > 0
<1>1. input[i] \in Inputs /\ part[i] \in Partitions /\ exchange \in Exchanges
  BY Zenon DEF TypeInv, ProducerAt
<1>2. NumPartitions \in Nat /\ Partitions = 1..NumPartitions
  BY Zenon, <1>1, Constants
<1>3. part[i] + 1 \in 1..(NumPartitions + 1)
  BY <1>1, <1>2
<1> DEFINE n == NextPart(input[i], part[i] + 1)
<1>4. \/ n = 0
      \/ n \in Partitions /\ n >= part[i] + 1 /\ input[i].rows[n] > 0
  BY Zenon, <1>1, <1>3, NextPartIs
<1> HIDE DEF n
<1>5. n \in 0..NumPartitions /\ (n # 0 => n > part[i])
  BY <1>1, <1>2, <1>4
<1>6. n # 0 => n \in Partitions /\ input[i].rows[n] > 0
  BY Zenon, <1>4
<1> QED
  BY Zenon, <1>1, <1>3, <1>5, <1>6 DEF n

(* An input that goes to one partition is enqueued once.                   *)
LEMMA SingleOnce ==
    ASSUME exchange \in Exchanges, NEW in \in Inputs, NEW p \in Partitions,
           in.rows[p] > 0, in.single
    PROVE  /\ NextPart(in, p + 1) = 0
           /\ \A q \in Partitions \ {p} : in.rows[q] = 0
<1>1. NumPartitions \in Nat /\ Partitions = 1..NumPartitions
  BY Zenon, Constants
<1>2. PICK o \in Partitions : \A q \in Partitions \ {o} : in.rows[q] = 0
  BY Zenon, InputType
<1>3. o = p
  BY <1>2
<1>4. p + 1 \in 1..(NumPartitions + 1)
  BY <1>1
<1> DEFINE n == NextPart(in, p + 1)
<1>5. n = 0 \/ (n \in Partitions /\ n >= p + 1 /\ in.rows[n] > 0)
  BY Zenon, <1>4, NextPartIs
<1> HIDE DEF n
<1>6. n \in Partitions /\ n >= p + 1 => n # p
  BY <1>1
<1>7. n = 0
  BY <1>2, <1>3, <1>5, <1>6
<1> QED
  BY Zenon, <1>2, <1>3, <1>7 DEF n

(* addInput keeps the types.                                               *)
LEMMA AddInputTypes ==
    ASSUME TypeInv, NEW i \in Producers, AddInput(i)
    PROVE  TypeInv'
<1>1. /\ exchange' = exchange /\ exchange \in Exchanges
      /\ UNCHANGED <<queueVars, memoryVars, poolVars, content, pNotify, futures,
                     cpc, consumerVars, historyVars>>
  BY Zenon DEF AddInput, TypeInv
<1>2. QueueTypes' /\ PoolTypes' /\ ConsumerTypes'
  BY Zenon, <1>1, QueueFrame, PoolFrame, ConsumerFrame DEF TypeInv
<1>3. PICK in \in Inputs :
          /\ AddTo(i, in, NextPart(in, 1))
          /\ IF in.single
             THEN /\ vec' = [vec EXCEPT ![i] = <<i, numInputs'[i], NextPart(in, 1)>>]
                  /\ upstream' = [upstream EXCEPT ![i] = vec'[i]]
             ELSE /\ upstream' = [upstream EXCEPT ![i] = NoVector]
                  /\ UNCHANGED vec
  BY Zenon DEF AddInput
<1> DEFINE p == NextPart(in, 1)
<1>4. p \in Partitions /\ in.rows[p] > 0
  BY Zenon, <1>1, FirstPart
<1> HIDE DEF p
<1>5. p \in 0..NumPartitions /\ p # 0 /\ MaxInputs \in Nat
  BY <1>1, <1>4, Constants
<1>6. AddTo(i, in, p)
  BY Zenon, <1>3 DEF p
<1>7. /\ ppc' \in [Producers -> Adding \cup {"create", "run", "noMoreData",
                                             "noMoreDataNotify", "done"}]
      /\ part' \in [Producers -> 0..NumPartitions]
      /\ input' \in [Producers -> Inputs \cup {NoInput}]
      /\ part'[i] = p /\ input'[i] = in /\ ppc'[i] \in {"enqueue", "getVector"}
      /\ ppc'[i] = "enqueue" => in.single
      /\ \A j \in Producers \ {i} :
            ppc'[j] = ppc[j] /\ part'[j] = part[j] /\ input'[j] = input[j]
  BY Zenon, <1>5, <1>6, AddToType
<1>8. /\ numInputs \in [Producers -> 0..MaxInputs]
      /\ vec \in [Producers -> Items \cup {NoVector}]
      /\ upstream \in [Producers -> Items \cup {NoVector}]
  BY Zenon DEF TypeInv, ProducerTypes
<1>9. /\ numInputs' = [numInputs EXCEPT ![i] = numInputs[i] + 1]
      /\ numInputs[i] < MaxInputs /\ ppc[i] = "run"
  BY Zenon DEF AddInput
<1>10. /\ numInputs' \in [Producers -> 0..MaxInputs]
       /\ numInputs'[i] \in 1..MaxInputs
       /\ \A j \in Producers \ {i} : numInputs'[j] = numInputs[j]
  <2>1. numInputs[i] + 1 \in 1..MaxInputs /\ numInputs[i] + 1 \in 0..MaxInputs
    BY <1>5, <1>8, <1>9
  <2> QED
    BY Zenon, <1>8, <1>9, <2>1
<1>11. <<i, numInputs'[i], p>> \in Items
  BY Zenon, <1>4, <1>10 DEF Items
<1>12. /\ vec' \in [Producers -> Items \cup {NoVector}]
       /\ upstream' \in [Producers -> Items \cup {NoVector}]
       /\ in.single => vec'[i] \in Items
       /\ \A j \in Producers \ {i} : vec'[j] = vec[j]
  <2>1. CASE in.single
    <3>1. vec' = [vec EXCEPT ![i] = <<i, numInputs'[i], p>>]
      BY Zenon, <1>3, <2>1 DEF p
    <3>2. /\ vec' \in [Producers -> Items \cup {NoVector}]
          /\ vec'[i] \in Items
          /\ \A j \in Producers \ {i} : vec'[j] = vec[j]
      BY Zenon, <1>8, <1>11, <3>1
    <3>3. upstream' = [upstream EXCEPT ![i] = vec'[i]]
      BY Zenon, <1>3, <2>1
    <3> QED
      BY Zenon, <1>8, <3>2, <3>3
  <2>2. CASE ~in.single
    BY Zenon, <1>3, <1>8, <2>2
  <2> QED
    BY Zenon, <2>1, <2>2
<1>13. ProducerTypes'
  BY Zenon, <1>1, <1>7, <1>10, <1>12, Fixed DEF TypeInv, ProducerTypes
<1>14. ASSUME NEW j \in Producers
       PROVE  ProducerAt(j)'
  <2>1. CASE j = i
    <3>1. pNotify'[i] = {}
      BY Zenon, <1>1, <1>9 DEF TypeInv, ProducerAt
    <3>2. numInputs'[i] > 0
      BY <1>5, <1>10
    <3> QED
      BY Zenon, <1>1, <1>4, <1>7, <1>12, <2>1, <3>1, <3>2, Fixed DEF ProducerAt, Adding
  <2>2. CASE j # i
    BY Zenon, <1>1, <1>7, <1>10, <1>12, <2>2, OtherProducer DEF TypeInv
  <2> QED
    BY Zenon, <2>1, <2>2
<1> QED
  BY Zenon, <1>1, <1>2, <1>13, <1>14, Fixed, TypesTogether

(* A sequence without its first k elements.                                *)
LEMMA SuffixType ==
    ASSUME NEW S, NEW q \in Seq(S), NEW k \in 0..Len(q)
    PROVE  /\ SubSeq(q, k + 1, Len(q)) \in Seq(S)
           /\ Len(SubSeq(q, k + 1, Len(q))) = Len(q) - k
           /\ \A j \in 1..(Len(q) - k) : SubSeq(q, k + 1, Len(q))[j] = q[j + k]
<1>1. Len(q) \in Nat /\ k + 1 \in 1..(Len(q) + 1)
  OBVIOUS
<1>2. Len(SubSeq(q, k + 1, Len(q))) = Len(q) - k
  BY <1>1
<1> QED
  BY <1>1, <1>2

(* pop() drops entries and returns one of them, or nothing.                *)
LEMMA PopType ==
    ASSUME TypeInv, NEW i \in Producers, GetVector(i)
    PROVE  /\ \E k \in 0..Len(pool) : pool' = SubSeq(pool, k + 1, Len(pool))
           /\ pool' \in Seq(Entry)
           /\ Reusable # {} => Popped \in Reusable /\ Popped \in 1..Len(pool)
<1>1. pool \in Seq(Entry)
  BY Zenon DEF TypeInv, PoolTypes
<1>2. Reusable \subseteq 1..Len(pool) /\ Len(pool) \in Nat
  BY <1>1 DEF Reusable
<1>3. Reusable # {} => Popped \in Reusable
  BY Zenon DEF Popped
<1> DEFINE k == IF Reusable = {} THEN Len(pool) ELSE Popped
<1>4. k \in 0..Len(pool)
  <2>1. CASE Reusable = {}
    <3>1. k = Len(pool)
      BY Zenon, <2>1
    <3> QED
      BY <1>2, <3>1
  <2>2. CASE Reusable # {}
    <3>1. k = Popped
      BY Zenon, <2>2
    <3>2. k \in 1..Len(pool)
      BY Zenon, <1>2, <1>3, <2>2, <3>1
    <3> QED
      BY <1>2, <3>2
  <2> QED
    BY Zenon, <2>1, <2>2
<1>5. pool' = SubSeq(pool, k + 1, Len(pool))
  BY Zenon DEF GetVector, pop
<1> HIDE DEF k
<1>6. pool' \in Seq(Entry)
  BY Zenon, <1>1, <1>4, <1>5, SuffixType
<1> QED
  BY Zenon, <1>2, <1>3, <1>4, <1>5, <1>6

(* getOrCreateVector keeps the types.                                      *)
LEMMA GetVectorTypes ==
    ASSUME TypeInv, NEW i \in Producers, GetVector(i)
    PROVE  /\ TypeInv' /\ vec'[i] \in Items
           /\ \/ vec'[i] = <<i, numInputs[i], part[i]>>
              \/ Reusable # {} /\ vec'[i] = pool[Popped].vec
           /\ content' = [content EXCEPT ![vec'[i]] = <<i, numInputs[i], part[i]>>]
           /\ \A j \in Producers \ {i} : vec'[j] = vec[j]
<1>1. /\ exchange' = exchange /\ exchange \in Exchanges
      /\ UNCHANGED <<queueVars, memoryVars, part, input, numInputs, upstream,
                     pNotify, futures, cpc, consumerVars, historyVars>>
  BY Zenon DEF GetVector, TypeInv
<1>2. QueueTypes' /\ ConsumerTypes'
  BY Zenon, <1>1, QueueFrame, ConsumerFrame DEF TypeInv
<1> DEFINE item == <<i, numInputs[i], part[i]>>
           v == IF Reusable = {} THEN item ELSE pool[Popped].vec
<1>3. item \in Items
  <2>1. part[i] \in Partitions /\ numInputs[i] > 0 /\ numInputs[i] \in 0..MaxInputs
    BY Zenon DEF GetVector, TypeInv, ProducerTypes, ProducerAt, Adding
  <2>2. numInputs[i] \in 1..MaxInputs
    BY <1>1, <2>1, Constants
  <2> QED
    BY Zenon, <2>1, <2>2 DEF Items
<1>4. v \in Items
  <2>1. CASE Reusable = {}
    BY Zenon, <1>3, <2>1
  <2>2. CASE Reusable # {}
    <3>1. Popped \in 1..Len(pool) /\ pool \in Seq(Entry)
      BY Zenon, <2>2, PopType DEF TypeInv, PoolTypes
    <3>2. pool[Popped] \in Entry
      BY <3>1
    <3> QED
      BY Zenon, <2>2, <3>2 DEF Entry
  <2> QED
    BY Zenon, <2>1, <2>2
<1>5. /\ vec' = [vec EXCEPT ![i] = v]
      /\ content' = [content EXCEPT ![v] = item]
      /\ ppc' = [ppc EXCEPT ![i] = "enqueue"]
      /\ ppc[i] = "getVector"
  BY Zenon DEF GetVector
<1>6. v = item \/ (Reusable # {} /\ v = pool[Popped].vec)
  <2>1. CASE Reusable = {}
    BY Zenon, <2>1
  <2>2. CASE Reusable # {}
    BY Zenon, <2>2
  <2> QED
    BY Zenon, <2>1, <2>2
<1> HIDE DEF v, item
<1>7. PoolTypes'
  <2>1. content' \in [Items -> Items]
    BY Zenon, <1>3, <1>4, <1>5 DEF TypeInv, PoolTypes
  <2> QED
    BY Zenon, <1>1, <2>1, Fixed, PopType DEF PoolTypes
<1>8. /\ vec' \in [Producers -> Items \cup {NoVector}]
      /\ vec'[i] = v
      /\ \A j \in Producers \ {i} : vec'[j] = vec[j]
  BY Zenon, <1>4, <1>5 DEF TypeInv, ProducerTypes
<1>9. /\ ppc' \in [Producers -> Adding \cup {"create", "run", "noMoreData",
                                             "noMoreDataNotify", "done"}]
      /\ ppc'[i] = "enqueue"
      /\ \A j \in Producers \ {i} : ppc'[j] = ppc[j]
  BY Zenon, <1>5 DEF TypeInv, ProducerTypes, Adding
<1>10. ProducerTypes'
  BY Zenon, <1>1, <1>8, <1>9, Fixed DEF TypeInv, ProducerTypes
<1>11. ASSUME NEW j \in Producers
       PROVE  ProducerAt(j)'
  <2>1. CASE j = i
    BY Zenon, <1>1, <1>4, <1>5, <1>8, <1>9, <2>1, Fixed DEF TypeInv, ProducerAt, Adding
  <2>2. CASE j # i
    BY Zenon, <1>1, <1>8, <1>9, <2>2, OtherProducer DEF TypeInv
  <2> QED
    BY Zenon, <2>1, <2>2
<1>12. TypeInv'
  BY Zenon, <1>1, <1>2, <1>7, <1>10, <1>11, Fixed, TypesTogether
<1> QED
  BY Zenon, <1>4, <1>5, <1>6, <1>8, <1>12 DEF item

(* What enqueue() appends                                                  *)
LEMMA EnqueuedEntry ==
    ASSUME TypeInv, NEW i \in Producers, Enqueue(i)
    PROVE  /\ input[i] \in Inputs /\ part[i] \in Partitions /\ vec[i] \in Items
           /\ [vec |-> vec[i], bytes |-> InputBytes(input[i], part[i])] \in Entry
<1>1. /\ exchange \in Exchanges
      /\ input[i] \in Inputs /\ part[i] \in Partitions /\ vec[i] \in Items
  BY Zenon DEF Enqueue, TypeInv, ProducerAt, Adding
<1>2. InputBytes(input[i], part[i]) \in Sizes
  BY <1>1 DEF Sizes
<1> QED
  BY Zenon, <1>1, <1>2 DEF Entry

(* A producer that goes on to the next partition of its input              *)
LEMMA GoOnTypes ==
    ASSUME TypeInv, NEW i \in Producers, ppc[i] \in Adding, exchange' = exchange,
           AddTo(i, input[i], NextPart(input[i], part[i] + 1)),
           UNCHANGED <<numInputs, upstream>>,
           vec' \in [Producers -> Items \cup {NoVector}],
           futures' \in [Producers -> SUBSET Partitions],
           pNotify' \in [Producers -> SUBSET ({0} \X Partitions)],
           pNotify'[i] = {},
           \A j \in Producers \ {i} : vec'[j] = vec[j] /\ pNotify'[j] = pNotify[j]
    PROVE  ProducerTypes' /\ \A j \in Producers' : ProducerAt(j)'
<1> DEFINE n == NextPart(input[i], part[i] + 1)
<1>1. /\ input[i] \in Inputs /\ part[i] \in Partitions /\ n \in 0..NumPartitions
      /\ n # 0 => n \in Partitions /\ input[i].rows[n] > 0
  BY Zenon, NextPartType
<1>2. AddTo(i, input[i], n) /\ (~input[i].single \/ n = 0)
  BY Zenon, SingleOnce DEF TypeInv, ProducerAt
<1> HIDE DEF n
<1>3. /\ ppc' \in [Producers -> Adding \cup {"create", "run", "noMoreData",
                                             "noMoreDataNotify", "done"}]
      /\ part' \in [Producers -> 0..NumPartitions]
      /\ input' \in [Producers -> Inputs \cup {NoInput}]
      /\ part'[i] = n
      /\ n = 0 => ppc'[i] = "run"
      /\ n # 0 => input'[i] = input[i] /\ ppc'[i] \in {"enqueue", "getVector"}
      /\ n # 0 /\ ppc'[i] = "enqueue" => input[i].single
      /\ \A j \in Producers \ {i} :
            ppc'[j] = ppc[j] /\ part'[j] = part[j] /\ input'[j] = input[j]
  BY Zenon, <1>1, <1>2, AddToType
<1>4. ProducerTypes'
  BY Zenon, <1>3, Fixed DEF TypeInv, ProducerTypes
<1>5. numInputs[i] > 0
  BY Zenon DEF TypeInv, ProducerAt
<1>6. ASSUME NEW j \in Producers
      PROVE  ProducerAt(j)'
  <2>1. CASE j = i
    <3>1. CASE n = 0
      BY Zenon, <1>3, <2>1, <3>1 DEF ProducerAt, Adding
    <3>2. CASE n # 0
      BY Zenon, <1>1, <1>2, <1>3, <1>5, <2>1, <3>2, Fixed DEF ProducerAt, Adding
    <3> QED
      BY Zenon, <3>1, <3>2
  <2>2. CASE j # i
    BY Zenon, <1>3, <2>2, OtherProducer DEF TypeInv
  <2> QED
    BY Zenon, <2>1, <2>2
<1> QED
  BY Zenon, <1>4, <1>6, Fixed
(* enqueue(): the data is dropped, or appended; then the consumer's        *)
(* promise is fulfilled first if there is one.                             *)
LEMMA EnqueueTypes ==
    ASSUME TypeInv, NEW i \in Producers, Enqueue(i)
    PROVE  TypeInv'
<1> DEFINE p == part[i]
           bytes == InputBytes(input[i], p)
           e == [vec |-> vec[i], bytes |-> bytes]
<1>1. /\ exchange' = exchange /\ exchange \in Exchanges /\ ppc[i] = "enqueue"
      /\ UNCHANGED <<pendingProducers, noMoreProducers, closed, poolVars,
                     content, numInputs, upstream, cpc, consumerVars>>
  BY Zenon DEF Enqueue, TypeInv
<1>2. p \in Partitions /\ e \in Entry /\ input[i] \in Inputs
  BY Zenon, EnqueuedEntry
<1>3. PoolTypes' /\ ConsumerTypes'
  BY Zenon, <1>1, PoolFrame, ConsumerFrame DEF TypeInv
<1>4. vec' = [vec EXCEPT ![i] = NoVector]
  BY Zenon DEF Enqueue
<1>5. /\ vec' \in [Producers -> Items \cup {NoVector}]
      /\ \A j \in Producers \ {i} : vec'[j] = vec[j]
  BY Zenon, <1>4 DEF TypeInv, ProducerTypes
<1>6. /\ futures \in [Producers -> SUBSET Partitions]
      /\ pNotify \in [Producers -> SUBSET ({0} \X Partitions)]
      /\ pNotify[i] = {}
  BY Zenon, <1>1 DEF TypeInv, ProducerTypes, ProducerAt
<1>7. CASE p \in closed
  <2>1. /\ AddTo(i, input[i], NextPart(input[i], p + 1))
        /\ UNCHANGED <<queue, consumerPromises, memoryVars, futures, pNotify>>
    BY Zenon, <1>7 DEF Enqueue
  <2>2. QueueTypes'
    BY Zenon, <1>1, <2>1, QueueFrame DEF TypeInv, queueVars
  <2>3. ProducerTypes' /\ \A j \in Producers' : ProducerAt(j)'
    <3>1. UNCHANGED <<numInputs, upstream>> /\ ppc[i] \in Adding
      BY Zenon, <1>1 DEF Adding
    <3> QED
      BY Zenon, <1>1, <1>5, <1>6, <2>1, <3>1, GoOnTypes
  <2> QED
    BY Zenon, <1>1, <1>3, <2>2, <2>3, TypesTogether
<1>8. CASE p \notin closed
  <2>1. /\ queue' = [queue EXCEPT ![p] = Append(queue[p], e)]
        /\ pNotify' = [pNotify EXCEPT ![i] = Consumer(p)]
        /\ consumerPromises' = consumerPromises \ {p}
        /\ increaseMemoryUsage(i, p, bytes)
        /\ IF Consumer(p) = {}
           THEN AddTo(i, input[i], NextPart(input[i], p + 1))
           ELSE /\ ppc' = [ppc EXCEPT ![i] = "notify"]
                /\ UNCHANGED <<part, input>>
    BY Zenon, <1>8 DEF Enqueue
  <2> HIDE DEF e, bytes
  <2>2. queue' \in [Partitions -> Seq(Entry)]
    <3>1. queue \in [Partitions -> Seq(Entry)]
      BY Zenon DEF TypeInv, QueueTypes
    <3>2. Append(queue[p], e) \in Seq(Entry)
      BY <1>2, <3>1
    <3> QED
      BY Zenon, <2>1, <3>1, <3>2
  <2>3. /\ promises' \subseteq Producers \X Partitions
        /\ futures' \in [Producers -> SUBSET Partitions]
    <3>1. promises \subseteq Producers \X Partitions
      BY Zenon DEF TypeInv, QueueTypes
    <3>2. futures[i] \cup {p} \in SUBSET Partitions
      BY Zenon, <1>2, <1>6
    <3> QED
      BY <1>2, <1>6, <2>1, <3>1, <3>2 DEF increaseMemoryUsage
  <2>4. QueueTypes'
    BY Zenon, <1>1, <2>1, <2>2, <2>3, Fixed DEF TypeInv, QueueTypes
  <2>5. Consumer(p) \in SUBSET ({0} \X Partitions)
    BY <1>2 DEF Consumer
  <2>6. /\ pNotify' \in [Producers -> SUBSET ({0} \X Partitions)]
        /\ pNotify'[i] = Consumer(p)
        /\ \A j \in Producers \ {i} : pNotify'[j] = pNotify[j]
    BY Zenon, <1>6, <2>1, <2>5
  <2>7. ProducerTypes' /\ \A j \in Producers' : ProducerAt(j)'
    <3>1. CASE Consumer(p) = {}
      <4>1. UNCHANGED <<numInputs, upstream>> /\ ppc[i] \in Adding
        BY Zenon, <1>1 DEF Adding
      <4> QED
        BY Zenon, <1>1, <1>5, <2>1, <2>3, <2>6, <3>1, <4>1, GoOnTypes
    <3>2. CASE Consumer(p) # {}
      <4>1. ppc' = [ppc EXCEPT ![i] = "notify"] /\ UNCHANGED <<part, input>>
        BY Zenon, <2>1, <3>2
      <4>2. /\ ppc' \in [Producers -> Adding \cup {"create", "run", "noMoreData",
                                                   "noMoreDataNotify", "done"}]
            /\ ppc'[i] = "notify" /\ \A j \in Producers \ {i} : ppc'[j] = ppc[j]
        BY Zenon, <4>1 DEF TypeInv, ProducerTypes, Adding
      <4>3. ProducerTypes'
        BY Zenon, <1>1, <1>5, <2>3, <2>6, <4>1, <4>2, Fixed DEF TypeInv, ProducerTypes
      <4>4. ASSUME NEW j \in Producers
            PROVE  ProducerAt(j)'
        <5>1. CASE j = i
          <6>1. /\ input[i] \in Inputs /\ part[i] \in Partitions /\ numInputs[i] > 0
                /\ input[i].rows[part[i]] > 0
            BY Zenon, <1>1 DEF TypeInv, ProducerAt, Adding
          <6> QED
            BY Zenon, <1>1, <4>1, <4>2, <5>1, <6>1, Fixed DEF ProducerAt, Adding
        <5>2. CASE j # i
          BY Zenon, <1>1, <1>5, <2>6, <4>1, <4>2, <5>2, OtherProducer DEF TypeInv
        <5> QED
          BY Zenon, <5>1, <5>2
      <4> QED
        BY Zenon, <1>1, <4>3, <4>4, Fixed
    <3> QED
      BY Zenon, <3>1, <3>2
  <2> QED
    BY Zenon, <1>1, <1>3, <2>4, <2>7, TypesTogether
<1> QED
  BY Zenon, <1>7, <1>8

(* The consumer promises fulfilled by enqueue.                             *)
LEMMA EnqueueNotifyTypes ==
    ASSUME TypeInv, NEW i \in Producers, EnqueueNotify(i)
    PROVE  TypeInv'
<1>1. /\ exchange' = exchange /\ exchange \in Exchanges /\ ppc[i] = "notify"
      /\ UNCHANGED <<queueVars, memoryVars, poolVars, content, numInputs, vec,
                     upstream, consumerVars>>
      /\ notify(pNotify[i]) /\ pNotify' = [pNotify EXCEPT ![i] = {}]
      /\ AddTo(i, input[i], NextPart(input[i], part[i] + 1))
  BY Zenon DEF EnqueueNotify, TypeInv
<1>2. QueueTypes' /\ PoolTypes'
  BY Zenon, <1>1, QueueFrame, PoolFrame DEF TypeInv
<1>3. ConsumerTypes' /\ futures' \in [Producers -> SUBSET Partitions]
  BY Zenon, <1>1, NotifyType
<1>4. ProducerTypes' /\ \A j \in Producers' : ProducerAt(j)'
  <2>1. /\ pNotify' \in [Producers -> SUBSET ({0} \X Partitions)]
        /\ pNotify'[i] = {}
        /\ \A j \in Producers \ {i} : pNotify'[j] = pNotify[j]
    BY Zenon, <1>1 DEF TypeInv, ProducerTypes
  <2>2. vec' \in [Producers -> Items \cup {NoVector}] /\ ppc[i] \in Adding
    BY Zenon, <1>1 DEF TypeInv, ProducerTypes, Adding
  <2> QED
    BY Zenon, <1>1, <1>3, <2>1, <2>2, GoOnTypes
<1> QED
  BY Zenon, <1>1, <1>2, <1>3, <1>4, TypesTogether

(* noMoreInput keeps the types.                                            *)
LEMMA NoMoreInputTypes ==
    ASSUME TypeInv, NEW i \in Producers, NoMoreInput(i)
    PROVE  TypeInv'
<1>1. /\ exchange' = exchange /\ exchange \in Exchanges /\ ppc[i] = "run"
      /\ UNCHANGED <<queueVars, memoryVars, poolVars, content, input, numInputs,
                     vec, pNotify, futures, cpc, consumerVars>>
      /\ ppc' = [ppc EXCEPT ![i] = "noMoreData"]
      /\ part' = [part EXCEPT ![i] = 1]
      /\ upstream' = [upstream EXCEPT ![i] = NoVector]
  BY Zenon DEF NoMoreInput, TypeInv
<1>2. QueueTypes' /\ PoolTypes' /\ ConsumerTypes'
  BY Zenon, <1>1, QueueFrame, PoolFrame, ConsumerFrame DEF TypeInv
<1>3. 1 \in Partitions /\ 1 \in 0..NumPartitions
  BY <1>1, Constants
<1>4. /\ ppc' \in [Producers -> Adding \cup {"create", "run", "noMoreData",
                                             "noMoreDataNotify", "done"}]
      /\ ppc'[i] = "noMoreData" /\ \A j \in Producers \ {i} : ppc'[j] = ppc[j]
  BY Zenon, <1>1 DEF TypeInv, ProducerTypes
<1>5. /\ part' \in [Producers -> 0..NumPartitions]
      /\ part'[i] = 1 /\ \A j \in Producers \ {i} : part'[j] = part[j]
  BY Zenon, <1>1, <1>3 DEF TypeInv, ProducerTypes
<1>6. upstream' \in [Producers -> Items \cup {NoVector}]
  BY Zenon, <1>1 DEF TypeInv, ProducerTypes
<1>7. ProducerTypes'
  BY Zenon, <1>1, <1>4, <1>5, <1>6, Fixed DEF TypeInv, ProducerTypes
<1>8. ASSUME NEW j \in Producers
      PROVE  ProducerAt(j)'
  <2>1. CASE j = i
    <3>1. pNotify[i] = {}
      BY Zenon, <1>1 DEF TypeInv, ProducerAt
    <3> QED
      BY Zenon, <1>1, <1>3, <1>4, <1>5, <2>1, <3>1, Fixed DEF ProducerAt, Adding
  <2>2. CASE j # i
    BY Zenon, <1>1, <1>4, <1>5, <2>2, OtherProducer DEF TypeInv
  <2> QED
    BY Zenon, <2>1, <2>2
<1> QED
  BY Zenon, <1>1, <1>2, <1>7, <1>8, Fixed, TypesTogether

(* noMoreInput() on to the next queue, or done                             *)
LEMMA NextQueueTypes ==
    ASSUME TypeInv, NEW i \in Producers, exchange' = exchange,
           ppc[i] \in {"noMoreData", "noMoreDataNotify"}, NextQueue(i),
           UNCHANGED <<input, numInputs, vec, upstream>>,
           futures' \in [Producers -> SUBSET Partitions],
           pNotify' = [pNotify EXCEPT ![i] = {}]
    PROVE  ProducerTypes' /\ \A j \in Producers' : ProducerAt(j)'
<1>1. part[i] \in Partitions /\ exchange \in Exchanges
  BY Zenon DEF TypeInv, ProducerAt
<1>2. NumPartitions \in Nat /\ Partitions = 1..NumPartitions
  BY Zenon, <1>1, Constants
<1>3. \E n \in 0..NumPartitions, c \in {"noMoreData", "done"} :
         /\ part' = [part EXCEPT ![i] = n] /\ ppc' = [ppc EXCEPT ![i] = c]
         /\ c = "noMoreData" => n \in Partitions
  <2>1. CASE part[i] < NumPartitions
    <3>1. part[i] + 1 \in Partitions /\ part[i] + 1 \in 0..NumPartitions
      BY <1>1, <1>2, <2>1
    <3> QED
      BY Zenon, <2>1, <3>1 DEF NextQueue
  <2>2. CASE ~(part[i] < NumPartitions)
    <3>1. 0 \in 0..NumPartitions
      BY <1>2
    <3> QED
      BY Zenon, <2>2, <3>1 DEF NextQueue
  <2> QED
    BY Zenon, <2>1, <2>2
<1>4. PICK n \in 0..NumPartitions, c \in {"noMoreData", "done"} :
         /\ part' = [part EXCEPT ![i] = n] /\ ppc' = [ppc EXCEPT ![i] = c]
         /\ c = "noMoreData" => n \in Partitions
  BY Zenon, <1>3
<1>5. /\ ppc' \in [Producers -> Adding \cup {"create", "run", "noMoreData",
                                             "noMoreDataNotify", "done"}]
      /\ ppc'[i] = c /\ \A j \in Producers \ {i} : ppc'[j] = ppc[j]
  BY Zenon, <1>4 DEF TypeInv, ProducerTypes
<1>6. /\ part' \in [Producers -> 0..NumPartitions]
      /\ part'[i] = n /\ \A j \in Producers \ {i} : part'[j] = part[j]
  BY Zenon, <1>4 DEF TypeInv, ProducerTypes
<1>7. /\ pNotify' \in [Producers -> SUBSET ({0} \X Partitions)]
      /\ pNotify'[i] = {} /\ \A j \in Producers \ {i} : pNotify'[j] = pNotify[j]
  BY Zenon DEF TypeInv, ProducerTypes
<1>8. ProducerTypes'
  BY Zenon, <1>5, <1>6, <1>7, Fixed DEF TypeInv, ProducerTypes
<1>9. ASSUME NEW j \in Producers
      PROVE  ProducerAt(j)'
  <2>1. CASE j = i
    BY Zenon, <1>4, <1>5, <1>6, <1>7, <2>1, Fixed DEF ProducerAt, Adding
  <2>2. CASE j # i
    BY Zenon, <1>5, <1>6, <1>7, <2>2, OtherProducer DEF TypeInv
  <2> QED
    BY Zenon, <2>1, <2>2
<1> QED
  BY Zenon, <1>8, <1>9, Fixed

(* noMoreData keeps the types.                                             *)
LEMMA NoMoreDataTypes ==
    ASSUME TypeInv, NEW i \in Producers, NoMoreData(i)
    PROVE  TypeInv'
<1> DEFINE p == part[i]
           left == pendingProducers[p] - 1
<1>1. /\ exchange' = exchange /\ exchange \in Exchanges /\ ppc[i] = "noMoreData"
      /\ UNCHANGED <<queue, noMoreProducers, closed, memoryVars, poolVars,
                     content, input, numInputs, vec, upstream, futures, cpc, consumerVars>>
      /\ pendingProducers' = [pendingProducers EXCEPT ![p] = left]
  BY Zenon DEF NoMoreData, TypeInv
<1>2. p \in Partitions /\ pNotify[i] = {}
  BY Zenon, <1>1 DEF TypeInv, ProducerAt
<1>3. PoolTypes' /\ ConsumerTypes'
  BY Zenon, <1>1, PoolFrame, ConsumerFrame DEF TypeInv
<1>4. pendingProducers' \in [Partitions -> Int]
  <2>1. pendingProducers \in [Partitions -> Int]
    BY Zenon DEF TypeInv, QueueTypes
  <2> QED
    BY <1>1, <1>2, <2>1
<1>5. consumerPromises' \subseteq Partitions
  <2>1. consumerPromises' \subseteq consumerPromises
    BY Zenon DEF NoMoreData
  <2> QED
    BY Zenon, <2>1 DEF TypeInv, QueueTypes
<1>6. QueueTypes'
  BY Zenon, <1>1, <1>4, <1>5, Fixed DEF TypeInv, QueueTypes, memoryVars
<1>7. ProducerTypes' /\ \A j \in Producers' : ProducerAt(j)'
  <2>1. CASE noMoreProducers /\ left = 0 /\ p \in consumerPromises
    <3>1. /\ pNotify' = [pNotify EXCEPT ![i] = Consumer(p)]
          /\ ppc' = [ppc EXCEPT ![i] = "noMoreDataNotify"]
          /\ UNCHANGED part
      BY Zenon, <2>1 DEF NoMoreData
    <3>2. Consumer(p) \in SUBSET ({0} \X Partitions)
      BY <1>2 DEF Consumer
    <3>3. /\ pNotify' \in [Producers -> SUBSET ({0} \X Partitions)]
          /\ \A j \in Producers \ {i} : pNotify'[j] = pNotify[j]
      BY Zenon, <3>1, <3>2 DEF TypeInv, ProducerTypes
    <3>4. /\ ppc' \in [Producers -> Adding \cup {"create", "run", "noMoreData",
                                                 "noMoreDataNotify", "done"}]
          /\ ppc'[i] = "noMoreDataNotify"
          /\ \A j \in Producers \ {i} : ppc'[j] = ppc[j]
      BY Zenon, <3>1 DEF TypeInv, ProducerTypes
    <3>5. ProducerTypes'
      BY Zenon, <1>1, <3>1, <3>3, <3>4, Fixed DEF TypeInv, ProducerTypes
    <3>6. ASSUME NEW j \in Producers
          PROVE  ProducerAt(j)'
      <4>1. CASE j = i
        BY Zenon, <1>1, <1>2, <3>1, <3>4, <4>1, Fixed DEF ProducerAt, Adding
      <4>2. CASE j # i
        BY Zenon, <1>1, <3>1, <3>3, <3>4, <4>2, OtherProducer DEF TypeInv
      <4> QED
        BY Zenon, <4>1, <4>2
    <3> QED
      BY Zenon, <1>1, <3>5, <3>6, Fixed
  <2>2. CASE ~(noMoreProducers /\ left = 0 /\ p \in consumerPromises)
    <3>1. NextQueue(i) /\ UNCHANGED pNotify
      BY Zenon, <2>2 DEF NoMoreData
    <3>2. pNotify' = [pNotify EXCEPT ![i] = {}]
      BY Zenon, <1>2, <3>1 DEF TypeInv, ProducerTypes
    <3>3. futures' \in [Producers -> SUBSET Partitions]
      BY Zenon, <1>1 DEF TypeInv, ProducerTypes
    <3> QED
      BY Zenon, <1>1, <3>1, <3>2, <3>3, NextQueueTypes
  <2> QED
    BY Zenon, <2>1, <2>2
<1> QED
  BY Zenon, <1>1, <1>3, <1>6, <1>7, TypesTogether

(* The consumer promises fulfilled by noMoreData.                          *)
LEMMA NoMoreDataNotifyTypes ==
    ASSUME TypeInv, NEW i \in Producers, NoMoreDataNotify(i)
    PROVE  TypeInv'
<1>1. /\ exchange' = exchange /\ exchange \in Exchanges
      /\ ppc[i] = "noMoreDataNotify"
      /\ UNCHANGED <<queueVars, memoryVars, poolVars, content, input, numInputs,
                     vec, upstream, consumerVars>>
      /\ notify(pNotify[i]) /\ pNotify' = [pNotify EXCEPT ![i] = {}] /\ NextQueue(i)
  BY Zenon DEF NoMoreDataNotify, TypeInv
<1>2. QueueTypes' /\ PoolTypes'
  BY Zenon, <1>1, QueueFrame, PoolFrame DEF TypeInv
<1>3. ConsumerTypes' /\ futures' \in [Producers -> SUBSET Partitions]
  BY Zenon, <1>1, NotifyType
<1>4. ProducerTypes' /\ \A j \in Producers' : ProducerAt(j)'
  BY Zenon, <1>1, <1>3, NextQueueTypes
<1> QED
  BY Zenon, <1>1, <1>2, <1>3, <1>4, TypesTogether
(* The futures of the producers whose promises a consumer fulfils          *)
LEMMA FuturesType ==
    ASSUME TypeInv, NEW S,
           futures' = [i \in Producers |-> {q \in futures[i] : <<i, q>> \notin S}]
    PROVE  futures' \in [Producers -> SUBSET Partitions]
<1>1. \A i \in Producers : futures[i] \subseteq Partitions
  BY Zenon DEF TypeInv, ProducerTypes
<1> QED
  BY Zenon, <1>1

(* A consumer that moves to c with entry e in hand and the promises S      *)
LEMMA ConsumerMoves ==
    ASSUME TypeInv, NEW p \in Partitions, exchange' = exchange,
           NEW c \in {"run", "waiting", "notify", "push", "hold", "finished",
                      "closing", "closed"},
           NEW e \in Entry \cup {NoEntry},
           NEW S \in SUBSET ((0..exchange.producers) \X Partitions),
           cpc' = [cpc EXCEPT ![p] = c],
           held' = held \/ held' = [held EXCEPT ![p] = e],
           cNotify' = cNotify \/ cNotify' = [cNotify EXCEPT ![p] = S]
    PROVE  ConsumerTypes'
<1>1. cpc' \in [Partitions -> {"create", "run", "waiting", "notify", "push", "hold",
                               "finished", "closing", "closed"}]
  BY Zenon DEF TypeInv, ConsumerTypes
<1>2. held' \in [Partitions -> Entry \cup {NoEntry}]
  BY Zenon DEF TypeInv, ConsumerTypes
<1>3. cNotify' \in [Partitions -> SUBSET ((0..exchange.producers) \X Partitions)]
  BY Zenon DEF TypeInv, ConsumerTypes
<1> QED
  BY Zenon, <1>1, <1>2, <1>3, Fixed DEF ConsumerTypes

(* What next() and close() take out of the queue and the memory manager    *)
LEMMA TakenTypes ==
    ASSUME TypeInv, NEW n
    PROVE  /\ Released(n) \subseteq promises
           /\ Released(n) \in SUBSET ((0..exchange.producers) \X Partitions)
           /\ \A p \in Partitions :
                 Consumer(p) \in SUBSET ((0..exchange.producers) \X Partitions)
<1>1. Released(n) \subseteq promises /\ promises \subseteq Producers \X Partitions
  BY Zenon DEF TypeInv, QueueTypes, Released
<1>2. Producers \subseteq 0..exchange.producers /\ 0 \in 0..exchange.producers
  BY Constants DEF TypeInv, Producers
<1>3. Producers \X Partitions \subseteq (0..exchange.producers) \X Partitions
  BY Zenon, <1>2
<1>4. \A p \in Partitions :
         Consumer(p) \in SUBSET ((0..exchange.producers) \X Partitions)
  BY <1>2 DEF Consumer
<1> QED
  BY Zenon, <1>1, <1>3, <1>4

(* The first entry of a queue.                                             *)
LEMMA HeadTypes ==
    ASSUME TypeInv, NEW p \in Partitions, queue[p] # <<>>
    PROVE  /\ Head(queue[p]) \in Entry /\ Tail(queue[p]) \in Seq(Entry)
           /\ queue[p] \in Seq(Entry)
<1>1. queue[p] \in Seq(Entry)
  BY Zenon DEF TypeInv, QueueTypes
<1>2. Head(queue[p]) \in Entry /\ Tail(queue[p]) \in Seq(Entry)
  BY <1>1
<1> QED
  BY Zenon, <1>1, <1>2 DEF Entry

(* The other steps of a consumer keep the types.                           *)
LEMMA NextTypes ==
    ASSUME TypeInv, NEW p \in Partitions,
           NextFinished(p) \/ NextBlocks(p) \/ NextNotify(p) \/ CloseNotify(p)
           \/ Consume(p)
    PROVE  TypeInv'
<1>1. /\ exchange' = exchange /\ exchange \in Exchanges
      /\ UNCHANGED <<queue, pendingProducers, noMoreProducers, closed, memoryVars,
                     poolVars, content, producerVars>>
  BY Zenon DEF NextFinished, NextBlocks, NextNotify, CloseNotify, Consume, TypeInv, queueVars
<1>2. PoolTypes'
  BY Zenon, <1>1, PoolFrame DEF TypeInv
<1>3. QueueTypes'
  <2>1. consumerPromises' \subseteq Partitions
    BY Zenon DEF NextFinished, NextBlocks, NextNotify, CloseNotify, Consume, TypeInv,
           QueueTypes, queueVars
  <2> QED
    BY Zenon, <1>1, <2>1, Fixed DEF TypeInv, QueueTypes, memoryVars
<1>4. futures' \in [Producers -> SUBSET Partitions]
  <2>1. \/ UNCHANGED futures
        \/ futures' = [i \in Producers |->
                          {q \in futures[i] : <<i, q>> \notin cNotify[p]}]
    BY Zenon DEF NextFinished, NextBlocks, NextNotify, CloseNotify, Consume
  <2>2. CASE UNCHANGED futures
    BY Zenon, <2>2 DEF TypeInv, ProducerTypes
  <2> QED
    BY Zenon, <2>1, <2>2, FuturesType
<1>5. ProducerTypes' /\ \A i \in Producers' : ProducerAt(i)'
  BY <1>1, <1>4, ProducerFrame, Zenon DEF TypeInv
<1>6. ConsumerTypes'
  <2>1. PICK c \in {"run", "waiting", "notify", "push", "hold", "finished",
                     "closing", "closed"} : cpc' = [cpc EXCEPT ![p] = c]
    BY Zenon DEF NextFinished, NextBlocks, NextNotify, CloseNotify, Consume
  <2>2. held' = held \/ held' = [held EXCEPT ![p] = NoEntry]
    BY Zenon DEF NextFinished, NextBlocks, NextNotify, CloseNotify, Consume, consumerVars
  <2>3. cNotify' = cNotify \/ cNotify' = [cNotify EXCEPT ![p] = {}]
    BY Zenon DEF NextFinished, NextBlocks, NextNotify, CloseNotify, Consume, consumerVars
  <2>4. /\ NoEntry \in Entry \cup {NoEntry}
        /\ {} \in SUBSET ((0..exchange.producers) \X Partitions)
    BY Zenon
  <2> QED
    BY Zenon, <1>1, <2>1, <2>2, <2>3, <2>4, ConsumerMoves
<1> QED
  BY Zenon, <1>1, <1>2, <1>3, <1>5, <1>6, TypesTogether

(* next that takes an entry keeps the types.                               *)
LEMMA NextDataTypes ==
    ASSUME TypeInv, NEW p \in Partitions, NextData(p)
    PROVE  TypeInv'
<1> DEFINE e == Head(queue[p])
<1>1. /\ exchange' = exchange /\ exchange \in Exchanges
      /\ UNCHANGED <<pendingProducers, noMoreProducers, closed, consumerPromises,
                     poolVars, content, producerVars, futures>>
      /\ held' = [held EXCEPT ![p] = e]
      /\ queue' = [queue EXCEPT ![p] = Tail(queue[p])]
      /\ decreaseMemoryUsage(e.bytes)
      /\ cNotify' = [cNotify EXCEPT ![p] = Released(e.bytes)]
      /\ cpc' = [cpc EXCEPT ![p] = IF Released(e.bytes) = {} THEN "push" ELSE "notify"]
  BY Zenon DEF NextData, TypeInv
<1>2. e \in Entry /\ Tail(queue[p]) \in Seq(Entry)
  BY Zenon, HeadTypes DEF NextData
<1> HIDE DEF e
<1>3. PoolTypes'
  BY Zenon, <1>1, PoolFrame DEF TypeInv
<1>4. QueueTypes'
  <2>1. queue' \in [Partitions -> Seq(Entry)]
    BY Zenon, <1>1, <1>2 DEF TypeInv, QueueTypes
  <2>2. promises' \subseteq Producers \X Partitions
    BY Zenon, <1>1 DEF TypeInv, QueueTypes, decreaseMemoryUsage
  <2> QED
    BY Zenon, <1>1, <2>1, <2>2, Fixed DEF TypeInv, QueueTypes
<1>5. ProducerTypes' /\ \A i \in Producers' : ProducerAt(i)'
  <2>1. futures' \in [Producers -> SUBSET Partitions]
    BY Zenon, <1>1 DEF TypeInv, ProducerTypes
  <2> QED
    BY <1>1, <2>1, ProducerFrame, Zenon DEF TypeInv
<1>6. ConsumerTypes'
  <2>1. Released(e.bytes) \in SUBSET ((0..exchange.producers) \X Partitions)
    BY Zenon, TakenTypes
  <2>2. (IF Released(e.bytes) = {} THEN "push" ELSE "notify") \in {"push", "notify"}
    BY Zenon
  <2> QED
    BY Zenon, <1>1, <1>2, <2>1, <2>2, ConsumerMoves
<1> QED
  BY Zenon, <1>1, <1>3, <1>4, <1>5, <1>6, TypesTogether

(* A vector that returns to the pool.                                      *)
LEMMA PushTypes ==
    ASSUME TypeInv, NEW p \in Partitions, Push(p), held[p] \in Entry
    PROVE  TypeInv'
<1>1. /\ exchange' = exchange /\ exchange \in Exchanges
      /\ UNCHANGED <<queueVars, memoryVars, content, producerVars, futures, consumerVars>>
      /\ cpc' = [cpc EXCEPT ![p] = "hold"]
  BY Zenon DEF Push, TypeInv
<1>2. QueueTypes'
  BY Zenon, <1>1, QueueFrame DEF TypeInv
<1>3. PoolTypes'
  <2>1. pool \in Seq(Entry) /\ Append(pool, held[p]) \in Seq(Entry)
    BY DEF TypeInv, PoolTypes
  <2>2. pool' = pool \/ pool' = Append(pool, held[p])
    BY Zenon DEF Push, poolVars
  <2> QED
    BY Zenon, <1>1, <2>1, <2>2, Fixed DEF TypeInv, PoolTypes
<1>4. ProducerTypes' /\ \A i \in Producers' : ProducerAt(i)'
  <2>1. futures' \in [Producers -> SUBSET Partitions]
    BY Zenon, <1>1 DEF TypeInv, ProducerTypes
  <2> QED
    BY <1>1, <2>1, ProducerFrame, Zenon DEF TypeInv
<1>5. ConsumerTypes'
  <2>1. {} \in SUBSET ((0..exchange.producers) \X Partitions)
    BY Zenon
  <2> QED
    BY Zenon, <1>1, <2>1, ConsumerMoves DEF consumerVars
<1> QED
  BY Zenon, <1>1, <1>2, <1>3, <1>4, <1>5, TypesTogether

(* close of a queue keeps the types.                                       *)
LEMMA CloseTypes ==
    ASSUME TypeInv, NEW p \in Partitions, Close(p)
    PROVE  TypeInv'
<1> DEFINE freed == freedBytes(p)
<1>1. /\ exchange' = exchange /\ exchange \in Exchanges
      /\ UNCHANGED <<pendingProducers, noMoreProducers, poolVars, content,
                     producerVars, futures>>
      /\ queue' = [queue EXCEPT ![p] = <<>>]
      /\ consumerPromises' = consumerPromises \ {p}
      /\ closed' = closed \cup {p}
      /\ held' = [held EXCEPT ![p] = NoEntry]
      /\ cpc' = [cpc EXCEPT ![p] = IF cNotify'[p] = {} THEN "closed" ELSE "closing"]
  BY Zenon DEF Close, TypeInv
<1>2. \/ /\ decreaseMemoryUsage(freed)
         /\ cNotify' = [cNotify EXCEPT ![p] = Consumer(p) \cup Released(freed)]
      \/ /\ cNotify' = [cNotify EXCEPT ![p] = Consumer(p)]
         /\ UNCHANGED memoryVars
  BY Zenon DEF Close
<1> HIDE DEF freed
<1>3. PoolTypes'
  BY Zenon, <1>1, PoolFrame DEF TypeInv
<1>4. QueueTypes'
  <2>1. <<>> \in Seq(Entry) /\ queue \in [Partitions -> Seq(Entry)]
    BY DEF TypeInv, QueueTypes
  <2>2. queue' \in [Partitions -> Seq(Entry)]
    BY Zenon, <1>1, <2>1
  <2>3. promises' \subseteq Producers \X Partitions
    BY Zenon, <1>2 DEF TypeInv, QueueTypes, decreaseMemoryUsage, memoryVars
  <2>4. closed' \subseteq Partitions /\ consumerPromises' \subseteq Partitions
    BY Zenon, <1>1 DEF TypeInv, QueueTypes
  <2> QED
    BY Zenon, <1>1, <2>2, <2>3, <2>4, Fixed DEF TypeInv, QueueTypes
<1>5. ProducerTypes' /\ \A i \in Producers' : ProducerAt(i)'
  <2>1. futures' \in [Producers -> SUBSET Partitions]
    BY Zenon, <1>1 DEF TypeInv, ProducerTypes
  <2> QED
    BY <1>1, <2>1, ProducerFrame, Zenon DEF TypeInv
<1>6. ConsumerTypes'
  <2>1. PICK S \in SUBSET ((0..exchange.producers) \X Partitions) :
           cNotify' = [cNotify EXCEPT ![p] = S]
    BY Zenon, <1>2, TakenTypes
  <2>2. (IF cNotify'[p] = {} THEN "closed" ELSE "closing") \in {"closed", "closing"}
    BY Zenon
  <2> QED
    BY Zenon, <1>1, <2>1, <2>2, ConsumerMoves
<1> QED
  BY Zenon, <1>1, <1>3, <1>4, <1>5, <1>6, TypesTogether
-----------------------------------------------------------------------------
(* Where producers and consumers are                                       *)

(* No queue of the created exchange has ended.                             *)
LEMMA InitState == Init => StateInv
<1> SUFFICES ASSUME Init PROVE StateInv
  BY Zenon
<1>1. ~noMoreProducers
  BY Zenon DEF Init
<1>2. \A i \in Producers : ppc[i] \in {"create", "run"}
  BY Zenon DEF Init
<1>3. \A p \in Partitions : cpc[p] = "create" /\ held[p] = NoEntry
  BY Zenon DEF Init
<1>4. \A p \in Partitions : p \notin closed
  BY Zenon DEF Init
<1>5. \A p \in Partitions : ConsumerAt(p)
  BY Zenon, <1>3, <1>4 DEF ConsumerAt
<1> QED
  BY Zenon, <1>1, <1>2, <1>3, <1>5 DEF StateInv

(* addInput() and noMoreInput() are called after noMoreProducers().        *)
LEMMA ProduceStates ==
    ASSUME TypeInv, StateInv, NEW i \in Producers, Produce(i)
    PROVE  /\ noMoreProducers /\ exchange' = exchange
           /\ noMoreProducers' = noMoreProducers /\ closed' = closed /\ held' = held
           /\ \A j \in Producers : ppc'[j] # "create"
           /\ \A j \in Producers \ {i} : ppc'[j] = ppc[j]
<1>1. noMoreProducers
  <2>1. CASE AddInput(i) \/ NoMoreInput(i)
    BY Zenon, <2>1 DEF AddInput, NoMoreInput
  <2>2. CASE ~(AddInput(i) \/ NoMoreInput(i))
    <3>1. ppc[i] \notin {"create", "run"}
      BY Zenon, <2>2 DEF Produce, GetVector, Enqueue, EnqueueNotify, NoMoreData, NoMoreDataNotify
    <3> QED
      BY Zenon, <3>1 DEF StateInv
  <2> QED
    BY Zenon, <2>1, <2>2
<1>2. PICK c : ppc' = [ppc EXCEPT ![i] = c] /\ c # "create"
  <2>1. ASSUME NEW in, NEW p, AddTo(i, in, p)
        PROVE  \E c : ppc' = [ppc EXCEPT ![i] = c] /\ c # "create"
    <3> DEFINE c == IF p = 0 THEN "run" ELSE IF in.single THEN "enqueue" ELSE "getVector"
    <3>1. ppc' = [ppc EXCEPT ![i] = c]
      BY Zenon, <2>1 DEF AddTo
    <3>2. c # "create"
      BY Zenon
    <3> QED
      BY Zenon, <3>1, <3>2
  <2>2. CASE AddInput(i)
    <3>1. PICK in \in Inputs : AddTo(i, in, NextPart(in, 1))
      BY Zenon, <2>2 DEF AddInput
    <3> QED
      BY Zenon, <2>1, <3>1
  <2>3. CASE GetVector(i)
    <3>1. ppc' = [ppc EXCEPT ![i] = "enqueue"]
      BY Zenon, <2>3 DEF GetVector
    <3>2. "enqueue" # "create"
      BY Zenon
    <3> QED
      BY Zenon, <3>1, <3>2
  <2>4. CASE Enqueue(i)
    <3>1. \/ AddTo(i, input[i], NextPart(input[i], part[i] + 1))
          \/ ppc' = [ppc EXCEPT ![i] = "notify"]
      BY Zenon, <2>4 DEF Enqueue
    <3>2. "notify" # "create"
      BY Zenon
    <3> QED
      BY Zenon, <2>1, <3>1, <3>2
  <2>5. CASE EnqueueNotify(i)
    BY Zenon, <2>1, <2>5 DEF EnqueueNotify
  <2>6. CASE NoMoreInput(i)
    <3>1. ppc' = [ppc EXCEPT ![i] = "noMoreData"]
      BY Zenon, <2>6 DEF NoMoreInput
    <3>2. "noMoreData" # "create"
      BY Zenon
    <3> QED
      BY Zenon, <3>1, <3>2
  <2>7. CASE NoMoreData(i) \/ NoMoreDataNotify(i)
    <3>1. \/ ppc' = [ppc EXCEPT ![i] = "noMoreDataNotify"]
          \/ ppc' = [ppc EXCEPT ![i] = "noMoreData"]
          \/ ppc' = [ppc EXCEPT ![i] = "done"]
      BY Zenon, <2>7 DEF NoMoreData, NoMoreDataNotify, NextQueue
    <3> QED
      BY <3>1
  <2> QED
    BY Zenon, <2>2, <2>3, <2>4, <2>5, <2>6, <2>7 DEF Produce
<1>3. ppc \in [Producers -> Adding \cup {"create", "run", "noMoreData",
                                         "noMoreDataNotify", "done"}]
  BY Zenon DEF TypeInv, ProducerTypes
<1>4. \A j \in Producers : ppc[j] # "create"
  BY Zenon, <1>1 DEF StateInv
<1>5. ppc'[i] # "create" /\ \A j \in Producers \ {i} : ppc'[j] = ppc[j]
  BY Zenon, <1>2, <1>3
<1>6. /\ exchange' = exchange /\ closed' = closed /\ held' = held
      /\ noMoreProducers' = noMoreProducers
  BY Zenon DEF Produce, AddInput, GetVector, Enqueue, EnqueueNotify, NoMoreInput, NoMoreData,
         NoMoreDataNotify, queueVars, consumerVars
<1> QED
  BY Zenon, <1>1, <1>4, <1>5, <1>6

(* What the producers do keeps the states of the queues.                   *)
LEMMA ProduceState ==
    ASSUME TypeInv, StateInv, NEW i \in Producers, Produce(i)
    PROVE  StateInv'
<1>1. /\ noMoreProducers /\ exchange' = exchange
      /\ noMoreProducers' = noMoreProducers /\ closed' = closed /\ held' = held
      /\ \A j \in Producers : ppc'[j] # "create"
  BY Zenon, ProduceStates
<1>2. ASSUME NEW p \in Partitions
      PROVE  cpc'[p] = cpc[p] \/ (cpc[p] = "waiting" /\ cpc'[p] = "run")
  <2>1. CASE EnqueueNotify(i) \/ NoMoreDataNotify(i)
    BY Zenon, <2>1 DEF EnqueueNotify, NoMoreDataNotify, notify
  <2>2. CASE ~(EnqueueNotify(i) \/ NoMoreDataNotify(i))
    <3>1. UNCHANGED cpc
      BY Zenon, <2>2 DEF Produce, AddInput, GetVector, Enqueue, NoMoreInput, NoMoreData
    <3> QED
      BY Zenon, <3>1
  <2> QED
    BY Zenon, <2>1, <2>2
<1>3. ASSUME NEW p \in Partitions
      PROVE  ConsumerAt(p)'
  <2>1. ConsumerAt(p)
    BY Zenon DEF StateInv
  <2> QED
    BY Zenon, <1>1, <1>2, <2>1, Fixed DEF ConsumerAt
<1> QED
  BY Zenon, <1>1, <1>3, Fixed DEF StateInv

(* What addProducer and noMoreProducers do keeps the states.               *)
LEMMA CreateState ==
    ASSUME TypeInv, StateInv, Create
    PROVE  StateInv'
<1>1. exchange' = exchange /\ closed' = closed /\ held' = held /\ ~noMoreProducers
  BY Zenon DEF Create, NoMoreProducers, AddProducer, consumerVars
<1>2. /\ \A i \in Producers : ppc[i] \in {"create", "run"}
      /\ \A p \in Partitions : cpc[p] = "create"
  BY Zenon, <1>1 DEF StateInv
<1>3. \A p \in Partitions : p \notin closed /\ held[p] = NoEntry
  BY Zenon, <1>2 DEF StateInv, ConsumerAt
<1>4. CASE NoMoreProducers
  <2>1. /\ \A i \in Producers : ppc[i] # "create"
        /\ ppc' = ppc /\ cpc' = [p \in Partitions |-> "run"] /\ noMoreProducers' = TRUE
    BY Zenon, <1>4 DEF NoMoreProducers, producerVars
  <2>2. \A p \in Partitions : ConsumerAt(p)'
    BY Zenon, <1>1, <1>3, <2>1, Fixed DEF ConsumerAt
  <2> QED
    BY Zenon, <1>1, <2>1, <2>2, Fixed DEF StateInv
<1>5. ASSUME NEW i \in Producers, AddProducer(i)
      PROVE  StateInv'
  <2>1. /\ ppc' = [ppc EXCEPT ![i] = "run"] /\ cpc' = cpc
        /\ noMoreProducers' = noMoreProducers
    BY Zenon, <1>5 DEF AddProducer
  <2>2. ppc \in [Producers -> Adding \cup {"create", "run", "noMoreData",
                                           "noMoreDataNotify", "done"}]
    BY Zenon DEF TypeInv, ProducerTypes
  <2>3. \A j \in Producers : ppc'[j] \in {"create", "run"}
    BY Zenon, <1>2, <2>1, <2>2
  <2>4. \A p \in Partitions : ConsumerAt(p)'
    BY Zenon, <1>1, <1>2, <1>3, <2>1, Fixed DEF ConsumerAt
  <2> QED
    BY Zenon, <1>1, <1>2, <2>1, <2>3, <2>4, Fixed DEF StateInv
<1> QED
  BY Zenon, <1>4, <1>5 DEF Create

(* The consumer that moves is somewhere else than "create", for good.      *)
LEMMA ConsumeStates ==
    ASSUME TypeInv, StateInv, NEW p \in Partitions, Fetch(p) \/ Close(p)
    PROVE  /\ noMoreProducers /\ exchange' = exchange
           /\ noMoreProducers' = noMoreProducers /\ UNCHANGED producerVars
           /\ \A q \in Partitions \ {p} :
                 /\ cpc'[q] = cpc[q] /\ held'[q] = held[q]
                 /\ q \in closed' <=> q \in closed
           /\ \E c \in {"run", "waiting", "notify", "push", "hold", "finished",
                        "closing", "closed"} : cpc' = [cpc EXCEPT ![p] = c]
<1>1. noMoreProducers
  <2>1. cpc[p] # "create"
    BY Zenon DEF Fetch, NextFinished, NextBlocks, NextData, NextNotify, Push, Consume,
           CloseNotify, Close
  <2> QED
    BY Zenon, <2>1 DEF StateInv
<1>2. /\ exchange' = exchange /\ noMoreProducers' = noMoreProducers
      /\ UNCHANGED producerVars
  BY Zenon DEF Fetch, NextFinished, NextBlocks, NextData, NextNotify, Push, Consume,
         CloseNotify, Close, queueVars
<1>3. PICK c \in {"run", "waiting", "notify", "push", "hold", "finished",
                  "closing", "closed"} : cpc' = [cpc EXCEPT ![p] = c]
  BY Zenon DEF Fetch, NextFinished, NextBlocks, NextData, NextNotify, Push, Consume,
         CloseNotify, Close
<1>4. held' = held \/ \E e : held' = [held EXCEPT ![p] = e]
  BY Zenon DEF Fetch, NextFinished, NextBlocks, NextData, NextNotify, Push, Consume,
         CloseNotify, Close, consumerVars
<1>5. closed' = closed \/ closed' = closed \cup {p}
  BY Zenon DEF Fetch, NextFinished, NextBlocks, NextData, NextNotify, Push, Consume,
         CloseNotify, Close, queueVars
<1>6. /\ cpc \in [Partitions -> {"create", "run", "waiting", "notify", "push", "hold",
                                 "finished", "closing", "closed"}]
      /\ held \in [Partitions -> Entry \cup {NoEntry}]
  BY Zenon DEF TypeInv, ConsumerTypes
<1>7. \A q \in Partitions \ {p} : cpc'[q] = cpc[q]
  BY Zenon, <1>3, <1>6
<1>8. \A q \in Partitions \ {p} : held'[q] = held[q]
  BY Zenon, <1>4, <1>6
<1>9. \A q \in Partitions \ {p} : q \in closed' <=> q \in closed
  BY Zenon, <1>5
<1> QED
  BY Zenon, <1>1, <1>2, <1>3, <1>7, <1>8, <1>9
(* What the consumers do keeps the states of the queues.                   *)
LEMMA ConsumeState ==
    ASSUME TypeInv, StateInv, NEW p \in Partitions, Fetch(p) \/ Close(p)
    PROVE  StateInv'
<1>1. /\ noMoreProducers /\ exchange' = exchange
      /\ noMoreProducers' = noMoreProducers /\ UNCHANGED producerVars
      /\ \A q \in Partitions \ {p} :
            /\ cpc'[q] = cpc[q] /\ held'[q] = held[q]
            /\ q \in closed' <=> q \in closed
  BY Zenon, ConsumeStates
<1>2. /\ cpc \in [Partitions -> {"create", "run", "waiting", "notify", "push", "hold",
                                 "finished", "closing", "closed"}]
      /\ held \in [Partitions -> Entry \cup {NoEntry}]
  BY Zenon DEF TypeInv, ConsumerTypes
<1>3. ConsumerAt(p)
  BY Zenon DEF StateInv
<1>4. ConsumerAt(p)'
  <2>1. CASE NextFinished(p) \/ NextBlocks(p)
    <3>1. cpc'[p] \in {"finished", "waiting"} /\ held' = held /\ closed' = closed
      BY Zenon, <1>2, <2>1 DEF NextFinished, NextBlocks, queueVars, consumerVars
    <3>2. cpc[p] = "run"
      BY Zenon, <2>1 DEF NextFinished, NextBlocks
    <3> QED
      BY Zenon, <1>1, <1>3, <3>1, <3>2, Fixed DEF ConsumerAt
  <2>2. CASE NextData(p)
    <3>1. cpc'[p] \in {"push", "notify"} /\ held'[p] = Head(queue[p]) /\ closed' = closed
      BY Zenon, <1>2, <2>2 DEF NextData
    <3>2. cpc[p] = "run" /\ Head(queue[p]) \in Entry
      BY Zenon, <2>2, HeadTypes DEF NextData
    <3> QED
      BY Zenon, <1>1, <1>3, <3>1, <3>2, Fixed DEF ConsumerAt
  <2>3. CASE NextNotify(p) \/ Push(p)
    <3>1. cpc'[p] \in {"push", "hold"} /\ held' = held /\ closed' = closed
      BY Zenon, <1>2, <2>3 DEF NextNotify, Push, queueVars, consumerVars
    <3>2. cpc[p] \in {"notify", "push"}
      BY Zenon, <2>3 DEF NextNotify, Push
    <3> QED
      BY Zenon, <1>1, <1>3, <3>1, <3>2, Fixed DEF ConsumerAt
  <2>4. CASE Consume(p)
    <3>1. cpc'[p] = "run" /\ held'[p] = NoEntry /\ closed' = closed /\ cpc[p] = "hold"
      BY Zenon, <1>2, <2>4 DEF Consume, queueVars
    <3> QED
      BY Zenon, <1>1, <1>3, <3>1, Fixed DEF ConsumerAt
  <2>5. CASE CloseNotify(p)
    <3>1. /\ cpc'[p] = "closed" /\ held' = held /\ closed' = closed
          /\ cpc[p] = "closing"
      BY Zenon, <1>2, <2>5 DEF CloseNotify, queueVars
    <3> QED
      BY Zenon, <1>1, <1>3, <3>1, Fixed DEF ConsumerAt
  <2>6. CASE Close(p)
    <3>1. cpc'[p] \in {"closed", "closing"} /\ held'[p] = NoEntry /\ p \in closed'
      BY Zenon, <1>2, <2>6 DEF Close
    <3> QED
      BY Zenon, <1>1, <3>1, Fixed DEF ConsumerAt
  <2> QED
    BY Zenon, <2>1, <2>2, <2>3, <2>4, <2>5, <2>6 DEF Fetch
<1>5. \A q \in Partitions \ {p} : ConsumerAt(q)'
  <2>1. \A q \in Partitions : ConsumerAt(q)
    BY Zenon DEF StateInv
  <2> QED
    BY Zenon, <1>1, <2>1, Fixed DEF ConsumerAt
<1>6. \A i \in Producers : ppc'[i] # "create"
  BY Zenon, <1>1 DEF StateInv, producerVars
<1> QED
  BY Zenon, <1>1, <1>4, <1>5, <1>6, Fixed DEF StateInv

(* Every step keeps the types and the states.                              *)
LEMMA NextTypesAndStates ==
    ASSUME TypeInv, StateInv, [Next]_vars
    PROVE  TypeInv' /\ StateInv'
<1>1. CASE Create
  BY Zenon, <1>1, CreateTypes, CreateState
<1>2. ASSUME NEW i \in Producers, Produce(i)
      PROVE  TypeInv' /\ StateInv'
  <2>1. TypeInv'
    BY <1>2, AddInputTypes, GetVectorTypes, EnqueueTypes, EnqueueNotifyTypes,
       NoMoreInputTypes, NoMoreDataTypes, NoMoreDataNotifyTypes DEF Produce
  <2> QED
    BY Zenon, <1>2, <2>1, ProduceState
<1>3. ASSUME NEW p \in Partitions, Fetch(p) \/ Close(p)
      PROVE  TypeInv' /\ StateInv'
  <2>1. CASE Push(p)
    <3>1. held[p] \in Entry
      BY Zenon, <2>1 DEF Push, StateInv, ConsumerAt
    <3> QED
      BY Zenon, <1>3, <2>1, <3>1, PushTypes, ConsumeState
  <2>2. CASE ~Push(p)
    BY Zenon, <1>3, <2>2, NextTypes, NextDataTypes, CloseTypes, ConsumeState DEF Fetch
  <2> QED
    BY Zenon, <2>1, <2>2
<1>4. CASE UNCHANGED vars
  <2>1. /\ exchange' = exchange
        /\ UNCHANGED <<queueVars, memoryVars, poolVars, content, producerVars, futures,
                       cpc, consumerVars>>
    BY Zenon, <1>4 DEF vars
  <2>2. QueueTypes' /\ PoolTypes' /\ ConsumerTypes'
    BY Zenon, <2>1, QueueFrame, PoolFrame, ConsumerFrame DEF TypeInv
  <2>3. futures' \in [Producers -> SUBSET Partitions]
    BY Zenon, <2>1 DEF TypeInv, ProducerTypes
  <2>4. ProducerTypes' /\ \A i \in Producers' : ProducerAt(i)'
    BY Zenon, <2>1, <2>3, ProducerFrame DEF TypeInv
  <2>5. TypeInv'
    BY Zenon, <2>1, <2>2, <2>4, TypesTogether DEF TypeInv
  <2>6. StateInv'
    BY Zenon, <2>1, Fixed DEF StateInv, ConsumerAt, queueVars, producerVars, consumerVars
  <2> QED
    BY Zenon, <2>5, <2>6
<1> QED
  BY Zenon, <1>1, <1>2, <1>3, <1>4 DEF Next
-----------------------------------------------------------------------------
(* Who waits                                                               *)

(* Nobody waits in the created exchange.                                   *)
LEMMA InitWait == Init => WaitInv
<1> SUFFICES ASSUME Init PROVE WaitInv
  BY Zenon
<1>1. \A p \in Partitions : cpc[p] = "create" /\ cNotify[p] = {}
  BY Zenon DEF Init
<1>2. \A p \in Partitions : ConsumerWait(p) /\ ToNotify(p)
  BY Zenon, <1>1 DEF ConsumerWait, ToNotify
<1>3. \A i \in Producers : ProducerWait(i)
  BY Zenon DEF Init, ProducerWait
<1> QED
  BY Zenon, <1>2, <1>3 DEF WaitInv

(* A consumer whose queue and promise a step does not touch                *)
LEMMA ConsumerWaitFrame ==
    ASSUME NEW p \in Partitions, ConsumerWait(p), exchange' = exchange,
           cpc'[p] = cpc[p], queue'[p] = queue[p],
           p \in consumerPromises' <=> p \in consumerPromises,
           p \in closed' <=> p \in closed, noMoreProducers' = noMoreProducers,
           pendingProducers'[p] = pendingProducers[p],
           \A i \in Producers : <<0, p>> \in pNotify[i] => <<0, p>> \in pNotify'[i]
    PROVE  ConsumerWait(p)'
<1>1. isFinishedLocked(p)' <=> isFinishedLocked(p)
  BY Zenon DEF isFinishedLocked
<1> QED
  BY Zenon, <1>1, Fixed DEF ConsumerWait

(* A step of another actor leaves the promises to notify alone.            *)
LEMMA ToNotifyFrame ==
    ASSUME NEW p \in Partitions, ToNotify(p), exchange' = exchange, cNotify'[p] = cNotify[p],
           cpc'[p] = cpc[p] \/ (cpc[p] = "waiting" /\ cpc'[p] = "run")
    PROVE  ToNotify(p)'
  BY Zenon, Fixed DEF ToNotify

(* A producer whose futures are fulfilled, or that is left alone.          *)
LEMMA ProducerWaitFrame ==
    ASSUME NEW i \in Producers, ProducerWait(i), exchange' = exchange,
           futures'[i] \subseteq futures[i], promises' = promises, cNotify' = cNotify
    PROVE  ProducerWait(i)'
  BY Zenon, Fixed DEF ProducerWait

(* enqueue() fulfils the promise of the consumer whose queue it fills, and *)
(* leaves a promise of its own when the buffer is full.                    *)
LEMMA EnqueueWait ==
    ASSUME TypeInv, StateInv, WaitInv, NEW i \in Producers, Enqueue(i)
    PROVE  WaitInv'
<1> DEFINE p == part[i]
           bytes == InputBytes(input[i], p)
           e == [vec |-> vec[i], bytes |-> bytes]
<1>1. /\ exchange' = exchange /\ ppc[i] = "enqueue"
      /\ UNCHANGED <<pendingProducers, noMoreProducers, closed, cpc, consumerVars>>
  BY Zenon DEF Enqueue
<1>2. p \in Partitions
  BY Zenon, EnqueuedEntry
<1>3. /\ queue \in [Partitions -> Seq(Entry)]
      /\ futures \in [Producers -> SUBSET Partitions]
      /\ pNotify \in [Producers -> SUBSET ({0} \X Partitions)]
  BY Zenon DEF TypeInv, QueueTypes, ProducerTypes
<1>4. pNotify[i] = {}
  BY Zenon, <1>1 DEF TypeInv, ProducerAt
<1>6. /\ \A q \in Partitions : ConsumerWait(q) /\ ToNotify(q)
      /\ \A j \in Producers : ProducerWait(j)
  BY Zenon DEF WaitInv
<1>7. \A q \in Partitions : ToNotify(q)'
  BY Zenon, <1>1, <1>6, ToNotifyFrame DEF consumerVars
<1>8. CASE p \in closed
  <2>1. UNCHANGED <<queue, consumerPromises, memoryVars, futures, pNotify>>
    BY Zenon, <1>8 DEF Enqueue
  <2>2. \A q \in Partitions : ConsumerWait(q)'
    BY Zenon, <1>1, <1>6, <2>1, ConsumerWaitFrame
  <2>3. \A j \in Producers : ProducerWait(j)'
    BY Zenon, <1>1, <1>6, <2>1, ProducerWaitFrame DEF memoryVars, consumerVars
  <2> QED
    BY Zenon, <1>1, <1>7, <2>2, <2>3, Fixed DEF WaitInv
<1>9. CASE p \notin closed
  <2>1. /\ queue' = [queue EXCEPT ![p] = Append(queue[p], e)]
        /\ pNotify' = [pNotify EXCEPT ![i] = Consumer(p)]
        /\ consumerPromises' = consumerPromises \ {p}
        /\ increaseMemoryUsage(i, p, bytes)
    BY Zenon, <1>9 DEF Enqueue
  <2> HIDE DEF e, bytes
  <2>2. \A q \in Partitions \ {p} : ConsumerWait(q)'
    <3>1. \A q \in Partitions \ {p} : queue'[q] = queue[q]
      BY Zenon, <1>3, <2>1
    <3>2. \A q \in Partitions, j \in Producers :
             <<0, q>> \in pNotify[j] => <<0, q>> \in pNotify'[j]
      BY Zenon, <1>3, <1>4, <2>1
    <3>3. \A q \in Partitions \ {p} : q \in consumerPromises' <=> q \in consumerPromises
      BY Zenon, <2>1
    <3> QED
      BY Zenon, <1>1, <1>6, <3>1, <3>2, <3>3, ConsumerWaitFrame
  <2>3. ASSUME NEW q \in Partitions, q = p
        PROVE  ConsumerWait(q)'
    <3>1. CASE q \in consumerPromises
      <4>1. <<0, q>> \in pNotify'[i]
        BY Zenon, <1>3, <2>1, <2>3, <3>1 DEF Consumer
      <4> QED
        BY Zenon, <1>1, <4>1, Fixed DEF ConsumerWait
    <3>2. CASE q \notin consumerPromises
      <4>1. cpc[q] = "waiting" => \E j \in Producers : <<0, q>> \in pNotify[j]
        BY Zenon, <1>6, <3>2 DEF ConsumerWait
      <4>2. \A j \in Producers : <<0, q>> \in pNotify[j] => <<0, q>> \in pNotify'[j]
        BY Zenon, <1>3, <1>4, <2>1
      <4> QED
        BY Zenon, <1>1, <4>1, <4>2, Fixed DEF ConsumerWait
    <3> QED
      BY Zenon, <3>1, <3>2
  <2>4. ASSUME NEW j \in Producers
        PROVE  ProducerWait(j)'
    <3>1. /\ promises \subseteq promises'
          /\ futures'[j] \subseteq futures[j] \/ (j = i /\ futures'[j] \subseteq futures[j] \cup {p}
                                                  /\ <<i, p>> \in promises')
      BY Zenon, <1>3, <2>1 DEF increaseMemoryUsage
    <3> QED
      BY Zenon, <1>1, <1>6, <3>1, Fixed DEF ProducerWait, consumerVars
  <2> QED
    BY Zenon, <1>1, <1>7, <2>2, <2>3, <2>4, Fixed DEF WaitInv
<1> QED
  BY Zenon, <1>8, <1>9

(* noMoreData() of the last producer wakes a consumer that waits.          *)
LEMMA NoMoreDataWait ==
    ASSUME TypeInv, StateInv, WaitInv, NEW i \in Producers, NoMoreData(i)
    PROVE  WaitInv'
<1> DEFINE p == part[i]
           left == pendingProducers[p] - 1
<1>1. /\ exchange' = exchange /\ ppc[i] = "noMoreData"
      /\ UNCHANGED <<queue, noMoreProducers, closed, memoryVars, futures, cpc, consumerVars>>
      /\ pendingProducers' = [pendingProducers EXCEPT ![p] = left]
  BY Zenon DEF NoMoreData
<1>2. p \in Partitions /\ pNotify[i] = {}
  BY Zenon, <1>1 DEF TypeInv, ProducerAt
<1>3. /\ pendingProducers \in [Partitions -> Int]
      /\ pNotify \in [Producers -> SUBSET ({0} \X Partitions)]
  BY Zenon DEF TypeInv, QueueTypes, ProducerTypes
<1>4. /\ \A q \in Partitions : ConsumerWait(q) /\ ToNotify(q)
      /\ \A j \in Producers : ProducerWait(j)
  BY Zenon DEF WaitInv
<1>5. \A q \in Partitions : ToNotify(q)'
  BY Zenon, <1>1, <1>4, ToNotifyFrame DEF consumerVars
<1>6. \A j \in Producers : ProducerWait(j)'
  BY Zenon, <1>1, <1>4, ProducerWaitFrame DEF memoryVars, consumerVars
<1>8. \/ /\ noMoreProducers /\ left = 0 /\ p \in consumerPromises
         /\ pNotify' = [pNotify EXCEPT ![i] = {<<0, p>>}]
         /\ consumerPromises' = consumerPromises \ {p}
      \/ /\ ~(noMoreProducers /\ left = 0 /\ p \in consumerPromises)
         /\ UNCHANGED <<pNotify, consumerPromises>>
  BY Zenon DEF NoMoreData, Consumer
<1>9. \A q \in Partitions, j \in Producers :
         <<0, q>> \in pNotify[j] => <<0, q>> \in pNotify'[j]
  BY Zenon, <1>2, <1>3, <1>8
<1>10. \A q \in Partitions \ {p} : ConsumerWait(q)'
  <2>1. \A q \in Partitions \ {p} :
           /\ pendingProducers'[q] = pendingProducers[q]
           /\ q \in consumerPromises' <=> q \in consumerPromises
    BY Zenon, <1>1, <1>3, <1>8
  <2> QED
    BY Zenon, <1>1, <1>4, <1>9, <2>1, ConsumerWaitFrame
<1>11. ASSUME NEW q \in Partitions, q = p
       PROVE  ConsumerWait(q)'
  <2>1. CASE \E j \in Producers : <<0, q>> \in pNotify[j]
    BY Zenon, <1>1, <1>9, <2>1, Fixed DEF ConsumerWait
  <2>2. CASE /\ ~(\E j \in Producers : <<0, q>> \in pNotify[j])
             /\ cpc[q] = "waiting"
    <3>1. q \in consumerPromises /\ queue[q] = <<>> /\ ~isFinishedLocked(q)
      BY Zenon, <1>4, <2>2 DEF ConsumerWait
    <3>2. CASE noMoreProducers /\ left = 0
      <4>1. <<0, q>> \in pNotify'[i]
        BY Zenon, <1>3, <1>8, <1>11, <3>1, <3>2
      <4> QED
        BY Zenon, <1>1, <4>1, Fixed DEF ConsumerWait
    <3>3. CASE ~(noMoreProducers /\ left = 0)
      <4>1. pendingProducers'[q] = left /\ UNCHANGED consumerPromises
        BY Zenon, <1>1, <1>3, <1>8, <1>11, <3>3
      <4> HIDE DEF left
      <4>2. ~isFinishedLocked(q)'
        BY Zenon, <1>1, <3>1, <3>3, <4>1 DEF isFinishedLocked
      <4> QED
        BY Zenon, <1>1, <3>1, <4>1, <4>2, Fixed DEF ConsumerWait
    <3> QED
      BY Zenon, <3>2, <3>3
  <2>3. CASE cpc[q] # "waiting"
    BY Zenon, <1>1, <2>3 DEF ConsumerWait
  <2> QED
    BY Zenon, <2>1, <2>2, <2>3
<1> QED
  BY Zenon, <1>1, <1>5, <1>6, <1>10, <1>11, Fixed DEF WaitInv

(* The end of enqueue() and of noMoreData()                                *)
LEMMA NotifyWait ==
    ASSUME TypeInv, WaitInv, NEW i \in Producers, exchange' = exchange,
           notify(pNotify[i]), pNotify' = [pNotify EXCEPT ![i] = {}],
           UNCHANGED <<queueVars, memoryVars, consumerVars>>
    PROVE  WaitInv'
<1>1. /\ \A q \in Partitions : ConsumerWait(q) /\ ToNotify(q)
      /\ \A j \in Producers : ProducerWait(j)
  BY Zenon DEF WaitInv
<1>2. pNotify \in [Producers -> SUBSET ({0} \X Partitions)]
  BY Zenon DEF TypeInv, ProducerTypes
<1>3. \A q \in Partitions :
         cpc'[q] = IF <<0, q>> \in pNotify[i] /\ cpc[q] = "waiting" THEN "run" ELSE cpc[q]
  BY Zenon DEF notify
<1>4. \A q \in Partitions : ToNotify(q)'
  BY Zenon, <1>1, <1>3, ToNotifyFrame DEF consumerVars
<1>5. \A j \in Producers : ProducerWait(j)'
  <2>1. \A j \in Producers : futures'[j] \subseteq futures[j]
    BY Zenon DEF notify
  <2> QED
    BY Zenon, <1>1, <2>1, ProducerWaitFrame DEF memoryVars, consumerVars
<1>7. ASSUME NEW q \in Partitions
      PROVE  ConsumerWait(q)'
  <2>1. CASE <<0, q>> \in pNotify[i]
    <3>1. cpc'[q] # "waiting"
      BY Zenon, <1>3, <2>1
    <3> QED
      BY Zenon, <3>1 DEF ConsumerWait
  <2>2. CASE <<0, q>> \notin pNotify[i]
    <3>1. cpc'[q] = cpc[q]
      BY Zenon, <1>3, <2>2
    <3>2. \A j \in Producers : <<0, q>> \in pNotify[j] => <<0, q>> \in pNotify'[j]
      BY Zenon, <1>2, <2>2
    <3> QED
      BY Zenon, <1>1, <3>1, <3>2, ConsumerWaitFrame DEF queueVars
  <2> QED
    BY Zenon, <2>1, <2>2
<1> QED
  BY Zenon, <1>4, <1>5, <1>7, Fixed DEF WaitInv

(* What the producers do keeps what is known of who waits.                 *)
LEMMA ProduceWait ==
    ASSUME TypeInv, StateInv, WaitInv, NEW i \in Producers, Produce(i)
    PROVE  WaitInv'
<1>1. CASE AddInput(i) \/ GetVector(i) \/ NoMoreInput(i)
  <2>1. /\ exchange' = exchange
        /\ UNCHANGED <<queueVars, memoryVars, pNotify, futures, cpc, consumerVars>>
    BY Zenon, <1>1 DEF AddInput, GetVector, NoMoreInput
  <2>2. /\ \A q \in Partitions : ConsumerWait(q) /\ ToNotify(q)
        /\ \A j \in Producers : ProducerWait(j)
    BY Zenon DEF WaitInv
  <2>3. \A q \in Partitions : ConsumerWait(q)' /\ ToNotify(q)'
    BY Zenon, <2>1, <2>2, ConsumerWaitFrame, ToNotifyFrame DEF queueVars, consumerVars
  <2>4. \A j \in Producers : ProducerWait(j)'
    BY Zenon, <2>1, <2>2, ProducerWaitFrame DEF memoryVars, consumerVars
  <2> QED
    BY Zenon, <2>1, <2>3, <2>4, Fixed DEF WaitInv
<1>2. CASE EnqueueNotify(i) \/ NoMoreDataNotify(i)
  <2>1. /\ exchange' = exchange
        /\ notify(pNotify[i]) /\ pNotify' = [pNotify EXCEPT ![i] = {}]
        /\ UNCHANGED <<queueVars, memoryVars, consumerVars>>
    BY Zenon, <1>2 DEF EnqueueNotify, NoMoreDataNotify
  <2> QED
    BY Zenon, <2>1, NotifyWait
<1> QED
  BY Zenon, <1>1, <1>2, EnqueueWait, NoMoreDataWait DEF Produce
(* What next() and close() release goes to the caller, who has nothing     *)
(* else to fulfil but the promise of its own consumer.                     *)
LEMMA ReleaseWait ==
    ASSUME TypeInv, WaitInv, NEW p \in Partitions, NEW n, exchange' = exchange,
           decreaseMemoryUsage(n), futures' = futures, cNotify[p] = {},
           NEW S, S \subseteq {<<0, p>>},
           cNotify' = [cNotify EXCEPT ![p] = S \cup Released(n)]
    PROVE  \A i \in Producers : ProducerWait(i)'
<1>1. cNotify \in [Partitions -> SUBSET ((0..exchange.producers) \X Partitions)]
  BY Zenon DEF TypeInv, ConsumerTypes
<1>3. ASSUME NEW i \in Producers, NEW q \in futures[i]
      PROVE  <<i, q>> \in promises' \/ \E r \in Partitions : <<i, q>> \in cNotify'[r]
  <2>1. CASE <<i, q>> \in promises
    BY Zenon, <1>1, <2>1 DEF decreaseMemoryUsage
  <2>2. CASE <<i, q>> \notin promises
    <3>1. PICK r \in Partitions : <<i, q>> \in cNotify[r]
      BY Zenon, <2>2 DEF WaitInv, ProducerWait
    <3>2. cNotify'[r] = cNotify[r]
      BY Zenon, <1>1, <3>1
    <3> QED
      BY Zenon, <3>1, <3>2
  <2> QED
    BY Zenon, <2>1, <2>2
<1> QED
  BY Zenon, <1>3, Fixed DEF ProducerWait

(* The memory manager has only promises of producers.                      *)
LEMMA ReleasedToProducers ==
    ASSUME TypeInv, NEW n, NEW q
    PROVE  <<0, q>> \notin Released(n)
<1>1. Released(n) \subseteq Producers \X Partitions
  BY Zenon DEF TypeInv, QueueTypes, Released
<1>2. 0 \notin Producers
  BY Constants DEF TypeInv, Producers
<1> QED
  BY Zenon, <1>1, <1>2

(* The futures whose promises a consumer fulfils are gone, the others wait *)
(* as before.                                                              *)
LEMMA FulfilWait ==
    ASSUME TypeInv, WaitInv, NEW p \in Partitions, exchange' = exchange,
           UNCHANGED memoryVars, cNotify' = [cNotify EXCEPT ![p] = {}],
           futures' = [i \in Producers |-> {q \in futures[i] : <<i, q>> \notin cNotify[p]}]
    PROVE  \A i \in Producers : ProducerWait(i)'
<1>1. cNotify \in [Partitions -> SUBSET ((0..exchange.producers) \X Partitions)]
  BY Zenon DEF TypeInv, ConsumerTypes
<1>3. ASSUME NEW i \in Producers, NEW q \in futures'[i]
      PROVE  <<i, q>> \in promises' \/ \E r \in Partitions : <<i, q>> \in cNotify'[r]
  <2>1. q \in futures[i] /\ <<i, q>> \notin cNotify[p]
    BY Zenon
  <2>2. CASE <<i, q>> \in promises
    BY Zenon, <2>2 DEF memoryVars
  <2>3. CASE <<i, q>> \notin promises
    <3>1. PICK r \in Partitions : <<i, q>> \in cNotify[r]
      BY Zenon, <2>1, <2>3 DEF WaitInv, ProducerWait
    <3>2. cNotify'[r] = cNotify[r]
      BY Zenon, <1>1, <2>1, <3>1
    <3> QED
      BY Zenon, <3>1, <3>2
  <2> QED
    BY Zenon, <2>2, <2>3
<1> QED
  BY Zenon, <1>3, Fixed DEF ProducerWait

(* Nothing changes for the other consumers.                                *)
LEMMA OthersWait ==
    ASSUME TypeInv, StateInv, WaitInv, NEW p \in Partitions, Fetch(p) \/ Close(p)
    PROVE  \A q \in Partitions \ {p} : ConsumerWait(q)' /\ ToNotify(q)'
<1>1. /\ exchange' = exchange /\ noMoreProducers' = noMoreProducers
      /\ UNCHANGED producerVars
      /\ \A q \in Partitions \ {p} :
            cpc'[q] = cpc[q] /\ (q \in closed' <=> q \in closed)
  BY Zenon, ConsumeStates
<1>2. pendingProducers' = pendingProducers
  BY Zenon DEF Fetch, NextFinished, NextBlocks, NextData, NextNotify, Push, Consume,
         CloseNotify, Close, queueVars
<1>3. queue' = queue \/ \E x : queue' = [queue EXCEPT ![p] = x]
  BY Zenon DEF Fetch, NextFinished, NextBlocks, NextData, NextNotify, Push, Consume,
         CloseNotify, Close, queueVars
<1>4. cNotify' = cNotify \/ \E x : cNotify' = [cNotify EXCEPT ![p] = x]
  BY Zenon DEF Fetch, NextFinished, NextBlocks, NextData, NextNotify, Push, Consume,
         CloseNotify, Close, consumerVars
<1>5. \/ consumerPromises' = consumerPromises
      \/ consumerPromises' = consumerPromises \cup {p}
      \/ consumerPromises' = consumerPromises \ {p}
  BY Zenon DEF Fetch, NextFinished, NextBlocks, NextData, NextNotify, Push, Consume,
         CloseNotify, Close, queueVars
<1>6. /\ queue \in [Partitions -> Seq(Entry)]
      /\ cNotify \in [Partitions -> SUBSET ((0..exchange.producers) \X Partitions)]
  BY Zenon DEF TypeInv, QueueTypes, ConsumerTypes
<1> SUFFICES ASSUME NEW q \in Partitions \ {p}
             PROVE  ConsumerWait(q)' /\ ToNotify(q)'
  BY Zenon
<1>7. queue'[q] = queue[q]
  BY Zenon, <1>3, <1>6
<1>8. cNotify'[q] = cNotify[q]
  BY Zenon, <1>4, <1>6
<1>9. q \in consumerPromises' <=> q \in consumerPromises
  BY Zenon, <1>5
<1>10. ConsumerWait(q) /\ ToNotify(q)
  BY Zenon DEF WaitInv
<1>11. ConsumerWait(q)'
  BY Zenon, <1>1, <1>2, <1>7, <1>9, <1>10, ConsumerWaitFrame DEF producerVars
<1>12. ToNotify(q)'
  BY Zenon, <1>1, <1>8, <1>10, ToNotifyFrame
<1> QED
  BY Zenon, <1>11, <1>12

(* What the consumers do keeps what is known of who waits.                 *)
LEMMA ConsumeWait ==
    ASSUME TypeInv, StateInv, WaitInv, NEW p \in Partitions, Fetch(p) \/ Close(p)
    PROVE  WaitInv'
<1>1. exchange' = exchange
  BY Zenon, ConsumeStates
<1>2. \A q \in Partitions \ {p} : ConsumerWait(q)' /\ ToNotify(q)'
  BY Zenon, OthersWait
<1>3. /\ cpc \in [Partitions -> {"create", "run", "waiting", "notify", "push", "hold",
                                 "finished", "closing", "closed"}]
      /\ cNotify \in [Partitions -> SUBSET ((0..exchange.producers) \X Partitions)]
      /\ futures \in [Producers -> SUBSET Partitions]
  BY Zenon DEF TypeInv, ConsumerTypes, ProducerTypes
<1>4. /\ ToNotify(p) /\ \A i \in Producers : ProducerWait(i)
  BY Zenon DEF WaitInv
<1> SUFFICES /\ ConsumerWait(p)' /\ ToNotify(p)'
             /\ \A i \in Producers : ProducerWait(i)'
  BY Zenon, <1>1, <1>2, Fixed DEF WaitInv
<1>5. CASE NextFinished(p) \/ Consume(p) \/ Push(p)
  <2>1. /\ cpc'[p] \in {"finished", "run", "hold"}
        /\ cpc[p] \in {"run", "hold", "push"}
        /\ UNCHANGED <<memoryVars, futures>> /\ cNotify' = cNotify
    BY Zenon, <1>3, <1>5 DEF NextFinished, Consume, Push, consumerVars
  <2>2. ConsumerWait(p)' /\ ToNotify(p)'
    BY Zenon, <1>1, <1>4, <2>1, Fixed DEF ConsumerWait, ToNotify
  <2>3. \A i \in Producers : ProducerWait(i)'
    BY Zenon, <1>1, <1>4, <2>1, ProducerWaitFrame DEF memoryVars
  <2> QED
    BY Zenon, <2>2, <2>3
<1>6. CASE NextBlocks(p)
  <2>1. /\ cpc[p] = "run" /\ cpc'[p] = "waiting"
        /\ queue[p] = <<>> /\ ~isFinishedLocked(p)
        /\ consumerPromises' = consumerPromises \cup {p}
        /\ UNCHANGED <<queue, pendingProducers, noMoreProducers, closed, memoryVars, futures>>
        /\ cNotify' = cNotify
    BY Zenon, <1>3, <1>6 DEF NextBlocks, consumerVars
  <2>2. ConsumerWait(p)'
    BY Zenon, <2>1 DEF ConsumerWait, isFinishedLocked
  <2>3. ToNotify(p)'
    BY Zenon, <1>1, <1>4, <2>1, Fixed DEF ToNotify
  <2>4. \A i \in Producers : ProducerWait(i)'
    BY Zenon, <1>1, <1>4, <2>1, ProducerWaitFrame DEF memoryVars
  <2> QED
    BY Zenon, <2>2, <2>3, <2>4
<1>7. CASE NextData(p)
  <2> DEFINE n == Head(queue[p]).bytes
  <2>1. /\ cpc[p] = "run" /\ decreaseMemoryUsage(n) /\ futures' = futures
        /\ cNotify' = [cNotify EXCEPT ![p] = {} \cup Released(n)]
        /\ cpc'[p] = IF Released(n) = {} THEN "push" ELSE "notify"
    BY Zenon, <1>3, <1>7 DEF NextData
  <2> HIDE DEF n
  <2>3. cNotify[p] = {} /\ cNotify'[p] = Released(n)
    BY Zenon, <1>3, <1>4, <2>1 DEF ToNotify
  <2>4. \A i \in Producers : ProducerWait(i)'
    <3>1. {} \subseteq {<<0, p>>}
      BY Zenon
    <3> QED
      BY Zenon, <1>1, <2>1, <2>3, <3>1, ReleaseWait
  <2>5. ConsumerWait(p)'
    BY Zenon, <2>1 DEF ConsumerWait
  <2>6. ToNotify(p)'
    BY Zenon, <1>1, <2>1, <2>3, Fixed, ReleasedToProducers DEF ToNotify
  <2> QED
    BY Zenon, <2>4, <2>5, <2>6
<1>8. CASE NextNotify(p) \/ CloseNotify(p)
  <2>1. /\ cpc'[p] \in {"push", "closed"} /\ UNCHANGED memoryVars
        /\ cNotify' = [cNotify EXCEPT ![p] = {}]
        /\ futures' = [i \in Producers |-> {q \in futures[i] : <<i, q>> \notin cNotify[p]}]
    BY Zenon, <1>3, <1>8 DEF NextNotify, CloseNotify
  <2>2. \A i \in Producers : ProducerWait(i)'
    BY Zenon, <1>1, <2>1, FulfilWait
  <2>3. ConsumerWait(p)' /\ ToNotify(p)'
    BY Zenon, <1>3, <2>1 DEF ConsumerWait, ToNotify
  <2> QED
    BY Zenon, <2>2, <2>3
<1>9. CASE Close(p)
  <2> DEFINE freed == freedBytes(p)
  <2>1. cpc[p] \in {"finished", "run", "waiting", "hold"} /\ futures' = futures
    BY Zenon, <1>9 DEF Close
  <2>2. \/ /\ decreaseMemoryUsage(freed)
           /\ cNotify' = [cNotify EXCEPT ![p] = Consumer(p) \cup Released(freed)]
        \/ /\ cNotify' = [cNotify EXCEPT ![p] = Consumer(p)]
           /\ UNCHANGED memoryVars
    BY Zenon, <1>9 DEF Close
  <2> HIDE DEF freed
  <2>4. cNotify[p] = {} /\ Consumer(p) \subseteq {<<0, p>>}
    BY Zenon, <1>4, <2>1 DEF ToNotify, Consumer
  <2>5. \A i \in Producers : ProducerWait(i)'
    <3>1. CASE /\ decreaseMemoryUsage(freed)
               /\ cNotify' = [cNotify EXCEPT ![p] = Consumer(p) \cup Released(freed)]
      BY Zenon, <1>1, <2>1, <2>4, <3>1, ReleaseWait
    <3>2. CASE /\ cNotify' = [cNotify EXCEPT ![p] = Consumer(p)]
               /\ UNCHANGED memoryVars
      <4>2. \A r \in Partitions : cNotify[r] \subseteq cNotify'[r]
        BY Zenon, <1>3, <2>4, <3>2
      <4>3. \A i \in Producers : ProducerWait(i)'
        BY Zenon, <1>1, <1>4, <2>1, <3>2, <4>2, Fixed DEF ProducerWait, memoryVars
      <4> QED
        BY Zenon, <4>3
    <3> QED
      BY Zenon, <2>2, <3>1, <3>2
  <2>6. cpc' = [cpc EXCEPT ![p] = IF cNotify'[p] = {} THEN "closed" ELSE "closing"]
    BY Zenon, <1>9 DEF Close
  <2>7. cpc'[p] = IF cNotify'[p] = {} THEN "closed" ELSE "closing"
    BY Zenon, <1>3, <2>6
  <2>8. ConsumerWait(p)'
    BY Zenon, <2>7 DEF ConsumerWait
  <2>9. \A q \in Partitions : <<0, q>> \in cNotify'[p] => q = p
    <3>1. cNotify'[p] \subseteq {<<0, p>>} \cup Released(freed)
      BY Zenon, <1>3, <2>2, <2>4
    <3> QED
      BY Zenon, <3>1, ReleasedToProducers
  <2>10. ToNotify(p)'
    BY Zenon, <1>1, <2>7, <2>9, Fixed DEF ToNotify
  <2> QED
    BY Zenon, <2>5, <2>8, <2>10
<1> QED
  BY <1>5, <1>6, <1>7, <1>8, <1>9 DEF Fetch

(* Every step keeps what is known of who waits.                            *)
LEMMA NextWait ==
    ASSUME TypeInv, StateInv, WaitInv, [Next]_vars
    PROVE  WaitInv'
<1>1. /\ \A q \in Partitions : ConsumerWait(q) /\ ToNotify(q)
      /\ \A j \in Producers : ProducerWait(j)
  BY Zenon DEF WaitInv
<1>2. CASE Create
  <2>1. exchange' = exchange /\ UNCHANGED <<memoryVars, futures>> /\ cNotify' = cNotify
    BY Zenon, <1>2 DEF Create, NoMoreProducers, AddProducer, consumerVars
  <2>2. \A q \in Partitions : cpc[q] = "create"
    BY Zenon, <1>2 DEF Create, NoMoreProducers, AddProducer, StateInv
  <2>3. \A q \in Partitions : cpc'[q] \in {"create", "run"}
    BY Zenon, <1>2, <2>2 DEF Create, NoMoreProducers, AddProducer
  <2>4. \A q \in Partitions : cNotify[q] = {}
    BY Zenon, <1>1, <2>2 DEF ToNotify
  <2>5. \A q \in Partitions : ConsumerWait(q)' /\ ToNotify(q)'
    BY Zenon, <2>1, <2>3, <2>4 DEF ConsumerWait, ToNotify
  <2>6. \A j \in Producers : ProducerWait(j)'
    BY Zenon, <1>1, <2>1, ProducerWaitFrame DEF memoryVars
  <2> QED
    BY Zenon, <2>1, <2>5, <2>6, Fixed DEF WaitInv
<1>3. CASE UNCHANGED vars
  <2>1. /\ exchange' = exchange /\ pNotify' = pNotify /\ cNotify' = cNotify
        /\ UNCHANGED <<queueVars, memoryVars, futures, cpc>>
    BY Zenon, <1>3 DEF vars, producerVars, consumerVars
  <2>2. \A q \in Partitions : ConsumerWait(q)' /\ ToNotify(q)'
    BY Zenon, <1>1, <2>1, ConsumerWaitFrame, ToNotifyFrame DEF queueVars
  <2>3. \A j \in Producers : ProducerWait(j)'
    BY Zenon, <1>1, <2>1, ProducerWaitFrame DEF memoryVars
  <2> QED
    BY Zenon, <2>1, <2>2, <2>3, Fixed DEF WaitInv
<1> QED
  BY Zenon, <1>2, <1>3, ProduceWait, ConsumeWait DEF Next

============================================================================
