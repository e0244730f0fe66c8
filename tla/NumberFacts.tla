---------------------------- MODULE NumberFacts -----------------------------
(***************************************************************************)
(* What the proofs need to know of numbers: least and greatest elements,   *)
(* by which the models say "the first entry of the table that ...", and    *)
(* remainders, by which they say that an index or a counter wraps.         *)
(***************************************************************************)
EXTENDS Integers, FiniteSetsExt, WellFoundedInduction, TLAPS

\* A nonempty set of natural numbers has a least element.
LEMMA LeastExists ==
  ASSUME NEW S \in SUBSET Nat, S # {}
  PROVE  \E m \in S : \A n \in S : m <= n
  <1>1. \E R : IsWellFoundedOn(R, Nat) /\ \A m, n \in Nat : <<m, n>> \in R <=> m < n
    <2>1. IsWellFoundedOn(OpToRel(<, Nat), Nat) BY NatLessThanWellFounded, Zenon
    <2>2. \A m, n \in Nat : <<m, n>> \in OpToRel(<, Nat) <=> m < n
      BY Zenon DEF OpToRel
    <2> QED BY <2>1, <2>2, Zenon
  <1>2. PICK R : IsWellFoundedOn(R, Nat) /\ \A m, n \in Nat : <<m, n>> \in R <=> m < n
    BY <1>1, Zenon
  <1>3. PICK m \in S : \A n \in S : ~(<<n, m>> \in R)
    <2>1. IsWellFoundedOn(R, Nat) /\ S \subseteq Nat /\ S # {} BY <1>2
    <2>2. \E x \in S : \A n \in S : ~(<<n, x>> \in R) BY <2>1, WFMin, Zenon
    <2> QED BY <2>2
  <1>4. ASSUME NEW n \in S PROVE m <= n
    <2>1. m \in Nat /\ n \in Nat OBVIOUS
    <2>2. ~(n < m) BY <1>2, <1>3, <2>1, Zenon
    <2> QED BY <2>1, <2>2
  <1> QED BY <1>4

\* It is the minimum that Min chooses.
LEMMA MinIsLeast ==
  ASSUME NEW S \in SUBSET Nat, S # {}
  PROVE  Min(S) \in S /\ \A n \in S : Min(S) <= n
  BY LeastExists DEF Min

\* Likewise Max, of a set of natural numbers with a bound.
LEMMA MaxIsGreatest ==
  ASSUME NEW S \in SUBSET Nat, S # {}, NEW b \in Nat, \A n \in S : n <= b
  PROVE  Max(S) \in S /\ \A n \in S : n <= Max(S)
  <1> DEFINE T == {b - n : n \in S}
  <1>1. T \in SUBSET Nat /\ T # {}
    <2>1. PICK x \in S : TRUE OBVIOUS
    <2>2. b - x \in T OBVIOUS
    <2> QED BY <2>2
  <1>2. PICK t \in T : \A u \in T : t <= u BY <1>1, LeastExists
  <1>3. PICK m \in S : t = b - m OBVIOUS
  <1>4. ASSUME NEW n \in S PROVE n <= m
    <2>1. b - n \in T OBVIOUS
    <2>2. b - m <= b - n BY <1>2, <1>3, <2>1
    <2> QED BY <2>2
  <1> QED BY <1>4 DEF Max

-----------------------------------------------------------------------------
\* Whole multiples of a positive number are as far apart as the number.
LEMMA MultiplesApart ==
  ASSUME NEW m \in Nat \ {0}, NEW k \in Int, k >= 1
  PROVE  m * k >= m
  OBVIOUS

\* Division with remainder, and that it can be done in one way only.
LEMMA DivisionExists ==
  ASSUME NEW x \in Nat, NEW m \in Nat \ {0}
  PROVE  /\ x \div m \in Int /\ x % m \in 0 .. m - 1
         /\ x = (m * (x \div m)) + (x % m)
  OBVIOUS

LEMMA DivisionUnique ==
  ASSUME NEW m \in Nat \ {0}, NEW p \in Int, NEW q \in Int,
         NEW r \in 0 .. m - 1, NEW s \in 0 .. m - 1, (m * p) + r = (m * q) + s
  PROVE  p = q /\ r = s
  <1>1. m * (p - q) = s - r /\ m * (q - p) = r - s OBVIOUS
  <1>2. ~(p - q >= 1) BY <1>1, MultiplesApart
  <1>3. ~(q - p >= 1) BY <1>1, MultiplesApart
  <1> QED BY <1>1, <1>2, <1>3

\* A multiple of m that is taken away leaves the remainder by m alone.
LEMMA RemainderShifts ==
  ASSUME NEW m \in Nat \ {0}, NEW k \in Nat, k % m = 0, NEW x \in Nat, x >= k
  PROVE  (x - k) % m = x % m
  <1>1. PICK p \in Int, r \in 0 .. m - 1 : x = (m * p) + r /\ r = x % m
    BY DivisionExists
  <1>2. PICK y \in Nat : y = x - k OBVIOUS
  <1>3. PICK q \in Int, s \in 0 .. m - 1 : y = (m * q) + s /\ s = y % m
    BY DivisionExists
  <1>4. PICK c \in Int : k = m * c
    <2>1. k = (m * (k \div m)) + 0 /\ k \div m \in Int BY DivisionExists
    <2> QED BY <2>1
  <1>5. (m * (q + c)) + s = (m * p) + r BY <1>1, <1>2, <1>3, <1>4
  <1>6. q + c \in Int OBVIOUS
  <1>7. s = r BY <1>5, <1>6, DivisionUnique
  <1> QED BY <1>1, <1>2, <1>3, <1>7

\* Of a number below twice m the remainder is plain.
LEMMA RemainderBelow ==
  ASSUME NEW m \in Nat \ {0}, NEW x \in 0 .. (2 * m) - 1
  PROVE  x % m = IF x < m THEN x ELSE x - m
  <1>1. x = (m * (x \div m)) + (x % m) /\ x % m \in 0 .. m - 1 /\ x \div m \in Int
    BY DivisionExists
  <1>2. CASE x < m 
    <2>1. (m * 0) + x = (m * (x \div m)) + (x % m) BY <1>1
    <2> QED BY <1>1, <1>2, <2>1, DivisionUnique
  <1>3. CASE x >= m 
    <2>1. (m * 1) + (x - m) = (m * (x \div m)) + (x % m) BY <1>1
    <2> QED BY <1>1, <1>3, <2>1, DivisionUnique
  <1> QED BY <1>2, <1>3

\* Fewer than m apart, two numbers do not have the same remainder by m.
LEMMA RemaindersDiffer ==
  ASSUME NEW m \in Nat \ {0}, NEW x \in Nat, NEW d \in 1 .. m - 1
  PROVE  (x + d) % m # x % m
  <1> DEFINE y == x + d
  <1>1. y \in Nat OBVIOUS
  <1>2. x = (m * (x \div m)) + (x % m) /\ x % m \in 0 .. m - 1 /\ x \div m \in Int
    BY DivisionExists
  <1>3. y = (m * (y \div m)) + (y % m) /\ y % m \in 0 .. m - 1 /\ y \div m \in Int
    BY <1>1, DivisionExists
  <1>4. SUFFICES ASSUME y % m = x % m PROVE FALSE OBVIOUS
  <1>5. (m * ((y \div m) - (x \div m))) + 0 = (m * 0) + d BY <1>1, <1>2, <1>3, <1>4
  <1>6. (y \div m) - (x \div m) \in Int /\ 0 \in Int /\ 0 \in 0 .. m - 1 /\ d \in 0 .. m - 1
    BY <1>2, <1>3
  <1>7. 0 = d BY <1>5, <1>6, DivisionUnique, Zenon
  <1> QED BY <1>7

\* So it is of a number from minus m on.
LEMMA RemainderAround ==
  ASSUME NEW m \in Nat \ {0}, NEW x \in -m .. (2 * m) - 1
  PROVE  x % m = IF x < 0 THEN x + m ELSE IF x < m THEN x ELSE x - m
  <1>1. CASE x >= 0
    <2>1. x \in 0 .. (2 * m) - 1 BY <1>1
    <2>2. x % m = IF x < m THEN x ELSE x - m BY <2>1, RemainderBelow
    <2>3. ~(x < 0) BY <1>1
    <2> QED BY <2>2, <2>3, Zenon
  <1>2. CASE x < 0
    <2>1. x \in Int /\ x \div m \in Int /\ x % m \in 0 .. m - 1
          /\ x = (m * (x \div m)) + (x % m)
      OBVIOUS
    <2>2. (m * (-1)) + (x + m) = (m * (x \div m)) + (x % m) BY <2>1
    <2>3. x + m \in 0 .. m - 1 /\ -1 \in Int BY <1>2
    <2>4. x % m = x + m BY <2>1, <2>2, <2>3, DivisionUnique
    <2> QED BY <1>2, <2>4
  <1> QED BY <1>1, <1>2
=============================================================================
