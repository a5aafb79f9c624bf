------------------------------ MODULE Numbers ------------------------------
(* Facts about natural numbers that several proofs need.                   *)
EXTENDS Integers, WellFoundedInduction, TLAPS

(* Division by a positive number has one result.                           *)
LEMMA MultipleOrder ==
  ASSUME NEW b \in Nat \ {0}, NEW x \in Nat, NEW y \in Nat, x < y
  PROVE  x * b + b <= y * b
<1>1. PICK d \in Nat : y = x + 1 + d
  <2>1. y - x - 1 \in Nat /\ y = x + 1 + (y - x - 1)
    OBVIOUS
  <2> QED
    BY <2>1
<1>2. y * b = x * b + b + d * b
  BY <1>1
<1>3. d * b \in Nat
  OBVIOUS
<1>4. x * b \in Nat
  OBVIOUS
<1> QED
  BY <1>2, <1>3, <1>4

LEMMA OneRemainder ==
  ASSUME NEW b \in Nat \ {0}, NEW x \in Nat, NEW y \in Nat,
         NEW i \in 0 .. b - 1, NEW j \in 0 .. b - 1, x * b + i = y * b + j
  PROVE  x = y /\ i = j
<1>1. x * b \in Nat /\ y * b \in Nat
  OBVIOUS
<1>2. ~(x < y)
  BY <1>1, MultipleOrder
<1>3. ~(y < x)
  BY <1>1, MultipleOrder
<1> QED
  BY <1>1, <1>2, <1>3

LEMMA Division ==
  ASSUME NEW b \in Nat \ {0}, NEW n \in Nat
  PROVE  /\ n \div b \in Nat /\ n % b \in 0 .. b - 1
         /\ n = (n \div b) * b + (n % b)
  OBVIOUS

LEMMA Quotient ==
  ASSUME NEW b \in Nat \ {0}, NEW x \in Nat, NEW i \in 0 .. b - 1
  PROVE  (x * b + i) \div b = x /\ (x * b + i) % b = i
<1> DEFINE n == x * b + i
<1>1. n \in Nat
  <2>1. x * b \in Nat
    OBVIOUS
  <2> QED
    BY <2>1
<1>2. /\ n \div b \in Nat /\ n % b \in 0 .. b - 1
      /\ n = (n \div b) * b + (n % b)
  BY <1>1, Division
<1> HIDE DEF n
<1>3. x * b + i = (n \div b) * b + (n % b)
  BY <1>2 DEF n
<1>4. n \div b = x /\ n % b = i
  BY <1>2, <1>3, OneRemainder
<1> QED
  BY <1>4 DEF n

(* Every set of numbers that is not empty has a least and, when it is      *)
(* bounded, a greatest element.                                            *)
LEMMA SmallestOf ==
  ASSUME NEW S, S \subseteq Nat, S # {}
  PROVE  \E n \in S : \A m \in S : n <= m
<1> DEFINE R == {p \in Nat \X Nat : p[1] < p[2]}
<1>1. IsWellFoundedOn(R, Nat)
  BY NatLessThanWellFounded DEF OpToRel
<1>2. PICK n \in S : \A m \in S : <<m, n>> \notin R
  BY <1>1, WFMin
<1>3. \A m \in S : n <= m
  <2> TAKE m \in S
  <2>1. m \in Nat /\ n \in Nat
    OBVIOUS
  <2>2. ~(m < n)
    BY <1>2, <2>1
  <2> QED
    BY <2>1, <2>2
<1> QED
  BY <1>3

LEMMA GreatestOf ==
  ASSUME NEW S, S \subseteq Nat, S # {}, NEW b \in Nat, \A n \in S : n <= b
  PROVE  \E n \in S : \A m \in S : m <= n
<1> DEFINE T == {b - n : n \in S}
<1>1. T \subseteq Nat /\ T # {}
  <2>1. ASSUME NEW n \in S PROVE b - n \in Nat
    <3>1. n \in Nat /\ n <= b
      OBVIOUS
    <3> QED
      BY <3>1
  <2> QED
    BY <2>1
<1>2. PICK t \in T : \A u \in T : t <= u
  BY <1>1, SmallestOf
<1>3. PICK n \in S : t = b - n
  BY <1>2
<1>4. \A m \in S : m <= n
  <2> TAKE m \in S
  <2>1. b - n <= b - m
    BY <1>2, <1>3
  <2>2. m \in Nat /\ n \in Nat
    OBVIOUS
  <2> QED
    BY <2>1, <2>2
<1> QED
  BY <1>4
=============================================================================
