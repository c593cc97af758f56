------------------------- MODULE RequestRulesLemmas -------------------------
(***************************************************************************)
(* Facts about RequestRules that the proofs of more than one module use:   *)
(* the first of a list of segments, sizes rounded up to GiB and sizes      *)
(* reworded in TiB.                                                        *)
(***************************************************************************)
EXTENDS RequestRules, WellFoundedInduction, TLAPS

\* A non-empty set of natural numbers has a least element.
LEMMA LeastElement ==
  ASSUME NEW S, S \subseteq Nat, S # {}
  PROVE  \E i \in S : \A j \in S : i <= j
<1> DEFINE R == OpToRel(<, Nat)
<1>1. IsWellFoundedOn(R, Nat)
  BY NatLessThanWellFounded
<1>2. \E x \in S : \A y \in S : ~(<<y, x>> \in R)
  <2> HIDE DEF R
  <2> QED
    BY <1>1, WFMin
<1>3. PICK x \in S : \A y \in S : ~(<<y, x>> \in R)
  BY <1>2
<1>4. \A y \in S : ~(y < x)
  BY <1>3 DEF R, OpToRel
<1> QED
  BY <1>4

\* The driver's location is that of the first suitable segment, if there is one.
LEMMA FirstSuitable ==
  ASSUME NEW topology, NEW type, NEW host, DOMAIN topology \subseteq Nat
  PROVE  LET l == ParseRequiredTopology(topology, type, host) IN
         \/ \E i \in DOMAIN topology :
              /\ Suitable(topology[i], type)
              /\ l = topology[i].location
         \/ /\ \A i \in DOMAIN topology : ~Suitable(topology[i], type)
            /\ l = IF type = SSD THEN host ELSE NoLocation
<1> DEFINE suitable == {i \in DOMAIN topology : Suitable(topology[i], type)}
           first == CHOOSE i \in suitable : \A j \in suitable : i <= j
<1>1. CASE suitable = {}
  BY <1>1 DEF ParseRequiredTopology
<1>2. CASE suitable # {}
  <2>1. \E i \in suitable : \A j \in suitable : i <= j
    <3>1. suitable \subseteq Nat
      OBVIOUS
    <3> HIDE DEF suitable
    <3> QED
      BY <1>2, <3>1, LeastElement
  <2>2. first \in suitable
    <3> HIDE DEF suitable
    <3> QED
      BY <2>1
  <2>3. ParseRequiredTopology(topology, type, host) = topology[first].location
    BY <1>2 DEF ParseRequiredTopology
  <2> HIDE DEF first
  <2> QED
    BY <2>2, <2>3
<1> QED
  BY <1>1, <1>2

-----------------------------------------------------------------------------
(* Sizes *)

\* A number without remainder is its quotient times the divisor.
LEMMA DivideExactly ==
  ASSUME NEW x \in Int, NEW n \in Nat \ {0}, x % n = 0
  PROVE  x \div n \in Int /\ (x \div n) * n = x
  OBVIOUS

\* A quotient rounded down is less than one below the number.
LEMMA DivideDown ==
  ASSUME NEW x \in Int, NEW n \in Nat \ {0}
  PROVE  /\ x \div n \in Int
         /\ n * (x \div n) <= x
         /\ x - n < n * (x \div n)
<1>1. x \div n \in Int
  OBVIOUS
<1>2. n * (x \div n) <= x
  BY Z3
<1>3. x - n < n * (x \div n)
  BY Z3
<1> QED
  BY <1>1, <1>2, <1>3

\* A multiple of the divisor divides exactly.
LEMMA DivideMultiple ==
  ASSUME NEW k \in Int, NEW n \in Nat \ {0}
  PROVE  (n * k) \div n = k
  BY Z3

\* A size rounded up to GiB is enough, by less than one GiB.
LEMMA CeilIsEnough ==
  ASSUME NEW b \in Int
  PROVE  /\ CeilGiB(b) \in Int
         /\ NumBytesInGiB * CeilGiB(b) \in Int
         /\ NumBytesInGiB * CeilGiB(b) >= b
         /\ NumBytesInGiB * CeilGiB(b) < b + NumBytesInGiB
<1> DEFINE q == (-b) \div NumBytesInGiB
<1>1. /\ q \in Int
      /\ NumBytesInGiB * q <= -b
      /\ (-b) - NumBytesInGiB < NumBytesInGiB * q
  BY DivideDown, UnitsAssumption
<1> HIDE DEF q
<1>2. ASSUME NEW x \in Int, NEW n \in Nat
      PROVE  n * (-x) = -(n * x)
  BY <1>2
<1>3. NumBytesInGiB * (-q) = -(NumBytesInGiB * q)
  BY <1>1, <1>2, UnitsAssumption
<1>4. NumBytesInGiB * q \in Int /\ NumBytesInGiB * (-q) \in Int /\ NumBytesInGiB \in Int
  BY <1>1, UnitsAssumption
<1>5. /\ NumBytesInGiB * (-q) >= b
      /\ NumBytesInGiB * (-q) < b + NumBytesInGiB
  BY <1>1, <1>3, <1>4
<1>6. CeilGiB(b) = -q
  BY DEF q, CeilGiB
<1> QED
  BY <1>1, <1>4, <1>5, <1>6

\* A whole number of GiB is not rounded.
LEMMA CeilOfWhole ==
  ASSUME NEW k \in Int
  PROVE  CeilGiB(NumBytesInGiB * k) = k
<1>1. ASSUME NEW n \in Nat
      PROVE  -(n * k) = n * (-k)
  BY <1>1
<1>2. -(NumBytesInGiB * k) = NumBytesInGiB * (-k)
  BY <1>1, UnitsAssumption
<1>3. (-(NumBytesInGiB * k)) \div NumBytesInGiB = -k
  BY <1>2, DivideMultiple, UnitsAssumption
<1> QED
  BY <1>3 DEF CeilGiB

\* A size that does not exceed a whole number of GiB does not when rounded up.
LEMMA CeilKeepsLimit ==
  ASSUME NEW b \in Int, NEW k \in Int, b <= NumBytesInGiB * k
  PROVE  CeilGiB(b) <= k /\ NumBytesInGiB * CeilGiB(b) <= NumBytesInGiB * k
<1>1. ASSUME NEW n \in Nat \ {0}, NEW x \in Int, NEW y \in Int, n * x < n * y + n
      PROVE  x <= y
  BY <1>1, Z3
<1>2. NumBytesInGiB * k \in Int /\ NumBytesInGiB \in Nat \ {0}
  BY UnitsAssumption
<1>3. /\ CeilGiB(b) \in Int
      /\ NumBytesInGiB * CeilGiB(b) \in Int
      /\ NumBytesInGiB * CeilGiB(b) < b + NumBytesInGiB
  BY CeilIsEnough
<1>4. NumBytesInGiB * CeilGiB(b) < NumBytesInGiB * k + NumBytesInGiB
  BY <1>2, <1>3
<1>5. CeilGiB(b) <= k
  BY <1>1, <1>2, <1>3, <1>4
<1>6. ASSUME NEW n \in Nat, NEW x \in Int, NEW y \in Int, x <= y
      PROVE  n * x <= n * y
  BY <1>6
<1> QED
  BY <1>2, <1>3, <1>5, <1>6
=============================================================================
