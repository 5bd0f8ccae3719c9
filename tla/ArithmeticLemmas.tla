-------------------------- MODULE ArithmeticLemmas --------------------------
(***************************************************************************)
(* Minimum and maximum of the sets that the kernel's search loops run      *)
(* over, and division: where a byte lies among the sectors of a file.      *)
(***************************************************************************)
EXTENDS Integers, FiniteSetsExt, WellFoundedInduction, TLAPS

\* The least element of a set of naturals, which a loop that counts up finds.
LEMMA MinNat ==
  ASSUME NEW S, S \subseteq Nat, S # {}
  PROVE  Min(S) \in S /\ \A y \in S : Min(S) <= y
<1>1. PICK x \in S : \A y \in S : ~ (<<y, x>> \in OpToRel(<, Nat))
  BY WFMin, NatLessThanWellFounded, Zenon
<1>2. ASSUME NEW y \in S PROVE x <= y
  <2>1. <<y, x>> \in Nat \X Nat /\ ~ (<<y, x>> \in OpToRel(<, Nat))
    BY <1>1
  <2>2. ~ (y < x)
    BY <2>1, Zenon DEF OpToRel
  <2> QED
    BY <2>2
<1> QED
  BY <1>2, Zenon DEF Min

\* A function on 0 .. n - 1 with natural values is bounded.
LEMMA BoundExists ==
  ASSUME NEW n \in Nat, NEW f \in [0 .. n - 1 -> Nat]
  PROVE  \E b \in Nat : \A i \in 0 .. n - 1 : f[i] <= b
<1> DEFINE Bounded(k) == \E b \in Nat : \A i \in 0 .. k - 1 : f[i] <= b
           T == {k \in 0 .. n : ~Bounded(k)}
<1>1. SUFFICES ASSUME T # {} PROVE FALSE
  <2>1. n \in T \/ Bounded(n)
    OBVIOUS
  <2> QED
    BY <1>1, <2>1
<1>2. Min(T) \in T /\ \A y \in T : Min(T) <= y
  <2> HIDE DEF T
  <2>1. T \subseteq Nat
    BY DEF T
  <2> QED
    BY <1>1, <2>1, MinNat
<1>3. PICK m \in 0 .. n : ~Bounded(m) /\ \A k \in 0 .. n : ~Bounded(k) => m <= k
  BY <1>2
<1>4. Bounded(0)
  BY 0 \in Nat, 0 .. 0 - 1 = {}
<1>5. m - 1 \in 0 .. n /\ ~ (m <= m - 1)
  BY <1>3, <1>4
<1>6. PICK b \in Nat : \A i \in 0 .. m - 1 - 1 : f[i] <= b
  BY <1>3, <1>5
<1>7. f[m - 1] \in Nat /\ b + f[m - 1] \in Nat
  BY <1>5
<1>8. ASSUME NEW i \in 0 .. m - 1 PROVE f[i] <= b + f[m - 1]
  <2>1. i = m - 1 \/ i \in 0 .. m - 1 - 1
    OBVIOUS
  <2>2. f[i] \in Nat
    BY <1>3
  <2> QED
    BY <1>6, <1>7, <2>1, <2>2
<1> QED
  BY <1>3, <1>7, <1>8

LEMMA MaxNat ==
  ASSUME NEW S, S \subseteq Nat, S # {}, NEW b \in Nat, \A y \in S : y <= b
  PROVE  Max(S) \in S /\ \A y \in S : y <= Max(S)
<1> DEFINE T == {b - y : y \in S}
<1>1. T \subseteq Nat /\ T # {}
  <2>1. ASSUME NEW y \in S PROVE b - y \in Nat
    OBVIOUS
  <2> QED
    BY <2>1, Zenon
<1>2. PICK m \in T : \A t \in T : m <= t
  <2> HIDE DEF T
  <2> QED
    BY <1>1, MinNat
<1>3. PICK x \in S : m = b - x
  BY <1>2
<1>4. \A y \in S : x >= y
  BY <1>2, <1>3
<1>5. Max(S) \in S /\ \A y \in S : Max(S) >= y
  BY <1>3, <1>4, Zenon DEF Max
<1> QED
  BY <1>5

LEMMA MaxOfTwo == \A x, y \in Int : Max({x, y}) = IF x >= y THEN x ELSE y
<1> SUFFICES ASSUME NEW x \in Int, NEW y \in Int
             PROVE  Max({x, y}) = IF x >= y THEN x ELSE y
  OBVIOUS
<1>1. \E z \in {x, y} : \A w \in {x, y} : z >= w
  OBVIOUS
<1>2. Max({x, y}) \in {x, y} /\ \A w \in {x, y} : Max({x, y}) >= w
  BY <1>1, Zenon DEF Max
<1> QED
  BY <1>2

LEMMA MinOfTwo == \A x, y \in Int : Min({x, y}) = IF x <= y THEN x ELSE y
<1> SUFFICES ASSUME NEW x \in Int, NEW y \in Int
             PROVE  Min({x, y}) = IF x <= y THEN x ELSE y
  OBVIOUS
<1>1. \E z \in {x, y} : \A w \in {x, y} : z <= w
  OBVIOUS
<1>2. Min({x, y}) \in {x, y} /\ \A w \in {x, y} : Min({x, y}) <= w
  BY <1>1, Zenon DEF Min
<1> QED
  BY <1>2

LEMMA TwoNats == \A x, y \in Nat : Max({x, y}) \in Nat /\ Min({x, y}) \in Nat
BY MaxOfTwo, MinOfTwo

(***************************************************************************)
(* Division.                                                               *)
(***************************************************************************)
LEMMA DivMod ==
  ASSUME NEW s \in Nat \ {0}, NEW p \in Int
  PROVE  /\ p \div s \in Int /\ p % s \in 0 .. s - 1
         /\ p = s * (p \div s) + (p % s)
OBVIOUS

LEMMA ProductOrder ==
  ASSUME NEW s \in Nat \ {0}, NEW a \in Int, NEW b \in Int, a < b
  PROVE  s * a \in Int /\ s * b \in Int /\ s * a + s <= s * b
OBVIOUS

\* Quotient and remainder are the only such pair.
LEMMA DivUnique ==
  ASSUME NEW s \in Nat \ {0}, NEW q \in Int, NEW r \in 0 .. s - 1, NEW p \in Int,
         p = s * q + r
  PROVE  p \div s = q /\ p % s = r
<1>1. PICK e \in Int : e = p \div s
  BY DivMod
<1>2. PICK m \in 0 .. s - 1 : m = p % s
  BY DivMod
<1>3. p = s * e + m /\ s * e \in Int /\ s * q \in Int
  BY <1>1, <1>2, DivMod
<1>4. ~ (e < q)
  BY <1>3, ProductOrder
<1>5. ~ (q < e)
  BY <1>3, ProductOrder
<1>6. e = q
  BY <1>4, <1>5
<1> QED
  BY <1>1, <1>2, <1>3, <1>6

=============================================================================
