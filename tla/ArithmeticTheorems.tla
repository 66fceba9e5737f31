------------------------- MODULE ArithmeticTheorems -------------------------
(***************************************************************************)
(* What the other proofs know of numbers: induction and recursion, powers  *)
(* of two and the number of bits (Gmp); the functions of include/field.hpp *)
(* compute in the integers modulo m, for any m (Field); the dealer deals   *)
(* genuine triples and beaver_mul multiplies, modulo any q (Beaver).       *)
(***************************************************************************)
EXTENDS Beaver, Gmp, WellFoundedInduction, TLAPS

(* Induction, for a set of numbers: a nonempty rest would have a least     *)
(* element.                                                                *)
LEMMA SetInduction ==
  ASSUME NEW S, 0 \in S, \A n \in Nat : n \in S => n + 1 \in S
  PROVE  Nat \subseteq S
<1> DEFINE Rest == Nat \ S
           Below == OpToRel(<, Nat)
<1>1. ASSUME Rest # {} PROVE FALSE
  <2>1. IsWellFoundedOn(Below, Nat)
    BY NatLessThanWellFounded
  <2>2. PICK x \in Rest : \A y \in Rest : ~(<<y, x>> \in Below)
    <3> HIDE DEF Below
    <3> QED
      BY <1>1, <2>1, WFMin
  <2>3. x \in Nat /\ x # 0 /\ x - 1 \in Nat
    OBVIOUS
  <2>4. x - 1 \in S
    <3>1. <<x - 1, x>> \in Nat \X Nat /\ x - 1 < x
      BY <2>3
    <3>2. <<x - 1, x>> \in Below
      BY <3>1 DEF OpToRel
    <3> QED
      BY <2>2, <2>3, <3>2
  <2>5. QED
    BY <2>3, <2>4
<1>2. QED
  BY <1>1

(* Definition by recursion: f starts with b and goes on as the function g  *)
(* of an argument and the value there says, up to m or on a whole domain.  *)
Follows(f, b, g, m) ==
  f[0] = b /\ \A i \in Nat : i < m => f[i + 1] = g[<<i, f[i]>>]

LEMMA FollowersAgree ==
  ASSUME NEW b, NEW g, NEW f, NEW h, NEW l \in Nat, NEW m \in Nat,
         Follows(f, b, g, l), Follows(h, b, g, m)
  PROVE  \A i \in Nat : i <= l /\ i <= m => f[i] = h[i]
<1> DEFINE I == {i \in Nat : i <= l /\ i <= m => f[i] = h[i]}
<1>1. 0 \in I
  BY DEF Follows
<1>2. ASSUME NEW i \in Nat, i \in I PROVE i + 1 \in I
  <2>1. SUFFICES ASSUME i + 1 <= l, i + 1 <= m PROVE f[i + 1] = h[i + 1]
    OBVIOUS
  <2>2. i < l /\ i < m /\ f[i] = h[i]
    BY <1>2, <2>1
  <2>3. QED
    BY <2>2 DEF Follows
<1>3. Nat \subseteq I
  <2> HIDE DEF I
  <2> QED
    BY <1>1, <1>2, SetInduction
<1>4. QED
  BY <1>3

LEMMA FollowersExist ==
  ASSUME NEW S, NEW b \in S, NEW g \in [Nat \X S -> S]
  PROVE  \A m \in Nat : \E f \in [0..m -> S] : Follows(f, b, g, m)
<1> DEFINE M == {m \in Nat : \E f \in [0..m -> S] : Follows(f, b, g, m)}
<1>1. 0 \in M
  <2>1. [i \in 0..0 |-> b] \in [0..0 -> S] /\ Follows([i \in 0..0 |-> b], b, g, 0)
    BY DEF Follows
  <2>2. QED
    BY <2>1
<1>2. ASSUME NEW m \in Nat, m \in M PROVE m + 1 \in M
  <2>1. PICK f \in [0..m -> S] : Follows(f, b, g, m)
    BY <1>2
  <2> DEFINE h == [i \in 0..(m + 1) |-> IF i <= m THEN f[i] ELSE g[<<m, f[m]>>]]
  <2>2. h \in [0..(m + 1) -> S]
    OBVIOUS
  <2>3. h[0] = b
    BY <2>1 DEF Follows
  <2>4. ASSUME NEW i \in Nat, i < m + 1 PROVE h[i + 1] = g[<<i, h[i]>>]
    <3>1. CASE i < m
      <4>1. i \in 0..(m + 1) /\ i + 1 \in 0..(m + 1) /\ i <= m /\ i + 1 <= m
        BY <3>1
      <4>2. QED
        BY <2>1, <3>1, <4>1 DEF Follows
    <3>2. CASE i = m
      BY <3>2
    <3>3. QED
      BY <2>4, <3>1, <3>2
  <2> HIDE DEF h
  <2>5. Follows(h, b, g, m + 1)
    BY <2>3, <2>4 DEF Follows
  <2>6. QED
    BY <2>2, <2>5
<1>3. Nat \subseteq M
  <2> HIDE DEF M
  <2> QED
    BY <1>1, <1>2, SetInduction
<1>4. QED
  BY <1>3

StepsOn(S) == [Nat \X S -> S]

Recursive(f, b, g, D) ==
  f = [i \in D |-> IF i = 0 THEN b ELSE g[<<i - 1, f[i - 1]>>]]

LEMMA RecursionUpTo ==
  ASSUME NEW S, NEW b \in S, NEW g \in StepsOn(S), NEW m \in Nat
  PROVE  \E f \in [0..m -> S] : Recursive(f, b, g, 0..m)
<1>1. PICK f \in [0..m -> S] : Follows(f, b, g, m)
  BY FollowersExist DEF StepsOn
<1>2. ASSUME NEW i \in 0..m, i # 0 PROVE f[i] = g[<<i - 1, f[i - 1]>>]
  <2>1. i - 1 \in Nat /\ i = (i - 1) + 1 /\ i - 1 < m
    BY <1>2
  <2>2. QED
    BY <1>1, <2>1 DEF Follows
<1>3. f = [i \in 0..m |-> f[i]] /\ f[0] = b
  BY <1>1 DEF Follows
<1>4. QED
  BY <1>2, <1>3 DEF Recursive

LEMMA RecursionOnNat ==
  ASSUME NEW S, NEW b \in S, NEW g \in StepsOn(S)
  PROVE  \E f \in [Nat -> S] : Recursive(f, b, g, Nat)
<1> DEFINE approx(m) == CHOOSE f \in [0..m -> S] : Follows(f, b, g, m)
           F == [m \in Nat |-> approx(m)[m]]
<1>1. \A m \in Nat : approx(m) \in [0..m -> S] /\ Follows(approx(m), b, g, m)
  BY FollowersExist DEF StepsOn
<1> HIDE DEF approx
<1>2. F \in [Nat -> S] /\ F[0] = b
  BY <1>1 DEF Follows
<1>3. ASSUME NEW i \in Nat, i # 0 PROVE F[i] = g[<<i - 1, F[i - 1]>>]
  <2> DEFINE j == i - 1
  <2>1. /\ j \in Nat /\ i = j + 1 /\ j <= j /\ j <= i /\ j < i
        /\ Follows(approx(j), b, g, j) /\ Follows(approx(i), b, g, i)
    BY <1>1, <1>3
  <2>2. approx(i)[j] = approx(j)[j]
    BY <2>1, FollowersAgree
  <2>3. approx(i)[i] = g[<<j, approx(i)[j]>>]
    BY <2>1 DEF Follows
  <2>4. QED
    BY <2>1, <2>2, <2>3
<1>4. QED
  BY <1>2, <1>3 DEF Recursive

-----------------------------------------------------------------------------
(* Quotients and powers of two *)

(* A quotient and a remainder are known by what they add up to. *)
LEMMA QuotientAndRest ==
  ASSUME NEW x \in Int, NEW m \in Nat \ {0}, NEW c \in Int, NEW t \in 0..(m - 1),
         x = m * c + t
  PROVE  x \div m = c /\ x % m = t
<1> DEFINE u == x \div m
           r == x % m
<1>1. u \in Int /\ r \in 0..(m - 1) /\ x = m * u + r
  OBVIOUS
<1> HIDE DEF u, r
<1>2. m * (c - u) = r - t /\ c - u \in Int
  BY <1>1
<1>3. \A y \in Int : y >= 1 => m * y >= m
  OBVIOUS
<1>4. \A y \in Int : y <= -1 => m * y <= -m
  OBVIOUS
<1>5. c - u = 0
  BY <1>1, <1>2, <1>3, <1>4
<1>6. c = u /\ r = t
  BY <1>1, <1>2, <1>5
<1>7. QED
  BY <1>6 DEF u, r

LEMMA NestedQuotients ==
  ASSUME NEW x \in Nat, NEW a \in Nat \ {0}, NEW b \in Nat \ {0}
  PROVE  /\ x \div (a * b) = (x \div a) \div b
         /\ x % (a * b) = a * ((x \div a) % b) + (x % a)
<1> DEFINE y == x \div a
           s == x % a
           z == y \div b
           t == y % b
<1>1. y \in Int /\ s \in 0..(a - 1) /\ x = a * y + s
  OBVIOUS
<1>2. z \in Int /\ t \in 0..(b - 1) /\ y = b * z + t
  BY <1>1
<1> HIDE DEF y, s, z, t
<1>3. a * b \in Nat \ {0}
  <2>1. a >= 1 /\ b >= 1
    OBVIOUS
  <2>2. \A v, w \in Nat : v >= 1 /\ w >= 1 => v * w >= 1
    OBVIOUS
  <2>3. QED
    BY <2>1, <2>2
<1>4. x = (a * b) * z + (a * t + s)
  <2>1. a * (b * z + t) = (a * b) * z + a * t
    BY <1>2
  <2>2. QED
    BY <1>1, <1>2, <2>1
<1>5. a * t + s \in 0..(a * b - 1)
  <2>1. a * t <= a * (b - 1) /\ a * t >= 0
    BY <1>2
  <2>2. a * (b - 1) = a * b - a
    OBVIOUS
  <2>3. a * t \in Int /\ a * b \in Int
    BY <1>2
  <2>4. QED
    BY <1>1, <2>1, <2>2, <2>3
<1>6. x \div (a * b) = z /\ x % (a * b) = a * t + s
  BY <1>2, <1>3, <1>4, <1>5, QuotientAndRest
<1>7. QED
  BY <1>6 DEF y, s, z, t

LEMMA TwoTo ==
  /\ two_to \in [Nat -> Nat] /\ two_to[0] = 1
  /\ \A e \in Nat : two_to[e + 1] = 2 * two_to[e]
<1> DEFINE g == [t \in Nat \X Nat |-> 2 * t[2]]
<1>1. g \in StepsOn(Nat) /\ \A i, x \in Nat : g[<<i, x>>] = 2 * x
  BY DEF StepsOn
<1> HIDE DEF g
<1>2. PICK f \in [Nat -> Nat] : Recursive(f, 1, g, Nat)
  BY <1>1, RecursionOnNat
<1>3. two_to = [e \in Nat |-> IF e = 0 THEN 1 ELSE 2 * two_to[e - 1]]
  <2>1. \A i \in Nat : f[i] = IF i = 0 THEN 1 ELSE 2 * f[i - 1]
    <3>1. ASSUME NEW i \in Nat, i # 0 PROVE g[<<i - 1, f[i - 1]>>] = 2 * f[i - 1]
      <4>1. i - 1 \in Nat
        BY <3>1
      <4>2. QED
        BY <1>1, <4>1
    <3>2. QED
      BY <1>2, <3>1 DEF Recursive
  <2>2. f = [i \in Nat |-> f[i]]
    OBVIOUS
  <2>3. f = [i \in Nat |-> IF i = 0 THEN 1 ELSE 2 * f[i - 1]]
    BY <2>1, <2>2
  <2>4. QED
    BY <2>3 DEF two_to
<1>4. \A e \in Nat : two_to[e] = IF e = 0 THEN 1 ELSE 2 * two_to[e - 1]
  BY <1>3
<1>5. two_to[0] = 1 /\ \A e \in Nat : two_to[e + 1] = 2 * two_to[e]
  <2>1. two_to[0] = 1
    BY <1>4
  <2>2. ASSUME NEW e \in Nat PROVE two_to[e + 1] = 2 * two_to[e]
    <3>1. e + 1 \in Nat /\ e + 1 # 0 /\ (e + 1) - 1 = e
      OBVIOUS
    <3>2. QED
      BY <1>4, <3>1
  <2>3. QED
    BY <2>1, <2>2
<1>6. two_to \in [Nat -> Nat]
  <2> DEFINE E == {e \in Nat : two_to[e] \in Nat}
  <2>1. 0 \in E /\ \A e \in Nat : e \in E => e + 1 \in E
    BY <1>5
  <2>2. Nat \subseteq E
    <3> HIDE DEF E
    <3> QED
      BY <2>1, SetInduction
  <2>3. QED
    BY <1>3, <2>2
<1>7. QED
  BY <1>5, <1>6

LEMMA TwoToPositive ==
  \A e \in Nat : two_to[e] \in Nat /\ two_to[e] >= 1 /\ e < two_to[e]
<1> DEFINE E == {e \in Nat : two_to[e] \in Nat /\ two_to[e] >= 1 /\ e < two_to[e]}
<1>1. 0 \in E /\ \A e \in Nat : e \in E => e + 1 \in E
  BY TwoTo
<1>2. Nat \subseteq E
  <2> HIDE DEF E
  <2> QED
    BY <1>1, SetInduction
<1>3. QED
  BY <1>2

LEMMA TwoToSum ==
  \A a, b \in Nat : two_to[a + b] = two_to[a] * two_to[b]
<1> SUFFICES ASSUME NEW a \in Nat
             PROVE  \A b \in Nat : two_to[a + b] = two_to[a] * two_to[b]
  OBVIOUS
<1> DEFINE B == {b \in Nat : two_to[a + b] = two_to[a] * two_to[b]}
<1>1. 0 \in B
  BY TwoTo, TwoToPositive
<1>2. ASSUME NEW b \in Nat, b \in B PROVE b + 1 \in B
  <2>1. two_to[a + (b + 1)] = 2 * two_to[a + b] /\ two_to[b + 1] = 2 * two_to[b]
    <3>1. a + (b + 1) = (a + b) + 1 /\ a + b \in Nat
      OBVIOUS
    <3>2. QED
      BY <3>1, TwoTo
  <2>2. \A x, y \in Nat : 2 * (x * y) = x * (2 * y)
    OBVIOUS
  <2>3. QED
    BY <1>2, <2>1, <2>2, TwoToPositive
<1>3. Nat \subseteq B
  <2> HIDE DEF B
  <2> QED
    BY <1>1, <1>2, SetInduction
<1>4. QED
  BY <1>3

LEMMA TwoToGrows ==
  ASSUME NEW a \in Nat, NEW b \in Nat, a < b
  PROVE  2 * two_to[a] <= two_to[b] /\ two_to[a] < two_to[b]
<1>1. b - (a + 1) \in Nat /\ a + 1 \in Nat /\ b = (a + 1) + (b - (a + 1))
  OBVIOUS
<1>2. two_to[b] = two_to[a + 1] * two_to[b - (a + 1)]
  BY <1>1, TwoToSum
<1>3. two_to[a + 1] = 2 * two_to[a] /\ two_to[a] \in Nat /\ two_to[a] >= 1
      /\ two_to[b - (a + 1)] \in Nat /\ two_to[b - (a + 1)] >= 1
  BY <1>1, TwoTo, TwoToPositive
<1>4. \A x, y \in Nat : y >= 1 => x <= x * y
  OBVIOUS
<1>5. QED
  BY <1>2, <1>3, <1>4

(* Every positive integer has a size. *)
LEMMA SizeInBase2 ==
  ASSUME NEW x \in Nat, x >= 1
  PROVE  /\ sizeinbase2(x) \in 1..x
         /\ two_to[sizeinbase2(x) - 1] <= x /\ x < two_to[sizeinbase2(x)]
<1>1. \E b \in 1..x : two_to[b - 1] <= x /\ x < two_to[b]
  <2> SUFFICES ASSUME \A b \in 1..x : ~(two_to[b - 1] <= x /\ x < two_to[b])
               PROVE  FALSE
    OBVIOUS
  <2> DEFINE E == {e \in Nat : e <= x => two_to[e] <= x}
  <2>1. 0 \in E
    BY TwoTo
  <2>2. ASSUME NEW e \in Nat, e \in E PROVE e + 1 \in E
    <3>1. SUFFICES ASSUME e + 1 <= x PROVE two_to[e + 1] <= x
      OBVIOUS
    <3>2. e + 1 \in 1..x /\ (e + 1) - 1 = e /\ two_to[e] <= x
      BY <2>2, <3>1
    <3>3. ~(x < two_to[e + 1])
      BY <3>2
    <3>4. QED
      BY <3>3, TwoToPositive
  <2>3. Nat \subseteq E
    <3> HIDE DEF E
    <3> QED
      BY <2>1, <2>2, SetInduction
  <2>4. QED
    BY <2>3, TwoToPositive
<1>2. QED
  BY <1>1 DEF sizeinbase2

-----------------------------------------------------------------------------
(* Modular arithmetic *)

(* a and b are congruent modulo m. *)
Cong(a, b, m) == \E t \in Int : a = b + m * t

-----------------------------------------------------------------------------
(* Congruence is an equivalence that sums, differences and products        *)
(* respect.                                                                *)
LEMMA CongRefl ==
  ASSUME NEW a \in Int, NEW m \in Int
  PROVE  Cong(a, a, m)
PROOF
  <1>1. a = a + m * 0
    OBVIOUS
  <1>. QED
    BY <1>1 DEF Cong

LEMMA CongSym ==
  ASSUME NEW a \in Int, NEW b \in Int, NEW m \in Int, Cong(a, b, m)
  PROVE  Cong(b, a, m)
PROOF
  <1>1. PICK t \in Int : a = b + m * t
    BY DEF Cong
  <1>2. b = a + m * (-t)
    BY <1>1
  <1>. QED
    BY <1>2 DEF Cong

LEMMA CongTrans ==
  ASSUME NEW a \in Int, NEW b \in Int, NEW c \in Int, NEW m \in Int,
         Cong(a, b, m), Cong(b, c, m)
  PROVE  Cong(a, c, m)
PROOF
  <1>1. PICK t \in Int : a = b + m * t
    BY DEF Cong
  <1>2. PICK u \in Int : b = c + m * u
    BY DEF Cong
  <1>3. a = c + m * (t + u) /\ t + u \in Int
    BY <1>1, <1>2
  <1>. QED
    BY <1>3 DEF Cong

LEMMA CongAdd ==
  ASSUME NEW a \in Int, NEW b \in Int, NEW c \in Int, NEW d \in Int,
         NEW m \in Int, Cong(a, b, m), Cong(c, d, m)
  PROVE  Cong(a + c, b + d, m)
PROOF
  <1>1. PICK t \in Int : a = b + m * t
    BY DEF Cong
  <1>2. PICK u \in Int : c = d + m * u
    BY DEF Cong
  <1>3. a + c = (b + d) + m * (t + u) /\ t + u \in Int
    BY <1>1, <1>2
  <1>. QED
    BY <1>3 DEF Cong

LEMMA CongSub ==
  ASSUME NEW a \in Int, NEW b \in Int, NEW c \in Int, NEW d \in Int,
         NEW m \in Int, Cong(a, b, m), Cong(c, d, m)
  PROVE  Cong(a - c, b - d, m)
PROOF
  <1>1. PICK t \in Int : a = b + m * t
    BY DEF Cong
  <1>2. PICK u \in Int : c = d + m * u
    BY DEF Cong
  <1>3. a - c = (b - d) + m * (t - u) /\ t - u \in Int
    BY <1>1, <1>2
  <1>. QED
    BY <1>3 DEF Cong

LEMMA CongMul ==
  ASSUME NEW a \in Int, NEW b \in Int, NEW c \in Int, NEW d \in Int,
         NEW m \in Int, Cong(a, b, m), Cong(c, d, m)
  PROVE  Cong(a * c, b * d, m)
PROOF
  <1>1. PICK t \in Int : a = b + m * t
    BY DEF Cong
  <1>2. PICK u \in Int : c = d + m * u
    BY DEF Cong
  <1>3. (b + m * t) * (d + m * u)
          = b * d + m * (b * u + t * d + t * (m * u))
    OBVIOUS
  <1>4. b * u + t * d + t * (m * u) \in Int
    OBVIOUS
  <1>. QED
    BY <1>1, <1>2, <1>3, <1>4 DEF Cong

(* Two residues that are congruent are the same. *)
LEMMA CongResidues ==
  ASSUME NEW m \in Nat, NEW a \in Residues(m), NEW b \in Residues(m),
         Cong(a, b, m)
  PROVE  a = b
PROOF
  <1>1. PICK t \in Int : a = b + m * t
    BY DEF Cong
  <1>2. /\ a \in Int /\ b \in Int /\ m \in Int
        /\ 0 <= a /\ a < m /\ 0 <= b /\ b < m
    BY DEF Residues
  <1>3. CASE t = 0
    BY <1>1, <1>2, <1>3
  <1>4. CASE t >= 1
    <2>1. m * t >= m
      BY <1>2, <1>4
    <2>. QED
      BY <1>1, <1>2, <2>1
  <1>5. CASE t <= -1
    <2>1. m * t <= -m
      BY <1>2, <1>5
    <2>. QED
      BY <1>1, <1>2, <2>1
  <1>. QED
    BY <1>3, <1>4, <1>5

-----------------------------------------------------------------------------
LEMMA ResiduesAreIntegers ==
  ASSUME NEW m \in Nat, NEW a \in Residues(m)
  PROVE  a \in Int /\ 0 <= a /\ a < m
PROOF BY DEF Residues

(* What % gives is a residue, congruent to its argument. *)
LEMMA ModuloIsResidue ==
  ASSUME NEW x \in Int, NEW m \in Nat \ {0}
  PROVE  x % m \in Residues(m) /\ Cong(x % m, x, m)
PROOF
  <1>1. x % m \in 0..(m - 1) /\ x = m * (x \div m) + (x % m)
    OBVIOUS
  <1>2. x % m = x + m * (-(x \div m)) /\ -(x \div m) \in Int
    BY <1>1
  <1>. QED
    BY <1>1, <1>2 DEF Residues, Cong

(* mod_add, mod_sub, mod_neg and mod_mul on residues. *)
LEMMA ModAdd ==
  ASSUME NEW m \in Nat \ {0}, NEW a \in Residues(m), NEW b \in Residues(m)
  PROVE  /\ mod_add(a, b, m) \in Residues(m)
         /\ Cong(mod_add(a, b, m), a + b, m)
PROOF
  <1>1. /\ a \in Int /\ b \in Int /\ m \in Int
        /\ 0 <= a /\ a < m /\ 0 <= b /\ b < m
    BY DEF Residues
  <1>2. CASE a + b >= m
    <2>1. mod_add(a, b, m) = (a + b) + m * (-1)
      BY <1>1, <1>2 DEF mod_add
    <2>. QED
      BY <1>1, <1>2, <2>1 DEF Residues, Cong
  <1>3. CASE ~(a + b >= m)
    <2>1. mod_add(a, b, m) = (a + b) + m * 0
      BY <1>1, <1>3 DEF mod_add
    <2>. QED
      BY <1>1, <1>3, <2>1 DEF Residues, Cong
  <1>. QED
    BY <1>2, <1>3

LEMMA ModSub ==
  ASSUME NEW m \in Nat \ {0}, NEW a \in Residues(m), NEW b \in Residues(m)
  PROVE  /\ mod_sub(a, b, m) \in Residues(m)
         /\ Cong(mod_sub(a, b, m), a - b, m)
PROOF
  <1>1. /\ a \in Int /\ b \in Int /\ m \in Int
        /\ 0 <= a /\ a < m /\ 0 <= b /\ b < m
    BY DEF Residues
  <1>2. CASE a - b < 0
    <2>1. mod_sub(a, b, m) = (a - b) + m * 1
      BY <1>1, <1>2 DEF mod_sub
    <2>. QED
      BY <1>1, <1>2, <2>1 DEF Residues, Cong
  <1>3. CASE ~(a - b < 0)
    <2>1. mod_sub(a, b, m) = (a - b) + m * 0
      BY <1>1, <1>3 DEF mod_sub
    <2>. QED
      BY <1>1, <1>3, <2>1 DEF Residues, Cong
  <1>. QED
    BY <1>2, <1>3

LEMMA ModNeg ==
  ASSUME NEW m \in Nat \ {0}, NEW a \in Residues(m)
  PROVE  /\ mod_neg(a, m) \in Residues(m)
         /\ Cong(mod_neg(a, m), -a, m)
PROOF
  <1>1. a \in Int /\ m \in Int /\ 0 <= a /\ a < m
    BY DEF Residues
  <1>2. CASE a = 0
    <2>1. mod_neg(a, m) = (-a) + m * 0
      BY <1>1, <1>2 DEF mod_neg
    <2>. QED
      BY <1>1, <1>2, <2>1 DEF Residues, Cong
  <1>3. CASE a # 0
    <2>1. mod_neg(a, m) = (-a) + m * 1
      BY <1>1, <1>3 DEF mod_neg
    <2>. QED
      BY <1>1, <1>3, <2>1 DEF Residues, Cong
  <1>. QED
    BY <1>2, <1>3

LEMMA ModMul ==
  ASSUME NEW m \in Nat \ {0}, NEW a \in Int, NEW b \in Int
  PROVE  /\ mod_mul(a, b, m) \in Residues(m)
         /\ Cong(mod_mul(a, b, m), a * b, m)
PROOF
  <1>1. a * b \in Int
    OBVIOUS
  <1>. QED
    BY <1>1, ModuloIsResidue DEF mod_mul

(* a is the residue of the integer A: what a function of field.hpp should  *)
(* return where the integers give A.                                       *)
Computes(a, A, m) == a \in Residues(m) /\ Cong(a, A, m)

LEMMA ComputesItself ==
  ASSUME NEW m \in Nat \ {0}, NEW a \in Residues(m)
  PROVE  Computes(a, a, m)
PROOF BY CongRefl, ResiduesAreIntegers DEF Computes

LEMMA ComputesAdd ==
  ASSUME NEW m \in Nat \ {0}, NEW a, NEW A \in Int, NEW b, NEW B \in Int,
         Computes(a, A, m), Computes(b, B, m)
  PROVE  Computes(mod_add(a, b, m), A + B, m)
PROOF
  <1>1. /\ a \in Residues(m) /\ b \in Residues(m)
        /\ a \in Int /\ b \in Int /\ a + b \in Int /\ A + B \in Int
    BY ResiduesAreIntegers DEF Computes
  <1>2. Cong(a + b, A + B, m)
    BY <1>1, CongAdd DEF Computes
  <1>3. /\ mod_add(a, b, m) \in Residues(m) /\ mod_add(a, b, m) \in Int
        /\ Cong(mod_add(a, b, m), a + b, m)
    BY <1>1, ModAdd, ResiduesAreIntegers
  <1>. QED
    BY <1>1, <1>2, <1>3, CongTrans DEF Computes

LEMMA ComputesSub ==
  ASSUME NEW m \in Nat \ {0}, NEW a, NEW A \in Int, NEW b, NEW B \in Int,
         Computes(a, A, m), Computes(b, B, m)
  PROVE  Computes(mod_sub(a, b, m), A - B, m)
PROOF
  <1>1. /\ a \in Residues(m) /\ b \in Residues(m)
        /\ a \in Int /\ b \in Int /\ a - b \in Int /\ A - B \in Int
    BY ResiduesAreIntegers DEF Computes
  <1>2. Cong(a - b, A - B, m)
    BY <1>1, CongSub DEF Computes
  <1>3. /\ mod_sub(a, b, m) \in Residues(m) /\ mod_sub(a, b, m) \in Int
        /\ Cong(mod_sub(a, b, m), a - b, m)
    BY <1>1, ModSub, ResiduesAreIntegers
  <1>. QED
    BY <1>1, <1>2, <1>3, CongTrans DEF Computes

LEMMA ComputesMul ==
  ASSUME NEW m \in Nat \ {0}, NEW a, NEW A \in Int, NEW b, NEW B \in Int,
         Computes(a, A, m), Computes(b, B, m)
  PROVE  Computes(mod_mul(a, b, m), A * B, m)
PROOF
  <1>1. /\ a \in Int /\ b \in Int /\ a * b \in Int /\ A * B \in Int
    BY ResiduesAreIntegers DEF Computes
  <1>2. Cong(a * b, A * B, m)
    BY <1>1, CongMul DEF Computes
  <1>3. /\ mod_mul(a, b, m) \in Residues(m) /\ mod_mul(a, b, m) \in Int
        /\ Cong(mod_mul(a, b, m), a * b, m)
    BY <1>1, ModMul, ResiduesAreIntegers
  <1>. QED
    BY <1>1, <1>2, <1>3, CongTrans DEF Computes

(* Two computations of congruent integers return the same residue, and     *)
(* the other way round.                                                    *)
LEMMA ComputesSame ==
  ASSUME NEW m \in Nat \ {0}, NEW a, NEW A \in Int, NEW b, NEW B \in Int,
         Computes(a, A, m), Computes(b, B, m)
  PROVE  a = b <=> Cong(A, B, m)
PROOF
  <1>1. a \in Residues(m) /\ b \in Residues(m) /\ a \in Int /\ b \in Int
    BY ResiduesAreIntegers DEF Computes
  <1>2. Cong(A, a, m) /\ Cong(B, b, m)
    BY <1>1, CongSym DEF Computes
  <1>3. ASSUME a = b PROVE Cong(A, B, m)
    BY <1>1, <1>2, <1>3, CongTrans DEF Computes
  <1>4. ASSUME Cong(A, B, m) PROVE a = b
    <2>1. Cong(a, B, m)
      BY <1>1, <1>4, CongTrans DEF Computes
    <2>2. Cong(a, b, m)
      BY <1>1, <1>2, <2>1, CongTrans
    <2>. QED
      BY <1>1, <2>2, CongResidues
  <1>. QED
    BY <1>3, <1>4

(* reduce returns the residue of any integer, for all that C++'s % rounds  *)
(* towards zero.                                                           *)
THEOREM ReduceIsModulo ==
  ASSUME NEW x \in Int, NEW m \in Nat \ {0}
  PROVE  reduce(x, m) = x % m
PROOF
  <1>1. CASE x >= 0
    <2>1. x % m \in 0..(m - 1)
      OBVIOUS
    <2>. QED
      BY <1>1, <2>1 DEF reduce, truncated_rem
  <1>2. CASE x < 0
    <2>. DEFINE y == (-x) % m
    <2>1. y \in Residues(m) /\ Cong(y, -x, m)
      <3>1. -x \in Int
        OBVIOUS
      <3>. QED
        BY <3>1, ModuloIsResidue
    <2>2. PICK t \in Int : y = -x + m * t
      BY <2>1 DEF Cong
    <2>3. y \in Int /\ 0 <= y /\ y < m
      BY <2>1 DEF Residues
    <2>4. reduce(x, m) = IF y = 0 THEN 0 ELSE m - y
      BY <1>2, <2>3 DEF reduce, truncated_rem
    <2>5. reduce(x, m) \in Residues(m)
      BY <2>3, <2>4 DEF Residues
    <2>6. Cong(reduce(x, m), x, m)
      <3>1. CASE y = 0
        <4>1. reduce(x, m) = x + m * (-t)
          BY <2>2, <2>3, <2>4, <3>1
        <4>. QED
          BY <4>1 DEF Cong
      <3>2. CASE y # 0
        <4>1. reduce(x, m) = x + m * (1 - t)
          BY <2>2, <2>3, <2>4, <3>2
        <4>. QED
          BY <4>1 DEF Cong
      <3>. QED
        BY <3>1, <3>2
    <2>7. x % m \in Residues(m) /\ Cong(x % m, x, m)
      BY ModuloIsResidue
    <2>8. Cong(x, x % m, m)
      BY <2>7, CongSym, ResiduesAreIntegers
    <2>9. Cong(reduce(x, m), x % m, m)
      BY <2>5, <2>6, <2>7, <2>8, CongTrans, ResiduesAreIntegers
    <2>. QED
      BY <2>5, <2>7, <2>9, CongResidues
  <1>. QED
    BY <1>1, <1>2

-----------------------------------------------------------------------------
(* Beaver triples *)

(* A share and what mod_sub leaves of a value make the value again: the    *)
(* additive sharing used throughout the protocol.                          *)
LEMMA SharesSum ==
  ASSUME NEW m \in Nat \ {0}, NEW v \in Residues(m), NEW v1 \in Residues(m)
  PROVE  /\ mod_sub(v, v1, m) \in Residues(m)
         /\ mod_add(v1, mod_sub(v, v1, m), m) = v
PROOF BY DEF Residues, mod_add, mod_sub

(* generate_triple returns residues, and a b = c on the sums.              *)
THEOREM DealtTriplesAreGenuine ==
  ASSUME NEW m \in Nat \ {0},
         NEW a \in Residues(m), NEW b \in Residues(m),
         NEW a1 \in Residues(m), NEW b1 \in Residues(m), NEW c1 \in Residues(m)
  PROVE  LET U == generate_triple(a, b, a1, b1, c1, m)
         IN  U \in BeaverTriples(m) /\ is_triple(U, m)
PROOF
  <1>. DEFINE U == generate_triple(a, b, a1, b1, c1, m)
  <1>1. mod_mul(a, b, m) \in Residues(m)
    BY ModMul, ResiduesAreIntegers
  <1>2. /\ U.a1 = a1 /\ U.a2 = mod_sub(a, a1, m)
        /\ U.b1 = b1 /\ U.b2 = mod_sub(b, b1, m)
        /\ U.c1 = c1 /\ U.c2 = mod_sub(mod_mul(a, b, m), c1, m)
    BY DEF generate_triple
  <1>3. /\ U.a2 \in Residues(m) /\ mod_add(U.a1, U.a2, m) = a
        /\ U.b2 \in Residues(m) /\ mod_add(U.b1, U.b2, m) = b
    BY <1>2, SharesSum
  <1>4. /\ U.c2 \in Residues(m)
        /\ mod_add(U.c1, U.c2, m) = mod_mul(a, b, m)
    BY <1>1, <1>2, SharesSum
  <1>5. U \in BeaverTriples(m)
    BY <1>2, <1>3, <1>4 DEF generate_triple, BeaverTriples
  <1>6. is_triple(U, m)
    BY <1>3, <1>4 DEF is_triple
  <1>. QED
    BY <1>5, <1>6

(* The two local products, given the opened values, sum to the product of  *)
(* the inputs.                                                             *)
THEOREM LocalProductsSum ==
  ASSUME NEW m \in Nat \ {0},
         NEW x1 \in Residues(m), NEW x2 \in Residues(m),
         NEW y1 \in Residues(m), NEW y2 \in Residues(m),
         NEW U \in BeaverTriples(m), is_triple(U, m),
         NEW d0, d0 = opened(x1, x2, U.a1, U.a2, m),
         NEW e0, e0 = opened(y1, y2, U.b1, U.b2, m)
  PROVE  /\ d0 \in Residues(m) /\ e0 \in Residues(m)
         /\ product_share_1(d0, e0, U, m) \in Residues(m)
         /\ product_share_2(d0, e0, U, m) \in Residues(m)
         /\ mod_add(product_share_1(d0, e0, U, m),
                    product_share_2(d0, e0, U, m), m)
              = mod_mul(mod_add(x1, x2, m), mod_add(y1, y2, m), m)
PROOF
  <1>. DEFINE D == (x1 - U.a1) + (x2 - U.a2)
              E == (y1 - U.b1) + (y2 - U.b2)
              A == U.a1 + U.a2
              B == U.b1 + U.b2
              C == U.c1 + U.c2
              Z1 == ((U.c1 + D * U.b1) + E * U.a1) + D * E
              Z2 == (U.c2 + D * U.b2) + E * U.a2
  <1>1. /\ U.a1 \in Residues(m) /\ U.a2 \in Residues(m)
        /\ U.b1 \in Residues(m) /\ U.b2 \in Residues(m)
        /\ U.c1 \in Residues(m) /\ U.c2 \in Residues(m)
    BY DEF BeaverTriples
  <1>2. /\ x1 \in Int /\ x2 \in Int /\ y1 \in Int /\ y2 \in Int /\ m \in Int
        /\ U.a1 \in Int /\ U.a2 \in Int /\ U.b1 \in Int /\ U.b2 \in Int
        /\ U.c1 \in Int /\ U.c2 \in Int
    BY <1>1, ResiduesAreIntegers
  <1>3. /\ Computes(x1, x1, m) /\ Computes(x2, x2, m)
        /\ Computes(y1, y1, m) /\ Computes(y2, y2, m)
        /\ Computes(U.a1, U.a1, m) /\ Computes(U.a2, U.a2, m)
        /\ Computes(U.b1, U.b1, m) /\ Computes(U.b2, U.b2, m)
        /\ Computes(U.c1, U.c1, m) /\ Computes(U.c2, U.c2, m)
    BY <1>1, ComputesItself
  <1>4. Computes(d0, D, m) /\ D \in Int
    <2>1. /\ Computes(mod_sub(x1, U.a1, m), x1 - U.a1, m)
          /\ Computes(mod_sub(x2, U.a2, m), x2 - U.a2, m)
          /\ x1 - U.a1 \in Int /\ x2 - U.a2 \in Int
      BY <1>2, <1>3, ComputesSub
    <2>. QED
      BY <2>1, ComputesAdd DEF opened
  <1>5. Computes(e0, E, m) /\ E \in Int
    <2>1. /\ Computes(mod_sub(y1, U.b1, m), y1 - U.b1, m)
          /\ Computes(mod_sub(y2, U.b2, m), y2 - U.b2, m)
          /\ y1 - U.b1 \in Int /\ y2 - U.b2 \in Int
      BY <1>2, <1>3, ComputesSub
    <2>. QED
      BY <2>1, ComputesAdd DEF opened
  <1>. HIDE DEF D, E
  <1>6. Computes(product_share_1(d0, e0, U, m), Z1, m) /\ Z1 \in Int
    <2>1. /\ Computes(mod_mul(d0, U.b1, m), D * U.b1, m)
          /\ Computes(mod_mul(e0, U.a1, m), E * U.a1, m)
          /\ Computes(mod_mul(d0, e0, m), D * E, m)
          /\ D * U.b1 \in Int /\ E * U.a1 \in Int /\ D * E \in Int
      BY <1>2, <1>3, <1>4, <1>5, ComputesMul
    <2>2. /\ Computes(mod_add(U.c1, mod_mul(d0, U.b1, m), m), U.c1 + D * U.b1, m)
          /\ U.c1 + D * U.b1 \in Int
      BY <1>2, <1>3, <2>1, ComputesAdd
    <2>3. /\ Computes(mod_add(mod_add(U.c1, mod_mul(d0, U.b1, m), m),
                              mod_mul(e0, U.a1, m), m),
                      (U.c1 + D * U.b1) + E * U.a1, m)
          /\ (U.c1 + D * U.b1) + E * U.a1 \in Int
      BY <2>1, <2>2, ComputesAdd
    <2>. QED
      BY <2>1, <2>3, ComputesAdd DEF product_share_1
  <1>7. Computes(product_share_2(d0, e0, U, m), Z2, m) /\ Z2 \in Int
    <2>1. /\ Computes(mod_mul(d0, U.b2, m), D * U.b2, m)
          /\ Computes(mod_mul(e0, U.a2, m), E * U.a2, m)
          /\ D * U.b2 \in Int /\ E * U.a2 \in Int
      BY <1>2, <1>3, <1>4, <1>5, ComputesMul
    <2>2. /\ Computes(mod_add(U.c2, mod_mul(d0, U.b2, m), m), U.c2 + D * U.b2, m)
          /\ U.c2 + D * U.b2 \in Int
      BY <1>2, <1>3, <2>1, ComputesAdd
    <2>. QED
      BY <2>1, <2>2, ComputesAdd DEF product_share_2
  <1>8. Computes(mod_add(product_share_1(d0, e0, U, m),
                         product_share_2(d0, e0, U, m), m), Z1 + Z2, m)
    BY <1>6, <1>7, ComputesAdd
  <1>9. Computes(mod_mul(mod_add(x1, x2, m), mod_add(y1, y2, m), m),
                 (x1 + x2) * (y1 + y2), m)
    <2>1. /\ Computes(mod_add(x1, x2, m), x1 + x2, m) /\ x1 + x2 \in Int
          /\ Computes(mod_add(y1, y2, m), y1 + y2, m) /\ y1 + y2 \in Int
      BY <1>2, <1>3, ComputesAdd
    <2>. QED
      BY <2>1, ComputesMul
  <1>10. Cong(C, A * B, m)
    <2>1. /\ Computes(mod_add(U.a1, U.a2, m), A, m) /\ A \in Int
          /\ Computes(mod_add(U.b1, U.b2, m), B, m) /\ B \in Int
          /\ Computes(mod_add(U.c1, U.c2, m), C, m) /\ C \in Int
      BY <1>2, <1>3, ComputesAdd
    <2>2. Computes(mod_mul(mod_add(U.a1, U.a2, m), mod_add(U.b1, U.b2, m), m),
                   A * B, m) /\ A * B \in Int
      BY <2>1, ComputesMul
    <2>. HIDE DEF A, B, C
    <2>. QED
      BY <2>1, <2>2, ComputesSame DEF is_triple
  <1>11. Cong(Z1 + Z2, (x1 + x2) * (y1 + y2), m)
    <2>1. PICK t \in Int : C = A * B + m * t
      BY <1>10 DEF Cong
    <2>2. Z1 + Z2 = C + D * B + E * A + D * E
      BY <1>2, <1>4, <1>5
    <2>3. (D + A) * (E + B) = A * B + D * B + E * A + D * E
      BY <1>2, <1>4, <1>5
    <2>4. D + A = x1 + x2 /\ E + B = y1 + y2
      BY <1>2 DEF D, E
    <2>5. A \in Int /\ B \in Int /\ C \in Int
      BY <1>2
    <2>. HIDE DEF A, B, C, Z1, Z2
    <2>6. Z1 + Z2 = (x1 + x2) * (y1 + y2) + m * t
      BY <1>2, <1>4, <1>5, <2>1, <2>2, <2>3, <2>4, <2>5
    <2>. QED
      BY <2>6 DEF Cong
  <1>12. Z1 + Z2 \in Int /\ (x1 + x2) * (y1 + y2) \in Int
    BY <1>2, <1>6, <1>7
  <1>13. mod_add(product_share_1(d0, e0, U, m),
                 product_share_2(d0, e0, U, m), m)
           = mod_mul(mod_add(x1, x2, m), mod_add(y1, y2, m), m)
    <2>. HIDE DEF Z1, Z2
    <2>. QED
      BY <1>8, <1>9, <1>11, <1>12, ComputesSame
  <1>. QED
    BY <1>4, <1>5, <1>6, <1>7, <1>13 DEF Computes

(* beaver_mul returns shares of the product.                               *)
THEOREM BeaverMulMultiplies ==
  ASSUME NEW m \in Nat \ {0},
         NEW x1 \in Residues(m), NEW x2 \in Residues(m),
         NEW y1 \in Residues(m), NEW y2 \in Residues(m),
         NEW U \in BeaverTriples(m), is_triple(U, m)
  PROVE  LET prod == beaver_mul(x1, x2, y1, y2, U, m)
         IN  /\ prod[1] \in Residues(m) /\ prod[2] \in Residues(m)
             /\ mod_add(prod[1], prod[2], m)
                  = mod_mul(mod_add(x1, x2, m), mod_add(y1, y2, m), m)
PROOF
  <1>. DEFINE d0 == opened(x1, x2, U.a1, U.a2, m)
              e0 == opened(y1, y2, U.b1, U.b2, m)
  <1>1. beaver_mul(x1, x2, y1, y2, U, m)
          = <<product_share_1(d0, e0, U, m), product_share_2(d0, e0, U, m)>>
    BY DEF beaver_mul
  <1>. HIDE DEF d0, e0
  <1>2. /\ product_share_1(d0, e0, U, m) \in Residues(m)
        /\ product_share_2(d0, e0, U, m) \in Residues(m)
        /\ mod_add(product_share_1(d0, e0, U, m),
                   product_share_2(d0, e0, U, m), m)
             = mod_mul(mod_add(x1, x2, m), mod_add(y1, y2, m), m)
    BY LocalProductsSum DEF d0, e0
  <1>. QED
    BY <1>1, <1>2
=============================================================================
