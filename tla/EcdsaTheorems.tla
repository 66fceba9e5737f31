---------------------------- MODULE EcdsaTheorems ----------------------------
(***************************************************************************)
(* The scalar field; the points of the curve and the group laws that the   *)
(* formulas of point_add, point_double and point_neg obey; the multiples   *)
(* that double-and-add computes; and why a signature verifies.  For every  *)
(* curve over a prime field on which addition associates and whose base    *)
(* point has prime order (EcGroup's assumptions), every scalar, secret,    *)
(* nonce and digest.                                                       *)
(***************************************************************************)
EXTENDS Ecdsa, ArithmeticTheorems

LEMMA OrderFacts ==
  n \in Nat \ {0} /\ n >= 2 /\ 0 \in Residues(n) /\ 1 \in Residues(n)
PROOF BY ParametersInRange DEF n, Residues

-----------------------------------------------------------------------------
(* The scalars are a field.                                                *)
LEMMA MulByOne ==
  ASSUME NEW a \in Residues(n)
  PROVE  mod_mul(a, 1, n) = a /\ mod_mul(1, a, n) = a
PROOF
  <1>1. a \in Int /\ a * 1 = a /\ 1 * a = a
    BY ResiduesAreIntegers, OrderFacts
  <1>2. Computes(a, a, n) /\ Computes(1, 1, n)
    BY ComputesItself, OrderFacts
  <1>3. Computes(mod_mul(a, 1, n), a, n) /\ Computes(mod_mul(1, a, n), a, n)
    BY <1>1, <1>2, ComputesMul, OrderFacts
  <1>. QED
    BY <1>1, <1>2, <1>3, ComputesSame, CongRefl, OrderFacts

LEMMA MulByZero ==
  ASSUME NEW a \in Residues(n)
  PROVE  mod_mul(a, 0, n) = 0 /\ mod_mul(0, a, n) = 0
PROOF
  <1>1. a \in Int /\ a * 0 = 0 /\ 0 * a = 0
    BY ResiduesAreIntegers, OrderFacts
  <1>2. Computes(a, a, n) /\ Computes(0, 0, n)
    BY ComputesItself, OrderFacts
  <1>3. Computes(mod_mul(a, 0, n), 0, n) /\ Computes(mod_mul(0, a, n), 0, n)
    BY <1>1, <1>2, ComputesMul, OrderFacts
  <1>. QED
    BY <1>1, <1>2, <1>3, ComputesSame, CongRefl, OrderFacts

LEMMA MulCommutes ==
  ASSUME NEW a \in Residues(n), NEW b \in Residues(n)
  PROVE  mod_mul(a, b, n) = mod_mul(b, a, n)
PROOF
  <1>1. a \in Int /\ b \in Int /\ a * b = b * a
    BY ResiduesAreIntegers, OrderFacts
  <1>. QED
    BY <1>1 DEF mod_mul

LEMMA MulAssociates ==
  ASSUME NEW a \in Residues(n), NEW b \in Residues(n), NEW c \in Residues(n)
  PROVE  mod_mul(mod_mul(a, b, n), c, n) = mod_mul(a, mod_mul(b, c, n), n)
PROOF
  <1>1. /\ a \in Int /\ b \in Int /\ c \in Int
        /\ a * b \in Int /\ b * c \in Int
        /\ (a * b) * c \in Int /\ a * (b * c) \in Int
        /\ (a * b) * c = a * (b * c)
    BY ResiduesAreIntegers, OrderFacts
  <1>2. Computes(a, a, n) /\ Computes(b, b, n) /\ Computes(c, c, n)
    BY ComputesItself, OrderFacts
  <1>3. Computes(mod_mul(a, b, n), a * b, n) /\ Computes(mod_mul(b, c, n), b * c, n)
    BY <1>1, <1>2, ComputesMul, OrderFacts
  <1>4. /\ Computes(mod_mul(mod_mul(a, b, n), c, n), (a * b) * c, n)
        /\ Computes(mod_mul(a, mod_mul(b, c, n), n), a * (b * c), n)
    BY <1>1, <1>2, <1>3, ComputesMul, OrderFacts
  <1>5. Cong((a * b) * c, a * (b * c), n)
    BY <1>1, CongRefl, OrderFacts
  <1>. QED
    BY <1>1, <1>4, <1>5, ComputesSame, OrderFacts

LEMMA MulDistributes ==
  ASSUME NEW a \in Residues(n), NEW b \in Residues(n), NEW c \in Residues(n)
  PROVE  mod_add(mod_mul(a, c, n), mod_mul(b, c, n), n)
           = mod_mul(mod_add(a, b, n), c, n)
PROOF
  <1>1. /\ a \in Int /\ b \in Int /\ c \in Int
        /\ a * c \in Int /\ b * c \in Int /\ a + b \in Int
        /\ a * c + b * c \in Int /\ (a + b) * c \in Int
        /\ a * c + b * c = (a + b) * c
    BY ResiduesAreIntegers, OrderFacts
  <1>2. Computes(a, a, n) /\ Computes(b, b, n) /\ Computes(c, c, n)
    BY ComputesItself, OrderFacts
  <1>3. /\ Computes(mod_mul(a, c, n), a * c, n)
        /\ Computes(mod_mul(b, c, n), b * c, n)
        /\ Computes(mod_add(a, b, n), a + b, n)
    BY <1>1, <1>2, ComputesMul, ComputesAdd, OrderFacts
  <1>4. /\ Computes(mod_add(mod_mul(a, c, n), mod_mul(b, c, n), n),
                    a * c + b * c, n)
        /\ Computes(mod_mul(mod_add(a, b, n), c, n), (a + b) * c, n)
    BY <1>1, <1>2, <1>3, ComputesMul, ComputesAdd, OrderFacts
  <1>5. Cong(a * c + b * c, (a + b) * c, n)
    BY <1>1, CongRefl, OrderFacts
  <1>. QED
    BY <1>1, <1>4, <1>5, ComputesSame, OrderFacts

LEMMA AddAssociates ==
  ASSUME NEW a \in Residues(n), NEW b \in Residues(n), NEW c \in Residues(n)
  PROVE  mod_add(mod_add(a, b, n), c, n) = mod_add(a, mod_add(b, c, n), n)
PROOF BY OrderFacts DEF Residues, mod_add

LEMMA Closure ==
  ASSUME NEW a \in Residues(n), NEW b \in Residues(n)
  PROVE  mod_add(a, b, n) \in Residues(n) /\ mod_mul(a, b, n) \in Residues(n)
PROOF BY ModAdd, ModMul, ResiduesAreIntegers, OrderFacts

(* n is prime: a product is zero only when a factor is.                    *)
LEMMA NoZeroDivisors ==
  ASSUME NEW a \in Residues(n), NEW b \in Residues(n),
         mod_mul(a, b, n) = 0, a # 0
  PROVE  b = 0
PROOF
  <1>1. a \in 1..(n - 1)
    BY OrderFacts DEF Residues
  <1>2. PICK u \in Residues(n) : mod_mul(a, u, n) = 1
    BY <1>1, OrderIsPrime DEF invertible
  <1>3. mod_mul(mod_mul(u, a, n), b, n) = mod_mul(u, mod_mul(a, b, n), n)
    BY MulAssociates
  <1>4. mod_mul(u, a, n) = 1
    BY <1>2, MulCommutes
  <1>5. mod_mul(1, b, n) = mod_mul(u, 0, n)
    BY <1>3, <1>4
  <1>. QED
    BY <1>5, MulByOne, MulByZero

LEMMA HashIsScalar ==
  ASSUME NEW h \in Nat
  PROVE  hash_to_scalar(h, n) \in Residues(n)
PROOF
  <1>1. h \in Int
    OBVIOUS
  <1>. QED
    BY <1>1, ModuloIsResidue, OrderFacts DEF hash_to_scalar

LEMMA InverseOfScalar ==
  ASSUME NEW a \in Residues(n), a # 0
  PROVE  mod_inv(a, n) \in Residues(n) /\ mod_mul(a, mod_inv(a, n), n) = 1
PROOF
  <1>1. a \in 1..(n - 1)
    BY OrderFacts DEF Residues
  <1>2. \E u \in Residues(n) : mod_mul(a, u, n) = 1
    BY <1>1, OrderIsPrime DEF invertible
  <1>. QED
    BY <1>2 DEF mod_inv

(* A factor that is not zero cancels. *)
LEMMA MulCancels ==
  ASSUME NEW a \in Residues(n), NEW b \in Residues(n), NEW c \in Residues(n),
         c # 0, mod_mul(a, c, n) = mod_mul(b, c, n)
  PROVE  a = b
PROOF
  <1>1. PICK u \in Residues(n) : mod_mul(c, u, n) = 1
    BY InverseOfScalar
  <1>2. /\ mod_mul(mod_mul(a, c, n), u, n) = mod_mul(a, mod_mul(c, u, n), n)
        /\ mod_mul(mod_mul(b, c, n), u, n) = mod_mul(b, mod_mul(c, u, n), n)
    BY MulAssociates
  <1>. QED
    BY <1>1, <1>2, MulByOne

LEMMA NegFacts ==
  ASSUME NEW a \in Residues(n), NEW b \in Residues(n)
  PROVE  /\ mod_neg(a, n) \in Residues(n)
         /\ mod_neg(a, n) = 0 <=> a = 0
         /\ mod_mul(mod_neg(a, n), b, n) = mod_neg(mod_mul(a, b, n), n)
         /\ mod_mul(a, mod_neg(b, n), n) = mod_neg(mod_mul(a, b, n), n)
PROOF
  <1>1. mod_neg(a, n) \in Residues(n) /\ (mod_neg(a, n) = 0 <=> a = 0)
    BY OrderFacts DEF mod_neg, Residues
  <1>2. ASSUME NEW x \in Residues(n), NEW y \in Residues(n)
        PROVE  mod_mul(mod_neg(x, n), y, n) = mod_neg(mod_mul(x, y, n), n)
    <2>1. /\ x \in Int /\ y \in Int /\ x * y \in Int /\ n \in Int
          /\ -x \in Int /\ (-x) * y \in Int /\ (-x) * y = -(x * y)
      BY <1>2, ResiduesAreIntegers, OrderFacts
    <2>2. /\ Computes(x, x, n) /\ Computes(y, y, n)
          /\ Computes(mod_neg(x, n), -x, n)
      BY <1>2, ComputesItself, ModNeg, OrderFacts DEF Computes
    <2>3. /\ Computes(mod_mul(mod_neg(x, n), y, n), (-x) * y, n)
          /\ Computes(mod_mul(x, y, n), x * y, n)
      BY <2>1, <2>2, ComputesMul, OrderFacts
    <2>4. PICK v \in Residues(n) : v = mod_mul(x, y, n) /\ Cong(v, x * y, n)
      BY <2>3 DEF Computes
    <2>5. mod_neg(v, n) \in Residues(n) /\ Cong(mod_neg(v, n), -v, n)
      BY <2>4, ModNeg, OrderFacts
    <2>6. Cong(-v, -(x * y), n)
      <3>1. PICK t \in Int : v = x * y + n * t
        BY <2>4 DEF Cong
      <3>2. v \in Int /\ n * t \in Int /\ n * (-t) = -(n * t) /\ -t \in Int
        BY <3>1, <2>1, ResiduesAreIntegers, OrderFacts
      <3>3. -v = -(x * y) + n * (-t)
        BY <3>1, <3>2, <2>1
      <3>. QED
        BY <3>2, <3>3 DEF Cong
    <2>7. v \in Int /\ -v \in Int /\ -(x * y) \in Int /\ mod_neg(v, n) \in Int
      <3>1. v \in Int /\ mod_neg(v, n) \in Int
        BY <2>4, <2>5, ResiduesAreIntegers, OrderFacts
      <3>2. \A i \in Int : -i \in Int
        OBVIOUS
      <3>. QED
        BY <3>1, <3>2, <2>1
    <2>8. Computes(mod_neg(v, n), -(x * y), n)
      BY <2>1, <2>5, <2>6, <2>7, CongTrans DEF Computes
    <2>9. Cong((-x) * y, -(x * y), n)
      BY <2>1, CongRefl
    <2>. QED
      BY <2>1, <2>3, <2>4, <2>7, <2>8, <2>9, ComputesSame, OrderFacts
  <1>3. mod_mul(mod_neg(a, n), b, n) = mod_neg(mod_mul(a, b, n), n)
    BY <1>2
  <1>4. mod_mul(mod_neg(b, n), a, n) = mod_neg(mod_mul(b, a, n), n)
    BY <1>2
  <1>5. mod_neg(b, n) \in Residues(n)
    BY OrderFacts DEF mod_neg, Residues
  <1>. QED
    BY <1>1, <1>3, <1>4, <1>5, MulCommutes

-----------------------------------------------------------------------------
(* The curve.  Sums of its points are points of it, and commute: what its  *)
(* equation, the slope of a line and the third intersection amount to      *)
(* modulo p.                                                               *)

LEMMA FieldFacts ==
  /\ p \in Nat \ {0} /\ p > 3 /\ p \in Int
  /\ \A x \in Residues(p) : x \in Int /\ 0 <= x /\ x < p
  /\ 0 \in Residues(p) /\ secp256k1_a \in Residues(p) /\ secp256k1_b \in Residues(p)
PROOF
  <1>1. secp256k1_a \in Residues(p) /\ secp256k1_b \in Residues(p) /\ p \in Nat
    BY ParametersInRange, Zenon DEF p
  <1>. QED
    BY <1>1, FieldIsPrime DEF Residues

(* Congruent integers differ by an integer congruent to zero. *)
LEMMA CongDifference ==
  ASSUME NEW u \in Int, NEW v \in Int, NEW m \in Int
  PROVE  Cong(u, v, m) <=> Cong(u - v, 0, m)
PROOF
  <1>1. \A t \in Int : m * t \in Int
    OBVIOUS
  <1>2. \A w \in Int : u = v + w <=> u - v = 0 + w
    OBVIOUS
  <1>. QED
    BY <1>1, <1>2 DEF Cong

LEMMA CombinationVanishes ==
  ASSUME NEW m \in Int, NEW e \in Int, NEW f \in Int, NEW u \in Int, NEW v \in Int,
         Cong(e, 0, m), Cong(f, 0, m), NEW g, g = u * e + v * f
  PROVE  Cong(g, 0, m)
PROOF
  <1>1. PICK s, t \in Int : e = 0 + m * s /\ f = 0 + m * t
    BY DEF Cong
  <1>2. \A x, y \in Int : x = 0 + y => x = y
    OBVIOUS
  <1>3. m * s \in Int /\ m * t \in Int
    OBVIOUS
  <1>4. e = m * s /\ f = m * t
    BY <1>1, <1>2, <1>3
  <1>5. u * (m * s) + v * (m * t) = 0 + m * (u * s + v * t) /\ u * s + v * t \in Int
    OBVIOUS
  <1>. QED
    BY <1>4, <1>5 DEF Cong

LEMMA One == 1 \in Int
PROOF OBVIOUS

(* Nonzero residues have inverses, so a factor like that cancels. *)
LEMMA InverseInField ==
  ASSUME NEW d \in Residues(p), d # 0
  PROVE  mod_inv(d, p) \in Residues(p) /\ Cong(d * mod_inv(d, p), 1, p)
PROOF
  <1>1. d \in 1..(p - 1) /\ d \in Int
    BY FieldFacts
  <1>2. \E w \in Residues(p) : mod_mul(d, w, p) = 1
    BY <1>1, FieldIsPrime DEF invertible
  <1>3. PICK w \in Residues(p) : w = mod_inv(d, p) /\ mod_mul(d, w, p) = 1
    BY <1>2 DEF mod_inv
  <1>4. w \in Int /\ d * w \in Int
    BY <1>1, FieldFacts
  <1>5. Cong(1, d * w, p)
    BY <1>1, <1>3, <1>4, ModMul, FieldFacts
  <1>. QED
    BY <1>3, <1>4, <1>5, CongSym, FieldFacts

LEMMA FactorCancels ==
  ASSUME NEW c \in Residues(p), c # 0, NEW d \in Int, Cong(c, d, p),
         NEW e \in Int, Cong(d * e, 0, p)
  PROVE  Cong(e, 0, p)
PROOF
  <1>1. PICK w \in Int : Cong(c * w, 1, p)
    BY InverseInField, FieldFacts
  <1>2. c \in Int /\ c * w \in Int /\ d * e \in Int /\ c - d \in Int /\ p \in Int
        /\ c * w - 1 \in Int /\ -e \in Int /\ e * w \in Int
    BY FieldFacts
  <1>3. Cong(c * w - 1, 0, p) /\ Cong(c - d, 0, p)
    BY <1>1, <1>2, CongDifference
  <1>4. PICK g, h, o \in Int :
          g = w * (d * e) + (e * w) * (c - d) /\ h = c * w - 1 /\ o = -e
    BY <1>2
  <1>5. Cong(g, 0, p) /\ Cong(h, 0, p)
    BY <1>2, <1>3, <1>4, CombinationVanishes, Zenon
  <1>6. PICK r \in Int : r = 1 * g + o * h
    BY <1>4
  <1>7. Cong(r, 0, p)
    BY <1>2, <1>4, <1>5, <1>6, One, CombinationVanishes, Zenon
  <1>8. \A x, y, z, t \in Int :
          1 * (x * (y * z) + (z * x) * (t - y)) + (-z) * (t * x - 1) = z
    OBVIOUS
  <1>9. 1 * (w * (d * e) + (e * w) * (c - d)) + (-e) * (c * w - 1) = e
    BY <1>2, <1>8
  <1>. QED
    BY <1>4, <1>6, <1>7, <1>9

-----------------------------------------------------------------------------
(* By how much (x, y) misses the curve. *)
Residual(x, y) == y * y - ((x * x) * x + secp256k1_a * x + secp256k1_b)

LEMMA OnCurve ==
  ASSUME NEW x \in Residues(p), NEW y \in Residues(p)
  PROVE  /\ Residual(x, y) \in Int
         /\ is_on_curve(AffinePoint(x, y)) <=> Cong(Residual(x, y), 0, p)
PROOF
  <1>1. PICK a, b \in Residues(p) : a = secp256k1_a /\ b = secp256k1_b
    BY FieldFacts
  <1>2. x \in Int /\ y \in Int /\ a \in Int /\ b \in Int
    BY FieldFacts
  <1>3. PICK yy, xx, xxx, ax \in Int :
          yy = y * y /\ xx = x * x /\ xxx = xx * x /\ ax = a * x
    BY <1>2
  <1>4. Computes(x, x, p) /\ Computes(y, y, p) /\ Computes(a, a, p) /\ Computes(b, b, p)
    BY ComputesItself, FieldFacts
  <1>5. /\ Computes(mod_mul(y, y, p), yy, p) /\ Computes(mod_mul(x, x, p), xx, p)
        /\ Computes(mod_mul(a, x, p), ax, p)
    BY <1>2, <1>3, <1>4, ComputesMul, FieldFacts
  <1>6. Computes(mod_mul(mod_mul(x, x, p), x, p), xxx, p)
    BY <1>2, <1>3, <1>4, <1>5, ComputesMul, FieldFacts
  <1>7. Computes(mod_add(mod_mul(mod_mul(x, x, p), x, p), mod_mul(a, x, p), p), xxx + ax, p)
    BY <1>3, <1>5, <1>6, ComputesAdd, FieldFacts
  <1>8. xxx + ax \in Int /\ xxx + ax + b \in Int
    BY <1>2, <1>3
  <1>9. Computes(mod_add(mod_add(mod_mul(mod_mul(x, x, p), x, p),
                                 mod_mul(a, x, p), p), b, p), xxx + ax + b, p)
    BY <1>2, <1>4, <1>7, <1>8, ComputesAdd, FieldFacts
  <1>10. is_on_curve(AffinePoint(x, y))
           <=> mod_mul(y, y, p) = mod_add(mod_add(mod_mul(mod_mul(x, x, p), x, p),
                                                  mod_mul(a, x, p), p), b, p)
    BY <1>1 DEF is_on_curve, AffinePoint
  <1>11. is_on_curve(AffinePoint(x, y)) <=> Cong(yy, xxx + ax + b, p)
    BY <1>3, <1>5, <1>8, <1>9, <1>10, ComputesSame, FieldFacts
  <1>12. Residual(x, y) = yy - (xxx + ax + b)
    BY <1>1, <1>3 DEF Residual
  <1>13. Cong(yy, xxx + ax + b, p) <=> Cong(yy - (xxx + ax + b), 0, p)
    BY <1>3, <1>8, CongDifference, FieldFacts
  <1>14. yy - (xxx + ax + b) \in Int
    BY <1>3, <1>8
  <1>. QED
    BY <1>11, <1>12, <1>13, <1>14

(* The coordinates chord computes. *)
LEMMA ChordPoint ==
  ASSUME NEW x1 \in Residues(p), NEW y1 \in Residues(p), NEW x2 \in Residues(p),
         NEW y2, NEW l \in Residues(p)
  PROVE  \E X, Y \in Residues(p) :
           /\ chord(AffinePoint(x1, y1), AffinePoint(x2, y2), l) = AffinePoint(X, Y)
           /\ Cong(X, l * l - (x1 + x2), p)
           /\ Cong(Y, l * (x1 - X) - y1, p)
PROOF
  <1>. DEFINE X == mod_sub(mod_mul(l, l, p), mod_add(x1, x2, p), p)
              Y == mod_sub(mod_mul(l, mod_sub(x1, X, p), p), y1, p)
  <1>1. x1 \in Int /\ y1 \in Int /\ x2 \in Int /\ l \in Int
    BY FieldFacts
  <1>2. Computes(x1, x1, p) /\ Computes(y1, y1, p) /\ Computes(x2, x2, p) /\ Computes(l, l, p)
    BY ComputesItself, FieldFacts
  <1>3. l * l \in Int /\ x1 + x2 \in Int /\ l * l - (x1 + x2) \in Int
    BY <1>1
  <1>4. Computes(mod_mul(l, l, p), l * l, p) /\ Computes(mod_add(x1, x2, p), x1 + x2, p)
    BY <1>1, <1>2, ComputesMul, ComputesAdd, FieldFacts
  <1>5. Computes(X, l * l - (x1 + x2), p)
    BY <1>3, <1>4, ComputesSub, FieldFacts
  <1>. HIDE DEF X
  <1>6. X \in Residues(p) /\ X \in Int /\ Computes(X, X, p)
    BY <1>5, ComputesItself, FieldFacts DEF Computes
  <1>7. x1 - X \in Int /\ l * (x1 - X) \in Int
    BY <1>1, <1>6
  <1>8. Computes(mod_sub(x1, X, p), x1 - X, p)
    BY <1>1, <1>2, <1>6, ComputesSub, FieldFacts
  <1>9. Computes(mod_mul(l, mod_sub(x1, X, p), p), l * (x1 - X), p)
    BY <1>1, <1>2, <1>7, <1>8, ComputesMul, FieldFacts
  <1>10. Computes(Y, l * (x1 - X) - y1, p)
    BY <1>1, <1>2, <1>7, <1>9, ComputesSub, FieldFacts
  <1>11. chord(AffinePoint(x1, y1), AffinePoint(x2, y2), l) = AffinePoint(X, Y)
    BY DEF chord, AffinePoint, X
  <1>. QED
    BY <1>5, <1>10, <1>11 DEF Computes

(* The residual at the second intersection of a line through (x1, y1),     *)
(* of slope l, with the factor x2 - x1 divided out.                        *)
Quotient(x1, y1, x2, l) ==
  (l * l) * (x2 - x1) + 2 * (l * y1) - (x2 * x2 + x2 * x1 + x1 * x1 + secp256k1_a)

LEMMA SecondIntersection ==
  ASSUME NEW x1 \in Int, NEW y1 \in Int, NEW x2 \in Int, NEW y2 \in Int, NEW l \in Int
  PROVE  /\ Quotient(x1, y1, x2, l) \in Int
         /\ (x2 - x1) * Quotient(x1, y1, x2, l)
              = Residual(x2, y2) - Residual(x1, y1)
                + (l * (x2 - x1) - (y2 - y1)) * (l * (x2 - x1) + (y2 + y1))
PROOF
  <1>1. PICK a, b \in Int : a = secp256k1_a /\ b = secp256k1_b
    BY FieldFacts
  <1>2. /\ (l * l) * (x2 - x1) + 2 * (l * y1) - (x2 * x2 + x2 * x1 + x1 * x1 + a) \in Int
        /\ (x2 - x1) * ((l * l) * (x2 - x1) + 2 * (l * y1)
                          - (x2 * x2 + x2 * x1 + x1 * x1 + a))
             = (y2 * y2 - ((x2 * x2) * x2 + a * x2 + b))
               - (y1 * y1 - ((x1 * x1) * x1 + a * x1 + b))
               + (l * (x2 - x1) - (y2 - y1)) * (l * (x2 - x1) + (y2 + y1))
    OBVIOUS
  <1>. QED
    BY <1>1, <1>2, Zenon DEF Quotient, Residual

LEMMA ThirdIntersection ==
  ASSUME NEW x1 \in Int, NEW y1 \in Int, NEW x2 \in Int, NEW l \in Int, NEW X \in Int
  PROVE  Residual(X, l * (x1 - X) - y1)
           = Residual(x1, y1)
             + (X - x1) * (Quotient(x1, y1, x2, l)
                             + (X - x2) * ((l * l - (x1 + x2)) - X))
PROOF
  <1>1. PICK a, b \in Int : a = secp256k1_a /\ b = secp256k1_b
    BY FieldFacts
  <1>2. (l * (x1 - X) - y1) * (l * (x1 - X) - y1) - ((X * X) * X + a * X + b)
          = (y1 * y1 - ((x1 * x1) * x1 + a * x1 + b))
            + (X - x1) * (((l * l) * (x2 - x1) + 2 * (l * y1)
                            - (x2 * x2 + x2 * x1 + x1 * x1 + a))
                          + (X - x2) * ((l * l - (x1 + x2)) - X))
    OBVIOUS
  <1>. QED
    BY <1>1, <1>2, Zenon DEF Quotient, Residual

(* A chord or a tangent of points of the curve meets it in a third one.    *)
LEMMA ChordOnCurve ==
  ASSUME NEW x1 \in Residues(p), NEW y1 \in Residues(p), NEW x2 \in Residues(p),
         NEW l \in Residues(p), NEW X \in Residues(p), NEW Y \in Residues(p),
         Cong(X, l * l - (x1 + x2), p), Cong(Y, l * (x1 - X) - y1, p),
         Cong(Residual(x1, y1), 0, p), Cong(Quotient(x1, y1, x2, l), 0, p)
  PROVE  Cong(Residual(X, Y), 0, p)
PROOF
  <1>1. /\ x1 \in Int /\ y1 \in Int /\ x2 \in Int /\ l \in Int
        /\ X \in Int /\ Y \in Int /\ p \in Int
    BY FieldFacts
  <1>2. PICK r, q, e, Z, c, d \in Int :
          /\ r = Residual(x1, y1) /\ q = Quotient(x1, y1, x2, l)
          /\ e = (l * l - (x1 + x2)) - X /\ Z = l * (x1 - X) - y1
          /\ c = X - x1 /\ d = X - x2
    <2>1. Residual(x1, y1) \in Int
      BY OnCurve
    <2>2. Quotient(x1, y1, x2, l) \in Int
      BY <1>1, SecondIntersection
    <2>. QED
      BY <1>1, <2>1, <2>2
  <1>3. Cong(e, 0, p)
    <2>1. PICK u \in Int : u = l * l - (x1 + x2)
      BY <1>1
    <2>2. Cong(u, X, p)
      BY <1>1, <2>1, CongSym
    <2>. QED
      BY <1>1, <1>2, <2>1, <2>2, CongDifference
  <1>4. Cong(r, 0, p) /\ Cong(q, 0, p) /\ Cong(Y, Z, p)
    BY <1>2
  <1>5. PICK f \in Int : f = 1 * q + d * e
    BY <1>2
  <1>6. Cong(f, 0, p)
    BY <1>1, <1>2, <1>3, <1>4, <1>5, One, CombinationVanishes, Zenon
  <1>7. PICK g \in Int : g = 1 * r + c * f
    BY <1>2, <1>5
  <1>8. Cong(g, 0, p)
    BY <1>1, <1>2, <1>4, <1>5, <1>6, <1>7, One, CombinationVanishes, Zenon
  <1>9. Residual(X, Z) = g
    <2>1. Residual(X, Z) = r + c * (q + d * e)
      BY <1>1, <1>2, ThirdIntersection
    <2>2. 1 * q + d * e = q + d * e /\ \A y \in Int : 1 * r + y = r + y
      BY <1>2
    <2>3. c * f \in Int
      BY <1>2, <1>5
    <2>. QED
      BY <1>5, <1>7, <2>1, <2>2, <2>3
  <1>10. Residual(X, Y) = (Y + Z) * (Y - Z) + Residual(X, Z)
    <2>1. PICK w \in Int : w = (X * X) * X + secp256k1_a * X + secp256k1_b
      <3>1. secp256k1_a \in Int /\ secp256k1_b \in Int
        BY FieldFacts
      <3>. QED
        BY <1>1, <3>1
    <2>2. Y * Y - w = (Y + Z) * (Y - Z) + (Z * Z - w)
      BY <1>1, <1>2, <2>1
    <2>. QED
      BY <2>1, <2>2 DEF Residual
  <1>11. PICK s, t \in Int : s = Y + Z /\ t = Y - Z
    BY <1>1, <1>2
  <1>12. Cong(t, 0, p)
    BY <1>1, <1>2, <1>4, <1>11, CongDifference
  <1>13. PICK h \in Int : h = s * t + 1 * g
    BY <1>7, <1>11
  <1>14. Cong(h, 0, p)
    BY <1>1, <1>7, <1>8, <1>11, <1>12, <1>13, One, CombinationVanishes, Zenon
  <1>15. h = s * t + g
    BY <1>7, <1>13
  <1>. QED
    BY <1>9, <1>10, <1>11, <1>14, <1>15

(* The slope of a chord. *)
LEMMA ChordSlope ==
  ASSUME NEW x1 \in Residues(p), NEW y1 \in Residues(p),
         NEW x2 \in Residues(p), NEW y2 \in Residues(p), x1 # x2
  PROVE  \E l \in Residues(p) :
           /\ l = mod_mul(mod_sub(y2, y1, p), mod_inv(mod_sub(x2, x1, p), p), p)
           /\ Cong(l * (x2 - x1) - (y2 - y1), 0, p)
PROOF
  <1>1. x1 \in Int /\ y1 \in Int /\ x2 \in Int /\ y2 \in Int /\ p \in Int
    BY FieldFacts
  <1>2. PICK D, N \in Residues(p) :
          /\ D = mod_sub(x2, x1, p) /\ Cong(D, x2 - x1, p) /\ D # 0
          /\ N = mod_sub(y2, y1, p) /\ Cong(N, y2 - y1, p)
    <2>1. /\ mod_sub(x2, x1, p) \in Residues(p) /\ Cong(mod_sub(x2, x1, p), x2 - x1, p)
          /\ mod_sub(y2, y1, p) \in Residues(p) /\ Cong(mod_sub(y2, y1, p), y2 - y1, p)
      BY ModSub, FieldFacts
    <2>2. mod_sub(x2, x1, p) # 0
      BY <1>1, FieldFacts DEF mod_sub
    <2>. QED
      BY <2>1, <2>2
  <1>3. PICK w \in Residues(p) : w = mod_inv(D, p) /\ Cong(D * w, 1, p)
    BY <1>2, InverseInField
  <1>4. D \in Int /\ N \in Int /\ w \in Int
    BY FieldFacts
  <1>5. PICK l \in Residues(p) : l = mod_mul(N, w, p) /\ Cong(l, N * w, p)
    BY <1>4, ModMul, FieldFacts
  <1>6. l \in Int
    BY FieldFacts
  <1>7. PICK d, m, e1, e2, e3, e4 \in Int :
          /\ d = x2 - x1 /\ m = y2 - y1
          /\ e1 = l - N * w /\ e2 = D * w - 1 /\ e3 = N - m /\ e4 = D - d
    BY <1>1, <1>4, <1>6
  <1>8. Cong(e1, 0, p) /\ Cong(e2, 0, p) /\ Cong(e3, 0, p) /\ Cong(e4, 0, p)
    <2>1. N * w \in Int /\ D * w \in Int /\ 1 \in Int
      BY <1>4
    <2>. QED
      BY <1>1, <1>2, <1>3, <1>4, <1>5, <1>6, <1>7, <2>1, CongDifference
  <1>9. l * d - m = (d * e1 + N * e2) + ((-(N * w)) * e4 + 1 * e3)
    <2>1. \A lt, dt, mt, Nt, wt, Dt \in Int :
            lt * dt - mt = (dt * (lt - Nt * wt) + Nt * (Dt * wt - 1))
                             + ((-(Nt * wt)) * (Dt - dt) + 1 * (Nt - mt))
      OBVIOUS
    <2>. QED
      BY <1>4, <1>6, <1>7, <2>1
  <1>10. PICK f, g, h \in Int :
           /\ h = -(N * w)
           /\ f = d * e1 + N * e2 /\ g = h * e4 + 1 * e3
    BY <1>4, <1>7
  <1>11. Cong(f, 0, p) /\ Cong(g, 0, p)
    BY <1>1, <1>4, <1>7, <1>8, <1>10, One, CombinationVanishes, Zenon
  <1>12. PICK r \in Int : r = 1 * f + 1 * g
    BY <1>10
  <1>13. Cong(r, 0, p)
    BY <1>1, <1>10, <1>11, <1>12, One, CombinationVanishes, Zenon
  <1>14. r = l * d - m
    BY <1>9, <1>10, <1>12
  <1>. QED
    BY <1>2, <1>3, <1>5, <1>7, <1>13, <1>14

(* The slope of a tangent: its second intersection is its first.           *)
LEMMA TangentSlope ==
  ASSUME NEW x \in Residues(p), NEW y \in Residues(p), y # 0
  PROVE  \E l \in Residues(p) :
           /\ l = mod_mul(mod_add(mod_mul(3, mod_mul(x, x, p), p), secp256k1_a, p),
                          mod_inv(mod_mul(2, y, p), p), p)
           /\ Cong(Quotient(x, y, x, l), 0, p)
PROOF
  <1>1. PICK a \in Residues(p) : a = secp256k1_a
    BY FieldFacts
  <1>2. x \in Int /\ y \in Int /\ a \in Int /\ p \in Int
    BY FieldFacts
  <1>3. PICK S \in Residues(p) : S = mod_mul(x, x, p) /\ Cong(S, x * x, p)
    BY <1>2, ModMul, FieldFacts
  <1>4. S \in Int /\ 3 \in Int
    BY FieldFacts
  <1>5. PICK M \in Residues(p) : M = mod_mul(3, S, p) /\ Cong(M, 3 * S, p)
    BY <1>4, ModMul, FieldFacts
  <1>6. PICK N \in Residues(p) : N = mod_add(M, a, p) /\ Cong(N, M + a, p)
    BY ModAdd, FieldFacts
  <1>7. PICK D \in Residues(p) : D = mod_mul(2, y, p) /\ Cong(D, 2 * y, p)
    <2>1. 2 \in Int
      OBVIOUS
    <2>. QED
      BY <1>2, <2>1, ModMul, FieldFacts
  <1>8. M \in Int /\ N \in Int /\ D \in Int
    BY FieldFacts
  <1>9. D # 0
    <2>1. SUFFICES ASSUME D = 0 PROVE FALSE
      OBVIOUS
    <2>2. PICK v \in Int : v = 2 * y
      BY <1>2
    <2>3. Cong(v, 0, p)
      BY <1>2, <1>7, <1>8, <2>1, <2>2, CongSym
    <2>4. 2 \in Residues(p) /\ 2 # 0 /\ 2 \in Int
      BY FieldFacts DEF Residues
    <2>5. Cong(2, 2, p)
      BY <1>2, <2>4, CongRefl
    <2>6. Cong(y, 0, p)
      BY <1>2, <2>2, <2>3, <2>4, <2>5, FactorCancels
    <2>7. y = 0
      BY <2>6, CongResidues, FieldFacts
    <2>. QED
      BY <2>7
  <1>10. PICK w \in Residues(p) : w = mod_inv(D, p) /\ Cong(D * w, 1, p)
    BY <1>9, InverseInField
  <1>11. w \in Int
    BY FieldFacts
  <1>12. PICK l \in Residues(p) : l = mod_mul(N, w, p) /\ Cong(l, N * w, p)
    BY <1>8, <1>11, ModMul, FieldFacts
  <1>13. l \in Int
    BY FieldFacts
  <1>14. PICK e1, e2, e3, e4, e5, e6 \in Int :
           /\ e1 = l - N * w /\ e2 = D * w - 1 /\ e3 = D - 2 * y
           /\ e4 = N - (M + a) /\ e5 = M - 3 * S /\ e6 = S - x * x
    BY <1>2, <1>4, <1>8, <1>11, <1>13
  <1>15. /\ Cong(e1, 0, p) /\ Cong(e2, 0, p) /\ Cong(e3, 0, p)
         /\ Cong(e4, 0, p) /\ Cong(e5, 0, p) /\ Cong(e6, 0, p)
    <2>1. /\ N * w \in Int /\ D * w \in Int /\ 1 \in Int /\ 2 * y \in Int
          /\ M + a \in Int /\ 3 * S \in Int /\ x * x \in Int
      BY <1>2, <1>4, <1>8, <1>11
    <2>2. Cong(e1, 0, p) /\ Cong(e2, 0, p) /\ Cong(e3, 0, p)
      BY <1>2, <1>7, <1>8, <1>10, <1>12, <1>13, <1>14, <2>1, CongDifference
    <2>3. Cong(e4, 0, p) /\ Cong(e5, 0, p) /\ Cong(e6, 0, p)
      BY <1>2, <1>3, <1>4, <1>5, <1>6, <1>8, <1>14, <2>1, CongDifference
    <2>. QED
      BY <2>2, <2>3
  <1>16. PICK d, h, f, g, r, s, t \in Int :
           /\ d = 2 * y /\ h = -(N * w)
           /\ f = d * e1 + N * e2 /\ g = h * e3 + 1 * e4
           /\ r = 1 * e5 + 3 * e6
           /\ s = 1 * f + 1 * g /\ t = 1 * s + 1 * r
    <2>1. PICK d, h \in Int : d = 2 * y /\ h = -(N * w)
      BY <1>2, <1>8, <1>11
    <2>2. PICK f, g, r \in Int :
            f = d * e1 + N * e2 /\ g = h * e3 + 1 * e4 /\ r = 1 * e5 + 3 * e6
      BY <1>8, <1>14, <2>1
    <2>3. PICK s \in Int : s = 1 * f + 1 * g
      BY <2>2
    <2>4. PICK t \in Int : t = 1 * s + 1 * r
      BY <2>2, <2>3
    <2>. QED
      BY <2>1, <2>2, <2>3, <2>4
  <1>17. Cong(f, 0, p) /\ Cong(g, 0, p) /\ Cong(r, 0, p)
    BY <1>2, <1>4, <1>8, <1>14, <1>15, <1>16, One, CombinationVanishes, Zenon
  <1>18. Cong(s, 0, p)
    BY <1>2, <1>16, <1>17, One, CombinationVanishes, Zenon
  <1>19. Cong(t, 0, p)
    BY <1>2, <1>16, <1>17, <1>18, One, CombinationVanishes, Zenon
  <1>20. Quotient(x, y, x, l) = t
    <2>1. (l * l) * (x - x) + 2 * (l * y) - (x * x + x * x + x * x + a)
              = 1 * (1 * ((2 * y) * (l - N * w) + N * (D * w - 1))
                     + 1 * ((-(N * w)) * (D - 2 * y) + 1 * (N - (M + a))))
                + 1 * (1 * (M - 3 * S) + 3 * (S - x * x))
      BY <1>2, <1>4, <1>8, <1>11, <1>13
    <2>. QED
      BY <1>1, <1>14, <1>16, <2>1 DEF Quotient
  <1>. QED
    BY <1>1, <1>3, <1>5, <1>6, <1>7, <1>10, <1>12, <1>19, <1>20

-----------------------------------------------------------------------------
(* Addition.                                                               *)

LEMMA FinitePoint ==
  ASSUME NEW A \in CurvePoints, ~A.infinity
  PROVE  \E x, y \in Residues(p) : A = AffinePoint(x, y) /\ Cong(Residual(x, y), 0, p)
PROOF
  <1>1. PICK x, y \in Residues(p) : A = AffinePoint(x, y) /\ is_on_curve(A)
    BY DEF CurvePoints, identity
  <1>. QED
    BY <1>1, OnCurve

LEMMA PointOfCurve ==
  ASSUME NEW x \in Residues(p), NEW y \in Residues(p), Cong(Residual(x, y), 0, p)
  PROVE  AffinePoint(x, y) \in CurvePoints
PROOF BY OnCurve DEF CurvePoints

LEMMA DoubleIsOnCurve ==
  ASSUME NEW A \in CurvePoints
  PROVE  point_double(A) \in CurvePoints
PROOF
  <1>1. CASE A.infinity \/ A.y = 0
    BY <1>1 DEF point_double, CurvePoints
  <1>2. CASE ~(A.infinity \/ A.y = 0)
    <2>1. PICK x, y \in Residues(p) : A = AffinePoint(x, y) /\ Cong(Residual(x, y), 0, p)
      BY <1>2, FinitePoint
    <2>2. A.x = x /\ A.y = y /\ ~A.infinity /\ y # 0
      BY <1>2, <2>1 DEF AffinePoint
    <2>3. PICK l \in Residues(p) :
            /\ l = mod_mul(mod_add(mod_mul(3, mod_mul(x, x, p), p), secp256k1_a, p),
                           mod_inv(mod_mul(2, y, p), p), p)
            /\ Cong(Quotient(x, y, x, l), 0, p)
      BY <2>2, TangentSlope
    <2>4. point_double(A) = chord(A, A, l)
      BY <2>2, <2>3 DEF point_double
    <2>5. PICK X, Y \in Residues(p) :
            /\ chord(A, A, l) = AffinePoint(X, Y)
            /\ Cong(X, l * l - (x + x), p) /\ Cong(Y, l * (x - X) - y, p)
      BY <2>1, ChordPoint
    <2>6. Cong(Residual(X, Y), 0, p)
      BY <2>1, <2>3, <2>5, ChordOnCurve
    <2>. QED
      BY <2>4, <2>5, <2>6, PointOfCurve
  <1>. QED
    BY <1>1, <1>2

(* Points with different x coordinates. *)
LEMMA ChordFacts ==
  ASSUME NEW x1 \in Residues(p), NEW y1 \in Residues(p), Cong(Residual(x1, y1), 0, p),
         NEW x2 \in Residues(p), NEW y2 \in Residues(p), Cong(Residual(x2, y2), 0, p),
         x1 # x2
  PROVE  \E l, X, Y \in Residues(p) :
           /\ point_add(AffinePoint(x1, y1), AffinePoint(x2, y2)) = AffinePoint(X, Y)
           /\ Cong(l * (x2 - x1) - (y2 - y1), 0, p)
           /\ Cong(X, l * l - (x1 + x2), p) /\ Cong(Y, l * (x1 - X) - y1, p)
           /\ Cong(Residual(X, Y), 0, p)
PROOF
  <1>1. PICK l \in Residues(p) :
          /\ l = mod_mul(mod_sub(y2, y1, p), mod_inv(mod_sub(x2, x1, p), p), p)
          /\ Cong(l * (x2 - x1) - (y2 - y1), 0, p)
    BY ChordSlope
  <1>2. point_add(AffinePoint(x1, y1), AffinePoint(x2, y2))
          = chord(AffinePoint(x1, y1), AffinePoint(x2, y2), l)
    BY <1>1 DEF point_add, AffinePoint
  <1>3. PICK X, Y \in Residues(p) :
          /\ chord(AffinePoint(x1, y1), AffinePoint(x2, y2), l) = AffinePoint(X, Y)
          /\ Cong(X, l * l - (x1 + x2), p) /\ Cong(Y, l * (x1 - X) - y1, p)
    BY ChordPoint
  <1>4. /\ x1 \in Int /\ y1 \in Int /\ x2 \in Int /\ y2 \in Int /\ l \in Int
        /\ p \in Int
    BY FieldFacts
  <1>5. Cong(Quotient(x1, y1, x2, l), 0, p)
    <2>1. PICK d, q, r1, r2, e, c \in Int :
            /\ d = x2 - x1 /\ q = Quotient(x1, y1, x2, l)
            /\ r1 = Residual(x1, y1) /\ r2 = Residual(x2, y2)
            /\ e = l * (x2 - x1) - (y2 - y1) /\ c = l * (x2 - x1) + (y2 + y1)
      <3>1. Residual(x1, y1) \in Int /\ Residual(x2, y2) \in Int
        BY OnCurve
      <3>2. Quotient(x1, y1, x2, l) \in Int
        BY <1>4, SecondIntersection
      <3>. QED
        BY <1>4, <3>1, <3>2
    <2>2. d * q = r2 - r1 + e * c
      BY <1>4, <2>1, SecondIntersection
    <2>3. Cong(r1, 0, p) /\ Cong(r2, 0, p) /\ Cong(e, 0, p)
      BY <1>1, <2>1
    <2>4. PICK m, f, g \in Int : m = -1 /\ f = 1 * r2 + m * r1 /\ g = 1 * f + c * e
      <3>1. PICK m \in Int : m = -1
        OBVIOUS
      <3>2. PICK f \in Int : f = 1 * r2 + m * r1
        BY <2>1, <3>1
      <3>. QED
        BY <2>1, <3>1, <3>2
    <2>5. Cong(f, 0, p)
      BY <1>4, <2>1, <2>3, <2>4, One, CombinationVanishes, Zenon
    <2>6. Cong(g, 0, p)
      BY <1>4, <2>1, <2>3, <2>4, <2>5, One, CombinationVanishes, Zenon
    <2>7. d * q = g
      BY <2>1, <2>2, <2>4
    <2>8. PICK D \in Residues(p) : D # 0 /\ Cong(D, d, p)
      <3>1. mod_sub(x2, x1, p) \in Residues(p) /\ Cong(mod_sub(x2, x1, p), x2 - x1, p)
        BY ModSub, FieldFacts
      <3>2. mod_sub(x2, x1, p) # 0
        BY <1>4, FieldFacts DEF mod_sub
      <3>. QED
        BY <2>1, <3>1, <3>2
    <2>9. Cong(q, 0, p)
      BY <2>1, <2>6, <2>7, <2>8, FactorCancels
    <2>. QED
      BY <2>1, <2>9
  <1>6. Cong(Residual(X, Y), 0, p)
    BY <1>3, <1>5, ChordOnCurve
  <1>. QED
    BY <1>1, <1>2, <1>3, <1>6

LEMMA SumIsOnCurve ==
  ASSUME NEW A \in CurvePoints, NEW B \in CurvePoints
  PROVE  point_add(A, B) \in CurvePoints
PROOF
  <1>1. CASE A.infinity \/ B.infinity
    BY <1>1 DEF point_add
  <1>2. CASE ~A.infinity /\ ~B.infinity /\ A.x = B.x
    <2>1. point_add(A, B) \in {point_double(A), identity}
      BY <1>2 DEF point_add
    <2>. QED
      BY <2>1, DoubleIsOnCurve DEF CurvePoints
  <1>3. CASE ~A.infinity /\ ~B.infinity /\ A.x # B.x
    <2>1. PICK x1, y1 \in Residues(p) :
            A = AffinePoint(x1, y1) /\ Cong(Residual(x1, y1), 0, p)
      BY <1>3, FinitePoint
    <2>2. PICK x2, y2 \in Residues(p) :
            B = AffinePoint(x2, y2) /\ Cong(Residual(x2, y2), 0, p)
      BY <1>3, FinitePoint
    <2>3. x1 # x2
      BY <1>3, <2>1, <2>2 DEF AffinePoint
    <2>4. PICK X, Y \in Residues(p) :
            point_add(A, B) = AffinePoint(X, Y) /\ Cong(Residual(X, Y), 0, p)
      BY <2>1, <2>2, <2>3, ChordFacts
    <2>. QED
      BY <2>4, PointOfCurve
  <1>. QED
    BY <1>1, <1>2, <1>3

(* The chord from the second point to the first has the same slope and     *)
(* the same third intersection.                                            *)
LEMMA ChordsCommute ==
  ASSUME NEW x1 \in Residues(p), NEW y1 \in Residues(p), Cong(Residual(x1, y1), 0, p),
         NEW x2 \in Residues(p), NEW y2 \in Residues(p), Cong(Residual(x2, y2), 0, p),
         x1 # x2
  PROVE  point_add(AffinePoint(x1, y1), AffinePoint(x2, y2))
           = point_add(AffinePoint(x2, y2), AffinePoint(x1, y1))
PROOF
  <1>1. PICK l, X, Y \in Residues(p) :
          /\ point_add(AffinePoint(x1, y1), AffinePoint(x2, y2)) = AffinePoint(X, Y)
          /\ Cong(l * (x2 - x1) - (y2 - y1), 0, p)
          /\ Cong(X, l * l - (x1 + x2), p) /\ Cong(Y, l * (x1 - X) - y1, p)
    BY ChordFacts
  <1>2. PICK k, U, V \in Residues(p) :
          /\ point_add(AffinePoint(x2, y2), AffinePoint(x1, y1)) = AffinePoint(U, V)
          /\ Cong(k * (x1 - x2) - (y1 - y2), 0, p)
          /\ Cong(U, k * k - (x2 + x1), p) /\ Cong(V, k * (x2 - U) - y2, p)
    BY ChordFacts
  <1>3. /\ x1 \in Int /\ y1 \in Int /\ x2 \in Int /\ y2 \in Int /\ p \in Int
        /\ l \in Int /\ X \in Int /\ Y \in Int /\ k \in Int /\ U \in Int /\ V \in Int
    BY FieldFacts
  <1>4. PICK d, e, f, m \in Int :
          /\ d = x2 - x1 /\ m = l - k
          /\ e = l * (x2 - x1) - (y2 - y1) /\ f = k * (x1 - x2) - (y1 - y2)
    BY <1>3
  <1>5. Cong(m, 0, p)
    <2>1. PICK g \in Int : g = 1 * e + 1 * f
      BY <1>4
    <2>2. Cong(g, 0, p)
      BY <1>1, <1>2, <1>3, <1>4, <2>1, One, CombinationVanishes, Zenon
    <2>3. d * m = g
      BY <1>3, <1>4, <2>1
    <2>4. PICK D \in Residues(p) : D # 0 /\ Cong(D, d, p)
      <3>1. mod_sub(x2, x1, p) \in Residues(p) /\ Cong(mod_sub(x2, x1, p), x2 - x1, p)
        BY ModSub, FieldFacts
      <3>2. mod_sub(x2, x1, p) # 0
        BY <1>3, FieldFacts DEF mod_sub
      <3>. QED
        BY <1>4, <3>1, <3>2
    <2>. QED
      BY <1>4, <2>2, <2>3, <2>4, FactorCancels
  <1>6. k = l
    <2>1. Cong(l, k, p)
      BY <1>3, <1>4, <1>5, CongDifference
    <2>. QED
      BY <2>1, CongResidues, FieldFacts
  <1>7. U = X
    <2>1. PICK u \in Int : u = l * l - (x1 + x2) /\ u = k * k - (x2 + x1)
      BY <1>3, <1>6
    <2>2. Cong(X, u, p) /\ Cong(U, u, p)
      BY <1>1, <1>2, <2>1
    <2>3. Cong(u, X, p)
      BY <1>3, <2>2, CongSym
    <2>4. Cong(U, X, p)
      BY <1>3, <2>2, <2>3, CongTrans
    <2>. QED
      BY <2>4, CongResidues, FieldFacts
  <1>8. V = Y
    <2>1. PICK v, w \in Int : v = l * (x1 - X) - y1 /\ w = k * (x2 - U) - y2
      BY <1>3
    <2>2. v - w = -e
      BY <1>3, <1>4, <1>6, <1>7, <2>1
    <2>3. PICK o, g \in Int : o = -1 /\ g = o * e + 0 * e
      <3>1. PICK o \in Int : o = -1
        OBVIOUS
      <3>. QED
        BY <1>4, <3>1
    <2>4. 0 \in Int
      OBVIOUS
    <2>5. Cong(g, 0, p)
      BY <1>1, <1>3, <1>4, <2>3, <2>4, CombinationVanishes, Zenon
    <2>6. v - w = g
      BY <1>4, <2>2, <2>3
    <2>7. Cong(v, w, p)
      BY <1>3, <2>1, <2>5, <2>6, CongDifference
    <2>8. Cong(Y, v, p) /\ Cong(V, w, p)
      BY <1>1, <1>2, <2>1
    <2>9. Cong(Y, w, p) /\ Cong(w, V, p)
      BY <1>3, <2>1, <2>7, <2>8, CongTrans, CongSym
    <2>10. Cong(Y, V, p)
      BY <1>3, <2>1, <2>9, CongTrans
    <2>. QED
      BY <2>10, CongResidues, FieldFacts
  <1>. QED
    BY <1>1, <1>2, <1>7, <1>8

LEMMA AdditionCommutes ==
  ASSUME NEW A \in CurvePoints, NEW B \in CurvePoints
  PROVE  point_add(A, B) = point_add(B, A)
PROOF
  <1>1. CASE A.infinity \/ B.infinity
    <2>1. \A C \in CurvePoints : C.infinity => C = identity
      BY DEF CurvePoints, AffinePoint
    <2>2. identity.infinity
      BY DEF identity
    <2>. QED
      BY <1>1, <2>1, <2>2 DEF point_add
  <1>2. CASE ~A.infinity /\ ~B.infinity
    <2>1. PICK x1, y1 \in Residues(p) :
            A = AffinePoint(x1, y1) /\ Cong(Residual(x1, y1), 0, p)
      BY <1>2, FinitePoint
    <2>2. PICK x2, y2 \in Residues(p) :
            B = AffinePoint(x2, y2) /\ Cong(Residual(x2, y2), 0, p)
      BY <1>2, FinitePoint
    <2>3. CASE x1 # x2
      BY <2>1, <2>2, <2>3, ChordsCommute
    <2>4. CASE x1 = x2 /\ y1 = y2
      BY <2>1, <2>2, <2>4
    <2>5. CASE x1 = x2 /\ y1 # y2
      BY <2>1, <2>2, <2>5 DEF point_add, AffinePoint
    <2>. QED
      BY <2>3, <2>4, <2>5
  <1>. QED
    BY <1>1, <1>2

LEMMA OppositesCancel ==
  ASSUME NEW A \in CurvePoints
  PROVE  point_neg(A) \in CurvePoints /\ point_add(A, point_neg(A)) = identity
PROOF
  <1>1. CASE A.infinity
    <2>1. A = identity
      BY <1>1 DEF CurvePoints, AffinePoint
    <2>. QED
      BY <1>1, <2>1 DEF point_neg, point_add
  <1>2. CASE ~A.infinity
    <2>1. PICK x, y \in Residues(p) :
            A = AffinePoint(x, y) /\ Cong(Residual(x, y), 0, p)
      BY <1>2, FinitePoint
    <2>2. PICK v \in Residues(p) : v = mod_neg(y, p) /\ Cong(v, -y, p)
      BY ModNeg, FieldFacts
    <2>3. x \in Int /\ y \in Int /\ v \in Int /\ p \in Int
      BY FieldFacts
    <2>4. point_neg(A) = AffinePoint(x, v)
      BY <1>2, <2>1, <2>2 DEF point_neg, AffinePoint
    <2>5. PICK s, e, r \in Int : s = v - y /\ e = v - (-y) /\ r = Residual(x, y)
      BY <2>3, OnCurve
    <2>6. PICK g \in Int : g = s * e + 1 * r
      BY <2>5
    <2>7. Cong(g, 0, p)
      <3>1. -y \in Int
        BY <2>3
      <3>2. Cong(e, 0, p)
        BY <2>2, <2>3, <2>5, <3>1, CongDifference
      <3>. QED
        BY <2>1, <2>3, <2>5, <2>6, <3>2, One, CombinationVanishes, Zenon
    <2>8. Residual(x, v) = g
      <3>1. PICK w \in Int : w = (x * x) * x + secp256k1_a * x + secp256k1_b
        <4>1. secp256k1_a \in Int /\ secp256k1_b \in Int
          BY FieldFacts
        <4>. QED
          BY <2>3, <4>1
      <3>2. v * v - w = (v - y) * (v - (-y)) + 1 * (y * y - w)
        BY <2>3, <3>1
      <3>. QED
        BY <2>5, <2>6, <3>1, <3>2 DEF Residual
    <2>9. point_neg(A) \in CurvePoints
      BY <2>4, <2>7, <2>8, PointOfCurve
    <2>10. CASE y = 0
      <3>1. v = 0
        BY <2>2, <2>10 DEF mod_neg
      <3>. QED
        BY <2>1, <2>4, <2>9, <2>10, <3>1 DEF point_add, point_double, AffinePoint
    <2>11. CASE y # 0
      <3>1. v # y
        <4>1. SUFFICES ASSUME v = y PROVE FALSE
          OBVIOUS
        <4>2. PICK u \in Int : u = y - (-y) /\ u = 2 * y
          BY <2>3
        <4>3. Cong(u, 0, p)
          <5>1. -y \in Int
            BY <2>3
          <5>. QED
            BY <2>2, <2>3, <4>1, <4>2, <5>1, CongDifference
        <4>4. 2 \in Residues(p) /\ 2 # 0 /\ 2 \in Int
          BY FieldFacts DEF Residues
        <4>5. Cong(2, 2, p)
          BY <2>3, <4>4, CongRefl
        <4>6. Cong(y, 0, p)
          BY <2>3, <4>2, <4>3, <4>4, <4>5, FactorCancels
        <4>. QED
          BY <2>11, <4>6, CongResidues, FieldFacts
      <3>. QED
        BY <2>1, <2>4, <2>9, <3>1 DEF point_add, AffinePoint
    <2>. QED
      BY <2>10, <2>11
  <1>. QED
    BY <1>1, <1>2

-----------------------------------------------------------------------------
(* Points of the curve, and their multiples.                               *)

(* The points have integer coordinates, and one of them is at infinity.    *)
LEMMA PointFacts ==
  /\ identity \in CurvePoints /\ identity.infinity /\ generator \in CurvePoints
  /\ ~generator.infinity
  /\ \A A \in CurvePoints : A \in AffinePoints /\ is_on_curve(A)
  /\ \A A \in CurvePoints : A.infinity => A = identity
PROOF
  <1>1. identity \in AffinePoints /\ is_on_curve(identity) /\ identity.infinity
    BY DEF identity, AffinePoints, is_on_curve
  <1>2. \A x, y \in Residues(p) : AffinePoint(x, y) \in AffinePoints
    <2>1. \A x \in Residues(p) : x \in Nat
      BY ParametersInRange DEF p, Residues
    <2>. QED
      BY <2>1 DEF AffinePoint, AffinePoints
  <1>3. \A x, y : ~AffinePoint(x, y).infinity
    BY DEF AffinePoint
  <1>4. generator \in CurvePoints /\ ~generator.infinity
    <2>1. /\ secp256k1_gx \in Residues(p) /\ secp256k1_gy \in Residues(p)
          /\ is_on_curve(generator)
      BY ParametersInRange, Zenon DEF p
    <2>. QED
      BY <1>3, <2>1 DEF generator, CurvePoints
  <1>. QED
    BY <1>1, <1>2, <1>3, <1>4 DEF CurvePoints

(* What times computes on its way. *)
IsWalk(v, m, A) ==
  /\ v \in [0..m -> CurvePoints] /\ v[0] = identity
  /\ \A j \in 1..m : v[j] = point_add(v[j - 1], A)

LEMMA TimesWalks ==
  ASSUME NEW A \in CurvePoints, NEW m \in Nat
  PROVE  \E v : IsWalk(v, m, A) /\ times(m, A) = v[m]
PROOF
  <1>. DEFINE g == [t \in Nat \X CurvePoints |-> point_add(t[2], A)]
              body(v, j) == IF j = 0 THEN identity ELSE point_add(v[j - 1], A)
              IsSum(v) == v = [j \in 0..m |-> body(v, j)]
              sum == CHOOSE v : IsSum(v)
  <1>1. /\ g \in StepsOn(CurvePoints)
        /\ \A j \in Nat, B \in CurvePoints : g[<<j, B>>] = point_add(B, A)
    BY SumIsOnCurve DEF StepsOn
  <1>. HIDE DEF g
  <1>2. PICK f \in [0..m -> CurvePoints] : Recursive(f, identity, g, 0..m)
    BY <1>1, PointFacts, RecursionUpTo
  <1>3. IsSum(f)
    <2>1. ASSUME NEW j \in 0..m, j # 0 PROVE f[j] = point_add(f[j - 1], A)
      <3>1. j - 1 \in Nat /\ f[j - 1] \in CurvePoints
        BY <2>1
      <3>. QED
        BY <1>1, <1>2, <2>1, <3>1 DEF Recursive
    <2>2. f[0] = identity /\ f = [j \in 0..m |-> f[j]]
      BY <1>2 DEF Recursive
    <2>. QED
      BY <2>1, <2>2
  <1>4. IsSum(sum)
    <2>. HIDE DEF IsSum
    <2>. QED
      BY <1>3
  <1>5. times(m, A) = sum[m]
    BY DEF times
  <1>. HIDE DEF sum
  <1>6. DOMAIN sum = 0..m /\ \A j \in 0..m : sum[j] = body(sum, j)
    <2>. DEFINE b(j) == body(sum, j)
    <2>1. sum = [j \in 0..m |-> b(j)]
      BY <1>4, Zenon
    <2>. HIDE DEF b
    <2>2. DOMAIN sum = 0..m /\ \A j \in 0..m : sum[j] = b(j)
      BY <2>1
    <2>. QED
      BY <2>2 DEF b
  <1>7. sum[0] = identity /\ \A j \in 1..m : sum[j] = point_add(sum[j - 1], A)
    BY <1>6
  <1>8. \A j \in 0..m : sum[j] \in CurvePoints
    <2>. DEFINE J == {j \in Nat : j <= m => sum[j] \in CurvePoints}
    <2>1. 0 \in J
      BY <1>7, PointFacts
    <2>2. ASSUME NEW j \in Nat, j \in J PROVE j + 1 \in J
      <3>1. SUFFICES ASSUME j + 1 <= m PROVE sum[j + 1] \in CurvePoints
        OBVIOUS
      <3>2. j + 1 \in 1..m /\ (j + 1) - 1 = j /\ sum[j] \in CurvePoints
        BY <2>2, <3>1
      <3>3. sum[j + 1] = point_add(sum[j], A)
        BY <1>7, <3>2, Zenon
      <3>4. \A B \in CurvePoints : point_add(B, A) \in CurvePoints
        BY SumIsOnCurve
      <3>. QED
        BY <3>2, <3>3, <3>4
    <2>3. Nat \subseteq J
      <3>. HIDE DEF J
      <3>. QED
        BY <2>1, <2>2, SetInduction
    <2>. QED
      BY <2>3
  <1>9. sum = [j \in 0..m |-> sum[j]]
    <2>. DEFINE b(j) == body(sum, j)
    <2>1. sum = [j \in 0..m |-> b(j)]
      BY <1>4, Zenon
    <2>. HIDE DEF b
    <2>. QED
      BY <2>1
  <1>. QED
    BY <1>5, <1>7, <1>8, <1>9 DEF IsWalk

(* So times is repeated addition. *)
LEMMA TimesFacts ==
  ASSUME NEW A \in CurvePoints
  PROVE  /\ times(0, A) = identity /\ times(1, A) = A
         /\ \A m \in Nat : /\ times(m, A) \in CurvePoints
                           /\ times(m + 1, A) = point_add(times(m, A), A)
PROOF
  <1>1. ASSUME NEW m \in Nat
        PROVE  times(m, A) \in CurvePoints
    BY TimesWalks DEF IsWalk
  <1>2. times(0, A) = identity
    BY TimesWalks DEF IsWalk
  <1>3. ASSUME NEW m \in Nat
        PROVE  times(m + 1, A) = point_add(times(m, A), A)
    <2>1. PICK v : IsWalk(v, m, A) /\ times(m, A) = v[m]
      BY TimesWalks
    <2>2. PICK w : IsWalk(w, m + 1, A) /\ times(m + 1, A) = w[m + 1]
      BY TimesWalks
    <2>. DEFINE J == {j \in Nat : j <= m => w[j] = v[j]}
    <2>3. 0 \in J
      BY <2>1, <2>2 DEF IsWalk
    <2>4. ASSUME NEW j \in Nat, j \in J PROVE j + 1 \in J
      <3>1. SUFFICES ASSUME j + 1 <= m PROVE w[j + 1] = v[j + 1]
        OBVIOUS
      <3>2. /\ j + 1 \in 1..m /\ j + 1 \in 1..(m + 1) /\ (j + 1) - 1 = j
            /\ w[j] = v[j]
        BY <2>4, <3>1
      <3>3. v[j + 1] = point_add(v[j], A) /\ w[j + 1] = point_add(w[j], A)
        BY <2>1, <2>2, <3>2, Zenon DEF IsWalk
      <3>. QED
        BY <3>2, <3>3
    <2>5. Nat \subseteq J
      <3>. HIDE DEF J
      <3>. QED
        BY <2>3, <2>4, SetInduction
    <2>6. w[m] = v[m]
      BY <2>5
    <2>7. m + 1 \in 1..(m + 1) /\ (m + 1) - 1 = m
      OBVIOUS
    <2>8. w[m + 1] = point_add(w[m], A)
      BY <2>2, <2>7, Zenon DEF IsWalk
    <2>. QED
      BY <2>1, <2>2, <2>6, <2>8
  <1>4. point_add(identity, A) = A
    BY DEF point_add, identity
  <1>5. times(1, A) = A
    <2>1. times(0 + 1, A) = point_add(times(0, A), A)
      BY <1>3, Zenon
    <2>. QED
      BY <2>1, <1>2, <1>4
  <1>. QED
    BY <1>1, <1>2, <1>3, <1>5

(* The group laws. *)
LEMMA GroupLaws ==
  ASSUME NEW A \in CurvePoints, NEW B \in CurvePoints
  PROVE  /\ point_add(A, B) \in CurvePoints /\ point_neg(A) \in CurvePoints
         /\ point_add(A, B) = point_add(B, A)
         /\ point_add(A, point_neg(A)) = identity
         /\ point_double(A) = point_add(A, A)
         /\ point_add(identity, A) = A /\ point_add(A, identity) = A
PROOF
  <1>1. point_double(A) = point_add(A, A)
    BY PointFacts DEF point_double, point_add
  <1>2. point_add(identity, A) = A
    BY DEF point_add, identity
  <1>3. point_add(A, identity) = A
    BY <1>2, PointFacts, AdditionCommutes
  <1>. QED
    BY <1>1, <1>2, <1>3, SumIsOnCurve, AdditionCommutes, OppositesCancel

LEMMA Associates ==
  ASSUME NEW A \in CurvePoints, NEW B \in CurvePoints, NEW C \in CurvePoints
  PROVE  point_add(point_add(A, B), C) = point_add(A, point_add(B, C))
PROOF BY AdditionAssociates, Zenon

LEMMA TimesAdds ==
  ASSUME NEW A \in CurvePoints, NEW j \in Nat
  PROVE  \A k \in Nat : times(j + k, A) = point_add(times(j, A), times(k, A))
PROOF
  <1>. DEFINE K == {k \in Nat : times(j + k, A) = point_add(times(j, A), times(k, A))}
  <1>1. times(j, A) \in CurvePoints /\ times(0, A) = identity
        /\ point_add(times(j, A), identity) = times(j, A)
    BY TimesFacts, GroupLaws
  <1>2. 0 \in K
    <2>1. j + 0 = j
      OBVIOUS
    <2>. QED
      BY <1>1, <2>1
  <1>3. ASSUME NEW k \in Nat, k \in K PROVE k + 1 \in K
    <2>1. j + (k + 1) = (j + k) + 1 /\ j + k \in Nat /\ k + 1 \in Nat
      OBVIOUS
    <2>2. times(j + (k + 1), A) = point_add(times(j + k, A), A)
      BY <2>1, TimesFacts
    <2>3. times(k, A) \in CurvePoints /\ times(k + 1, A) = point_add(times(k, A), A)
      BY TimesFacts
    <2>4. times(j + k, A) = point_add(times(j, A), times(k, A))
      BY <1>3
    <2>5. point_add(point_add(times(j, A), times(k, A)), A)
            = point_add(times(j, A), point_add(times(k, A), A))
      BY <1>1, <2>3, Associates
    <2>. QED
      BY <2>1, <2>2, <2>3, <2>4, <2>5
  <1>4. Nat \subseteq K
    <2>. HIDE DEF K
    <2>. QED
      BY <1>2, <1>3, SetInduction
  <1>. QED
    BY <1>4

LEMMA TimesMultiplies ==
  ASSUME NEW A \in CurvePoints, NEW k \in Nat
  PROVE  \A j \in Nat : times(j, times(k, A)) = times(j * k, A)
PROOF
  <1>. DEFINE B == times(k, A)
              J == {j \in Nat : times(j, B) = times(j * k, A)}
  <1>1. B \in CurvePoints /\ times(0, A) = identity /\ times(0, B) = identity
    BY TimesFacts
  <1>. HIDE DEF B
  <1>2. 0 \in J
    <2>1. 0 * k = 0
      OBVIOUS
    <2>. QED
      BY <1>1, <2>1
  <1>3. ASSUME NEW j \in Nat, j \in J PROVE j + 1 \in J
    <2>1. (j + 1) * k = j * k + k /\ j * k \in Nat /\ j + 1 \in Nat
      OBVIOUS
    <2>2. times(j + 1, B) = point_add(times(j, B), B)
      BY <1>1, TimesFacts
    <2>3. PICK l \in Nat : l = j * k
      BY <2>1
    <2>4. times(l + k, A) = point_add(times(l, A), times(k, A))
      BY TimesAdds
    <2>. QED
      BY <1>3, <2>1, <2>2, <2>3, <2>4 DEF B
  <1>4. Nat \subseteq J
    <2>. HIDE DEF J
    <2>. QED
      BY <1>2, <1>3, SetInduction
  <1>. QED
    BY <1>4 DEF B

LEMMA TimesOfIdentity ==
  \A m \in Nat : times(m, identity) = identity
PROOF
  <1>. DEFINE M == {m \in Nat : times(m, identity) = identity}
  <1>1. 0 \in M /\ \A m \in Nat : m \in M => m + 1 \in M
    BY TimesFacts, PointFacts, GroupLaws
  <1>2. Nat \subseteq M
    <2>. HIDE DEF M
    <2>. QED
      BY <1>1, SetInduction
  <1>. QED
    BY <1>2

(* The multiples of opposite points cancel. *)
LEMMA TimesCancel ==
  ASSUME NEW A \in CurvePoints
  PROVE  \A m \in Nat : point_add(times(m, point_neg(A)), times(m, A)) = identity
PROOF
  <1>. DEFINE N == point_neg(A)
              T(m) == times(m, N)
              U(m) == times(m, A)
              M == {m \in Nat : point_add(T(m), U(m)) = identity}
  <1>1. N \in CurvePoints /\ point_add(N, A) = identity
    BY GroupLaws
  <1>. HIDE DEF N
  <1>2. \A m \in Nat : /\ T(m) \in CurvePoints /\ T(m + 1) = point_add(T(m), N)
                       /\ U(m) \in CurvePoints /\ U(m + 1) = point_add(U(m), A)
    BY <1>1, TimesFacts
  <1>3. T(0) = identity /\ U(0) = identity
    BY <1>1, TimesFacts
  <1>. HIDE DEF T, U
  <1>4. 0 \in M
    BY <1>3, PointFacts, GroupLaws
  <1>5. ASSUME NEW m \in Nat, m \in M PROVE m + 1 \in M
    <2>. DEFINE t == T(m)
                u == U(m)
    <2>1. t \in CurvePoints /\ u \in CurvePoints /\ point_add(t, u) = identity
      BY <1>2, <1>5
    <2>2. T(m + 1) = point_add(t, N) /\ U(m + 1) = point_add(u, A)
      BY <1>2
    <2>. HIDE DEF t, u
    <2>3. point_add(u, A) \in CurvePoints /\ point_add(u, A) = point_add(A, u)
          /\ point_add(A, u) \in CurvePoints
      BY <2>1, GroupLaws
    <2>4. point_add(point_add(t, N), point_add(A, u))
            = point_add(t, point_add(N, point_add(A, u)))
      BY <1>1, <2>1, <2>3, Associates
    <2>5. point_add(N, point_add(A, u)) = point_add(point_add(N, A), u)
      BY <1>1, <2>1, Associates
    <2>6. point_add(identity, u) = u
      BY <2>1, GroupLaws
    <2>. QED
      BY <1>1, <2>1, <2>2, <2>3, <2>4, <2>5, <2>6
  <1>6. Nat \subseteq M
    <2>. HIDE DEF M
    <2>. QED
      BY <1>4, <1>5, SetInduction
  <1>. QED
    BY <1>6 DEF N, T, U

(* Opposites are unique. *)
LEMMA OppositeIsNegation ==
  ASSUME NEW A \in CurvePoints, NEW B \in CurvePoints, point_add(B, A) = identity
  PROVE  B = point_neg(A)
PROOF
  <1>1. point_neg(A) \in CurvePoints /\ point_add(A, point_neg(A)) = identity
    BY GroupLaws
  <1>2. point_add(point_add(B, A), point_neg(A))
          = point_add(B, point_add(A, point_neg(A)))
    BY <1>1, Associates
  <1>3. point_add(identity, point_neg(A)) = point_neg(A) /\ point_add(B, identity) = B
    BY <1>1, GroupLaws
  <1>. QED
    BY <1>1, <1>2, <1>3

-----------------------------------------------------------------------------
(* Double-and-add.                                                         *)

(* The i-th bit is what the remainder modulo the next power of two has     *)
(* more.                                                                   *)
LEMMA NextBit ==
  ASSUME NEW k \in Nat, NEW i \in Nat
  PROVE  /\ k % two_to[i] \in Nat /\ two_to[i] \in Nat
         /\ k % two_to[i + 1]
               = (k % two_to[i]) + (IF tstbit(k, i) THEN two_to[i] ELSE 0)
PROOF
  <1>1. PICK a \in Nat \ {0} : a = two_to[i] /\ two_to[i + 1] = 2 * a /\ 2 * a = a * 2
    BY TwoTo, TwoToPositive
  <1>2. k % (a * 2) = a * ((k \div a) % 2) + (k % a)
    <2>1. 2 \in Nat \ {0}
      OBVIOUS
    <2>. QED
      BY <2>1, NestedQuotients, Zenon
  <1>3. (k \div a) % 2 \in {0, 1} /\ k % a \in Nat
    <2>1. k \div a \in Int
      BY <1>1
    <2>. QED
      BY <1>1, <2>1
  <1>4. a * 0 = 0 /\ a * 1 = a
    OBVIOUS
  <1>5. tstbit(k, i) <=> (k \div a) % 2 = 1
    BY <1>1 DEF tstbit
  <1>6. CASE (k \div a) % 2 = 1
    BY <1>1, <1>2, <1>3, <1>4, <1>5, <1>6
  <1>7. CASE (k \div a) % 2 = 0
    BY <1>1, <1>2, <1>3, <1>4, <1>5, <1>7
  <1>. QED
    BY <1>3, <1>6, <1>7

(* What the accumulators hold before bit i of k is read: see               *)
(* AccumulatorsTrackBits in ScalarMul.                                     *)
Tracks(acc, k, A, i) ==
  /\ acc.R = times(k % two_to[i], A)
  /\ acc.Q = times(two_to[IF i < num_bits(k) THEN i ELSE i - 1], A)

LEMMA FirstRound ==
  ASSUME NEW A \in CurvePoints, NEW k \in Nat, k >= 1
  PROVE  Tracks([R |-> identity, Q |-> A], k, A, 0)
PROOF
  <1>1. 0 < num_bits(k)
    BY SizeInBase2 DEF num_bits
  <1>2. two_to[0] = 1 /\ k % 1 = 0
    BY TwoTo
  <1>. QED
    BY <1>1, <1>2, TimesFacts DEF Tracks

LEMMA RoundTracksBits ==
  ASSUME NEW A \in CurvePoints, NEW k \in Nat, k >= 1,
         NEW i \in Nat, i < num_bits(k), NEW acc, Tracks(acc, k, A, i)
  PROVE  Tracks(add_then_double(k, acc, i), k, A, i + 1)
PROOF
  <1>. DEFINE next == add_then_double(k, acc, i)
  <1>1. PICK low, w \in Nat : low = k % two_to[i] /\ w = two_to[i]
    BY NextBit
  <1>2. acc.R = times(low, A) /\ acc.Q = times(w, A)
    BY <1>1 DEF Tracks
  <1>3. times(low, A) \in CurvePoints /\ times(w, A) \in CurvePoints
    BY TimesFacts
  <1>4. /\ times(low + w, A) = point_add(times(low, A), times(w, A))
        /\ times(w + w, A) = point_add(times(w, A), times(w, A))
    BY TimesAdds
  <1>5. next.R = times(k % two_to[i + 1], A)
    <2>1. k % two_to[i + 1] = low + (IF tstbit(k, i) THEN w ELSE 0)
      BY <1>1, NextBit
    <2>2. low + 0 = low
      OBVIOUS
    <2>3. next.R = IF tstbit(k, i) THEN point_add(acc.R, acc.Q) ELSE acc.R
      BY DEF add_then_double
    <2>. QED
      BY <1>2, <1>4, <2>1, <2>2, <2>3
  <1>6. next.Q = IF i + 1 < num_bits(k) THEN point_double(acc.Q) ELSE acc.Q
    BY DEF add_then_double
  <1>7. CASE i + 1 < num_bits(k)
    <2>1. two_to[i + 1] = w + w
      BY <1>1, TwoTo
    <2>2. next.Q = times(w + w, A)
      BY <1>2, <1>3, <1>4, <1>6, <1>7, GroupLaws
    <2>. QED
      BY <1>5, <1>7, <2>1, <2>2 DEF Tracks
  <1>8. CASE ~(i + 1 < num_bits(k))
    <2>1. (i + 1) - 1 = i /\ next.Q = times(two_to[i], A)
      BY <1>1, <1>2, <1>6, <1>8
    <2>. QED
      BY <1>5, <1>8, <2>1 DEF Tracks
  <1>. QED
    BY <1>7, <1>8

(* Once every bit is read the first accumulator is the multiple.           *)
LEMMA LastRound ==
  ASSUME NEW A, NEW k \in Nat, k >= 1, NEW acc, Tracks(acc, k, A, num_bits(k))
  PROVE  acc.R = times(k, A)
PROOF
  <1>1. num_bits(k) \in Nat /\ k < two_to[num_bits(k)]
    BY SizeInBase2 DEF num_bits
  <1>2. PICK a \in Nat : a = two_to[num_bits(k)]
    BY <1>1, TwoToPositive
  <1>3. k % a = k
    BY <1>1, <1>2
  <1>. QED
    BY <1>2, <1>3 DEF Tracks

LEMMA DoubleAndAddIsTimes ==
  ASSUME NEW A \in CurvePoints, NEW k \in Nat, k >= 1
  PROVE  double_and_add(k, A) = times(k, A)
PROOF
  <1>. DEFINE b == num_bits(k)
              first == [R |-> identity, Q |-> A]
              Accs == [R : CurvePoints, Q : CurvePoints]
              body(v, i) == IF i = 0 THEN first ELSE add_then_double(k, v[i - 1], i - 1)
              IsAcc(v) == v = [i \in 0..b |-> body(v, i)]
              acc == CHOOSE v : IsAcc(v)
              g == [t \in Nat \X Accs |-> add_then_double(k, t[2], t[1])]
  <1>1. b \in Nat /\ b >= 1
    BY SizeInBase2 DEF num_bits
  <1>. HIDE DEF b
  <1>2. first \in Accs
    BY PointFacts
  <1>3. /\ g \in StepsOn(Accs)
        /\ \A i \in Nat, a \in Accs : g[<<i, a>>] = add_then_double(k, a, i)
    <2>1. \A X, Y \in CurvePoints :
            point_add(X, Y) \in CurvePoints /\ point_double(X) \in CurvePoints
      BY GroupLaws
    <2>2. \A i \in Nat, a \in Accs : add_then_double(k, a, i) \in Accs
      BY <2>1 DEF add_then_double
    <2>. HIDE DEF Accs
    <2>. QED
      BY <2>2 DEF StepsOn
  <1>. HIDE DEF g, Accs, first
  <1>4. PICK f \in [0..b -> Accs] : Recursive(f, first, g, 0..b)
    BY <1>1, <1>2, <1>3, RecursionUpTo
  <1>5. IsAcc(f)
    <2>1. ASSUME NEW i \in 0..b, i # 0 PROVE f[i] = add_then_double(k, f[i - 1], i - 1)
      <3>1. i - 1 \in Nat /\ f[i - 1] \in Accs
        BY <1>1, <2>1
      <3>. QED
        BY <1>3, <1>4, <2>1, <3>1 DEF Recursive
    <2>2. f[0] = first /\ f = [i \in 0..b |-> f[i]]
      BY <1>1, <1>4 DEF Recursive
    <2>. QED
      BY <2>1, <2>2
  <1>6. IsAcc(acc)
    <2>. HIDE DEF IsAcc
    <2>. QED
      BY <1>5
  <1>7. double_and_add(k, A) = acc[b].R
    BY DEF double_and_add, b, first
  <1>. HIDE DEF acc
  <1>8. acc[0] = first /\ \A i \in 1..b : acc[i] = add_then_double(k, acc[i - 1], i - 1)
    <2>. DEFINE c(i) == body(acc, i)
    <2>1. acc = [i \in 0..b |-> c(i)]
      BY <1>6, Zenon
    <2>. HIDE DEF c
    <2>2. \A i \in 0..b : acc[i] = c(i)
      BY <2>1
    <2>. QED
      BY <1>1, <2>2 DEF c
  <1>. DEFINE I == {i \in Nat : i <= b => Tracks(acc[i], k, A, i)}
  <1>9. 0 \in I
    BY <1>8, FirstRound DEF first
  <1>10. ASSUME NEW i \in Nat, i \in I PROVE i + 1 \in I
    <2>1. SUFFICES ASSUME i + 1 <= b PROVE Tracks(acc[i + 1], k, A, i + 1)
      OBVIOUS
    <2>2. i + 1 \in 1..b /\ (i + 1) - 1 = i /\ i < num_bits(k) /\ Tracks(acc[i], k, A, i)
      BY <1>1, <1>10, <2>1 DEF b
    <2>3. acc[i + 1] = add_then_double(k, acc[i], i)
      BY <1>8, <2>2, Zenon
    <2>. QED
      BY <2>2, <2>3, RoundTracksBits
  <1>11. Nat \subseteq I
    <2>. HIDE DEF I
    <2>. QED
      BY <1>9, <1>10, SetInduction
  <1>12. Tracks(acc[b], k, A, b)
    BY <1>1, <1>11
  <1>. QED
    BY <1>7, <1>12, LastRound DEF b

(* scalar_mul multiplies: it adds a point to itself k times, and for a     *)
(* negative k the opposite point -k times.                                 *)
THEOREM ScalarMulIsTimes ==
  ASSUME NEW A \in CurvePoints, NEW k \in Nat
  PROVE  /\ scalar_mul(k, A) = times(k, A)
         /\ scalar_mul(-k, A) = times(k, point_neg(A))
PROOF
  <1>1. CASE A.infinity
    <2>1. A = identity /\ point_neg(A) = identity
      BY <1>1, PointFacts DEF point_neg
    <2>. QED
      BY <2>1, PointFacts, TimesOfIdentity DEF scalar_mul
  <1>2. CASE ~A.infinity
    <2>1. point_neg(A) \in CurvePoints
      BY GroupLaws
    <2>2. CASE k = 0
      <3>1. -k = 0
        <4>1. \A x \in Int : -x = 0 - x
          OBVIOUS
        <4>2. k \in Int /\ 0 - k = 0
          BY <2>2
        <4>. QED
          BY <4>1, <4>2, Zenon
      <3>. QED
        BY <1>2, <2>1, <2>2, <3>1, TimesFacts DEF scalar_mul
    <2>3. CASE k # 0
      <3>1. k >= 1 /\ ~(k < 0) /\ -k < 0 /\ -k # 0 /\ -(-k) = k
        BY <2>3
      <3>2. scalar_mul(k, A) = double_and_add(k, A)
        BY <1>2, <2>3, <3>1 DEF scalar_mul
      <3>3. scalar_mul(-k, A) = double_and_add(-(-k), point_neg(A))
        BY <1>2, <3>1 DEF scalar_mul
      <3>. QED
        BY <2>1, <3>1, <3>2, <3>3, DoubleAndAddIsTimes
    <2>. QED
      BY <2>2, <2>3
  <1>. QED
    BY <1>1, <1>2

-----------------------------------------------------------------------------
(* The multiples of the base point.                                        *)

LEMMA TimesModuloOrder ==
  ASSUME NEW k \in Nat
  PROVE  times(k, generator) = times(k % n, generator)
PROOF
  <1>1. PICK c, t \in Nat : k = n * c + t /\ t = k % n
    <2>1. k = n * (k \div n) + (k % n) /\ k \div n \in Nat /\ k % n \in Nat
      BY OrderFacts
    <2>. QED
      BY <2>1
  <1>2. PICK l \in Nat : l = c * n /\ l = n * c
    BY OrderFacts
  <1>3. times(l, generator) = identity
    <2>1. times(c, times(n, generator)) = times(l, generator)
      BY <1>2, PointFacts, OrderFacts, TimesMultiplies
    <2>. QED
      BY <2>1, GeneratorHasOrderN, TimesOfIdentity
  <1>4. times(l + t, generator) = point_add(times(l, generator), times(t, generator))
    BY PointFacts, TimesAdds
  <1>5. times(t, generator) \in CurvePoints
    BY PointFacts, TimesFacts
  <1>. QED
    BY <1>1, <1>2, <1>3, <1>4, <1>5, GroupLaws

(* The multiples of G are points of the curve, and only 0*G is at          *)
(* infinity.                                                               *)
LEMMA MultiplesAreOnCurve ==
  ASSUME NEW k \in Residues(n)
  PROVE  /\ scalar_mul(k, generator) \in AffinePoints
         /\ scalar_mul(k, generator) \in CurvePoints
         /\ scalar_mul(k, generator).infinity <=> (k = 0)
PROOF
  <1>1. k \in Nat
    BY OrderFacts DEF Residues
  <1>. DEFINE K == times(k, generator)
  <1>2. scalar_mul(k, generator) = K
    BY <1>1, PointFacts, ScalarMulIsTimes
  <1>3. K \in CurvePoints
    BY <1>1, PointFacts, TimesFacts
  <1>4. CASE k = 0
    BY <1>2, <1>3, <1>4, PointFacts, TimesFacts
  <1>5. CASE k # 0
    <2>1. k \in 1..(n - 1)
      BY <1>5, OrderFacts DEF Residues
    <2>2. PICK w \in Residues(n) : (k * w) % n = 1
      BY <2>1, OrderIsPrime DEF invertible, mod_mul
    <2>3. PICK l \in Nat : l = w * k /\ l % n = 1 /\ w \in Nat
      <3>1. w \in Nat
        BY OrderFacts DEF Residues
      <3>2. w * k = k * w /\ w * k \in Nat
        BY <1>1, <3>1
      <3>. QED
        BY <2>2, <3>1, <3>2
    <2>4. times(w, K) = times(l, generator)
      BY <1>1, <2>3, PointFacts, TimesMultiplies
    <2>5. times(l, generator) = generator
      BY <2>3, TimesModuloOrder, PointFacts, TimesFacts
    <2>6. K # identity
      BY <2>3, <2>4, <2>5, PointFacts, TimesOfIdentity
    <2>. QED
      BY <1>2, <1>3, <1>5, <2>6, PointFacts
  <1>. QED
    BY <1>4, <1>5

(* Addition, negation and multiplication of multiples of G are those of    *)
(* their scalars modulo n.                                                 *)
LEMMA MultiplesAdd ==
  ASSUME NEW j \in Residues(n), NEW k \in Residues(n)
  PROVE  point_add(scalar_mul(j, generator), scalar_mul(k, generator))
           = scalar_mul(mod_add(j, k, n), generator)
PROOF
  <1>1. j \in Nat /\ k \in Nat /\ mod_add(j, k, n) \in Nat
        /\ mod_add(j, k, n) = (j + k) % n
    BY OrderFacts DEF Residues, mod_add
  <1>2. /\ scalar_mul(j, generator) = times(j, generator)
        /\ scalar_mul(k, generator) = times(k, generator)
        /\ scalar_mul(mod_add(j, k, n), generator) = times((j + k) % n, generator)
    BY <1>1, PointFacts, ScalarMulIsTimes
  <1>3. j + k \in Nat
    BY <1>1
  <1>4. times((j + k) % n, generator) = times(j + k, generator)
    BY <1>3, TimesModuloOrder
  <1>. QED
    BY <1>1, <1>2, <1>4, PointFacts, TimesAdds

LEMMA MultiplesMultiply ==
  ASSUME NEW j \in Residues(n), NEW k \in Residues(n)
  PROVE  scalar_mul(j, scalar_mul(k, generator))
           = scalar_mul(mod_mul(j, k, n), generator)
PROOF
  <1>1. j \in Nat /\ k \in Nat
    BY OrderFacts DEF Residues
  <1>2. PICK l \in Nat : l = j * k /\ mod_mul(j, k, n) = l % n /\ l % n \in Nat
    BY <1>1, OrderFacts DEF mod_mul
  <1>3. times(k, generator) \in CurvePoints
    BY <1>1, PointFacts, TimesFacts
  <1>4. /\ scalar_mul(k, generator) = times(k, generator)
        /\ scalar_mul(j, times(k, generator)) = times(j, times(k, generator))
        /\ scalar_mul(l % n, generator) = times(l % n, generator)
    BY <1>1, <1>2, <1>3, PointFacts, ScalarMulIsTimes
  <1>5. times(j, times(k, generator)) = times(l, generator)
    BY <1>1, <1>2, PointFacts, TimesMultiplies
  <1>. QED
    BY <1>2, <1>4, <1>5, TimesModuloOrder

LEMMA MultiplesNegate ==
  ASSUME NEW k \in Residues(n)
  PROVE  point_neg(scalar_mul(k, generator)) = scalar_mul(mod_neg(k, n), generator)
PROOF
  <1>1. mod_neg(k, n) \in Residues(n) /\ mod_add(mod_neg(k, n), k, n) = 0
        /\ 0 \in Residues(n)
    BY OrderFacts DEF Residues, mod_neg, mod_add
  <1>2. point_add(scalar_mul(mod_neg(k, n), generator), scalar_mul(k, generator))
          = scalar_mul(0, generator)
    BY <1>1, MultiplesAdd
  <1>3. scalar_mul(0, generator) = identity
    BY <1>1, MultiplesAreOnCurve, PointFacts
  <1>. QED
    BY <1>1, <1>2, <1>3, MultiplesAreOnCurve, OppositeIsNegation

-----------------------------------------------------------------------------
(* Verification.                                                           *)

(* The point verify computes under the public key of d is the multiple     *)
(* (z + r d) w of G.                                                       *)
LEMMA VerifyPoint ==
  ASSUME NEW d \in Residues(n), NEW z \in Residues(n),
         NEW r \in Residues(n), NEW w \in Residues(n)
  PROVE  point_add(scalar_mul(mod_mul(z, w, n), generator),
                   scalar_mul(mod_mul(r, w, n), scalar_mul(d, generator)))
           = scalar_mul(mod_mul(mod_add(z, mod_mul(r, d, n), n), w, n), generator)
PROOF
  <1>1. PICK u1, u2, rd \in Residues(n) :
          /\ u1 = mod_mul(z, w, n) /\ u2 = mod_mul(r, w, n)
          /\ rd = mod_mul(r, d, n)
    BY Closure
  <1>2. PICK u3 \in Residues(n) : u3 = mod_mul(u2, d, n)
    BY Closure
  <1>3. scalar_mul(u2, scalar_mul(d, generator)) = scalar_mul(u3, generator)
    BY <1>2, MultiplesMultiply
  <1>4. point_add(scalar_mul(u1, generator), scalar_mul(u3, generator))
          = scalar_mul(mod_add(u1, u3, n), generator)
    BY MultiplesAdd
  <1>5. u3 = mod_mul(rd, w, n)
    <2>1. mod_mul(mod_mul(r, w, n), d, n) = mod_mul(r, mod_mul(w, d, n), n)
      BY MulAssociates
    <2>2. mod_mul(mod_mul(r, d, n), w, n) = mod_mul(r, mod_mul(d, w, n), n)
      BY MulAssociates
    <2>. QED
      BY <1>1, <1>2, <2>1, <2>2, MulCommutes
  <1>6. mod_add(u1, u3, n) = mod_mul(mod_add(z, rd, n), w, n)
    BY <1>1, <1>5, MulDistributes
  <1>. QED
    BY <1>1, <1>3, <1>4, <1>6

(* verify answers what its equation says, for s with inverse w.            *)
LEMMA VerifyUnfolds ==
  ASSUME NEW d \in Residues(n), NEW h \in Nat,
         NEW r \in Residues(n), NEW s \in Residues(n), s # 0
  PROVE  LET z == hash_to_scalar(h, n)
             e == mod_add(z, mod_mul(r, d, n), n)
             X == scalar_mul(mod_mul(e, mod_inv(s, n), n), generator)
         IN  verify(scalar_mul(d, generator), h, r, s)
               <=> r # 0 /\ ~X.infinity /\ X.x % n = r
PROOF
  <1>1. PICK z, w \in Residues(n) :
          z = hash_to_scalar(h, n) /\ w = mod_inv(s, n)
    BY HashIsScalar, InverseOfScalar
  <1>2. point_add(scalar_mul(mod_mul(z, w, n), generator),
                  scalar_mul(mod_mul(r, w, n), scalar_mul(d, generator)))
          = scalar_mul(mod_mul(mod_add(z, mod_mul(r, d, n), n), w, n), generator)
    BY VerifyPoint
  <1>3. 1 <= s /\ s < n /\ r < n /\ (1 <= r <=> r # 0)
    BY OrderFacts DEF Residues
  <1>. QED
    BY <1>1, <1>2, <1>3 DEF verify

(* What signing solves for: s k = z + r d. *)
SolvesFor(s, d, z, r, k) ==
  mod_mul(s, k, n) = mod_add(z, mod_mul(r, d, n), n)

(* normalize_low_s and threshold_low_s give the solution or its negative.  *)
LEMMA LowSIsSolutionOrNegative ==
  ASSUME NEW s \in Residues(n), s # 0
  PROVE  /\ normalize_low_s(s, n) \in {s, mod_neg(s, n)}
         /\ normalize_low_s(s, n) \in Residues(n) /\ normalize_low_s(s, n) # 0
         /\ 2 * normalize_low_s(s, n) <= n
PROOF BY OrderFacts DEF normalize_low_s, mod_neg, Residues

(* The pair (r, s) of a nonce k verifies exactly when r is not zero, for   *)
(* the solution s and for its negative.                                    *)
LEMMA SolutionVerifies ==
  ASSUME NEW d \in Residues(n), NEW h \in Nat, NEW k \in Residues(n), k # 0,
         NEW r, r = scalar_mul(k, generator).x % n,
         NEW s \in Residues(n), s # 0,
         SolvesFor(s, d, hash_to_scalar(h, n), r, k)
  PROVE  /\ r \in Residues(n)
         /\ verify(scalar_mul(d, generator), h, r, s) <=> r # 0
         /\ verify(scalar_mul(d, generator), h, r, mod_neg(s, n)) <=> r # 0
PROOF
  <1>. DEFINE R == scalar_mul(k, generator)
  <1>1. R \in AffinePoints /\ ~R.infinity
    BY MultiplesAreOnCurve
  <1>2. R.x \in Int
    BY <1>1 DEF AffinePoints
  <1>3. r \in Residues(n)
    BY <1>2, ModuloIsResidue, OrderFacts
  <1>4. PICK e \in Residues(n) :
          e = mod_add(hash_to_scalar(h, n), mod_mul(r, d, n), n)
    BY <1>3, Closure, HashIsScalar
  <1>5. mod_mul(s, k, n) = e
    BY <1>4 DEF SolvesFor
  <1>6. verify(scalar_mul(d, generator), h, r, s) <=> r # 0
    <2>1. PICK w \in Residues(n) : w = mod_inv(s, n) /\ mod_mul(s, w, n) = 1
      BY InverseOfScalar
    <2>2. mod_mul(e, w, n) = k
      <3>1. mod_mul(mod_mul(k, s, n), w, n) = mod_mul(k, mod_mul(s, w, n), n)
        BY MulAssociates
      <3>. QED
        BY <3>1, <2>1, <1>5, MulCommutes, MulByOne
    <2>. QED
      BY <2>1, <2>2, <1>1, <1>3, <1>4, VerifyUnfolds
  <1>7. verify(scalar_mul(d, generator), h, r, mod_neg(s, n)) <=> r # 0
    <2>1. mod_neg(s, n) \in Residues(n) /\ mod_neg(s, n) # 0
      BY NegFacts
    <2>2. PICK t, w \in Residues(n) :
            /\ t = mod_neg(s, n) /\ t # 0
            /\ w = mod_inv(t, n) /\ mod_mul(t, w, n) = 1
      BY <2>1, InverseOfScalar
    <2>3. mod_mul(e, w, n) = mod_neg(k, n)
      <3>1. mod_mul(mod_neg(k, n), t, n) = e
        <4>1. PICK u \in Residues(n) : u = mod_neg(k, n)
          BY NegFacts
        <4>2. mod_mul(u, t, n) = mod_neg(mod_mul(u, s, n), n)
          BY <2>2, <4>1, NegFacts
        <4>3. mod_mul(u, s, n) = mod_neg(mod_mul(k, s, n), n)
          BY <4>1, NegFacts
        <4>4. mod_mul(k, s, n) = e
          BY <1>5, MulCommutes
        <4>5. mod_neg(mod_neg(e, n), n) = e
          BY <1>4, OrderFacts DEF mod_neg, Residues
        <4>. QED
          BY <4>1, <4>2, <4>3, <4>4, <4>5
      <3>2. mod_neg(k, n) \in Residues(n)
        BY NegFacts
      <3>3. mod_mul(mod_mul(mod_neg(k, n), t, n), w, n)
              = mod_mul(mod_neg(k, n), mod_mul(t, w, n), n)
        BY <3>2, MulAssociates
      <3>. QED
        BY <3>1, <3>2, <3>3, <2>2, MulByOne
    <2>4. scalar_mul(mod_neg(k, n), generator) = point_neg(R)
      BY MultiplesNegate
    <2>5. point_neg(R).x = R.x /\ ~point_neg(R).infinity
      BY <1>1 DEF point_neg, AffinePoint
    <2>6. verify(scalar_mul(d, generator), h, r, t)
            <=> /\ r # 0 /\ ~scalar_mul(mod_mul(e, w, n), generator).infinity
                /\ scalar_mul(mod_mul(e, w, n), generator).x % n = r
      BY <2>2, <1>3, <1>4, VerifyUnfolds
    <2>7. scalar_mul(mod_mul(e, w, n), generator) = point_neg(R)
      BY <2>3, <2>4
    <2>8. R.x % n = r
      OBVIOUS
    <2>. HIDE DEF R
    <2>. QED
      BY <2>2, <2>5, <2>6, <2>7, <2>8
  <1>. QED
    BY <1>3, <1>6, <1>7

(* sign_with_nonce returns the low form of the solution, whoever found it. *)
LEMMA SignWithNonceSolves ==
  ASSUME NEW d \in 1..(n - 1), NEW h \in Nat, NEW k \in 1..(n - 1),
         NEW r, r = scalar_mul(k, generator).x % n, r # 0,
         NEW s \in Residues(n), s # 0,
         SolvesFor(s, d, hash_to_scalar(h, n), r, k)
  PROVE  sign_with_nonce(d, h, k) = Signature(r, normalize_low_s(s, n))
PROOF
  <1>1. d \in Residues(n) /\ k \in Residues(n) /\ k # 0
    BY OrderFacts DEF Residues
  <1>2. r \in Residues(n)
    BY <1>1, SolutionVerifies
  <1>3. PICK e \in Residues(n) :
          e = mod_add(hash_to_scalar(h, n), mod_mul(r, d, n), n)
    BY <1>1, <1>2, Closure, HashIsScalar
  <1>4. PICK v \in Residues(n) : v = mod_inv(k, n) /\ mod_mul(k, v, n) = 1
    BY <1>1, InverseOfScalar
  <1>5. mod_mul(s, k, n) = e
    BY <1>3 DEF SolvesFor
  <1>6. mod_mul(v, e, n) = s
    <2>1. mod_mul(mod_mul(s, k, n), v, n) = mod_mul(s, mod_mul(k, v, n), n)
      BY <1>1, MulAssociates
    <2>. QED
      BY <2>1, <1>4, <1>5, MulCommutes, MulByOne
  <1>. QED
    BY <1>3, <1>4, <1>6 DEF sign_with_nonce

(* The signature that sign_with_hash computes from a secret, a digest and  *)
(* a nonce verifies under the public key of the secret, and its s is the   *)
(* low one; without a signature, r or s was zero.                          *)
THEOREM StandardSignatureVerifies ==
  ASSUME NEW d \in 1..(n - 1), NEW h \in Nat, NEW k \in 1..(n - 1),
         NEW sig, sig = sign_with_nonce(d, h, k), sig # no_signature
  PROVE  /\ sig \in [r : Residues(n), s : Residues(n)]
         /\ verify(scalar_mul(d, generator), h, sig.r, sig.s)
         /\ 2 * sig.s <= n
PROOF
  <1>1. d \in Residues(n) /\ k \in Residues(n) /\ k # 0
    BY OrderFacts DEF Residues
  <1>2. scalar_mul(k, generator) \in AffinePoints
    BY <1>1, MultiplesAreOnCurve
  <1>3. scalar_mul(k, generator).x \in Int
    BY <1>2 DEF AffinePoints
  <1>4. PICK r \in Residues(n) : r = scalar_mul(k, generator).x % n
    BY <1>3, ModuloIsResidue, OrderFacts
  <1>5. PICK e \in Residues(n) :
          e = mod_add(hash_to_scalar(h, n), mod_mul(r, d, n), n)
    BY <1>1, Closure, HashIsScalar
  <1>6. PICK v \in Residues(n) : v = mod_inv(k, n) /\ mod_mul(k, v, n) = 1
    BY <1>1, InverseOfScalar
  <1>7. PICK s \in Residues(n) : s = mod_mul(v, e, n)
    BY Closure
  <1>8. sig = IF r = 0 \/ s = 0 THEN no_signature
              ELSE Signature(r, normalize_low_s(s, n))
    BY <1>4, <1>5, <1>6, <1>7 DEF sign_with_nonce
  <1>9. r # 0 /\ s # 0 /\ sig.r = r /\ sig.s = normalize_low_s(s, n)
    BY <1>8 DEF Signature
  <1>10. SolvesFor(s, d, hash_to_scalar(h, n), r, k)
    <2>1. mod_mul(mod_mul(e, v, n), k, n) = mod_mul(e, mod_mul(v, k, n), n)
      BY <1>1, MulAssociates
    <2>. QED
      BY <2>1, <1>1, <1>5, <1>6, <1>7, MulCommutes, MulByOne DEF SolvesFor
  <1>11. /\ verify(scalar_mul(d, generator), h, r, s)
         /\ verify(scalar_mul(d, generator), h, r, mod_neg(s, n))
    BY <1>1, <1>4, <1>9, <1>10, SolutionVerifies
  <1>12. /\ sig.s \in {s, mod_neg(s, n)} /\ sig.s \in Residues(n)
         /\ 2 * sig.s <= n
    BY <1>9, LowSIsSolutionOrNegative
  <1>13. sig \in [r : Residues(n), s : Residues(n)]
    BY <1>8, <1>9, <1>12 DEF Signature
  <1>. QED
    BY <1>9, <1>11, <1>12, <1>13
==============================================================================
