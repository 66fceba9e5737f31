------------------------------ MODULE EcPoint ------------------------------
(***************************************************************************)
(* Affine points of y^2 = x^3 + a*x + b over the field of p elements       *)
(* (include/ec_point.hpp, src/ec_point.cpp), with the domain parameters of *)
(* src/secp256k1.cpp as CONSTANTS.  The code fixes them to secp256k1; the  *)
(* model-checking instances keep a = 0, b = 7 and a prime group order n    *)
(* below p, on a field small enough to enumerate.                          *)
(***************************************************************************)
EXTENDS Field, Gmp

CONSTANTS secp256k1_p,   \* the prime of the base field
          secp256k1_a,   \* curve coefficient a (0 in the code)
          secp256k1_b,   \* curve coefficient b (7 in the code)
          secp256k1_gx,  \* the base point
          secp256k1_gy,
          secp256k1_n    \* the order of the base point

p == secp256k1_p
n == secp256k1_n

-----------------------------------------------------------------------------
(* AffinePoint: both constructors.  Points at infinity are only ever built *)
(* by the default constructor, so x = y = 0 and record equality is         *)
(* AffinePoint::operator==.                                                *)
AffinePoint(x, y) == [x |-> x, y |-> y, infinity |-> FALSE]
identity == [x |-> 0, y |-> 0, infinity |-> TRUE]

AffinePoints == [x : Nat, y : Nat, infinity : BOOLEAN]

generator == AffinePoint(secp256k1_gx, secp256k1_gy)

is_on_curve(P) ==
  \/ P.infinity
  \/ LET x_cu == mod_mul(mod_mul(P.x, P.x, p), P.x, p)
         ax   == mod_mul(secp256k1_a, P.x, p)
     IN  mod_mul(P.y, P.y, p) = mod_add(mod_add(x_cu, ax, p), secp256k1_b, p)

(* A slip: y is negated, but not reduced. *)
point_neg_unreduced(P) == IF P.infinity THEN P ELSE AffinePoint(P.x, -P.y)

point_neg(P) == IF P.infinity THEN P ELSE AffinePoint(P.x, mod_neg(P.y, p))

(* The third intersection of the line of the given slope through P and     *)
(* Q, reflected: the tail that point_double and point_add share.           *)
chord(P, Q, slope) ==
  LET x_r == mod_sub(mod_mul(slope, slope, p), mod_add(P.x, Q.x, p), p)
  IN  AffinePoint(x_r,
        mod_sub(mod_mul(slope, mod_sub(P.x, x_r, p), p), P.y, p))

point_double(P) ==
  IF P.infinity \/ P.y = 0 THEN identity
  ELSE LET numerator == mod_add(mod_mul(3, mod_mul(P.x, P.x, p), p),
                                secp256k1_a, p)
           denom     == mod_mul(2, P.y, p)
       IN  chord(P, P, mod_mul(numerator, mod_inv(denom, p), p))

(* A slip: the sum of inverse points is not treated apart. *)
point_add_ignoring_inverse(P, Q) ==
  IF P.infinity THEN Q
  ELSE IF Q.infinity THEN P
  ELSE IF P.x = Q.x THEN point_double(P)
  ELSE chord(P, Q, mod_mul(mod_sub(Q.y, P.y, p),
                           mod_inv(mod_sub(Q.x, P.x, p), p), p))

point_add(P, Q) ==
  IF P.infinity THEN Q
  ELSE IF Q.infinity THEN P
  ELSE IF P.x = Q.x THEN IF P.y = Q.y THEN point_double(P) ELSE identity
  ELSE chord(P, Q, mod_mul(mod_sub(Q.y, P.y, p),
                           mod_inv(mod_sub(Q.x, P.x, p), p), p))

-----------------------------------------------------------------------------
(* scalar_mul: right-to-left double-and-add.                               *)

num_bits(k) == sizeinbase2(k)

(* One round of the loop, on the pair of accumulators. *)
add_then_double(k, acc, i) ==
  [R |-> IF tstbit(k, i) THEN point_add(acc.R, acc.Q) ELSE acc.R,
   Q |-> IF i + 1 < num_bits(k) THEN point_double(acc.Q) ELSE acc.Q]

double_and_add(k, P) ==
  LET acc[i \in 0..num_bits(k)] ==
        IF i = 0 THEN [R |-> identity, Q |-> P]
        ELSE add_then_double(k, acc[i - 1], i - 1)
  IN  acc[num_bits(k)].R

scalar_mul(k, P) ==
  IF P.infinity THEN P
  ELSE IF k = 0 THEN identity
  ELSE IF k < 0 THEN double_and_add(-k, point_neg(P))
  ELSE double_and_add(k, P)

-----------------------------------------------------------------------------
(* What the functions above are measured against: the points of the curve, *)
(* and A added to itself m times.                                          *)
CurvePoints ==
  {identity} \cup {A \in {AffinePoint(x, y) : x, y \in Residues(p)} : is_on_curve(A)}

times(m, A) ==
  LET sum[j \in 0..m] ==
        IF j = 0 THEN identity ELSE point_add(sum[j - 1], A)
  IN  sum[m]

-----------------------------------------------------------------------------
(* The domain parameters are residues and G is a point of the curve.       *)
ASSUME ParametersInRange ==
  /\ secp256k1_p \in Nat
  /\ secp256k1_n \in Nat /\ secp256k1_n >= 2
  /\ {secp256k1_a, secp256k1_b, secp256k1_gx, secp256k1_gy}
       \subseteq Residues(secp256k1_p)
  /\ is_on_curve(generator)
=============================================================================
