------------------------------ MODULE EcGroup ------------------------------
(***************************************************************************)
(* What the signing code relies on about the curve of src/secp256k1.cpp:   *)
(* the group law of an elliptic curve, and a base point of prime order n.  *)
(* TLC evaluates these assumptions for the curve of every signing run; the *)
(* theorems start from them.                                               *)
(***************************************************************************)
EXTENDS EcPoint

(* The field and the order are prime, in the form the arguments need it:   *)
(* every nonzero residue has an inverse.                                   *)
ASSUME FieldIsPrime == p > 3 /\ \A a \in 1..(p - 1) : invertible(a, p)

ASSUME OrderIsPrime == \A a \in 1..(n - 1) : invertible(a, n)

(* The law of the curve's group that no short calculation gives.           *)
ASSUME AdditionAssociates ==
  \A A, B, C \in CurvePoints :
     point_add(point_add(A, B), C) = point_add(A, point_add(B, C))

(* n additions of the base point end at infinity.                          *)
ASSUME GeneratorHasOrderN == times(n, generator) = identity
=============================================================================
