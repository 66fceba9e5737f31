------------------------------- MODULE Field -------------------------------
(***************************************************************************)
(* The modular arithmetic of include/field.hpp: free functions over an     *)
(* arbitrary modulus m, used for the base field (m = p) and the scalar     *)
(* field (m = n).  GMP integers are unbounded, so Int is exact; every      *)
(* input is assumed to be a residue in 0..(m-1) except reduce's.           *)
(***************************************************************************)
EXTENDS Integers

Residues(m) == 0..(m - 1)

-----------------------------------------------------------------------------
(* mpz_class operator% truncates towards zero: the remainder has the sign  *)
(* of the dividend.                                                        *)
truncated_rem(x, m) == IF x >= 0 THEN x % m ELSE -((-x) % m)

reduce(x, m) ==
  LET r == truncated_rem(x, m) IN IF r < 0 THEN r + m ELSE r

mod_add(a, b, m) ==
  LET r == a + b IN IF r >= m THEN r - m ELSE r

mod_sub(a, b, m) ==
  LET r == a - b IN IF r < 0 THEN r + m ELSE r

mod_neg(a, m) == IF a = 0 THEN 0 ELSE m - a

mod_mul(a, b, m) == (a * b) % m

(* What mpz_invert can invert, and the value it then stores. *)
invertible(a, m) == \E r \in Residues(m) : mod_mul(a, r, m) = 1

mod_inv(a, m) == CHOOSE r \in Residues(m) : mod_mul(a, r, m) = 1

(* The values mod_inv can return.  When NDEBUG strips its assert, a failed *)
(* mpz_invert returns what it leaves in r; with the assert compiled in     *)
(* there is no value at all.                                               *)
mod_inv_outcomes(a, m, ndebug, leftovers) ==
  IF invertible(a, m) THEN {mod_inv(a, m)}
  ELSE IF ndebug THEN leftovers ELSE {}
=============================================================================
