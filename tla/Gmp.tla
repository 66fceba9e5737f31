-------------------------------- MODULE Gmp --------------------------------
(***************************************************************************)
(* What the code asks of GMP about the bits of an integer.  Powers of two  *)
(* are a recursive function, about which the theorems can argue.           *)
(***************************************************************************)
EXTENDS Integers

two_to[e \in Nat] == IF e = 0 THEN 1 ELSE 2 * two_to[e - 1]

(* mpz_sizeinbase(x, 2) and mpz_tstbit(x, i), for x > 0. *)
sizeinbase2(x) == CHOOSE b \in 1..x : two_to[b - 1] <= x /\ x < two_to[b]
tstbit(x, i) == (x \div two_to[i]) % 2 = 1
=============================================================================
