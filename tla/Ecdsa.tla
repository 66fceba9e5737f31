------------------------------- MODULE Ecdsa -------------------------------
(***************************************************************************)
(* Single-signer ECDSA: the pure functions of src/ecdsa.cpp.  A message    *)
(* is represented by its double-SHA-256 digest, and a digest by the        *)
(* integer its 32 bytes spell.  An exception is the value no_signature.    *)
(***************************************************************************)
EXTENDS EcGroup

Signature(r, s) == [r |-> r, s |-> s]
no_signature == Signature(0, 0)

-----------------------------------------------------------------------------
(* Plausible slips in the code below, for the mutation runs. *)

hash_to_scalar_unreduced(h, m) == h
low_s_of_wrong_half(s, m) == IF s > m \div 2 THEN s ELSE m - s

-----------------------------------------------------------------------------
(* The digest as a big-endian integer, reduced modulo m: never negative. *)
hash_to_scalar(h, m) == h % m

normalize_low_s(s, m) == IF s > m \div 2 THEN m - s ELSE s

(* sign_with_hash once derive_nonce has answered k; k is never zero there. *)
sign_with_nonce(d, h, k) ==
  LET r == scalar_mul(k, generator).x % n
      s == mod_mul(mod_inv(k, n),
                   mod_add(hash_to_scalar(h, n), mod_mul(r, d, n), n), n)
  IN  IF r = 0 \/ s = 0 THEN no_signature
      ELSE Signature(r, normalize_low_s(s, n))

verify(Q, h, r, s) ==
  /\ 1 <= r /\ r < n
  /\ 1 <= s /\ s < n
  /\ LET w  == mod_inv(s, n)
         u1 == mod_mul(hash_to_scalar(h, n), w, n)
         u2 == mod_mul(r, w, n)
         X  == point_add(scalar_mul(u1, generator), scalar_mul(u2, Q))
     IN  /\ ~X.infinity
         /\ X.x % n = r
=============================================================================
