---------------------------- MODULE EcdsaVerify ----------------------------
(***************************************************************************)
(* A call to verify (src/ecdsa.cpp) on arbitrary arguments: any public key *)
(* a KeyPair can hold, default-constructed ones included, any digest, and  *)
(* any two integers offered as a signature, out of range ones included.    *)
(***************************************************************************)
EXTENDS Ecdsa

CONSTANTS Keys,    \* the private keys whose points are offered, 0 allowed
          Digests, \* the digests offered
          Beyond   \* bound: r and s are -Beyond..(n + Beyond)

ASSUME VerifyAssumption ==
  /\ Keys \subseteq Residues(n)
  /\ Digests \subseteq Nat
  /\ Beyond \in Nat

VARIABLES at,      \* "range", "scalars", "compare" or "returned"
          secret,  \* history: the private key behind the public one
          h, r, s, \* the digest and the signature offered
          u,       \* <<u1, u2>>
          result   \* the verdict, meaningful once returned

verify_vars == <<at, secret, h, r, s, u, result>>

Offered == (-Beyond)..(n + Beyond)

PublicKey == scalar_mul(secret, generator)

VerifyTypeOK ==
  /\ at \in {"range", "scalars", "compare", "returned"}
  /\ secret \in Keys /\ h \in Digests /\ r \in Offered /\ s \in Offered
  /\ u \in Residues(n) \X Residues(n)
  /\ result \in BOOLEAN

VerifyInit ==
  /\ at = "range"
  /\ secret \in Keys /\ h \in Digests /\ r \in Offered /\ s \in Offered
  /\ u = <<0, 0>> /\ result = FALSE

-----------------------------------------------------------------------------
(* Plausible slips in the code below, for the mutation runs. *)

matches_unreduced(X, v) == ~X.infinity /\ X.x = v

-----------------------------------------------------------------------------
in_range(v) == 1 <= v /\ v < n

RejectOutOfRange ==
  /\ at = "range" /\ ~(in_range(r) /\ in_range(s))
  /\ result' = FALSE
  /\ at' = "returned"
  /\ UNCHANGED <<secret, h, r, s, u>>

PassRange ==
  /\ at = "range" /\ in_range(r) /\ in_range(s)
  /\ at' = "scalars"
  /\ UNCHANGED <<secret, h, r, s, u, result>>

ComputeScalars ==
  /\ at = "scalars"
  /\ LET w == mod_inv(s, n)
     IN  u' = <<mod_mul(hash_to_scalar(h, n), w, n), mod_mul(r, w, n)>>
  /\ at' = "compare"
  /\ UNCHANGED <<secret, h, r, s, result>>

matches(X, v) == ~X.infinity /\ X.x % n = v

Compare ==
  /\ at = "compare"
  /\ result' = matches(point_add(scalar_mul(u[1], generator),
                                 scalar_mul(u[2], PublicKey)), r)
  /\ at' = "returned"
  /\ UNCHANGED <<secret, h, r, s, u>>

VerifyNext == RejectOutOfRange \/ PassRange \/ ComputeScalars \/ Compare

VerifySpec == VerifyInit /\ [][VerifyNext]_verify_vars

-----------------------------------------------------------------------------
(* verify accepts exactly the pairs that satisfy the signing equation for  *)
(* some nonce: r is the x coordinate, modulo n, of k*G, and s k is z plus  *)
(* r times the secret.  Neither a nonce's r collision with another's (x    *)
(* and x + n both on the curve) nor an argument out of range makes a       *)
(* difference.                                                             *)
AcceptsExactlySignatures ==
  at = "returned" =>
    (result <=>
       /\ r \in 1..(n - 1) /\ s \in 1..(n - 1)
       /\ \E k \in 1..(n - 1) :
            /\ scalar_mul(k, generator).x % n = r
            /\ (s * k - h - r * secret) % n = 0)
=============================================================================
