---------------------------- MODULE EcdsaSigner ----------------------------
(***************************************************************************)
(* The single signer of src/ecdsa.cpp: generate_keypair with the draws it  *)
(* makes (src/rng.cpp), and sign_with_hash with its deterministic nonce.   *)
(* derive_nonce (src/rfc6979.cpp) is here the function it computes: it     *)
(* sees only int2octets(d) and bits2octets(h), that is d and h mod n, and  *)
(* answers a scalar in 1..(n-1) if it answers: nothing makes the step that *)
(* leaves its loop happen.  drbg is the part of that function that calls   *)
(* have been answered, each answer chosen when first given.                *)
(***************************************************************************)
EXTENDS Ecdsa

CONSTANTS KeyIds,        \* the KeyPair objects of the caller
          Hashes,        \* the digests it signs
          Draws,         \* what mpz_urandomm may draw below n, 0 included
          Nonces,        \* what derive_nonce may answer
          None           \* no key

ASSUME SignerAssumption ==
  /\ Draws \subseteq Residues(n)
  /\ Nonces \subseteq 1..(n - 1)
  /\ Hashes \subseteq Nat
  /\ None \notin KeyIds

VARIABLES keypairs,  \* keypairs[i]: a KeyPair
          drbg,      \* the known points [d, z, k] of derive_nonce
          pc,        \* the next stretch of the function called
          making,    \* the key generate_keypair is to return, or None
          k, r,      \* its nonce and the nonce's r, 0 outside a call
          call,      \* the last call to sign_with_hash and its outcome
          signed     \* history: [d, z, sig] of every signature returned

vars == <<keypairs, drbg, pc, making, k, r, call, signed>>

KeyPairs == [d : Residues(n), Q : AffinePoints]
Signatures == [r : Residues(n), s : Residues(n)]

(* The default-constructed struct. *)
no_keypair == [d |-> 0, Q |-> identity]
no_call == [status |-> "idle", key |-> None, hash |-> 0, nonce |-> 0,
            sig |-> no_signature]

TypeOK ==
  /\ keypairs \in [KeyIds -> KeyPairs]
  /\ drbg \subseteq [d : Residues(n), z : Residues(n), k : 1..(n - 1)]
  /\ pc \in {"ready", "draw", "nonce", "r", "s"}
  /\ making \in KeyIds \cup {None}
  /\ k \in Residues(n) /\ r \in Residues(n)
  /\ call \in [status : {"idle", "signing", "signed", "failed"},
               key : KeyIds \cup {None}, hash : Hashes \cup {0},
               nonce : Residues(n), sig : Signatures]
  /\ signed \subseteq [d : Residues(n), z : Residues(n), sig : Signatures]

Init ==
  /\ keypairs = [i \in KeyIds |-> no_keypair]
  /\ drbg = {} /\ signed = {}
  /\ pc = "ready" /\ making = None /\ k = 0 /\ r = 0
  /\ call = no_call

-----------------------------------------------------------------------------
GenerateKeypair(i) ==
  /\ pc = "ready"
  /\ keypairs[i] = no_keypair
  /\ pc' = "draw" /\ making' = i
  /\ UNCHANGED <<keypairs, drbg, k, r, call, signed>>

(* One round of uniform_nonzero_below, and the key once it has a d.  No    *)
(* fairness: the loop ends with probability one, and not in every run.     *)
Draw ==
  /\ pc = "draw"
  /\ \E d \in Draws :
       IF d = 0 THEN UNCHANGED <<keypairs, pc, making>>
       ELSE /\ keypairs' = [keypairs EXCEPT
                   ![making] = [d |-> d, Q |-> scalar_mul(d, generator)]]
            /\ pc' = "ready" /\ making' = None
  /\ UNCHANGED <<drbg, k, r, call, signed>>

(* A slip: the digest is not reduced before it keys the generator. *)
bits2octets_unreduced(h) == h

(* What of the digest the generator sees. *)
bits2octets(h) == h % n

(* A slip: a nonce drawn afresh each time. *)
derive_nonce_at_random(d, h) == Nonces

(* The nonces derive_nonce can answer: the known one, or any. *)
derive_nonce(d, h) ==
  LET known == {e \in drbg : e.d = d /\ e.z = bits2octets(h)}
  IN  IF known = {} THEN Nonces ELSE {e.k : e \in known}

SignBegin(i, h) ==
  /\ pc = "ready"
  /\ keypairs[i] # no_keypair
  /\ call' = [status |-> "signing", key |-> i, hash |-> h, nonce |-> 0,
              sig |-> no_signature]
  /\ pc' = "nonce"
  /\ UNCHANGED <<keypairs, drbg, making, k, r, signed>>

(* derive_nonce returns, and r follows; the candidates rejected before     *)
(* leave no trace here, and the loop may go on rejecting them.             *)
DeriveNonce ==
  /\ pc = "nonce"
  /\ \E nonce \in derive_nonce(keypairs[call.key].d, call.hash) :
        /\ k' = nonce
        /\ r' = scalar_mul(nonce, generator).x % n
        /\ drbg' = drbg \cup {[d |-> keypairs[call.key].d,
                               z |-> bits2octets(call.hash), k |-> nonce]}
        /\ call' = [call EXCEPT !.nonce = nonce]
  /\ pc' = "r"
  /\ UNCHANGED <<keypairs, making, signed>>

(* A slip: the nonce's r is not tested. *)
SignR_untested ==
  /\ pc = "r"
  /\ pc' = "s"
  /\ UNCHANGED <<keypairs, drbg, making, k, r, call, signed>>

(* The first exception. *)
SignR ==
  /\ pc = "r"
  /\ IF r = 0
     THEN /\ call' = [call EXCEPT !.status = "failed"]
          /\ pc' = "ready" /\ k' = 0
     ELSE pc' = "s" /\ UNCHANGED <<k, call>>
  /\ UNCHANGED <<keypairs, drbg, making, r, signed>>

(* k^-1 (z + r d), before the low-s convention. *)
raw_s ==
  mod_mul(mod_inv(k, n),
          mod_add(hash_to_scalar(call.hash, n),
                  mod_mul(r, keypairs[call.key].d, n), n), n)

(* A slip: on s = 0 the call starts over, with the nonce it has. *)
SignS_retrying ==
  /\ pc = "s"
  /\ call' = IF raw_s = 0 THEN call
             ELSE [call EXCEPT !.status = "signed",
                               !.sig = Signature(r, normalize_low_s(raw_s, n))]
  /\ pc' = IF raw_s = 0 THEN "r" ELSE "ready"
  /\ UNCHANGED <<keypairs, drbg, making, k, r, signed>>

(* s, the second exception, and the low-s convention. *)
SignS ==
  /\ pc = "s"
  /\ LET sig == Signature(r, normalize_low_s(raw_s, n))
     IN  IF raw_s = 0
         THEN /\ call' = [call EXCEPT !.status = "failed"]
              /\ UNCHANGED signed
         ELSE /\ call' = [call EXCEPT !.status = "signed", !.sig = sig]
              /\ signed' = signed \cup
                   {[d |-> keypairs[call.key].d,
                     z |-> hash_to_scalar(call.hash, n), sig |-> sig]}
  /\ pc' = "ready" /\ k' = 0 /\ r' = 0
  /\ UNCHANGED <<keypairs, drbg, making>>

Next ==
  \/ \E i \in KeyIds : GenerateKeypair(i)
  \/ Draw
  \/ \E i \in KeyIds, h \in Hashes : SignBegin(i, h)
  \/ DeriveNonce
  \/ SignR
  \/ SignS

(* Once it has its nonce, sign_with_hash is straight-line and waits for    *)
(* nothing.                                                                *)
Spec == Init /\ [][Next]_vars /\ WF_vars(SignR) /\ WF_vars(SignS)

-----------------------------------------------------------------------------
(* Every signature ever returned still verifies under the public key of    *)
(* its secret, for the digest it was made for and for any digest congruent *)
(* to it, and it has the low s.                                            *)
SignaturesVerify ==
  \A e \in signed : \A h \in {x \in Hashes : x % n = e.z} :
    /\ verify(scalar_mul(e.d, generator), h, e.sig.r, e.sig.s)
    /\ 2 * e.sig.s <= n

(* Signatures are pure functions of secret and digest, across calls, key   *)
(* objects that happen to hold the same secret, and digests that reduce to *)
(* the same scalar (tests/test_ecdsa.cpp, "Determinism").                  *)
SignaturesAreFunctions ==
  \A e, f \in signed : e.d = f.d /\ e.z = f.z => e.sig = f.sig

(* The abstract signer. *)
Standard ==
  [e \in (1..(n - 1)) \X Hashes \X (1..(n - 1)) |->
     sign_with_nonce(e[1], e[2], e[3])]

Std == INSTANCE StandardSigner WITH
  Scalars <- 1..(n - 1),
  NoSignature <- no_signature,
  secret <- [i \in KeyIds |-> keypairs[i].d]

(* The single signer is the standard signer, and so promises its callers   *)
(* what the two-party signer of Tecdsa does.                               *)
ImplementsStandardSigner == Std!Spec

(* Every call to sign_with_hash that has its nonce ends, with a signature  *)
(* or an exception.                                                        *)
SigningEnds == Std!CallsEnd
=============================================================================
