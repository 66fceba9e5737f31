------------------------ MODULE EcdsaSignerTheorems ------------------------
(***************************************************************************)
(* The single signer, for every curve whose base point has prime order,    *)
(* every set of keys and digests, every random draw and every function     *)
(* that derive_nonce may be.                                               *)
(***************************************************************************)
EXTENDS EcdsaSigner, EcdsaTheorems

(* Keys are made once, with a secret that is not zero.                     *)
KeysAreSound ==
  /\ \A i \in KeyIds : keypairs[i] # no_keypair =>
       /\ keypairs[i].d \in 1..(n - 1)
       /\ keypairs[i].Q = scalar_mul(keypairs[i].d, generator)
  /\ pc = "draw" => making \in KeyIds /\ keypairs[making] = no_keypair

(* The known part of derive_nonce is a function.                           *)
DrbgIsFunction ==
  \A e, f \in drbg : e.d = f.d /\ e.z = f.z => e.k = f.k

(* How pc, the locals and the call record go together.                     *)
CallIsSound ==
  /\ call.status = "signing" <=> pc \in {"nonce", "r", "s"}
  /\ pc = "nonce" => call.nonce = 0
  /\ call.status # "idle" =>
       /\ call.key \in KeyIds /\ keypairs[call.key] # no_keypair
       /\ call.hash \in Hashes
  /\ pc \in {"r", "s"} =>
       /\ k = call.nonce /\ k \in 1..(n - 1)
       /\ [d |-> keypairs[call.key].d, z |-> bits2octets(call.hash), k |-> k]
            \in drbg
       /\ r = scalar_mul(k, generator).x % n
  /\ pc = "s" => r # 0

(* Every signature returned is the standard one for the nonce that         *)
(* derive_nonce answers on its secret and digest.                          *)
SignedIsStandard ==
  \A e \in signed :
    /\ e.d \in 1..(n - 1) /\ e.sig # no_signature
    /\ \E g \in drbg : g.d = e.d /\ g.z = e.z
                      /\ e.sig = sign_with_nonce(e.d, e.z, g.k)

SInv ==
  /\ TypeOK
  /\ KeysAreSound
  /\ DrbgIsFunction
  /\ CallIsSound
  /\ SignedIsStandard

-----------------------------------------------------------------------------
LEMMA ConstantFacts ==
  /\ \A v \in Draws : v \in Residues(n) /\ (v # 0 => v \in 1..(n - 1))
  /\ \A v \in Nonces : v \in 1..(n - 1) /\ v \in Residues(n)
  /\ \A h \in Hashes : h \in Nat
PROOF BY SignerAssumption, OrderFacts DEF Residues

LEMMA PointsAreAffine ==
  ASSUME NEW v \in 1..(n - 1)
  PROVE  /\ v \in Residues(n) /\ v # 0
         /\ scalar_mul(v, generator) \in AffinePoints
         /\ scalar_mul(v, generator).x % n \in Residues(n)
PROOF
  <1>1. v \in Residues(n) /\ v # 0
    BY OrderFacts DEF Residues
  <1>2. scalar_mul(v, generator) \in AffinePoints
    BY <1>1, MultiplesAreOnCurve
  <1>3. scalar_mul(v, generator).x \in Int
    BY <1>2 DEF AffinePoints
  <1>. QED
    BY <1>1, <1>2, <1>3, ModuloIsResidue, OrderFacts

LEMMA IdentityIsPoint == identity \in AffinePoints
PROOF BY DEF identity, AffinePoints

(* derive_nonce and hash_to_scalar reduce the digest alike, and once more  *)
(* changes nothing.                                                        *)
LEMMA DigestFacts ==
  ASSUME NEW h \in Nat
  PROVE  /\ bits2octets(h) = hash_to_scalar(h, n)
         /\ hash_to_scalar(h, n) \in Residues(n)
         /\ hash_to_scalar(hash_to_scalar(h, n), n) = hash_to_scalar(h, n)
PROOF
  <1>1. PICK z \in Residues(n) : z = hash_to_scalar(h, n)
    BY HashIsScalar
  <1>2. z % n = z
    BY OrderFacts DEF Residues
  <1>. QED
    BY <1>1, <1>2 DEF bits2octets, hash_to_scalar

LEMMA SameDigestSameSignature ==
  ASSUME NEW d, NEW v, NEW h \in Nat
  PROVE  sign_with_nonce(d, hash_to_scalar(h, n), v) = sign_with_nonce(d, h, v)
PROOF BY DigestFacts DEF sign_with_nonce

-----------------------------------------------------------------------------
LEMMA InitSInv == Init => SInv
PROOF
  <1>. SUFFICES ASSUME Init PROVE SInv
    OBVIOUS
  <1>1. no_keypair \in KeyPairs /\ no_signature \in Signatures
    BY OrderFacts, IdentityIsPoint
    DEF no_keypair, KeyPairs, no_signature, Signature, Signatures
  <1>2. TypeOK
    BY <1>1, OrderFacts DEF Init, TypeOK, no_call
  <1>3. KeysAreSound /\ DrbgIsFunction /\ CallIsSound /\ SignedIsStandard
    BY DEF Init, KeysAreSound, DrbgIsFunction, CallIsSound, SignedIsStandard,
           no_call
  <1>. QED
    BY <1>2, <1>3 DEF SInv

LEMMA GenerateKeepsSInv ==
  ASSUME SInv, NEW i \in KeyIds, GenerateKeypair(i)
  PROVE  SInv'
PROOF
  <1>1. /\ pc = "ready" /\ pc' = "draw" /\ making' = i
        /\ keypairs[i] = no_keypair
        /\ UNCHANGED <<keypairs, drbg, k, r, call, signed>>
    BY DEF GenerateKeypair
  <1>2. TypeOK'
    BY <1>1 DEF SInv, TypeOK
  <1>3. KeysAreSound' /\ DrbgIsFunction' /\ SignedIsStandard'
    BY <1>1 DEF SInv, KeysAreSound, DrbgIsFunction, SignedIsStandard
  <1>4. CallIsSound'
    BY <1>1 DEF SInv, CallIsSound
  <1>. QED
    BY <1>2, <1>3, <1>4 DEF SInv

(* A round of the loop leaves everything as it was, or makes the key.      *)
LEMMA DrawMakesKey ==
  ASSUME SInv, Draw
  PROVE  \/ UNCHANGED vars
         \/ \E d \in 1..(n - 1) :
              /\ making \in KeyIds /\ keypairs[making] = no_keypair
              /\ keypairs' = [keypairs EXCEPT
                      ![making] = [d |-> d, Q |-> scalar_mul(d, generator)]]
              /\ pc = "draw" /\ pc' = "ready" /\ making' = None
              /\ UNCHANGED <<drbg, k, r, call, signed>>
PROOF
  <1>1. making \in KeyIds /\ keypairs[making] = no_keypair
    BY DEF Draw, SInv, KeysAreSound
  <1>. QED
    BY <1>1, ConstantFacts DEF Draw, vars

LEMMA UnchangedKeepsSInv ==
  ASSUME SInv, UNCHANGED vars
  PROVE  SInv'
PROOF BY DEF vars, SInv, TypeOK, KeysAreSound, DrbgIsFunction, CallIsSound,
             SignedIsStandard

LEMMA DrawKeepsSInv ==
  ASSUME SInv, Draw
  PROVE  SInv'
PROOF
  <1>1. CASE UNCHANGED vars
    BY <1>1, UnchangedKeepsSInv
  <1>2. ASSUME NEW d \in 1..(n - 1),
               making \in KeyIds, keypairs[making] = no_keypair,
               keypairs' = [keypairs EXCEPT
                      ![making] = [d |-> d, Q |-> scalar_mul(d, generator)]],
               pc = "draw", pc' = "ready", making' = None,
               UNCHANGED <<drbg, k, r, call, signed>>
        PROVE  SInv'
    <2>1. d \in Residues(n) /\ scalar_mul(d, generator) \in AffinePoints
      BY PointsAreAffine
    <2>. DEFINE made == [d |-> d, Q |-> scalar_mul(d, generator)]
    <2>2. made \in KeyPairs /\ made.d = d /\ made.Q = scalar_mul(d, generator)
      BY <2>1 DEF KeyPairs
    <2>3. \A i \in KeyIds : keypairs'[i] = IF i = making THEN made ELSE keypairs[i]
      BY <1>2 DEF SInv, TypeOK
    <2>. HIDE DEF made
    <2>4. keypairs' \in [KeyIds -> KeyPairs]
      BY <1>2, <2>2 DEF SInv, TypeOK, made
    <2>5. TypeOK'
      BY <1>2, <2>4 DEF SInv, TypeOK
    <2>6. KeysAreSound'
      BY <1>2, <2>2, <2>3 DEF SInv, KeysAreSound
    <2>7. DrbgIsFunction' /\ SignedIsStandard'
      BY <1>2 DEF SInv, DrbgIsFunction, SignedIsStandard
    <2>8. call.status # "idle" => call.key # making
      BY <1>2 DEF SInv, CallIsSound
    <2>9. CallIsSound'
      BY <1>2, <2>3, <2>8 DEF SInv, CallIsSound
    <2>. QED
      BY <2>5, <2>6, <2>7, <2>9 DEF SInv
  <1>. QED
    BY <1>1, <1>2, DrawMakesKey

(* derive_nonce stays a function when it is asked once more.               *)
LEMMA NonceFacts ==
  ASSUME SInv, NEW d, NEW h, NEW v \in derive_nonce(d, h),
         NEW known, known = drbg \cup {[d |-> d, z |-> bits2octets(h), k |-> v]}
  PROVE  /\ v \in 1..(n - 1)
         /\ \A e, f \in known : e.d = f.d /\ e.z = f.z => e.k = f.k
PROOF
  <1>. DEFINE same == {e \in drbg : e.d = d /\ e.z = bits2octets(h)}
              fresh == [d |-> d, z |-> bits2octets(h), k |-> v]
  <1>1. IF same = {} THEN v \in Nonces ELSE \E e \in same : v = e.k
    BY DEF derive_nonce
  <1>2. \A e \in drbg : e.k \in 1..(n - 1)
    BY DEF SInv, TypeOK
  <1>3. v \in 1..(n - 1)
    BY <1>1, <1>2, ConstantFacts
  <1>4. \A e \in drbg : e.d = d /\ e.z = bits2octets(h) => e.k = v
    BY <1>1 DEF SInv, DrbgIsFunction
  <1>5. fresh.d = d /\ fresh.z = bits2octets(h) /\ fresh.k = v
    OBVIOUS
  <1>6. \A e \in known : e \in drbg \/ e = fresh
    OBVIOUS
  <1>. HIDE DEF fresh, same
  <1>. QED
    BY <1>3, <1>4, <1>5, <1>6 DEF SInv, DrbgIsFunction

LEMMA BeginKeepsSInv ==
  ASSUME SInv, NEW i \in KeyIds, NEW h \in Hashes, SignBegin(i, h)
  PROVE  SInv'
PROOF
  <1>1. /\ pc = "ready" /\ pc' = "nonce" /\ keypairs[i] # no_keypair
        /\ call' = [status |-> "signing", key |-> i, hash |-> h, nonce |-> 0,
                    sig |-> no_signature]
        /\ UNCHANGED <<keypairs, drbg, making, k, r, signed>>
    BY DEF SignBegin
  <1>2. no_signature \in Signatures
    BY OrderFacts DEF no_signature, Signature, Signatures
  <1>3. TypeOK'
    BY <1>1, <1>2, OrderFacts DEF SInv, TypeOK
  <1>4. KeysAreSound' /\ DrbgIsFunction' /\ SignedIsStandard'
    BY <1>1 DEF SInv, KeysAreSound, DrbgIsFunction, SignedIsStandard
  <1>5. CallIsSound'
    BY <1>1 DEF CallIsSound
  <1>. QED
    BY <1>3, <1>4, <1>5 DEF SInv

LEMMA DeriveKeepsSInv ==
  ASSUME SInv, DeriveNonce
  PROVE  SInv'
PROOF
  <1>. DEFINE d == keypairs[call.key].d
              z == bits2octets(call.hash)
  <1>1. PICK v \in derive_nonce(d, call.hash) :
          /\ pc = "nonce" /\ pc' = "r" /\ k' = v
          /\ r' = scalar_mul(v, generator).x % n
          /\ drbg' = drbg \cup {[d |-> d, z |-> z, k |-> v]}
          /\ call' = [call EXCEPT !.nonce = v]
          /\ UNCHANGED <<keypairs, making, signed>>
    BY DEF DeriveNonce
  <1>2. v \in 1..(n - 1) /\ DrbgIsFunction'
    BY <1>1, NonceFacts DEF DrbgIsFunction
  <1>3. v \in Residues(n) /\ r' \in Residues(n)
    BY <1>1, <1>2, PointsAreAffine
  <1>4. /\ call.status = "signing" /\ call.key \in KeyIds
        /\ keypairs[call.key] # no_keypair /\ call.hash \in Hashes
    BY <1>1 DEF SInv, CallIsSound
  <1>5. d \in Residues(n)
    BY <1>4 DEF SInv, TypeOK, KeyPairs
  <1>6. z \in Residues(n)
    BY <1>4, DigestFacts, ConstantFacts
  <1>7. drbg' \subseteq [d : Residues(n), z : Residues(n), k : 1..(n - 1)]
    BY <1>1, <1>2, <1>5, <1>6 DEF SInv, TypeOK
  <1>8. TypeOK'
    BY <1>1, <1>3, <1>7 DEF SInv, TypeOK
  <1>9. KeysAreSound'
    BY <1>1 DEF SInv, KeysAreSound
  <1>10. SignedIsStandard'
    BY <1>1 DEF SInv, SignedIsStandard
  <1>11. /\ call'.status = "signing" /\ call'.key = call.key
         /\ call'.hash = call.hash /\ call'.nonce = v
    BY <1>1, <1>4 DEF SInv, TypeOK
  <1>12. CallIsSound'
    BY <1>1, <1>2, <1>4, <1>11 DEF CallIsSound, bits2octets
  <1>. QED
    BY <1>2, <1>8, <1>9, <1>10, <1>12 DEF SInv

LEMMA SignRKeepsSInv ==
  ASSUME SInv, SignR
  PROVE  SInv'
PROOF
  <1>1. /\ pc = "r" /\ UNCHANGED <<keypairs, drbg, making, r, signed>>
        /\ IF r = 0
           THEN call' = [call EXCEPT !.status = "failed"] /\ pc' = "ready" /\ k' = 0
           ELSE pc' = "s" /\ UNCHANGED <<k, call>>
    BY DEF SignR
  <1>2. KeysAreSound' /\ DrbgIsFunction' /\ SignedIsStandard'
    BY <1>1 DEF SInv, KeysAreSound, DrbgIsFunction, SignedIsStandard
  <1>3. TypeOK'
    BY <1>1, OrderFacts DEF SInv, TypeOK
  <1>4. CASE r = 0
    <2>1. call'.status = "failed" /\ call'.key = call.key /\ call'.hash = call.hash
      BY <1>1, <1>4 DEF SInv, TypeOK
    <2>2. CallIsSound'
      BY <1>1, <1>4, <2>1 DEF SInv, CallIsSound
    <2>. QED
      BY <1>2, <1>3, <2>2 DEF SInv
  <1>5. CASE r # 0
    <2>1. CallIsSound'
      BY <1>1, <1>5 DEF SInv, CallIsSound
    <2>. QED
      BY <1>2, <1>3, <2>1 DEF SInv
  <1>. QED
    BY <1>4, <1>5

(* What the last step has in hand is what sign_with_nonce computes.        *)
LEMMA SignSIsStandard ==
  ASSUME SInv, pc = "s"
  PROVE  /\ keypairs[call.key].d \in 1..(n - 1) /\ call.hash \in Hashes
         /\ call.nonce \in 1..(n - 1)
         /\ raw_s = 0 <=> sign_with_nonce(keypairs[call.key].d, call.hash, call.nonce)
                            = no_signature
         /\ raw_s # 0 =>
              /\ Signature(r, normalize_low_s(raw_s, n))
                   = sign_with_nonce(keypairs[call.key].d, call.hash, call.nonce)
              /\ Signature(r, normalize_low_s(raw_s, n)) \in Signatures
PROOF
  <1>1. /\ call.key \in KeyIds /\ keypairs[call.key] # no_keypair
        /\ call.hash \in Hashes /\ k = call.nonce /\ k \in 1..(n - 1)
        /\ r = scalar_mul(k, generator).x % n /\ r # 0
    BY DEF SInv, CallIsSound
  <1>2. keypairs[call.key].d \in 1..(n - 1)
    BY <1>1 DEF SInv, KeysAreSound
  <1>3. sign_with_nonce(keypairs[call.key].d, call.hash, call.nonce)
          = IF raw_s = 0 THEN no_signature
            ELSE Signature(r, normalize_low_s(raw_s, n))
    BY <1>1 DEF sign_with_nonce, raw_s
  <1>4. Signature(r, normalize_low_s(raw_s, n)) # no_signature
    BY <1>1 DEF Signature, no_signature
  <1>5. raw_s # 0 => Signature(r, normalize_low_s(raw_s, n)) \in Signatures
    BY <1>1, <1>2, <1>3, <1>4, StandardSignatureVerifies, ConstantFacts
    DEF Signatures
  <1>. QED
    BY <1>1, <1>2, <1>3, <1>4, <1>5

LEMMA SignSKeepsSInv ==
  ASSUME SInv, SignS
  PROVE  SInv'
PROOF
  <1>. DEFINE sig == Signature(r, normalize_low_s(raw_s, n))
              entry == [d |-> keypairs[call.key].d,
                        z |-> hash_to_scalar(call.hash, n), sig |-> sig]
  <1>1. /\ pc = "s" /\ pc' = "ready" /\ k' = 0 /\ r' = 0
        /\ UNCHANGED <<keypairs, drbg, making>>
        /\ IF raw_s = 0
           THEN call' = [call EXCEPT !.status = "failed"] /\ UNCHANGED signed
           ELSE /\ call' = [call EXCEPT !.status = "signed", !.sig = sig]
                /\ signed' = signed \cup {entry}
    BY DEF SignS
  <1>2. /\ keypairs[call.key].d \in 1..(n - 1) /\ call.hash \in Hashes
        /\ call.hash \in Nat
        /\ raw_s # 0 =>
             /\ sig = sign_with_nonce(keypairs[call.key].d, call.hash, call.nonce)
             /\ sig # no_signature /\ sig \in Signatures
    BY <1>1, SignSIsStandard, ConstantFacts
  <1>3. /\ keypairs[call.key].d \in Residues(n)
        /\ hash_to_scalar(call.hash, n) \in Residues(n)
    BY <1>2, PointsAreAffine, DigestFacts
  <1>4. /\ entry.d = keypairs[call.key].d /\ entry.sig = sig
        /\ entry.z = hash_to_scalar(call.hash, n)
        /\ raw_s # 0 => entry \in [d : Residues(n), z : Residues(n), sig : Signatures]
    BY <1>2, <1>3
  <1>. HIDE DEF sig, entry
  <1>5. signed' \subseteq [d : Residues(n), z : Residues(n), sig : Signatures]
    BY <1>1, <1>4 DEF SInv, TypeOK
  <1>6. TypeOK'
    BY <1>1, <1>2, <1>5, OrderFacts DEF SInv, TypeOK
  <1>7. KeysAreSound' /\ DrbgIsFunction'
    BY <1>1 DEF SInv, KeysAreSound, DrbgIsFunction
  <1>8. call'.status # "signing" /\ call'.key = call.key /\ call'.hash = call.hash
    BY <1>1 DEF SInv, TypeOK
  <1>9. CallIsSound'
    BY <1>1, <1>8 DEF SInv, CallIsSound
  <1>10. SignedIsStandard'
    <2>1. PICK g \in drbg :
            /\ g.d = keypairs[call.key].d /\ g.k = call.nonce
            /\ g.z = hash_to_scalar(call.hash, n)
      <3>1. /\ [d |-> keypairs[call.key].d, z |-> bits2octets(call.hash),
                k |-> k] \in drbg
            /\ k = call.nonce
        BY <1>1 DEF SInv, CallIsSound
      <3>. QED
        BY <3>1, <1>2, DigestFacts
    <2>2. raw_s # 0 => sig = sign_with_nonce(keypairs[call.key].d,
                               hash_to_scalar(call.hash, n), call.nonce)
      BY <1>2, SameDigestSameSignature
    <2>3. \A e \in signed' : e \in signed \/ (raw_s # 0 /\ e = entry)
      BY <1>1
    <2>. QED
      BY <1>1, <1>2, <1>4, <2>1, <2>2, <2>3 DEF SInv, SignedIsStandard
  <1>. QED
    BY <1>6, <1>7, <1>9, <1>10 DEF SInv

LEMMA NextKeepsSInv == SInv /\ [Next]_vars => SInv'
PROOF
  <1>. SUFFICES ASSUME SInv, [Next]_vars PROVE SInv'
    OBVIOUS
  <1>1. CASE \E i \in KeyIds : GenerateKeypair(i)
    BY <1>1, GenerateKeepsSInv
  <1>2. CASE Draw
    BY <1>2, DrawKeepsSInv
  <1>3. CASE \E i \in KeyIds, h \in Hashes : SignBegin(i, h)
    BY <1>3, BeginKeepsSInv
  <1>4. CASE SignR
    BY <1>4, SignRKeepsSInv
  <1>5. CASE SignS
    BY <1>5, SignSKeepsSInv
  <1>6. CASE DeriveNonce
    BY <1>6, DeriveKeepsSInv
  <1>7. CASE UNCHANGED vars
    BY <1>7, UnchangedKeepsSInv
  <1>. QED
    BY <1>1, <1>2, <1>3, <1>4, <1>5, <1>6, <1>7 DEF Next

LEMMA SpecKeepsSInv == Spec => []SInv
PROOF BY InitSInv, NextKeepsSInv, PTL DEF Spec

-----------------------------------------------------------------------------
(* generate_keypair and sign_with_hash keep every scalar a residue below   *)
(* n, and derive_nonce is only ever asked for and answered scalars.        *)
THEOREM EcdsaSignerTypeCorrect == Spec => []TypeOK
PROOF
  <1>1. SInv => TypeOK
    BY DEF SInv
  <1>. QED
    BY <1>1, SpecKeepsSInv, PTL

(* Every signature sign_with_hash ever returned verifies for its digest    *)
(* and every digest congruent to it, and has the low s.                    *)
THEOREM EcdsaSignaturesVerify == Spec => []SignaturesVerify
PROOF
  <1>1. ASSUME SInv, NEW e \in signed, NEW h \in {x \in Hashes : x % n = e.z}
        PROVE  /\ verify(scalar_mul(e.d, generator), h, e.sig.r, e.sig.s)
               /\ 2 * e.sig.s <= n
    <2>1. PICK g \in drbg :
            /\ e.d \in 1..(n - 1) /\ e.sig # no_signature
            /\ e.sig = sign_with_nonce(e.d, e.z, g.k)
      BY <1>1 DEF SInv, SignedIsStandard
    <2>2. g.k \in 1..(n - 1)
      BY <1>1 DEF SInv, TypeOK
    <2>3. h \in Nat /\ e.z = hash_to_scalar(h, n)
      BY ConstantFacts DEF hash_to_scalar
    <2>4. e.sig = sign_with_nonce(e.d, h, g.k)
      BY <2>1, <2>3, SameDigestSameSignature
    <2>. QED
      BY <2>1, <2>2, <2>3, <2>4, StandardSignatureVerifies
  <1>2. SInv => SignaturesVerify
    BY <1>1 DEF SignaturesVerify
  <1>. QED
    BY <1>2, SpecKeepsSInv, PTL

(* Secret and digest determine the signature, across calls and keys.       *)
THEOREM EcdsaSignaturesAreFunctions == Spec => []SignaturesAreFunctions
PROOF
  <1>1. ASSUME SInv, NEW e \in signed, NEW f \in signed, e.d = f.d, e.z = f.z
        PROVE  e.sig = f.sig
    <2>1. PICK g \in drbg : /\ g.d = e.d /\ g.z = e.z
                            /\ e.sig = sign_with_nonce(e.d, e.z, g.k)
      BY <1>1 DEF SInv, SignedIsStandard
    <2>2. PICK g2 \in drbg : /\ g2.d = f.d /\ g2.z = f.z
                             /\ f.sig = sign_with_nonce(f.d, f.z, g2.k)
      BY <1>1 DEF SInv, SignedIsStandard
    <2>3. g.k = g2.k
      BY <1>1, <2>1, <2>2 DEF SInv, DrbgIsFunction
    <2>. QED
      BY <1>1, <2>1, <2>2, <2>3
  <1>2. SInv => SignaturesAreFunctions
    BY <1>1 DEF SignaturesAreFunctions
  <1>. QED
    BY <1>2, SpecKeepsSInv, PTL

-----------------------------------------------------------------------------
(* The refinement.                                                         *)

abstract_secret == [i \in KeyIds |-> keypairs[i].d]

LEMMA InitRefines == Init => Std!Init
PROOF BY DEF Init, no_keypair, no_call, Std!Init, Std!no_call

LEMMA DrawRefines ==
  ASSUME SInv, Draw
  PROVE  UNCHANGED <<abstract_secret, call>> \/ \E i \in KeyIds : Std!Generate(i)
PROOF
  <1>1. CASE UNCHANGED vars
    BY <1>1 DEF vars, abstract_secret
  <1>2. CASE ~UNCHANGED vars
    <2>1. PICK d \in 1..(n - 1), i \in KeyIds :
              /\ i = making /\ keypairs[i] = no_keypair
              /\ keypairs' = [keypairs EXCEPT
                      ![i] = [d |-> d, Q |-> scalar_mul(d, generator)]]
              /\ pc = "draw" /\ UNCHANGED call
      BY <1>2, DrawMakesKey
    <2>. DEFINE made == [d |-> d, Q |-> scalar_mul(d, generator)]
    <2>2. \A x \in KeyIds : keypairs'[x] = IF x = i THEN made ELSE keypairs[x]
      BY <2>1 DEF SInv, TypeOK
    <2>3. made.d = d
      OBVIOUS
    <2>. HIDE DEF made
    <2>4. abstract_secret' = [abstract_secret EXCEPT ![i] = d]
      BY <2>2, <2>3 DEF abstract_secret
    <2>5. abstract_secret[i] = 0
      BY <2>1 DEF abstract_secret, no_keypair
    <2>6. call.status # "signing"
      BY <2>1 DEF SInv, CallIsSound
    <2>7. Std!Generate(i)
      BY <2>1, <2>4, <2>5, <2>6 DEF Std!Generate, abstract_secret
    <2>. QED
      BY <2>7
  <1>. QED
    BY <1>1, <1>2

LEMMA BeginRefines ==
  ASSUME SInv, NEW i \in KeyIds, NEW h \in Hashes, SignBegin(i, h)
  PROVE  Std!Sign(i, h)
PROOF
  <1>1. /\ pc = "ready" /\ keypairs[i] # no_keypair
        /\ call' = [status |-> "signing", key |-> i, hash |-> h, nonce |-> 0,
                    sig |-> no_signature]
        /\ UNCHANGED keypairs
    BY DEF SignBegin
  <1>2. keypairs[i].d # 0
    BY <1>1, OrderFacts DEF SInv, KeysAreSound
  <1>3. call.status # "signing"
    BY <1>1 DEF SInv, CallIsSound
  <1>. QED
    BY <1>1, <1>2, <1>3 DEF Std!Sign

LEMMA DeriveRefines ==
  ASSUME SInv, DeriveNonce
  PROVE  Std!Settle
PROOF
  <1>1. PICK v \in derive_nonce(keypairs[call.key].d, call.hash) :
          /\ pc = "nonce"
          /\ drbg' = drbg \cup {[d |-> keypairs[call.key].d,
                                 z |-> bits2octets(call.hash), k |-> v]}
          /\ call' = [call EXCEPT !.nonce = v]
          /\ UNCHANGED keypairs
    BY DEF DeriveNonce
  <1>2. v \in 1..(n - 1)
    BY <1>1, NonceFacts
  <1>3. call.status = "signing" /\ call.nonce = 0
    BY <1>1 DEF SInv, CallIsSound
  <1>. QED
    BY <1>1, <1>2, <1>3 DEF Std!Settle

LEMMA SignRRefines ==
  ASSUME SInv, SignR
  PROVE  UNCHANGED <<abstract_secret, call>> \/ Std!Fail
PROOF
  <1>1. call.status = "signing" /\ call.nonce # 0
    BY OrderFacts DEF SignR, SInv, CallIsSound
  <1>. QED
    BY <1>1 DEF SignR, Std!Fail, abstract_secret

LEMMA SignSRefines ==
  ASSUME SInv, SignS
  PROVE  Std!Return \/ Std!Fail
PROOF
  <1>1. /\ pc = "s" /\ call.status = "signing" /\ call.nonce # 0
        /\ UNCHANGED keypairs
        /\ IF raw_s = 0 THEN call' = [call EXCEPT !.status = "failed"]
           ELSE call' = [call EXCEPT !.status = "signed",
                                     !.sig = Signature(r, normalize_low_s(raw_s, n))]
    BY OrderFacts DEF SignS, SInv, CallIsSound
  <1>2. CASE raw_s = 0
    BY <1>1, <1>2 DEF Std!Fail
  <1>3. CASE raw_s # 0
    <2>1. PICK sig :
            /\ sig = Signature(r, normalize_low_s(raw_s, n))
            /\ sig # no_signature
            /\ sig = sign_with_nonce(keypairs[call.key].d, call.hash, call.nonce)
      BY <1>1, <1>3, SignSIsStandard
    <2>2. sig = Standard[<<keypairs[call.key].d, call.hash, call.nonce>>]
      BY <1>1, <2>1, SignSIsStandard DEF Standard
    <2>3. /\ call' = [call EXCEPT !.status = "signed", !.sig = sig]
          /\ call'.status = "signed" /\ call'.sig = sig
      BY <1>1, <1>3, <2>1 DEF SInv, TypeOK
    <2>4. call.key \in KeyIds
      BY <1>1 DEF SInv, CallIsSound
    <2>5. Std!Return
      BY <1>1, <2>1, <2>2, <2>3, <2>4 DEF Std!Return
    <2>. QED
      BY <2>5
  <1>. QED
    BY <1>2, <1>3

LEMMA NextRefines ==
  ASSUME SInv, [Next]_vars
  PROVE  [Std!Next]_<<abstract_secret, call>>
PROOF
  <1>1. ASSUME NEW i \in KeyIds, GenerateKeypair(i)
        PROVE  UNCHANGED <<abstract_secret, call>>
    BY <1>1 DEF GenerateKeypair, abstract_secret
  <1>2. ASSUME NEW i \in KeyIds, NEW h \in Hashes, SignBegin(i, h) PROVE Std!Next
    BY <1>2, BeginRefines DEF Std!Next
  <1>3. ASSUME UNCHANGED vars PROVE UNCHANGED <<abstract_secret, call>>
    BY <1>3 DEF vars, abstract_secret
  <1>4. Draw => UNCHANGED <<abstract_secret, call>> \/ Std!Next
    BY DrawRefines DEF Std!Next
  <1>5. SignR => UNCHANGED <<abstract_secret, call>> \/ Std!Next
    BY SignRRefines DEF Std!Next
  <1>6. SignS => Std!Next
    BY SignSRefines DEF Std!Next
  <1>7. DeriveNonce => Std!Next
    BY DeriveRefines DEF Std!Next
  <1>. QED
    BY <1>1, <1>2, <1>3, <1>4, <1>5, <1>6, <1>7 DEF Next

(* The single signer implements the standard signer: a call settles on one *)
(* nonce and returns the standard signature for it, or none.               *)
THEOREM EcdsaImplementsStandardSigner == Spec => ImplementsStandardSigner
PROOF
  <1>1. SInv /\ [Next]_vars => [Std!Next]_<<abstract_secret, call>>
    BY NextRefines
  <1>2. [Std!Next]_<<abstract_secret, call>> => [Std!Next]_(Std!abstract_vars)
    BY DEF Std!abstract_vars, abstract_secret
  <1>. QED
    BY <1>1, <1>2, InitRefines, SpecKeepsSInv, PTL
    DEF Spec, ImplementsStandardSigner, Std!Spec
============================================================================
