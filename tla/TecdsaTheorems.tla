--------------------------- MODULE TecdsaTheorems ---------------------------
(***************************************************************************)
(* The two-party signer, for every curve whose base point has prime order  *)
(* (EcGroup's assumptions), every set of keys, presigns and digests, every *)
(* random draw and both builds.                                            *)
(***************************************************************************)
EXTENDS Tecdsa, EcdsaTheorems

LEMMA DrawFacts ==
  /\ \A v \in Draws \cup TripleDraws : v \in Residues(n)
  /\ \A v \in NonzeroDraws : v \in Residues(n) /\ v # 0 /\ v \in 1..(n - 1)
PROOF BY DrawsAssumption, OrderFacts DEF Residues

(* What mod_inv returns: an inverse, or some number when a is zero.        *)
LEMMA InverseOutcomes ==
  ASSUME NEW a \in Residues(n),
         NEW v \in mod_inv_outcomes(a, n, NDEBUG, Leftovers)
  PROVE  \/ v \in Residues(n) /\ mod_mul(a, v, n) = 1
         \/ v \in Nat /\ a = 0 /\ NDEBUG
PROOF
  <1>1. CASE invertible(a, n)
    <2>1. v = mod_inv(a, n)
      BY <1>1 DEF mod_inv_outcomes
    <2>2. \E u \in Residues(n) : mod_mul(a, u, n) = 1
      BY <1>1 DEF invertible
    <2>3. mod_inv(a, n) \in Residues(n) /\ mod_mul(a, mod_inv(a, n), n) = 1
      BY <2>2 DEF mod_inv
    <2>. QED
      BY <2>1, <2>3
  <1>2. CASE ~invertible(a, n)
    <2>1. v \in Nat /\ NDEBUG
      BY <1>2, CallerAssumption, LeftoversAssumption DEF mod_inv_outcomes
    <2>2. a = 0
      BY <1>2, OrderIsPrime, OrderFacts DEF Residues
    <2>. QED
      BY <2>1, <2>2
  <1>. QED
    BY <1>1, <1>2

-----------------------------------------------------------------------------
(* The invariant: what the run checks, and how pc, the locals and the call *)
(* record go together.                                                     *)
CallIsSound ==
  /\ call.status = "signing" <=> pc \in {"deal1", "invert", "deal2", "multiply"}
  /\ call.status # "idle" =>
       /\ call.key \in KeyIds /\ keys[call.key] # no_key
       /\ call.presign \in PresignIds /\ presigns[call.presign] # no_presign
       /\ call.hash \in Hashes
       /\ AnyKey \/ owner[call.presign] = call.key

IInv ==
  /\ TypeOK
  /\ SharesAreSound
  /\ LocalsAreSound
  /\ InverseOrZero
  /\ CallIsSound

LEMMA NoTripleType == no_triple \in BeaverTriples(n)
PROOF BY OrderFacts DEF no_triple, BeaverTriples

LEMMA IdentityIsPoint == identity \in AffinePoints
PROOF BY DEF identity, AffinePoints

LEMMA InitIInv == Init => IInv
PROOF
  <1>. SUFFICES ASSUME Init PROVE IInv
    OBVIOUS
  <1>1. /\ no_key \in ThresholdKeys /\ no_presign \in ThresholdPresigns
        /\ no_signature \in [r : Residues(n), s : Residues(n)]
    BY OrderFacts, IdentityIsPoint
       DEF no_key, no_presign, ThresholdKeys, ThresholdPresigns,
           no_signature, Signature
  <1>2. TypeOK
    BY <1>1, OrderFacts, NoTripleType DEF Init, TypeOK, no_call
  <1>3. SharesAreSound
    BY DEF Init, SharesAreSound, KeysAreSound, PresignsAreSound,
           PresigningSucceeds
  <1>4. LocalsAreSound /\ InverseOrZero /\ CallIsSound
    BY DEF Init, LocalsAreSound, InverseOrZero, CallIsSound, no_call
  <1>. QED
    BY <1>2, <1>3, <1>4 DEF IInv

(* A triple freshly dealt is a genuine one.                                *)
LEMMA FreshTriplesAreGenuine ==
  \A U \in FreshTriples : U \in BeaverTriples(n) /\ is_triple(U, n)
PROOF
  <1>. SUFFICES ASSUME NEW U \in FreshTriples
                PROVE  U \in BeaverTriples(n) /\ is_triple(U, n)
    OBVIOUS
  <1>1. PICK a, b, a1, b1, c1 \in TripleDraws :
          U = generate_triple(a, b, a1, b1, c1, n)
    BY DEF FreshTriples
  <1>. QED
    BY <1>1, DrawFacts, DealtTriplesAreGenuine, OrderFacts

LEMMA KeygenKeepsIInv ==
  ASSUME IInv, NEW i \in KeyIds, ThresholdKeygen(i)
  PROVE  IInv'
PROOF
  <1>. USE DEF ThresholdKeygen
  <1>1. PICK skA, skB \in NonzeroDraws :
          keys' = [keys EXCEPT ![i] =
                     [skA |-> skA, skB |-> skB,
                      Q |-> scalar_mul(mod_mul(skA, skB, n), generator)]]
    OBVIOUS
  <1>. DEFINE sk == mod_mul(skA, skB, n)
              made == [skA |-> skA, skB |-> skB, Q |-> scalar_mul(sk, generator)]
  <1>2. skA \in Residues(n) /\ skB \in Residues(n) /\ skA # 0 /\ skB # 0
    BY DrawFacts
  <1>3. sk \in Residues(n) /\ sk # 0
    BY <1>2, Closure, NoZeroDivisors
  <1>4. made \in ThresholdKeys
    BY <1>2, <1>3, MultiplesAreOnCurve DEF ThresholdKeys
  <1>5. keys \in [KeyIds -> ThresholdKeys]
    BY DEF IInv, TypeOK
  <1>6. /\ keys'[i] = made
        /\ \A l \in KeyIds : l # i => keys'[l] = keys[l]
        /\ keys' \in [KeyIds -> ThresholdKeys]
    BY <1>1, <1>4, <1>5
  <1>7. TypeOK' /\ PresigningSucceeds'
    BY <1>6 DEF IInv, TypeOK, locals, SharesAreSound, PresigningSucceeds
  <1>8. KeysAreSound'
    <2>1. secret_of(made) = sk /\ made.Q = scalar_mul(sk, generator)
      BY DEF secret_of
    <2>. HIDE DEF made, sk
    <2>. QED
      BY <1>3, <1>6, <2>1 DEF IInv, SharesAreSound, KeysAreSound
  <1>9. PresignsAreSound'
    <2>1. \A j \in PresignIds : presigns[j] # no_presign =>
            owner[j] \in KeyIds /\ owner[j] # i /\ keys'[owner[j]] = keys[owner[j]]
      BY <1>6 DEF IInv, SharesAreSound, PresignsAreSound
    <2>. QED
      BY <2>1 DEF IInv, SharesAreSound, PresignsAreSound, locals
  <1>10. (LocalsAreSound /\ InverseOrZero /\ CallIsSound)'
    <2>1. UNCHANGED <<presigns, owner, pc, zd, triple, fresh, kinv, call>>
      BY DEF locals
    <2>2. LocalsAreSound' /\ InverseOrZero'
      BY <2>1 DEF IInv, LocalsAreSound, InverseOrZero, current
    <2>3. call.status # "idle" => keys'[call.key] = keys[call.key]
      BY <1>6 DEF IInv, CallIsSound
    <2>. QED
      BY <2>1, <2>2, <2>3 DEF IInv, CallIsSound
  <1>. QED
    BY <1>7, <1>8, <1>9, <1>10 DEF IInv, SharesAreSound

(* The conversion to additive shares is right, its nonce is not zero and   *)
(* its point not at infinity.                                              *)
LEMMA PresignOfIsSound ==
  ASSUME NEW key \in ThresholdKeys,
         NEW kA \in NonzeroDraws, NEW kB \in NonzeroDraws,
         NEW sk1 \in Draws, NEW k1 \in Draws
  PROVE  LET made == presign_of(key, kA, kB, sk1, k1)
         IN  /\ made \in ThresholdPresigns
             /\ mod_add(made.sk1, made.sk2, n) = secret_of(key)
             /\ mod_add(made.k1, made.k2, n) = nonce_of(made)
             /\ nonce_of(made) # 0 /\ ~made.R.infinity
             /\ made.R = scalar_mul(nonce_of(made), generator)
             /\ made.r = made.R.x % n
PROOF
  <1>. DEFINE k == mod_mul(kA, kB, n)
              sk == mod_mul(key.skA, key.skB, n)
              R == scalar_mul(k, generator)
              made == presign_of(key, kA, kB, sk1, k1)
  <1>1. /\ kA \in Residues(n) /\ kB \in Residues(n) /\ kA # 0 /\ kB # 0
        /\ sk1 \in Residues(n) /\ k1 \in Residues(n)
        /\ key.skA \in Residues(n) /\ key.skB \in Residues(n)
    BY DrawFacts DEF ThresholdKeys
  <1>2. k \in Residues(n) /\ k # 0 /\ sk \in Residues(n)
    BY <1>1, Closure, NoZeroDivisors
  <1>3. R \in AffinePoints /\ R.x \in Int /\ ~R.infinity
    BY <1>2, MultiplesAreOnCurve DEF AffinePoints
  <1>4. R.x % n \in Residues(n)
    BY <1>3, ModuloIsResidue, OrderFacts
  <1>5. /\ mod_sub(sk, sk1, n) \in Residues(n)
        /\ mod_add(sk1, mod_sub(sk, sk1, n), n) = sk
        /\ mod_sub(k, k1, n) \in Residues(n)
        /\ mod_add(k1, mod_sub(k, k1, n), n) = k
    BY <1>1, <1>2, SharesSum, OrderFacts
  <1>6. made = [kA |-> kA, kB |-> kB, R |-> R, r |-> R.x % n,
                sk1 |-> sk1, sk2 |-> mod_sub(sk, sk1, n),
                k1 |-> k1, k2 |-> mod_sub(k, k1, n)]
    BY DEF presign_of
  <1>. HIDE DEF k, sk, R, made
  <1>7. made \in ThresholdPresigns
    BY <1>1, <1>3, <1>4, <1>5, <1>6 DEF ThresholdPresigns
  <1>8. nonce_of(made) = k /\ secret_of(key) = sk
    BY <1>6 DEF nonce_of, secret_of, k, sk
  <1>9. /\ mod_add(made.sk1, made.sk2, n) = secret_of(key)
        /\ mod_add(made.k1, made.k2, n) = nonce_of(made)
        /\ nonce_of(made) # 0 /\ ~made.R.infinity
    BY <1>2, <1>3, <1>5, <1>6, <1>8
  <1>10. made.R = scalar_mul(nonce_of(made), generator) /\ made.r = made.R.x % n
    BY <1>6, <1>8 DEF R
  <1>. QED
    BY <1>7, <1>9, <1>10 DEF made

LEMMA PresignKeepsIInv ==
  ASSUME IInv, NEW i \in KeyIds, NEW j \in PresignIds, ThresholdPresign(j, i)
  PROVE  IInv'
PROOF
  <1>1. PICK kA, kB \in NonzeroDraws, sk1, k1 \in Draws :
          /\ pc = "ready" /\ keys[i] # no_key /\ presigns[j] = no_presign
          /\ ReturnPresign(j, i, presign_of(keys[i], kA, kB, sk1, k1))
          /\ UNCHANGED <<keys, zd, triple, fresh, kinv, call>>
    BY DEF ThresholdPresign
  <1>. DEFINE made == presign_of(keys[i], kA, kB, sk1, k1)
  <1>2. keys[i] \in ThresholdKeys
    BY DEF IInv, TypeOK
  <1>3. /\ made \in ThresholdPresigns
        /\ mod_add(made.sk1, made.sk2, n) = secret_of(keys[i])
        /\ mod_add(made.k1, made.k2, n) = nonce_of(made)
        /\ nonce_of(made) # 0 /\ ~made.R.infinity
        /\ made.R = scalar_mul(nonce_of(made), generator)
        /\ made.r = made.R.x % n
    BY <1>2, PresignOfIsSound
  <1>. HIDE DEF made
  <1>3a. /\ presigns' = [presigns EXCEPT ![j] = made]
         /\ owner' = [owner EXCEPT ![j] = i] /\ UNCHANGED pc
    BY <1>1, <1>3 DEF ReturnPresign, made
  <1>4. /\ presigns \in [PresignIds -> ThresholdPresigns]
        /\ owner \in [PresignIds -> KeyIds \cup {None}]
    BY DEF IInv, TypeOK
  <1>5. /\ presigns'[j] = made
        /\ \A l \in PresignIds : l # j => presigns'[l] = presigns[l]
        /\ presigns' \in [PresignIds -> ThresholdPresigns]
        /\ owner'[j] = i
        /\ \A l \in PresignIds : l # j => owner'[l] = owner[l]
        /\ owner' \in [PresignIds -> KeyIds \cup {None}]
    BY <1>3, <1>3a, <1>4
  <1>6. UNCHANGED <<keys, pc, zd, triple, fresh, kinv, call>>
    BY <1>1, <1>3a
  <1>7. TypeOK' /\ PresigningSucceeds'
    BY <1>5, <1>6 DEF IInv, TypeOK, SharesAreSound, PresigningSucceeds
  <1>8. KeysAreSound'
    BY <1>6 DEF IInv, SharesAreSound, KeysAreSound
  <1>9. PresignsAreSound'
    <2>. SUFFICES ASSUME NEW l \in PresignIds, presigns'[l] # no_presign
         PROVE  /\ owner'[l] \in KeyIds /\ keys'[owner'[l]] # no_key
                /\ mod_add(presigns'[l].sk1, presigns'[l].sk2, n)
                     = secret_of(keys'[owner'[l]])
                /\ mod_add(presigns'[l].k1, presigns'[l].k2, n)
                     = nonce_of(presigns'[l])
                /\ nonce_of(presigns'[l]) # 0
                /\ presigns'[l].R = scalar_mul(nonce_of(presigns'[l]), generator)
                /\ presigns'[l].r = presigns'[l].R.x % n
      BY DEF PresignsAreSound
    <2>1. CASE l = j
      BY <1>1, <1>3, <1>5, <1>6, <2>1
    <2>2. CASE l # j
      BY <1>5, <1>6, <2>2 DEF IInv, SharesAreSound, PresignsAreSound
    <2>. QED
      BY <2>1, <2>2
  <1>10. call.status # "idle" =>
           /\ presigns'[call.presign] = presigns[call.presign]
           /\ owner'[call.presign] = owner[call.presign]
    BY <1>1, <1>5 DEF IInv, CallIsSound
  <1>11. CallIsSound'
    BY <1>6, <1>10 DEF IInv, CallIsSound
  <1>12. (LocalsAreSound /\ InverseOrZero)'
    <2>1. pc = "ready" /\ call.status # "signing"
      BY <1>1 DEF IInv, CallIsSound
    <2>. QED
      BY <1>6, <2>1 DEF LocalsAreSound, InverseOrZero
  <1>. QED
    BY <1>7, <1>8, <1>9, <1>11, <1>12 DEF IInv, SharesAreSound

(* The parties' shares of z + r sk sum to it.                              *)
LEMMA LinearStepIsSound ==
  ASSUME NEW z \in Residues(n), NEW r \in Residues(n),
         NEW sk1 \in Residues(n), NEW sk2 \in Residues(n)
  PROVE  /\ mod_add(z, mod_mul(r, sk1, n), n) \in Residues(n)
         /\ mod_mul(r, sk2, n) \in Residues(n)
         /\ mod_add(mod_add(z, mod_mul(r, sk1, n), n), mod_mul(r, sk2, n), n)
              = mod_add(z, mod_mul(r, mod_add(sk1, sk2, n), n), n)
PROOF
  <1>1. /\ mod_mul(r, sk1, n) \in Residues(n) /\ mod_mul(r, sk2, n) \in Residues(n)
        /\ mod_add(sk1, sk2, n) \in Residues(n)
        /\ mod_mul(r, mod_add(sk1, sk2, n), n) \in Residues(n)
    BY Closure
  <1>2. mod_add(z, mod_mul(r, sk1, n), n) \in Residues(n)
    BY <1>1, Closure
  <1>3. mod_add(mod_mul(r, sk1, n), mod_mul(r, sk2, n), n)
          = mod_mul(r, mod_add(sk1, sk2, n), n)
    <2>1. mod_add(mod_mul(sk1, r, n), mod_mul(sk2, r, n), n)
            = mod_mul(mod_add(sk1, sk2, n), r, n)
      BY MulDistributes
    <2>. QED
      BY <1>1, <2>1, MulCommutes
  <1>4. mod_add(mod_add(z, mod_mul(r, sk1, n), n), mod_mul(r, sk2, n), n)
          = mod_add(z, mod_add(mod_mul(r, sk1, n), mod_mul(r, sk2, n), n), n)
    BY <1>1, AddAssociates
  <1>. QED
    BY <1>1, <1>2, <1>3, <1>4

LEMMA BeginKeepsIInv ==
  ASSUME IInv, NEW i \in KeyIds, NEW j \in PresignIds, NEW h \in Hashes,
         SignBegin(i, j, h)
  PROVE  IInv'
PROOF
  <1>. USE DEF SignBegin
  <1>. DEFINE P == presigns[j]
  <1>1. /\ P \in ThresholdPresigns /\ P # no_presign
        /\ keys[i] # no_key
        /\ P.r \in Residues(n) /\ P.sk1 \in Residues(n) /\ P.sk2 \in Residues(n)
    BY DEF IInv, TypeOK, ThresholdPresigns
  <1>2. hash_to_scalar(h, n) \in Residues(n)
    BY HashIsScalar, CallerAssumption
  <1>3. /\ zd' = <<mod_add(hash_to_scalar(h, n), mod_mul(P.r, P.sk1, n), n),
                   mod_mul(P.r, P.sk2, n)>>
        /\ call' = [status |-> "signing", key |-> i, presign |-> j, hash |-> h,
                    sig |-> no_signature]
        /\ pc' = "deal1"
        /\ UNCHANGED <<keys, presigns, owner, triple, fresh, kinv>>
    OBVIOUS
  <1>. HIDE DEF SignBegin
  <1>4. /\ zd' \in Residues(n) \X Residues(n)
        /\ mod_add(zd'[1], zd'[2], n)
             = mod_add(hash_to_scalar(h, n),
                       mod_mul(P.r, mod_add(P.sk1, P.sk2, n), n), n)
    <2>1. PICK z, r, sk1, sk2 \in Residues(n) :
            z = hash_to_scalar(h, n) /\ r = P.r /\ sk1 = P.sk1 /\ sk2 = P.sk2
      BY <1>1, <1>2
    <2>. DEFINE zd1 == mod_add(z, mod_mul(r, sk1, n), n)
                zd2 == mod_mul(r, sk2, n)
    <2>2. /\ zd1 \in Residues(n) /\ zd2 \in Residues(n)
          /\ mod_add(zd1, zd2, n) = mod_add(z, mod_mul(r, mod_add(sk1, sk2, n), n), n)
      BY LinearStepIsSound
    <2>3. zd' = <<zd1, zd2>>
      BY <1>3, <2>1
    <2>. HIDE DEF zd1, zd2
    <2>4. zd' \in Residues(n) \X Residues(n) /\ zd'[1] = zd1 /\ zd'[2] = zd2
      BY <2>2, <2>3
    <2>. QED
      BY <2>1, <2>2, <2>4
  <1>5. TypeOK'
    <2>1. no_signature \in [r : Residues(n), s : Residues(n)]
      BY OrderFacts DEF no_signature, Signature
    <2>. QED
      BY <1>3, <1>4, <2>1 DEF IInv, TypeOK
  <1>6. SharesAreSound'
    BY <1>3 DEF IInv, SharesAreSound, KeysAreSound, PresignsAreSound,
                PresigningSucceeds
  <1>7. current' = P /\ call'.presign = j /\ call'.hash = h /\ call'.key = i
    BY <1>3 DEF current
  <1>8. LocalsAreSound'
    BY <1>1, <1>3, <1>4, <1>7 DEF LocalsAreSound
  <1>9. InverseOrZero'
    BY <1>3 DEF InverseOrZero
  <1>10. CallIsSound'
    BY <1>1, <1>3 DEF CallIsSound, SignBegin
  <1>. QED
    BY <1>5, <1>6, <1>8, <1>9, <1>10 DEF IInv

LEMMA DealKeepsIInv ==
  ASSUME IInv, SignDeal
  PROVE  IInv'
PROOF
  <1>1. /\ pc \in {"deal1", "deal2"}
        /\ pc' = IF pc = "deal1" THEN "invert" ELSE "multiply"
        /\ UNCHANGED <<keys, presigns, owner, zd, kinv, call>>
        /\ triple' \in BeaverTriples(n) /\ is_triple(triple', n) /\ fresh' = TRUE
    BY FreshTriplesAreGenuine DEF SignDeal
  <1>2. TypeOK'
    BY <1>1 DEF IInv, TypeOK
  <1>3. SharesAreSound'
    BY <1>1 DEF IInv, SharesAreSound, KeysAreSound, PresignsAreSound,
                PresigningSucceeds
  <1>4. current' = current
    BY <1>1 DEF current
  <1>5. LocalsAreSound' /\ InverseOrZero'
    BY <1>1, <1>4 DEF IInv, LocalsAreSound, InverseOrZero
  <1>6. CallIsSound'
    BY <1>1 DEF IInv, CallIsSound
  <1>. QED
    BY <1>2, <1>3, <1>5, <1>6 DEF IInv

(* The opened product is the nonce times the mask.                         *)
LEMMA MaskedNonceIsProduct ==
  ASSUME NEW k1 \in Residues(n), NEW k2 \in Residues(n),
         NEW r1 \in Residues(n), NEW r2 \in Residues(n),
         NEW U \in BeaverTriples(n), is_triple(U, n)
  PROVE  masked_nonce(k1, k2, r1, r2, U)
           = mod_mul(mod_add(k1, k2, n), mod_add(r1, r2, n), n)
PROOF BY BeaverMulMultiplies, OrderFacts DEF masked_nonce

(* A factor counts modulo n only.                                          *)
LEMMA FactorIsReduced ==
  ASSUME NEW r \in Residues(n), NEW v \in Nat
  PROVE  mod_mul(r, v, n) = mod_mul(r, v % n, n)
PROOF
  <1>1. n \in Nat \ {0} /\ r \in Int /\ v \in Int
    BY OrderFacts DEF Residues
  <1>2. PICK u \in Int : u = v % n /\ Cong(u, v, n)
    BY <1>1, ModuloIsResidue, ResiduesAreIntegers
  <1>3. Cong(r * u, r * v, n)
    BY <1>1, <1>2, CongMul, CongRefl
  <1>4. /\ mod_mul(r, v, n) \in Residues(n) /\ Cong(mod_mul(r, v, n), r * v, n)
        /\ mod_mul(r, u, n) \in Residues(n) /\ Cong(mod_mul(r, u, n), r * u, n)
    BY <1>1, <1>2, ModMul
  <1>5. Cong(mod_mul(r, v, n), mod_mul(r, u, n), n)
    <2>1. /\ mod_mul(r, v, n) \in Int /\ mod_mul(r, u, n) \in Int
          /\ r * v \in Int /\ r * u \in Int
      BY <1>1, <1>2, <1>4 DEF Residues
    <2>. QED
      BY <1>1, <1>3, <1>4, <2>1, CongSym, CongTrans
  <1>. QED
    BY <1>1, <1>2, <1>4, <1>5, CongResidues

(* Scaled by what mod_inv returns, the mask's shares become shares of the  *)
(* inverse of the nonce, or of zero when the mask was zero.                *)
LEMMA ScaledMaskIsSound ==
  ASSUME NEW k \in Residues(n), k # 0,
         NEW r1 \in Residues(n), NEW r2 \in Residues(n),
         NEW v \in mod_inv_outcomes(mod_mul(k, mod_add(r1, r2, n), n), n,
                                    NDEBUG, Leftovers)
  PROVE  LET kinv1 == mod_mul(r1, v, n)
             kinv2 == mod_mul(r2, v, n)
             sum   == mod_add(kinv1, kinv2, n)
         IN  /\ kinv1 \in Residues(n) /\ kinv2 \in Residues(n)
             /\ mod_mul(k, sum, n) = 1 \/ (NDEBUG /\ sum = 0)
PROOF
  <1>1. PICK mask \in Residues(n) : mask = mod_add(r1, r2, n)
    BY Closure
  <1>2. PICK m \in Residues(n) : m = mod_mul(k, mask, n)
    BY Closure
  <1>3. \/ v \in Residues(n) /\ mod_mul(m, v, n) = 1
        \/ v \in Nat /\ m = 0 /\ NDEBUG
    <2>1. v \in mod_inv_outcomes(m, n, NDEBUG, Leftovers)
      BY <1>1, <1>2
    <2>. QED
      BY <2>1, InverseOutcomes
  <1>. DEFINE u == v % n
  <1>4. /\ u \in Residues(n) /\ mod_mul(r1, v, n) = mod_mul(r1, u, n)
        /\ mod_mul(r2, v, n) = mod_mul(r2, u, n)
    <2>1. v \in Nat
      BY <1>3, OrderFacts DEF Residues
    <2>. QED
      BY <2>1, FactorIsReduced, ModuloIsResidue, OrderFacts
  <1>5. v \in Residues(n) => u = v
    BY OrderFacts DEF Residues
  <1>. HIDE DEF u
  <1>6. /\ mod_mul(r1, u, n) \in Residues(n) /\ mod_mul(r2, u, n) \in Residues(n)
        /\ mod_add(mod_mul(r1, u, n), mod_mul(r2, u, n), n) = mod_mul(mask, u, n)
    BY <1>1, <1>4, Closure, MulDistributes
  <1>7. CASE v \in Residues(n) /\ mod_mul(m, v, n) = 1
    BY <1>2, <1>4, <1>5, <1>6, <1>7, MulAssociates
  <1>8. CASE m = 0 /\ NDEBUG
    <2>1. mask = 0
      BY <1>2, <1>8, NoZeroDivisors
    <2>2. mod_mul(mask, u, n) = 0
      BY <1>4, <2>1, MulByZero
    <2>. QED
      BY <1>4, <1>6, <1>8, <2>2
  <1>. QED
    BY <1>3, <1>7, <1>8

(* Inside a call, the presign in use and the shares it provides.           *)
LEMMA CurrentIsSound ==
  ASSUME IInv, pc \in {"deal1", "invert", "deal2", "multiply"}
  PROVE  /\ current \in ThresholdPresigns
         /\ nonce_of(current) \in Residues(n) /\ nonce_of(current) # 0
         /\ mod_add(current.k1, current.k2, n) = nonce_of(current)
PROOF
  <1>1. call.presign \in PresignIds /\ current # no_presign
    BY DEF IInv, CallIsSound, current
  <1>2. current \in ThresholdPresigns
    BY <1>1 DEF IInv, TypeOK, current
  <1>3. /\ mod_add(current.k1, current.k2, n) = nonce_of(current)
        /\ nonce_of(current) # 0
    BY <1>1 DEF IInv, SharesAreSound, PresignsAreSound, current
  <1>4. current.k1 \in Residues(n) /\ current.k2 \in Residues(n)
    BY <1>2 DEF ThresholdPresigns
  <1>. QED
    BY <1>2, <1>3, <1>4, Closure

LEMMA InvertKeepsIInv ==
  ASSUME IInv, SignInvert
  PROVE  IInv'
PROOF
  <1>1. /\ pc = "invert" /\ pc' = "deal2"
        /\ triple' = no_triple /\ fresh' = FALSE
        /\ UNCHANGED <<keys, presigns, owner, zd, call>>
    BY DEF SignInvert
  <1>2. PICK k1, k2 \in Residues(n) :
          k1 = current.k1 /\ k2 = current.k2
    BY <1>1, CurrentIsSound DEF ThresholdPresigns
  <1>3. PICK k \in Residues(n) :
          k = nonce_of(current) /\ k # 0 /\ k = mod_add(k1, k2, n)
    BY <1>1, <1>2, CurrentIsSound
  <1>4. triple \in BeaverTriples(n) /\ is_triple(triple, n)
    BY <1>1 DEF IInv, TypeOK, LocalsAreSound
  <1>. DEFINE outcomes(r1, r2) ==
         mod_inv_outcomes(masked_nonce(k1, k2, r1, r2, triple), n,
                          NDEBUG, Leftovers)
  <1>5. PICK r1 \in Draws, r2 \in Draws :
          \E v \in outcomes(r1, r2) :
             kinv' = <<mod_mul(r1, v, n), mod_mul(r2, v, n)>>
    BY <1>2 DEF SignInvert
  <1>6. r1 \in Residues(n) /\ r2 \in Residues(n)
    BY DrawFacts
  <1>7. PICK v \in outcomes(r1, r2) :
          kinv' = <<mod_mul(r1, v, n), mod_mul(r2, v, n)>>
    BY <1>5
  <1>8. v \in mod_inv_outcomes(mod_mul(k, mod_add(r1, r2, n), n), n,
                               NDEBUG, Leftovers)
    <2>1. masked_nonce(k1, k2, r1, r2, triple)
            = mod_mul(k, mod_add(r1, r2, n), n)
      BY <1>3, <1>4, <1>6, MaskedNonceIsProduct
    <2>. QED
      BY <1>7, <2>1
  <1>. DEFINE kinv1 == mod_mul(r1, v, n)
              kinv2 == mod_mul(r2, v, n)
              sum   == mod_add(kinv1, kinv2, n)
  <1>9. /\ kinv1 \in Residues(n) /\ kinv2 \in Residues(n)
        /\ mod_mul(k, sum, n) = 1 \/ (NDEBUG /\ sum = 0)
    BY <1>3, <1>6, <1>8, ScaledMaskIsSound
  <1>10. kinv' = <<kinv1, kinv2>>
    BY <1>7
  <1>11. current' = current
    BY <1>1 DEF current
  <1>. HIDE DEF kinv1, kinv2
  <1>12. InverseOrZero'
    <2>1. nonce_of(current)' = k
      BY <1>3, <1>11 DEF nonce_of
    <2>2. mod_add(kinv'[1], kinv'[2], n) = sum
      BY <1>10
    <2>. HIDE DEF sum
    <2>. QED
      BY <1>9, <2>1, <2>2 DEF InverseOrZero
  <1>13. TypeOK'
    BY <1>1, <1>9, <1>10, NoTripleType DEF IInv, TypeOK
  <1>14. SharesAreSound'
    BY <1>1 DEF IInv, SharesAreSound, KeysAreSound, PresignsAreSound,
                PresigningSucceeds
  <1>15. LocalsAreSound'
    BY <1>1, <1>11 DEF IInv, LocalsAreSound
  <1>16. CallIsSound'
    BY <1>1 DEF IInv, CallIsSound
  <1>. QED
    BY <1>12, <1>13, <1>14, <1>15, <1>16 DEF IInv

LEMMA AbortKeepsIInv ==
  ASSUME IInv, SignAbort
  PROVE  IInv'
PROOF
  <1>1. /\ pc = "invert" /\ pc' = "aborted"
        /\ call' = [call EXCEPT !.status = "failed"]
        /\ UNCHANGED <<keys, presigns, owner, zd, triple, fresh, kinv>>
    BY DEF SignAbort
  <1>2. TypeOK'
    BY <1>1 DEF IInv, TypeOK
  <1>3. /\ call'.status = "failed" /\ call'.key = call.key
        /\ call'.presign = call.presign /\ call'.hash = call.hash
    BY <1>1 DEF IInv, TypeOK
  <1>4. SharesAreSound'
    BY <1>1 DEF IInv, SharesAreSound, KeysAreSound, PresignsAreSound,
                PresigningSucceeds
  <1>5. LocalsAreSound' /\ InverseOrZero'
    BY <1>1, <1>3 DEF LocalsAreSound, InverseOrZero
  <1>6. CallIsSound'
    BY <1>1, <1>3 DEF IInv, CallIsSound
  <1>. QED
    BY <1>2, <1>4, <1>5, <1>6 DEF IInv

(* What step E opens is the inverse of the nonce times z + r sk.           *)
LEMMA OpenedIsProduct ==
  ASSUME IInv, pc = "multiply"
  PROVE  /\ mod_add(kinv[1], kinv[2], n) \in Residues(n)
         /\ mod_add(zd[1], zd[2], n) \in Residues(n)
         /\ opened_s \in Residues(n)
         /\ opened_s = mod_mul(mod_add(kinv[1], kinv[2], n),
                               mod_add(zd[1], zd[2], n), n)
PROOF
  <1>1. PICK v1, v2, d1, d2 \in Residues(n) :
          v1 = kinv[1] /\ v2 = kinv[2] /\ d1 = zd[1] /\ d2 = zd[2]
    BY DEF IInv, TypeOK
  <1>2. triple \in BeaverTriples(n) /\ is_triple(triple, n)
    BY DEF IInv, TypeOK, LocalsAreSound
  <1>. DEFINE s == beaver_mul(v1, v2, d1, d2, triple, n)
  <1>3. mod_add(s[1], s[2], n) = mod_mul(mod_add(v1, v2, n), mod_add(d1, d2, n), n)
    BY <1>2, BeaverMulMultiplies, OrderFacts
  <1>4. opened_s = mod_add(s[1], s[2], n)
    BY <1>1 DEF opened_s
  <1>5. mod_add(v1, v2, n) \in Residues(n) /\ mod_add(d1, d2, n) \in Residues(n)
    BY Closure
  <1>6. mod_mul(mod_add(v1, v2, n), mod_add(d1, d2, n), n) \in Residues(n)
    BY <1>5, Closure
  <1>. HIDE DEF s
  <1>. QED
    BY <1>1, <1>3, <1>4, <1>5, <1>6

LEMMA FinishKeepsIInv ==
  ASSUME IInv, SignFinish
  PROVE  IInv'
PROOF
  <1>1. /\ pc = "multiply" /\ pc' = "ready"
        /\ zd' = <<0, 0>> /\ triple' = no_triple /\ fresh' = FALSE
        /\ kinv' = <<0, 0>>
        /\ UNCHANGED <<keys, presigns, owner>>
        /\ call' = IF opened_s = 0 THEN [call EXCEPT !.status = "failed"]
                   ELSE [call EXCEPT
                           !.status = "signed",
                           !.sig = Signature(current.r, threshold_low_s(opened_s, n))]
    BY DEF SignFinish
  <1>2. threshold_low_s(opened_s, n) \in Residues(n) \/ opened_s = 0
    BY <1>1, OpenedIsProduct, OrderFacts DEF threshold_low_s, Residues
  <1>3. current.r \in Residues(n)
    BY <1>1, CurrentIsSound DEF ThresholdPresigns
  <1>4. opened_s = 0 \/ Signature(current.r, threshold_low_s(opened_s, n))
                          \in [r : Residues(n), s : Residues(n)]
    BY <1>2, <1>3 DEF Signature
  <1>5. TypeOK'
    BY <1>1, <1>4, NoTripleType, OrderFacts DEF IInv, TypeOK
  <1>6. /\ call'.status \in {"signed", "failed"} /\ call'.key = call.key
        /\ call'.presign = call.presign /\ call'.hash = call.hash
    BY <1>1 DEF IInv, TypeOK
  <1>7. SharesAreSound'
    BY <1>1 DEF IInv, SharesAreSound, KeysAreSound, PresignsAreSound,
                PresigningSucceeds
  <1>8. LocalsAreSound' /\ InverseOrZero'
    BY <1>1, <1>6 DEF LocalsAreSound, InverseOrZero
  <1>9. CallIsSound'
    BY <1>1, <1>6 DEF IInv, CallIsSound
  <1>. QED
    BY <1>5, <1>7, <1>8, <1>9 DEF IInv

LEMMA NextKeepsIInv == IInv /\ [Next]_vars => IInv'
PROOF
  <1>. SUFFICES ASSUME IInv, [Next]_vars PROVE IInv'
    OBVIOUS
  <1>1. CASE \E i \in KeyIds : ThresholdKeygen(i)
    BY <1>1, KeygenKeepsIInv
  <1>2. CASE \E j \in PresignIds, i \in KeyIds : ThresholdPresign(j, i)
    BY <1>2, PresignKeepsIInv
  <1>3. CASE \E i \in KeyIds, j \in PresignIds, h \in Hashes : SignBegin(i, j, h)
    BY <1>3, BeginKeepsIInv
  <1>4. CASE SignDeal
    BY <1>4, DealKeepsIInv
  <1>5. CASE SignInvert
    BY <1>5, InvertKeepsIInv
  <1>6. CASE SignAbort
    BY <1>6, AbortKeepsIInv
  <1>7. CASE SignFinish
    BY <1>7, FinishKeepsIInv
  <1>8. CASE UNCHANGED vars
    BY <1>8 DEF vars, IInv, TypeOK, SharesAreSound, KeysAreSound,
                PresignsAreSound, PresigningSucceeds, LocalsAreSound,
                InverseOrZero, CallIsSound, current
  <1>. QED
    BY <1>1, <1>2, <1>3, <1>4, <1>5, <1>6, <1>7, <1>8 DEF Next

LEMMA SpecKeepsIInv == Spec => []IInv
PROOF BY InitIInv, NextKeepsIInv, PTL DEF Spec

-----------------------------------------------------------------------------
(* Every variable keeps its type: every scalar the code holds stays a      *)
(* residue below n, however the calls follow each other.                   *)
THEOREM TecdsaTypeCorrect == Spec => []TypeOK
PROOF
  <1>1. IInv => TypeOK
    BY DEF IInv
  <1>. QED
    BY <1>1, SpecKeepsIInv, PTL

(* threshold_keygen and threshold_presign: the key and the presign objects *)
(* always hold shares of the secret and of the nonce they stand for, and   *)
(* threshold_presign never throws.                                         *)
THEOREM TecdsaSharesAreSound == Spec => []SharesAreSound
PROOF
  <1>1. IInv => SharesAreSound
    BY DEF IInv
  <1>. QED
    BY <1>1, SpecKeepsIInv, PTL

(* threshold_sign, steps A to D: the parties' locals always sum to         *)
(* z + r sk, and each multiplication has a genuine triple of its own.      *)
THEOREM TecdsaLocalsAreSound == Spec => []LocalsAreSound
PROOF
  <1>1. IInv => LocalsAreSound
    BY DEF IInv
  <1>. QED
    BY <1>1, SpecKeepsIInv, PTL

(* masked_inverse: shares of the inverse of the nonce, or of zero after an *)
(* inversion that had nothing to invert; never of anything else.           *)
THEOREM TecdsaInverseOrZero == Spec => []InverseOrZero
PROOF
  <1>1. IInv => InverseOrZero
    BY DEF IInv
  <1>. QED
    BY <1>1, SpecKeepsIInv, PTL

(* threshold_sign, step E: it throws exactly when the inversion had        *)
(* nothing to invert or z + r sk is zero.                                  *)
THEOREM TecdsaThrowsWhenDegenerate == Spec => ThrowsWhenDegenerate
PROOF
  <1>. DEFINE ThrowsStep ==
         pc = "multiply" =>
           (call'.status = "failed"
              <=> \/ mod_add(kinv[1], kinv[2], n) = 0
                  \/ mod_add(zd[1], zd[2], n) = 0)
  <1>1. ASSUME IInv, [Next]_vars
        PROVE  [ThrowsStep]_vars
    <2>. SUFFICES ASSUME Next, pc = "multiply"
                  PROVE  call'.status = "failed"
                           <=> \/ mod_add(kinv[1], kinv[2], n) = 0
                               \/ mod_add(zd[1], zd[2], n) = 0
      BY <1>1
    <2>1. SignFinish
      BY DEF Next, ThresholdKeygen, ThresholdPresign, SignBegin, SignDeal,
             SignInvert, SignAbort
    <2>2. call'.status = "failed" <=> opened_s = 0
      BY <1>1, <2>1 DEF SignFinish, IInv, TypeOK
    <2>3. PICK v, d \in Residues(n) :
            /\ v = mod_add(kinv[1], kinv[2], n) /\ d = mod_add(zd[1], zd[2], n)
            /\ opened_s = mod_mul(v, d, n)
      BY <1>1, OpenedIsProduct
    <2>4. mod_mul(v, d, n) = 0 <=> (v = 0 \/ d = 0)
      BY NoZeroDivisors, MulByZero
    <2>. QED
      BY <2>2, <2>3, <2>4
  <1>. QED
    BY <1>1, SpecKeepsIInv, PTL DEF Spec, ThrowsWhenDegenerate

-----------------------------------------------------------------------------
(* What is handed out: a signature that verifies, and the one the standard *)
(* signer computes from the joint secret and the joint nonce, when callers *)
(* pair a presign with the key it was made for.                            *)

(* No presign was made with a nonce whose r is zero: threshold_sign does   *)
(* not test for it, sign_with_hash does.                                   *)
PresignsUsable ==
  \A j \in PresignIds : presigns[j] # no_presign => presigns[j].r # 0

(* A signature is the low form of the solution for the joint secret and    *)
(* the joint nonce of the presign it was made with.                        *)
SignedSolves ==
  call.status = "signed" =>
    \E s \in Residues(n) :
      /\ s # 0
      /\ SolvesFor(s, secret_of(keys[owner[call.presign]]),
                   hash_to_scalar(call.hash, n), current.r, nonce_of(current))
      /\ call.sig = Signature(current.r, normalize_low_s(s, n))

-----------------------------------------------------------------------------
(* Keys and presigns never change once they are made.                      *)
LEMMA MadeObjectsStay ==
  ASSUME IInv, [Next]_vars
  PROVE  /\ \A i \in KeyIds : keys[i] # no_key => keys'[i] = keys[i]
         /\ \A j \in PresignIds : presigns[j] # no_presign =>
              presigns'[j] = presigns[j] /\ owner'[j] = owner[j]
PROOF
  <1>1. CASE \E i \in KeyIds : ThresholdKeygen(i)
    <2>1. PICK i \in KeyIds : ThresholdKeygen(i)
      BY <1>1
    <2>2. PICK v : /\ keys[i] = no_key /\ keys' = [keys EXCEPT ![i] = v]
                   /\ UNCHANGED <<presigns, owner>>
      BY <2>1 DEF ThresholdKeygen
    <2>. QED
      BY <2>2 DEF IInv, TypeOK
  <1>2. CASE \E j \in PresignIds, i \in KeyIds : ThresholdPresign(j, i)
    <2>1. PICK j \in PresignIds, i \in KeyIds : ThresholdPresign(j, i)
      BY <1>2
    <2>2. presigns[j] = no_presign /\ UNCHANGED keys
      BY <2>1 DEF ThresholdPresign
    <2>3. \/ UNCHANGED <<presigns, owner>>
          \/ \E v : /\ presigns' = [presigns EXCEPT ![j] = v]
                    /\ owner' = [owner EXCEPT ![j] = i]
      BY <2>1 DEF ThresholdPresign, ReturnPresign
    <2>. QED
      BY <2>2, <2>3 DEF IInv, TypeOK
  <1>3. CASE UNCHANGED <<keys, presigns, owner>>
    BY <1>3
  <1>4. \/ \E i \in KeyIds : ThresholdKeygen(i)
        \/ \E j \in PresignIds, i \in KeyIds : ThresholdPresign(j, i)
        \/ UNCHANGED <<keys, presigns, owner>>
    BY DEF Next, vars, SignBegin, SignDeal, SignInvert, SignAbort, SignFinish
  <1>. QED
    BY <1>1, <1>2, <1>3, <1>4

(* Once a call has begun, its key, its presign and the key of its presign  *)
(* are made, and the nonce and the secret are scalars that are not zero.   *)
LEMMA CallHasObjects ==
  ASSUME IInv, call.status # "idle"
  PROVE  /\ call.key \in KeyIds /\ keys[call.key] # no_key
         /\ call.presign \in PresignIds /\ current # no_presign
         /\ owner[call.presign] \in KeyIds
         /\ keys[owner[call.presign]] # no_key
         /\ nonce_of(current) \in Residues(n) /\ nonce_of(current) # 0
         /\ current.r = scalar_mul(nonce_of(current), generator).x % n
         /\ current.r \in Residues(n)
         /\ call.hash \in Nat
PROOF
  <1>1. /\ call.key \in KeyIds /\ keys[call.key] # no_key
        /\ call.presign \in PresignIds /\ presigns[call.presign] # no_presign
        /\ call.hash \in Hashes
    BY DEF IInv, CallIsSound
  <1>. DEFINE P == presigns[call.presign]
  <1>2. P \in ThresholdPresigns
    BY <1>1 DEF IInv, TypeOK
  <1>3. /\ owner[call.presign] \in KeyIds /\ keys[owner[call.presign]] # no_key
        /\ nonce_of(P) # 0 /\ P.R = scalar_mul(nonce_of(P), generator)
        /\ P.r = P.R.x % n
    BY <1>1 DEF IInv, SharesAreSound, PresignsAreSound
  <1>4. P.kA \in Residues(n) /\ P.kB \in Residues(n) /\ P.r \in Residues(n)
    BY <1>2 DEF ThresholdPresigns
  <1>5. nonce_of(P) \in Residues(n)
    BY <1>4, Closure DEF nonce_of
  <1>. QED
    BY <1>1, <1>3, <1>4, <1>5, CallerAssumption DEF current

LEMMA SecretIsScalar ==
  ASSUME IInv, NEW i \in KeyIds
  PROVE  /\ secret_of(keys[i]) \in Residues(n)
         /\ keys[i] # no_key => secret_of(keys[i]) # 0
                                /\ keys[i].Q = scalar_mul(secret_of(keys[i]), generator)
         /\ keys[i] = no_key => secret_of(keys[i]) = 0
PROOF
  <1>1. keys[i] \in ThresholdKeys
    BY DEF IInv, TypeOK
  <1>2. keys[i].skA \in Residues(n) /\ keys[i].skB \in Residues(n)
    BY <1>1 DEF ThresholdKeys
  <1>3. secret_of(keys[i]) \in Residues(n)
    BY <1>2, Closure DEF secret_of
  <1>4. keys[i] = no_key => secret_of(keys[i]) = 0
    BY MulByZero, OrderFacts DEF secret_of, no_key
  <1>. QED
    BY <1>3, <1>4 DEF IInv, SharesAreSound, KeysAreSound

(* The step that opens s.                                                  *)
LEMMA FinishSolves ==
  ASSUME IInv, SignFinish
  PROVE  /\ opened_s \in Residues(n)
         /\ opened_s # 0 =>
              SolvesFor(opened_s, secret_of(keys[owner[call.presign]]),
                        hash_to_scalar(call.hash, n), current.r, nonce_of(current))
PROOF
  <1>1. pc = "multiply" /\ call.status = "signing"
    BY DEF SignFinish, IInv, CallIsSound
  <1>2. PICK v, e \in Residues(n) :
          /\ v = mod_add(kinv[1], kinv[2], n) /\ e = mod_add(zd[1], zd[2], n)
          /\ opened_s = mod_mul(v, e, n) /\ opened_s \in Residues(n)
    BY <1>1, OpenedIsProduct
  <1>3. PICK k \in Residues(n) : k = nonce_of(current) /\ k # 0
    BY <1>1, CallHasObjects
  <1>4. mod_mul(k, v, n) = 1 \/ v = 0
    BY <1>1, <1>2, <1>3 DEF IInv, InverseOrZero
  <1>5. opened_s # 0 => mod_mul(k, v, n) = 1
    BY <1>2, <1>4, MulByZero
  <1>6. opened_s # 0 => mod_mul(opened_s, k, n) = e
    <2>1. mod_mul(mod_mul(e, v, n), k, n) = mod_mul(e, mod_mul(v, k, n), n)
      BY MulAssociates
    <2>. QED
      BY <2>1, <1>2, <1>5, MulCommutes, MulByOne
  <1>7. e = mod_add(hash_to_scalar(call.hash, n),
                    mod_mul(current.r, secret_of(keys[owner[call.presign]]), n), n)
    <2>1. call.presign \in PresignIds /\ current # no_presign
      BY <1>1, CallHasObjects
    <2>2. mod_add(current.sk1, current.sk2, n) = secret_of(keys[owner[call.presign]])
      BY <2>1 DEF IInv, SharesAreSound, PresignsAreSound, current
    <2>. QED
      BY <2>2, <1>1, <1>2 DEF IInv, LocalsAreSound
  <1>. QED
    BY <1>2, <1>3, <1>6, <1>7 DEF SolvesFor

LEMMA SameLowS ==
  ASSUME NEW s \in Residues(n)
  PROVE  threshold_low_s(s, n) = normalize_low_s(s, n)
PROOF BY DEF threshold_low_s, normalize_low_s

LEMMA NextKeepsSignedSolves ==
  ASSUME IInv, SignedSolves, [Next]_vars
  PROVE  SignedSolves'
PROOF
  <1>1. CASE SignFinish
    <2>1. /\ UNCHANGED <<keys, presigns, owner>>
          /\ call' = IF opened_s = 0 THEN [call EXCEPT !.status = "failed"]
                     ELSE [call EXCEPT
                             !.status = "signed",
                             !.sig = Signature(current.r, threshold_low_s(opened_s, n))]
      BY <1>1 DEF SignFinish
    <2>2. /\ call'.presign = call.presign /\ call'.hash = call.hash
          /\ call'.status = "signed" =>
               /\ opened_s # 0
               /\ call'.sig = Signature(current.r, threshold_low_s(opened_s, n))
      BY <2>1 DEF IInv, TypeOK
    <2>3. current' = current
      BY <2>1, <2>2 DEF current
    <2>. QED
      BY <2>1, <2>2, <2>3, <1>1, FinishSolves, SameLowS DEF SignedSolves, nonce_of
  <1>2. CASE UNCHANGED call
    <2>1. SUFFICES ASSUME call.status = "signed" PROVE SignedSolves'
      BY <1>2 DEF SignedSolves
    <2>2. /\ call.presign \in PresignIds /\ presigns[call.presign] # no_presign
          /\ owner[call.presign] \in KeyIds /\ keys[owner[call.presign]] # no_key
      BY <2>1, CallHasObjects DEF current
    <2>3. /\ presigns'[call.presign] = presigns[call.presign]
          /\ owner'[call.presign] = owner[call.presign]
          /\ keys'[owner[call.presign]] = keys[owner[call.presign]]
      BY <2>2, MadeObjectsStay
    <2>. QED
      BY <1>2, <2>1, <2>3 DEF SignedSolves, current, nonce_of, secret_of
  <1>3. CASE call'.status # "signed"
    BY <1>3 DEF SignedSolves
  <1>4. SignFinish \/ UNCHANGED call \/ call'.status # "signed"
    <2>1. SignAbort => call'.status = "failed"
      BY DEF SignAbort, IInv, TypeOK
    <2>2. ASSUME NEW i \in KeyIds, NEW j \in PresignIds, NEW h \in Hashes,
                 SignBegin(i, j, h)
          PROVE  call'.status = "signing"
      BY <2>2 DEF SignBegin
    <2>. QED
      BY <2>1, <2>2 DEF Next, vars, ThresholdKeygen, ThresholdPresign, SignDeal,
                        SignInvert
  <1>. QED
    BY <1>1, <1>2, <1>3, <1>4

LEMMA SpecKeepsSignedSolves == Spec => [](IInv /\ SignedSolves)
PROOF
  <1>1. Init => SignedSolves
    BY DEF Init, no_call, SignedSolves
  <1>2. IInv /\ SignedSolves /\ [Next]_vars => SignedSolves'
    BY NextKeepsSignedSolves
  <1>. QED
    BY <1>1, <1>2, SpecKeepsIInv, PTL DEF Spec

-----------------------------------------------------------------------------
(* Every signature threshold_sign returns verifies under the public key it *)
(* was called with, unless its r is zero, as long as callers pass the key  *)
(* the presign was made for.                                               *)
THEOREM TecdsaSignedVerifies ==
  ASSUME ~AnyKey
  PROVE  Spec => []SignedVerifies
PROOF
  <1>1. ASSUME IInv, SignedSolves, call.status = "signed"
        PROVE  verify(keys[call.key].Q, call.hash, call.sig.r, call.sig.s)
                 <=> call.sig.r # 0
    <2>1. /\ call.key \in KeyIds /\ keys[call.key] # no_key
          /\ call.hash \in Nat /\ owner[call.presign] = call.key
      BY <1>1, CallHasObjects DEF IInv, CallIsSound
    <2>2. PICK d \in Residues(n) :
            /\ d = secret_of(keys[call.key])
            /\ keys[call.key].Q = scalar_mul(d, generator)
      BY <1>1, <2>1, SecretIsScalar
    <2>3. PICK k, r \in Residues(n) :
            /\ k = nonce_of(current) /\ k # 0 /\ r = current.r
            /\ r = scalar_mul(k, generator).x % n
      BY <1>1, CallHasObjects
    <2>4. PICK s \in Residues(n) :
            /\ s # 0 /\ SolvesFor(s, d, hash_to_scalar(call.hash, n), r, k)
            /\ call.sig = Signature(r, normalize_low_s(s, n))
      BY <1>1, <2>1, <2>2, <2>3 DEF SignedSolves
    <2>5. /\ call.sig.r = r /\ call.sig.s \in {s, mod_neg(s, n)}
      BY <2>4, LowSIsSolutionOrNegative DEF Signature
    <2>6. /\ verify(scalar_mul(d, generator), call.hash, r, s) <=> r # 0
          /\ verify(scalar_mul(d, generator), call.hash, r, mod_neg(s, n)) <=> r # 0
      BY <2>1, <2>3, <2>4, SolutionVerifies
    <2>. QED
      BY <2>2, <2>5, <2>6
  <1>2. IInv /\ SignedSolves => SignedVerifies
    BY <1>1 DEF SignedVerifies
  <1>. QED
    BY <1>2, SpecKeepsSignedSolves, PTL

-----------------------------------------------------------------------------
(* The refinement.                                                         *)

LEMMA ScalarsInRange ==
  ASSUME NEW v \in Residues(n), v # 0
  PROVE  v \in 1..(n - 1)
PROOF BY OrderFacts DEF Residues

abstract_secret == [i \in KeyIds |-> secret_of(keys[i])]

abstract_call ==
  [status |-> call.status, key |-> call.key, hash |-> call.hash,
   nonce |-> IF call.status = "idle" THEN 0 ELSE nonce_of(current),
   sig |-> call.sig]

LEMMA InitRefines == Init => Std!Init
PROOF
  <1>. SUFFICES ASSUME Init PROVE Std!Init
    OBVIOUS
  <1>1. secret_of(no_key) = 0
    BY MulByZero, OrderFacts DEF secret_of, no_key
  <1>2. \A i \in KeyIds : keys[i] = no_key
    BY DEF Init
  <1>3. call = no_call
    BY DEF Init
  <1>. QED
    BY <1>1, <1>2, <1>3 DEF Std!Init, Std!no_call, no_call

(* What the abstract signer sees of a step that makes no key and leaves    *)
(* the call alone: nothing.                                                *)
LEMMA AbstractCallStays ==
  ASSUME IInv, [Next]_vars, UNCHANGED call
  PROVE  abstract_call' = abstract_call
PROOF
  <1>1. CASE call.status = "idle"
    BY <1>1 DEF abstract_call
  <1>2. CASE call.status # "idle"
    <2>1. call.presign \in PresignIds /\ presigns[call.presign] # no_presign
      BY <1>2, CallHasObjects DEF current
    <2>2. presigns'[call.presign] = presigns[call.presign]
      BY <2>1, MadeObjectsStay
    <2>. QED
      BY <2>2 DEF abstract_call, current, nonce_of
  <1>. QED
    BY <1>1, <1>2

LEMMA KeygenRefines ==
  ASSUME IInv, NEW i \in KeyIds, ThresholdKeygen(i)
  PROVE  Std!Generate(i)
PROOF
  <1>1. PICK skA, skB \in NonzeroDraws :
          /\ pc = "ready" /\ keys[i] = no_key
          /\ keys' = [keys EXCEPT ![i] =
                        [skA |-> skA, skB |-> skB,
                         Q |-> scalar_mul(mod_mul(skA, skB, n), generator)]]
          /\ UNCHANGED <<presigns, owner, call>>
    BY DEF ThresholdKeygen
  <1>2. PICK d \in Residues(n) : d = mod_mul(skA, skB, n)
    BY DrawFacts, Closure
  <1>3. d # 0
    BY <1>2, DrawFacts, NoZeroDivisors
  <1>4. d \in 1..(n - 1)
    BY <1>3, ScalarsInRange
  <1>5. secret_of(keys[i]) = 0 /\ secret_of(keys'[i]) = d
    <2>1. keys'[i].skA = skA /\ keys'[i].skB = skB
      BY <1>1 DEF IInv, TypeOK
    <2>. QED
      BY <2>1, <1>1, <1>2, SecretIsScalar DEF secret_of
  <1>6. \A i2 \in KeyIds : i2 # i => keys'[i2] = keys[i2]
    BY <1>1 DEF IInv, TypeOK
  <1>7. abstract_secret' = [abstract_secret EXCEPT ![i] = d]
    <2>1. ASSUME NEW i2 \in KeyIds
          PROVE  secret_of(keys'[i2]) = IF i2 = i THEN d ELSE secret_of(keys[i2])
      BY <2>1, <1>5, <1>6
    <2>. QED
      BY <2>1 DEF abstract_secret, secret_of
  <1>8. abstract_call' = abstract_call
    BY <1>1, AbstractCallStays DEF Next
  <1>9. call.status # "signing"
    BY <1>1 DEF IInv, CallIsSound
  <1>. QED
    BY <1>4, <1>5, <1>7, <1>8, <1>9
    DEF Std!Generate, abstract_secret, abstract_call

LEMMA AbstractSecretStays ==
  ASSUME UNCHANGED keys
  PROVE  abstract_secret' = abstract_secret
PROOF BY DEF abstract_secret, secret_of

LEMMA BeginRefines ==
  ASSUME IInv, NEW i \in KeyIds, NEW j \in PresignIds, NEW h \in Hashes,
         SignBegin(i, j, h)
  PROVE  Std!Sign(i, h)
PROOF
  <1>1. /\ pc = "ready" /\ keys[i] # no_key /\ presigns[j] # no_presign
        /\ call' = [status |-> "signing", key |-> i, presign |-> j, hash |-> h,
                    sig |-> no_signature]
        /\ UNCHANGED <<keys, presigns, owner>>
    BY DEF SignBegin
  <1>2. presigns[j] \in ThresholdPresigns /\ nonce_of(presigns[j]) # 0
    BY <1>1 DEF IInv, TypeOK, SharesAreSound, PresignsAreSound
  <1>3. nonce_of(presigns[j]) \in Residues(n)
    BY <1>2, Closure DEF nonce_of, ThresholdPresigns
  <1>4. nonce_of(presigns[j]) \in 1..(n - 1)
    BY <1>2, <1>3, ScalarsInRange
  <1>5. abstract_call' = [status |-> "signing", key |-> i, hash |-> h,
                          nonce |-> nonce_of(presigns[j]), sig |-> no_signature]
    BY <1>1 DEF abstract_call, current, nonce_of
  <1>6. abstract_secret' = abstract_secret
    BY <1>1, AbstractSecretStays
  <1>7. abstract_secret[i] # 0
    BY <1>1, SecretIsScalar DEF abstract_secret
  <1>8. abstract_call.status # "signing"
    BY <1>1 DEF abstract_call, IInv, CallIsSound
  <1>. QED
    BY <1>4, <1>5, <1>6, <1>7, <1>8
    DEF Std!Sign, abstract_secret, abstract_call

(* An exception, and the assert of mod_inv.                                *)
LEMMA FailureRefines ==
  ASSUME IInv, call.status = "signing", UNCHANGED <<keys, presigns, owner>>,
         call' = [call EXCEPT !.status = "failed"]
  PROVE  Std!Fail
PROOF
  <1>1. /\ call'.status = "failed" /\ call'.key = call.key
        /\ call'.presign = call.presign /\ call'.hash = call.hash
        /\ call'.sig = call.sig
    BY DEF IInv, TypeOK
  <1>2. current' = current
    BY <1>1 DEF current
  <1>3. abstract_call' = [abstract_call EXCEPT !.status = "failed"]
    BY <1>1, <1>2 DEF abstract_call, nonce_of
  <1>4. abstract_secret' = abstract_secret
    BY AbstractSecretStays
  <1>5. abstract_call.nonce # 0
    BY CallHasObjects DEF abstract_call
  <1>. QED
    BY <1>3, <1>4, <1>5 DEF Std!Fail, abstract_call, abstract_secret

(* The signature that is opened is the one the standard signer computes.   *)
LEMMA OpenedIsStandard ==
  ASSUME ~AnyKey, IInv, PresignsUsable, SignFinish, opened_s # 0
  PROVE  /\ Signature(current.r, threshold_low_s(opened_s, n))
              = Standard[<<secret_of(keys[call.key]), call.hash, nonce_of(current)>>]
         /\ Signature(current.r, threshold_low_s(opened_s, n)) # no_signature
PROOF
  <1>1. call.status = "signing"
    BY DEF SignFinish, IInv, CallIsSound
  <1>2. /\ call.key \in KeyIds /\ keys[call.key] # no_key
        /\ call.hash \in Hashes /\ call.hash \in Nat
        /\ owner[call.presign] = call.key
    BY <1>1, CallerAssumption DEF IInv, CallIsSound
  <1>3. PICK d \in 1..(n - 1) : d = secret_of(keys[call.key])
    BY <1>2, SecretIsScalar, ScalarsInRange
  <1>4. PICK r \in Residues(n) : r = current.r /\ r # 0
    BY <1>1, CallHasObjects DEF PresignsUsable, current
  <1>5. PICK k \in 1..(n - 1) :
          k = nonce_of(current) /\ r = scalar_mul(k, generator).x % n
    BY <1>1, <1>4, CallHasObjects, ScalarsInRange
  <1>6. PICK s \in Residues(n) :
          /\ s = opened_s /\ s # 0
          /\ SolvesFor(s, d, hash_to_scalar(call.hash, n), r, k)
    BY <1>2, <1>3, <1>4, <1>5, FinishSolves
  <1>7. sign_with_nonce(d, call.hash, k) = Signature(r, normalize_low_s(s, n))
    BY <1>2, <1>4, <1>5, <1>6, SignWithNonceSolves
  <1>8. Standard[<<d, call.hash, k>>] = sign_with_nonce(d, call.hash, k)
    BY <1>2 DEF Standard
  <1>9. Signature(r, normalize_low_s(s, n)) # no_signature
    BY <1>4 DEF Signature, no_signature
  <1>. QED
    BY <1>3, <1>4, <1>5, <1>6, <1>7, <1>8, <1>9, SameLowS

LEMMA FinishRefines ==
  ASSUME ~AnyKey, IInv, PresignsUsable, SignFinish
  PROVE  Std!Return \/ Std!Fail
PROOF
  <1>1. /\ UNCHANGED <<keys, presigns, owner>>
        /\ call' = IF opened_s = 0 THEN [call EXCEPT !.status = "failed"]
                   ELSE [call EXCEPT
                           !.status = "signed",
                           !.sig = Signature(current.r, threshold_low_s(opened_s, n))]
        /\ call.status = "signing"
    BY DEF SignFinish, IInv, CallIsSound
  <1>2. CASE opened_s = 0
    BY <1>1, <1>2, FailureRefines
  <1>3. CASE opened_s # 0
    <2>1. PICK sig :
            /\ sig = Signature(current.r, threshold_low_s(opened_s, n))
            /\ sig = Standard[<<secret_of(keys[call.key]), call.hash, nonce_of(current)>>]
            /\ sig # no_signature
      BY <1>3, OpenedIsStandard
    <2>2. /\ call'.status = "signed" /\ call'.key = call.key
          /\ call'.presign = call.presign /\ call'.hash = call.hash
          /\ call'.sig = sig
      BY <1>1, <1>3, <2>1 DEF IInv, TypeOK
    <2>3. current' = current
      BY <1>1, <2>2 DEF current
    <2>4. abstract_call' = [abstract_call EXCEPT !.status = "signed", !.sig = sig]
      <3>1. call.status # "idle" /\ call'.status # "idle"
        BY <1>1, <2>2
      <3>2. nonce_of(current)' = nonce_of(current)
        BY <2>3 DEF nonce_of
      <3>3. PICK r : /\ r = abstract_call
                     /\ r = [status |-> "signing", key |-> call.key,
                             hash |-> call.hash, nonce |-> nonce_of(current),
                             sig |-> call.sig]
        BY <1>1, <3>1 DEF abstract_call
      <3>4. PICK q : /\ q = abstract_call'
                     /\ q = [status |-> "signed", key |-> call.key,
                             hash |-> call.hash, nonce |-> nonce_of(current),
                             sig |-> sig]
        BY <2>2, <3>1, <3>2 DEF abstract_call
      <3>. DEFINE fields == {"status", "key", "hash", "nonce", "sig"}
                  updated == [x \in fields |-> IF x = "sig" THEN sig
                                               ELSE IF x = "status" THEN "signed"
                                               ELSE r[x]]
      <3>5. DOMAIN r = fields
        BY <3>3
      <3>6. [r EXCEPT !.status = "signed", !.sig = sig]
              = [x \in DOMAIN r |-> IF x = "sig" THEN sig
                                    ELSE IF x = "status" THEN "signed" ELSE r[x]]
        OBVIOUS
      <3>7. q = updated
        BY <3>3, <3>4
      <3>. QED
        BY <3>3, <3>4, <3>5, <3>6, <3>7
    <2>5. abstract_secret' = abstract_secret
      BY <1>1, AbstractSecretStays
    <2>6. call.key \in KeyIds
      BY <1>1, CallHasObjects
    <2>7. sig = Standard[<<abstract_secret[call.key], abstract_call.hash,
                           abstract_call.nonce>>]
      BY <1>1, <2>1, <2>6 DEF abstract_secret, abstract_call
    <2>8. /\ abstract_call.status = "signing" /\ abstract_call.key = call.key
          /\ abstract_call.nonce # 0
      BY <1>1, CallHasObjects DEF abstract_call
    <2>9. abstract_call'.status = "signed" /\ abstract_call'.sig = sig
      BY <2>2 DEF abstract_call
    <2>10. Std!Return
      BY <2>1, <2>4, <2>5, <2>7, <2>8, <2>9
      DEF Std!Return, abstract_call, abstract_secret
    <2>. QED
      BY <2>10
  <1>. QED
    BY <1>2, <1>3

LEMMA NextRefines ==
  ASSUME ~AnyKey, IInv, PresignsUsable, [Next]_vars
  PROVE  [Std!Next]_<<abstract_secret, abstract_call>>
PROOF
  <1>1. ASSUME NEW i \in KeyIds, ThresholdKeygen(i) PROVE Std!Next
    BY <1>1, KeygenRefines DEF Std!Next
  <1>2. ASSUME NEW i \in KeyIds, NEW j \in PresignIds, NEW h \in Hashes,
               SignBegin(i, j, h)
        PROVE  Std!Next
    BY <1>2, BeginRefines DEF Std!Next
  <1>3. ASSUME SignAbort PROVE Std!Next
    <2>1. /\ call.status = "signing" /\ UNCHANGED <<keys, presigns, owner>>
          /\ call' = [call EXCEPT !.status = "failed"]
      BY <1>3 DEF SignAbort, IInv, CallIsSound
    <2>. QED
      BY <2>1, FailureRefines DEF Std!Next
  <1>4. ASSUME SignFinish PROVE Std!Next
    BY <1>4, FinishRefines DEF Std!Next
  <1>5. ASSUME UNCHANGED <<keys, call>>
        PROVE  UNCHANGED <<abstract_secret, abstract_call>>
    BY <1>5, AbstractSecretStays, AbstractCallStays
  <1>6. \/ \E i \in KeyIds : ThresholdKeygen(i)
        \/ \E i \in KeyIds, j \in PresignIds, h \in Hashes : SignBegin(i, j, h)
        \/ SignAbort \/ SignFinish
        \/ UNCHANGED <<keys, call>>
    BY DEF Next, vars, ThresholdPresign, SignDeal, SignInvert
  <1>. QED
    BY <1>1, <1>2, <1>3, <1>4, <1>5, <1>6

(* The two-party signer implements the standard signer: each of its steps  *)
(* is a step of a signer that holds the joint secret, or none at all, as   *)
(* long as callers pass the key a presign was made for and no presign has  *)
(* a nonce whose r is zero.                                                *)
THEOREM TecdsaImplementsStandardSigner ==
  ASSUME ~AnyKey
  PROVE  Spec /\ []PresignsUsable => ImplementsStandardSigner
PROOF
  <1>1. IInv /\ PresignsUsable /\ [Next]_vars
          => [Std!Next]_<<abstract_secret, abstract_call>>
    BY NextRefines
  <1>2. [Std!Next]_<<abstract_secret, abstract_call>>
          => [Std!Next]_(Std!abstract_vars)
    BY DEF Std!abstract_vars, abstract_secret, abstract_call
  <1>. QED
    BY <1>1, <1>2, InitRefines, SpecKeepsIInv, PTL
    DEF Spec, ImplementsStandardSigner, Std!Spec
=============================================================================
