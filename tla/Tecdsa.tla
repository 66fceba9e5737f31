------------------------------- MODULE Tecdsa -------------------------------
(***************************************************************************)
(* Two-party threshold ECDSA (include/tecdsa.hpp, src/tecdsa.cpp): key     *)
(* generation, presigning and signing over secret shares, with the two     *)
(* Beaver triples a signature consumes.  One process runs both parties, so *)
(* a step is a stretch of the code between two sets of random draws.       *)
(*                                                                         *)
(* The variables hold what the caller holds: the key and presign objects   *)
(* the three functions return.  pc, zd, triple and kinv are the locals of  *)
(* the call to threshold_sign in progress, zero outside it; fresh is a     *)
(* history of its triple.                                                  *)
(***************************************************************************)
EXTENDS Ecdsa, Beaver

CONSTANTS KeyIds,        \* the ThresholdKey objects of the caller
          PresignIds,    \* the ThresholdPresign objects of the caller
          Hashes,        \* the digests it signs
          NonzeroDraws,  \* what uniform_nonzero_below(n) may draw
          Draws,         \* what uniform_below(n) may draw
          TripleDraws,   \* what it may draw for a triple
          NDEBUG,        \* whether the build strips assert
          Leftovers,     \* what a failed mpz_invert may leave in its result
          AnyKey,        \* whether callers pair a presign with any key
          None           \* no key, no presign

ASSUME DrawsAssumption ==
  /\ NonzeroDraws \subseteq 1..(n - 1)
  /\ Draws \subseteq Residues(n) /\ TripleDraws \subseteq Residues(n)

(* GMP's manual leaves that result undefined; GMP returns before it writes *)
(* to it, so that mod_inv's r keeps the 0 it was constructed with.         *)
ASSUME LeftoversAssumption == Leftovers \subseteq Nat

ASSUME CallerAssumption ==
  /\ Hashes \subseteq Nat
  /\ NDEBUG \in BOOLEAN /\ AnyKey \in BOOLEAN
  /\ None \notin KeyIds /\ None \notin PresignIds

VARIABLES keys,      \* keys[i]: a ThresholdKey
          presigns,  \* presigns[j]: a ThresholdPresign
          owner,     \* history: the key presigns[j] was made for
          pc,        \* the next stretch of threshold_sign
          zd,        \* <<zd1, zd2>>: shares of z + r sk
          triple,    \* the triple of the next Beaver multiplication
          fresh,     \* history: no multiplication has used triple
          kinv,      \* <<kinv1, kinv2>>
          call       \* the last call to threshold_sign and its outcome

locals == <<pc, zd, triple, fresh, kinv>>
vars == <<keys, presigns, owner, pc, zd, triple, fresh, kinv, call>>

ThresholdKeys ==
  [skA : Residues(n), skB : Residues(n), Q : AffinePoints]

ThresholdPresigns ==
  [kA : Residues(n), kB : Residues(n), R : AffinePoints, r : Residues(n),
   sk1 : Residues(n), sk2 : Residues(n), k1 : Residues(n), k2 : Residues(n)]

(* Default-constructed structs: no such object has been made yet. *)
no_key == [skA |-> 0, skB |-> 0, Q |-> identity]
no_presign == [kA |-> 0, kB |-> 0, R |-> identity, r |-> 0,
               sk1 |-> 0, sk2 |-> 0, k1 |-> 0, k2 |-> 0]

no_call == [status |-> "idle", key |-> None, presign |-> None, hash |-> 0,
            sig |-> no_signature]

TypeOK ==
  /\ keys \in [KeyIds -> ThresholdKeys]
  /\ presigns \in [PresignIds -> ThresholdPresigns]
  /\ owner \in [PresignIds -> KeyIds \cup {None}]
  /\ pc \in {"ready", "deal1", "invert", "deal2", "multiply", "aborted",
             "no presign"}
  /\ zd \in Residues(n) \X Residues(n)
  /\ triple \in BeaverTriples(n) /\ fresh \in BOOLEAN
  /\ kinv \in Residues(n) \X Residues(n)
  /\ call \in [status : {"idle", "signing", "signed", "failed"},
               key : KeyIds \cup {None}, presign : PresignIds \cup {None},
               hash : Hashes \cup {0},
               sig : [r : Residues(n), s : Residues(n)]]

Init ==
  /\ keys = [i \in KeyIds |-> no_key]
  /\ presigns = [j \in PresignIds |-> no_presign]
  /\ owner = [j \in PresignIds |-> None]
  /\ pc = "ready"
  /\ zd = <<0, 0>> /\ triple = no_triple /\ fresh = FALSE /\ kinv = <<0, 0>>
  /\ call = no_call

-----------------------------------------------------------------------------
(* Plausible slips in the code below, for the mutation runs. *)

presign_of_swapped_difference(key, kA, kB, sk1, k1) ==
  LET k  == mod_mul(kA, kB, n)
      R  == scalar_mul(k, generator)
      sk == mod_mul(key.skA, key.skB, n)
  IN  [kA |-> kA, kB |-> kB, R |-> R, r |-> R.x % n,
       sk1 |-> sk1, sk2 |-> mod_sub(sk1, sk, n),
       k1 |-> k1, k2 |-> mod_sub(k, k1, n)]

SignBegin_adding_z_twice(i, j, h) ==
  /\ pc = "ready"
  /\ keys[i] # no_key /\ presigns[j] # no_presign
  /\ AnyKey \/ owner[j] = i
  /\ zd' = <<mod_add(hash_to_scalar(h, n),
                     mod_mul(presigns[j].r, presigns[j].sk1, n), n),
             mod_add(hash_to_scalar(h, n),
                     mod_mul(presigns[j].r, presigns[j].sk2, n), n)>>
  /\ pc' = "deal1"
  /\ call' = [status |-> "signing", key |-> i, presign |-> j, hash |-> h,
              sig |-> no_signature]
  /\ UNCHANGED <<keys, presigns, owner, triple, fresh, kinv>>

threshold_low_s_of_wrong_half(s, m) == IF s > m \div 2 THEN s ELSE m - s

-----------------------------------------------------------------------------
ThresholdKeygen(i) ==
  /\ pc = "ready"
  /\ keys[i] = no_key
  /\ \E skA, skB \in NonzeroDraws :
        keys' = [keys EXCEPT ![i] =
                   [skA |-> skA, skB |-> skB,
                    Q |-> scalar_mul(mod_mul(skA, skB, n), generator)]]
  /\ UNCHANGED <<presigns, owner, locals, call>>

(* What threshold_presign computes. *)
presign_of(key, kA, kB, sk1, k1) ==
  LET k  == mod_mul(kA, kB, n)
      R  == scalar_mul(k, generator)
      sk == mod_mul(key.skA, key.skB, n)
  IN  [kA |-> kA, kB |-> kB, R |-> R, r |-> R.x % n,
       sk1 |-> sk1, sk2 |-> mod_sub(sk, sk1, n),
       k1 |-> k1, k2 |-> mod_sub(k, k1, n)]

(* It returns the presign, or throws when R is at infinity, where the      *)
(* model stops.                                                            *)
ReturnPresign(j, i, made) ==
  IF made.R.infinity
  THEN pc' = "no presign" /\ UNCHANGED <<presigns, owner>>
  ELSE /\ presigns' = [presigns EXCEPT ![j] = made]
       /\ owner' = [owner EXCEPT ![j] = i]
       /\ UNCHANGED pc

(* A slip: the nonce's shares may be zero. *)
ThresholdPresign_with_zero_shares(j, i) ==
  /\ pc = "ready"
  /\ keys[i] # no_key /\ presigns[j] = no_presign
  /\ \E kA, kB \in NonzeroDraws \cup {0}, sk1, k1 \in Draws :
        ReturnPresign(j, i, presign_of(keys[i], kA, kB, sk1, k1))
  /\ UNCHANGED <<keys, zd, triple, fresh, kinv, call>>

ThresholdPresign(j, i) ==
  /\ pc = "ready"
  /\ keys[i] # no_key /\ presigns[j] = no_presign
  /\ \E kA, kB \in NonzeroDraws, sk1, k1 \in Draws :
        ReturnPresign(j, i, presign_of(keys[i], kA, kB, sk1, k1))
  /\ UNCHANGED <<keys, zd, triple, fresh, kinv, call>>

(* Steps A and B of threshold_sign.  The key argument is only recorded:    *)
(* the code ignores it.                                                    *)
SignBegin(i, j, h) ==
  /\ pc = "ready"
  /\ keys[i] # no_key /\ presigns[j] # no_presign
  /\ AnyKey \/ owner[j] = i
  /\ zd' = <<mod_add(hash_to_scalar(h, n),
                     mod_mul(presigns[j].r, presigns[j].sk1, n), n),
             mod_mul(presigns[j].r, presigns[j].sk2, n)>>
  /\ pc' = "deal1"
  /\ call' = [status |-> "signing", key |-> i, presign |-> j, hash |-> h,
              sig |-> no_signature]
  /\ UNCHANGED <<keys, presigns, owner, triple, fresh, kinv>>

(* generate_triple(rng, n), with every draw the generator may make. *)
FreshTriples ==
  {generate_triple(a, b, a1, b1, c1, n) : a, b, a1, b1, c1 \in TripleDraws}

(* A slip: the second multiplication takes the triple of the first. *)
SignDeal_once ==
  /\ pc \in {"deal1", "deal2"}
  /\ IF pc = "deal1" THEN triple' \in FreshTriples /\ fresh' = TRUE
     ELSE UNCHANGED <<triple, fresh>>
  /\ pc' = IF pc = "deal1" THEN "invert" ELSE "multiply"
  /\ UNCHANGED <<keys, presigns, owner, zd, kinv, call>>

(* A fresh triple for each of the two Beaver multiplications of a call. *)
SignDeal ==
  /\ pc \in {"deal1", "deal2"}
  /\ triple' \in FreshTriples /\ fresh' = TRUE
  /\ pc' = IF pc = "deal1" THEN "invert" ELSE "multiply"
  /\ UNCHANGED <<keys, presigns, owner, zd, kinv, call>>

(* The presign of the call in progress. *)
current == presigns[call.presign]

(* The opened product of the nonce and the mask r1 + r2. *)
masked_nonce(k1, k2, r1, r2, T) ==
  LET m == beaver_mul(k1, k2, r1, r2, T, n) IN mod_add(m[1], m[2], n)

(* Step C: masked_inverse, whose triple is then gone. *)
SignInvert ==
  /\ pc = "invert"
  /\ \E r1, r2 \in Draws :
       \E m \in {masked_nonce(current.k1, current.k2, r1, r2, triple)} :
       \E m_inv \in mod_inv_outcomes(m, n, NDEBUG, Leftovers) :
          kinv' = <<mod_mul(r1, m_inv, n), mod_mul(r2, m_inv, n)>>
  /\ triple' = no_triple /\ fresh' = FALSE
  /\ pc' = "deal2"
  /\ UNCHANGED <<keys, presigns, owner, zd, call>>

(* Step C when the masked nonce is zero and the assert of mod_inv stops    *)
(* the program.                                                            *)
SignAbort ==
  /\ pc = "invert"
  /\ \E r1, r2 \in Draws :
       \E m \in {masked_nonce(current.k1, current.k2, r1, r2, triple)} :
          mod_inv_outcomes(m, n, NDEBUG, Leftovers) = {}
  /\ pc' = "aborted"
  /\ call' = [call EXCEPT !.status = "failed"]
  /\ UNCHANGED <<keys, presigns, owner, zd, triple, fresh, kinv>>

(* Steps D and E. *)
opened_s ==
  LET s == beaver_mul(kinv[1], kinv[2], zd[1], zd[2], triple, n)
  IN  mod_add(s[1], s[2], n)

(* tecdsa.cpp has a normalize_low_s of its own. *)
threshold_low_s(s, m) == IF s > m \div 2 THEN m - s ELSE s

(* A slip: s = 0 is normalised and returned. *)
SignFinish_without_s_test ==
  /\ pc = "multiply"
  /\ call' = [call EXCEPT
                !.status = "signed",
                !.sig = Signature(current.r, threshold_low_s(opened_s, n))]
  /\ pc' = "ready"
  /\ zd' = <<0, 0>> /\ triple' = no_triple /\ fresh' = FALSE /\ kinv' = <<0, 0>>
  /\ UNCHANGED <<keys, presigns, owner>>

(* A slip: on s = 0 the multiplication is repeated with another triple. *)
SignFinish_retrying ==
  /\ pc = "multiply"
  /\ call' = IF opened_s = 0 THEN call
             ELSE [call EXCEPT
                     !.status = "signed",
                     !.sig = Signature(current.r, threshold_low_s(opened_s, n))]
  /\ pc' = IF opened_s = 0 THEN "deal2" ELSE "ready"
  /\ UNCHANGED <<keys, presigns, owner, zd, triple, fresh, kinv>>

SignFinish ==
  /\ pc = "multiply"
  /\ call' = IF opened_s = 0 THEN [call EXCEPT !.status = "failed"]
             ELSE [call EXCEPT
                     !.status = "signed",
                     !.sig = Signature(current.r, threshold_low_s(opened_s, n))]
  /\ pc' = "ready"
  /\ zd' = <<0, 0>> /\ triple' = no_triple /\ fresh' = FALSE /\ kinv' = <<0, 0>>
  /\ UNCHANGED <<keys, presigns, owner>>

Next ==
  \/ \E i \in KeyIds : ThresholdKeygen(i)
  \/ \E j \in PresignIds, i \in KeyIds : ThresholdPresign(j, i)
  \/ \E i \in KeyIds, j \in PresignIds, h \in Hashes : SignBegin(i, j, h)
  \/ SignDeal
  \/ SignInvert
  \/ SignAbort
  \/ SignFinish

(* The code of a call is straight-line and waits for nothing: a call in    *)
(* progress takes its next step.                                           *)
CallStep == SignDeal \/ SignInvert \/ SignAbort \/ SignFinish

Spec == Init /\ [][Next]_vars /\ WF_vars(CallStep)

-----------------------------------------------------------------------------
(* The secret a key stands for, and the nonce a presign stands for.        *)
secret_of(key) == mod_mul(key.skA, key.skB, n)
nonce_of(presign) == mod_mul(presign.kA, presign.kB, n)

(* Every key made has the public key of its own two multiplicative shares, *)
(* and a secret that is not zero (threshold_keygen).                       *)
KeysAreSound ==
  \A i \in KeyIds : keys[i] # no_key =>
    /\ secret_of(keys[i]) # 0
    /\ keys[i].Q = scalar_mul(secret_of(keys[i]), generator)

(* Every presign made holds additive shares of the secret of the key it    *)
(* was made for, additive shares of its own nonce, and the point and the x *)
(* coordinate of that nonce, whatever keys and presigns are made around it *)
(* (threshold_presign, the share conversion).                              *)
PresignsAreSound ==
  \A j \in PresignIds : presigns[j] # no_presign =>
    LET made == presigns[j]
    IN  /\ owner[j] \in KeyIds /\ keys[owner[j]] # no_key
        /\ mod_add(made.sk1, made.sk2, n) = secret_of(keys[owner[j]])
        /\ mod_add(made.k1, made.k2, n) = nonce_of(made)
        /\ nonce_of(made) # 0
        /\ made.R = scalar_mul(nonce_of(made), generator)
        /\ made.r = made.R.x % n

(* No share of a nonce is zero, so that threshold_presign never throws for *)
(* want of a nonce (threshold_presign, "R at infinity").                   *)
PresigningSucceeds == pc # "no presign"

(* The three together: whatever has been made and however it is used, the  *)
(* caller holds keys and presigns with the shares they stand for.          *)
SharesAreSound == KeysAreSound /\ PresignsAreSound /\ PresigningSucceeds

(* Between the steps of a call the parties hold additive shares of         *)
(* z + r sk, and for the multiplication to come a genuine triple that no   *)
(* other has used: opened twice with one triple, the masks would show the  *)
(* difference of two secrets (steps A to D of threshold_sign).             *)
LocalsAreSound ==
  /\ pc \in {"invert", "multiply"} => is_triple(triple, n) /\ fresh
  /\ call.status = "signing" =>
    /\ call.presign \in PresignIds /\ current # no_presign
    /\ mod_add(zd[1], zd[2], n)
         = mod_add(hash_to_scalar(call.hash, n),
                   mod_mul(current.r, mod_add(current.sk1, current.sk2, n), n),
                   n)

(* masked_inverse returns shares of the inverse of the nonce or, when the  *)
(* mask r1 + r2 was zero, so that mod_inv had nothing to invert, and no    *)
(* assert stopped it, shares of zero: nothing else, whatever GMP left in   *)
(* the undefined result.                                                   *)
InverseOrZero ==
  pc \in {"deal2", "multiply"} =>
    LET v == mod_add(kinv[1], kinv[2], n)
    IN  mod_mul(nonce_of(current), v, n) = 1 \/ (NDEBUG /\ v = 0)

(* A signature that rests on an undefined inverse is never handed out:     *)
(* when masked_inverse had nothing to invert, threshold_sign throws; and   *)
(* apart from that it throws only when z + r sk is zero.                   *)
ThrowsWhenDegenerate ==
  [][pc = "multiply" =>
       (call'.status = "failed"
          <=> \/ mod_add(kinv[1], kinv[2], n) = 0
              \/ mod_add(zd[1], zd[2], n) = 0)]_vars

(* What threshold_sign returns verifies under the public key of the key it *)
(* was called with, unless its r is zero; verify refuses those.            *)
SignedVerifies ==
  call.status = "signed" =>
    (verify(keys[call.key].Q, call.hash, call.sig.r, call.sig.s)
       <=> call.sig.r # 0)

(* The abstract signer: its secrets are the products of the keys' shares,  *)
(* its calls the calls to threshold_sign, with the nonce of the presign.   *)
Standard ==
  [e \in (1..(n - 1)) \X Hashes \X (1..(n - 1)) |->
     sign_with_nonce(e[1], e[2], e[3])]

Std == INSTANCE StandardSigner WITH
  Scalars <- 1..(n - 1),
  NoSignature <- no_signature,
  secret <- [i \in KeyIds |-> secret_of(keys[i])],
  call <- [status |-> call.status, key |-> call.key, hash |-> call.hash,
           nonce |-> IF call.status = "idle" THEN 0 ELSE nonce_of(current),
           sig |-> call.sig]

(* Two parties who work on shares make a standard signer: the signature    *)
(* returned is the one sign_with_hash computes from the joint secret and   *)
(* the joint nonce ("Output: a STANDARD ECDSA signature").                 *)
ImplementsStandardSigner == Std!Spec

(* Every call to threshold_sign ends, with a signature or an exception.    *)
SigningEnds == Std!CallsEnd

-----------------------------------------------------------------------------
(* What the repository says, and the code does not keep.                   *)

(* tests/test_tecdsa.cpp checks r >= 1 on every signature it makes;        *)
(* threshold_presign and threshold_sign, unlike sign_with_hash, accept a   *)
(* nonce whose r is zero.                                                  *)
SignedRIsPositive == call.status = "signed" => call.sig.r >= 1

(* include/tecdsa.hpp: the signature is "verifiable under the joint public *)
(* key key.Q"; threshold_sign ignores its key argument and signs for the   *)
(* key the presign was made for.                                           *)
SignedVerifiesUnderGivenKey ==
  call.status = "signed" =>
    verify(keys[call.key].Q, call.hash, call.sig.r, call.sig.s)

(* include/field.hpp: "a is always nonzero, so this always succeeds";      *)
(* masked_inverse inverts a product that is zero when its mask is.         *)
InversionSucceeds == pc # "aborted"
=============================================================================
