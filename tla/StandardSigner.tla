--------------------------- MODULE StandardSigner ---------------------------
(***************************************************************************)
(* What a signer promises to its callers, whoever computes the signature:  *)
(* a key is one secret, fixed when the key is made; a call to sign settles *)
(* on one nonce, at once or later, and ends after that, either without a   *)
(* signature or with the standard ECDSA signature of that secret, hash and *)
(* nonce.  The constant Standard says which signature that is, so that     *)
(* this module knows nothing of curves.                                    *)
(***************************************************************************)
EXTENDS Integers

CONSTANTS KeyIds,      \* the key objects a caller may make
          Hashes,      \* the message digests it may have signed
          Scalars,     \* the secret keys and nonces, 0 not among them
          Standard,    \* Standard[<<d, h, k>>]: the signature of secret d on h
                       \* with nonce k, or NoSignature
          None,        \* no key
          NoSignature  \* what a call without a result leaves in its place

VARIABLES secret,  \* secret[i]: the secret of key i, 0 until it is made
          call     \* the last call to sign and where it stands

abstract_vars == <<secret, call>>

no_call == [status |-> "idle", key |-> None, hash |-> 0, nonce |-> 0,
            sig |-> NoSignature]

Init ==
  /\ secret = [i \in KeyIds |-> 0]
  /\ call = no_call

Generate(i) ==
  /\ secret[i] = 0
  /\ call.status # "signing"
  /\ \E d \in Scalars : secret' = [secret EXCEPT ![i] = d]
  /\ UNCHANGED call

Sign(i, h) ==
  /\ secret[i] # 0
  /\ call.status # "signing"
  /\ \E k \in Scalars \cup {0} :
        call' = [status |-> "signing", key |-> i, hash |-> h, nonce |-> k,
                 sig |-> NoSignature]
  /\ UNCHANGED secret

(* A call that began without a nonce gets one. *)
Settle ==
  /\ call.status = "signing" /\ call.nonce = 0
  /\ \E k \in Scalars : call' = [call EXCEPT !.nonce = k]
  /\ UNCHANGED secret

(* The second conjunct follows from the third; it spares TLC the third on  *)
(* every other step.                                                       *)
Return ==
  /\ call.status = "signing" /\ call.nonce # 0
  /\ call'.status = "signed"
  /\ call' = [call EXCEPT
                !.status = "signed",
                !.sig = Standard[<<secret[call.key], call.hash, call.nonce>>]]
  /\ call'.sig # NoSignature
  /\ UNCHANGED secret

Fail ==
  /\ call.status = "signing" /\ call.nonce # 0
  /\ call' = [call EXCEPT !.status = "failed"]
  /\ UNCHANGED secret

Next ==
  \/ \E i \in KeyIds : Generate(i)
  \/ \E i \in KeyIds, h \in Hashes : Sign(i, h)
  \/ Settle
  \/ Return
  \/ Fail

Spec == Init /\ [][Next]_abstract_vars

(* And every call that has its nonce ends, with a signature or without.    *)
CallsEnd ==
  (call.status = "signing" /\ call.nonce # 0) ~> (call.status # "signing")
=============================================================================
