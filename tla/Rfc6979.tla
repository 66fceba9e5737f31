------------------------------ MODULE Rfc6979 ------------------------------
(***************************************************************************)
(* derive_nonce (src/rfc6979.cpp), HMAC by HMAC.  HMAC-SHA-256 is an       *)
(* unknown function of the padded octets its inner SHA-256 compresses: mac *)
(* holds the part of it that has been asked for, and an answer is chosen   *)
(* when those octets are first met.  Octets and hashes have a few bits and *)
(* blocks a few octets, so that every length derive_nonce distinguishes    *)
(* occurs: with q longer than a hash, candidates of several hashes; with q *)
(* shorter than a hash, digests and candidates that lose bits.             *)
(***************************************************************************)
EXTENDS Sha256, FiniteSets

CONSTANTS Orders,      \* the group orders a caller may pass as q
          HashOctets,  \* octets in a hash (32 in the code)
          Keys,        \* the private keys a caller uses
          Digests,     \* the digests it signs, as integers
          Macs,        \* what HMAC may answer, as integers
          MaxCalls,    \* bound: the number of calls
          None         \* no call

ASSUME Rfc6979Assumption ==
  /\ Orders \subseteq Nat \ {0, 1}
  /\ HashOctets \in 1..BlockOctets
  /\ Keys \subseteq Nat \ {0}
  /\ Digests \cup Macs \subseteq 0..(two_to[OctetBits * HashOctets] - 1)
  /\ MaxCalls \in Nat
  /\ \A o \in Orders : None \notin Keys \X (0..(o - 1))

Hashes == [1..HashOctets -> Octets]

Hash(x) == big_endian(x, HashOctets)

-----------------------------------------------------------------------------
VARIABLES pc,     \* the next step of derive_nonce, "idle" outside a call
          q,      \* its argument q, the same in every call
          d, h,   \* its other arguments, 0 outside a call
          K, V,   \* its generator
          T,      \* the octets of the candidate
          mac,    \* the known points [buf, out] of HMAC, each with its
                  \* key and msg
          calls,  \* history: the number of calls so far
          seeds,  \* history: [d, z, msg] of every step d
          nonces  \* history: <<<<d, z>>, k>> of every nonce returned

vars == <<pc, q, d, h, K, V, T, mac, calls, seeds, nonces>>

qlen_bits == sizeinbase2(q)
rolen == (qlen_bits + OctetBits - 1) \div OctetBits

(* mpz_import, most significant octet first. *)
octets_to_int(s) ==
  LET value[i \in 0..Len(s)] ==
        IF i = 0 THEN 0 ELSE value[i - 1] * two_to[OctetBits] + s[i]
  IN  value[Len(s)]

(* Slips: the octets start at the left end of the buffer; the excess bits  *)
(* are cut off at the left.                                                *)
int2octets_left_aligned(x, len) ==
  LET actual == CHOOSE a \in 0..len : two_to[OctetBits * a] > x
                                      /\ (a = 0 \/ two_to[OctetBits * (a - 1)] <= x)
  IN  big_endian(x * two_to[OctetBits * (len - actual)], len)

bits2int_rightmost(s) == octets_to_int(s) % two_to[qlen_bits]

int2octets(x, len) == big_endian(x, len)

bits2int(s) ==
  LET bits_in == Len(s) * OctetBits
  IN  IF bits_in > qlen_bits THEN octets_to_int(s) \div two_to[bits_in - qlen_bits]
      ELSE octets_to_int(s)

(* What is left of a digest in bits2octets. *)
digest_scalar(hh) == bits2int(Hash(hh)) % q

(* A slip: the digest keys the generator as it is. *)
bits2octets_unreduced(hh) == Hash(hh)

bits2octets(hh) == int2octets(digest_scalar(hh), rolen)

TypeOK ==
  /\ pc \in {"idle", "d", "e", "f", "g", "candidate", "revalue"}
  /\ q \in Orders
  /\ d \in Keys \cup {0} /\ h \in Digests \cup {0}
  /\ K \in Hashes /\ V \in Hashes
  /\ T \in Seq(Octets) /\ Len(T) < rolen + HashOctets
  /\ mac \subseteq [key : Hashes, msg : Seq(Octets), buf : Seq(Octets),
                     out : Hashes]
  /\ \A e \in nonces : e[1] \in Keys \X (0..(q - 1)) /\ e[2] \in 1..(q - 1)

Init ==
  /\ pc = "idle"
  /\ q \in Orders /\ d = 0 /\ h = 0
  /\ K = Hash(0) /\ V = Hash(0) /\ T = <<>>
  /\ mac = {} /\ calls = 0 /\ seeds = {} /\ nonces = {}

(* The key, never longer than a block here, filled up to one. *)
key_block(key) == key \o zeros(BlockOctets - Len(key))

(* What the inner SHA-256 of hmac_sha256 compresses.  The masks ipad and   *)
(* opad are bijections on key blocks and are left out, and the outer hash  *)
(* sees nothing but the key block and the inner hash: both follow from     *)
(* this.                                                                   *)
inner(key, msg) == padded(key_block(key) \o msg)

(* out may be hmac_sha256(key, msg). *)
Hmac(key, msg, out) ==
  /\ \A e \in mac : e.buf = inner(key, msg) => e.out = out
  /\ mac' = mac \cup {[key |-> key, msg |-> msg, buf |-> inner(key, msg),
                       out |-> out]}

seed(separator) == V \o <<separator>> \o int2octets(d, rolen) \o bits2octets(h)

Call(dd, hh) ==
  /\ pc = "idle" /\ calls < MaxCalls
  /\ dd < q
  /\ d' = dd /\ h' = hh
  /\ V' = [i \in 1..HashOctets |-> 1] /\ K' = Hash(0)
  /\ pc' = "d" /\ calls' = calls + 1
  /\ UNCHANGED <<q, T, mac, seeds, nonces>>

(* Steps d and f: K = HMAC_K(V || separator || d || h). *)
Rekey(step, separator, next) ==
  /\ pc = step
  /\ \E out \in Macs : K' = Hash(out) /\ Hmac(K, seed(separator), K')
  /\ seeds' = IF step = "d"
              THEN seeds \cup {[d |-> d, z |-> digest_scalar(h), msg |-> seed(separator)]}
              ELSE seeds
  /\ pc' = next
  /\ UNCHANGED <<q, d, h, V, T, calls, nonces>>

(* V = HMAC_K(V). *)
NextV == \E out \in Macs : V' = Hash(out) /\ Hmac(K, V, V')

(* Steps e and g. *)
Revalue(step, next) ==
  /\ pc = step
  /\ NextV
  /\ pc' = next
  /\ UNCHANGED <<q, d, h, K, T, calls, seeds, nonces>>

(* Step h: one more hash for the candidate. *)
Extend ==
  /\ pc = "candidate" /\ Len(T) < rolen
  /\ NextV
  /\ T' = T \o V'
  /\ UNCHANGED <<pc, q, d, h, K, calls, seeds, nonces>>

candidate == bits2int(SubSeq(T, 1, rolen))

(* A slip: a nonce may be q. *)
acceptable_up_to_q(k) == k >= 1 /\ k <= q

acceptable(k) == k >= 1 /\ k < q

Accept ==
  /\ pc = "candidate" /\ Len(T) >= rolen
  /\ acceptable(candidate)
  /\ nonces' = nonces \cup {<<<<d, digest_scalar(h)>>, candidate>>}
  /\ pc' = "idle"
  /\ d' = 0 /\ h' = 0 /\ K' = Hash(0) /\ V' = Hash(0) /\ T' = <<>>
  /\ UNCHANGED <<q, mac, calls, seeds>>

(* A slip: a candidate that is rejected is only left behind. *)
Reseed_without_rekey ==
  /\ pc = "candidate" /\ Len(T) >= rolen
  /\ ~acceptable(candidate)
  /\ T' = <<>>
  /\ UNCHANGED <<pc, q, d, h, K, V, mac, calls, seeds, nonces>>

(* K = HMAC_K(V || 0x00), and then V, and a fresh candidate. *)
Reseed ==
  /\ pc = "candidate" /\ Len(T) >= rolen
  /\ ~acceptable(candidate)
  /\ \E out \in Macs : K' = Hash(out) /\ Hmac(K, V \o <<0>>, K')
  /\ T' = <<>>
  /\ pc' = "revalue"
  /\ UNCHANGED <<q, d, h, V, calls, seeds, nonces>>

Next ==
  \/ \E dd \in Keys, hh \in Digests : Call(dd, hh)
  \/ Rekey("d", 0, "e")
  \/ Revalue("e", "f")
  \/ Rekey("f", 1, "g")
  \/ Revalue("g", "candidate")
  \/ Extend
  \/ Accept
  \/ Reseed
  \/ Revalue("revalue", "candidate")

Spec == Init /\ [][Next]_vars

-----------------------------------------------------------------------------
(* The nonce is a function of the private key and of the digest as         *)
(* bits2octets leaves it, whatever calls came before: each call starts its *)
(* generator anew ("deterministic function of the private key d and the    *)
(* message hash h", include/rfc6979.hpp).                                  *)
Function == INSTANCE NonceFunction WITH
  Inputs <- UNION {Keys \X (0..(o - 1)) : o \in Orders},
  Nonces <- UNION {1..(o - 1) : o \in Orders},
  input <- IF pc = "idle" THEN None ELSE <<d, digest_scalar(h)>>,
  graph <- nonces

ImplementsNonceFunction == Function!Spec

(* Different keys or digests never seed the generator alike: the octets of *)
(* d and of h cannot run into each other.                                  *)
SeedsDiffer ==
  \A a, b \in seeds : a.msg = b.msg => a.d = b.d /\ a.z = b.z

(* What SHA-256 compresses for an HMAC is a whole number of blocks, so     *)
(* that the loop over the chunks never reads past the buffer, whether or   *)
(* not the length still fits in the last block of the message; and HMACs   *)
(* of different keys or messages, a message and the same with an octet     *)
(* more among them, never compress the same blocks.                        *)
BuffersAreSound ==
  /\ \A e \in mac : Len(e.buf) % BlockOctets = 0
  /\ \A a, b \in mac : a.buf = b.buf => a.key = b.key /\ a.msg = b.msg

(* The leftmost bits of a sequence of octets, as an integer. *)
Leftmost(bits, s) ==
  LET bit(i) == (s[1 + (i - 1) \div OctetBits]
                   \div two_to[OctetBits - 1 - ((i - 1) % OctetBits)]) % 2
      value[i \in 0..bits] == IF i = 0 THEN 0 ELSE 2 * value[i - 1] + bit(i)
  IN  value[bits]

(* A candidate is the leftmost qlen bits of the hashes generated for it,   *)
(* so that no bit is lost and none is fixed, whether q is longer or        *)
(* shorter than a hash.                                                    *)
CandidateIsLeftmostBits ==
  pc = "candidate" /\ Len(T) >= rolen => candidate = Leftmost(qlen_bits, T)

-----------------------------------------------------------------------------
(* RFC 6979, section 3.2, round by round rather than HMAC by HMAC, on sets *)
(* of generators <<K, V>>: one generator, or none where a round would ask  *)
(* what HMAC was never asked.                                              *)
answers(key, msg) == {e.out : e \in {x \in mac : x.key = key /\ x.msg = msg}}

rekeyed(G, suffix) ==
  UNION {answers(g[1], g[2] \o suffix) \X {g[2]} : g \in G}
revalued(G) == UNION {{g[1]} \X answers(g[1], g[2]) : g \in G}

(* Steps b to g. *)
instantiated(in) ==
  LET data == big_endian(in[1], rolen) \o big_endian(in[2], rolen)
      G == {<<zeros(HashOctets), [i \in 1..HashOctets |-> 1]>>}
  IN  revalued(rekeyed(revalued(rekeyed(G, <<0>> \o data)), <<1>> \o data))

(* Step h.1 and 2: the values <<V, octets>> that follow until there are    *)
(* octets enough for a candidate.                                          *)
generated(g) ==
  LET after[j \in 0..rolen] ==
        IF j = 0 THEN {<<g[2], <<>>>>}
        ELSE {c \in after[j - 1] : Len(c[2]) >= rolen}
             \cup UNION {{<<out, c[2] \o out>> : out \in answers(g[1], c[1])} :
                          c \in {c \in after[j - 1] : Len(c[2]) < rolen}}
  IN  {c \in after[rolen] : Len(c[2]) >= rolen}

(* The nonces that a round may return, and the generators it goes on with. *)
returned(G) ==
  UNION {{Leftmost(qlen_bits, c[2]) : c \in generated(g)} : g \in G}
    \cap 1..(q - 1)
reseeded(G) ==
  revalued(rekeyed(UNION {{g[1]} \X {c[1] : c \in
                             {c \in generated(g) :
                                Leftmost(qlen_bits, c[2]) \notin 1..(q - 1)}} :
                          g \in G}, <<0>>))

(* A nonce is the first candidate in range of the RFC's generator: every   *)
(* candidate before it was rejected, and K and V both replaced each time.  *)
(* No generator that comes to an end meets a pair K, V twice, so that many *)
(* rounds are all.                                                         *)
ReturnsFirstCandidate ==
  [][\A e \in nonces' \ nonces :
       LET outs == {x.out : x \in mac}
           rounds == Cardinality(outs \X outs)
           before[i \in 0..rounds] ==
             IF i = 0 THEN instantiated(e[1]) ELSE reseeded(before[i - 1])
       IN  \E i \in 0..rounds : e[2] \in returned(before[i])]_vars
=============================================================================
