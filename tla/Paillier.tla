------------------------------ MODULE Paillier ------------------------------
(***************************************************************************)
(* Paillier encryption, src/paillier.cpp: generate_keys with its rejection *)
(* loops, encrypt, decrypt, and what a caller computes with ciphertexts    *)
(* (src/tests/test_paillier.cpp).                                          *)
(***************************************************************************)
EXTENDS Field, Gmp, FiniteSets

CONSTANTS PrimeBits,   \* the arguments a caller may give generate_keys
          Plaintexts,  \* what it encrypts, besides -1
          Factors,     \* what it multiplies plaintexts by
          MaxWork      \* bound: no more ciphertexts once they number MaxWork / N

(* With one bit or two, generate_keys finds no two primes to choose.       *)
ASSUME PaillierAssumption ==
  /\ PrimeBits \subseteq Nat \ {0, 1, 2}
  /\ Plaintexts \subseteq Nat /\ Factors \subseteq Nat
  /\ MaxWork \in Nat

-----------------------------------------------------------------------------
(* GMP.  Products stay within TLC's 32 bits as long as m is below 2^20.    *)
(* mpz_invert is Field's invertible and mod_inv.                           *)
times(a, b, m) == (((a * (b \div 1024)) % m) * 1024 + a * (b % 1024)) % m

powm(b, e, m) ==
  LET power[i \in 0..e] ==
        IF i = 0 THEN 1
        ELSE LET half   == power[i \div 2]
                 square == times(half, half, m)
             IN  IF i % 2 = 0 THEN square ELSE times(square, b, m)
  IN  power[e]

divides(a, b) == b % a = 0

gcd(a, b) == CHOOSE g \in 1..b : /\ divides(g, a) /\ divides(g, b)
                                 /\ \A f \in (g + 1)..b : ~(divides(f, a) /\ divides(f, b))

is_prime(x) == x > 1 /\ \A f \in 2..(x - 1) : ~divides(f, x)

next_prime(x) == CHOOSE y \in (x + 1)..(2 * x + 2) :
                   is_prime(y) /\ \A z \in (x + 1)..(y - 1) : ~is_prime(z)

(* The doubled number at the latest is passed by a prime: Bertrand's       *)
(* postulate, for the numbers gen_prime can draw.                          *)
ASSUME BertrandsPostulate ==
  \A b \in PrimeBits : \A x \in two_to[b - 1]..(two_to[b] - 1) :
     \E y \in (x + 1)..(2 * x + 2) : is_prime(y)

-----------------------------------------------------------------------------
VARIABLES pc,    \* "p", "q", "n", "mu" in generate_keys, "ready" between calls,
                 \* "r" in encrypt
          prime_bits,
                 \* the argument of generate_keys
          p, q,  \* the primes of generate_keys, 0 once it has returned
          pub,   \* PublicKey
          priv,  \* PrivateKey
          m,     \* the argument of the last encrypt
          cts    \* ciphertexts [c, m]; m, the plaintext it stands for, is a
                 \* history variable

vars == <<pc, prime_bits, p, q, pub, priv, m, cts>>

(* N "is exactly (2*prime_bits) bits" (line 69).                           *)
TypeOK ==
  /\ pc \in {"p", "q", "n", "mu", "ready", "r"}
  /\ prime_bits \in PrimeBits
  /\ p \in 0..two_to[prime_bits + 1] /\ q \in 0..two_to[prime_bits + 1]
  /\ pc \in {"mu", "ready", "r"} => sizeinbase2(pub.n) = 2 * prime_bits
  /\ pc \in {"ready", "r"} => priv.mu \in 1..(pub.n - 1)
  /\ m \in Int
  /\ \A ct \in cts : ct.c \in 1..(pub.n2 - 1) /\ ct.m \in 0..(pub.n - 1)

Init ==
  /\ pc = "p" /\ prime_bits \in PrimeBits /\ p = 0 /\ q = 0
  /\ pub = [n |-> 0, g |-> 0, n2 |-> 0]
  /\ priv = [lambda |-> 0, mu |-> 0]
  /\ m = 0 /\ cts = {}

(* The bits drawn by gen_prime, the top one set. *)
Draws == two_to[prime_bits - 1]..(two_to[prime_bits] - 1)

right_size(x) == sizeinbase2(x) = prime_bits

GenP(x) ==
  /\ pc = "p"
  /\ p' = next_prime(x)
  /\ pc' = IF right_size(p') THEN "q" ELSE "p"
  /\ UNCHANGED <<prime_bits, q, pub, priv, m, cts>>

(* A slip: p may be drawn again for q. *)
GenQ_without_retry(x) ==
  /\ pc = "q"
  /\ q' = next_prime(x)
  /\ pc' = IF right_size(q') THEN "n" ELSE "q"
  /\ UNCHANGED <<prime_bits, p, pub, priv, m, cts>>

GenQ(x) ==
  /\ pc = "q"
  /\ q' = next_prime(x)
  /\ pc' = IF right_size(q') /\ q' # p THEN "n" ELSE "q"
  /\ UNCHANGED <<prime_bits, p, pub, priv, m, cts>>

(* A slip: one bit more than two primes can have. *)
full_size_rounded_up(n) == sizeinbase2(n) = 2 * prime_bits + 1

full_size(n) == sizeinbase2(n) = 2 * prime_bits

TestSize ==
  /\ pc = "n"
  /\ IF full_size(p * q)
     THEN /\ pub' = [n |-> p * q, g |-> p * q + 1, n2 |-> (p * q) * (p * q)]
          /\ pc' = "mu"
     ELSE pc' = "p" /\ UNCHANGED pub
  /\ UNCHANGED <<prime_bits, p, q, priv, m, cts>>

L(u, n) == (u - 1) \div n

(* A slip: the least common multiple of the primes themselves. *)
lambda_of_primes == (p * q) \div gcd(p, q)

lambda == ((p - 1) * (q - 1)) \div gcd(p - 1, q - 1)

Lval == L(powm(pub.g, lambda, pub.n2), pub.n)

(* generate_keys throws if Lval has no inverse; MuExists says it has. *)
Invert ==
  /\ pc = "mu"
  /\ \E u \in {Lval} :
        /\ invertible(u, pub.n)
        /\ priv' = [lambda |-> lambda, mu |-> mod_inv(u, pub.n)]
  /\ p' = 0 /\ q' = 0
  /\ pc' = "ready"
  /\ UNCHANGED <<prime_bits, pub, m, cts>>

(* A slip: N itself passes the range test. *)
in_range_up_to_n(x) == x >= 0 /\ x <= pub.n

in_range(x) == x >= 0 /\ x < pub.n

room == Cardinality(cts) * pub.n < MaxWork

(* encrypt: it throws, and nothing happens, if x is out of range. *)
Encrypt(x) ==
  /\ pc = "ready" /\ room
  /\ m' = x
  /\ pc' = IF in_range(x) THEN "r" ELSE "ready"
  /\ UNCHANGED <<prime_bits, p, q, pub, priv, cts>>

(* A slip: the unit r is drawn without its test. *)
coprime_untested(r, n) == r >= 1

coprime(r, n) == gcd(r, n) = 1

ciphertext(x, r) ==
  times(powm(pub.g, x, pub.n2), powm(r, pub.n, pub.n2), pub.n2)

(* pick_r_coprime_to_n ends with r; its other draws change nothing. *)
PickR(r) ==
  /\ pc = "r"
  /\ coprime(r, pub.n)
  /\ cts' = cts \cup {[c |-> ciphertext(m, r), m |-> m]}
  /\ pc' = "ready"
  /\ UNCHANGED <<prime_bits, p, q, pub, priv, m>>

decrypt(c) ==
  times(L(powm(c, priv.lambda, pub.n2), pub.n), priv.mu, pub.n)

(* The caller multiplies two ciphertexts, or raises one to a power. *)
Add(a, b) ==
  /\ pc = "ready" /\ room
  /\ cts' = cts \cup {[c |-> times(a.c, b.c, pub.n2), m |-> (a.m + b.m) % pub.n]}
  /\ UNCHANGED <<pc, prime_bits, p, q, pub, priv, m>>

Scale(a, k) ==
  /\ pc = "ready" /\ room
  /\ cts' = cts \cup {[c |-> powm(a.c, k, pub.n2), m |-> (k * a.m) % pub.n]}
  /\ UNCHANGED <<pc, prime_bits, p, q, pub, priv, m>>

Next ==
  \/ \E x \in Draws : GenP(x) \/ GenQ(x)
  \/ TestSize
  \/ Invert
  \/ \E x \in Plaintexts \cup {-1} : Encrypt(x)
  \/ \E r \in 1..(pub.n - 1) : PickR(r)
  \/ \E a, b \in cts : Add(a, b)
  \/ \E a \in cts, k \in Factors : Scale(a, k)

(* Between its draws generate_keys is straight-line.  The draws are        *)
(* independent and uniform: one that is possible time and again comes up   *)
(* time and again, so that p is not kept from its largest value nor q from *)
(* differing from p.                                                       *)
Fairness ==
  /\ WF_vars(TestSize) /\ WF_vars(Invert)
  /\ SF_vars(GenP(two_to[prime_bits] - 2))
  /\ SF_vars(\E x \in Draws : GenQ(x) /\ pc' = "n")

Spec == Init /\ [][Next]_vars /\ Fairness

-----------------------------------------------------------------------------
(* generate_keys never throws "mu inversion failed" (line 97): primes of   *)
(* the same size leave lambda prime to N.                                  *)
MuExists == pc = "mu" => invertible(Lval, pub.n)

(* Every ciphertext the caller holds, encrypted, added or multiplied,      *)
(* decrypts to the plaintext it stands for (test_paillier.cpp).            *)
DecryptsToPlaintext == \A ct \in cts : decrypt(ct.c) = ct.m

(* No two plaintexts, nor two draws, give the same ciphertext: encrypt     *)
(* spreads each plaintext over as many ciphertexts as any other.           *)
EncryptionIsInjective ==
  pc = "r" /\ cts = {} =>
    LET units  == {r \in 1..(pub.n - 1) : coprime(r, pub.n)}
        inputs == {x \in Plaintexts : in_range(x)}
    IN  Cardinality({ciphertext(x, r) : x \in inputs, r \in units})
          = Cardinality(inputs) * Cardinality(units)

(* generate_keys returns.                                                  *)
KeygenEnds == <>(pc = "ready")
=============================================================================
