# Two-party threshold ECDSA: specifications and proofs

This directory specifies the threshold ECDSA code of this repository in TLA+:
modular arithmetic, curve points, Beaver multiplication, the two-party signer,
the single signer it is compared with and its deterministic nonces, the Paillier
encryption measured beside them, and the benchmark that measures them all. TLC
checks the specifications on small curves; TLAPS proves the main properties for
every curve of prime order, every size of Paillier primes and every number of iterations.

## The system

The program is a CPU benchmark that simulates both parties of a two-party ECDSA
in one process. There is one thread and no network: calls follow each other,
and what a call may do depends on random draws, on the build mode and on what
the caller does with the objects it was given. Nothing is persisted.

| component | source | state it keeps | operations |
|---|---|---|---|
| modular arithmetic | `include/field.hpp` | none | `reduce`, `mod_add`, `mod_sub`, `mod_neg`, `mod_mul`, `mod_inv`, `mod_pow` |
| curve parameters | `src/secp256k1.cpp` | six constants | accessors |
| curve points | `src/ec_point.cpp` | none (points are values) | `is_on_curve`, `point_neg`, `point_add`, `point_double`, `scalar_mul` |
| Beaver multiplication | `src/beaver.cpp` | a triple, consumed by one multiplication | `generate_triple`, `beaver_mul` |
| threshold ECDSA | `src/tecdsa.cpp` | `ThresholdKey`, `ThresholdPresign`, held by the caller | `threshold_keygen`, `threshold_presign`, `masked_inverse`, `threshold_sign` |
| single-signer ECDSA | `src/ecdsa.cpp` | `KeyPair` | `generate_keypair`, `sign_with_hash`, `sign`, `verify` |
| deterministic nonces | `src/rfc6979.cpp` | K, V of the HMAC generator during a call | `hmac_sha256`, `derive_nonce` |
| SHA-256 | `src/sha256.cpp` | eight words during a call | `sha256`, `double_sha256`, `hash_to_scalar` |
| randomness | `src/rng.cpp` | a GMP generator | `uniform_below`, `uniform_nonzero_below`, `fill_bytes` |
| Paillier | `src/paillier.cpp` | a key pair, a GMP generator of its own | `generate_keys`, `encrypt`, `decrypt` |
| benchmark driver | `bench/bench_all.cpp`, `include/bench_util.hpp` | pools of keys, presigns, hashes, triples | scenarios, statistics, CSV |

How they interact: `threshold_sign` calls `hash_to_scalar`, twice
`generate_triple`, `masked_inverse` (which calls `beaver_mul` and `mod_inv`) and
`beaver_mul`; its presign came from `threshold_presign`, which calls
`scalar_mul` and `mod_sub` on shares drawn from `Rng`. `sign_with_hash` calls
`derive_nonce` and `scalar_mul`; `verify` calls `mod_inv`, `scalar_mul` and
`point_add`. Everything draws on `field.hpp`. Paillier stands alone.
`bench_all` fills its pools with `generate_keypair`, `threshold_keygen` and
`threshold_presign`, and then hands rows of the pools to the signing functions.

The header and the repository's README say that the nonce and the secret key
are never reconstructed. That is said of `threshold_sign`: `threshold_keygen`
and `threshold_presign` simulate the two parties centrally and multiply the
shares (`src/tecdsa.cpp` lines 23, 38 and 51), as their comments admit.

### What is hard here

- **Values no test meets.** A zero mask, a zero `r`, a zero `s`, equal or
  inverse points in the middle of a multiplication, an x coordinate beyond `n`:
  each has probability about 2^-256 on secp256k1 and is ordinary on a curve of
  a few points.
- **Shares look random.** A slip in combining shares (the term `d e` added by
  both parties, a triple used at the wrong step, or twice) gives residues again.
- **Undefined results.** `mod_inv` relies on an `assert` that the default
  build (`Release`, hence `-DNDEBUG`) strips; `mpz_invert` then leaves its
  result undefined.
- **Sequences of calls.** Keys, presigns and calls can be mixed freely by the
  caller; `threshold_sign` ignores its key argument.
- **Parallel vectors.** The benchmark keeps its inputs in eight vectors that
  belong together row by row, uses each presign in two scenarios, and shares the
  indices out between warm-up and timed rounds. A mix-up yields a table like any
  other.
- **Rejection loops.** Those of `Rng`, `derive_nonce` and Paillier's key generation
  end with probability one at best, and what they do after a rejection is seen by
  no test.

## The modules

| module | what it models |
|---|---|
| `Field` | the functions of `field.hpp` over unbounded integers, GMP's truncating remainder and the undefined result of a failed inversion included |
| `EcPoint` | the functions of `ec_point.cpp`, one operator each, with the six parameters of the curve as CONSTANTS |
| `EcGroup` | four assumptions on those parameters: `p` and `n` are prime, `point_add` associates on the curve, and `n` additions of G end at infinity |
| `Gmp` | the two questions the code asks GMP about the bits of an integer |
| `ScalarMul` | the loop of `scalar_mul` as a state machine |
| `Beaver` | the dealer and the two local computations of `beaver.cpp` |
| `BeaverMul` | one multiplication, step by step, for all inputs and triples |
| `Ecdsa` | the pure functions of `ecdsa.cpp` |
| `EcdsaVerify` | a call to `verify` on arbitrary arguments |
| `EcdsaSigner` | `generate_keypair` and `sign_with_hash` over several keys |
| `Tecdsa` | `threshold_keygen`, `threshold_presign`, `threshold_sign` over several keys and presigns |
| `StandardSigner` | the abstract signer that `EcdsaSigner` and `Tecdsa` both implement |
| `Sha256` | the padding of `sha256` to whole blocks |
| `Rfc6979` | `derive_nonce`, HMAC by HMAC, with HMAC an unknown function of what its inner hash compresses |
| `NonceFunction` | the abstract function that `derive_nonce` is to its caller, which `Rfc6979` implements |
| `Paillier` | `generate_keys`, `encrypt`, `decrypt`, and a caller's arithmetic on ciphertexts |
| `BenchUtil` | `summarize`, and what its columns mean |
| `Bench`, `BenchMC` | the program `bench_all`, and its small instance |
| `ArithmeticTheorems`, `EcdsaTheorems`, `CallTheorems`, `EcdsaSignerTheorems`, `TecdsaTheorems`, `Rfc6979Theorems`, `BenchTheorems`, `PaillierTheorems` | the theorems |

`Tecdsa` and `EcdsaSigner` extend `Ecdsa`, which extends `EcGroup`, `EcPoint`
and `Field`; `Tecdsa` extends `Beaver` too. Both instantiate `StandardSigner`.
`Rfc6979` extends `Sha256` and instantiates `NonceFunction`. `Paillier` extends
`Gmp`, and `Field` for the result of `mpz_invert`. `Bench` stands on
`BenchUtil` alone: what its calls compute is what the other modules are about.

### State and actions

**`Tecdsa`.** `keys` and `presigns` are the objects the caller holds, as records
with the fields of the structs; an object not made yet is the
default-constructed one. `owner` is a history variable: the key a presign was
made for, which the code does not record. `pc`, `zd`, `triple` and `kinv` are
the locals of the call in progress, and `call` the last call with its outcome.
`fresh`, a history variable too, says that no multiplication has used `triple`: a
triple used again is as genuine as before, so that nothing in the values tells.
A step is a stretch of code between two sets of draws:

| action | code |
|---|---|
| `ThresholdKeygen(i)` | `threshold_keygen`, whole |
| `ThresholdPresign(j, i)` | `threshold_presign`, whole; for R at infinity it throws (`ReturnPresign`), and the model stops at `"no presign"`, a state that `PresigningSucceeds`, a part of `SharesAreSound`, shows no one reaches |
| `SignBegin(i, j, h)` | `threshold_sign`, `z`, steps A and B |
| `SignDeal` | a call to `generate_triple`, of which there are two |
| `SignInvert` | `masked_inverse`, with any of `Leftovers` for an undefined inverse in a release build |
| `SignAbort` | `masked_inverse`, when the assert of `mod_inv` fails in a debug build |
| `SignFinish` | step D's multiplication and step E, the exception for `s == 0` included |

`NDEBUG` selects the build. `Leftovers` is what a failed `mpz_invert` may leave in
its result: GMP's manual leaves that undefined, so that any set of natural numbers
is allowed, multiples of n and numbers beyond it among them, and GMP itself leaves
the 0 the variable was constructed with. A negative number, which GMP does not
leave there either, is not covered: the remainders of `masked_inverse` would then be
negative. `AnyKey` says whether callers pair a presign with a
key it was not made for; only the run `TecdsaOtherKey` lets them.

**`BeaverMul`.** `x`, `y` and `z` are the share pairs of the inputs and of the
result, `T` the triple, `d` and `e` what is opened, `stage` how far it is. `GenerateTriple`,
`OpenMasked` and `MultiplyLocally` are `generate_triple` and the two halves of
`beaver_mul`.

**`ScalarMul`.** `k`, `P`, `R`, `Q` and `i` are the function's variables, `arg` a
history variable with the caller's arguments. One action per branch of the
prologue (`ReturnAtOnce`, `Recurse`, `EnterLoop`), one for a round of the loop
(`Iterate`), one for the return.

**`EcdsaVerify`.** The arguments are chosen in `Init`: a public key by its
secret (history variable `secret`, 0 giving the point at infinity), a digest, and
two integers. The actions are the range test, the scalars `u1` and `u2`, and the
comparison.

**`EcdsaSigner`.** `keypairs` are the caller's objects. `derive_nonce` is an
unknown function of `d` and the reduced digest, since that is all its code
looks at; `drbg` is the part of that function asked for so far.
`GenerateKeypair(i)` enters `generate_keypair`, and `Draw` is one round of the loop
in `uniform_nonzero_below` (`src/rng.cpp`): a zero is drawn again. `SignBegin` is the
prologue of `sign_with_hash`, and `DeriveNonce` the step in which `derive_nonce` leaves its
loop and r is computed; nothing makes that step happen, so that a call may stay
in the loop for ever. `SignR` and `SignS` are the two stretches that end in the two
exceptions and the return. `signed` is the history of all signatures.

**`StandardSigner`.** A key is a secret; a call begins with a nonce or settles on one
later (`Settle`, the single signer's `DeriveNonce`), and ends
without a signature or with the standard ECDSA signature of secret, digest and
nonce. For `Tecdsa` the secret is the product of the key's shares, and the
nonce that of the presign's; for `EcdsaSigner` they are `d` and `derive_nonce`'s
answer. That both implement it is the header's "Output: a STANDARD ECDSA
signature".

**`Rfc6979`.** `K`, `V` and `T` are the generator and the candidate under
construction; `mac` is the part of HMAC that has been asked for, so that a
repeated question gets the old answer; `seeds` and `nonces` are histories.
A point of `mac` is keyed by the padded buffer that the inner hash of
`hmac_sha256` compresses, so that two questions get independent answers only if
their buffers differ. `Call` is the prologue; `Rekey("d", ...)`, `Revalue("e", ...)`, `Rekey("f", ...)`
and `Revalue("g", ...)` are the steps of those letters in the code's comments;
`Extend`, `Accept` and `Reseed` are the rounds of the inner loop and the two
outcomes of the test after it. The digest enters as `bits2octets` leaves it,
which is why `EcdsaSigner` may take the nonce for a function of `d` and the reduced
digest: `ImplementsNonceFunction` states it. Being a function does not say which one:
`ReturnsFirstCandidate` compares each nonce with the generator of RFC 6979,
section 3.2, defined round by round on what `mac` knows, so that a rejection that
kept K or V, or came too late or too early, would show.

**`Paillier`.** `pc` is `"p"`, `"q"`, `"n"` and `"mu"` inside `generate_keys`, each
draw of a prime being a step, with a loop back for each of its three rejections.
`Encrypt` is the range test of `encrypt` and `PickR` the rest, for every unit
that may be drawn. `decrypt` changes nothing and is an operator. `cts` are the
ciphertexts the caller holds, with the plaintext each stands for as history;
`Add` and `Scale` are what `tests/test_paillier.cpp` does with them.

**`Bench`.** `argv`, `arg` and `opts` are the state of `parse_cli`; the branches of its
`if` are the actions `ParseMd` to `ParsePositional`. `pool` holds the vectors of
`main`, `drawn` counts the draws from `rng`: a key, a presign or a nonce is named by
the draw it comes from, a digest by the number in its message, so that the model
says which inputs meet and not what is computed from them.

| action | code |
|---|---|
| `Parse`, `EndParse` | a round of the loop in `parse_cli`; the end of it, and `total` |
| `Pregenerate`, `PregenerateFails`, `EndPools` | a round of the loop that fills the pools, its failure in OpenSSL, its end |
| `Warmup`, `EndWarmup` | a warm-up round of `run_benchmark`, the end of the loop |
| `Time`, `EndTimed` | a timed round, the end of the loop with `summarize` |
| `PrepareC3` | the key pair and the vector `beaver_shares` |
| `Report` | `write_csv`, or no file, and `return 0` |
| `Uncaught` | an exception from a call into the library, which nothing catches |

Indexing a vector beyond its end leads to the state `"undefined"`. `used`, `results`
and `uses` are histories: the digests of the current and of the finished scenarios,
and every signature made with a nonce drawn from `rng`, with the key it is to be
verified with, the key and nonce in its s, and the nonce of its r.

## What the runs check

| run | what it shows |
|---|---|
| `BeaverMul` | modulus 3, every sharing, every triple: the result shares sum to the product (`ProductIsShared`), and after the opening each value of the other party's input shares is explained by exactly one equiprobable triple (`OpeningHidesShares`) |
| `ScalarMul` | scalars -26..26, all points of the 12-point curve y^2 = x^3 + 7 over F_11: the accumulators hold the multiples the bits stand for, the call returns the multiple of the caller's point, and the points met obey the group laws |
| `TecdsaRelease` | release build on the curve over F_43 of order 31: types, sound locals and a triple of its own for each multiplication (`LocalsAreSound`), `InverseOrZero`, `ThrowsWhenDegenerate`, valid signatures, refinement of `StandardSigner` |
| `TecdsaDebug` | debug build on the curve over F_13 of order 7, where zero masks abort; two keys, two presigns, interleaved in every order: keys and presigns hold the shares they stand for and presigning never throws (`SharesAreSound`), each signature verifies under its key, exactly when its r is not zero, and every call ends |
| `EcdsaVerify` | `r` and `s` from -2 to n + 2 on the curve over F_43: `verify` accepts exactly the solutions of the signing equation |
| `EcdsaSigner` | two key objects that may hold the same secret, digests that reduce to the same scalar: signatures valid, low, a function of secret and digest; refinement of `StandardSigner`; every call that has its nonce ends |
| `Rfc6979` | q shorter and longer than a hash, two calls with keys and digests that differ or agree after reduction: candidates are the leftmost bits, rejected outside 1..q-1; no two inputs seed the generator alike; padded buffers are whole blocks and differ when keys or messages do; the same input gets the same nonce (refinement of `NonceFunction`), and that nonce is the first candidate in range of the RFC's generator (`ReturnsFirstCandidate`) |
| `Paillier` | every pair of three-bit and of five-bit primes, every unit: key generation ends without an exception, N has its full size, the caller's ciphertexts decrypt to what they stand for, and no two encryptions coincide |
| `Bench` | every command line of up to four words: the count taken is the last one given, a CSV file is written if the last name given for it is not empty, and no value is taken for a flag (`ParsesLastCount`), no vector is indexed beyond its end, unless the number of inputs overflows (`IndicesInPools`), keys, presigns and nonces of a signature belong together (`UsesAreSound`), no nonce signs two digests (`NonceSignsOneDigest`), all scenarios time the same digests, none of them in the warm-up (`ScenariosCompareAlike`), the statistics say of the samples what the table's columns promise (`StatsDescribeSamples`), and the program ends (`RunEnds`) |
| `TecdsaZeroR`, `TecdsaOtherKey`, `TecdsaZeroMask` | the findings below |

The type invariants of `BeaverMul` and `EcdsaVerify` are proved and not checked in a
run; neither are `SharesAreSound` in the release build and `LocalsAreSound`, `InverseOrZero`
and `ThrowsWhenDegenerate` in the debug build: the theorems hold for both.

### Bounds, and why they are enough

The curves are y^2 = x^3 + 7, like secp256k1, over fields small enough to
enumerate, with a group of prime order n < p, as on secp256k1.

- p = 43, n = 31: twelve residues at or beyond n are possible x coordinates, so
  `R.x % n` is not the identity and two pairs of nonces share an `r`.
- p = 13, n = 7: G itself has x = 7 = n, so the nonces 1 and n - 1 have `r` = 0. On
  secp256k1 too, exactly one pair of points has x = n.
- p = 11, 12 points (a composite order, for `ScalarMul` only, which assumes
  nothing of n): points of order 2, 3, 4, 6 and 12, so that doubling a point with
  y = 0, adding inverse points and meeting infinity in the middle of the loop all
  happen. The scalar bound 26 passes the order twice and has five bits.
- The draws of the `Tecdsa` runs are two values each, chosen so that a zero mask
  (3 + 28 = 31, 1 + 6 = 7), and a zero z + r sk occur; the digests are on both
  sides of n. In `TecdsaDebug` the dealer's draws are fixed (`TripleDraws`), to leave
  room for a second key and presign; `TecdsaRelease` varies them. The theorems
  remove these bounds.
- `BeaverMul` takes all residues of modulus 3, and its theorems any modulus.
- `Leftovers` is 0, as with GMP, and in `TecdsaRelease` also 1, 29 and 100, a number
  beyond n.
- In `Rfc6979` an octet, and a hash, have three bits, and q is 3, 7 or 11. On
  secp256k1 hash and q have 256 bits each, so that neither the shift in `bits2int`
  nor a second hash per candidate ever occurs; here each does. HMAC's two answers, 1
  and 5, make the candidates 0 and 2 for q = 3, 1 and 5 for q = 7, and 2, 3, 10 and q itself
  for q = 11. So candidates are rejected at both ends of the range, and calls go on
  after a rejection. Two calls suffice to ask the same question twice; the digests 0 and 7
  agree modulo 7, and for q = 3 once shifted. A block has four octets, two of them for
  the length, in place of 64 and 8, and the HMAC key fills up to one block. The
  inner hash then compresses messages of 5, 6, 8 and 10 octets: mark and length
  just fill the second block in the first case, and need a third or a fourth
  block in the others. Lengths reach 30 bits' worth, below the width of the length
  field, as all lengths do in the code.
- `Paillier`: three bits is the least `prime_bits` for which two different primes
  exist (with one or two bits `generate_keys` never returns); with five, products
  can be too short (17 * 19 has nine bits) and a draw can leave the range (31 is
  followed by 37). `MaxWork` allows three ciphertexts under N = 35, hence a sum of
  two and a multiple of a sum, and one under the larger moduli.
- `Bench`: `INT_MAX` is 7 and there are two warm-up rounds, so that the counts 2, 3
  and 6 stand for the default, for another number, and for one whose sum with the
  warm-up rounds overflows; -2 is the count that is raised to one, and the empty word,
  which `std::stoi` refuses, an empty file name. Four words suffice for two flags
  with their values, of which the last wins, and for a flag without one after others.
  A round takes 1 or 5, in samples of one, two and three: that tells the mean from the
  median, and the middle of the sorted samples from the middle of the samples as they
  came. The theorem is for any times.
- Digests stay below 2n, as 256-bit digests do for secp256k1's n.

### Fairness

`SigningEnds` of `Tecdsa` assumes weak fairness of `CallStep`, the four actions of a call
in progress, and that of `EcdsaSigner` of `SignR` and of `SignS`: the code of the signing
functions is straight-line there, waits for nothing, and has one thread. Nothing is
assumed of the caller.

Nothing is assumed of the two loops of `EcdsaSigner` either, `Draw` and `DeriveNonce`, and
nothing is claimed: `uniform_nonzero_below` ends with probability one and not in every
run, and whether HMAC ever gives an acceptable candidate is not up to this code.
`SigningEnds` of `EcdsaSigner` is about the calls that have their nonce.

`RunEnds` assumes that `bench_all` runs on (`WF_vars(Proceed)`): it has one thread and
waits for nothing. Failures of OpenSSL and exceptions are not in `Proceed`, so that
the end does not depend on one.

`KeygenEnds` of `Paillier` assumes weak fairness of the steps without a draw
(`TestSize`, `Invert`), and of the draws that the
largest prime is drawn for p again and again, and that q does not equal p, or
miss its size, forever: draws are independent and uniform, so that either
exception has probability zero. Strong fairness is needed because the loops
leave and re-enter the states where the draw is possible. For a size b for which
2^b - 1 is not prime, the condition would name another draw.

Deadlock is checked wherever the system can always go on. It is not in the runs
of one call (`BeaverMul`, `ScalarMul`, `EcdsaVerify`) or of boundedly many
(`Rfc6979`, `Paillier`), which end, nor in the debug build, which may abort, nor in
`Bench`, a program that ends.

## Findings

1. `TecdsaZeroR`: a presign with `r` = 0 is neither refused by
   `threshold_presign` (`src/tecdsa.cpp:45`) nor by `threshold_sign`, while
   `tests/test_tecdsa.cpp:131` checks `sig.r >= 1`. `verify` refuses the result,
   and `sign_with_hash` throws in this case.
2. `TecdsaOtherKey`: the signature is "verifiable under the joint public key
   key.Q" (`include/tecdsa.hpp:84`) only if the presign was made for that key; the
   key argument is discarded (`src/tecdsa.cpp:110`).
3. `TecdsaZeroMask`: `mod_inv` is called with zero when the mask is zero
   (`src/tecdsa.cpp:85`), against `include/field.hpp:58`. In a release build no
   harm follows, which is the point of `InverseOrZero` and
   `ThrowsWhenDegenerate`: whatever the undefined inverse, the shares of the
   "inverse" sum to zero, so `s` is zero and `threshold_sign` throws.

Smaller observations, none of them against what a run checks:

- Low s is a convention of the signers only: `verify` accepts (r, n - s) with (r, s)
  (`src/ecdsa.cpp:80`), as `AcceptsExactlySignatures` implies, although the comment on
  `normalize_low_s` (`src/ecdsa.cpp:14`) speaks of eliminating malleability.
- `include/paillier.hpp:41` says that key generation is seeded from the project's `Rng`;
  `src/paillier.cpp:53` seeds a generator of its own from the system.
- The benchmark's scenarios C1 and C3 sign with the same presigns
  (`bench/bench_all.cpp:290` and `:337`), so that each nonce is used twice.
  `NonceSignsOneDigest` shows that both uses sign the same digest for the same key.
- `opts.iterations + kWarmup` overflows for counts above INT_MAX - 10
  (`bench/bench_all.cpp:175`), which is undefined behaviour; `IndicesInPools` excepts exactly
  these counts, and says nothing of them.
- `-n junk` ends the program with an uncaught exception of `std::stoi`
  (`bench/bench_all.cpp:98`), while a positional `junk` is reported (`:111`).
- The median is the upper of the two middle samples (`include/bench_util.hpp:71`),
  while `tools/make_phase6_outputs.py` takes their mean.

## What is proved

All theorems hold for every value of the constants under the named assumptions:
`EcGroup`'s four for the curve (`FieldIsPrime`, `OrderIsPrime`, `AdditionAssociates`,
`GeneratorHasOrderN`), `ParametersInRange`, and `ModulusAssumption`, `DrawsAssumption`,
`CallerAssumption`, `SignerAssumption`, `VerifyAssumption`, `MaxScalarAssumption`,
`Sha256Assumption`, `Rfc6979Assumption`, `PaillierAssumption` and `BenchAssumption` for draws, callers,
arguments and sizes, with `LeftoversAssumption` for a failed inversion.
`BertrandsPostulate` is the theorem of that name for the numbers `gen_prime` may draw;
it only serves to say that a next prime exists. TLC evaluates each of them in the
runs. Those on the curve are not proved of secp256k1; of the group laws only the
associative one is assumed. "Every curve" below means every curve that satisfies
`EcGroup`'s assumptions. The curve of the `ScalarMul` run does not: its order, 12, is not
prime, as the points of small order it is there for require. What that run shows
of points of composite order is TLC's word alone.

- `ArithmeticTheorems` does the arithmetic once: `Cong` is congruence modulo m,
  `Computes(v, t, m)` says that v is the residue of the integer t, and the lemmas
  say that each function of `field.hpp` computes the integer operation it stands
  for. `ReduceIsModulo` shows that `reduce` is right on negative integers. It also
  holds what the other modules need for induction: `SetInduction` says of a set what
  an induction rule says of a predicate, and `RecursionOnNat` and `RecursionUpTo` say
  that a function defined by recursion satisfies its equation. And the dealer's
  triples are genuine (`DealtTriplesAreGenuine`) and a multiplication with one returns
  shares of the product (`BeaverMulMultiplies`), by expanding both sides to integer
  polynomials.
- `EcdsaTheorems` argues about points in three layers. The curve: `point_add` and
  `point_double` stay on it (`ChordPoint` computes the third intersection of a line
  from the remainders the code computes), addition commutes, and a point and
  `point_neg` of it cancel. Repeated addition, `times(m, A)`: it adds and multiplies
  its scalars (`TimesAdds`, `TimesMultiplies`, from `AdditionAssociates`). The code's
  double-and-add: after i rounds the accumulators are the multiples that
  `Tracks` says, hence `ScalarMulIsTimes`. From these and `GeneratorHasOrderN` follow
  the laws of the multiples of G (`MultiplesAdd`, `MultiplesMultiply`,
  `MultiplesNegate`) that the signing arguments use. The residues modulo n are a field
  (from `OrderIsPrime`), and the one argument about signatures is that the point
  `verify` computes for a solution s of s k = z + r d is k G (`VerifyPoint`), and that
  the low s is that solution or its negative, whose point has the same x. So a nonzero
  solution verifies (`SolutionVerifies`), and in particular the standard signature does
  (`StandardSignatureVerifies`).
- `CallTheorems` is about the three functions modelled as one call each. `beaver_mul`:
  its invariants, the privacy statement included: for a guess of the other party's
  shares the one triple that explains it is exhibited, and shown to be the only one.
  `scalar_mul`:
  the four invariants, from `MInv`, which says of every round what `Tracks` says, and
  of the call that the scalar and the point it works on still give the caller's
  multiple. `verify`: `AcceptsExactlySignatures` in both directions. Its invariant
  `VInv` says what u1 and u2 are when the comparison is reached; the comparison then
  decides the signing equation, since x -> x G is one to one on the residues as far as
  infinity goes, and s has exactly one nonce.
- `EcdsaSignerTheorems`: all invariants of the single signer and its refinement of
  the abstract one, without condition. The invariant `SInv` adds that `drbg` is a
  function and that every signature of the history is the standard one for a
  point of it: without them neither `SignaturesVerify` nor
  `SignaturesAreFunctions` is inductive, for the history does not record nonces.
- `TecdsaTheorems`: the inductive invariant `IInv`, that is the type invariant,
  `SharesAreSound` (that presigning never throws included: a product of two nonzero
  residues is none modulo a prime, and only 0 G is at infinity), `LocalsAreSound`,
  `InverseOrZero` and `CallIsSound`.
  The checked invariants are not inductive alone: `InverseOrZero` needs the
  genuine triple of `LocalsAreSound` and the shares of `SharesAreSound`, and each
  needs `CallIsSound`, which ties `pc` to the call record and the call to
  objects that have been made, so that no key or presign in use is made anew.
  One lemma per action keeps it. `ThrowsWhenDegenerate` follows as an action
  property: the opened value is the product of two residues, zero only when one
  of them is. With the key a presign was made for (`~AnyKey`), the result is the low
  form of the solution for the joint secret and the joint nonce (`SignedSolves`),
  hence `TecdsaSignedVerifies`.
- `TecdsaImplementsStandardSigner`: every step of the two-party signer is one of the
  abstract signer that holds the joint secret, or a stutter. It has two conditions,
  and neither can be dropped: with `AnyKey` the signature is another key's
  (`TecdsaOtherKey`), and a presign with r = 0, against `PresignsUsable`, makes a
  signature where the abstract signer fails (`TecdsaZeroR`).
- `Rfc6979Theorems`: all invariants of `derive_nonce` and its refinement of
  `NonceFunction`. `RInv` says that `mac` is the graph of a function of padded
  buffers, and what each stage of a call has asked of it. Octet strings are
  positional numerals: they determine their integer (`SeedsDiffer`), cutting them
  shifts it (`CandidateIsLeftmostBits`), and a padded message is decoded from its end
  (`BuffersAreSound`). For the refinement, the invariant keeps for every nonce the
  walk through `mac` that led to it; a second call with the same input asks the same
  questions in turn and gets the old answers, so that its walk ends alike
  (`WalksEndAlike`).
- `BenchTheorems`: every invariant of the benchmark, for every command line and
  every number of iterations and warm-up rounds. The invariant `BInv` gives the
  content of each pool in closed form (row k comes from draws 5k - 4 to 5k), and splits
  the signatures made into those of a row and those of C2, whose nonces were drawn
  after the pools. `ScenariosCompareAlike` adds the digests each loop has passed,
  in order; `ParsesLastCount` adds where the parser stands in the command line, and
  needs that no flag is a number (`BenchAssumption`). For `StatsDescribeSamples`, the
  invariant says that the timed loop has one sample per round and that afterwards
  `stats` is `summarize` of them (`SamplesSummarized`); the rest is about `summarize`,
  for any sequence of integers (`SummaryDescribes`):
  - `SumFunction` adds in an order of its choice; any element may come last
    (`AnyElementLast`), so it is the running sum (`SumFunctionRuns`);
  - with n samples, their sum S and the sum Q of their squares, the n squares of
    n t - S add up to n (n Q - S^2), and the squared differences of all pairs to
    n Q - S^2 (`DeviationsFromConstant`, `DifferencesBetween`);
  - a sorted order exists for every length (`OrderExists`), and the middle of it has at
    most half of the samples on a side (`MiddleIsMedian`).
  A mean and a variance are fractions with their denominators, so that the theorem
  also says that nothing is divided by zero, with one sample in particular.

- `PaillierTheorems`: every invariant of `Paillier`, for every size of primes and every
  unit. None of them is inductive alone: that a ciphertext decrypts says nothing of
  its sum with another one, and nothing follows for a key from its size. `PaillierInv`
  has three parts. `StagesInv`: what `generate_keys` knows of p and q when it reaches
  each of its tests. `KeyWorks`: what is left of the primes once they are
  forgotten, namely that mu inverts lambda modulo N and that lambda takes every unit to 1.
  `Decryptable`: a ciphertext c of x *stands for* x, that is, c^lambda = 1 + x lambda N
  modulo N^2.
  Standing for a plaintext is kept by products and powers, and `decrypt` inverts it.
  - `FermatsLittleTheorem`, by the product of all residues; hence r^lambda = 1 modulo
    p, q and N for a unit r, and (r^N)^lambda = 1 modulo N^2.
  - (1 + N)^k = 1 + kN modulo N^2, hence Lval = lambda modulo N.
  - Neither prime divides the other less one: the quotient would be 1, as they have
    one size, and then one of them would be even. So lambda is prime to N
    (`LambdaIsInvertible`, hence `MuAlwaysExists`), which is what the
    retry for q = p is for.
  - For injectivity, `decrypt` gives the plaintext back, and a power gives the unit
    back modulo N, as lambda is invertible and takes units to 1.
  - What the model says of GMP is shown as well: `powm`, which squares and multiplies,
    is the recursive power (`PowmIsPower`), and `gcd`, a CHOOSE, has what it promises.

Only model-checked:

- every liveness property (both `SigningEnds`, `KeygenEnds`, `RunEnds`), and that
  actions are enabled: the prover has no rule for fairness;
- `ReturnsFirstCandidate`, whose reference definition asks HMAC's answers round by round;
- what happens on a curve of composite order (`ScalarMul`);
- that addition of points associates, and that the orders in use are prime, which are
  assumptions TLC evaluates for the curves of the runs.

## What is not modelled

- The compression function of SHA-256, which is an unknown function of the padded
  message: its properties are cryptographic, or those of its test vectors.
- In `hmac_sha256`, the masks 0x36 and 0x5c, the outer hash as a step of its own, and
  keys longer than a block: `derive_nonce` passes keys of one hash.
- `Rng`'s seeding, and `fill_bytes`, which nothing in the repository calls.
- `sign` and the overloads that only hash a message first.
- Timing, randomness as probability, the layout of the tables, cycle counts (a
  second sample, treated as the first), exceptions' texts, the tests (read for
  what they claim), `hello_gmp.cpp` and `tools/make_phase6_outputs.py`.

## Plan

Done: every module above, and the theorems. What would come next:

1. `ReturnsFirstCandidate`, from the walks through `mac` that `Rfc6979Theorems` keeps.
2. That `point_add` associates (`AdditionAssociates` of `EcGroup`), from the
   remainders the lemmas on chords and tangents already compute.
