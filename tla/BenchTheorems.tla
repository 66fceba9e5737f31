--------------------------- MODULE BenchTheorems ---------------------------
(***************************************************************************)
(* The invariants of Bench, for every number of iterations and warm-up     *)
(* rounds, every command line and every size of int.                       *)
(***************************************************************************)
EXTENDS Bench, ArithmeticTheorems, SequenceTheorems, FiniteSetTheorems

PoolVectors == Vectors \ {"beaver_shares"}

(* The k-th round of the loop that fills the pools, counted from 1. *)
entry(k) ==
  [single_keys |-> 5 * k - 4, coSigner_keys |-> 5 * k - 3,
   threshold_keys |-> 5 * k - 2,
   threshold_presigns |-> [key |-> 5 * k - 2, nonce |-> 5 * k - 1],
   hashes |-> k - 1, nonces_k |-> 5 * k, nonces_r |-> 5 * k,
   openssl_keys |-> k - 1]

Inputs == Nat \cup [key : Nat, nonce : Nat]

size == Len(pool.hashes)

(* The vectors have one length and belong together row by row. *)
PoolsAligned ==
  /\ \A v \in PoolVectors :
       /\ pool[v] \in Seq(Inputs)
       /\ Len(pool[v]) = size
       /\ \A k \in 1..size : pool[v][k] = entry(k)[v]
  /\ pool.beaver_shares \in Seq(Nat)
  /\ drawn >= 5 * size
  /\ pc = "cli" => size = 0
  /\ pc \in {"cli", "pools"} => drawn = 5 * size /\ uses = {} /\ results = <<>>

(* The loops have run as far as total says. *)
running == {"warmup", "timed", "shares"}

LoopsBounded ==
  /\ pc \in {"pools", "undefined"} \cup running => total = total_of(opts.iterations)
  /\ pc \in running => size >= total
  /\ pc \in {"warmup", "timed"} => Len(results) <= 6
  /\ pc = "shares" => Len(results) = 6
  /\ pc \in {"warmup", "timed"} /\ Len(results) = 6 => Len(pool.beaver_shares) >= total

(* A nonce from the pools is that of its row; a nonce of C2 was drawn      *)
(* after the pools, and for one signature.                                 *)
Signatures == [key : Nat, secret : Nat, nonce : Nat, r : Nat, digest : Nat]

row_signatures(k) ==
  {[key |-> 5 * k - 4, secret |-> 5 * k - 4, nonce |-> 5 * k, r |-> 5 * k,
    digest |-> k - 1],
   [key |-> 5 * k - 2, secret |-> 5 * k - 2, nonce |-> 5 * k - 1, r |-> 5 * k - 1,
    digest |-> k - 1]}

UsesAreOfRows ==
  /\ uses \subseteq Signatures
  /\ \A u \in uses :
       \/ \E k \in 1..size : u \in row_signatures(k)
       \/ /\ 5 * size < u.nonce /\ u.nonce <= drawn
          /\ u.secret = u.key /\ u.r = u.nonce
  /\ \A u, v \in uses : 5 * size < u.nonce /\ u.nonce = v.nonce => u = v

BInv == TypeOK /\ PoolsAligned /\ LoopsBounded /\ UsesAreOfRows /\ IndicesInPools

LEMMA IntRange ==
  INT_MAX \in Nat /\ kWarmup \in 1..INT_MAX /\ kIterations \in 1..INT_MAX /\ ints \subseteq Int
BY BenchAssumption DEF ints

LEMMA InitEstablishesBInv == Init => BInv
<1> SUFFICES ASSUME Init PROVE BInv
  OBVIOUS
<1>1. TypeOK
  BY BenchAssumption DEF Init, TypeOK, ints, Scenarios
<1>2. PoolsAligned
  BY DEF Init, PoolsAligned, PoolVectors, Vectors, size, Inputs
<1>3. LoopsBounded /\ UsesAreOfRows /\ IndicesInPools
  BY DEF Init, LoopsBounded, UsesAreOfRows, IndicesInPools, running
<1>4. QED
  BY <1>1, <1>2, <1>3 DEF BInv

CliOptions == [iterations : ints, markdown : BOOLEAN, csv : BOOLEAN]

LEMMA CliOptionsUpdated ==
  \A o \in CliOptions :
    /\ \A x \in BOOLEAN : [o EXCEPT !.csv = x] \in CliOptions
    /\ [o EXCEPT !.markdown = TRUE] \in CliOptions
    /\ \A x \in ints : /\ [o EXCEPT !.iterations = x] \in CliOptions
                       /\ [o EXCEPT !.iterations = x].iterations = x
BY DEF CliOptions

LEMMA ParseKeepsBInv == BInv /\ Parse => BInv'
<1> SUFFICES ASSUME BInv, Parse PROVE BInv'
  OBVIOUS
<1>0. pc = "cli" /\ pc' \in {"cli", "exit 0", "exit 1", "terminated"}
      /\ UNCHANGED <<inputs, drawn, i, times, used, measured, uses, rows>>
  BY DEF Parse, ParseMd, ParseCount, ParseCsv, ParseHelp, ParsePositional,
         SetIterations, parsing, BInv, TypeOK
<1>1. parsing /\ argv' = argv
  BY DEF Parse, ParseMd, ParseCount, ParseCsv, ParseHelp, ParsePositional
<1>2. argv \in Seq(Words) /\ arg \in 1..Len(argv)
  BY <1>1 DEF BInv, TypeOK, parsing
<1>3. word \in Words /\ (arg + 1 <= Len(argv) => argv[arg + 1] \in Words)
  BY <1>2 DEF word
<1>4. \A w \in Words : stoi[w] # NoInt => stoi[w] \in ints
  BY BenchAssumption
<1>5. opts' \in CliOptions
  <2>1. opts \in CliOptions
    BY DEF BInv, TypeOK, CliOptions
  <2>2. \A w \in Words : \A next, failure :
          SetIterations(w, next, failure) => opts' \in CliOptions
    BY <1>4, <2>1, CliOptionsUpdated DEF SetIterations
  <2>3. CASE ParseMd \/ ParseCsv
    BY <2>1, <2>3, CliOptionsUpdated DEF ParseMd, ParseCsv, names_file
  <2>4. CASE ParseCount
    BY <1>3, <2>2, <2>4 DEF ParseCount, flag_with_value
  <2>5. CASE ParseHelp
    BY <2>1, <2>5 DEF ParseHelp
  <2>6. CASE ParsePositional
    BY <1>3, <2>2, <2>6 DEF ParsePositional
  <2>7. QED
    BY <2>3, <2>4, <2>5, <2>6 DEF Parse
<1>6. arg' \in Nat \ {0}
  <2>1. \A w, next, failure :
          SetIterations(w, next, failure) => arg' \in {arg, next}
    BY DEF SetIterations
  <2>2. arg' \in {arg, arg + 1, arg + 2}
    BY <2>1 DEF Parse, ParseMd, ParseCount, ParseCsv, ParseHelp, ParsePositional
  <2>3. QED
    BY <1>2, <2>2
<1>7. TypeOK'
  BY <1>0, <1>1, <1>5, <1>6 DEF CliOptions, BInv, TypeOK, inputs, measured
<1>8. PoolsAligned' /\ LoopsBounded' /\ UsesAreOfRows' /\ IndicesInPools'
  BY <1>0 DEF BInv, PoolsAligned, LoopsBounded, UsesAreOfRows, IndicesInPools, inputs,
              measured, running, size
<1>9. QED
  BY <1>7, <1>8 DEF BInv

LEMMA EndParseKeepsBInv == BInv /\ EndParse => BInv'
<1> SUFFICES ASSUME BInv, EndParse PROVE BInv'
  OBVIOUS
<1>1. opts \in CliOptions
  BY DEF BInv, TypeOK, CliOptions
<1>2. at_least_one(opts.iterations) \in ints /\ at_least_one(opts.iterations) >= 1
  <2>1. opts.iterations \in ints /\ 1 \in ints
    BY <1>1, BenchAssumption DEF CliOptions, ints
  <2>2. QED
    BY <2>1 DEF at_least_one, ints
<1>3. opts' \in CliOptions /\ opts'.iterations >= 1
  BY <1>1, <1>2, CliOptionsUpdated DEF EndParse
<1>4. total' = total_of(opts'.iterations) /\ total' \in ints
  <2>1. opts'.iterations \in 1..INT_MAX
    BY <1>3, BenchAssumption DEF CliOptions, ints
  <2>2. QED
    BY <2>1, BenchAssumption DEF EndParse, total_of, int_sum, ints
<1>5. pc = "cli" /\ pc' = "pools"
      /\ UNCHANGED <<argv, arg, pool, drawn, i, times, used, measured, uses, rows>>
  BY DEF EndParse
<1>6. TypeOK'
  BY <1>3, <1>4, <1>5 DEF BInv, TypeOK, CliOptions, measured
<1>7. PoolsAligned' /\ UsesAreOfRows' /\ IndicesInPools'
  BY <1>5 DEF BInv, PoolsAligned, UsesAreOfRows, IndicesInPools, measured, size
<1>8. LoopsBounded'
  BY <1>4, <1>5 DEF LoopsBounded, running
<1>9. QED
  BY <1>6, <1>7, <1>8 DEF BInv

(* A round of the loop appends a row to each vector. *)
LEMMA PregenerateKeepsBInv == BInv /\ Pregenerate => BInv'
<1> SUFFICES ASSUME BInv, Pregenerate PROVE BInv'
  OBVIOUS
<1> DEFINE N == size
<1>1. /\ pc = "pools" /\ pc' = "pools" /\ N < total
      /\ UNCHANGED <<cli, total, i, times, used, measured, uses, rows>>
      /\ drawn' = drawn + 5
  BY DEF Pregenerate, filling, size
<1>2. drawn = 5 * N /\ uses = {} /\ results = <<>> /\ N \in Nat /\ DOMAIN pool = Vectors
  <2>1. "hashes" \in PoolVectors
    BY DEF PoolVectors, Vectors
  <2>2. QED
    BY <1>1, <2>1 DEF BInv, PoolsAligned, TypeOK, size
<1>3. round_of_inputs(drawn) = entry(N + 1)
  <2>1. "openssl_keys" \in PoolVectors
    BY DEF PoolVectors, Vectors
  <2>2. Len(pool.openssl_keys) = N
    BY <2>1 DEF BInv, PoolsAligned
  <2>3. Len(pool.hashes) = N
    BY DEF size
  <2>4. QED
    BY <1>2, <2>2, <2>3 DEF round_of_inputs, presign_drawn_after, entry
<1>4. \A v \in PoolVectors : entry(N + 1)[v] \in Inputs
  BY <1>2 DEF PoolVectors, Vectors, entry, Inputs
<1>5. \A v \in PoolVectors : pool'[v] = Append(pool[v], entry(N + 1)[v])
  BY <1>3 DEF Pregenerate, PoolVectors
<1>6. DOMAIN pool' = Vectors /\ pool'.beaver_shares = <<>>
  BY DEF Pregenerate, Vectors
<1>7. \A v \in PoolVectors :
        /\ pool'[v] \in Seq(Inputs)
        /\ Len(pool'[v]) = N + 1
        /\ \A k \in 1..(N + 1) : pool'[v][k] = entry(k)[v]
  <2> SUFFICES ASSUME NEW v \in PoolVectors
               PROVE  /\ pool'[v] \in Seq(Inputs)
                      /\ Len(pool'[v]) = N + 1
                      /\ \A k \in 1..(N + 1) : pool'[v][k] = entry(k)[v]
    OBVIOUS
  <2>1. /\ pool[v] \in Seq(Inputs) /\ Len(pool[v]) = N
        /\ \A k \in 1..N : pool[v][k] = entry(k)[v]
    BY DEF BInv, PoolsAligned
  <2>2. entry(N + 1)[v] \in Inputs
    BY <1>4
  <2>3. /\ Append(pool[v], entry(N + 1)[v]) \in Seq(Inputs)
        /\ Len(Append(pool[v], entry(N + 1)[v])) = N + 1
        /\ \A k \in 1..N : Append(pool[v], entry(N + 1)[v])[k] = pool[v][k]
        /\ Append(pool[v], entry(N + 1)[v])[N + 1] = entry(N + 1)[v]
    BY <2>1, <2>2, AppendProperties
  <2>4. ASSUME NEW k \in 1..(N + 1)
        PROVE  pool'[v][k] = entry(k)[v]
    <3>1. CASE k = N + 1
      BY <1>5, <2>3, <3>1
    <3>2. CASE k \in 1..N
      BY <1>5, <2>1, <2>3, <3>2
    <3>3. QED
      BY <1>2, <3>1, <3>2
  <2>5. QED
    BY <1>5, <2>3, <2>4
<1>8. size' = N + 1
  <2>1. "hashes" \in PoolVectors
    BY DEF PoolVectors, Vectors
  <2>2. QED
    BY <1>7, <2>1 DEF size
<1>9. PoolsAligned'
  <2>1. drawn' >= 5 * (N + 1) /\ drawn' = 5 * (N + 1)
    BY <1>1, <1>2
  <2>2. pool'.beaver_shares \in Seq(Nat)
    BY <1>6
  <2>3. uses' = {} /\ results' = <<>>
    BY <1>1, <1>2 DEF measured
  <2>4. QED
    BY <1>1, <1>7, <1>8, <2>1, <2>2, <2>3 DEF PoolsAligned
<1>10. TypeOK'
  BY <1>1, <1>2, <1>6 DEF BInv, TypeOK, cli, measured
<1>11. UsesAreOfRows' /\ LoopsBounded' /\ IndicesInPools'
  BY <1>1, <1>2 DEF BInv, UsesAreOfRows, LoopsBounded, IndicesInPools, cli, measured, running
<1>12. QED
  BY <1>9, <1>10, <1>11 DEF BInv

(* The steps that neither touch the pools nor sign. *)
LEMMA ExitKeepsBInv == BInv /\ (PregenerateFails \/ Uncaught \/ Report) => BInv'
<1> SUFFICES ASSUME BInv, PregenerateFails \/ Uncaught \/ Report PROVE BInv'
  OBVIOUS
<1>1. /\ pc' \in {"exit 0", "exit 1", "terminated"}
      /\ UNCHANGED <<cli, inputs, drawn, i, times, used, measured, uses>>
  <2>1. CASE PregenerateFails \/ Uncaught
    BY <2>1 DEF PregenerateFails, Uncaught
  <2>2. CASE Report
    BY <2>2, Zenon DEF Report
  <2>3. QED
    BY <2>1, <2>2
<1>2. TypeOK'
  BY <1>1 DEF BInv, TypeOK, cli, inputs, measured
<1>3. PoolsAligned' /\ LoopsBounded' /\ UsesAreOfRows' /\ IndicesInPools'
  BY <1>1 DEF BInv, PoolsAligned, LoopsBounded, UsesAreOfRows, IndicesInPools, inputs,
              measured, running, size
<1>4. QED
  BY <1>2, <1>3 DEF BInv

LEMMA EndPoolsKeepsBInv == BInv /\ EndPools => BInv'
<1> SUFFICES ASSUME BInv, EndPools PROVE BInv'
  OBVIOUS
<1>1. /\ pc = "pools" /\ pc' = "warmup" /\ size >= total
      /\ UNCHANGED <<cli, inputs, drawn, i, times, used, measured, uses, rows>>
  BY DEF EndPools, size
<1>2. TypeOK'
  BY <1>1 DEF BInv, TypeOK, cli, inputs, measured
<1>3. PoolsAligned' /\ UsesAreOfRows' /\ IndicesInPools'
  BY <1>1 DEF BInv, PoolsAligned, UsesAreOfRows, IndicesInPools, inputs, measured, size
<1>4. LoopsBounded'
  <2>1. Len(results') = 0
    BY <1>1 DEF BInv, PoolsAligned, measured
  <2>2. QED
    BY <1>1, <2>1 DEF BInv, LoopsBounded, running, inputs, cli, size
<1>5. QED
  BY <1>2, <1>3, <1>4 DEF BInv

LEMMA PrepareC3KeepsBInv == BInv /\ PrepareC3 => BInv'
<1> SUFFICES ASSUME BInv, PrepareC3 PROVE BInv'
  OBVIOUS
<1> DEFINE shares == [k \in 1..total |-> drawn + k]
<1>1. /\ pc = "shares" /\ pc' = "warmup"
      /\ pool' = [pool EXCEPT !.beaver_shares = shares]
      /\ drawn' = drawn + Len(pool'.beaver_shares)
      /\ UNCHANGED <<cli, total, i, times, used, measured, uses, rows>>
  BY DEF PrepareC3
<1>2. /\ TypeOK /\ PoolsAligned /\ LoopsBounded /\ UsesAreOfRows /\ IndicesInPools
      /\ drawn \in Nat /\ total \in Int
  <2>1. TypeOK /\ PoolsAligned /\ LoopsBounded /\ UsesAreOfRows /\ IndicesInPools
    BY DEF BInv
  <2>2. drawn \in Nat /\ total \in Int
    BY <2>1, IntRange DEF TypeOK
  <2>3. QED
    BY <2>1, <2>2
<1>3. shares \in Seq(Nat) /\ Len(shares) >= total
  <2>1. CASE total \in Nat
    BY <1>2, <2>1
  <2>2. CASE total \notin Nat
    <3>1. shares = <<>>
      BY <1>2, <2>2
    <3>2. <<>> \in Seq(Nat) /\ Len(<<>>) = 0
      OBVIOUS
    <3>3. 0 >= total
      BY <1>2, <2>2
    <3>4. QED
      BY <3>1, <3>2, <3>3, Zenon
  <2>3. QED
    BY <2>1, <2>2
<1> HIDE DEF shares
<1>4. DOMAIN pool' = Vectors /\ pool'.beaver_shares = shares
  BY <1>1, <1>2 DEF TypeOK, Vectors
<1>5. \A v \in PoolVectors : pool'[v] = pool[v]
  BY <1>1, <1>2 DEF TypeOK, PoolVectors
<1>6. size' = size
  <2>1. "hashes" \in PoolVectors
    BY DEF PoolVectors, Vectors
  <2>2. QED
    BY <1>5, <2>1 DEF size
<1>7. drawn' \in Nat /\ drawn' >= drawn
  BY <1>1, <1>2, <1>3, <1>4
<1>8. TypeOK'
  BY <1>1, <1>2, <1>4, <1>7 DEF TypeOK, cli, measured, LoopsBounded
<1>9. size \in Nat
  <2>1. "hashes" \in PoolVectors
    BY DEF PoolVectors, Vectors
  <2>2. QED
    BY <1>2, <2>1 DEF PoolsAligned, size
<1>10. PoolsAligned'
  <2>1. drawn' >= 5 * size'
    BY <1>2, <1>6, <1>7, <1>9 DEF PoolsAligned
  <2>2. pool'.beaver_shares \in Seq(Nat) /\ pc' = "warmup"
    BY <1>1, <1>3, <1>4
  <2>3. \A v \in PoolVectors :
          /\ pool'[v] \in Seq(Inputs)
          /\ Len(pool'[v]) = size'
          /\ \A k \in 1..size' : pool'[v][k] = entry(k)[v]
    BY <1>2, <1>5, <1>6 DEF PoolsAligned
  <2>4. QED
    BY <2>1, <2>2, <2>3 DEF PoolsAligned
<1>11. LoopsBounded'
  <2>1. Len(pool'.beaver_shares) >= total' /\ size' >= total'
    BY <1>1, <1>2, <1>3, <1>4, <1>6 DEF LoopsBounded, running
  <2>2. total' = total_of(opts'.iterations) /\ Len(results') = 6 /\ pc' = "warmup"
    BY <1>1, <1>2 DEF LoopsBounded, running, cli, measured
  <2>3. QED
    BY <2>1, <2>2 DEF LoopsBounded, running
<1>12. UsesAreOfRows' /\ IndicesInPools'
  <2>1. \A u \in uses : u.nonce \in Nat
    BY <1>2 DEF UsesAreOfRows, Signatures
  <2>2. QED
    BY <1>1, <1>2, <1>6, <1>7, <1>9, <2>1 DEF UsesAreOfRows, IndicesInPools, cli
<1>13. QED
  BY <1>8, <1>10, <1>11, <1>12 DEF BInv

LEMMA IdIsScenario ==
  ASSUME Len(results) <= 6, Len(results) \in Nat
  PROVE  id \in {"A0", "A1", "A2", "B", "C1", "C2", "C3"}
         /\ (id = "C3" => Len(results) = 6)
<1>1. \A k \in 0..6 :
        /\ Scenarios[k + 1] \in {"A0", "A1", "A2", "B", "C1", "C2", "C3"}
        /\ Scenarios[k + 1] = "C3" => k = 6
  <2> SUFFICES ASSUME NEW k \in 0..6
               PROVE  /\ Scenarios[k + 1] \in {"A0", "A1", "A2", "B", "C1", "C2", "C3"}
                      /\ Scenarios[k + 1] = "C3" => k = 6
    OBVIOUS
  <2>1. k = 0 \/ k = 1 \/ k = 2 \/ k = 3 \/ k = 4 \/ k = 5 \/ k = 6
    OBVIOUS
  <2>2. QED
    BY <2>1 DEF Scenarios
<1>2. \A m \in Nat : m <= 6 => m \in 0..6
  OBVIOUS
<1>3. Len(results) \in 0..6
  BY <1>2, Zenon
<1>4. QED
  BY <1>1, <1>3, Zenon DEF id

(* Every scenario reads the digests. *)
LEMMA ReadsFacts ==
  ASSUME id \in {"A0", "A1", "A2", "B", "C1", "C2", "C3"}
  PROVE  /\ "hashes" \in reads[id]
         /\ reads[id] \subseteq Vectors
         /\ "beaver_shares" \in reads[id] => id = "C3"
         /\ id = "A1" => {"nonces_k", "nonces_r", "single_keys"} \subseteq reads[id]
BY DEF reads, Vectors

(* Within the bounds of int, the pools have every index a loop reaches.    *)
LEMMA PoolsSuffice ==
  ASSUME BInv, pc \in {"warmup", "timed"}, Len(results) \in Nat,
         NEW k \in Nat, k < kWarmup + opts.iterations,
         opts.iterations + kWarmup <= INT_MAX
  PROVE  in_pools(k)
<1>1. total = opts.iterations + kWarmup /\ opts.iterations \in Int
  <2>1. opts.iterations \in Int
    BY IntRange DEF BInv, TypeOK
  <2>2. QED
    BY <2>1, IntRange DEF BInv, LoopsBounded, running, total_of, int_sum
<1>2. size >= total /\ size \in Nat
  <2>1. "hashes" \in PoolVectors
    BY DEF PoolVectors, Vectors
  <2>2. QED
    BY <2>1 DEF BInv, LoopsBounded, running, PoolsAligned, size
<1>3. SUFFICES ASSUME NEW v \in reads[id] PROVE k < Len(pool[v])
  BY DEF in_pools
<1>4. id \in {"A0", "A1", "A2", "B", "C1", "C2", "C3"}
      /\ (id = "C3" => Len(results) = 6)
  BY IdIsScenario DEF BInv, LoopsBounded
<1>5. CASE v = "beaver_shares"
  <2>1. Len(pool.beaver_shares) >= total /\ Len(pool.beaver_shares) \in Nat
    BY <1>4, <1>5, ReadsFacts DEF BInv, LoopsBounded, PoolsAligned
  <2>2. QED
    BY <1>1, <1>5, <2>1, IntRange
<1>6. CASE v # "beaver_shares"
  <2>1. v \in PoolVectors
    BY <1>4, <1>6, ReadsFacts DEF PoolVectors
  <2>2. Len(pool[v]) = size
    BY <2>1 DEF BInv, PoolsAligned
  <2>3. QED
    BY <1>1, <1>2, <2>2, IntRange
<1>7. QED
  BY <1>5, <1>6

(* What a round signs is of its row, or has the nonce just drawn. *)
LEMMA SignaturesOfRound ==
  ASSUME BInv, pc \in {"warmup", "timed"}, Len(results) \in Nat,
         NEW k \in Nat, in_pools(k)
  PROVE  /\ k + 1 \in 1..size
         /\ at("hashes", k) = k
         /\ IF id = "C2"
            THEN signatures(k) = {[key |-> 5 * (k + 1) - 2, secret |-> 5 * (k + 1) - 2,
                                   nonce |-> drawn + 1, r |-> drawn + 1, digest |-> k]}
            ELSE signatures(k) \subseteq row_signatures(k + 1)
<1>1. id \in {"A0", "A1", "A2", "B", "C1", "C2", "C3"}
  BY IdIsScenario DEF BInv, LoopsBounded
<1>2. PoolVectors = {"single_keys", "coSigner_keys", "threshold_keys",
                     "threshold_presigns", "hashes", "nonces_k", "nonces_r",
                     "openssl_keys"}
  BY DEF PoolVectors, Vectors
<1>3. k + 1 \in 1..size
  <2>1. size \in Nat
    BY <1>2 DEF BInv, PoolsAligned, size
  <2>2. k < size
    BY <1>1, ReadsFacts DEF in_pools, size
  <2>3. QED
    BY <2>1, <2>2
<1>4. \A v \in PoolVectors : at(v, k) = entry(k + 1)[v]
  BY <1>3 DEF BInv, PoolsAligned, at
<1>5. /\ at("hashes", k) = k
      /\ at("single_keys", k) = 5 * (k + 1) - 4
      /\ at("nonces_k", k) = 5 * (k + 1)
      /\ at("nonces_r", k) = 5 * (k + 1)
      /\ at("threshold_keys", k) = 5 * (k + 1) - 2
      /\ at("threshold_presigns", k) = [key |-> 5 * (k + 1) - 2, nonce |-> 5 * (k + 1) - 1]
  BY <1>2, <1>4 DEF entry
<1>6. CASE id = "C2"
  BY <1>3, <1>5, <1>6 DEF signatures, new_presign, threshold_sign
<1>7. CASE id # "C2"
  <2>1. standard_s_phase(k) \in row_signatures(k + 1)
    BY <1>5 DEF standard_s_phase, row_signatures
  <2>2. pooled_presign(k) \in row_signatures(k + 1)
    BY <1>5 DEF pooled_presign, threshold_sign, row_signatures
  <2>3. QED
    BY <1>3, <1>5, <1>7, <2>1, <2>2 DEF signatures
<1>8. QED
  BY <1>6, <1>7

LEMMA RoundKeepsUses ==
  ASSUME BInv, pc \in {"warmup", "timed"}, Len(results) \in Nat,
         NEW k \in Nat, in_pools(k),
         pool' = pool, uses' = uses \cup signatures(k),
         drawn' = IF id = "C2" THEN drawn + 1 ELSE drawn
  PROVE  UsesAreOfRows'
<1>1. UsesAreOfRows /\ drawn \in Nat /\ drawn >= 5 * size /\ size' = size
  BY DEF BInv, TypeOK, PoolsAligned, size
<1>2. k + 1 \in 1..size /\ size \in Nat
  <2>1. "hashes" \in PoolVectors
    BY DEF PoolVectors, Vectors
  <2>2. QED
    BY <2>1, SignaturesOfRound DEF BInv, PoolsAligned, size
<1>3. \A u \in uses : u \in Signatures /\ u.nonce \in Nat /\ u.nonce <= drawn
  <2> SUFFICES ASSUME NEW u \in uses
               PROVE  u \in Signatures /\ u.nonce \in Nat /\ u.nonce <= drawn
    OBVIOUS
  <2>1. u \in Signatures /\ u.nonce \in Nat
    BY <1>1 DEF UsesAreOfRows, Signatures
  <2>2. ASSUME NEW j \in 1..size, u \in row_signatures(j) PROVE u.nonce <= 5 * size
    BY <1>2, <2>2 DEF row_signatures
  <2>3. QED
    BY <1>1, <1>2, <2>1, <2>2 DEF UsesAreOfRows
<1>4. CASE id = "C2"
  <2> DEFINE made == [key |-> 5 * (k + 1) - 2, secret |-> 5 * (k + 1) - 2,
                      nonce |-> drawn + 1, r |-> drawn + 1, digest |-> k]
  <2>1. uses' = uses \cup {made} /\ drawn' = drawn + 1
    BY <1>4, SignaturesOfRound
  <2>2. /\ made \in Signatures /\ made.nonce = drawn + 1
        /\ made.secret = made.key /\ made.r = made.nonce
    BY <1>1, <1>2 DEF Signatures
  <2> HIDE DEF made
  <2>3. uses' \subseteq Signatures
    BY <1>3, <2>1, <2>2
  <2>4. \A u \in uses' :
          \/ \E j \in 1..size : u \in row_signatures(j)
          \/ /\ 5 * size < u.nonce /\ u.nonce <= drawn'
             /\ u.secret = u.key /\ u.r = u.nonce
    <3>1. CASE TRUE
      BY <1>1, <1>2, <1>3, <2>1, <2>2 DEF UsesAreOfRows
    <3>2. QED
      BY <3>1
  <2>5. \A u, v \in uses' : 5 * size < u.nonce /\ u.nonce = v.nonce => u = v
    BY <1>1, <1>3, <2>1, <2>2 DEF UsesAreOfRows
  <2>6. QED
    BY <1>1, <2>3, <2>4, <2>5 DEF UsesAreOfRows
<1>5. CASE id # "C2"
  <2>1. drawn' = drawn /\ signatures(k) \subseteq row_signatures(k + 1)
    BY <1>5, SignaturesOfRound
  <2>2. \A u \in row_signatures(k + 1) : u \in Signatures /\ u.nonce <= 5 * size
    BY <1>2 DEF row_signatures, Signatures
  <2>3. uses' \subseteq Signatures
    BY <1>3, <2>1, <2>2
  <2>4. \A u \in uses' :
          \/ \E j \in 1..size : u \in row_signatures(j)
          \/ /\ 5 * size < u.nonce /\ u.nonce <= drawn
             /\ u.secret = u.key /\ u.r = u.nonce
    BY <1>1, <1>2, <2>1 DEF UsesAreOfRows
  <2>5. \A u, v \in uses' : 5 * size < u.nonce /\ u.nonce = v.nonce => u = v
    <3>1. \A u \in uses' : 5 * size < u.nonce => u \in uses
      BY <1>2, <2>1, <2>2, <2>3 DEF Signatures
    <3>2. QED
      BY <1>1, <3>1 DEF UsesAreOfRows
  <2>6. QED
    BY <1>1, <2>1, <2>3, <2>4, <2>5 DEF UsesAreOfRows
<1>6. QED
  BY <1>4, <1>5

(* A round changes nothing that the other invariants speak of. *)
LEMMA RoundKeepsBInv == BInv /\ (Warmup \/ Time) => BInv'
<1> SUFFICES ASSUME BInv, Warmup \/ Time PROVE BInv'
  OBVIOUS
<1>1. /\ TypeOK /\ PoolsAligned /\ LoopsBounded /\ UsesAreOfRows /\ IndicesInPools
      /\ drawn \in Nat /\ i \in Nat /\ opts.iterations \in Int /\ Len(results) \in Nat
  <2>1. TypeOK /\ PoolsAligned /\ LoopsBounded /\ UsesAreOfRows /\ IndicesInPools
    BY DEF BInv
  <2>2. drawn \in Nat /\ i \in Nat
    BY <2>1 DEF TypeOK
  <2>3. opts.iterations \in Int
    BY <2>1, IntRange DEF TypeOK
  <2>4. Len(results) \in Nat
    BY <2>1, Zenon, LenProperties DEF TypeOK
  <2>5. QED
    BY <2>1, <2>2, <2>3, <2>4
<1>2. pc \in {"warmup", "timed"} /\ UNCHANGED <<cli, inputs, measured, rows>>
  BY DEF Warmup, Time
<1>3. PICK k \in Nat :
        /\ k < kWarmup + opts.iterations
        /\ \/ /\ in_pools(k)
              /\ uses' = uses \cup signatures(k)
              /\ drawn' = IF id = "C2" THEN drawn + 1 ELSE drawn
              /\ used' = Append(used, at("hashes", k))
              /\ pc' = pc /\ i' = i + 1
              /\ times' = times \/ \E t \in Times : times' = Append(times, t)
           \/ /\ ~in_pools(k)
              /\ pc' = "undefined"
              /\ UNCHANGED <<uses, drawn, used, i, times>>
  <2>1. CASE Warmup
    <3>1. i < kWarmup + opts.iterations
      BY <1>1, <1>2, <2>1, IntRange DEF Warmup, TypeOK
    <3>2. QED
      BY <1>1, <2>1, <3>1 DEF Warmup, Round
  <2>2. CASE Time
    <3>1. timed_index \in Nat /\ timed_index < kWarmup + opts.iterations
      BY <1>1, <2>2, IntRange DEF Time, timed_index
    <3>2. QED
      BY <2>2, <3>1 DEF Time, Round
  <2>3. QED
    BY <2>1, <2>2
<1>4. CASE in_pools(k)
  <2>1. at("hashes", k) = k
    BY <1>1, <1>2, <1>4, SignaturesOfRound
  <2>2. UsesAreOfRows'
    BY <1>1, <1>2, <1>3, <1>4, RoundKeepsUses DEF inputs
  <2>3. /\ used' \in Seq(Nat) /\ times' \in Seq(Times)
        /\ drawn' \in Nat /\ drawn' >= drawn
        /\ pc' = pc /\ i' \in Nat
    <3>1. used \in Seq(Nat) /\ times \in Seq(Times)
      BY <1>1 DEF TypeOK
    <3>2. used' = Append(used, k)
      BY <1>3, <1>4, <2>1
    <3>3. times' \in Seq(Times)
      BY <1>3, <1>4, <3>1
    <3>4. QED
      BY <1>1, <1>3, <1>4, <3>1, <3>2, <3>3
  <2>4. TypeOK'
    BY <1>1, <1>2, <2>3 DEF TypeOK, cli, inputs, measured
  <2>5. size \in Nat
    <3>1. "hashes" \in PoolVectors
      BY DEF PoolVectors, Vectors
    <3>2. QED
      BY <1>1, <3>1 DEF PoolsAligned, size
  <2>6. PoolsAligned'
    BY <1>1, <1>2, <1>3, <1>4, <2>3, <2>5 DEF PoolsAligned, inputs, size
  <2>7. LoopsBounded' /\ IndicesInPools'
    BY <1>1, <1>2, <1>3, <1>4 DEF LoopsBounded, IndicesInPools, cli, inputs, measured,
                                  running, size
  <2>8. QED
    BY <2>2, <2>4, <2>6, <2>7 DEF BInv
<1>5. CASE ~in_pools(k)
  <2>1. opts.iterations + kWarmup > INT_MAX
    BY <1>1, <1>2, <1>3, <1>5, PoolsSuffice, IntRange
  <2>2. pc' = "undefined" /\ UNCHANGED <<uses, drawn, used, i, times>>
    BY <1>3, <1>5
  <2>3. TypeOK'
    BY <1>1, <1>2, <2>2 DEF TypeOK, cli, inputs, measured
  <2>4. PoolsAligned' /\ LoopsBounded' /\ UsesAreOfRows'
    BY <1>1, <1>2, <2>2 DEF PoolsAligned, LoopsBounded, UsesAreOfRows, cli, inputs,
                            measured, running, size
  <2>5. IndicesInPools'
    BY <1>2, <2>1 DEF IndicesInPools, cli
  <2>6. QED
    BY <2>3, <2>4, <2>5 DEF BInv
<1>6. QED
  BY <1>4, <1>5

LEMMA EndWarmupKeepsBInv == BInv /\ EndWarmup => BInv'
<1> SUFFICES ASSUME BInv, EndWarmup PROVE BInv'
  OBVIOUS
<1>1. /\ pc = "warmup" /\ pc' = "timed" /\ i' = 0 /\ times' = <<>>
      /\ UNCHANGED <<cli, inputs, drawn, used, measured, uses, rows>>
  BY DEF EndWarmup
<1>2. TypeOK'
  BY <1>1 DEF BInv, TypeOK, cli, inputs, measured
<1>3. PoolsAligned' /\ LoopsBounded' /\ UsesAreOfRows' /\ IndicesInPools'
  BY <1>1 DEF BInv, PoolsAligned, LoopsBounded, UsesAreOfRows, IndicesInPools, cli,
              inputs, measured, running, size
<1>4. QED
  BY <1>2, <1>3 DEF BInv

LEMMA EndTimedKeepsBInv == BInv /\ EndTimed => BInv'
<1> SUFFICES ASSUME BInv, EndTimed PROVE BInv'
  OBVIOUS
<1>1. /\ pc = "timed" /\ i' = 0 /\ used' = <<>> /\ results' = Append(results, used)
      /\ pc' = CASE Len(results') = Len(Scenarios) -> "report"
                 [] Len(results') = 6 -> "shares"
                 [] OTHER -> "warmup"
      /\ UNCHANGED <<cli, inputs, drawn, times, uses, rows>>
  BY DEF EndTimed
<1>2. /\ results \in Seq(Seq(Nat)) /\ used \in Seq(Nat)
      /\ Len(results) \in Nat /\ Len(results) <= 6
  BY <1>1 DEF BInv, TypeOK, LoopsBounded
<1>3. results' \in Seq(Seq(Nat)) /\ Len(results') = Len(results) + 1
  BY <1>1, <1>2
<1>4. Len(Scenarios) = 7
  BY DEF Scenarios
<1>5. /\ pc' \in {"report", "shares", "warmup"}
      /\ pc' = "shares" => Len(results') = 6
      /\ pc' = "warmup" => Len(results') # 6 /\ Len(results') <= 6
  BY <1>1, <1>2, <1>3, <1>4
<1>6. TypeOK'
  BY <1>1, <1>2, <1>3, <1>4, <1>5 DEF BInv, TypeOK, cli, inputs
<1>7. PoolsAligned' /\ UsesAreOfRows' /\ IndicesInPools'
  BY <1>1, <1>5 DEF BInv, PoolsAligned, UsesAreOfRows, IndicesInPools, cli, inputs, size
<1>8. LoopsBounded'
  BY <1>1, <1>3, <1>5 DEF BInv, LoopsBounded, cli, inputs, running, size
<1>9. QED
  BY <1>6, <1>7, <1>8 DEF BInv

LEMMA SpecKeepsBInv == Spec => []BInv
<1>1. BInv /\ [Next]_vars => BInv'
  <2>1. ASSUME BInv, Next PROVE BInv'
    BY <2>1, ParseKeepsBInv, EndParseKeepsBInv, PregenerateKeepsBInv, ExitKeepsBInv,
       EndPoolsKeepsBInv, PrepareC3KeepsBInv, RoundKeepsBInv, EndWarmupKeepsBInv,
       EndTimedKeepsBInv DEF Next, Proceed
  <2>2. ASSUME BInv, UNCHANGED vars PROVE BInv'
    BY <2>2 DEF BInv, TypeOK, PoolsAligned, LoopsBounded, UsesAreOfRows, IndicesInPools,
                vars, running, size
  <2>3. QED
    BY <2>1, <2>2
<1>2. QED
  BY <1>1, InitEstablishesBInv, PTL DEF Spec

(* Indices stay inside the pools for every number of iterations, unless    *)
(* the sum with the warm-up rounds overflows (main).                       *)
THEOREM IndicesStayInPools == Spec => []IndicesInPools
<1>1. BInv => IndicesInPools
  BY DEF BInv
<1>2. QED
  BY <1>1, SpecKeepsBInv, PTL

LEMMA BInvImpliesSound == BInv => UsesAreSound
<1> SUFFICES ASSUME BInv, NEW u \in uses PROVE u.secret = u.key /\ u.r = u.nonce
  BY DEF UsesAreSound
<1>1. ASSUME NEW k \in 1..size, u \in row_signatures(k)
      PROVE  u.secret = u.key /\ u.r = u.nonce
  BY <1>1 DEF row_signatures
<1>2. QED
  BY <1>1 DEF BInv, UsesAreOfRows

(* However many iterations, threshold_sign is only called with a presign   *)
(* of its key argument, and the s-phase only with the r of its nonce.      *)
THEOREM UsesStaySound == Spec => []UsesAreSound
  BY BInvImpliesSound, SpecKeepsBInv, PTL

LEMMA BInvImpliesOneDigest == BInv => NonceSignsOneDigest
<1> SUFFICES ASSUME BInv, NEW u \in uses, NEW v \in uses, u.nonce = v.nonce
             PROVE  u.digest = v.digest /\ u.key = v.key
  BY DEF NonceSignsOneDigest
<1>1. UsesAreOfRows /\ size \in Nat
  <2>1. "hashes" \in PoolVectors
    BY DEF PoolVectors, Vectors
  <2>2. QED
    BY <2>1 DEF BInv, PoolsAligned, size
<1>2. CASE 5 * size < u.nonce
  BY <1>1, <1>2 DEF UsesAreOfRows
<1>3. CASE ~(5 * size < u.nonce)
  <2>1. PICK j \in 1..size : u \in row_signatures(j)
    BY <1>1, <1>3 DEF UsesAreOfRows
  <2>2. PICK k \in 1..size : v \in row_signatures(k)
    BY <1>1, <1>3 DEF UsesAreOfRows
  <2>3. QED
    BY <1>1, <2>1, <2>2 DEF row_signatures
<1>4. QED
  BY <1>2, <1>3

(* However many iterations, no nonce from rng signs two digests.           *)
THEOREM NonceStaysWithOneDigest == Spec => []NonceSignsOneDigest
  BY BInvImpliesOneDigest, SpecKeepsBInv, PTL

(* Every state of the driver has the types of TypeOK.                      *)
THEOREM BenchTypeCorrect == Spec => []TypeOK
<1>1. BInv => TypeOK
  BY DEF BInv
<1>2. QED
  BY <1>1, SpecKeepsBInv, PTL

-----------------------------------------------------------------------------
(* The digests of a scenario *)

first_digests(n) == [k \in 1..n |-> k - 1]

rounds == kWarmup + opts.iterations

(* A loop has used the digests in their order up to its index.             *)
DigestsInOrder ==
  /\ pc \in {"cli", "pools", "shares"} => i = 0 /\ used = <<>>
  /\ pc = "warmup" => i <= kWarmup /\ used = first_digests(i)
  /\ pc = "timed" => i <= opts.iterations /\ used = first_digests(kWarmup + i)
  /\ results # <<>> => opts.iterations >= 1
  /\ \A s \in 1..Len(results) : results[s] = first_digests(rounds)

LEMMA FirstDigests ==
  ASSUME NEW n \in Nat
  PROVE  /\ first_digests(n) \in Seq(Nat) /\ Len(first_digests(n)) = n
         /\ Append(first_digests(n), n) = first_digests(n + 1)
         /\ {first_digests(n)[k] : k \in 1..n} = 0..(n - 1)
         /\ Cardinality(0..(n - 1)) = n
<1> DEFINE s == first_digests(n)
<1>1. s \in Seq(Nat) /\ Len(s) = n /\ s = [k \in 1..n |-> k - 1]
  BY DEF first_digests
<1>2. Append(s, n) = first_digests(n + 1)
  <2>1. /\ Append(s, n) \in Seq(Nat) /\ Len(Append(s, n)) = n + 1
        /\ \A k \in 1..n : Append(s, n)[k] = s[k]
        /\ Append(s, n)[n + 1] = n
    BY <1>1, AppendProperties
  <2>2. /\ first_digests(n + 1) \in Seq(Nat) /\ Len(first_digests(n + 1)) = n + 1
        /\ \A k \in 1..(n + 1) : first_digests(n + 1)[k] = k - 1
    BY DEF first_digests
  <2>3. \A k \in 1..(n + 1) : Append(s, n)[k] = first_digests(n + 1)[k]
    BY <1>1, <2>1, <2>2
  <2> HIDE DEF s
  <2>4. QED
    BY <2>1, <2>2, <2>3, SeqEqual
<1>3. {s[k] : k \in 1..n} = 0..(n - 1)
  <2>1. \A k \in 1..n : s[k] = k - 1 /\ k - 1 \in 0..(n - 1)
    BY <1>1
  <2>2. \A d \in 0..(n - 1) : d + 1 \in 1..n /\ (d + 1) - 1 = d
    OBVIOUS
  <2> HIDE DEF s
  <2>3. QED
    BY <2>1, <2>2
<1>4. Cardinality(0..(n - 1)) = n
  <2>1. Cardinality(0..(n - 1)) = IF 0 > n - 1 THEN 0 ELSE (n - 1) - 0 + 1
    <3>1. 0 \in Int /\ n - 1 \in Int
      OBVIOUS
    <3>2. QED
      BY <3>1, FS_Interval, Zenon
  <2>2. QED
    BY <2>1
<1>5. QED
  BY <1>1, <1>2, <1>3, <1>4

LEMMA IterationsInInt ==
  ASSUME BInv
  PROVE  opts.iterations \in Int
<1>1. TypeOK
  BY DEF BInv
<1>2. QED
  BY <1>1, IntRange DEF TypeOK

LEMMA RoundKeepsOrder ==
  ASSUME BInv, DigestsInOrder, Warmup \/ Time
  PROVE  DigestsInOrder'
<1>1. /\ opts.iterations \in Int /\ i \in Nat /\ kWarmup \in Nat /\ Len(results) \in Nat
      /\ pc \in {"warmup", "timed"} /\ pc \notin {"cli", "pools", "shares"}
      /\ opts' = opts /\ results' = results
  <2>1. opts.iterations \in Int /\ i \in Nat /\ kWarmup \in Nat
    <3>1. i \in Nat
      BY DEF BInv, TypeOK
    <3>2. QED
      BY <3>1, IterationsInInt, IntRange
  <2>2. Len(results) \in Nat
    BY Zenon, LenProperties DEF BInv, TypeOK
  <2>3. QED
    BY <2>1, <2>2 DEF Warmup, Time, cli, measured
<1>2. /\ \A s \in 1..Len(results') : results'[s] = first_digests(rounds)'
      /\ results' # <<>> => opts'.iterations >= 1
  BY <1>1 DEF DigestsInOrder, rounds, first_digests
<1>3. CASE pc' = "undefined"
  BY <1>2, <1>3 DEF DigestsInOrder
<1>4. CASE Warmup /\ pc' # "undefined"
  <2>1. /\ pc = "warmup" /\ pc' = "warmup" /\ in_pools(i) /\ i < kWarmup
        /\ i' = i + 1 /\ used' = Append(used, at("hashes", i))
    BY <1>4 DEF Warmup, Round
  <2>2. at("hashes", i) = i /\ used = first_digests(i)
    BY <1>1, <2>1, SignaturesOfRound DEF DigestsInOrder
  <2>3. used' = first_digests(i')
    BY <1>1, <2>1, <2>2, FirstDigests
  <2>4. i' <= kWarmup
    BY <1>1, <2>1
  <2>5. QED
    BY <1>2, <2>1, <2>3, <2>4 DEF DigestsInOrder
<1>5. CASE Time /\ pc' # "undefined"
  <2>1. /\ pc = "timed" /\ pc' = "timed" /\ in_pools(kWarmup + i) /\ i < opts.iterations
        /\ i' = i + 1 /\ used' = Append(used, at("hashes", kWarmup + i))
    BY <1>5 DEF Time, Round, timed_index
  <2>2. kWarmup + i \in Nat /\ kWarmup + i' = (kWarmup + i) + 1 /\ i' <= opts'.iterations
    BY <1>1, <2>1
  <2>3. at("hashes", kWarmup + i) = kWarmup + i /\ used = first_digests(kWarmup + i)
    BY <1>1, <2>1, <2>2, SignaturesOfRound DEF DigestsInOrder
  <2>4. used' = first_digests(kWarmup + i')
    BY <2>1, <2>2, <2>3, FirstDigests
  <2>5. QED
    BY <1>2, <2>1, <2>2, <2>4 DEF DigestsInOrder
<1>6. QED
  BY <1>3, <1>4, <1>5

LEMMA DigestsStayInOrder ==
  ASSUME BInv, DigestsInOrder, [Next]_vars
  PROVE  DigestsInOrder'
<1>0. Len(results) \in Nat
  BY Zenon, LenProperties DEF BInv, TypeOK
<1>1. ASSUME opts' = opts, results' = results
      PROVE  \A s \in 1..Len(results') : results'[s] = first_digests(rounds)'
  BY <1>1 DEF DigestsInOrder, rounds, first_digests
<1>2. CASE Parse \/ EndParse
  <2>1. pc = "cli" /\ i' = i /\ used' = used /\ results' = results
    BY <1>2 DEF Parse, EndParse, ParseMd, ParseCount, ParseCsv, ParseHelp,
                ParsePositional, parsing, measured
  <2>2. results = <<>>
    BY <2>1 DEF BInv, PoolsAligned
  <2>3. pc' \notin {"warmup", "timed"}
    BY <1>2 DEF Parse, EndParse, ParseMd, ParseCount, ParseCsv, ParseHelp,
                ParsePositional, parsing, SetIterations
  <2>4. QED
    BY <2>1, <2>2, <2>3 DEF DigestsInOrder
<1>3. CASE Pregenerate \/ PregenerateFails \/ Uncaught \/ Report
  <2>1. /\ i' = i /\ used' = used /\ opts' = opts /\ results' = results
        /\ \/ pc' = "pools" /\ pc = "pools"
           \/ pc' \in {"exit 0", "exit 1", "terminated"}
    <3>1. CASE Pregenerate
      BY <3>1 DEF Pregenerate, filling, cli, measured
    <3>2. CASE PregenerateFails \/ Uncaught
      BY <3>2 DEF PregenerateFails, Uncaught, cli, measured
    <3>3. CASE Report
      BY <3>3, Zenon DEF Report, cli, measured
    <3>4. QED
      BY <1>3, <3>1, <3>2, <3>3
  <2>2. QED
    BY <1>1, <2>1 DEF DigestsInOrder
<1>4. CASE EndPools \/ PrepareC3
  <2>1. /\ pc \in {"pools", "shares"} /\ pc' = "warmup"
        /\ i' = i /\ used' = used /\ opts' = opts /\ results' = results
    BY <1>4 DEF EndPools, PrepareC3, cli, measured
  <2>2. i = 0 /\ used = <<>> /\ first_digests(0) = <<>> /\ 0 <= kWarmup
    BY <2>1, IntRange DEF DigestsInOrder, first_digests
  <2>3. QED
    BY <1>1, <2>1, <2>2 DEF DigestsInOrder
<1>5. CASE Warmup \/ Time
  BY <1>5, RoundKeepsOrder
<1>6. CASE EndWarmup
  <2>1. /\ pc = "warmup" /\ pc' = "timed" /\ i >= kWarmup /\ i' = 0
        /\ used' = used /\ opts' = opts /\ results' = results
    BY <1>6 DEF EndWarmup, cli, measured
  <2>2. i = kWarmup /\ kWarmup + 0 = kWarmup /\ 0 <= opts.iterations
    <3>1. i \in Nat /\ kWarmup \in Nat /\ opts.iterations \in Int /\ opts.iterations >= 1
      BY <2>1, IterationsInInt, IntRange DEF BInv, TypeOK
    <3>2. i <= kWarmup
      BY <2>1 DEF DigestsInOrder
    <3>3. QED
      BY <2>1, <3>1, <3>2
  <2>3. QED
    BY <1>1, <2>1, <2>2 DEF DigestsInOrder
<1>7. CASE EndTimed
  <2>1. /\ pc = "timed" /\ i >= opts.iterations /\ i' = 0 /\ used' = <<>>
        /\ results' = Append(results, used) /\ opts' = opts
    BY <1>7 DEF EndTimed, cli
  <2>2. used = first_digests(rounds)
    <3>1. i = opts.iterations
      <4>1. i \in Nat /\ opts.iterations \in Int
        BY IterationsInInt DEF BInv, TypeOK
      <4>2. i <= opts.iterations
        BY <2>1 DEF DigestsInOrder
      <4>3. QED
        BY <2>1, <4>1, <4>2
    <3>2. QED
      BY <2>1, <3>1 DEF DigestsInOrder, rounds
  <2>3. \A s \in 1..Len(results') : results'[s] = first_digests(rounds)
    <3>1. /\ Len(results') = Len(results) + 1 /\ results'[Len(results) + 1] = used
          /\ \A s \in 1..Len(results) : results'[s] = results[s]
      <4>1. results \in Seq(Seq(Nat)) /\ used \in Seq(Nat)
        BY DEF BInv, TypeOK
      <4>2. QED
        BY <2>1, <4>1, AppendProperties
    <3>2. QED
      BY <1>0, <2>2, <3>1 DEF DigestsInOrder
  <2>4. pc' \in {"report", "shares", "warmup"}
    BY <1>7 DEF EndTimed
  <2>5. first_digests(0) = <<>> /\ 0 <= kWarmup
    BY IntRange DEF first_digests
  <2>6. first_digests(rounds)' = first_digests(rounds)
    BY <2>1 DEF first_digests, rounds
  <2>7. opts'.iterations >= 1
    BY <2>1 DEF BInv, TypeOK
  <2>8. QED
    BY <2>1, <2>3, <2>4, <2>5, <2>6, <2>7 DEF DigestsInOrder
<1>8. CASE UNCHANGED vars
  BY <1>1, <1>8 DEF vars, DigestsInOrder
<1>9. QED
  BY <1>2, <1>3, <1>4, <1>5, <1>6, <1>7, <1>8 DEF Next, Proceed

(* However many iterations, every scenario times the same digests, each    *)
(* once, and warms up on others.                                           *)
THEOREM ScenariosStayComparable == Spec => []ScenariosCompareAlike
<1>1. Init => DigestsInOrder
  BY DEF Init, DigestsInOrder
<1>2. BInv /\ DigestsInOrder => ScenariosCompareAlike
  <2> SUFFICES ASSUME BInv, DigestsInOrder, NEW s \in 1..Len(results)
               PROVE  /\ Len(results[s]) = kWarmup + opts.iterations
                      /\ Cardinality({results[s][k] : k \in 1..Len(results[s])})
                           = Len(results[s])
                      /\ results[s] = results[1]
    BY DEF ScenariosCompareAlike
  <2>1. Len(results) \in Nat
    BY Zenon, LenProperties DEF BInv, TypeOK
  <2>2. results[s] = first_digests(rounds) /\ results[1] = first_digests(rounds)
    BY <2>1 DEF DigestsInOrder
  <2>3. rounds \in Nat
    <3>1. opts.iterations \in Int /\ kWarmup \in Nat /\ results # <<>>
      BY <2>1, IterationsInInt, IntRange
    <3>2. opts.iterations >= 1
      BY <3>1 DEF DigestsInOrder
    <3>3. QED
      BY <3>1, <3>2 DEF rounds
  <2>4. /\ Len(first_digests(rounds)) = rounds
        /\ {first_digests(rounds)[k] : k \in 1..rounds} = 0..(rounds - 1)
        /\ Cardinality(0..(rounds - 1)) = rounds
    BY <2>3, FirstDigests
  <2>5. Cardinality({results[s][k] : k \in 1..Len(results[s])}) = Len(results[s])
    BY <2>2, <2>4
  <2>6. QED
    BY <2>2, <2>4, <2>5 DEF rounds
<1>3. Spec => [](BInv /\ DigestsInOrder)
  <2>1. BInv /\ DigestsInOrder /\ [Next]_vars => DigestsInOrder'
    BY DigestsStayInOrder
  <2>2. QED
    BY <1>1, <2>1, SpecKeepsBInv, PTL DEF Spec
<1>4. QED
  BY <1>2, <1>3, PTL

-----------------------------------------------------------------------------
(* The command line *)

FlagsWithValue == CountFlags \cup {"--csv"}

LEMMA IsValueFacts ==
  /\ IsValue[0] = FALSE
  /\ \A k \in 1..MaxWords :
       IsValue[k] <=> k > 1 /\ argv[k - 1] \in FlagsWithValue /\ ~IsValue[k - 1]
<1> DEFINE g == [t \in Nat \X BOOLEAN |->
                   t[1] + 1 > 1 /\ argv[t[1]] \in FlagsWithValue /\ ~t[2]]
           body(f, k) == k > 1 /\ argv[k - 1] \in FlagsWithValue /\ ~f[k - 1]
           Value(f) == f = [k \in 0..MaxWords |-> body(f, k)]
           value == CHOOSE f : Value(f)
<1>1. MaxWords \in Nat
  BY BenchAssumption
<1>2. g \in StepsOn(BOOLEAN)
  BY DEF StepsOn
<1>3. \A k \in Nat, x \in BOOLEAN :
        g[<<k, x>>] = (k + 1 > 1 /\ argv[k] \in FlagsWithValue /\ ~x)
  OBVIOUS
<1> HIDE DEF g
<1>4. PICK f \in [0..MaxWords -> BOOLEAN] : Recursive(f, FALSE, g, 0..MaxWords)
  BY <1>1, <1>2, RecursionUpTo
<1>5. ASSUME NEW k \in 0..MaxWords PROVE f[k] = body(f, k)
  <2>1. CASE k = 0
    <3>1. f[0] = FALSE
      BY <1>1, <1>4 DEF Recursive
    <3>2. ~(0 > 1)
      OBVIOUS
    <3>3. QED
      BY <2>1, <3>1, <3>2
  <2>2. CASE k # 0
    <3>1. k - 1 \in Nat /\ (k - 1) + 1 = k /\ k - 1 \in 0..MaxWords
      BY <1>1, <2>2
    <3>2. f[k] = g[<<k - 1, f[k - 1]>>] /\ f[k - 1] \in BOOLEAN
      BY <1>4, <2>2, <3>1 DEF Recursive
    <3>3. g[<<k - 1, f[k - 1]>>]
            = ((k - 1) + 1 > 1 /\ argv[k - 1] \in FlagsWithValue /\ ~f[k - 1])
      BY <1>3, <3>1, <3>2
    <3>4. QED
      BY <3>1, <3>2, <3>3
  <2>3. QED
    BY <2>1, <2>2
<1>6. Value(f)
  <2> HIDE DEF body
  <2>1. f = [k \in 0..MaxWords |-> f[k]]
    BY <1>4
  <2>2. QED
    BY <1>5, <2>1
<1>7. Value(value)
  <2> HIDE DEF Value
  <2> QED
    BY <1>6
<1>8. IsValue = value
  BY Zenon DEF IsValue, FlagsWithValue
<1> HIDE DEF value
<1>9. \A k \in 0..MaxWords : value[k] = body(value, k)
  <2> HIDE DEF body
  <2>1. value = [k \in 0..MaxWords |-> body(value, k)]
    BY <1>7
  <2>2. QED
    BY <2>1
<1>10. value[0] = FALSE
  <2>1. 0 \in 0..MaxWords /\ ~(0 > 1)
    BY <1>1
  <2>2. QED
    BY <1>9, <2>1
<1>11. ASSUME NEW k \in 1..MaxWords
       PROVE  value[k] <=> k > 1 /\ argv[k - 1] \in FlagsWithValue /\ ~value[k - 1]
  <2>1. k \in 0..MaxWords
    BY <1>1
  <2>2. QED
    BY <1>9, <2>1
<1>12. QED
  BY <1>8, <1>10, <1>11

(* The words before a that give an iteration count, or name the CSV file.  *)
counts_before(a) ==
  {k \in 1..(a - 1) : IF IsValue[k] THEN argv[k - 1] \in CountFlags
                      ELSE stoi[argv[k]] # NoInt}

files_before(a) == {k \in 1..(a - 1) : IsValue[k] /\ argv[k - 1] = "--csv"}

IsLast(k, S) == k \in S /\ \A j \in S : j <= k

(* The options are those of the words before arg, which is not a value.    *)
OptionsOf(iterations, csv, a) ==
  /\ \/ counts_before(a) = {} /\ iterations = kIterations
     \/ \E k \in counts_before(a) : IsLast(k, counts_before(a)) /\ iterations = stoi[argv[k]]
  /\ csv <=> \E k \in files_before(a) : argv[k] # "" /\ IsLast(k, files_before(a))

ParseInv ==
  /\ Len(argv) <= MaxWords
  /\ pc = "cli" => /\ arg <= Len(argv) + 1
                   /\ arg <= Len(argv) => ~IsValue[arg]
                   /\ OptionsOf(opts.iterations, opts.csv, arg)
  /\ ParsesLastCount

(* A word that gives no count leaves the options as they are.              *)
LEMMA WordWithoutCount ==
  ASSUME NEW a \in Nat \ {0}, NEW n, NEW csv, OptionsOf(n, csv, a),
         IF IsValue[a] THEN argv[a - 1] \notin FlagsWithValue ELSE stoi[argv[a]] = NoInt
  PROVE  OptionsOf(n, csv, a + 1)
<1>1. 1..((a + 1) - 1) = (1..(a - 1)) \cup {a}
  OBVIOUS
<1>2. counts_before(a + 1) = counts_before(a)
  BY <1>1 DEF counts_before, FlagsWithValue
<1>3. files_before(a + 1) = files_before(a)
  BY <1>1 DEF files_before, FlagsWithValue
<1>4. QED
  BY <1>2, <1>3 DEF OptionsOf

(* A word that gives one is the last that does.                            *)
LEMMA WordWithCount ==
  ASSUME NEW a \in Nat \ {0}, NEW n, NEW csv, OptionsOf(n, csv, a),
         IF IsValue[a] THEN argv[a - 1] \in CountFlags ELSE stoi[argv[a]] # NoInt
  PROVE  OptionsOf(stoi[argv[a]], csv, a + 1)
<1>1. 1..((a + 1) - 1) = (1..(a - 1)) \cup {a} /\ \A j \in 1..(a - 1) : j <= a
  OBVIOUS
<1>2. counts_before(a + 1) = counts_before(a) \cup {a}
  BY <1>1 DEF counts_before
<1>3. IsLast(a, counts_before(a + 1))
  BY <1>1, <1>2 DEF IsLast, counts_before
<1>4. files_before(a + 1) = files_before(a)
  BY <1>1 DEF files_before, CountFlags
<1>5. QED
  BY <1>2, <1>3, <1>4 DEF OptionsOf

(* A name for the file is the last that is given.                          *)
LEMMA CsvValue ==
  ASSUME NEW a \in Nat \ {0}, NEW n, NEW csv, OptionsOf(n, csv, a),
         IsValue[a], argv[a - 1] = "--csv"
  PROVE  OptionsOf(n, names_file(argv[a]), a + 1)
<1>1. 1..((a + 1) - 1) = (1..(a - 1)) \cup {a} /\ \A j \in 1..(a - 1) : j <= a /\ ~(a <= j)
  OBVIOUS
<1>2. counts_before(a + 1) = counts_before(a)
  BY <1>1 DEF counts_before, CountFlags
<1>3. files_before(a + 1) = files_before(a) \cup {a} /\ files_before(a) \subseteq 1..(a - 1)
  BY <1>1 DEF files_before
<1>4. \A k \in files_before(a + 1) : IsLast(k, files_before(a + 1)) <=> k = a
  BY <1>1, <1>3 DEF IsLast
<1>5. names_file(argv[a])
        <=> \E k \in files_before(a + 1) : argv[k] # "" /\ IsLast(k, files_before(a + 1))
  BY <1>3, <1>4 DEF names_file
<1>6. QED
  BY <1>2, <1>5 DEF OptionsOf

LEMMA ParseStep ==
  ASSUME BInv, ParseInv, Parse
  PROVE  ParseInv'
<1>1. /\ arg \in Nat \ {0} /\ arg <= Len(argv) /\ Len(argv) \in Nat /\ Len(argv) <= MaxWords
      /\ ~IsValue[arg] /\ OptionsOf(opts.iterations, opts.csv, arg)
      /\ pc = "cli" /\ argv' = argv /\ MaxWords \in Nat
      /\ argv \in Seq(Words) /\ argv[arg] \in Words
      /\ opts \in CliOptions
  <2>1. parsing /\ argv' = argv
    BY DEF Parse, ParseMd, ParseCount, ParseCsv, ParseHelp, ParsePositional
  <2>2. argv \in Seq(Words) /\ arg \in Nat \ {0} /\ opts \in CliOptions
    BY DEF BInv, TypeOK, CliOptions
  <2>3. MaxWords \in Nat
    BY BenchAssumption
  <2>4. QED
    BY <2>1, <2>2, <2>3 DEF parsing, ParseInv
<1>2. pc' # "pools"
  BY DEF Parse, ParseMd, ParseCount, ParseCsv, ParseHelp, ParsePositional, parsing,
         SetIterations
<1>3. ParsesLastCount'
  BY <1>2 DEF ParsesLastCount
<1>4. ASSUME pc' = "cli" => /\ arg' <= Len(argv) + 1
                            /\ arg' <= Len(argv) => ~IsValue[arg']
                            /\ OptionsOf(opts'.iterations, opts'.csv, arg')
      PROVE  ParseInv'
  <2>1. IsValue' = IsValue
    BY <1>1 DEF IsValue
  <2>2. OptionsOf(opts'.iterations, opts'.csv, arg')
          <=> OptionsOf(opts.iterations, opts.csv, arg)'
    BY <1>1, <2>1 DEF OptionsOf, counts_before, files_before, IsLast
  <2>3. QED
    BY <1>1, <1>3, <1>4, <2>1, <2>2 DEF ParseInv
<1>5. arg + 1 \in Nat \ {0} /\ (arg + 1) - 1 = arg /\ arg \in 1..MaxWords
      /\ (arg + 1) + 1 = arg + 2 /\ arg + 1 > 1
  BY <1>1
<1>6. \A flag \in Words \cap ({"--md"} \cup FlagsWithValue) : stoi[flag] = NoInt
  BY BenchAssumption DEF FlagsWithValue, CountFlags
<1>7. arg + 1 <= Len(argv) => (IsValue[arg + 1] <=> argv[arg] \in FlagsWithValue)
  BY <1>1, <1>5, IsValueFacts
<1>8. ASSUME NEW k \in Nat, arg + 1 <= Len(argv), k = arg + 2, IsValue[arg + 1], k <= Len(argv)
      PROVE  ~IsValue[k]
  <2>1. k \in 1..MaxWords /\ k - 1 = arg + 1
    BY <1>1, <1>8
  <2>2. QED
    BY <1>8, <2>1, IsValueFacts
<1>9. CASE ParseMd
  <2>1. argv[arg] = "--md" /\ arg' = arg + 1
        /\ opts'.iterations = opts.iterations /\ opts'.csv = opts.csv
    BY <1>1, <1>9 DEF ParseMd, word, CliOptions
  <2>2. "--md" \notin FlagsWithValue
    BY DEF FlagsWithValue, CountFlags
  <2>3. OptionsOf(opts.iterations, opts.csv, arg + 1)
    BY <1>1, <1>6, <2>1, WordWithoutCount
  <2>4. QED
    BY <1>1, <1>4, <1>7, <2>1, <2>2, <2>3
<1>10. CASE ParseHelp
  <2>1. pc' = "exit 0"
    BY <1>10 DEF ParseHelp
  <2>2. QED
    BY <1>4, <2>1
<1>11. CASE ParseCount
  <2>1. argv[arg] \in CountFlags /\ arg + 1 <= Len(argv) /\ argv[arg] \in FlagsWithValue
    BY <1>11 DEF ParseCount, flag_with_value, word, FlagsWithValue
  <2>2. CASE stoi[argv[arg + 1]] = NoInt
    <3>1. pc' = "terminated"
      BY <1>11, <2>2 DEF ParseCount, SetIterations
    <3>2. QED
      BY <1>4, <3>1
  <2>3. CASE stoi[argv[arg + 1]] # NoInt
    <3>1. opts' = [opts EXCEPT !.iterations = stoi[argv[arg + 1]]] /\ arg' = arg + 2
      BY <1>11, <2>3 DEF ParseCount, SetIterations
    <3>2. opts'.iterations = stoi[argv[arg + 1]] /\ opts'.csv = opts.csv
      BY <1>1, <3>1 DEF CliOptions
    <3>3. IsValue[arg + 1]
      BY <1>7, <2>1
    <3>4. OptionsOf(opts.iterations, opts.csv, arg + 1)
      BY <1>1, <1>6, <2>1, WordWithoutCount
    <3>5. OptionsOf(stoi[argv[arg + 1]], opts.csv, (arg + 1) + 1)
      BY <1>5, <2>1, <3>3, <3>4, WordWithCount
    <3>6. arg + 2 \in Nat /\ arg + 2 <= Len(argv) + 1
      BY <1>1, <2>1
    <3>7. QED
      BY <1>4, <1>5, <1>8, <2>1, <3>1, <3>2, <3>3, <3>5, <3>6
  <2>4. QED
    BY <2>2, <2>3
<1>12. CASE ParseCsv
  <2>1. /\ argv[arg] = "--csv" /\ arg + 1 <= Len(argv) /\ argv[arg] \in FlagsWithValue
        /\ opts'.iterations = opts.iterations /\ arg' = arg + 2
        /\ opts'.csv = names_file(argv[arg + 1])
    BY <1>1, <1>12 DEF ParseCsv, flag_with_value, word, FlagsWithValue, CliOptions
  <2>2. IsValue[arg + 1]
    BY <1>7, <2>1
  <2>3. OptionsOf(opts.iterations, opts.csv, arg + 1)
    BY <1>1, <1>6, <2>1, WordWithoutCount
  <2>4. OptionsOf(opts.iterations, names_file(argv[arg + 1]), (arg + 1) + 1)
    BY <1>5, <2>1, <2>2, <2>3, CsvValue
  <2>5. arg + 2 \in Nat /\ arg + 2 <= Len(argv) + 1
    BY <1>1, <2>1
  <2>6. QED
    BY <1>4, <1>5, <1>8, <2>1, <2>2, <2>4, <2>5
<1>13. CASE ParsePositional
  <2>1. ~(argv[arg] \in FlagsWithValue /\ arg + 1 <= Len(argv))
    BY <1>13 DEF ParsePositional, flag_with_value, word, FlagsWithValue
  <2>2. CASE stoi[argv[arg]] = NoInt
    <3>1. pc' = "exit 1"
      BY <1>13, <2>2 DEF ParsePositional, SetIterations, word
    <3>2. QED
      BY <1>4, <3>1
  <2>3. CASE stoi[argv[arg]] # NoInt
    <3>1. opts' = [opts EXCEPT !.iterations = stoi[argv[arg]]] /\ arg' = arg + 1
      BY <1>13, <2>3 DEF ParsePositional, SetIterations, word
    <3>2. opts'.iterations = stoi[argv[arg]] /\ opts'.csv = opts.csv
      BY <1>1, <3>1 DEF CliOptions
    <3>3. OptionsOf(stoi[argv[arg]], opts.csv, arg + 1)
      BY <1>1, <2>3, WordWithCount
    <3>4. arg + 1 <= Len(argv) => ~IsValue[arg + 1]
      BY <1>7, <2>1
    <3>5. QED
      BY <1>1, <1>4, <3>1, <3>2, <3>3, <3>4
  <2>4. QED
    BY <2>2, <2>3
<1>14. QED
  BY <1>9, <1>10, <1>11, <1>12, <1>13 DEF Parse

(* ParsesLastCount, of options that have been read to the end.             *)
LEMMA OptionsAtEnd ==
  ASSUME BInv, ParseInv, EndParse
  PROVE  ParsesLastCount'
<1>1. /\ arg = Len(argv) + 1 /\ Len(argv) \in Nat /\ argv' = argv
      /\ OptionsOf(opts.iterations, opts.csv, arg) /\ opts \in CliOptions
      /\ opts' = [opts EXCEPT !.iterations = at_least_one(opts.iterations)]
  <2>1. argv \in Seq(Words) /\ arg \in Nat /\ opts \in CliOptions
    BY DEF BInv, TypeOK, CliOptions
  <2>2. pc = "cli" /\ arg > Len(argv) /\ argv' = argv
        /\ opts' = [opts EXCEPT !.iterations = at_least_one(opts.iterations)]
    BY DEF EndParse
  <2>3. QED
    BY <2>1, <2>2 DEF ParseInv
<1>2. opts'.iterations = at_least_one(opts.iterations) /\ opts'.csv = opts.csv
  BY <1>1 DEF CliOptions
<1>3. IsValue' = IsValue
  BY <1>1 DEF IsValue
<1>4. arg - 1 = Len(argv)
  BY <1>1
<1>5. FileIsLastGiven'
  <2>1. opts'.csv <=> \E k \in files_before(arg) : argv[k] # "" /\ IsLast(k, files_before(arg))
    BY <1>1, <1>2 DEF OptionsOf
  <2>2. files_before(arg) = {k \in 1..Len(argv) : IsValue[k] /\ argv[k - 1] = "--csv"}
    BY <1>4 DEF files_before
  <2>3. \A k \in files_before(arg) :
          IsLast(k, files_before(arg)) <=> \A j \in files_before(arg) : j <= k
    BY DEF IsLast
  <2>4. QED
    BY <1>1, <1>3, <2>1, <2>2, <2>3 DEF FileIsLastGiven
<1>6. CountIsLastGiven'
  <2> DEFINE counts == {k \in 1..Len(argv) : IF IsValue[k] THEN argv[k - 1] \in CountFlags
                                              ELSE stoi[argv[k]] # NoInt}
             last == CHOOSE k \in counts : \A j \in counts : j <= k
  <2>1. counts = counts_before(arg)
    BY <1>4 DEF counts_before
  <2>2. CASE counts = {}
    <3>1. opts.iterations = kIterations
      BY <1>1, <2>1, <2>2 DEF OptionsOf
    <3>2. opts'.iterations = kIterations
      BY <1>2, <3>1, BenchAssumption DEF at_least_one
    <3>3. QED
      BY <1>1, <1>3, <2>2, <3>2 DEF CountIsLastGiven
  <2>3. CASE counts # {}
    <3>1. PICK m \in counts : IsLast(m, counts) /\ opts.iterations = stoi[argv[m]]
      BY <1>1, <2>1, <2>3 DEF OptionsOf
    <3>2. m \in counts /\ (\A j \in counts : j <= m) /\ \A j \in counts : j \in Int
      BY <3>1 DEF IsLast
    <3> HIDE DEF counts
    <3>3. last \in counts /\ \A j \in counts : j <= last
      BY <3>2
    <3> HIDE DEF last
    <3>4. last = m
      BY <3>2, <3>3
    <3>5. IF stoi[argv[last]] < 1 THEN opts'.iterations = 1
          ELSE opts'.iterations = stoi[argv[last]]
      BY <1>2, <3>1, <3>4 DEF at_least_one
    <3>6. QED
      BY <1>1, <1>3, <2>3, <3>5 DEF CountIsLastGiven, counts, last
  <2>4. QED
    BY <2>2, <2>3
<1>7. QED
  BY <1>5, <1>6 DEF ParsesLastCount

(* What is read off the command line and the options changes with them.    *)
LEMMA SameCommandLine ==
  ASSUME argv' = argv, opts' = opts
  PROVE  /\ IsValue' = IsValue
         /\ CountIsLastGiven' <=> CountIsLastGiven
         /\ FileIsLastGiven' <=> FileIsLastGiven
<1>1. IsValue' = IsValue
  BY DEF IsValue
<1>2. CountIsLastGiven' <=> CountIsLastGiven
  BY <1>1 DEF CountIsLastGiven
<1>3. FileIsLastGiven' <=> FileIsLastGiven
  BY <1>1 DEF FileIsLastGiven
<1>4. QED
  BY <1>1, <1>2, <1>3

(* The iteration count is the last on the command line, for every command  *)
(* line (parse_cli).                                                       *)
THEOREM LastCountParsed == Spec => []ParsesLastCount
<1>1. Init => ParseInv
  <2> SUFFICES ASSUME Init PROVE ParseInv
    OBVIOUS
  <2>1. pc = "cli" /\ arg = 1 /\ opts.iterations = kIterations /\ opts.csv = FALSE
    BY DEF Init
  <2>2. Len(argv) \in Nat /\ Len(argv) <= MaxWords
    BY BenchAssumption DEF Init
  <2>3. counts_before(1) = {} /\ files_before(1) = {}
    BY DEF counts_before, files_before
  <2>4. 1 <= MaxWords => ~IsValue[1]
    BY IsValueFacts, BenchAssumption
  <2>5. OptionsOf(opts.iterations, opts.csv, 1)
    BY <2>1, <2>3 DEF OptionsOf
  <2>6. arg <= Len(argv) + 1 /\ (arg <= Len(argv) => ~IsValue[arg])
    BY <2>1, <2>2, <2>4, BenchAssumption
  <2>7. QED
    BY <2>1, <2>2, <2>5, <2>6 DEF ParseInv, ParsesLastCount
<1>2. ASSUME BInv, ParseInv, [Next]_vars PROVE ParseInv'
  <2>1. CASE Parse
    BY <1>2, <2>1, ParseStep
  <2>2. CASE EndParse
    <3>1. argv' = argv /\ pc' = "pools"
      BY <2>2 DEF EndParse
    <3>2. QED
      BY <1>2, <2>2, <3>1, OptionsAtEnd DEF ParseInv
  <2>3. ASSUME argv' = argv, opts' = opts, pc' # "cli", pc' = "pools" => pc = "pools"
        PROVE  ParseInv'
    <3>1. IsValue' = IsValue
      BY <2>3, SameCommandLine
    <3>2. ParsesLastCount'
      BY <1>2, <2>3, SameCommandLine DEF ParseInv, ParsesLastCount
    <3>3. QED
      BY <1>2, <2>3, <3>2 DEF ParseInv
  <2>4. CASE Pregenerate \/ PregenerateFails \/ EndPools \/ PrepareC3 \/ Uncaught
    BY <2>3, <2>4 DEF Pregenerate, PregenerateFails, EndPools, PrepareC3, Uncaught, filling, cli
  <2>5. CASE Report
    BY <2>3, <2>5, Zenon DEF Report, cli
  <2>6. CASE Warmup \/ Time
    <3>1. pc \in {"warmup", "timed"} /\ pc' \in {pc, "undefined"} /\ UNCHANGED cli
      BY <2>6 DEF Warmup, Time, Round
    <3>2. QED
      BY <2>3, <3>1 DEF cli
  <2>7. CASE EndWarmup
    BY <2>3, <2>7 DEF EndWarmup, cli
  <2>8. CASE EndTimed
    <3>1. pc' \in {"report", "shares", "warmup"} /\ UNCHANGED cli
      BY <2>8 DEF EndTimed
    <3>2. QED
      BY <2>3, <3>1 DEF cli
  <2>9. CASE UNCHANGED vars
    <3>1. pc' = pc /\ argv' = argv /\ arg' = arg /\ opts' = opts
      BY <2>9 DEF vars
    <3>2. IsValue' = IsValue
      BY <3>1, SameCommandLine
    <3>3. ParsesLastCount'
      BY <1>2, <3>1, SameCommandLine DEF ParseInv, ParsesLastCount
    <3>4. OptionsOf(opts.iterations, opts.csv, arg)' <=> OptionsOf(opts.iterations, opts.csv, arg)
      BY <3>1, <3>2 DEF OptionsOf, counts_before, files_before, IsLast
    <3>5. QED
      BY <1>2, <3>1, <3>2, <3>3, <3>4 DEF ParseInv
  <2>10. QED
    BY <1>2, <2>1, <2>2, <2>4, <2>5, <2>6, <2>7, <2>8, <2>9 DEF Next, Proceed
<1>3. ParseInv => ParsesLastCount
  BY DEF ParseInv
<1>4. QED
  BY <1>1, <1>2, <1>3, SpecKeepsBInv, PTL DEF Spec

-----------------------------------------------------------------------------
(* Sums *)

(* SumFunction adds the values of f up in an order it chooses: a gives the *)
(* sum over every subset of the domain D.                                  *)
some(S) == CHOOSE x \in S : TRUE

Adding(a, f, D) ==
  [S \in SUBSET D |-> IF S = {} THEN 0 ELSE f[some(S)] + a[S \ {some(S)}]]

Adds(a, f, D) == a = Adding(a, f, D)

LEMMA SumFunctionAdds ==
  ASSUME NEW f, \E a : Adds(a, f, DOMAIN f)
  PROVE  \E a : Adds(a, f, DOMAIN f) /\ SumFunction(f) = a[DOMAIN f]
<1> DEFINE b == CHOOSE a : Adds(a, f, DOMAIN f)
<1>1. Adds(b, f, DOMAIN f)
  OBVIOUS
<1>2. SumFunction(f) = b[DOMAIN f]
  BY DEF SumFunction, SumFunctionOnSet, FoldFunctionOnSet, MapThenFoldSet, Adds, Adding, some
<1>3. QED
  BY <1>1, <1>2

(* Subsets of 1..n, and what is left without an element. *)
LEMMA SubsetsOfInterval ==
  ASSUME NEW n \in Nat
  PROVE  \A S \in SUBSET (1..n) :
           /\ Cardinality(S) \in Nat /\ Cardinality(S) <= n
           /\ Cardinality(S) = 0 => S = {}
           /\ \A x \in S : /\ S \ {x} \in SUBSET (1..n)
                           /\ Cardinality(S \ {x}) = Cardinality(S) - 1
<1> SUFFICES ASSUME NEW S \in SUBSET (1..n)
             PROVE  /\ Cardinality(S) \in Nat /\ Cardinality(S) <= n
                    /\ Cardinality(S) = 0 => S = {}
                    /\ \A x \in S : /\ S \ {x} \in SUBSET (1..n)
                                    /\ Cardinality(S \ {x}) = Cardinality(S) - 1
  OBVIOUS
<1>1. IsFiniteSet(1..n) /\ Cardinality(1..n) = n
  <2>1. IsFiniteSet(1..n) /\ Cardinality(1..n) = IF 1 > n THEN 0 ELSE n - 1 + 1
    <3>1. 1 \in Int /\ n \in Int
      OBVIOUS
    <3>2. QED
      BY <3>1, FS_Interval, Zenon
  <2>2. QED
    BY <2>1
<1>2. IsFiniteSet(S) /\ Cardinality(S) <= n
  BY <1>1, FS_Subset
<1>3. Cardinality(S) \in Nat
  BY <1>2, FS_CardinalityType
<1>4. Cardinality(S) = 0 => S = {}
  BY <1>2, FS_EmptySet
<1>5. \A x \in S : Cardinality(S \ {x}) = Cardinality(S) - 1
  BY <1>2, FS_RemoveElement
<1>6. QED
  BY <1>2, <1>3, <1>4, <1>5

LEMMA AddingFacts ==
  ASSUME NEW n \in Nat, NEW f \in [1..n -> Int], NEW a \in [SUBSET (1..n) -> Int]
  PROVE  /\ Adding(a, f, 1..n) \in [SUBSET (1..n) -> Int]
         /\ Adding(a, f, 1..n)[{}] = 0
         /\ \A S \in SUBSET (1..n) : S # {} =>
              Adding(a, f, 1..n)[S] = f[some(S)] + a[S \ {some(S)}]
<1> DEFINE P == SUBSET (1..n)
           v(S) == IF S = {} THEN 0 ELSE f[some(S)] + a[S \ {some(S)}]
<1>1. ASSUME NEW S \in P PROVE v(S) \in Int
  <2>1. CASE S # {}
    <3>1. some(S) \in S
      BY <2>1 DEF some
    <3>2. some(S) \in 1..n /\ S \ {some(S)} \in P
      BY <3>1
    <3>3. f[some(S)] \in Int /\ a[S \ {some(S)}] \in Int
      BY <3>2
    <3>4. QED
      BY <2>1, <3>3
  <2>2. QED
    BY <2>1
<1>2. Adding(a, f, 1..n) = [S \in P |-> v(S)]
  BY DEF Adding
<1>3. {} \in P /\ v({}) = 0 /\ \A S \in P : S # {} => v(S) = f[some(S)] + a[S \ {some(S)}]
  OBVIOUS
<1> HIDE DEF P, v
<1>4. QED
  BY <1>1, <1>2, <1>3 DEF P

LEMMA AddingExists ==
  ASSUME NEW n \in Nat, NEW f \in [1..n -> Int]
  PROVE  \E a : Adds(a, f, 1..n)
<1> DEFINE P == SUBSET (1..n)
           F == [P -> Int]
           g == [t \in Nat \X F |-> Adding(t[2], f, 1..n)]
           zero == [S \in P |-> 0]
<1>1. /\ \A S \in P : /\ Cardinality(S) \in Nat /\ Cardinality(S) <= n
                      /\ Cardinality(S) = 0 => S = {}
      /\ \A S \in P : \A x \in S : S \ {x} \in P /\ Cardinality(S \ {x}) = Cardinality(S) - 1
      /\ \A S \in P : S # {} => some(S) \in S
      /\ {} \in P /\ zero \in F /\ zero[{}] = 0
  <2>1. \A S \in P : S # {} => some(S) \in S
    BY DEF some
  <2>2. {} \in P /\ zero \in F /\ zero[{}] = 0
    OBVIOUS
  <2>3. QED
    BY <2>1, <2>2, SubsetsOfInterval
<1>2. \A a \in F : /\ Adding(a, f, 1..n) \in F /\ Adding(a, f, 1..n)[{}] = 0
                  /\ \A S \in P : S # {} =>
                       Adding(a, f, 1..n)[S] = f[some(S)] + a[S \ {some(S)}]
  BY AddingFacts
<1> HIDE DEF P, zero
<1>3. \A t \in Nat \X F : t[2] \in F
  OBVIOUS
<1> HIDE DEF F
<1>4. g \in StepsOn(F) /\ \A j \in Nat, a \in F : g[<<j, a>>] = Adding(a, f, 1..n)
  BY <1>2, <1>3 DEF StepsOn
<1> HIDE DEF g
<1>5. PICK h \in [Nat -> F] : Recursive(h, zero, g, Nat)
  BY <1>1, <1>4, RecursionOnNat
<1>6. h[0] = zero /\ \A j \in Nat : h[j] \in F /\ h[j + 1] = Adding(h[j], f, 1..n)
  <2>1. h[0] = zero
    BY <1>5 DEF Recursive
  <2>2. ASSUME NEW j \in Nat PROVE h[j] \in F /\ h[j + 1] = Adding(h[j], f, 1..n)
    <3>1. j + 1 \in Nat /\ j + 1 # 0 /\ (j + 1) - 1 = j /\ h[j] \in F
      BY <1>5
    <3>2. h[j + 1] = g[<<j, h[j]>>]
      BY <1>5, <3>1 DEF Recursive
    <3>3. QED
      BY <1>4, <3>1, <3>2
  <2>3. QED
    BY <2>1, <2>2
<1> DEFINE K == {j \in Nat : \A S \in P : Cardinality(S) <= j => h[j + 1][S] = h[j][S]}
<1>7. 0 \in K
  <2>1. SUFFICES ASSUME NEW S \in P, Cardinality(S) <= 0 PROVE h[0 + 1][S] = h[0][S]
    OBVIOUS
  <2>2. S = {}
    BY <1>1, <2>1
  <2>3. h[0 + 1][{}] = 0
    BY <1>2, <1>6
  <2>4. QED
    BY <1>1, <1>6, <2>2, <2>3
<1>8. ASSUME NEW j \in Nat, j \in K PROVE j + 1 \in K
  <2>1. SUFFICES ASSUME NEW S \in P, Cardinality(S) <= j + 1
                 PROVE  h[(j + 1) + 1][S] = h[j + 1][S]
    OBVIOUS
  <2>2. j + 1 \in Nat /\ h[j] \in F /\ h[j + 1] \in F
    BY <1>6
  <2>3. /\ h[j + 1] = Adding(h[j], f, 1..n)
        /\ h[(j + 1) + 1] = Adding(h[j + 1], f, 1..n)
    BY <1>6, <2>2
  <2>4. CASE S = {}
    BY <1>2, <2>2, <2>3, <2>4
  <2>5. CASE S # {}
    <3>1. PICK R : R = S \ {some(S)}
      OBVIOUS
    <3>2. R \in P /\ Cardinality(R) <= j
      BY <1>1, <2>1, <2>5, <3>1
    <3>3. h[j + 1][R] = h[j][R]
      BY <1>8, <3>2
    <3>4. h[(j + 1) + 1][S] = f[some(S)] + h[j + 1][R] /\ h[j + 1][S] = f[some(S)] + h[j][R]
      BY <1>2, <2>2, <2>3, <2>5, <3>1
    <3>5. QED
      BY <3>3, <3>4
  <2>6. QED
    BY <2>4, <2>5
<1>9. n \in K
  <2> HIDE DEF K
  <2> QED
    BY <1>7, <1>8, SetInduction
<1>10. h[n + 1] = h[n]
  <2>1. \A S \in P : h[n + 1][S] = h[n][S]
    BY <1>1, <1>9
  <2>2. h[n + 1] \in F /\ h[n] \in F
    <3>1. n + 1 \in Nat
      OBVIOUS
    <3>2. QED
      BY <1>6, <3>1
  <2>3. QED
    BY <2>1, <2>2 DEF F
<1>11. Adds(h[n], f, 1..n)
  BY <1>6, <1>10 DEF Adds
<1>12. QED
  BY <1>11

(* The order does not matter: any element may be added last. *)
LEMMA AnyElementLast ==
  ASSUME NEW n \in Nat, NEW f \in [1..n -> Int]
  PROVE  \A a : Adds(a, f, 1..n) =>
           /\ a[{}] = 0
           /\ \A S \in SUBSET (1..n) : a[S] \in Int
           /\ \A S \in SUBSET (1..n) : \A x \in S : a[S] = f[x] + a[S \ {x}]
<1> SUFFICES ASSUME NEW a, Adds(a, f, 1..n)
             PROVE  /\ a[{}] = 0
                    /\ \A S \in SUBSET (1..n) : a[S] \in Int
                    /\ \A S \in SUBSET (1..n) : \A x \in S : a[S] = f[x] + a[S \ {x}]
  OBVIOUS
<1> DEFINE P == SUBSET (1..n)
<1>1. /\ \A S \in P : Cardinality(S) \in Nat /\ (Cardinality(S) = 0 => S = {})
      /\ \A S \in P : \A x \in S : /\ S \ {x} \in P /\ f[x] \in Int
                                  /\ Cardinality(S \ {x}) = Cardinality(S) - 1
  <2>1. \A S \in P : \A x \in S : f[x] \in Int
    OBVIOUS
  <2>2. QED
    BY <2>1, SubsetsOfInterval
<1>2. {} \in P /\ \A S \in P : S # {} => some(S) \in S
  BY DEF some
<1>3. a = [S \in P |-> IF S = {} THEN 0 ELSE f[some(S)] + a[S \ {some(S)}]]
  BY DEF Adds, Adding
<1> HIDE DEF P
<1>4. a[{}] = 0 /\ \A S \in P : S # {} => a[S] = f[some(S)] + a[S \ {some(S)}]
  BY <1>2, <1>3
<1> DEFINE good(S) == a[S] \in Int /\ \A x \in S : a[S] = f[x] + a[S \ {x}]
           K == {j \in Nat : \A S \in P : Cardinality(S) <= j => good(S)}
<1>5. 0 \in K
  <2>1. good({})
    BY <1>4
  <2>2. \A S \in P : Cardinality(S) <= 0 => S = {}
    BY <1>1
  <2> HIDE DEF good
  <2>3. QED
    BY <2>1, <2>2
<1>6. ASSUME NEW j \in Nat, j \in K PROVE j + 1 \in K
  <2> SUFFICES ASSUME NEW S \in P, Cardinality(S) <= j + 1 PROVE good(S)
    OBVIOUS
  <2>0. CASE S = {}
    BY <1>4, <2>0
  <2>1. SUFFICES ASSUME S # {} PROVE good(S)
    BY <2>0
  <2>2. PICK y \in S : a[S] = f[y] + a[S \ {y}]
    BY <1>2, <1>4, <2>1
  <2>3. \A x \in S : S \ {x} \in P /\ Cardinality(S \ {x}) <= j /\ good(S \ {x})
    <3>1. ASSUME NEW x \in S PROVE S \ {x} \in P /\ Cardinality(S \ {x}) <= j
      BY <1>1, <2>1
    <3>2. QED
      BY <1>6, <3>1
  <2>4. a[S] \in Int
    <3>1. f[y] \in Int /\ a[S \ {y}] \in Int
      BY <1>1, <2>3
    <3>2. QED
      BY <2>2, <3>1
  <2>5. ASSUME NEW x \in S, x # y PROVE a[S] = f[x] + a[S \ {x}]
    <3>1. PICK R : R = (S \ {x}) \ {y} /\ R = (S \ {y}) \ {x}
      OBVIOUS
    <3>2. x \in S \ {y} /\ y \in S \ {x}
      BY <2>5
    <3>3. a[S \ {y}] = f[x] + a[R]
      BY <2>3, <3>1, <3>2
    <3>4. a[S \ {x}] = f[y] + a[R]
      BY <2>3, <3>1, <3>2
    <3>5. a[R] \in Int
      <4>1. R \in P /\ Cardinality(R) <= j
        <5>1. PICK T \in P : T = S \ {y} /\ Cardinality(T) <= j
          BY <2>3
        <5>2. R = T \ {x} /\ x \in T
          BY <3>1, <3>2, <5>1
        <5>3. R \in P /\ Cardinality(R) = Cardinality(T) - 1 /\ Cardinality(T) \in Nat
          BY <1>1, <5>2
        <5>4. QED
          BY <5>1, <5>3
      <4>2. QED
        BY <1>6, <4>1
    <3>6. f[x] \in Int /\ f[y] \in Int
      BY <1>1
    <3>7. QED
      BY <2>2, <3>3, <3>4, <3>5, <3>6
  <2>6. QED
    BY <2>2, <2>4, <2>5
<1>7. Nat \subseteq K
  <2> HIDE DEF K
  <2> QED
    BY <1>5, <1>6, SetInduction
<1>8. ASSUME NEW S \in P PROVE good(S)
  <2>1. Cardinality(S) \in K /\ Cardinality(S) <= Cardinality(S)
    BY <1>1, <1>7
  <2>2. QED
    BY <2>1
<1>9. QED
  BY <1>4, <1>8 DEF P

(* The running sums of f. *)
RunningSums(s, f, n) ==
  s \in [0..n -> Int] /\ s[0] = 0 /\ \A k \in 0..(n - 1) : s[k + 1] = s[k] + f[k + 1]

LEMMA SumFunctionRuns ==
  ASSUME NEW n \in Nat, NEW f \in [1..n -> Int]
  PROVE  \E s : RunningSums(s, f, n) /\ SumFunction(f) = s[n]
<1>1. PICK a : Adds(a, f, 1..n) /\ SumFunction(f) = a[1..n]
  <2>1. DOMAIN f = 1..n
    OBVIOUS
  <2>2. \E a : Adds(a, f, DOMAIN f)
    BY <2>1, AddingExists
  <2>3. QED
    BY <2>1, <2>2, SumFunctionAdds
<1>2. /\ a[{}] = 0
      /\ \A S \in SUBSET (1..n) : a[S] \in Int
      /\ \A S \in SUBSET (1..n) : \A x \in S : a[S] = f[x] + a[S \ {x}]
  <2>1. ASSUME NEW S \in SUBSET (1..n), NEW x \in S
        PROVE  a[S] = f[x] + a[S \ {x}]
    BY <1>1, AnyElementLast
  <2>2. a[{}] = 0
    BY <1>1, AnyElementLast
  <2>3. \A S \in SUBSET (1..n) : a[S] \in Int
    BY <1>1, AnyElementLast
  <2>4. QED
    BY <2>1, <2>2, <2>3
<1> DEFINE s == [k \in 0..n |-> a[1..k]]
<1>3. s \in [0..n -> Int]
  <2>1. \A k \in 0..n : 1..k \in SUBSET (1..n)
    OBVIOUS
  <2>2. QED
    BY <1>2, <2>1
<1>4. s[0] = 0
  <2>1. 1..0 = {} /\ 0 \in 0..n
    OBVIOUS
  <2>2. QED
    BY <1>2, <2>1
<1>5. ASSUME NEW k \in 0..(n - 1) PROVE s[k + 1] = s[k] + f[k + 1]
  <2>1. k \in 0..n /\ k + 1 \in 0..n /\ k + 1 \in 1..n
    OBVIOUS
  <2>2. PICK S \in SUBSET (1..n), T \in SUBSET (1..n) :
          S = 1..(k + 1) /\ T = 1..k /\ T = S \ {k + 1} /\ k + 1 \in S
    OBVIOUS
  <2>3. a[S] = f[k + 1] + a[T] /\ a[T] \in Int
    <3>1. a[S] = f[k + 1] + a[S \ {k + 1}]
      BY <1>2, <2>2, Zenon
    <3>2. QED
      BY <1>2, <2>2, <3>1
  <2>4. f[k + 1] \in Int
    BY <2>1
  <2>5. s[k + 1] = a[S] /\ s[k] = a[T]
    BY <2>1, <2>2
  <2> HIDE DEF s
  <2>6. QED
    BY <2>3, <2>4, <2>5
<1>6. s[n] = a[1..n]
  OBVIOUS
<1>7. RunningSums(s, f, n)
  BY <1>3, <1>4, <1>5 DEF RunningSums
<1>8. QED
  BY <1>1, <1>6, <1>7

(* The sums of the squared deviations of t from a constant, from the sums  *)
(* of t and of its squares.                                                *)
Squares(t) == [j \in DOMAIN t |-> square(t[j])]

LEMMA RunningSquares ==
  ASSUME NEW n \in Nat, NEW t \in [1..n -> Int]
  PROVE  /\ Squares(t) \in [1..n -> Int]
         /\ \A j \in 1..n : Squares(t)[j] = t[j] * t[j]
  BY DEF Squares, square

SumOfDeviations(a, b, m, c, d) == (c * c) * a - 2 * ((c * d) * b) + m * (d * d)

SquaredDeviations(g, t, m, c, d) == \A j \in 1..m : g[j] = square(c * t[j] - d)

LEMMA DeviationsFromConstant ==
  ASSUME NEW n \in Nat, NEW t \in [1..n -> Int], NEW s, NEW q,
         RunningSums(s, t, n), RunningSums(q, Squares(t), n),
         NEW m \in 0..n, NEW c \in Int, NEW d \in Int, NEW v, NEW g,
         RunningSums(v, g, m), SquaredDeviations(g, t, m, c, d)
  PROVE  v[m] = SumOfDeviations(q[m], s[m], m, c, d)
<1> DEFINE closed(k) == (c * c) * q[k] - 2 * ((c * d) * s[k]) + k * (d * d)
           K == {k \in Nat : k <= m => v[k] = closed(k)}
<1>1. 0 \in K
  <2>1. v[0] = 0 /\ q[0] = 0 /\ s[0] = 0
    BY DEF RunningSums
  <2>2. QED
    BY <2>1
<1>2. ASSUME NEW k \in Nat, k \in K PROVE k + 1 \in K
  <2>1. SUFFICES ASSUME k + 1 <= m PROVE v[k + 1] = closed(k + 1)
    OBVIOUS
  <2>2. k \in 0..(m - 1) /\ k \in 0..(n - 1) /\ k \in 0..n /\ k + 1 \in 1..m /\ k + 1 \in 1..n
    BY <2>1
  <2>3. PICK x \in Int, a \in Int, b \in Int : x = t[k + 1] /\ a = q[k] /\ b = s[k]
    BY <2>2 DEF RunningSums
  <2>4. q[k + 1] = a + x * x /\ s[k + 1] = b + x
    BY <2>2, <2>3, RunningSquares DEF RunningSums
  <2>5. v[k + 1] = v[k] + (c * x - d) * (c * x - d)
    <3>1. v[k + 1] = v[k] + g[k + 1]
      BY <2>2 DEF RunningSums
    <3>2. g[k + 1] = square(c * x - d)
      BY <2>2, <2>3 DEF SquaredDeviations
    <3>3. QED
      BY <3>1, <3>2 DEF square
  <2>6. v[k] = (c * c) * a - 2 * ((c * d) * b) + k * (d * d)
    BY <1>2, <2>2, <2>3
  <2>7. closed(k + 1) = (c * c) * (a + x * x) - 2 * ((c * d) * (b + x)) + (k + 1) * (d * d)
    BY <2>4
  <2> HIDE DEF closed
  <2>8. ((c * c) * a - 2 * ((c * d) * b) + k * (d * d)) + (c * x - d) * (c * x - d)
          = (c * c) * (a + x * x) - 2 * ((c * d) * (b + x)) + (k + 1) * (d * d)
    OBVIOUS
  <2>9. QED
    BY <2>5, <2>6, <2>7, <2>8
<1>3. Nat \subseteq K
  <2> HIDE DEF K
  <2> QED
    BY <1>1, <1>2, SetInduction
<1>4. m \in K /\ m <= m
  BY <1>3
<1>5. QED
  BY <1>4 DEF SumOfDeviations

(* The squared differences between samples.                                *)
SquaredDifferences(t, n) ==
  SumFunction([z \in 1..n |-> SumFunction([j \in 1..z |-> square(t[z] - t[j])])])

LEMMA DifferencesBetween ==
  ASSUME NEW n \in Nat, NEW t \in [1..n -> Int], NEW s, NEW q,
         RunningSums(s, t, n), RunningSums(q, Squares(t), n)
  PROVE  SquaredDifferences(t, n) = n * q[n] - s[n] * s[n]
<1> DEFINE row(z) == [j \in 1..z |-> square(t[z] - t[j])]
           f == [z \in 1..n |-> SumFunction(row(z))]
<1>1. ASSUME NEW z \in 1..n
      PROVE  SumFunction(row(z)) = q[z] - 2 * (t[z] * s[z]) + z * (t[z] * t[z])
  <2>1. z \in Nat /\ row(z) \in [1..z -> Int] /\ z \in 0..n /\ t[z] \in Int
    BY DEF square
  <2>2. PICK c \in Int, d \in Int :
          c = 1 /\ d = t[z] /\ SquaredDeviations(row(z), t, z, c, d)
    <3>1. ASSUME NEW j \in 1..z PROVE row(z)[j] = square(1 * t[j] - t[z])
      <4>1. PICK x \in Int, y \in Int : x = t[z] /\ y = t[j]
        BY <2>1
      <4>2. (x - y) * (x - y) = (1 * y - x) * (1 * y - x)
        OBVIOUS
      <4>3. row(z)[j] = (x - y) * (x - y)
        BY <4>1 DEF square
      <4>4. square(1 * t[j] - t[z]) = (1 * y - x) * (1 * y - x)
        BY <4>1, Zenon DEF square
      <4>5. QED
        BY <4>2, <4>3, <4>4
    <3>2. SquaredDeviations(row(z), t, z, 1, t[z])
      BY <3>1, Zenon DEF SquaredDeviations
    <3>3. 1 \in Int
      OBVIOUS
    <3>4. QED
      BY <2>1, <3>2, <3>3, Zenon
  <2> HIDE DEF row
  <2>3. PICK v : RunningSums(v, row(z), z) /\ SumFunction(row(z)) = v[z]
    BY <2>1, SumFunctionRuns
  <2>4. v[z] = (c * c) * q[z] - 2 * ((c * d) * s[z]) + z * (d * d)
    <3>1. v[z] = SumOfDeviations(q[z], s[z], z, c, d)
      BY <2>1, <2>2, <2>3, DeviationsFromConstant
    <3>2. QED
      BY <3>1 DEF SumOfDeviations
  <2>5. q[z] \in Int /\ s[z] \in Int
    BY <2>1 DEF RunningSums
  <2>6. QED
    BY <2>1, <2>2, <2>3, <2>4, <2>5
<1>2. f \in [1..n -> Int] /\ \A z \in 1..n : f[z] = q[z] - 2 * (t[z] * s[z]) + z * (t[z] * t[z])
  <2> HIDE DEF row
  <2>1. \A z \in 1..n : q[z] - 2 * (t[z] * s[z]) + z * (t[z] * t[z]) \in Int
    BY DEF RunningSums
  <2>2. \A z \in 1..n : SumFunction(row(z)) = q[z] - 2 * (t[z] * s[z]) + z * (t[z] * t[z])
    BY <1>1
  <2>3. QED
    BY <2>1, <2>2
<1> HIDE DEF f
<1>3. PICK v : RunningSums(v, f, n) /\ SumFunction(f) = v[n]
  BY <1>2, SumFunctionRuns
<1> DEFINE closed(k) == k * q[k] - s[k] * s[k]
           K == {k \in Nat : k <= n => v[k] = closed(k)}
<1>4. 0 \in K
  <2>1. v[0] = 0 /\ q[0] = 0 /\ s[0] = 0
    BY <1>3 DEF RunningSums
  <2>2. QED
    BY <2>1
<1>5. ASSUME NEW k \in Nat, k \in K PROVE k + 1 \in K
  <2>1. SUFFICES ASSUME k + 1 <= n PROVE v[k + 1] = closed(k + 1)
    OBVIOUS
  <2>2. k \in 0..(n - 1) /\ k \in 0..n /\ k + 1 \in 1..n
    BY <2>1
  <2>3. PICK x \in Int, a \in Int, b \in Int : x = t[k + 1] /\ a = q[k] /\ b = s[k]
    BY <2>2 DEF RunningSums
  <2>4. q[k + 1] = a + x * x /\ s[k + 1] = b + x
    BY <2>2, <2>3, RunningSquares DEF RunningSums
  <2>5. v[k + 1] = v[k] + ((a + x * x) - 2 * (x * (b + x)) + (k + 1) * (x * x))
    <3>1. v[k + 1] = v[k] + f[k + 1]
      BY <1>3, <2>2 DEF RunningSums
    <3>2. QED
      BY <1>2, <2>2, <2>3, <2>4, <3>1
  <2>6. v[k] = k * a - b * b
    BY <1>5, <2>2, <2>3
  <2>7. closed(k + 1) = (k + 1) * (a + x * x) - (b + x) * (b + x)
    BY <2>4
  <2> HIDE DEF closed
  <2>8. (k * a - b * b) + ((a + x * x) - 2 * (x * (b + x)) + (k + 1) * (x * x))
          = (k + 1) * (a + x * x) - (b + x) * (b + x)
    OBVIOUS
  <2>9. QED
    BY <2>5, <2>6, <2>7, <2>8
<1>6. Nat \subseteq K
  <2> HIDE DEF K
  <2> QED
    BY <1>4, <1>5, SetInduction
<1>7. n \in K /\ n <= n
  BY <1>6
<1>8. v[n] = closed(n)
  BY <1>7
<1>9. SquaredDifferences(t, n) = SumFunction(f)
  BY DEF SquaredDifferences, f, row
<1>10. QED
  BY <1>3, <1>8, <1>9

(* A sum of n numbers lies between n times bounds of each. *)
LEMMA SumIsBounded ==
  ASSUME NEW n \in Nat, NEW t \in [1..n -> Int], NEW s, RunningSums(s, t, n),
         NEW low \in Int, NEW high \in Int,
         \A j \in 1..n : low <= t[j] /\ t[j] <= high
  PROVE  n * low <= s[n] /\ s[n] <= n * high
<1> DEFINE K == {k \in Nat : k <= n => k * low <= s[k] /\ s[k] <= k * high}
<1>1. 0 \in K
  BY DEF RunningSums
<1>2. ASSUME NEW k \in Nat, k \in K PROVE k + 1 \in K
  <2>1. SUFFICES ASSUME k + 1 <= n
                 PROVE  (k + 1) * low <= s[k + 1] /\ s[k + 1] <= (k + 1) * high
    OBVIOUS
  <2>2. k \in 0..(n - 1) /\ k \in 0..n /\ k + 1 \in 1..n
    BY <2>1
  <2>3. s[k + 1] = s[k] + t[k + 1] /\ s[k] \in Int /\ t[k + 1] \in Int
    BY <2>2 DEF RunningSums
  <2>4. low <= t[k + 1] /\ t[k + 1] <= high
    BY <2>2
  <2>5. k * low <= s[k] /\ s[k] <= k * high
    BY <1>2, <2>2
  <2>6. (k + 1) * low = k * low + low /\ (k + 1) * high = k * high + high
    OBVIOUS
  <2>7. k * low \in Int /\ k * high \in Int
    OBVIOUS
  <2>8. QED
    BY <2>3, <2>4, <2>5, <2>6, <2>7
<1>3. Nat \subseteq K
  <2> HIDE DEF K
  <2> QED
    BY <1>1, <1>2, SetInduction
<1>4. n \in K /\ n <= n
  BY <1>3
<1>5. QED
  BY <1>4

-----------------------------------------------------------------------------
(* Sorting *)

(* Some sample is largest. *)
Largest(k, s, n) == k \in 1..n /\ \A j \in 1..n : s[j] <= s[k]

LEMMA LargestSample ==
  \A n \in Nat : \A s \in [1..(n + 1) -> Int] : \E k : Largest(k, s, n + 1)
<1> DEFINE K == {n \in Nat : \A s \in [1..(n + 1) -> Int] : \E k : Largest(k, s, n + 1)}
<1>1. 0 \in K
  <2>1. SUFFICES ASSUME NEW s \in [1..(0 + 1) -> Int]
                 PROVE  \E k : Largest(k, s, 0 + 1)
    OBVIOUS
  <2>2. Largest(1, s, 0 + 1)
    BY DEF Largest
  <2>3. QED
    BY <2>2
<1>2. ASSUME NEW n \in Nat, n \in K PROVE n + 1 \in K
  <2> DEFINE m == (n + 1) + 1
  <2>0. /\ m \in Nat /\ m \in 1..m /\ \A j \in 1..(n + 1) : j \in 1..m
        /\ \A j \in 1..m : j = m \/ j \in 1..(n + 1)
        /\ n + 1 \in Nat
    OBVIOUS
  <2> HIDE DEF m
  <2>1. ASSUME NEW s \in [1..m -> Int] PROVE \E k : Largest(k, s, m)
    <3> DEFINE r == [j \in 1..(n + 1) |-> s[j]]
    <3>1. r \in [1..(n + 1) -> Int] /\ \A j \in 1..(n + 1) : r[j] = s[j]
      BY <2>0
    <3>2. PICK k : Largest(k, r, n + 1)
      <4> HIDE DEF r
      <4> QED
        BY <1>2, <3>1
    <3>3. k \in 1..(n + 1) /\ \A j \in 1..(n + 1) : s[j] <= s[k]
      <4> HIDE DEF r
      <4> QED
        BY <3>1, <3>2 DEF Largest
    <3>4. s[k] \in Int /\ s[m] \in Int /\ k \in 1..m /\ \A j \in 1..m : s[j] \in Int
      BY <2>0, <3>3
    <3> HIDE DEF r
    <3>5. CASE s[m] <= s[k]
      <4>1. Largest(k, s, m)
        BY <2>0, <3>3, <3>4, <3>5 DEF Largest
      <4>2. QED
        BY <4>1
    <3>6. CASE s[k] <= s[m]
      <4>1. Largest(m, s, m)
        BY <2>0, <3>3, <3>4, <3>6 DEF Largest
      <4>2. QED
        BY <4>1
    <3>7. QED
      BY <3>4, <3>5, <3>6
  <2>2. QED
    BY <2>0, <2>1 DEF m
<1>3. Nat \subseteq K
  <2> HIDE DEF K
  <2> QED
    BY <1>1, <1>2, SetInduction
<1>4. QED
  BY <1>3

(* f lists the indices of s in the order of its samples.                   *)
InOrder(f, s, n) ==
  /\ f \in [1..n -> 1..n]
  /\ \A z, j \in 1..n : f[z] = f[j] => z = j
  /\ \A k \in 1..n : \E z \in 1..n : f[z] = k
  /\ \A z, j \in 1..n : z < j => s[f[z]] <= s[f[j]]

(* The largest sample last, in front of it the others in order.            *)
LEMMA OneMoreSample ==
  ASSUME NEW n \in Nat, NEW s \in [1..(n + 1) -> Int],
         \A r \in [1..n -> Int] : \E f : InOrder(f, r, n)
  PROVE  \E f : InOrder(f, s, n + 1)
<1>1. PICK k \in 1..(n + 1) : \A j \in 1..(n + 1) : s[j] <= s[k]
  BY LargestSample DEF Largest
<1> DEFINE place(j) == IF j = k THEN n + 1 ELSE j
           r == [j \in 1..n |-> s[place(j)]]
<1>2. /\ \A j \in 1..n : place(j) \in 1..(n + 1) /\ place(j) # k
      /\ \A z, j \in 1..n : place(z) = place(j) => z = j
      /\ \A h \in 1..(n + 1) : h # k => \E j \in 1..n : place(j) = h
  <2>1. ASSUME NEW h \in 1..(n + 1), h # k PROVE \E j \in 1..n : place(j) = h
    <3>1. CASE h = n + 1
      <4>1. k \in 1..n /\ place(k) = h
        BY <2>1, <3>1
      <4>2. QED
        BY <4>1
    <3>2. CASE h # n + 1
      <4>1. h \in 1..n /\ place(h) = h
        BY <2>1, <3>2
      <4>2. QED
        BY <4>1
    <3>3. QED
      BY <3>1, <3>2
  <2>2. QED
    BY <2>1
<1> HIDE DEF place
<1>3. r \in [1..n -> Int] /\ \A j \in 1..n : r[j] = s[place(j)]
  BY <1>2
<1> HIDE DEF r
<1>4. PICK f : InOrder(f, r, n)
  BY <1>3
<1>5. /\ f \in [1..n -> 1..n]
      /\ \A z, j \in 1..n : f[z] = f[j] => z = j
      /\ \A h \in 1..n : \E z \in 1..n : f[z] = h
      /\ \A z, j \in 1..n : z < j => r[f[z]] <= r[f[j]]
  BY <1>4 DEF InOrder
<1> DEFINE g == [z \in 1..(n + 1) |-> IF z = n + 1 THEN k ELSE place(f[z])]
<1>6. /\ \A z \in 1..n : z \in 1..(n + 1) /\ f[z] \in 1..n
      /\ \A z \in 1..(n + 1) : z \in 1..n \/ z = n + 1
      /\ n + 1 \in 1..(n + 1) /\ \A z \in 1..n : z # n + 1
  <2>1. /\ \A z \in 1..n : z \in 1..(n + 1)
        /\ \A z \in 1..(n + 1) : z \in 1..n \/ z = n + 1
    OBVIOUS
  <2>2. n + 1 \in 1..(n + 1) /\ \A z \in 1..n : z # n + 1
    OBVIOUS
  <2>3. \A z \in 1..n : f[z] \in 1..n
    BY <1>5
  <2>4. QED
    BY <2>1, <2>2, <2>3
<1>7. g[n + 1] = k /\ \A z \in 1..n : g[z] = place(f[z])
  BY <1>6
<1>8. g \in [1..(n + 1) -> 1..(n + 1)]
  BY <1>2, <1>6
<1> HIDE DEF g
<1>9. /\ \A z, j \in 1..(n + 1) : g[z] = g[j] => z = j
      /\ \A h \in 1..(n + 1) : \E z \in 1..(n + 1) : g[z] = h
  <2>1. \A z \in 1..n : g[z] # k
    BY <1>2, <1>6, <1>7
  <2>2. \A z, j \in 1..n : g[z] = g[j] => z = j
    <3>1. ASSUME NEW z \in 1..n, NEW j \in 1..n, g[z] = g[j] PROVE z = j
      <4>1. place(f[z]) = place(f[j]) /\ f[z] \in 1..n /\ f[j] \in 1..n
        BY <1>6, <1>7, <3>1
      <4>2. f[z] = f[j]
        BY <1>2, <4>1
      <4>3. QED
        BY <1>5, <4>2
    <3>2. QED
      BY <3>1
  <2>3. ASSUME NEW h \in 1..(n + 1), h # k PROVE \E z \in 1..n : g[z] = h
    <3>1. PICK j \in 1..n : place(j) = h
      BY <1>2, <2>3
    <3>2. PICK z \in 1..n : f[z] = j
      BY <1>5
    <3>3. g[z] = h
      BY <1>7, <3>1, <3>2
    <3>4. QED
      BY <3>3
  <2>4. \A z, j \in 1..(n + 1) : g[z] = g[j] => z = j
    BY <1>6, <1>7, <2>1, <2>2
  <2>5. \A h \in 1..(n + 1) : \E z \in 1..(n + 1) : g[z] = h
    BY <1>6, <1>7, <2>3
  <2>6. QED
    BY <2>4, <2>5
<1>10. \A z, j \in 1..(n + 1) : z < j => s[g[z]] <= s[g[j]]
  <2> SUFFICES ASSUME NEW z \in 1..(n + 1), NEW j \in 1..(n + 1), z < j
               PROVE  s[g[z]] <= s[g[j]]
    OBVIOUS
  <2>1. z \in 1..n
    OBVIOUS
  <2>2. CASE j = n + 1
    BY <1>1, <1>7, <1>8, <2>2
  <2>3. CASE j # n + 1
    <3>1. j \in 1..n
      BY <2>3
    <3>2. r[f[z]] <= r[f[j]]
      BY <1>5, <2>1, <3>1
    <3>3. f[z] \in 1..n /\ f[j] \in 1..n
      BY <1>5, <2>1, <3>1
    <3>4. r[f[z]] = s[g[z]] /\ r[f[j]] = s[g[j]]
      BY <1>3, <1>7, <2>1, <3>1, <3>3
    <3>5. QED
      BY <3>2, <3>4
  <2>4. QED
    BY <2>2, <2>3
<1>11. InOrder(g, s, n + 1)
  BY <1>8, <1>9, <1>10 DEF InOrder
<1>12. QED
  BY <1>11

LEMMA OrderExists ==
  \A n \in Nat : \A s \in [1..n -> Int] : \E f : InOrder(f, s, n)
<1> DEFINE K == {n \in Nat : \A s \in [1..n -> Int] : \E f : InOrder(f, s, n)}
<1>1. 0 \in K
  <2>1. SUFFICES ASSUME NEW s \in [1..0 -> Int] PROVE \E f : InOrder(f, s, 0)
    OBVIOUS
  <2>2. InOrder([z \in 1..0 |-> z], s, 0)
    BY DEF InOrder
  <2>3. QED
    BY <2>2
<1>2. ASSUME NEW n \in Nat, n \in K PROVE n + 1 \in K
  <2>1. \A s \in [1..(n + 1) -> Int] : \E f : InOrder(f, s, n + 1)
    <3>1. \A r \in [1..n -> Int] : \E f : InOrder(f, r, n)
      BY <1>2
    <3> HIDE DEF K
    <3>2. QED
      BY <3>1, OneMoreSample
  <2>2. QED
    BY <2>1
<1>3. Nat \subseteq K
  <2> HIDE DEF K
  <2> QED
    BY <1>1, <1>2, SetInduction
<1>4. QED
  BY <1>3

LEMMA SortedFacts ==
  ASSUME NEW n \in Nat, NEW s \in [1..n -> Int]
  PROVE  /\ Sorted(s) \in [1..n -> Int]
         /\ \A z, j \in 1..n : z < j => Sorted(s)[z] <= Sorted(s)[j]
         /\ \E f : InOrder(f, s, n) /\ \A z \in 1..n : Sorted(s)[z] = s[f[z]]
<1> DEFINE orders == {f \in Bijection(1..n, 1..n) :
                        \A z, j \in 1..n : z < j => s[f[z]] <= s[f[j]]}
           order == CHOOSE f \in Bijection(1..n, 1..n) :
                      \A z, j \in 1..n : z < j => s[f[z]] <= s[f[j]]
<1>1. \A f : InOrder(f, s, n) <=> f \in Bijection(1..n, 1..n)
                                  /\ \A z, j \in 1..n : z < j => s[f[z]] <= s[f[j]]
  BY DEF InOrder, Bijection, Injection, Surjection, IsInjective
<1>2. \E f : InOrder(f, s, n)
  BY OrderExists
<1>3. InOrder(order, s, n)
  BY <1>1, <1>2
<1>4. DOMAIN s = 1..n
  OBVIOUS
<1>5. Sorted(s) = [z \in 1..n |-> s[order[z]]]
  BY <1>4 DEF Sorted
<1> HIDE DEF order
<1>6. /\ order \in [1..n -> 1..n]
      /\ \A z, j \in 1..n : z < j => s[order[z]] <= s[order[j]]
  BY <1>3 DEF InOrder
<1>7. \A z \in 1..n : Sorted(s)[z] = s[order[z]] /\ order[z] \in 1..n
  BY <1>5, <1>6
<1>8. Sorted(s) \in [1..n -> Int]
  BY <1>5, <1>6
<1>9. \A z, j \in 1..n : z < j => Sorted(s)[z] <= Sorted(s)[j]
  BY <1>6, <1>7
<1>10. QED
  BY <1>3, <1>7, <1>8, <1>9

(* As many samples satisfy a condition, given as a set of values V, as     *)
(* places in the sorted sequence do.                                       *)
LEMMA SortedCounts ==
  ASSUME NEW n \in Nat, NEW s \in [1..n -> Int], NEW V, NEW low \in Int, NEW high \in Int,
         \A z \in 1..n : Sorted(s)[z] \in V => low <= z /\ z <= high
  PROVE  Cardinality({z \in 1..n : s[z] \in V}) <= IF low > high THEN 0 ELSE high - low + 1
<1> DEFINE A == {z \in 1..n : Sorted(s)[z] \in V}
           B == {z \in 1..n : s[z] \in V}
<1>1. PICK f : InOrder(f, s, n) /\ \A z \in 1..n : Sorted(s)[z] = s[f[z]]
  BY SortedFacts
<1>2. /\ f \in [1..n -> 1..n]
      /\ \A z, j \in 1..n : f[z] = f[j] => z = j
      /\ \A k \in 1..n : \E z \in 1..n : f[z] = k
  BY <1>1 DEF InOrder
<1>3. IsFiniteSet(low..high) /\ Cardinality(low..high) = IF low > high THEN 0 ELSE high - low + 1
  BY FS_Interval, Zenon
<1>4. A \in SUBSET (low..high)
  OBVIOUS
<1>5. IsFiniteSet(A) /\ Cardinality(A) <= Cardinality(low..high)
  <2> HIDE DEF A
  <2>1. QED
    BY <1>3, <1>4, FS_Subset
<1> DEFINE g == [z \in A |-> f[z]]
<1>6. g \in Bijection(A, B)
  <2>1. g \in [A -> B] /\ \A z \in A : g[z] = f[z]
    BY <1>1, <1>2
  <2>2. \A z, j \in A : g[z] = g[j] => z = j
    BY <1>2
  <2>3. ASSUME NEW k \in B PROVE \E z \in A : g[z] = k
    <3>1. PICK z \in 1..n : f[z] = k
      BY <1>2
    <3>2. z \in A /\ g[z] = k
      BY <1>1, <3>1
    <3>3. QED
      BY <3>2
  <2> HIDE DEF g, A, B
  <2>4. QED
    BY <2>1, <2>2, <2>3 DEF Bijection, Injection, Surjection, IsInjective
<1>7. Cardinality(B) = Cardinality(A)
  <2> HIDE DEF g, A, B
  <2>1. ExistsBijection(A, B)
    BY <1>6 DEF ExistsBijection
  <2>2. QED
    BY <1>5, <2>1, FS_Bijection
<1>8. QED
  BY <1>3, <1>5, <1>7

(* The middle of the sorted samples has at most half of them on a side.    *)
LEMMA MiddleIsMedian ==
  ASSUME NEW n \in Nat, n >= 1, NEW s \in [1..n -> Int], NEW middle \in Int,
         middle = Sorted(s)[1 + n \div 2]
  PROVE  /\ 2 * Cardinality({z \in 1..n : s[z] < middle}) <= n
         /\ 2 * Cardinality({z \in 1..n : s[z] > middle}) <= n
<1> DEFINE below == {v \in Int : v < middle}
           above == {v \in Int : v > middle}
<1>1. PICK h \in Nat, b \in 0..1 : n = 2 * h + b /\ h = n \div 2
  OBVIOUS
<1>2. /\ 1 + h \in 1..n /\ middle = Sorted(s)[1 + h]
      /\ \A z \in 1..n : Sorted(s)[z] \in Int
      /\ \A z, j \in 1..n : z < j => Sorted(s)[z] <= Sorted(s)[j]
  <2>1. 1 + h \in 1..n /\ middle = Sorted(s)[1 + h]
    BY <1>1
  <2>2. Sorted(s) \in [1..n -> Int]
    BY SortedFacts
  <2>3. \A z, j \in 1..n : z < j => Sorted(s)[z] <= Sorted(s)[j]
    BY SortedFacts
  <2>4. QED
    BY <2>1, <2>2, <2>3
<1>3. ASSUME NEW z \in 1..n, Sorted(s)[z] \in below PROVE 1 <= z /\ z <= h
  BY <1>2, <1>3
<1>4. ASSUME NEW z \in 1..n, Sorted(s)[z] \in above PROVE h + 2 <= z /\ z <= n
  <2>1. ~(z < 1 + h)
    BY <1>2, <1>4
  <2>2. z # 1 + h
    BY <1>2, <1>4
  <2>3. QED
    BY <1>1, <2>1, <2>2
<1>5. /\ {z \in 1..n : s[z] < middle} = {z \in 1..n : s[z] \in below}
      /\ {z \in 1..n : s[z] > middle} = {z \in 1..n : s[z] \in above}
  OBVIOUS
<1> HIDE DEF below, above
<1>6. Cardinality({z \in 1..n : s[z] \in below}) <= IF 1 > h THEN 0 ELSE h - 1 + 1
  <2>1. 1 \in Int /\ h \in Int
    BY <1>1
  <2>2. QED
    BY <1>3, <2>1, SortedCounts
<1>7. Cardinality({z \in 1..n : s[z] \in above}) <= IF h + 2 > n THEN 0 ELSE n - (h + 2) + 1
  <2>1. h + 2 \in Int /\ n \in Int
    BY <1>1
  <2>2. QED
    BY <1>4, <2>1, SortedCounts
<1>8. ASSUME NEW V PROVE Cardinality({z \in 1..n : s[z] \in V}) \in Nat
  <2>1. {z \in 1..n : s[z] \in V} \in SUBSET (1..n)
    OBVIOUS
  <2>2. QED
    BY <2>1, SubsetsOfInterval
<1>9. PICK x \in Nat, y \in Nat : /\ x = Cardinality({z \in 1..n : s[z] \in below})
                                  /\ y = Cardinality({z \in 1..n : s[z] \in above})
  BY <1>8
<1>10. 2 * x <= n /\ 2 * y <= n
  <2>1. /\ x <= IF 1 > h THEN 0 ELSE h - 1 + 1
        /\ y <= IF h + 2 > n THEN 0 ELSE n - (h + 2) + 1
    BY <1>6, <1>7, <1>9
  <2>2. x <= h /\ y + h <= n
    BY <1>1, <2>1
  <2>3. y <= n - h - 1 \/ y = 0
    BY <1>1, <2>1
  <2>4. QED
    BY <1>1, <2>2, <2>3
<1>11. QED
  BY <1>5, <1>9, <1>10

(* What summarize computes describes the samples it is given.              *)
LEMMA SummaryDescribes ==
  ASSUME NEW n \in Nat, n >= 1, NEW t \in Seq(Int), Len(t) = n
  PROVE  Describes(summarize(t), t)
<1>1. t \in [1..n -> Int] /\ DOMAIN t = 1..n
  OBVIOUS
<1> DEFINE r == Sorted(t)
<1>2. r \in [1..n -> Int] /\ \A z, j \in 1..n : z < j => r[z] <= r[j]
  BY <1>1, SortedFacts
<1>3. PICK f : InOrder(f, t, n) /\ \A z \in 1..n : r[z] = t[f[z]]
  BY <1>1, SortedFacts
<1> HIDE DEF r
<1>4. PICK low \in Int, high \in Int, middle \in Int :
        low = r[1] /\ high = r[n] /\ middle = r[1 + n \div 2]
  <2>1. 1 \in 1..n /\ n \in 1..n /\ 1 + n \div 2 \in 1..n
    OBVIOUS
  <2>2. QED
    BY <1>2, <2>1
<1>5. \A z \in 1..n : low <= t[z] /\ t[z] <= high
  <2> SUFFICES ASSUME NEW k \in 1..n PROVE low <= t[k] /\ t[k] <= high
    OBVIOUS
  <2>1. PICK z \in 1..n : f[z] = k
    BY <1>3 DEF InOrder
  <2>2. t[k] = r[z] /\ r[z] \in Int
    BY <1>2, <1>3, <2>1
  <2>3. low <= r[z]
    <3>1. CASE z = 1
      BY <1>4, <2>2, <3>1
    <3>2. CASE z # 1
      <4>1. 1 \in 1..n /\ 1 < z
        BY <3>2
      <4>2. QED
        BY <1>2, <1>4, <4>1
    <3>3. QED
      BY <3>1, <3>2
  <2>4. r[z] <= high
    <3>1. CASE z = n
      BY <1>4, <2>2, <3>1
    <3>2. CASE z # n
      <4>1. n \in 1..n /\ z < n
        BY <3>2
      <4>2. QED
        BY <1>2, <1>4, <4>1
    <3>3. QED
      BY <3>1, <3>2
  <2>5. QED
    BY <2>2, <2>3, <2>4
<1>6. {low, high, middle} \subseteq {t[z] : z \in 1..n}
  <2>1. \A z \in 1..n : f[z] \in 1..n /\ r[z] = t[f[z]]
    BY <1>3 DEF InOrder
  <2>2. 1 \in 1..n /\ n \in 1..n /\ 1 + n \div 2 \in 1..n
    OBVIOUS
  <2>3. QED
    BY <1>4, <2>1, <2>2
<1>7. PICK s : RunningSums(s, t, n) /\ SumFunction(t) = s[n]
  BY <1>1, SumFunctionRuns
<1>8. PICK q : RunningSums(q, Squares(t), n)
  <2>1. Squares(t) \in [1..n -> Int]
    BY <1>1, RunningSquares
  <2>2. QED
    BY <2>1, SumFunctionRuns
<1>9. PICK a \in Int, b \in Int : a = s[n] /\ b = q[n]
  BY <1>7, <1>8 DEF RunningSums
<1> DEFINE g == [z \in 1..n |-> square(n * t[z] - a)]
<1>10. SumFunction(g) = n * (n * b - a * a)
  <2>1. g \in [1..n -> Int] /\ SquaredDeviations(g, t, n, n, a)
    BY <1>1, <1>9 DEF square, SquaredDeviations
  <2> HIDE DEF g
  <2>2. PICK v : RunningSums(v, g, n) /\ SumFunction(g) = v[n]
    BY <2>1, SumFunctionRuns
  <2>3. v[n] = SumOfDeviations(q[n], s[n], n, n, a)
    <3>1. n \in 0..n /\ n \in Int
      OBVIOUS
    <3>2. QED
      BY <1>1, <1>7, <1>8, <1>9, <2>1, <2>2, <3>1, DeviationsFromConstant
  <2>4. (n * n) * b - 2 * ((n * a) * a) + n * (a * a) = n * (n * b - a * a)
    OBVIOUS
  <2>5. QED
    BY <1>9, <2>2, <2>3, <2>4 DEF SumOfDeviations
<1>11. SquaredDifferences(t, n) = n * b - a * a
  BY <1>1, <1>7, <1>8, <1>9, DifferencesBetween
<1>12. n * low <= a /\ a <= n * high
  BY <1>1, <1>5, <1>7, <1>9, SumIsBounded
<1>13. /\ 2 * Cardinality({z \in 1..n : t[z] < middle}) <= n
       /\ 2 * Cardinality({z \in 1..n : t[z] > middle}) <= n
  BY <1>1, <1>4, MiddleIsMedian DEF r
<1> DEFINE v == IF n > 1 THEN quotient(SumFunction(g), n * n * (n - 1)) ELSE quotient(0, 1)
<1>14. summarize(t) = [n |-> n, mean |-> quotient(a, n), variance |-> v,
                       min |-> low, max |-> high, median |-> middle]
  BY <1>4, <1>7, <1>9 DEF summarize, squares_from_mean, r
<1> HIDE DEF g
<1>15. /\ v.den > 0
       /\ IF n = 1 THEN v.num = 0
          ELSE v.num * (n * (n - 1)) = SquaredDifferences(t, n) * v.den
  <2>1. CASE n = 1
    BY <2>1 DEF quotient
  <2>2. CASE n # 1
    <3>1. PICK d \in Int : d = n * b - a * a
      BY <1>9
    <3>2. v.num = n * d /\ v.den = n * n * (n - 1)
      BY <1>10, <2>2, <3>1 DEF quotient
    <3>3. PICK m \in Nat : m = n - 1 /\ m > 0
      BY <2>2
    <3>4. (n * d) * (n * m) = d * (n * n * m) /\ n * n * m > 0
      BY <3>1, <3>3
    <3>5. QED
      BY <1>11, <2>2, <3>1, <3>2, <3>3, <3>4
  <2>3. QED
    BY <2>1, <2>2
<1> HIDE DEF v
<1>16. QED
  <2>1. PICK u : u = summarize(t)
    OBVIOUS
  <2>2. /\ u.n = n /\ u.min = low /\ u.max = high /\ u.median = middle
        /\ u.mean.num = a /\ u.mean.den = n /\ u.variance = v
    BY <1>14, <2>1 DEF quotient
  <2>3. /\ \A z \in 1..n : u.min <= t[z] /\ t[z] <= u.max
        /\ {u.min, u.max, u.median} \subseteq {t[z] : z \in 1..n}
        /\ u.mean.den * u.min <= u.mean.num /\ u.mean.num <= u.mean.den * u.max
        /\ u.mean.den > 0
    BY <1>5, <1>6, <1>12, <2>2
  <2>4. /\ 2 * Cardinality({z \in 1..n : t[z] < u.median}) <= n
        /\ 2 * Cardinality({z \in 1..n : t[z] > u.median}) <= n
    BY <1>13, <2>2
  <2>5. /\ u.variance.den > 0
        /\ IF n = 1 THEN u.variance.num = 0
           ELSE u.variance.num * (n * (n - 1)) = SquaredDifferences(t, n) * u.variance.den
    BY <1>15, <2>2
  <2>6. Describes(u, t)
    BY <2>2, <2>3, <2>4, <2>5 DEF Describes, SquaredDifferences
  <2>7. QED
    BY <2>1, <2>6

-----------------------------------------------------------------------------
(* The statistics of a scenario *)

(* A round adds a sample; the statistics are those of all the rounds.      *)
SamplesSummarized ==
  /\ pc = "timed" => Len(times) = i
  /\ pc \in {"warmup", "shares", "report"} /\ results # <<>> =>
       Len(times) = opts.iterations /\ stats = summarize(times)

LEMMA RoundKeepsSamples ==
  ASSUME BInv, SamplesSummarized, Warmup \/ Time
  PROVE  SamplesSummarized'
<1>1. opts' = opts /\ stats' = stats /\ results' = results
  BY DEF Warmup, Time, cli, measured
<1>2. CASE Warmup
  <2>1. pc = "warmup" /\ (pc' = "undefined" \/ (pc' = pc /\ times' = times))
    BY <1>2 DEF Warmup, Round
  <2>2. QED
    BY <1>1, <2>1 DEF SamplesSummarized, summarize
<1>3. CASE Time
  <2>1. pc = "timed" /\ times \in Seq(Times) /\ i \in Nat
    BY <1>3 DEF Time, BInv, TypeOK
  <2>2. \/ pc' = "undefined"
        \/ pc' = "timed" /\ i' = i + 1 /\ \E t \in Times : times' = Append(times, t)
    BY <1>3, <2>1 DEF Time, Round
  <2>3. CASE pc' = "timed" /\ i' = i + 1 /\ \E t \in Times : times' = Append(times, t)
    <3>1. Len(times') = Len(times) + 1
      BY <2>1, <2>3, AppendProperties
    <3>2. QED
      BY <2>1, <2>3, <3>1 DEF SamplesSummarized
  <2>4. QED
    BY <2>2, <2>3 DEF SamplesSummarized
<1>4. QED
  BY <1>2, <1>3

LEMMA SamplesStaySummarized ==
  ASSUME BInv, DigestsInOrder, SamplesSummarized, [Next]_vars
  PROVE  SamplesSummarized'
<1>1. CASE Parse \/ EndParse \/ Pregenerate \/ PregenerateFails \/ Uncaught \/ Report
  <2>1. pc' \in {"cli", "pools", "exit 0", "exit 1", "terminated"}
    <3>1. CASE Parse
      BY <3>1 DEF Parse, ParseMd, ParseCount, ParseCsv, ParseHelp, ParsePositional,
                  parsing, SetIterations
    <3>2. CASE EndParse \/ Pregenerate \/ PregenerateFails \/ Uncaught
      BY <3>2 DEF EndParse, Pregenerate, PregenerateFails, Uncaught, filling
    <3>3. CASE Report
      BY <3>3, Zenon DEF Report
    <3>4. QED
      BY <1>1, <3>1, <3>2, <3>3
  <2>2. QED
    BY <2>1 DEF SamplesSummarized
<1>2. CASE EndPools
  <2>1. pc = "pools" /\ pc' = "warmup" /\ results' = results
    BY <1>2 DEF EndPools, measured
  <2>2. QED
    BY <2>1 DEF SamplesSummarized, BInv, PoolsAligned
<1>3. CASE PrepareC3
  <2>1. /\ pc = "shares" /\ pc' = "warmup" /\ opts' = opts /\ times' = times
        /\ results' = results /\ stats' = stats
    BY <1>3 DEF PrepareC3, cli, measured
  <2>2. QED
    BY <2>1 DEF SamplesSummarized, summarize
<1>4. CASE Warmup \/ Time
  BY <1>4, RoundKeepsSamples
<1>5. CASE EndWarmup
  BY <1>5 DEF EndWarmup, SamplesSummarized
<1>6. CASE EndTimed
  <2>1. /\ pc = "timed" /\ i >= opts.iterations /\ opts' = opts /\ times' = times
        /\ stats' = summarize(times) /\ pc' \in {"report", "shares", "warmup"}
    BY <1>6 DEF EndTimed, cli
  <2>2. Len(times) = opts.iterations
    <3>1. i \in Nat /\ opts.iterations \in Int
      BY IterationsInInt DEF BInv, TypeOK
    <3>2. i <= opts.iterations /\ Len(times) = i
      BY <2>1 DEF DigestsInOrder, SamplesSummarized
    <3>3. QED
      BY <2>1, <3>1, <3>2
  <2>3. summarize(times)' = summarize(times)
    BY <2>1 DEF summarize
  <2>4. QED
    BY <2>1, <2>2, <2>3 DEF SamplesSummarized
<1>7. CASE UNCHANGED vars
  BY <1>7 DEF vars, SamplesSummarized, summarize
<1>8. QED
  BY <1>1, <1>2, <1>3, <1>4, <1>5, <1>6, <1>7 DEF Next, Proceed

(* Whatever the samples, and however many, mean, standard deviation,       *)
(* minimum, maximum and median are those of the timed rounds.              *)
THEOREM StatsAlwaysDescribe == Spec => []StatsDescribeSamples
<1>1. Init => DigestsInOrder /\ SamplesSummarized
  BY DEF Init, DigestsInOrder, SamplesSummarized
<1>2. BInv /\ DigestsInOrder /\ SamplesSummarized => StatsDescribeSamples
  <2> SUFFICES ASSUME BInv, DigestsInOrder, SamplesSummarized,
                      pc \in {"warmup", "shares", "report"}, results # <<>>
               PROVE  stats.n = opts.iterations /\ Describes(stats, times)
    BY DEF StatsDescribeSamples
  <2>1. Len(times) = opts.iterations /\ stats = summarize(times)
    BY DEF SamplesSummarized
  <2>2. opts.iterations \in Nat /\ opts.iterations >= 1
    <3>1. opts.iterations >= 1
      BY DEF DigestsInOrder
    <3>2. QED
      BY <3>1, IterationsInInt
  <2>3. times \in Seq(Int)
    <3>1. times \in Seq(Times)
      BY DEF BInv, TypeOK
    <3>2. Times \subseteq Int
      <4>1. Times \subseteq Nat
        BY BenchAssumption, Zenon
      <4>2. QED
        BY <4>1
    <3>3. Seq(Times) \subseteq Seq(Int)
      BY <3>2, SeqMonotonic, Zenon
    <3>4. QED
      BY <3>1, <3>3
  <2>4. Describes(stats, times)
    BY <2>1, <2>2, <2>3, SummaryDescribes
  <2>5. stats.n = Len(times)
    BY <2>4 DEF Describes
  <2>6. QED
    BY <2>1, <2>4, <2>5
<1>3. Spec => [](BInv /\ DigestsInOrder /\ SamplesSummarized)
  <2>1. BInv /\ DigestsInOrder /\ [Next]_vars => DigestsInOrder'
    BY DigestsStayInOrder
  <2>2. BInv /\ DigestsInOrder /\ SamplesSummarized /\ [Next]_vars => SamplesSummarized'
    BY SamplesStaySummarized
  <2>3. QED
    BY <1>1, <2>1, <2>2, SpecKeepsBInv, PTL DEF Spec
<1>4. QED
  BY <1>2, <1>3, PTL
=============================================================================
