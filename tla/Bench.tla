------------------------------- MODULE Bench -------------------------------
(***************************************************************************)
(* The benchmark driver, bench/bench_all.cpp: command line, pools of       *)
(* inputs, the seven scenarios, statistics and CSV file.  Keys, presigns   *)
(* and nonces are named by the number of draws from rng before them, a     *)
(* digest by the number in its message.  What a scenario computes is in    *)
(* the other modules; here it matters which inputs meet in which call.     *)
(***************************************************************************)
EXTENDS BenchUtil, FiniteSets

CONSTANTS Words,        \* the words a command line is made of
          stoi,         \* stoi[w]: what std::stoi makes of a word
          NoInt,        \* it throws
          MaxWords,     \* bound: words on a command line
          kIterations, kWarmup,
          INT_MAX,
          Times         \* what a round may take

ints == (-INT_MAX - 1)..INT_MAX

ASSUME BenchAssumption ==
  /\ stoi \in [Words -> ints \cup {NoInt}]
  /\ INT_MAX \in Nat /\ NoInt \notin ints
  /\ kIterations \in 1..INT_MAX /\ kWarmup \in 1..INT_MAX
  /\ MaxWords \in Nat /\ Times \subseteq Nat
  /\ \A flag \in Words \cap {"--md", "--csv", "--iterations", "-n"} : stoi[flag] = NoInt

VARIABLES pc,         \* where main is
          argv, arg,  \* the command line, and parse_cli's index into it
          opts,       \* a CliOptions
          total,      \* the number of inputs to generate
          pool,       \* the eight vectors of inputs, and beaver_shares
          drawn,      \* what has been drawn from rng so far
          i,          \* the index of the current loop of run_benchmark
          times,      \* its samples
          used,       \* history: the digests it passed to the scenario
          stats,      \* the statistics of the last scenario pushed
          results,    \* history: used, of every scenario pushed so far
          uses,       \* history: the signatures made with a nonce from rng
          rows        \* the rows of the CSV file

cli == <<argv, arg, opts>>
inputs == <<total, pool>>
measured == <<stats, results>>
vars == <<pc, argv, arg, opts, total, pool, drawn, i, times, used, stats,
          results, uses, rows>>

Vectors == {"single_keys", "coSigner_keys", "threshold_keys",
            "threshold_presigns", "hashes", "nonces_k", "nonces_r",
            "openssl_keys", "beaver_shares"}

Scenarios == <<"A0", "A1", "A2", "B", "C1", "C2", "C3">>
id == Scenarios[Len(results) + 1]

Init ==
  /\ pc = "cli"
  /\ argv \in UNION {[1..k -> Words] : k \in 0..MaxWords}
  /\ arg = 1
  /\ opts = [iterations |-> kIterations, markdown |-> FALSE, csv |-> FALSE]
  /\ total = 0 /\ pool = [v \in Vectors |-> <<>>] /\ drawn = 0
  /\ i = 0 /\ times = <<>> /\ used = <<>>
  /\ stats = no_stats /\ results = <<>> /\ uses = {} /\ rows = {}

-----------------------------------------------------------------------------
(* parse_cli *)

parsing == pc = "cli" /\ arg <= Len(argv)
word == argv[arg]
flag_with_value(flags) == word \in flags /\ arg + 1 <= Len(argv)
CountFlags == {"--iterations", "-n"}
HelpFlags == {"--help", "-h"}

(* std::stoi throws out of parse_cli after a flag, and is caught for a     *)
(* word that stands alone.                                                 *)
SetIterations(w, next, failure) ==
  IF stoi[w] = NoInt THEN pc' = failure /\ UNCHANGED <<arg, opts>>
  ELSE /\ opts' = [opts EXCEPT !.iterations = stoi[w]]
       /\ arg' = next
       /\ UNCHANGED pc

ParseMd ==
  /\ parsing /\ word = "--md"
  /\ opts' = [opts EXCEPT !.markdown = TRUE]
  /\ arg' = arg + 1
  /\ UNCHANGED pc

ParseCount ==
  /\ parsing /\ flag_with_value(CountFlags)
  /\ SetIterations(argv[arg + 1], arg + 2, "terminated")

(* A slip: any value will do.  opts.csv: csv_path is not empty. *)
any_value(w) == TRUE

names_file(w) == w # ""

(* A slip: the value of --csv is parsed again. *)
ParseCsv_keeping_value ==
  /\ parsing /\ flag_with_value({"--csv"})
  /\ opts' = [opts EXCEPT !.csv = names_file(argv[arg + 1])]
  /\ arg' = arg + 1
  /\ UNCHANGED pc

ParseCsv ==
  /\ parsing /\ flag_with_value({"--csv"})
  /\ opts' = [opts EXCEPT !.csv = names_file(argv[arg + 1])]
  /\ arg' = arg + 2
  /\ UNCHANGED pc

ParseHelp ==
  /\ parsing /\ word \in HelpFlags
  /\ pc' = "exit 0"
  /\ UNCHANGED <<arg, opts>>

ParsePositional ==
  /\ parsing /\ word # "--md" /\ word \notin HelpFlags
  /\ ~flag_with_value(CountFlags \cup {"--csv"})
  /\ SetIterations(word, arg + 1, "exit 1")

Parse ==
  /\ ParseMd \/ ParseCount \/ ParseCsv \/ ParseHelp \/ ParsePositional
  /\ UNCHANGED <<argv, inputs, drawn, i, times, used, measured, uses, rows>>

(* Signed 32-bit addition overflows; gcc's result wraps. *)
int_sum(x, y) == IF x + y > INT_MAX THEN x + y - 2 * (INT_MAX + 1) ELSE x + y

(* Slips: a count below one is kept; the warm-up rounds get no inputs. *)
unbounded_below(x) == x
total_of_timed(iterations) == iterations

at_least_one(x) == IF x < 1 THEN 1 ELSE x

total_of(iterations) == int_sum(iterations, kWarmup)

EndParse ==
  /\ pc = "cli" /\ arg > Len(argv)
  /\ opts' = [opts EXCEPT !.iterations = at_least_one(@)]
  /\ total' = total_of(opts'.iterations)
  /\ pc' = "pools"
  /\ UNCHANGED <<argv, arg, pool, drawn, i, times, used, measured, uses, rows>>

-----------------------------------------------------------------------------
(* The pools.  R.x % n, the element of nonces_r, is named by its nonce.    *)

(* Slip: the presign is made for the co-signer's key. *)
presign_for_co_signer(k) == [key |-> k + 2, nonce |-> k + 4]

presign_drawn_after(k) == [key |-> k + 3, nonce |-> k + 4]

(* One round of the loop that fills the pools, after k draws. *)
round_of_inputs(k) ==
  [single_keys |-> k + 1, coSigner_keys |-> k + 2, threshold_keys |-> k + 3,
   threshold_presigns |-> presign_drawn_after(k),
   hashes |-> Len(pool.hashes), nonces_k |-> k + 5, nonces_r |-> k + 5,
   openssl_keys |-> Len(pool.openssl_keys)]

filling == pc = "pools" /\ Len(pool.hashes) < total

Pregenerate ==
  /\ filling
  /\ pool' = [v \in Vectors |->
                IF v = "beaver_shares" THEN <<>>
                ELSE Append(pool[v], round_of_inputs(drawn)[v])]
  /\ drawn' = drawn + 5
  /\ UNCHANGED <<pc, cli, total, i, times, used, measured, uses, rows>>

(* OpenSSL has no key for us. *)
PregenerateFails ==
  /\ filling
  /\ pc' = "exit 1"
  /\ UNCHANGED <<cli, inputs, drawn, i, times, used, measured, uses, rows>>

EndPools ==
  /\ pc = "pools" /\ Len(pool.hashes) >= total
  /\ pc' = "warmup"
  /\ UNCHANGED <<cli, inputs, drawn, i, times, used, measured, uses, rows>>

(* Before C3: paillier::generate_keys, which has a generator of its own,   *)
(* and the shares to encrypt.                                              *)
PrepareC3 ==
  /\ pc = "shares"
  /\ pool' = [pool EXCEPT !.beaver_shares = [k \in 1..total |-> drawn + k]]
  /\ drawn' = drawn + Len(pool'.beaver_shares)
  /\ pc' = "warmup"
  /\ UNCHANGED <<cli, total, i, times, used, measured, uses, rows>>

-----------------------------------------------------------------------------
(* The scenarios *)

at(v, k) == pool[v][k + 1]

(* The vectors a scenario indexes. *)
reads ==
  [A0 |-> {"hashes", "openssl_keys"},
   A1 |-> {"hashes", "nonces_k", "nonces_r", "single_keys"},
   A2 |-> {"hashes", "single_keys"},
   B  |-> {"hashes", "single_keys", "coSigner_keys"},
   C1 |-> {"hashes", "threshold_keys", "threshold_presigns"},
   C2 |-> {"hashes", "threshold_keys"},
   C3 |-> {"hashes", "threshold_keys", "threshold_presigns", "beaver_shares"}]

in_pools(k) == \A v \in reads[id] : k < Len(pool[v])

(* A signature: the key it is to be verified with, the key and nonce that  *)
(* enter s, the nonce of its r, and the digest.                            *)
standard_s_phase(k) ==
  [key |-> at("single_keys", k), secret |-> at("single_keys", k),
   nonce |-> at("nonces_k", k), r |-> at("nonces_r", k),
   digest |-> at("hashes", k)]

threshold_sign(key, presign, digest) ==
  [key |-> key, secret |-> presign.key,
   nonce |-> presign.nonce, r |-> presign.nonce, digest |-> digest]

(* A slip: presigns of the warm-up rounds are used again. *)
pooled_presign_again(k) ==
  threshold_sign(at("threshold_keys", k % kWarmup),
                 at("threshold_presigns", k % kWarmup), at("hashes", k))

pooled_presign(k) ==
  threshold_sign(at("threshold_keys", k), at("threshold_presigns", k),
                 at("hashes", k))

new_presign(k) ==
  threshold_sign(at("threshold_keys", k),
                 [key |-> at("threshold_keys", k), nonce |-> drawn + 1],
                 at("hashes", k))

(* A0 has OpenSSL's nonces, A2 and B those of derive_nonce. *)
signatures(k) ==
  CASE id = "A1" -> {standard_s_phase(k)}
    [] id \in {"C1", "C3"} -> {pooled_presign(k)}
    [] id = "C2" -> {new_presign(k)}
    [] OTHER -> {}

(* Round k of the scenario; next is what follows in run_benchmark.  A      *)
(* vector's operator[] is undefined beyond its end.                        *)
Round(k, next) ==
  IF in_pools(k)
  THEN /\ uses' = uses \cup signatures(k)
       /\ drawn' = IF id = "C2" THEN drawn + 1 ELSE drawn
       /\ used' = Append(used, at("hashes", k))
       /\ next
  ELSE /\ pc' = "undefined"
       /\ UNCHANGED <<uses, drawn, used, i, times>>

Warmup ==
  /\ pc = "warmup" /\ i < kWarmup
  /\ Round(i, UNCHANGED <<pc, times>> /\ i' = i + 1)
  /\ UNCHANGED <<cli, inputs, measured, rows>>

EndWarmup ==
  /\ pc = "warmup" /\ i >= kWarmup
  /\ pc' = "timed" /\ i' = 0 /\ times' = <<>>
  /\ UNCHANGED <<cli, inputs, drawn, used, measured, uses, rows>>

(* Slips: the timed rounds start with the inputs of the warm-up; a round   *)
(* is not counted.                                                         *)
timed_index_from_zero == i

Time_uncounted ==
  /\ pc = "timed" /\ i < opts.iterations
  /\ uses' = uses \cup signatures(kWarmup + i)
  /\ UNCHANGED <<pc, cli, inputs, drawn, i, times, used, measured, rows>>

timed_index == kWarmup + i

Time ==
  /\ pc = "timed" /\ i < opts.iterations
  /\ \E t \in Times :
       Round(timed_index,
             UNCHANGED pc /\ times' = Append(times, t) /\ i' = i + 1)
  /\ UNCHANGED <<cli, inputs, measured, rows>>

EndTimed ==
  /\ pc = "timed" /\ i >= opts.iterations
  /\ stats' = summarize(times)
  /\ results' = Append(results, used)
  /\ i' = 0 /\ used' = <<>>
  /\ pc' = CASE Len(results') = Len(Scenarios) -> "report"
             [] Len(results') = 6 -> "shares"
             [] OTHER -> "warmup"
  /\ UNCHANGED <<cli, inputs, drawn, times, uses, rows>>

(* A call into the library throws, and nothing catches it. *)
Uncaught ==
  /\ filling \/ pc \in {"warmup", "timed", "shares"}
  /\ pc' = "terminated"
  /\ UNCHANGED <<cli, inputs, drawn, i, times, used, measured, uses, rows>>

(* The table of slowdown factors, and write_csv: a file that does not open *)
(* is reported and ignored.                                                *)
Report ==
  /\ pc = "report"
  /\ rows' \in IF opts.csv
               THEN {{}, {<<Scenarios[s], k>> : s \in 1..Len(results),
                                               k \in 1..opts.iterations}}
               ELSE {{}}
  /\ pc' = "exit 0"
  /\ UNCHANGED <<cli, inputs, drawn, i, times, used, measured, uses>>

(* One thread, which waits for nothing. *)
Proceed ==
  \/ Parse \/ EndParse
  \/ Pregenerate \/ EndPools \/ PrepareC3
  \/ Warmup \/ EndWarmup \/ Time \/ EndTimed
  \/ Report

Next == Proceed \/ PregenerateFails \/ Uncaught

(* The program runs on; exceptions are not relied upon. *)
Spec == Init /\ [][Next]_vars /\ WF_vars(Proceed)

-----------------------------------------------------------------------------
TypeOK ==
  /\ pc \in {"cli", "pools", "shares", "warmup", "timed", "report", "exit 0",
            "exit 1", "terminated", "undefined"}
  /\ argv \in Seq(Words) /\ arg \in Nat \ {0}
  /\ opts \in [iterations : ints, markdown : BOOLEAN, csv : BOOLEAN]
  /\ pc \notin {"cli", "exit 0", "exit 1", "terminated"} => opts.iterations >= 1
  /\ total \in ints
  /\ DOMAIN pool = Vectors
  /\ drawn \in Nat /\ i \in Nat
  /\ times \in Seq(Times) /\ used \in Seq(Nat)
  /\ results \in Seq(Seq(Nat)) /\ Len(results) <= Len(Scenarios)

(* Words that are the value of the flag before them. *)
IsValue[k \in 0..MaxWords] ==
  k > 1 /\ argv[k - 1] \in CountFlags \cup {"--csv"} /\ ~IsValue[k - 1]

CountIsLastGiven ==
  LET counts == {k \in 1..Len(argv) : IF IsValue[k] THEN argv[k - 1] \in CountFlags
                                      ELSE stoi[argv[k]] # NoInt}
      last == CHOOSE k \in counts : \A j \in counts : j <= k
  IN  IF counts = {} THEN opts.iterations = kIterations
      ELSE IF stoi[argv[last]] < 1 THEN opts.iterations = 1
      ELSE opts.iterations = stoi[argv[last]]

FileIsLastGiven ==
  LET files == {k \in 1..Len(argv) : IsValue[k] /\ argv[k - 1] = "--csv"}
  IN  opts.csv <=> \E k \in files : argv[k] # "" /\ \A j \in files : j <= k

(* The iteration count is the last one on the command line, whatever flag  *)
(* it came with, the CSV file is written if the last name given for it is  *)
(* not empty, and a flag's value is never taken for anything else          *)
(* (parse_cli).                                                            *)
ParsesLastCount == pc = "pools" => CountIsLastGiven /\ FileIsLastGiven

(* No scenario indexes a vector beyond its end, unless the sum of          *)
(* iterations and warm-up rounds overflows an int (main, total).           *)
IndicesInPools == pc = "undefined" => opts.iterations + kWarmup > INT_MAX

(* Every signature is made with the key it is to be verified with and with *)
(* the r of its own nonce: threshold_sign never meets a presign made for   *)
(* another key, which it would not notice (main, the eight vectors).       *)
UsesAreSound == \A u \in uses : u.secret = u.key /\ u.r = u.nonce

(* No nonce from rng signs two digests, or for two keys, across warm-up,   *)
(* timed rounds and scenarios, though C3 uses the presigns of C1 again.    *)
NonceSignsOneDigest ==
  \A u, v \in uses : u.nonce = v.nonce => u.digest = v.digest /\ u.key = v.key

(* All scenarios measure the same digests, each once and none warmed up,   *)
(* so that their ratios compare like with like (run_benchmark).            *)
ScenariosCompareAlike ==
  \A s \in 1..Len(results) :
    /\ Len(results[s]) = kWarmup + opts.iterations
    /\ Cardinality({results[s][k] : k \in 1..Len(results[s])}) = Len(results[s])
    /\ results[s] = results[1]

(* The statistics are those of the timed rounds of their scenario, one     *)
(* sample each (summarize).                                                *)
StatsDescribeSamples ==
  pc \in {"warmup", "shares", "report"} /\ results # <<>> =>
    stats.n = opts.iterations /\ Describes(stats, times)

(* The program ends, whatever its arguments.                               *)
RunEnds == <>(pc \in {"exit 0", "exit 1", "terminated", "undefined"})
=============================================================================
