---------------------------- MODULE CallTheorems ----------------------------
(***************************************************************************)
(* The three functions whose calls are stepped through on their own:       *)
(* scalar_mul returns the multiple of its point, for every curve over a    *)
(* prime field on which addition associates, every scalar and every point; *)
(* beaver_mul multiplies, and its openings reveal nothing, for every       *)
(* modulus, whatever the curve; verify accepts exactly the signatures, for *)
(* every such curve whose base point has prime order, every public key,    *)
(* digest and pair of integers.                                            *)
(***************************************************************************)
EXTENDS ScalarMul, BeaverMul, EcdsaVerify, EcdsaTheorems, FiniteSetTheorems

-----------------------------------------------------------------------------
(* scalar_mul.                                                             *)

(* A call recurses at most once, when its scalar is negative.              *)
Called ==
  \/ k = arg.k /\ P = arg.P
  \/ arg.k < 0 /\ k = -arg.k /\ P = point_neg(arg.P)

(* What holds between the steps of a call.                                 *)
MInv ==
  /\ TypeOK
  /\ pc \in {"call", "loop"} => Called
  /\ pc = "loop" =>
       k >= 1 /\ i <= num_bits(k) /\ Tracks([R |-> R, Q |-> Q], k, P, i)
  /\ ReturnsMultiple

LEMMA SizeOfScalar ==
  ASSUME TypeOK, k >= 1
  PROVE  k \in Nat /\ num_bits(k) \in Nat /\ 1 <= num_bits(k) /\ num_bits(k) <= MaxScalar
PROOF
  <1>1. k \in Nat /\ k <= MaxScalar
    BY MaxScalarAssumption DEF TypeOK, Scalars
  <1>. QED
    BY <1>1, SizeInBase2, MaxScalarAssumption DEF num_bits

(* The caller is answered when what was called is.                         *)
LEMMA MultipleAnswers ==
  ASSUME TypeOK, Called, k \in Nat, NEW M, M = times(k, P)
  PROVE  IF arg.k >= 0 THEN M = times(arg.k, arg.P)
         ELSE point_add(M, times(-arg.k, arg.P)) = identity
PROOF
  <1>1. arg.k \in Int /\ arg.P \in CurvePoints
    BY MaxScalarAssumption DEF TypeOK, Scalars
  <1>2. CASE arg.k >= 0
    BY <1>1, <1>2 DEF Called
  <1>3. CASE ~(arg.k >= 0)
    <2>1. k = -arg.k /\ P = point_neg(arg.P)
      BY <1>1, <1>3 DEF Called
    <2>. QED
      BY <1>1, <1>3, <2>1, TimesCancel
  <1>. QED
    BY <1>2, <1>3

LEMMA InitMInv == Init => MInv
PROOF
  <1>. SUFFICES ASSUME Init PROVE MInv
    OBVIOUS
  <1>1. TypeOK
    BY PointFacts, MaxScalarAssumption DEF Init, TypeOK
  <1>. QED
    BY <1>1 DEF Init, MInv, Called, ReturnsMultiple

LEMMA ReturnAtOnceKeepsMInv == MInv /\ ReturnAtOnce => MInv'
PROOF
  <1>. SUFFICES ASSUME MInv, ReturnAtOnce PROVE MInv'
    OBVIOUS
  <1>1. /\ TypeOK /\ Called /\ (P.infinity \/ k = 0) /\ pc' = "returned"
        /\ P \in CurvePoints /\ UNCHANGED <<k, P, arg, Q, i>>
        /\ R' = IF P.infinity THEN P ELSE identity
    BY DEF MInv, ReturnAtOnce, TypeOK
  <1>2. R' = identity /\ (P = identity \/ k = 0)
    BY <1>1, PointFacts
  <1>3. TypeOK'
    BY <1>1, <1>2, PointFacts DEF TypeOK
  <1>4. arg.k \in Int /\ arg.P \in CurvePoints /\ k \in Int
    BY <1>1, MaxScalarAssumption DEF TypeOK, Scalars
  <1>5. IF arg.k >= 0 THEN R' = times(arg.k, arg.P)
        ELSE point_add(R', times(-arg.k, arg.P)) = identity
    <2>1. CASE k \in Nat
      <3>1. times(k, P) = identity
        BY <1>1, <1>2, <2>1, TimesFacts, TimesOfIdentity
      <3>. QED
        BY <1>1, <1>2, <2>1, <3>1, MultipleAnswers
    <2>2. CASE ~(k \in Nat)
      <3>1. k < 0
        BY <1>4, <2>2
      <3>2. arg.k = k /\ arg.P = P /\ P = identity
        BY <1>1, <1>2, <1>4, <3>1 DEF Called
      <3>3. -arg.k \in Nat
        BY <1>4, <3>1, <3>2
      <3>4. times(-arg.k, arg.P) = identity
        BY <3>2, <3>3, TimesOfIdentity
      <3>. QED
        BY <1>2, <1>4, <3>1, <3>2, <3>4, PointFacts, GroupLaws
    <2>. QED
      BY <2>1, <2>2
  <1>. QED
    BY <1>1, <1>3, <1>5 DEF MInv, ReturnsMultiple

LEMMA RecurseKeepsMInv == MInv /\ Recurse => MInv'
PROOF
  <1>. SUFFICES ASSUME MInv, Recurse PROVE MInv'
    OBVIOUS
  <1>1. /\ TypeOK /\ Called /\ pc = "call" /\ pc' = "call" /\ k < 0
        /\ k' = -k /\ P' = point_neg(P) /\ UNCHANGED <<arg, R, Q, i>>
    BY DEF MInv, Recurse
  <1>2. k \in Int /\ P \in CurvePoints /\ arg.k \in Int /\ -k \in Scalars
    BY <1>1, MaxScalarAssumption DEF TypeOK, Scalars
  <1>3. k = arg.k /\ P = arg.P
    BY <1>1, <1>2 DEF Called
  <1>4. Called'
    BY <1>1, <1>3 DEF Called
  <1>5. TypeOK'
    BY <1>1, <1>2, GroupLaws DEF TypeOK
  <1>. QED
    BY <1>1, <1>4, <1>5 DEF MInv, ReturnsMultiple

LEMMA EnterLoopKeepsMInv == MInv /\ EnterLoop => MInv'
PROOF
  <1>. SUFFICES ASSUME MInv, EnterLoop PROVE MInv'
    OBVIOUS
  <1>1. /\ TypeOK /\ Called /\ k > 0 /\ pc' = "loop"
        /\ R' = identity /\ Q' = P /\ i' = 0 /\ UNCHANGED <<k, P, arg>>
    BY DEF MInv, EnterLoop
  <1>2. k \in Nat /\ k >= 1 /\ P \in CurvePoints /\ 0 \in 0..MaxScalar
    BY <1>1, MaxScalarAssumption DEF TypeOK, Scalars
  <1>3. 0 <= num_bits(k) /\ Tracks([R |-> identity, Q |-> P], k, P, 0)
    BY <1>1, <1>2, SizeOfScalar, FirstRound
  <1>4. TypeOK'
    BY <1>1, <1>2, PointFacts DEF TypeOK
  <1>5. Called'
    BY <1>1 DEF Called
  <1>. QED
    BY <1>1, <1>2, <1>3, <1>4, <1>5 DEF MInv, ReturnsMultiple

LEMMA IterateKeepsMInv == MInv /\ Iterate => MInv'
PROOF
  <1>. SUFFICES ASSUME MInv, Iterate PROVE MInv'
    OBVIOUS
  <1>. DEFINE acc == add_then_double(k, [R |-> R, Q |-> Q], i)
  <1>1. /\ TypeOK /\ Called /\ k >= 1 /\ i < num_bits(k)
        /\ Tracks([R |-> R, Q |-> Q], k, P, i)
        /\ pc = "loop" /\ pc' = "loop" /\ UNCHANGED <<k, P, arg>>
        /\ R' = acc.R /\ Q' = acc.Q /\ i' = i + 1
    BY DEF MInv, Iterate
  <1>2. /\ k \in Nat /\ num_bits(k) \in Nat /\ num_bits(k) <= MaxScalar
        /\ i \in Nat /\ P \in CurvePoints /\ R \in CurvePoints /\ Q \in CurvePoints
    BY <1>1, SizeOfScalar, MaxScalarAssumption DEF TypeOK
  <1>3. acc = [R |-> R', Q |-> Q']
    BY <1>1 DEF add_then_double
  <1>4. Tracks([R |-> R', Q |-> Q'], k, P, i + 1)
    <2>1. Tracks(acc, k, P, i + 1)
      BY <1>1, <1>2, RoundTracksBits
    <2>. QED
      BY <1>3, <2>1
  <1>5. R' \in CurvePoints /\ Q' \in CurvePoints
    BY <1>1, <1>2, GroupLaws DEF add_then_double
  <1>6. i + 1 \in 0..MaxScalar /\ i + 1 <= num_bits(k)
    BY <1>1, <1>2, MaxScalarAssumption
  <1>7. TypeOK'
    BY <1>1, <1>2, <1>5, <1>6 DEF TypeOK
  <1>8. Called'
    BY <1>1 DEF Called
  <1>. QED
    BY <1>1, <1>4, <1>6, <1>7, <1>8 DEF MInv, ReturnsMultiple

LEMMA ReturnRKeepsMInv == MInv /\ ReturnR => MInv'
PROOF
  <1>. SUFFICES ASSUME MInv, ReturnR PROVE MInv'
    OBVIOUS
  <1>1. /\ TypeOK /\ Called /\ k >= 1 /\ i = num_bits(k)
        /\ Tracks([R |-> R, Q |-> Q], k, P, i)
        /\ pc' = "returned" /\ UNCHANGED <<k, P, arg, R, Q, i>>
    BY DEF MInv, ReturnR
  <1>2. k \in Nat
    BY <1>1, SizeOfScalar
  <1>3. R = times(k, P)
    BY <1>1, <1>2, LastRound
  <1>4. IF arg.k >= 0 THEN R = times(arg.k, arg.P)
        ELSE point_add(R, times(-arg.k, arg.P)) = identity
    BY <1>1, <1>2, <1>3, MultipleAnswers
  <1>5. TypeOK'
    BY <1>1 DEF TypeOK
  <1>. QED
    BY <1>1, <1>4, <1>5 DEF MInv, ReturnsMultiple

LEMMA NextKeepsMInv == MInv /\ [Next]_vars => MInv'
PROOF
  <1>. SUFFICES ASSUME MInv, [Next]_vars PROVE MInv'
    OBVIOUS
  <1>1. CASE UNCHANGED vars
    BY <1>1 DEF vars, MInv, TypeOK, Called, ReturnsMultiple
  <1>. QED
    BY <1>1, ReturnAtOnceKeepsMInv, RecurseKeepsMInv, EnterLoopKeepsMInv,
       IterateKeepsMInv, ReturnRKeepsMInv DEF Next

LEMMA SpecKeepsMInv == Spec => []MInv
PROOF BY InitMInv, NextKeepsMInv, PTL DEF Spec

(* scalar_mul holds points of the curve in its accumulators, and its       *)
(* counter stays below the number of bits.                                 *)
THEOREM ScalarMulTypeCorrect == Spec => []TypeOK
PROOF
  <1>1. MInv => TypeOK
    BY DEF MInv
  <1>. QED
    BY <1>1, SpecKeepsMInv, PTL

(* At the head of the loop the accumulators hold the multiples that the    *)
(* bits read so far and the next bit stand for.                            *)
THEOREM ScalarMulTracksBits == Spec => []AccumulatorsTrackBits
PROOF
  <1>1. MInv => AccumulatorsTrackBits
    BY DEF MInv, Tracks, AccumulatorsTrackBits
  <1>. QED
    BY <1>1, SpecKeepsMInv, PTL

(* The call returns the multiple of the caller's own point, for negative   *)
(* scalars the one that cancels the positive multiple.                     *)
THEOREM ScalarMulReturnsMultiple == Spec => []ReturnsMultiple
PROOF
  <1>1. MInv => ReturnsMultiple
    BY DEF MInv
  <1>. QED
    BY <1>1, SpecKeepsMInv, PTL

(* The points a call holds obey the group laws: of these, point_add,        *)
(* point_double and point_neg are shown to commute, double and cancel from  *)
(* the code; that addition associates is EcGroup's assumption.              *)
THEOREM ScalarMulObeysGroupLaws == Spec => []AccumulatorsObeyGroupLaws
PROOF
  <1>1. TypeOK => AccumulatorsObeyGroupLaws
    <2>. SUFFICES ASSUME TypeOK PROVE AccumulatorsObeyGroupLaws
      OBVIOUS
    <2>1. P \in CurvePoints /\ R \in CurvePoints /\ Q \in CurvePoints
      BY DEF TypeOK
    <2>2. /\ point_add(R, Q) = point_add(Q, R)
          /\ point_add(Q, Q) = point_double(Q)
          /\ point_add(Q, point_neg(Q)) = identity
      BY <2>1, GroupLaws
    <2>3. point_add(point_add(R, Q), P) = point_add(R, point_add(Q, P))
      BY <2>1, Associates
    <2>. QED
      BY <2>2, <2>3 DEF AccumulatorsObeyGroupLaws
  <1>. QED
    BY <1>1, ScalarMulTypeCorrect, PTL

-----------------------------------------------------------------------------
(* beaver_mul, with the dealer before it.                                  *)

LEMMA ModulusIsPositive == q \in Nat \ {0} /\ 0 \in Residues(q)
PROOF BY ModulusAssumption DEF Residues

(* What the locals hold at each step: a genuine triple once dealt, the     *)
(* opened differences once opened, and the local products at the end.      *)
StepsAreRight ==
  /\ stage \in {"open", "multiply", "done"} => is_triple(T, q)
  /\ stage \in {"multiply", "done"} =>
       /\ d = opened(x[1], x[2], T.a1, T.a2, q)
       /\ e = opened(y[1], y[2], T.b1, T.b2, q)
  /\ stage = "done" =>
       z = <<product_share_1(d, e, T, q), product_share_2(d, e, T, q)>>

MulInv == MulTypeOK /\ StepsAreRight

LEMMA InitMulInv == MulInit => MulInv
PROOF
  <1>. SUFFICES ASSUME MulInit PROVE MulInv
    OBVIOUS
  <1>1. no_triple \in BeaverTriples(q) /\ <<0, 0>> \in SharePairs
    BY ModulusIsPositive DEF no_triple, BeaverTriples, SharePairs
  <1>. QED
    BY <1>1, ModulusIsPositive DEF MulInit, MulInv, MulTypeOK, StepsAreRight

LEMMA OpenedIsResidue ==
  ASSUME NEW v1 \in Residues(q), NEW v2 \in Residues(q),
         NEW m1 \in Residues(q), NEW m2 \in Residues(q)
  PROVE  opened(v1, v2, m1, m2, q) \in Residues(q)
PROOF
  <1>1. mod_sub(v1, m1, q) \in Residues(q) /\ mod_sub(v2, m2, q) \in Residues(q)
    BY ModSub, ModulusIsPositive
  <1>. QED
    BY <1>1, ModAdd, ModulusIsPositive DEF opened

LEMMA NextKeepsMulInv == MulInv /\ [MulNext]_mul_vars => MulInv'
PROOF
  <1>. SUFFICES ASSUME MulInv, [MulNext]_mul_vars PROVE MulInv'
    OBVIOUS
  <1>. USE DEF MulInv, MulTypeOK, StepsAreRight
  <1>1. CASE GenerateTriple
    <2>1. PICK a, b, a1, b1, c1 \in Residues(q) :
            T' = generate_triple(a, b, a1, b1, c1, q)
      BY <1>1 DEF GenerateTriple
    <2>2. T' \in BeaverTriples(q) /\ is_triple(T', q)
      BY <2>1, DealtTriplesAreGenuine, ModulusIsPositive
    <2>. QED
      BY <1>1, <2>2 DEF GenerateTriple
  <1>2. CASE OpenMasked
    <2>1. /\ x[1] \in Residues(q) /\ x[2] \in Residues(q)
          /\ y[1] \in Residues(q) /\ y[2] \in Residues(q)
          /\ T.a1 \in Residues(q) /\ T.a2 \in Residues(q)
          /\ T.b1 \in Residues(q) /\ T.b2 \in Residues(q)
      BY DEF SharePairs, BeaverTriples
    <2>2. d' \in Residues(q) /\ e' \in Residues(q)
      BY <1>2, <2>1, OpenedIsResidue DEF OpenMasked
    <2>. QED
      BY <1>2, <2>2 DEF OpenMasked
  <1>3. CASE MultiplyLocally
    <2>1. /\ x[1] \in Residues(q) /\ x[2] \in Residues(q)
          /\ y[1] \in Residues(q) /\ y[2] \in Residues(q)
      BY DEF SharePairs
    <2>2. /\ is_triple(T, q)
          /\ d = opened(x[1], x[2], T.a1, T.a2, q)
          /\ e = opened(y[1], y[2], T.b1, T.b2, q)
      BY <1>3 DEF MultiplyLocally
    <2>3. /\ product_share_1(d, e, T, q) \in Residues(q)
          /\ product_share_2(d, e, T, q) \in Residues(q)
      BY <2>1, <2>2, LocalProductsSum, ModulusIsPositive
    <2>4. z' = <<product_share_1(d, e, T, q), product_share_2(d, e, T, q)>>
          /\ z' \in SharePairs
      BY <1>3, <2>3 DEF MultiplyLocally, SharePairs
    <2>. QED
      BY <1>3, <2>4 DEF MultiplyLocally
  <1>4. CASE UNCHANGED mul_vars
    BY <1>4 DEF mul_vars
  <1>. QED
    BY <1>1, <1>2, <1>3, <1>4 DEF MulNext

LEMMA SpecKeepsMulInv == MulSpec => []MulInv
PROOF BY InitMulInv, NextKeepsMulInv, PTL DEF MulSpec

(* Every variable keeps its type: each share, opened value and result of   *)
(* the arithmetic stays a residue.                                         *)
THEOREM BeaverMulTypeCorrect == MulSpec => []MulTypeOK
PROOF
  <1>1. MulInv => MulTypeOK
    BY DEF MulInv
  <1>. QED
    BY <1>1, SpecKeepsMulInv, PTL

(* The result shares sum to the product of the inputs, for every modulus,  *)
(* every sharing and every triple dealt.                                   *)
THEOREM BeaverMulCorrect == MulSpec => []ProductIsShared
PROOF
  <1>1. MulInv => ProductIsShared
    <2>. SUFFICES ASSUME MulInv, stage = "done"
                  PROVE  mod_add(z[1], z[2], q)
                           = mod_mul(mod_add(x[1], x[2], q),
                                     mod_add(y[1], y[2], q), q)
      BY DEF ProductIsShared
    <2>1. PICK x1, x2, y1, y2 \in Residues(q) :
            x[1] = x1 /\ x[2] = x2 /\ y[1] = y1 /\ y[2] = y2
      BY DEF MulInv, MulTypeOK, SharePairs
    <2>2. /\ T \in BeaverTriples(q) /\ is_triple(T, q)
          /\ d = opened(x1, x2, T.a1, T.a2, q)
          /\ e = opened(y1, y2, T.b1, T.b2, q)
      BY <2>1 DEF MulInv, MulTypeOK, StepsAreRight
    <2>3. /\ z[1] = product_share_1(d, e, T, q)
          /\ z[2] = product_share_2(d, e, T, q)
      BY DEF MulInv, StepsAreRight
    <2>4. mod_add(product_share_1(d, e, T, q), product_share_2(d, e, T, q), q)
            = mod_mul(mod_add(x1, x2, q), mod_add(y1, y2, q), q)
      BY <2>2, LocalProductsSum, ModulusIsPositive
    <2>. QED
      BY <2>1, <2>3, <2>4
  <1>. QED
    BY <1>1, SpecKeepsMulInv, PTL

-----------------------------------------------------------------------------
(* The mask that opens given values is determined: of the second share of  *)
(* a mask, exactly one value opens w for the input shares v1 and v2.       *)
LEMMA OpeningDeterminesMask2 ==
  ASSUME NEW m \in Nat \ {0},
         NEW v1 \in Residues(m), NEW v2 \in Residues(m),
         NEW m1 \in Residues(m), NEW w \in Residues(m)
  PROVE  /\ mod_sub(v2, mod_sub(w, mod_sub(v1, m1, m), m), m) \in Residues(m)
         /\ \A m2 \in Residues(m) :
              opened(v1, v2, m1, m2, m) = w
                <=> m2 = mod_sub(v2, mod_sub(w, mod_sub(v1, m1, m), m), m)
PROOF BY DEF Residues, opened, mod_add, mod_sub

LEMMA OpeningDeterminesMask1 ==
  ASSUME NEW m \in Nat \ {0},
         NEW v1 \in Residues(m), NEW v2 \in Residues(m),
         NEW m2 \in Residues(m), NEW w \in Residues(m)
  PROVE  /\ mod_sub(v1, mod_sub(w, mod_sub(v2, m2, m), m), m) \in Residues(m)
         /\ \A m1 \in Residues(m) :
              opened(v1, v2, m1, m2, m) = w
                <=> m1 = mod_sub(v1, mod_sub(w, mod_sub(v2, m2, m), m), m)
PROOF BY DEF Residues, opened, mod_add, mod_sub

(* The dealer can deal every genuine triple, and nothing else.             *)
LEMMA DealtIsGenuine == DealtTriples = {U \in BeaverTriples(q) : is_triple(U, q)}
PROOF
  <1>1. ASSUME NEW U \in DealtTriples
        PROVE  U \in BeaverTriples(q) /\ is_triple(U, q)
    <2>1. PICK a, b, a1, b1, c1 \in Residues(q) :
            U = generate_triple(a, b, a1, b1, c1, q)
      BY DEF DealtTriples
    <2>. QED
      BY <2>1, DealtTriplesAreGenuine, ModulusIsPositive
  <1>2. ASSUME NEW U \in BeaverTriples(q), is_triple(U, q)
        PROVE  U \in DealtTriples
    <2>. DEFINE a == mod_add(U.a1, U.a2, q)
                b == mod_add(U.b1, U.b2, q)
    <2>1. /\ U.a1 \in Residues(q) /\ U.a2 \in Residues(q)
          /\ U.b1 \in Residues(q) /\ U.b2 \in Residues(q)
          /\ U.c1 \in Residues(q) /\ U.c2 \in Residues(q)
          /\ U = [a1 |-> U.a1, a2 |-> U.a2, b1 |-> U.b1, b2 |-> U.b2,
                  c1 |-> U.c1, c2 |-> U.c2]
      BY DEF BeaverTriples
    <2>2. ASSUME NEW v1 \in Residues(q), NEW v2 \in Residues(q)
          PROVE  /\ mod_add(v1, v2, q) \in Residues(q)
                 /\ mod_sub(mod_add(v1, v2, q), v1, q) = v2
      BY ModulusIsPositive DEF Residues, mod_add, mod_sub
    <2>3. a \in Residues(q) /\ mod_sub(a, U.a1, q) = U.a2
      BY <2>1, <2>2
    <2>4. b \in Residues(q) /\ mod_sub(b, U.b1, q) = U.b2
      BY <2>1, <2>2
    <2>5. mod_mul(a, b, q) = mod_add(U.c1, U.c2, q)
      BY <1>2 DEF is_triple
    <2>6. mod_sub(mod_mul(a, b, q), U.c1, q) = U.c2
      BY <2>1, <2>2, <2>5
    <2>. HIDE DEF a, b
    <2>7. U = generate_triple(a, b, U.a1, U.b1, U.c1, q)
      BY <2>1, <2>3, <2>4, <2>6 DEF generate_triple
    <2>. QED
      BY <2>1, <2>3, <2>4, <2>7 DEF DealtTriples
  <1>. QED
    BY <1>1, <1>2

(* Party 1's third of the triple and the opened values leave exactly one   *)
(* triple for every choice of party 2's input shares; then the same for    *)
(* party 2.                                                                *)
LEMMA OneTripleExplains1 ==
  MulTypeOK =>
    \A x1, y1, f, g \in Residues(q) :
      Cardinality(Explaining(PossibleTo1, <<x1, f>>, <<y1, g>>)) = 1
PROOF
  <1>. SUFFICES ASSUME MulTypeOK,
                       NEW x1 \in Residues(q), NEW y1 \in Residues(q),
                       NEW f \in Residues(q), NEW g \in Residues(q)
                PROVE  Cardinality(Explaining(PossibleTo1, <<x1, f>>, <<y1, g>>)) = 1
    OBVIOUS
  <1>0. T \in BeaverTriples(q) /\ d \in Residues(q) /\ e \in Residues(q)
    BY DEF MulTypeOK
  <1>. DEFINE A2 == mod_sub(f, mod_sub(d, mod_sub(x1, T.a1, q), q), q)
              B2 == mod_sub(g, mod_sub(e, mod_sub(y1, T.b1, q), q), q)
              Prod == mod_mul(mod_add(T.a1, A2, q), mod_add(T.b1, B2, q), q)
              C2 == mod_sub(Prod, T.c1, q)
              W == [a1 |-> T.a1, a2 |-> A2, b1 |-> T.b1, b2 |-> B2,
                    c1 |-> T.c1, c2 |-> C2]
  <1>1. T.a1 \in Residues(q) /\ T.b1 \in Residues(q) /\ T.c1 \in Residues(q)
    BY <1>0 DEF BeaverTriples
  <1>2. /\ A2 \in Residues(q)
        /\ \A m2 \in Residues(q) : opened(x1, f, T.a1, m2, q) = d <=> m2 = A2
    BY <1>0, <1>1, ModulusIsPositive, OpeningDeterminesMask2
  <1>3. /\ B2 \in Residues(q)
        /\ \A m2 \in Residues(q) : opened(y1, g, T.b1, m2, q) = e <=> m2 = B2
    BY <1>0, <1>1, ModulusIsPositive, OpeningDeterminesMask2
  <1>. HIDE DEF A2, B2
  <1>4. Prod \in Residues(q)
    BY <1>1, <1>2, <1>3, ModAdd, ModMul, ResiduesAreIntegers, ModulusIsPositive
  <1>. HIDE DEF Prod
  <1>5. /\ C2 \in Residues(q)
        /\ \A c2 \in Residues(q) : mod_add(T.c1, c2, q) = Prod <=> c2 = C2
    BY <1>1, <1>4, ModulusIsPositive DEF Residues, mod_add, mod_sub
  <1>. HIDE DEF C2
  <1>6. W \in BeaverTriples(q) /\ is_triple(W, q)
    BY <1>1, <1>2, <1>3, <1>5 DEF BeaverTriples, is_triple, Prod
  <1>7. W \in Explaining(PossibleTo1, <<x1, f>>, <<y1, g>>)
    BY <1>2, <1>3, <1>6, DealtIsGenuine DEF Explaining, PossibleTo1
  <1>8. ASSUME NEW U \in Explaining(PossibleTo1, <<x1, f>>, <<y1, g>>)
        PROVE  U = W
    <2>1. /\ U \in BeaverTriples(q) /\ is_triple(U, q)
          /\ U.a1 = T.a1 /\ U.b1 = T.b1 /\ U.c1 = T.c1
          /\ opened(x1, f, U.a1, U.a2, q) = d
          /\ opened(y1, g, U.b1, U.b2, q) = e
      BY DealtIsGenuine DEF Explaining, PossibleTo1
    <2>2. /\ U.a2 \in Residues(q) /\ U.b2 \in Residues(q) /\ U.c2 \in Residues(q)
          /\ U = [a1 |-> U.a1, a2 |-> U.a2, b1 |-> U.b1, b2 |-> U.b2,
                  c1 |-> U.c1, c2 |-> U.c2]
      BY <2>1 DEF BeaverTriples
    <2>3. U.a2 = A2 /\ U.b2 = B2
      BY <1>2, <1>3, <2>1, <2>2
    <2>4. U.c2 = C2
      BY <1>5, <2>1, <2>2, <2>3 DEF is_triple, Prod
    <2>. QED
      BY <2>1, <2>2, <2>3, <2>4
  <1>. HIDE DEF W
  <1>9. Explaining(PossibleTo1, <<x1, f>>, <<y1, g>>) = {W}
    BY <1>7, <1>8
  <1>. QED
    BY <1>9, FS_Singleton

LEMMA OneTripleExplains2 ==
  MulTypeOK =>
    \A x2, y2, f, g \in Residues(q) :
      Cardinality(Explaining(PossibleTo2, <<f, x2>>, <<g, y2>>)) = 1
PROOF
  <1>. SUFFICES ASSUME MulTypeOK,
                       NEW x2 \in Residues(q), NEW y2 \in Residues(q),
                       NEW f \in Residues(q), NEW g \in Residues(q)
                PROVE  Cardinality(Explaining(PossibleTo2, <<f, x2>>, <<g, y2>>)) = 1
    OBVIOUS
  <1>0. T \in BeaverTriples(q) /\ d \in Residues(q) /\ e \in Residues(q)
    BY DEF MulTypeOK
  <1>. DEFINE A1 == mod_sub(f, mod_sub(d, mod_sub(x2, T.a2, q), q), q)
              B1 == mod_sub(g, mod_sub(e, mod_sub(y2, T.b2, q), q), q)
              Prod == mod_mul(mod_add(A1, T.a2, q), mod_add(B1, T.b2, q), q)
              C1 == mod_sub(Prod, T.c2, q)
              W == [a1 |-> A1, a2 |-> T.a2, b1 |-> B1, b2 |-> T.b2,
                    c1 |-> C1, c2 |-> T.c2]
  <1>1. T.a2 \in Residues(q) /\ T.b2 \in Residues(q) /\ T.c2 \in Residues(q)
    BY <1>0 DEF BeaverTriples
  <1>2. /\ A1 \in Residues(q)
        /\ \A m1 \in Residues(q) : opened(f, x2, m1, T.a2, q) = d <=> m1 = A1
    BY <1>0, <1>1, ModulusIsPositive, OpeningDeterminesMask1
  <1>3. /\ B1 \in Residues(q)
        /\ \A m1 \in Residues(q) : opened(g, y2, m1, T.b2, q) = e <=> m1 = B1
    BY <1>0, <1>1, ModulusIsPositive, OpeningDeterminesMask1
  <1>. HIDE DEF A1, B1
  <1>4. Prod \in Residues(q)
    BY <1>1, <1>2, <1>3, ModAdd, ModMul, ResiduesAreIntegers, ModulusIsPositive
  <1>. HIDE DEF Prod
  <1>5. /\ C1 \in Residues(q)
        /\ \A c1 \in Residues(q) : mod_add(c1, T.c2, q) = Prod <=> c1 = C1
    BY <1>1, <1>4, ModulusIsPositive DEF Residues, mod_add, mod_sub
  <1>. HIDE DEF C1
  <1>6. W \in BeaverTriples(q) /\ is_triple(W, q)
    BY <1>1, <1>2, <1>3, <1>5 DEF BeaverTriples, is_triple, Prod
  <1>7. W \in Explaining(PossibleTo2, <<f, x2>>, <<g, y2>>)
    BY <1>2, <1>3, <1>6, DealtIsGenuine DEF Explaining, PossibleTo2
  <1>8. ASSUME NEW U \in Explaining(PossibleTo2, <<f, x2>>, <<g, y2>>)
        PROVE  U = W
    <2>1. /\ U \in BeaverTriples(q) /\ is_triple(U, q)
          /\ U.a2 = T.a2 /\ U.b2 = T.b2 /\ U.c2 = T.c2
          /\ opened(f, x2, U.a1, U.a2, q) = d
          /\ opened(g, y2, U.b1, U.b2, q) = e
      BY DealtIsGenuine DEF Explaining, PossibleTo2
    <2>2. /\ U.a1 \in Residues(q) /\ U.b1 \in Residues(q) /\ U.c1 \in Residues(q)
          /\ U = [a1 |-> U.a1, a2 |-> U.a2, b1 |-> U.b1, b2 |-> U.b2,
                  c1 |-> U.c1, c2 |-> U.c2]
      BY <2>1 DEF BeaverTriples
    <2>3. U.a1 = A1 /\ U.b1 = B1
      BY <1>2, <1>3, <2>1, <2>2
    <2>4. U.c1 = C1
      BY <1>5, <2>1, <2>2, <2>3 DEF is_triple, Prod
    <2>. QED
      BY <2>1, <2>2, <2>3, <2>4
  <1>. HIDE DEF W
  <1>9. Explaining(PossibleTo2, <<f, x2>>, <<g, y2>>) = {W}
    BY <1>7, <1>8
  <1>. QED
    BY <1>9, FS_Singleton

(* The openings hide the inputs, for every modulus: whatever party 1 or    *)
(* party 2 sees, each value of the other's input shares is explained by    *)
(* exactly one of the equally likely triples.                              *)
THEOREM BeaverMulHides == MulSpec => []OpeningHidesShares
PROOF
  <1>1. MulInv => OpeningHidesShares
    <2>. SUFFICES ASSUME MulInv, NEW f \in Residues(q), NEW g \in Residues(q)
         PROVE  /\ Cardinality(Explaining(PossibleTo1, <<x[1], f>>, <<y[1], g>>)) = 1
                /\ Cardinality(Explaining(PossibleTo2, <<f, x[2]>>, <<g, y[2]>>)) = 1
      BY DEF OpeningHidesShares
    <2>1. MulTypeOK
      BY DEF MulInv
    <2>2. PICK x1, x2, y1, y2 \in Residues(q) :
            x[1] = x1 /\ x[2] = x2 /\ y[1] = y1 /\ y[2] = y2
      BY <2>1 DEF MulTypeOK, SharePairs
    <2>3. Cardinality(Explaining(PossibleTo1, <<x1, f>>, <<y1, g>>)) = 1
      BY <2>1, OneTripleExplains1
    <2>4. Cardinality(Explaining(PossibleTo2, <<f, x2>>, <<g, y2>>)) = 1
      BY <2>1, OneTripleExplains2
    <2>. QED
      BY <2>2, <2>3, <2>4
  <1>. QED
    BY <1>1, SpecKeepsMulInv, PTL

-----------------------------------------------------------------------------
(* verify.                                                                 *)

(* The equation a signature satisfies for some nonce.                      *)
IsSignature ==
  /\ r \in 1..(n - 1) /\ s \in 1..(n - 1)
  /\ \E j \in 1..(n - 1) :
       /\ scalar_mul(j, generator).x % n = r
       /\ (s * j - h - r * secret) % n = 0

(* What holds between the steps of a call.                                 *)
VInv ==
  /\ VerifyTypeOK
  /\ at \in {"scalars", "compare"} => r \in 1..(n - 1) /\ s \in 1..(n - 1)
  /\ at = "compare" =>
       u = <<mod_mul(hash_to_scalar(h, n), mod_inv(s, n), n),
             mod_mul(r, mod_inv(s, n), n)>>
  /\ at = "returned" => (result <=> IsSignature)

-----------------------------------------------------------------------------
(* A remainder is zero exactly between congruent integers.                 *)
LEMMA ZeroRemainder ==
  ASSUME NEW a \in Int, NEW b \in Int, NEW m \in Nat \ {0}
  PROVE  (a - b) % m = 0 <=> Cong(a, b, m)
PROOF
  <1>1. /\ a - b \in Int
        /\ a - b = m * ((a - b) \div m) + ((a - b) % m)
        /\ (a - b) \div m \in Int /\ (a - b) % m \in 0..(m - 1)
    OBVIOUS
  <1>2. ASSUME (a - b) % m = 0 PROVE Cong(a, b, m)
    <2>1. PICK t \in Int : t = (a - b) \div m
      BY <1>1
    <2>2. m * t \in Int /\ a - b = m * t
      BY <1>1, <1>2, <2>1
    <2>3. a = b + m * t
      BY <2>2
    <2>. QED
      BY <2>3 DEF Cong
  <1>3. ASSUME Cong(a, b, m) PROVE (a - b) % m = 0
    <2>1. (a - b) % m \in Residues(m) /\ Cong((a - b) % m, a - b, m)
      BY <1>1, ModuloIsResidue
    <2>2. Cong(a - b, 0, m)
      <3>1. PICK t \in Int : a = b + m * t
        BY <1>3 DEF Cong
      <3>2. m * t \in Int
        BY <3>1
      <3>3. a - b = 0 + m * t
        BY <3>1, <3>2
      <3>. QED
        BY <3>3 DEF Cong
    <2>3. (a - b) % m \in Int /\ 0 \in Residues(m)
      BY <1>1 DEF Residues
    <2>4. Cong((a - b) % m, 0, m)
      BY <1>1, <2>1, <2>2, <2>3, CongTrans
    <2>. QED
      BY <2>1, <2>3, <2>4, CongResidues
  <1>. QED
    BY <1>2, <1>3

(* The signing equation over the integers is the one modulo n.             *)
LEMMA EquationModuloOrder ==
  ASSUME NEW d0 \in Residues(n), NEW h0 \in Nat, NEW j \in Residues(n),
         NEW r0 \in Residues(n), NEW s0 \in Residues(n)
  PROVE  (s0 * j - h0 - r0 * d0) % n = 0
           <=> SolvesFor(s0, d0, hash_to_scalar(h0, n), r0, j)
PROOF
  <1>1. /\ d0 \in Int /\ h0 \in Int /\ j \in Int /\ r0 \in Int /\ s0 \in Int
    BY ResiduesAreIntegers, OrderFacts
  <1>2. PICK a, b \in Int : a = s0 * j /\ b = r0 * d0
    BY <1>1
  <1>3. s0 * j - h0 - r0 * d0 = a - (h0 + b) /\ h0 + b \in Int
    BY <1>1, <1>2
  <1>4. /\ Computes(s0, s0, n) /\ Computes(j, j, n)
        /\ Computes(r0, r0, n) /\ Computes(d0, d0, n)
    BY ComputesItself, OrderFacts
  <1>5. Computes(hash_to_scalar(h0, n), h0, n)
    BY <1>1, ModuloIsResidue, OrderFacts DEF Computes, hash_to_scalar
  <1>6. Computes(mod_mul(s0, j, n), a, n) /\ Computes(mod_mul(r0, d0, n), b, n)
    BY <1>1, <1>2, <1>4, ComputesMul, OrderFacts
  <1>7. Computes(mod_add(hash_to_scalar(h0, n), mod_mul(r0, d0, n), n), h0 + b, n)
    BY <1>1, <1>5, <1>6, ComputesAdd, OrderFacts
  <1>8. SolvesFor(s0, d0, hash_to_scalar(h0, n), r0, j) <=> Cong(a, h0 + b, n)
    BY <1>3, <1>6, <1>7, ComputesSame, OrderFacts DEF SolvesFor
  <1>9. (a - (h0 + b)) % n = 0 <=> Cong(a, h0 + b, n)
    BY <1>3, ZeroRemainder, OrderFacts
  <1>. QED
    BY <1>3, <1>8, <1>9

(* The comparison is that of the signing equation.                         *)
LEMMA CompareDecides ==
  ASSUME VInv, Compare
  PROVE  result' <=> IsSignature
PROOF
  <1>1. /\ at = "compare" /\ r \in 1..(n - 1) /\ s \in 1..(n - 1)
        /\ secret \in Keys /\ h \in Digests
        /\ u = <<mod_mul(hash_to_scalar(h, n), mod_inv(s, n), n),
                 mod_mul(r, mod_inv(s, n), n)>>
        /\ result' = matches(point_add(scalar_mul(u[1], generator),
                                       scalar_mul(u[2], PublicKey)), r)
    BY DEF Compare, VInv, VerifyTypeOK
  <1>2. PICK d0, r0, s0 \in Residues(n), h0 \in Nat :
          /\ d0 = secret /\ r0 = r /\ s0 = s /\ h0 = h /\ s0 # 0 /\ r0 # 0
    BY <1>1, VerifyAssumption, OrderFacts DEF Residues
  <1>3. PICK z0, w, e0 \in Residues(n) :
          /\ z0 = hash_to_scalar(h0, n)
          /\ w = mod_inv(s0, n) /\ mod_mul(s0, w, n) = 1
          /\ e0 = mod_add(z0, mod_mul(r0, d0, n), n)
    BY <1>2, HashIsScalar, InverseOfScalar, Closure
  <1>4. PICK x0 \in Residues(n) : x0 = mod_mul(e0, w, n)
    BY Closure
  <1>5. point_add(scalar_mul(u[1], generator), scalar_mul(u[2], PublicKey))
          = scalar_mul(x0, generator)
    BY <1>1, <1>2, <1>3, <1>4, VerifyPoint DEF PublicKey
  <1>6. result' <=> /\ ~scalar_mul(x0, generator).infinity
                    /\ scalar_mul(x0, generator).x % n = r0
    BY <1>1, <1>2, <1>5 DEF matches
  <1>7. \A j \in Residues(n) : (s0 * j - h0 - r0 * d0) % n = 0
                                 <=> mod_mul(s0, j, n) = e0
    BY <1>3, EquationModuloOrder DEF SolvesFor
  <1>8. \A j \in Residues(n) : mod_mul(s0, j, n) = e0 <=> j = x0
    <2>. SUFFICES ASSUME NEW j \in Residues(n)
                  PROVE  mod_mul(s0, j, n) = e0 <=> j = x0
      OBVIOUS
    <2>1. mod_mul(s0, x0, n) = e0
      <3>1. mod_mul(mod_mul(e0, w, n), s0, n) = mod_mul(e0, mod_mul(w, s0, n), n)
        BY MulAssociates
      <3>. QED
        BY <3>1, <1>3, <1>4, MulCommutes, MulByOne
    <2>2. mod_mul(s0, j, n) = e0 => j = x0
      BY <2>1, <1>2, MulCommutes, MulCancels
    <2>. QED
      BY <2>1, <2>2
  <1>9. ~scalar_mul(x0, generator).infinity <=> x0 \in 1..(n - 1)
    BY MultiplesAreOnCurve, OrderFacts DEF Residues
  <1>10. \A j \in 1..(n - 1) : j \in Residues(n)
    BY OrderFacts DEF Residues
  <1>11. IsSignature
           <=> \E j \in 1..(n - 1) : /\ scalar_mul(j, generator).x % n = r0
                                     /\ (s0 * j - h0 - r0 * d0) % n = 0
    BY <1>1, <1>2 DEF IsSignature
  <1>. QED
    BY <1>6, <1>7, <1>8, <1>9, <1>10, <1>11

LEMMA InitVInv == VerifyInit => VInv
PROOF
  <1>. SUFFICES ASSUME VerifyInit PROVE VInv
    OBVIOUS
  <1>1. at = "range" /\ u \in Residues(n) \X Residues(n) /\ result = FALSE
    BY OrderFacts DEF VerifyInit
  <1>2. VerifyTypeOK
    BY <1>1 DEF VerifyInit, VerifyTypeOK
  <1>. QED
    BY <1>1, <1>2 DEF VInv

LEMMA NextKeepsVInv == VInv /\ [VerifyNext]_verify_vars => VInv'
PROOF
  <1>. SUFFICES ASSUME VInv, [VerifyNext]_verify_vars PROVE VInv'
    OBVIOUS
  <1>1. CASE RejectOutOfRange
    <2>1. /\ ~IsSignature /\ result' = FALSE /\ at' = "returned"
          /\ UNCHANGED <<secret, h, r, s, u>>
      <3>1. ~(r \in 1..(n - 1) /\ s \in 1..(n - 1))
        BY <1>1, OrderFacts, VerifyAssumption
        DEF RejectOutOfRange, in_range, VInv, VerifyTypeOK, Offered
      <3>. QED
        BY <1>1, <3>1 DEF RejectOutOfRange, IsSignature
    <2>. QED
      BY <2>1 DEF VInv, VerifyTypeOK, IsSignature
  <1>2. CASE PassRange
    <2>1. r \in 1..(n - 1) /\ s \in 1..(n - 1)
      BY <1>2, OrderFacts, VerifyAssumption
      DEF PassRange, in_range, VInv, VerifyTypeOK, Offered
    <2>. QED
      BY <1>2, <2>1 DEF PassRange, VInv, VerifyTypeOK
  <1>3. CASE ComputeScalars
    <2>1. PICK z0, w, r0 \in Residues(n) :
            z0 = hash_to_scalar(h, n) /\ w = mod_inv(s, n) /\ r0 = r
      <3>1. h \in Nat /\ s \in Residues(n) /\ s # 0 /\ r \in Residues(n)
        BY <1>3, VerifyAssumption, OrderFacts
        DEF ComputeScalars, VInv, VerifyTypeOK, Residues
      <3>. QED
        BY <3>1, HashIsScalar, InverseOfScalar
    <2>2. u' = <<mod_mul(z0, w, n), mod_mul(r0, w, n)>>
      BY <1>3, <2>1 DEF ComputeScalars
    <2>3. u' \in Residues(n) \X Residues(n)
      BY <2>2, Closure
    <2>. QED
      BY <1>3, <2>3 DEF ComputeScalars, VInv, VerifyTypeOK
  <1>4. CASE Compare
    <2>1. /\ result' <=> IsSignature
          /\ result' \in BOOLEAN /\ at' = "returned" /\ UNCHANGED <<secret, h, r, s, u>>
      BY <1>4, CompareDecides DEF Compare, matches
    <2>. QED
      BY <2>1 DEF VInv, VerifyTypeOK, IsSignature
  <1>5. CASE UNCHANGED verify_vars
    BY <1>5 DEF verify_vars, VInv, VerifyTypeOK, IsSignature
  <1>. QED
    BY <1>1, <1>2, <1>3, <1>4, <1>5 DEF VerifyNext

LEMMA SpecKeepsVInv == VerifySpec => []VInv
PROOF BY InitVInv, NextKeepsVInv, PTL DEF VerifySpec

-----------------------------------------------------------------------------
(* verify answers a Boolean, and its scalars are residues below n, whatever *)
(* integers it is offered.                                                  *)
THEOREM EcdsaVerifyTypeCorrect == VerifySpec => []VerifyTypeOK
PROOF
  <1>1. VInv => VerifyTypeOK
    BY DEF VInv
  <1>. QED
    BY <1>1, SpecKeepsVInv, PTL

(* verify accepts exactly the pairs in range that satisfy the signing      *)
(* equation for some nonce.                                                *)
THEOREM VerifyAcceptsExactlySignatures == VerifySpec => []AcceptsExactlySignatures
PROOF
  <1>1. VInv => AcceptsExactlySignatures
    BY DEF VInv, AcceptsExactlySignatures, IsSignature
  <1>. QED
    BY <1>1, SpecKeepsVInv, PTL
=============================================================================
