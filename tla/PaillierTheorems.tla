-------------------------- MODULE PaillierTheorems --------------------------
(***************************************************************************)
(* Paillier encryption, for primes of every size: generate_keys always     *)
(* finds mu, and what the caller encrypts, adds and multiplies decrypts.   *)
(***************************************************************************)
EXTENDS Paillier, ArithmeticTheorems, FiniteSetTheorems

-----------------------------------------------------------------------------
(* Powers of integers.                                                     *)

power(b, e) ==
  LET f[i \in Nat] == IF i = 0 THEN 1 ELSE f[i - 1] * b IN f[e]

LEMMA PowerFacts ==
  ASSUME NEW b \in Int
  PROVE  /\ power(b, 0) = 1
         /\ \A e \in Nat : power(b, e) \in Int /\ power(b, e + 1) = power(b, e) * b
PROOF
  <1>. DEFINE g == [t \in Nat \X Int |-> t[2] * b]
              body(v, e) == IF e = 0 THEN 1 ELSE v[e - 1] * b
              IsPower(v) == v = [e \in Nat |-> body(v, e)]
              w == CHOOSE v : IsPower(v)
  <1>1. g \in StepsOn(Int) /\ \A i \in Nat, a \in Int : g[<<i, a>>] = a * b
    BY DEF StepsOn
  <1>. HIDE DEF g
  <1>2. PICK f \in [Nat -> Int] : Recursive(f, 1, g, Nat)
    <2>1. 1 \in Int
      OBVIOUS
    <2>. QED
      BY <1>1, <2>1, RecursionOnNat
  <1>3. IsPower(f)
    <2>1. ASSUME NEW e \in Nat, e # 0 PROVE f[e] = f[e - 1] * b
      <3>1. e - 1 \in Nat /\ f[e - 1] \in Int
        BY <2>1
      <3>. QED
        BY <1>1, <1>2, <2>1, <3>1 DEF Recursive
    <2>2. f[0] = 1 /\ f = [e \in Nat |-> f[e]]
      BY <1>2 DEF Recursive
    <2>. QED
      BY <2>1, <2>2
  <1>4. IsPower(w)
    <2>. HIDE DEF IsPower
    <2>. QED
      BY <1>3
  <1>5. \A e \in Nat : power(b, e) = w[e]
    BY DEF power
  <1>. HIDE DEF w
  <1>6. DOMAIN w = Nat /\ \A e \in Nat : w[e] = body(w, e)
    <2>. DEFINE c(e) == body(w, e)
    <2>1. w = [e \in Nat |-> c(e)]
      BY <1>4, Zenon
    <2>. HIDE DEF c
    <2>2. DOMAIN w = Nat /\ \A e \in Nat : w[e] = c(e)
      BY <2>1
    <2>. QED
      BY <2>2 DEF c
  <1>7. w[0] = 1 /\ \A e \in Nat : w[e + 1] = w[e] * b
    <2>1. ASSUME NEW e \in Nat PROVE w[e + 1] = w[e] * b
      <3>1. e + 1 \in Nat /\ e + 1 # 0 /\ (e + 1) - 1 = e
        OBVIOUS
      <3>2. w[e + 1] = body(w, e + 1)
        BY <1>6, <3>1, Zenon
      <3>. QED
        BY <3>1, <3>2
    <2>. QED
      BY <1>6, <2>1
  <1>8. w \in [Nat -> Int]
    <2>. DEFINE E == {e \in Nat : w[e] \in Int}
    <2>1. 0 \in E /\ \A e \in Nat : e \in E => e + 1 \in E
      BY <1>7
    <2>2. Nat \subseteq E
      <3>. HIDE DEF E
      <3>. QED
        BY <2>1, SetInduction
    <2>3. w = [e \in Nat |-> w[e]]
      <3>. DEFINE c(e) == body(w, e)
      <3>1. w = [e \in Nat |-> c(e)]
        BY <1>4, Zenon
      <3>. HIDE DEF c
      <3>. QED
        BY <3>1
    <2>. QED
      BY <2>2, <2>3
  <1>. QED
    BY <1>5, <1>7, <1>8

LEMMA PowerAdds ==
  ASSUME NEW b \in Int, NEW i \in Nat
  PROVE  \A j \in Nat : power(b, i + j) = power(b, i) * power(b, j)
PROOF
  <1>. DEFINE J == {j \in Nat : power(b, i + j) = power(b, i) * power(b, j)}
  <1>1. 0 \in J
    BY PowerFacts
  <1>2. ASSUME NEW j \in Nat, j \in J PROVE j + 1 \in J
    <2>1. i + (j + 1) = (i + j) + 1 /\ i + j \in Nat
      OBVIOUS
    <2>2. power(b, i + (j + 1)) = power(b, i + j) * b /\ power(b, j + 1) = power(b, j) * b
      BY <2>1, PowerFacts
    <2>3. \A u, v \in Int : (u * v) * b = u * (v * b)
      OBVIOUS
    <2>. QED
      BY <1>2, <2>2, <2>3, PowerFacts
  <1>3. Nat \subseteq J
    <2>. HIDE DEF J
    <2>. QED
      BY <1>1, <1>2, SetInduction
  <1>. QED
    BY <1>3

LEMMA PowerMultiplies ==
  ASSUME NEW b \in Int, NEW i \in Nat
  PROVE  \A j \in Nat : power(b, i * j) = power(power(b, i), j)
PROOF
  <1>. DEFINE c == power(b, i)
              J == {j \in Nat : power(b, i * j) = power(c, j)}
  <1>1. c \in Int
    BY PowerFacts
  <1>. HIDE DEF c
  <1>2. 0 \in J
    BY <1>1, PowerFacts
  <1>3. ASSUME NEW j \in Nat, j \in J PROVE j + 1 \in J
    <2>1. PICK k \in Nat : k = i * j
      OBVIOUS
    <2>2. i * (j + 1) = k + i
      BY <2>1
    <2>3. power(b, k + i) = power(b, k) * c
      BY PowerAdds DEF c
    <2>4. power(c, j + 1) = power(c, j) * c
      BY <1>1, PowerFacts
    <2>. QED
      BY <1>3, <2>1, <2>2, <2>3, <2>4
  <1>4. Nat \subseteq J
    <2>. HIDE DEF J
    <2>. QED
      BY <1>2, <1>3, SetInduction
  <1>. QED
    BY <1>4 DEF c

LEMMA PowerOfProduct ==
  ASSUME NEW a \in Int, NEW b \in Int
  PROVE  \A j \in Nat : power(a * b, j) = power(a, j) * power(b, j)
PROOF
  <1>. DEFINE J == {j \in Nat : power(a * b, j) = power(a, j) * power(b, j)}
  <1>1. PICK c \in Int : c = a * b
    OBVIOUS
  <1>2. 0 \in J
    BY <1>1, PowerFacts
  <1>3. ASSUME NEW j \in Nat, j \in J PROVE j + 1 \in J
    <2>1. power(c, j + 1) = power(c, j) * c /\ power(a, j + 1) = power(a, j) * a
          /\ power(b, j + 1) = power(b, j) * b
      BY <1>1, PowerFacts
    <2>2. \A u, v \in Int : (u * v) * (a * b) = (u * a) * (v * b)
      OBVIOUS
    <2>3. power(a, j) \in Int /\ power(b, j) \in Int
      BY PowerFacts
    <2>. QED
      BY <1>1, <1>3, <2>1, <2>2, <2>3
  <1>4. Nat \subseteq J
    <2>. HIDE DEF J
    <2>. QED
      BY <1>2, <1>3, SetInduction
  <1>. QED
    BY <1>4

LEMMA PowerOfOne == \A j \in Nat : power(1, j) = 1
PROOF
  <1>. DEFINE J == {j \in Nat : power(1, j) = 1}
  <1>1. 0 \in J /\ \A j \in Nat : j \in J => j + 1 \in J
    BY PowerFacts
  <1>2. Nat \subseteq J
    <2>. HIDE DEF J
    <2>. QED
      BY <1>1, SetInduction
  <1>. QED
    BY <1>2

LEMMA PowerPositive ==
  ASSUME NEW b \in Nat
  PROVE  \A j \in Nat : power(b, j) \in Nat
PROOF
  <1>. DEFINE J == {j \in Nat : power(b, j) \in Nat}
  <1>1. 0 \in J /\ \A j \in Nat : j \in J => j + 1 \in J
    BY PowerFacts
  <1>2. Nat \subseteq J
    <2>. HIDE DEF J
    <2>. QED
      BY <1>1, SetInduction
  <1>. QED
    BY <1>2

LEMMA PowerCong ==
  ASSUME NEW a \in Int, NEW b \in Int, NEW k \in Int, Cong(a, b, k)
  PROVE  \A j \in Nat : Cong(power(a, j), power(b, j), k)
PROOF
  <1>. DEFINE J == {j \in Nat : Cong(power(a, j), power(b, j), k)}
  <1>1. 0 \in J
    BY PowerFacts, CongRefl
  <1>2. ASSUME NEW j \in Nat, j \in J PROVE j + 1 \in J
    <2>1. power(a, j) \in Int /\ power(b, j) \in Int
      BY PowerFacts
    <2>2. Cong(power(a, j) * a, power(b, j) * b, k)
      BY <1>2, <2>1, CongMul
    <2>. QED
      BY <2>2, PowerFacts
  <1>3. Nat \subseteq J
    <2>. HIDE DEF J
    <2>. QED
      BY <1>1, <1>2, SetInduction
  <1>. QED
    BY <1>3

(* Modulo the square of t, powers of 1 + a t are linear in the exponent.   *)
LEMMA PowerOfOnePlus ==
  ASSUME NEW a \in Int, NEW t \in Int
  PROVE  \A j \in Nat : Cong(power(1 + a * t, j), 1 + (j * a) * t, t * t)
PROOF
  <1>. DEFINE J == {j \in Nat : Cong(power(1 + a * t, j), 1 + (j * a) * t, t * t)}
  <1>1. PICK c \in Int, s \in Int : c = 1 + a * t /\ s = t * t
    OBVIOUS
  <1>2. 0 \in J
    <2>1. power(c, 0) = 1 + (0 * a) * t
      BY <1>1, PowerFacts
    <2>. QED
      BY <1>1, <2>1, CongRefl
  <1>3. ASSUME NEW j \in Nat, j \in J PROVE j + 1 \in J
    <2>1. PICK u \in Int : power(c, j) = (1 + (j * a) * t) + s * u
      BY <1>1, <1>3 DEF Cong
    <2>2. power(c, j + 1) = power(c, j) * c
      BY <1>1, PowerFacts
    <2>3. ((1 + (j * a) * t) + (t * t) * u) * (1 + a * t)
            = (1 + ((j + 1) * a) * t) + (t * t) * (j * a * a + u * (1 + a * t))
      OBVIOUS
    <2>4. PICK r \in Int : r = j * a * a + u * (1 + a * t)
      OBVIOUS
    <2>5. power(c, j + 1) = (1 + ((j + 1) * a) * t) + s * r
      BY <1>1, <2>1, <2>2, <2>3, <2>4
    <2>6. Cong(power(c, j + 1), 1 + ((j + 1) * a) * t, s)
      BY <2>4, <2>5 DEF Cong
    <2>. QED
      BY <1>1, <2>6
  <1>4. Nat \subseteq J
    <2>. HIDE DEF J
    <2>. QED
      BY <1>2, <1>3, SetInduction
  <1>. QED
    BY <1>4

-----------------------------------------------------------------------------
(* What mpz_powm and the products modulo N compute.                        *)

LEMMA CongModulo ==
  ASSUME NEW a \in Int, NEW b \in Int, NEW k \in Nat \ {0}
  PROVE  Cong(a, b, k) <=> a % k = b % k
PROOF
  <1>1. /\ a % k \in Residues(k) /\ Cong(a % k, a, k)
        /\ b % k \in Residues(k) /\ Cong(b % k, b, k)
    BY ModuloIsResidue
  <1>2. a % k \in Int /\ b % k \in Int
    BY <1>1 DEF Residues
  <1>3. ASSUME Cong(a, b, k) PROVE a % k = b % k
    <2>1. Cong(a % k, b, k)
      BY <1>1, <1>2, <1>3, CongTrans
    <2>2. Cong(b, b % k, k)
      BY <1>1, <1>2, CongSym
    <2>3. Cong(a % k, b % k, k)
      BY <1>2, <2>1, <2>2, CongTrans
    <2>. QED
      BY <1>1, <2>3, CongResidues
  <1>4. ASSUME a % k = b % k PROVE Cong(a, b, k)
    <2>1. Cong(a, a % k, k)
      BY <1>1, <1>2, CongSym
    <2>2. Cong(a % k, b, k)
      BY <1>1, <1>4
    <2>. QED
      BY <1>2, <2>1, <2>2, CongTrans
  <1>. QED
    BY <1>3, <1>4

LEMMA CongOfResidue ==
  ASSUME NEW k \in Nat \ {0}, NEW a \in Int, NEW b \in Residues(k), Cong(a, b, k)
  PROVE  a % k = b
PROOF
  <1>1. b \in Int /\ b \in 0..(k - 1)
    BY DEF Residues
  <1>2. b % k = b
    BY <1>1
  <1>. QED
    BY <1>1, <1>2, CongModulo

LEMMA RemainderFacts ==
  ASSUME NEW a \in Int, NEW k \in Nat \ {0}
  PROVE  a % k \in Nat /\ a % k < k /\ Cong(a % k, a, k)
PROOF
  <1>1. a % k \in Residues(k) /\ Cong(a % k, a, k)
    BY ModuloIsResidue
  <1>. QED
    BY <1>1 DEF Residues

LEMMA TimesIsProduct ==
  ASSUME NEW a \in Nat, NEW b \in Nat, NEW k \in Nat \ {0}
  PROVE  times(a, b, k) = (a * b) % k
PROOF
  <1>1. PICK u \in Nat, r \in Nat : /\ u = b \div 1024 /\ r = b % 1024
                                    /\ b = 1024 * u + r
    <2>1. b \div 1024 \in Nat /\ b % 1024 \in Nat /\ b = 1024 * (b \div 1024) + (b % 1024)
      OBVIOUS
    <2>. QED
      BY <2>1
  <1>2. PICK v \in Int, w \in Int, x \in Int :
          v = a * u /\ w = v % k /\ x = a * r
    BY <1>1
  <1>3. times(a, b, k) = (w * 1024 + x) % k
    BY <1>1, <1>2 DEF times
  <1>4. Cong(w * 1024, v * 1024, k)
    <2>1. Cong(w, v, k) /\ k \in Int
      BY <1>2, RemainderFacts
    <2>2. PICK c \in Int : c = 1024
      OBVIOUS
    <2>3. Cong(c, c, k)
      BY <2>1, CongRefl
    <2>4. Cong(w * c, v * c, k)
      BY <1>2, <2>1, <2>3, CongMul
    <2>. QED
      BY <2>2, <2>4
  <1>5. Cong(w * 1024 + x, v * 1024 + x, k)
    BY <1>2, <1>4, CongAdd, CongRefl
  <1>6. v * 1024 + x = a * b /\ w * 1024 + x \in Int /\ v * 1024 + x \in Int
    BY <1>1, <1>2
  <1>7. (w * 1024 + x) % k = (v * 1024 + x) % k
    BY <1>5, <1>6, CongModulo
  <1>. QED
    BY <1>3, <1>6, <1>7

(* One step of repeated squaring.                                          *)
LEMMA SquareStep ==
  ASSUME NEW b \in Nat, NEW i \in Nat, i # 0, NEW k \in Nat \ {0},
         NEW half, half = power(b, i \div 2) % k,
         NEW square, square = times(half, half, k)
  PROVE  /\ i \div 2 \in Nat /\ i \div 2 < i
         /\ power(b, i) % k = IF i % 2 = 0 THEN square ELSE times(square, b, k)
PROOF
  <1>1. PICK j \in Nat : j = i \div 2 /\ j < i /\ (i % 2 = 0 => i = j + j)
                         /\ (i % 2 # 0 => i = (j + j) + 1)
    <2>1. i \div 2 \in Nat /\ i \div 2 < i /\ i % 2 \in 0..1
          /\ i = 2 * (i \div 2) + (i % 2)
      OBVIOUS
    <2>. QED
      BY <2>1
  <1>2. PICK w \in Nat, v \in Nat : w = power(b, j) /\ v = w * w
    <2>1. \A w \in Nat : w * w \in Nat
      OBVIOUS
    <2>. QED
      BY <2>1, PowerPositive
  <1>3. half \in Nat /\ Cong(half, w, k)
    <2>1. half = w % k
      BY <1>1, <1>2
    <2>. QED
      BY <1>2, <2>1, RemainderFacts
  <1>4. PICK y \in Nat : y = half * half
    BY <1>3
  <1>5. square = y % k /\ Cong(y, v, k)
    BY <1>2, <1>3, <1>4, TimesIsProduct, CongMul
  <1>6. square = v % k
    BY <1>2, <1>4, <1>5, CongModulo
  <1>7. power(b, j + j) = v
    BY <1>2, PowerAdds
  <1>8. square \in Nat /\ Cong(square, v, k)
    BY <1>2, <1>6, RemainderFacts
  <1>9. CASE i % 2 = 0
    BY <1>1, <1>6, <1>7, <1>9
  <1>10. CASE i % 2 # 0
    <2>1. power(b, i) = v * b
      <3>1. i = (j + j) + 1 /\ j + j \in Nat
        BY <1>1, <1>10
      <3>2. power(b, (j + j) + 1) = power(b, j + j) * b
        BY <3>1, PowerFacts
      <3>. QED
        BY <1>7, <3>1, <3>2
    <2>2. times(square, b, k) = (square * b) % k
      BY <1>8, TimesIsProduct
    <2>3. Cong(square * b, v * b, k)
      BY <1>2, <1>8, CongMul, CongRefl
    <2>4. square * b \in Int /\ v * b \in Int
      BY <1>2, <1>8
    <2>5. (square * b) % k = (v * b) % k
      BY <2>3, <2>4, CongModulo
    <2>. QED
      BY <1>1, <1>10, <2>1, <2>2, <2>5
  <1>. QED
    BY <1>1, <1>9, <1>10

LEMMA PowmIsPower ==
  ASSUME NEW b \in Nat, NEW e \in Nat, NEW k \in Nat, k >= 2
  PROVE  powm(b, e, k) = power(b, e) % k
PROOF
  <1>. DEFINE body(v, i) == IF i = 0 THEN 1
                            ELSE LET half   == v[i \div 2]
                                     square == times(half, half, k)
                                 IN  IF i % 2 = 0 THEN square ELSE times(square, b, k)
              IsPowers(v) == v = [i \in 0..e |-> body(v, i)]
              w == CHOOSE v : IsPowers(v)
              h == [i \in 0..e |-> power(b, i) % k]
  <1>1. \A i \in 0..e : i \in Nat /\ (i # 0 => i \div 2 \in 0..e)
    OBVIOUS
  <1>2. ASSUME NEW v, NEW i \in 0..e, i # 0 => v[i \div 2] = power(b, i \div 2) % k
        PROVE  body(v, i) = power(b, i) % k
    <2>1. CASE i = 0
      <3>1. body(v, i) = 1
        BY <2>1
      <3>2. power(b, i) = 1
        BY <2>1, PowerFacts
      <3>3. 1 % k = 1
        OBVIOUS
      <3>. QED
        BY <3>1, <3>2, <3>3
    <2>2. CASE i # 0
      <3>. DEFINE half == v[i \div 2]
                  square == times(half, half, k)
      <3>1. i \in Nat /\ half = power(b, i \div 2) % k
        BY <1>2, <2>2
      <3>2. body(v, i) = IF i % 2 = 0 THEN square ELSE times(square, b, k)
        BY <2>2
      <3>3. square = times(half, half, k)
        OBVIOUS
      <3>. HIDE DEF half, square, body
      <3>4. power(b, i) % k = IF i % 2 = 0 THEN square ELSE times(square, b, k)
        BY <2>2, <3>1, <3>3, SquareStep
      <3>. QED
        BY <3>2, <3>4
    <2>. HIDE DEF body
    <2>. QED
      BY <2>1, <2>2
  <1>. HIDE DEF body
  <1>3. IsPowers(h)
    <2>1. ASSUME NEW i \in 0..e PROVE h[i] = body(h, i)
      <3>1. i # 0 => h[i \div 2] = power(b, i \div 2) % k
        BY <1>1
      <3>2. body(h, i) = power(b, i) % k
        BY <1>2, <3>1
      <3>. QED
        BY <3>2
    <2>2. h = [i \in 0..e |-> h[i]]
      OBVIOUS
    <2>. HIDE DEF h
    <2>. QED
      BY <2>1, <2>2
  <1>4. IsPowers(w)
    <2>. HIDE DEF IsPowers
    <2>. QED
      BY <1>3
  <1>5. powm(b, e, k) = w[e]
    BY DEF powm, body
  <1>. HIDE DEF w
  <1>6. \A i \in 0..e : w[i] = body(w, i)
    <2>1. w = [i \in 0..e |-> body(w, i)]
      BY <1>4, Zenon
    <2>. DEFINE c(i) == body(w, i)
    <2>2. w = [i \in 0..e |-> c(i)]
      BY <2>1
    <2>. HIDE DEF c
    <2>3. \A i \in 0..e : w[i] = c(i)
      BY <2>2
    <2>. QED
      BY <2>3 DEF c
  <1>. DEFINE I == {i \in Nat : \A j \in 0..i : j <= e => w[j] = power(b, j) % k}
  <1>7. ASSUME NEW i \in 0..e,
               \A j \in Nat : j < i => w[j] = power(b, j) % k
        PROVE  w[i] = power(b, i) % k
    <2>1. i # 0 => i \div 2 \in Nat /\ i \div 2 < i
      OBVIOUS
    <2>2. i # 0 => w[i \div 2] = power(b, i \div 2) % k
      BY <1>7, <2>1
    <2>3. body(w, i) = power(b, i) % k
      BY <1>2, <2>2
    <2>. QED
      BY <1>6, <2>3
  <1>8. 0 \in I
    <2>1. 0 \in 0..e /\ \A j \in Nat : ~(j < 0)
      OBVIOUS
    <2>2. w[0] = power(b, 0) % k
      BY <1>7, <2>1
    <2>. QED
      BY <2>2
  <1>9. ASSUME NEW i \in Nat, i \in I PROVE i + 1 \in I
    <2>1. ASSUME i + 1 <= e PROVE w[i + 1] = power(b, i + 1) % k
      <3>1. i + 1 \in 0..e /\ \A j \in Nat : j < i + 1 => j \in 0..i /\ j <= e
        BY <2>1
      <3>2. \A j \in Nat : j < i + 1 => w[j] = power(b, j) % k
        BY <1>9, <3>1
      <3>. QED
        BY <1>7, <3>1, <3>2
    <2>2. \A j \in 0..(i + 1) : j \in 0..i \/ j = i + 1
      OBVIOUS
    <2>. QED
      BY <1>9, <2>1, <2>2
  <1>10. Nat \subseteq I
    <2>. HIDE DEF I
    <2>. QED
      BY <1>8, <1>9, SetInduction
  <1>11. w[e] = power(b, e) % k
    BY <1>10
  <1>. QED
    BY <1>5, <1>11
-----------------------------------------------------------------------------
(* Divisors and primes.                                                    *)

LEMMA LeastElement ==
  ASSUME NEW S \in SUBSET Nat, S # {}
  PROVE  \E x \in S : \A y \in S : x <= y
PROOF
  <1>. DEFINE Below == OpToRel(<, Nat)
  <1>1. PICK x \in S : \A y \in S : ~(<<y, x>> \in Below)
    <2>1. IsWellFoundedOn(Below, Nat)
      BY NatLessThanWellFounded
    <2>. HIDE DEF Below
    <2>. QED
      BY <2>1, WFMin
  <1>2. ASSUME NEW y \in S PROVE x <= y
    <2>1. ASSUME y < x PROVE FALSE
      <3>1. <<y, x>> \in Nat \X Nat /\ y < x
        BY <2>1
      <3>2. <<y, x>> \in Below
        BY <3>1 DEF OpToRel
      <3>. QED
        BY <1>1, <3>2
    <2>. QED
      BY <2>1
  <1>. QED
    BY <1>2

LEMMA DividesMultiple ==
  ASSUME NEW a \in Nat \ {0}, NEW b \in Int
  PROVE  divides(a, b) <=> \E t \in Int : b = a * t
PROOF
  <1>1. ASSUME divides(a, b) PROVE \E t \in Int : b = a * t
    <2>1. b \div a \in Int /\ b = a * (b \div a) + (b % a)
      OBVIOUS
    <2>2. b % a = 0
      BY <1>1 DEF divides
    <2>3. b = a * (b \div a)
      BY <2>1, <2>2
    <2>. QED
      BY <2>1, <2>3
  <1>2. ASSUME NEW t \in Int, b = a * t PROVE divides(a, b)
    <2>1. b = a * t + 0 /\ 0 \in 0..(a - 1)
      BY <1>2
    <2>2. b % a = 0
      BY <2>1, QuotientAndRest
    <2>. QED
      BY <2>2 DEF divides
  <1>. QED
    BY <1>1, <1>2

LEMMA DividesCong ==
  ASSUME NEW a \in Nat \ {0}, NEW b \in Int
  PROVE  divides(a, b) <=> Cong(b, 0, a)
PROOF
  <1>1. \A t \in Int : 0 + a * t = a * t
    OBVIOUS
  <1>. QED
    BY <1>1, DividesMultiple DEF Cong

(* gcd is what its name says.                                              *)
LEMMA GcdFacts ==
  ASSUME NEW a \in Nat \ {0}, NEW b \in Nat \ {0}
  PROVE  /\ gcd(a, b) \in 1..b
         /\ divides(gcd(a, b), a) /\ divides(gcd(a, b), b)
         /\ \A f \in 1..b : divides(f, a) /\ divides(f, b) => f <= gcd(a, b)
PROOF
  <1>. DEFINE common(f) == divides(f, a) /\ divides(f, b)
              S == {c \in Nat : c < b /\ common(b - c)}
  <1>1. common(1)
    BY DEF divides
  <1>2. b - 1 \in S
    <2>1. b - 1 \in Nat /\ b - 1 < b /\ b - (b - 1) = 1
      OBVIOUS
    <2>. HIDE DEF common
    <2>. QED
      BY <1>1, <2>1
  <1>. HIDE DEF common
  <1>3. PICK c \in S : \A d \in S : c <= d
    BY <1>2, LeastElement
  <1>4. PICK g \in 1..b : g = b - c /\ common(g)
    BY <1>3
  <1>5. \A f \in (g + 1)..b : ~common(f)
    <2>1. ASSUME NEW f \in (g + 1)..b, common(f) PROVE FALSE
      <3>1. b - f \in Nat /\ b - f < b /\ b - (b - f) = f /\ b - f < c
        BY <1>4
      <3>2. b - f \in S
        BY <2>1, <3>1
      <3>. QED
        BY <1>3, <3>1, <3>2
    <2>. QED
      BY <2>1
  <1>6. /\ gcd(a, b) \in 1..b /\ common(gcd(a, b))
        /\ \A f \in (gcd(a, b) + 1)..b : ~common(f)
    BY <1>4, <1>5 DEF gcd, common
  <1>7. ASSUME NEW f \in 1..b, common(f) PROVE f <= gcd(a, b)
    <2>1. ~(f \in (gcd(a, b) + 1)..b)
      BY <1>6, <1>7
    <2>. QED
      BY <1>6, <2>1
  <1>. QED
    BY <1>6, <1>7 DEF common

LEMMA PrimeFacts ==
  ASSUME NEW l \in Nat, is_prime(l)
  PROVE  /\ l \in Nat \ {0} /\ l > 1
         /\ \A f \in 1..l : divides(f, l) => f = 1 \/ f = l
PROOF
  <1>1. \A f \in 1..l : f = 1 \/ f = l \/ f \in 2..(l - 1)
    OBVIOUS
  <1>. QED
    BY <1>1 DEF is_prime

LEMMA QuotientAndRemainder ==
  ASSUME NEW e \in Int, NEW d \in Nat \ {0}
  PROVE  \E u \in Int, r \in Nat : e = d * u + r /\ r < d /\ r = e % d
PROOF
  <1>. DEFINE u == e \div d
              r == e % d
  <1>1. u \in Int /\ r \in 0..(d - 1) /\ e = d * u + r /\ r = e % d
    OBVIOUS
  <1>. HIDE DEF u, r
  <1>2. r \in Nat /\ r < d
    BY <1>1
  <1>. QED
    BY <1>1, <1>2

(* What a prime does not divide is invertible modulo the prime.            *)
LEMMA PrimeInverse ==
  ASSUME NEW l \in Nat, is_prime(l), NEW a \in Int, ~divides(l, a)
  PROVE  \E x \in Int : Cong(x * a, 1, l)
PROOF
  <1>. DEFINE S == {d \in Nat \ {0} : \E x \in Int : Cong(x * a, d, l)}
  <1>1. l \in Nat \ {0} /\ l > 1 /\ l \in Int
    BY PrimeFacts
  <1>2. l \in S
    <2>1. 0 * a = l + l * (-1) /\ 0 \in Int /\ -1 \in Int
      OBVIOUS
    <2>. QED
      BY <1>1, <2>1 DEF Cong
  <1>3. PICK d \in S : \A e \in S : d <= e
    BY <1>2, LeastElement
  <1>4. PICK x \in Int, t \in Int : x * a = d + l * t
    BY <1>3 DEF Cong
  <1>5. d \in Nat \ {0}
    BY <1>3
  <1>7. ASSUME NEW e \in Int, NEW y \in Int, Cong(y * a, e, l) PROVE divides(d, e)
    <2>1. PICK u \in Int, r \in Nat : e = d * u + r /\ r < d /\ r = e % d
      BY <1>5, QuotientAndRemainder
    <2>2. PICK s \in Int : y * a = e + l * s
      BY <1>7 DEF Cong
    <2>3. PICK z \in Int, v \in Int : z = y - u * x /\ v = s - u * t
      OBVIOUS
    <2>4. z * a = y * a - u * (x * a)
      BY <2>3
    <2>5. u * (x * a) = u * d + l * (u * t)
      <3>1. u * (d + l * t) = u * d + l * (u * t)
        BY <1>5
      <3>. QED
        BY <1>4, <3>1
    <2>6. l * v = l * s - l * (u * t)
      BY <2>3
    <2>7. e - u * d = r
      BY <1>5, <2>1
    <2>8. z * a = r + l * v
      <3>1. /\ y * a \in Int /\ u * (x * a) \in Int /\ l * s \in Int /\ u * d \in Int
            /\ l * (u * t) \in Int
        BY <1>5
      <3>. QED
        BY <2>2, <2>4, <2>5, <2>6, <2>7, <3>1
    <2>9. Cong(z * a, r, l)
      BY <2>3, <2>8 DEF Cong
    <2>10. r = 0
      <3>1. ASSUME r # 0 PROVE FALSE
        <4>1. r \in Nat \ {0}
          BY <2>1, <3>1
        <4>2. r \in S
          BY <2>3, <2>9, <4>1
        <4>3. d <= r
          BY <1>3, <4>2
        <4>. QED
          BY <1>5, <2>1, <4>3
      <3>. QED
        BY <3>1
    <2>. QED
      BY <2>1, <2>10 DEF divides
  <1>8. divides(d, l) /\ divides(d, a)
    <2>1. 0 * a = l + l * (-1) /\ 1 * a = a + l * 0 /\ 0 \in Int /\ 1 \in Int /\ -1 \in Int
      OBVIOUS
    <2>2. Cong(0 * a, l, l) /\ Cong(1 * a, a, l)
      BY <2>1 DEF Cong
    <2>3. divides(d, l)
      BY <1>1, <1>7, <2>1, <2>2
    <2>4. divides(d, a)
      BY <1>7, <2>1, <2>2
    <2>. QED
      BY <2>3, <2>4
  <1>9. d = 1
    <2>1. d \in 1..l
      <3>1. d <= l
        BY <1>2, <1>3
      <3>. QED
        BY <1>1, <1>5, <3>1
    <2>2. d = 1 \/ d = l
      BY <1>8, <2>1, PrimeFacts
    <2>. QED
      BY <1>8, <2>2
  <1>. QED
    BY <1>4, <1>9 DEF Cong

(* Euclid's lemma.                                                         *)
LEMMA PrimeDividesProduct ==
  ASSUME NEW l \in Nat, is_prime(l), NEW a \in Int, NEW b \in Int, divides(l, a * b)
  PROVE  divides(l, a) \/ divides(l, b)
PROOF
  <1>1. SUFFICES ASSUME ~divides(l, a) PROVE divides(l, b)
    OBVIOUS
  <1>2. l \in Nat \ {0}
    BY PrimeFacts
  <1>3. PICK x \in Int, t \in Int : x * a = 1 + l * t
    BY <1>1, PrimeInverse DEF Cong
  <1>4. PICK c \in Int : c = a * b
    OBVIOUS
  <1>5. PICK s \in Int : c = l * s
    BY <1>2, <1>4, DividesMultiple
  <1>6. b = l * (x * s - t * b)
    <2>1. x * c = (x * a) * b
      BY <1>4
    <2>2. (1 + l * t) * b = b + l * (t * b)
      OBVIOUS
    <2>3. x * (l * s) = l * (x * s)
      OBVIOUS
    <2>4. l * (x * s - t * b) = l * (x * s) - l * (t * b)
      OBVIOUS
    <2>5. l * (x * s) \in Int /\ l * (t * b) \in Int
      OBVIOUS
    <2>. QED
      BY <1>3, <1>5, <2>1, <2>2, <2>3, <2>4, <2>5
  <1>7. x * s - t * b \in Int
    OBVIOUS
  <1>. QED
    BY <1>2, <1>6, <1>7, DividesMultiple
-----------------------------------------------------------------------------
(* Fermat's little theorem: the multiples of a number prime to l are, up   *)
(* to order, the numbers 1 to l - 1, and so is their product.              *)

(* The product of the members of S among 1..k.                             *)
product(S) ==
  CHOOSE f \in [Nat -> Int] :
    Recursive(f, 1, [t \in Nat \X Int |-> IF t[1] + 1 \in S THEN t[2] * (t[1] + 1)
                                                            ELSE t[2]], Nat)

LEMMA ProductFacts ==
  ASSUME NEW S
  PROVE  /\ product(S) \in [Nat -> Int] /\ product(S)[0] = 1
         /\ \A k \in Nat : product(S)[k + 1] = IF k + 1 \in S THEN product(S)[k] * (k + 1)
                                                              ELSE product(S)[k]
PROOF
  <1>. DEFINE g == [t \in Nat \X Int |-> IF t[1] + 1 \in S THEN t[2] * (t[1] + 1)
                                                            ELSE t[2]]
  <1>1. /\ g \in StepsOn(Int)
        /\ \A i \in Nat, a \in Int : g[<<i, a>>] = IF i + 1 \in S THEN a * (i + 1) ELSE a
    BY DEF StepsOn
  <1>. DEFINE f == product(S)
  <1>2. f \in [Nat -> Int] /\ Recursive(f, 1, g, Nat)
    <2>. HIDE DEF g, f
    <2>1. 1 \in Int
      OBVIOUS
    <2>2. \E h \in [Nat -> Int] : Recursive(h, 1, g, Nat)
      BY <1>1, <2>1, RecursionOnNat
    <2>. QED
      BY <2>2 DEF f, g, product
  <1>. HIDE DEF g, f
  <1>3. f[0] = 1
    BY <1>2 DEF Recursive
  <1>4. ASSUME NEW k \in Nat
        PROVE  f[k + 1] = IF k + 1 \in S THEN f[k] * (k + 1) ELSE f[k]
    <2>1. k + 1 \in Nat /\ k + 1 # 0 /\ (k + 1) - 1 = k /\ f[k] \in Int
      BY <1>2
    <2>2. f[k + 1] = g[<<k, f[k]>>]
      BY <1>2, <2>1 DEF Recursive
    <2>. QED
      BY <1>1, <2>1, <2>2
  <1>. QED
    BY <1>2, <1>3, <1>4 DEF f

LEMMA ProductOfMore ==
  ASSUME NEW S, NEW x \in Nat, x >= 1, x \notin S
  PROVE  \A k \in Nat : product(S \cup {x})[k] = IF k < x THEN product(S)[k]
                                                          ELSE product(S)[k] * x
PROOF
  <1>. DEFINE f == product(S)
              h == product(S \cup {x})
              K == {k \in Nat : h[k] = IF k < x THEN f[k] ELSE f[k] * x}
  <1>1. /\ f \in [Nat -> Int] /\ f[0] = 1
        /\ \A k \in Nat : f[k + 1] = IF k + 1 \in S THEN f[k] * (k + 1) ELSE f[k]
    BY ProductFacts
  <1>2. /\ h[0] = 1
        /\ \A k \in Nat : h[k + 1] = IF k + 1 \in S \cup {x} THEN h[k] * (k + 1) ELSE h[k]
    BY ProductFacts
  <1>. HIDE DEF f, h
  <1>3. 0 \in K
    BY <1>1, <1>2
  <1>4. ASSUME NEW k \in Nat, k \in K PROVE k + 1 \in K
    <2>1. f[k] \in Int
      BY <1>1
    <2>2. CASE k + 1 = x
      <3>1. h[k + 1] = f[k] * x /\ f[k + 1] = f[k]
        BY <1>1, <1>2, <1>4, <2>2
      <3>. QED
        BY <2>2, <3>1
    <2>3. CASE k + 1 # x
      <3>1. k < x <=> k + 1 < x
        BY <2>3
      <3>2. k + 1 \in S \cup {x} <=> k + 1 \in S
        BY <2>3
      <3>3. (f[k] * x) * (k + 1) = (f[k] * (k + 1)) * x
        BY <2>1
      <3>. QED
        BY <1>1, <1>2, <1>4, <3>1, <3>2, <3>3
    <2>. QED
      BY <2>2, <2>3
  <1>5. Nat \subseteq K
    <2>. HIDE DEF K
    <2>. QED
      BY <1>3, <1>4, SetInduction
  <1>. QED
    BY <1>5 DEF f, h

(* A prime divides none of the products of smaller numbers.                *)
LEMMA PrimeAndFactorial ==
  ASSUME NEW l \in Nat, is_prime(l)
  PROVE  \A k \in Nat : k < l => ~divides(l, product(1..(l - 1))[k])
PROOF
  <1>. DEFINE S == 1..(l - 1)
              f == product(S)
              K == {k \in Nat : k < l => ~divides(l, f[k])}
  <1>1. l \in Nat \ {0} /\ l > 1
    BY PrimeFacts
  <1>2. /\ f \in [Nat -> Int] /\ f[0] = 1
        /\ \A k \in Nat : f[k + 1] = IF k + 1 \in S THEN f[k] * (k + 1) ELSE f[k]
    BY ProductFacts
  <1>. HIDE DEF f
  <1>3. 0 \in K
    <2>1. 1 % l = 1
      BY <1>1
    <2>. QED
      BY <1>2, <2>1 DEF divides
  <1>4. ASSUME NEW k \in Nat, k \in K PROVE k + 1 \in K
    <2>1. SUFFICES ASSUME k + 1 < l, divides(l, f[k + 1]) PROVE FALSE
      OBVIOUS
    <2>2. f[k + 1] = f[k] * (k + 1) /\ f[k] \in Int
      BY <1>2, <2>1
    <2>3. divides(l, f[k]) \/ divides(l, k + 1)
      <3>1. k + 1 \in Int /\ divides(l, f[k] * (k + 1))
        BY <2>1, <2>2
      <3>. QED
        BY <2>2, <3>1, PrimeDividesProduct
    <2>4. (k + 1) % l = k + 1
      BY <2>1
    <2>. QED
      BY <1>4, <2>1, <2>3, <2>4 DEF divides
  <1>5. Nat \subseteq K
    <2>. HIDE DEF K
    <2>. QED
      BY <1>3, <1>4, SetInduction
  <1>. QED
    BY <1>5 DEF f

(* Multiplying by what l does not divide only permutes the residues.       *)
LEMMA MultiplesDiffer ==
  ASSUME NEW l \in Nat, is_prime(l), NEW a \in Int, ~divides(l, a),
         NEW i \in 1..(l - 1), NEW j \in 1..(l - 1)
  PROVE  /\ (a * i) % l \in 1..(l - 1)
         /\ (a * i) % l = (a * j) % l => i = j
PROOF
  <1>1. l \in Nat \ {0} /\ l > 1
    BY PrimeFacts
  <1>2. \A k \in Int : -l < k /\ k < l /\ divides(l, k) => k = 0
    <2>1. ASSUME NEW k \in Int, -l < k, k < l, divides(l, k) PROVE k = 0
      <3>1. CASE k >= 0
        BY <1>1, <2>1, <3>1 DEF divides
      <3>2. CASE k < 0
        <4>1. PICK t \in Int : k = l * t
          BY <1>1, <2>1, DividesMultiple
        <4>2. t <= -1 => l * t <= -l
          BY <1>1
        <4>3. t >= 0 => l * t >= 0
          BY <1>1
        <4>. QED
          BY <2>1, <3>2, <4>1, <4>2, <4>3
      <3>. QED
        BY <3>1, <3>2
    <2>. QED
      BY <2>1
  <1>3. (a * i) % l # 0
    <2>1. ASSUME (a * i) % l = 0 PROVE FALSE
      <3>1. i \in Int /\ divides(l, a * i)
        BY <2>1 DEF divides
      <3>2. divides(l, a) \/ divides(l, i)
        BY <3>1, PrimeDividesProduct
      <3>. QED
        BY <1>2, <3>2
    <2>. QED
      BY <2>1
  <1>4. PICK u \in Int, v \in Int : u = a * i /\ v = a * j
    OBVIOUS
  <1>5. u % l \in 0..(l - 1)
    BY <1>1
  <1>6. ASSUME u % l = v % l PROVE i = j
    <2>1. PICK t \in Int : u = v + l * t
      BY <1>1, <1>6, CongModulo DEF Cong
    <2>2. a * (i - j) = u - v
      BY <1>4
    <2>3. a * (i - j) = l * t
      BY <2>1, <2>2
    <2>4. PICK w \in Int : w = a * (i - j)
      OBVIOUS
    <2>5. divides(l, w)
      BY <1>1, <2>3, <2>4, DividesMultiple
    <2>6. divides(l, i - j)
      <3>1. i - j \in Int
        OBVIOUS
      <3>. QED
        BY <2>4, <2>5, <3>1, PrimeDividesProduct
    <2>. QED
      BY <1>2, <2>6
  <1>. QED
    BY <1>3, <1>4, <1>5, <1>6
LEMMA ProductOfMultiples ==
  ASSUME NEW l \in Nat, is_prime(l), NEW a \in Int, ~divides(l, a)
  PROVE  \A k \in Nat : k < l =>
           Cong(product({(a * j) % l : j \in 1..k})[l - 1],
                power(a, k) * product(1..(l - 1))[k], l)
PROOF
  <1>. DEFINE M(k) == {(a * j) % l : j \in 1..k}
              f == product(1..(l - 1))
              h(k) == product(M(k))[l - 1]
              K == {k \in Nat : k < l => Cong(h(k), power(a, k) * f[k], l)}
  <1>1. l \in Nat \ {0} /\ l > 1 /\ l - 1 \in Nat /\ l \in Int
    BY PrimeFacts
  <1>2. /\ f \in [Nat -> Int] /\ f[0] = 1
        /\ \A k \in Nat : f[k + 1] = IF k + 1 \in 1..(l - 1) THEN f[k] * (k + 1) ELSE f[k]
    BY ProductFacts
  <1>3. \A k \in Nat : h(k) \in Int
    BY <1>1, ProductFacts
  <1>4. 0 \in K
    <2>1. M(0) = {}
      OBVIOUS
    <2>2. h(0) = 1
      <3>. DEFINE e == product({})
                  I == {i \in Nat : e[i] = 1}
      <3>1. e[0] = 1 /\ \A i \in Nat : e[i + 1] = e[i]
        BY ProductFacts
      <3>. HIDE DEF e
      <3>2. 0 \in I /\ \A i \in Nat : i \in I => i + 1 \in I
        BY <3>1
      <3>3. Nat \subseteq I
        <4>. HIDE DEF I
        <4>. QED
          BY <3>2, SetInduction
      <3>4. e[l - 1] = 1
        BY <1>1, <3>3
      <3>. QED
        BY <2>1, <3>4 DEF e
    <2>3. power(a, 0) * f[0] = 1
      <3>1. power(a, 0) = 1 /\ f[0] = 1
        BY <1>2, PowerFacts
      <3>. HIDE DEF f
      <3>. QED
        BY <3>1
    <2>. HIDE DEF h, f
    <2>4. 1 \in Int
      OBVIOUS
    <2>. QED
      BY <1>1, <2>2, <2>3, <2>4, CongRefl
  <1>5. ASSUME NEW k \in Nat, k \in K, k + 1 < l
        PROVE  Cong(h(k + 1), power(a, k + 1) * f[k + 1], l)
    <2>. DEFINE x == (a * (k + 1)) % l
    <2>1. k + 1 \in 1..(l - 1)
      BY <1>5
    <2>2. /\ x \in 1..(l - 1)
          /\ \A j \in 1..k : x # (a * j) % l
      <3>1. \A j \in 1..k : j \in 1..(l - 1) /\ j # k + 1
        BY <1>5
      <3>. QED
        BY <2>1, <3>1, MultiplesDiffer
    <2>3. M(k + 1) = M(k) \cup {x} /\ x \notin M(k)
      <3>1. 1..(k + 1) = (1..k) \cup {k + 1}
        OBVIOUS
      <3>. QED
        BY <2>2, <3>1
    <2>4. Cong(x, a * (k + 1), l)
      BY <1>1, RemainderFacts
    <2>. HIDE DEF x, M
    <2>5. h(k + 1) = h(k) * x
      <3>1. x \in Nat /\ x >= 1 /\ ~(l - 1 < x)
        BY <2>2
      <3>. QED
        BY <1>1, <2>3, <3>1, ProductOfMore
    <2>. HIDE DEF h, f
    <2>6. PICK s \in Int, b \in Int, d \in Int :
            s = power(a, k) /\ b = f[k] /\ d = a * (k + 1)
      <3>1. power(a, k) \in Int
        BY PowerFacts
      <3>2. f[k] \in Int
        BY <1>2
      <3>3. a * (k + 1) \in Int
        OBVIOUS
      <3>. QED
        BY <3>1, <3>2, <3>3
    <2>7. x \in Int /\ h(k) \in Int /\ s * b \in Int
      BY <1>3, <2>2
    <2>8. Cong(h(k), s * b, l)
      BY <1>5, <2>6
    <2>9. Cong(h(k) * x, (s * b) * d, l)
      BY <1>1, <2>4, <2>6, <2>7, <2>8, CongMul
    <2>10. power(a, k + 1) * f[k + 1] = (s * b) * d
      <3>1. power(a, k + 1) = s * a /\ f[k + 1] = b * (k + 1)
        BY <1>2, <2>1, <2>6, PowerFacts
      <3>2. (s * a) * (b * (k + 1)) = (s * b) * (a * (k + 1))
        OBVIOUS
      <3>. QED
        BY <2>6, <3>1, <3>2
    <2>. QED
      BY <2>5, <2>9, <2>10
  <1>6. Nat \subseteq K
    <2>1. ASSUME NEW k \in Nat, k \in K PROVE k + 1 \in K
      <3>1. k + 1 \in Nat /\ (k + 1 < l => Cong(h(k + 1), power(a, k + 1) * f[k + 1], l))
        <4>. HIDE DEF h, f, K
        <4>. QED
          BY <1>5, <2>1
      <3>. HIDE DEF h, f
      <3>. QED
        BY <3>1
    <2>. HIDE DEF K
    <2>. QED
      BY <1>4, <2>1, SetInduction
  <1>. QED
    BY <1>6

LEMMA FermatsLittleTheorem ==
  ASSUME NEW l \in Nat, is_prime(l), NEW a \in Int, ~divides(l, a)
  PROVE  Cong(power(a, l - 1), 1, l)
PROOF
  <1>. DEFINE S == 1..(l - 1)
              M == {(a * j) % l : j \in S}
              P == product(S)[l - 1]
              A == power(a, l - 1)
  <1>1. l \in Nat \ {0} /\ l > 1 /\ l - 1 \in Nat /\ l \in Int /\ l - 1 < l
    BY PrimeFacts
  <1>2. M = S
    <2>. DEFINE f == [j \in S |-> (a * j) % l]
    <2>1. f \in Injection(S, S)
      <3>1. f \in [S -> S]
        BY MultiplesDiffer
      <3>2. ASSUME NEW i \in S, NEW j \in S, f[i] = f[j] PROVE i = j
        <4>1. (a * i) % l = (a * j) % l
          BY <3>2
        <4>. QED
          BY <4>1, MultiplesDiffer
      <3>. HIDE DEF f
      <3>. QED
        BY <3>1, <3>2 DEF Injection, IsInjective
    <2>2. IsFiniteSet(S)
      BY <1>1, FS_Interval
    <2>3. f \in Surjection(S, S)
      BY <2>1, <2>2, FS_Injection
    <2>4. M \subseteq S
      BY MultiplesDiffer
    <2>5. \A x \in S : \E j \in S : f[j] = x
      BY <2>3 DEF Surjection
    <2>. QED
      BY <2>4, <2>5
  <1>3. Cong(P, A * P, l)
    <2>1. Cong(product(M)[l - 1], A * P, l)
      BY <1>1, ProductOfMultiples
    <2>. QED
      BY <1>2, <2>1
  <1>4. P \in Int /\ A \in Int /\ ~divides(l, P)
    <2>1. P \in Int
      BY <1>1, ProductFacts
    <2>2. A \in Int
      BY <1>1, PowerFacts
    <2>3. ~divides(l, P)
      BY <1>1, PrimeAndFactorial
    <2>. QED
      BY <2>1, <2>2, <2>3
  <1>. HIDE DEF P, A
  <1>5. PICK t \in Int : P = A * P + l * t
    BY <1>3 DEF Cong
  <1>6. PICK d \in Int : d = A - 1
    BY <1>4
  <1>7. divides(l, d * P)
    <2>1. d * P = l * (-t)
      <3>1. (A - 1) * P = A * P - P
        BY <1>4
      <3>2. A * P \in Int
        BY <1>4
      <3>. QED
        BY <1>4, <1>5, <1>6, <3>1, <3>2
    <2>2. d * P \in Int /\ -t \in Int
      BY <1>4
    <2>. QED
      BY <1>1, <2>1, <2>2, DividesMultiple
  <1>8. divides(l, d)
    BY <1>4, <1>7, PrimeDividesProduct
  <1>9. PICK u \in Int : d = l * u
    BY <1>1, <1>8, DividesMultiple
  <1>10. A = 1 + l * u
    BY <1>4, <1>6, <1>9
  <1>. QED
    BY <1>10 DEF Cong, A
-----------------------------------------------------------------------------
(* The numbers of a key: lambda and N.                                     *)

lcm(a, b) == (a * b) \div gcd(a, b)

LEMMA LeastCommonMultiple ==
  ASSUME NEW a \in Nat \ {0}, NEW b \in Nat \ {0}
  PROVE  /\ lcm(a, b) \in Nat \ {0}
         /\ \E g \in Int : g * lcm(a, b) = a * b
         /\ \E u \in Nat : lcm(a, b) = b * u
         /\ \E v \in Nat : lcm(a, b) = a * v
PROOF
  <1>. DEFINE l == lcm(a, b)
  <1>1. PICK g \in Nat \ {0} : g = gcd(a, b) /\ divides(g, a) /\ divides(g, b)
    BY GcdFacts
  <1>2. PICK u \in Int, v \in Int : a = g * u /\ b = g * v
    <2>1. a \in Int /\ b \in Int
      OBVIOUS
    <2>2. \E u \in Int : a = g * u
      BY <1>1, <2>1, DividesMultiple
    <2>3. \E v \in Int : b = g * v
      BY <1>1, <2>1, DividesMultiple
    <2>. QED
      BY <2>2, <2>3
  <1>3. u >= 1 /\ v >= 1
    <2>1. \A t \in Int : t <= 0 => g * t <= 0
      BY <1>1
    <2>. QED
      BY <1>2, <2>1
  <1>4. PICK w \in Int : w = b * u
    BY <1>2
  <1>5. w = a * v
    <2>1. (g * v) * u = (g * u) * v
      BY <1>2
    <2>. QED
      BY <1>2, <1>4, <2>1
  <1>6. a * b = g * w
    <2>1. (g * u) * b = g * (b * u)
      BY <1>1
    <2>. QED
      BY <1>2, <1>4, <2>1
  <1>7. l = w
    <2>1. PICK c \in Int : c = a * b
      OBVIOUS
    <2>2. c = g * w + 0 /\ 0 \in 0..(g - 1)
      BY <1>1, <1>4, <1>6, <2>1
    <2>3. c \div g = w
      BY <2>2, QuotientAndRest
    <2>. QED
      BY <1>1, <2>1, <2>3 DEF lcm
  <1>. HIDE DEF l
  <1>8. w >= 1
    <2>1. \A x, y \in Nat : x >= 1 /\ y >= 1 => x * y >= 1
      OBVIOUS
    <2>. QED
      BY <1>2, <1>3, <1>4, <2>1
  <1>9. l \in Nat \ {0} /\ u \in Nat /\ v \in Nat /\ g \in Int
    BY <1>1, <1>2, <1>3, <1>7, <1>8
  <1>10. g * l = a * b /\ l = b * u /\ l = a * v
    BY <1>4, <1>5, <1>6, <1>7
  <1>. QED
    BY <1>9, <1>10 DEF l

(* No prime divides the predecessor of another prime of its size: that     *)
(* would have to be its successor, and one of the two is even.             *)
LEMMA PrimesOfOneSize ==
  ASSUME NEW k \in Nat, k >= 3, NEW a \in Nat, NEW b \in Nat,
         is_prime(a), is_prime(b), sizeinbase2(a) = k, sizeinbase2(b) = k
  PROVE  ~divides(a, b - 1)
PROOF
  <1>1. a \in Nat \ {0} /\ a > 1 /\ b > 1 /\ b - 1 \in Int
    BY PrimeFacts
  <1>2. PICK h \in Nat : /\ h = two_to[k - 1] /\ two_to[k] = 2 * h /\ h >= 4
                         /\ h <= a /\ a < 2 * h /\ h <= b /\ b < 2 * h
    <2>1. k - 1 \in Nat /\ (k - 1) + 1 = k /\ k - 2 \in Nat /\ k - 3 \in Nat
          /\ (k - 2) + 1 = k - 1 /\ (k - 3) + 1 = k - 2
      OBVIOUS
    <2>2. two_to[k] = 2 * two_to[k - 1] /\ two_to[k - 1] = 2 * two_to[k - 2]
          /\ two_to[k - 2] = 2 * two_to[k - 3]
      BY <2>1, TwoTo
    <2>3. two_to[k - 1] \in Nat /\ two_to[k - 2] \in Nat
          /\ two_to[k - 3] \in Nat /\ two_to[k - 3] >= 1
      BY <2>1, TwoToPositive
    <2>4. /\ two_to[k - 1] <= a /\ a < two_to[k]
          /\ two_to[k - 1] <= b /\ b < two_to[k]
      BY <1>1, SizeInBase2
    <2>. QED
      BY <2>2, <2>3, <2>4
  <1>3. SUFFICES ASSUME divides(a, b - 1) PROVE FALSE
    OBVIOUS
  <1>4. PICK t \in Int : b - 1 = a * t
    BY <1>1, <1>3, DividesMultiple
  <1>5. t = 1
    <2>1. t <= 0 => a * t <= 0
      BY <1>1
    <2>2. t >= 2 => a * t >= 2 * a
      BY <1>1
    <2>. QED
      BY <1>1, <1>2, <1>4, <2>1, <2>2
  <1>6. b = a + 1
    BY <1>1, <1>4, <1>5
  <1>7. a % 2 = 0 \/ b % 2 = 0
    BY <1>6
  <1>8. 2 \in 2..(a - 1) /\ 2 \in 2..(b - 1)
    BY <1>2
  <1>. QED
    BY <1>7, <1>8 DEF is_prime, divides

LEMMA DistinctPrimesDoNotDivide ==
  ASSUME NEW a \in Nat, NEW b \in Nat, is_prime(a), is_prime(b), a # b
  PROVE  ~divides(a, b)
PROOF
  <1>1. SUFFICES ASSUME divides(a, b) PROVE FALSE
    OBVIOUS
  <1>2. a \in Nat \ {0} /\ a > 1 /\ b \in Nat \ {0} /\ b > 1
    BY PrimeFacts
  <1>3. a \in 1..b
    <2>1. a > b => b % a = b
      BY <1>2
    <2>. QED
      BY <1>1, <1>2, <2>1 DEF divides
  <1>. QED
    BY <1>1, <1>2, <1>3, PrimeFacts

(* Modulo the product of two primes means modulo both.                     *)
LEMMA CongModuloProduct ==
  ASSUME NEW a \in Nat, NEW b \in Nat, is_prime(a), is_prime(b), a # b,
         NEW x \in Int, NEW y \in Int, Cong(x, y, a), Cong(x, y, b)
  PROVE  Cong(x, y, a * b)
PROOF
  <1>1. a \in Nat \ {0} /\ b \in Nat \ {0}
    BY PrimeFacts
  <1>2. PICK s \in Int, t \in Int : x = y + a * s /\ x = y + b * t
    BY DEF Cong
  <1>3. PICK c \in Int : c = a * s /\ c = b * t
    BY <1>2
  <1>4. divides(b, a * s)
    <2>1. divides(b, c)
      BY <1>1, <1>3, DividesMultiple
    <2>. QED
      BY <1>3, <2>1
  <1>5. divides(b, s)
    BY <1>4, PrimeDividesProduct, DistinctPrimesDoNotDivide
  <1>6. PICK u \in Int : s = b * u
    BY <1>1, <1>5, DividesMultiple
  <1>7. a * (b * u) = (a * b) * u
    OBVIOUS
  <1>8. x = y + (a * b) * u
    BY <1>2, <1>6, <1>7
  <1>. QED
    BY <1>8 DEF Cong

(* What is invertible modulo both is invertible modulo the product.        *)
LEMMA InverseModuloProduct ==
  ASSUME NEW a \in Int, NEW b \in Int, NEW c \in Int,
         NEW x \in Int, NEW y \in Int, Cong(x * c, 1, a), Cong(y * c, 1, b)
  PROVE  \E z \in Int : Cong(c * z, 1, a * b)
PROOF
  <1>1. PICK s \in Int, t \in Int : x * c = 1 + a * s /\ y * c = 1 + b * t
    BY DEF Cong
  <1>2. PICK z \in Int : z = x + y - (x * y) * c
    OBVIOUS
  <1>3. c * z = 1 - (x * c - 1) * (y * c - 1)
    <2>1. c * (x + y - (x * y) * c) = 1 - (x * c - 1) * (y * c - 1)
      OBVIOUS
    <2>. QED
      BY <1>2, <2>1
  <1>4. (x * c - 1) * (y * c - 1) = (a * b) * (s * t)
    <2>1. x * c - 1 = a * s /\ y * c - 1 = b * t
      BY <1>1
    <2>2. (a * s) * (b * t) = (a * b) * (s * t)
      OBVIOUS
    <2>. QED
      BY <2>1, <2>2
  <1>5. 1 - (a * b) * (s * t) = 1 + (a * b) * (-(s * t)) /\ -(s * t) \in Int
    OBVIOUS
  <1>6. c * z = 1 + (a * b) * (-(s * t))
    BY <1>3, <1>4, <1>5
  <1>. QED
    BY <1>5, <1>6 DEF Cong
(* A unit modulo N, raised to lambda, is 1.                                *)
LEMMA UnitsModuloPrime ==
  ASSUME NEW a \in Nat, is_prime(a), NEW n \in Nat \ {0}, divides(a, n), a \in 1..n,
         NEW r \in Nat \ {0}, coprime(r, n), NEW j \in Nat
  PROVE  Cong(power(r, (a - 1) * j), 1, a)
PROOF
  <1>1. a > 1 /\ a \in Int /\ a - 1 \in Nat
    BY PrimeFacts
  <1>2. ~divides(a, r)
    <2>1. ASSUME divides(a, r) PROVE FALSE
      <3>1. a <= gcd(r, n)
        BY <2>1, GcdFacts
      <3>. QED
        BY <1>1, <3>1 DEF coprime
    <2>. QED
      BY <2>1
  <1>3. PICK c \in Int : c = power(r, a - 1)
    BY <1>1, PowerFacts
  <1>4. Cong(c, 1, a)
    BY <1>2, <1>3, FermatsLittleTheorem
  <1>5. power(r, (a - 1) * j) = power(c, j)
    BY <1>1, <1>3, PowerMultiplies
  <1>6. Cong(power(c, j), power(1, j), a)
    <2>1. 1 \in Int
      OBVIOUS
    <2>. QED
      BY <1>1, <1>4, <2>1, PowerCong
  <1>. QED
    BY <1>5, <1>6, PowerOfOne

(* generate_keys: two primes of one size make a key.                       *)
LEMMA KeyNumbers ==
  ASSUME NEW k \in Nat, k >= 3, NEW a \in Nat, NEW b \in Nat, a # b,
         is_prime(a), is_prime(b), sizeinbase2(a) = k, sizeinbase2(b) = k,
         NEW l, l = lcm(a - 1, b - 1),
         NEW n, n = a * b
  PROVE  /\ l \in Nat \ {0} /\ n \in Nat /\ n >= 2
         /\ \E z \in Int : Cong(l * z, 1, n)
         /\ \A r \in Nat \ {0} : coprime(r, n) => Cong(power(r, l), 1, n)
PROOF
  <1>1. /\ a \in Nat \ {0} /\ b \in Nat \ {0} /\ a > 1 /\ b > 1
        /\ a - 1 \in Nat \ {0} /\ b - 1 \in Nat \ {0}
    BY PrimeFacts
  <1>2. PICK g \in Int, u \in Nat, v \in Nat :
          /\ l \in Nat \ {0} /\ g * l = (a - 1) * (b - 1)
          /\ l = (b - 1) * u /\ l = (a - 1) * v
    <2>. DEFINE c == a - 1
                d == b - 1
    <2>1. c \in Nat \ {0} /\ d \in Nat \ {0} /\ l = lcm(c, d)
      BY <1>1
    <2>. HIDE DEF c, d
    <2>2. /\ lcm(c, d) \in Nat \ {0}
          /\ \E g \in Int : g * lcm(c, d) = c * d
          /\ \E u \in Nat : lcm(c, d) = d * u
          /\ \E v \in Nat : lcm(c, d) = c * v
      BY <2>1, LeastCommonMultiple
    <2>3. /\ l \in Nat \ {0}
          /\ \E g \in Int : g * l = c * d
          /\ \E u \in Nat : l = d * u
          /\ \E v \in Nat : l = c * v
      BY <2>1, <2>2
    <2>. QED
      BY <2>3 DEF c, d
  <1>3. n \in Nat /\ a <= n /\ b <= n
    <2>1. \A x, y \in Nat : x > 1 /\ y > 1 => x * y \in Nat /\ x <= x * y /\ y <= x * y
      OBVIOUS
    <2>. QED
      BY <1>1, <2>1
  <1>4. ASSUME NEW x \in Nat, is_prime(x), ~divides(x, a - 1), ~divides(x, b - 1)
        PROVE  ~divides(x, l)
    <2>1. SUFFICES ASSUME divides(x, l) PROVE FALSE
      OBVIOUS
    <2>2. x \in Nat \ {0} /\ l \in Int
      BY <1>2, <1>4, PrimeFacts
    <2>3. PICK t \in Int : l = x * t
      BY <2>1, <2>2, DividesMultiple
    <2>4. g * (x * t) = x * (g * t) /\ g * t \in Int
      OBVIOUS
    <2>5. PICK y \in Int : y = (a - 1) * (b - 1)
      BY <1>1
    <2>6. y = x * (g * t)
      BY <1>2, <2>3, <2>4, <2>5
    <2>7. divides(x, y)
      BY <2>2, <2>4, <2>6, DividesMultiple
    <2>8. a - 1 \in Int /\ b - 1 \in Int /\ divides(x, (a - 1) * (b - 1))
      BY <1>1, <2>5, <2>7
    <2>. QED
      BY <1>4, <2>8, PrimeDividesProduct
  <1>5. ~divides(a, a - 1) /\ ~divides(b, b - 1) /\ ~divides(a, b - 1) /\ ~divides(b, a - 1)
    BY PrimesOfOneSize
  <1>6. \E z \in Int : Cong(l * z, 1, n)
    <2>1. l \in Int /\ a \in Int /\ b \in Int
      BY <1>2
    <2>2. PICK x \in Int : Cong(x * l, 1, a)
      BY <1>4, <1>5, <2>1, PrimeInverse
    <2>3. PICK y \in Int : Cong(y * l, 1, b)
      BY <1>4, <1>5, <2>1, PrimeInverse
    <2>. QED
      BY <2>1, <2>2, <2>3, InverseModuloProduct
  <1>7. ASSUME NEW r \in Nat \ {0}, coprime(r, n) PROVE Cong(power(r, l), 1, n)
    <2>1. divides(a, n) /\ divides(b, n) /\ a \in 1..n /\ b \in 1..n /\ n \in Nat \ {0}
      <3>1. n \in Int /\ n = a * b /\ n = b * a
        BY <1>3
      <3>2. divides(a, n) /\ divides(b, n)
        BY <1>1, <3>1, DividesMultiple
      <3>. QED
        BY <1>1, <1>3, <3>2
    <2>2. Cong(power(r, l), 1, a)
      BY <1>2, <1>7, <2>1, UnitsModuloPrime
    <2>3. Cong(power(r, l), 1, b)
      BY <1>2, <1>7, <2>1, UnitsModuloPrime
    <2>4. power(r, l) \in Int /\ 1 \in Int
      BY <1>2, PowerFacts
    <2>. QED
      BY <2>2, <2>3, <2>4, CongModuloProduct
  <1>8. n >= 2
    BY <1>1, <1>3
  <1>. QED
    BY <1>2, <1>3, <1>6, <1>7, <1>8
-----------------------------------------------------------------------------
(* Ciphertexts.  c stands for x if raising it to lambda leaves, modulo the *)
(* square of N, 1 and x times lambda multiples of N: N + 1 stands for 1,   *)
(* the power of a unit for 0, products for sums.                           *)

StandsFor(c, x, n, l) == Cong(power(c, l), 1 + (x * l) * n, n * n)

(* What decrypt makes of such a power.                                     *)
LEMMA ResidueOfOnePlus ==
  ASSUME NEW n \in Nat, n >= 2, NEW y \in Int
  PROVE  /\ 1 + (y % n) * n \in 0..(n * n - 1)
         /\ Cong(1 + y * n, 1 + (y % n) * n, n * n)
         /\ L(1 + (y % n) * n, n) = y % n
PROOF
  <1>1. PICK u \in Int, r \in Nat : y = n * u + r /\ r < n /\ r = y % n
    <2>1. n \in Nat \ {0}
      OBVIOUS
    <2>. QED
      BY <2>1, QuotientAndRemainder
  <1>2. r * n <= n * n - n /\ r * n \in Nat
    <2>1. r * n <= (n - 1) * n
      BY <1>1
    <2>2. (n - 1) * n = n * n - n
      OBVIOUS
    <2>. QED
      BY <2>1, <2>2
  <1>3. 1 + r * n \in 0..(n * n - 1)
    <2>1. PICK k \in Int, z \in Nat : k = n * n /\ z = r * n
      BY <1>2
    <2>2. z <= k - n
      BY <1>2, <2>1
    <2>. QED
      BY <2>1, <2>2
  <1>4. 1 + y * n = (1 + r * n) + (n * n) * u
    <2>1. 1 + (n * u + r) * n = (1 + r * n) + (n * n) * u
      OBVIOUS
    <2>. QED
      BY <1>1, <2>1
  <1>5. L(1 + r * n, n) = r
    <2>1. PICK z \in Nat : z = r * n
      BY <1>2
    <2>2. (1 + z) - 1 = n * r + 0 /\ 0 \in 0..(n - 1)
      BY <2>1
    <2>3. z \div n = r
      BY <2>1, <2>2, QuotientAndRest
    <2>4. (1 + z) - 1 = z
      OBVIOUS
    <2>. QED
      BY <2>1, <2>3, <2>4 DEF L
  <1>. QED
    BY <1>1, <1>3, <1>4, <1>5 DEF Cong

LEMMA StandsForMeans ==
  ASSUME NEW n \in Nat, n >= 2, NEW l \in Nat, NEW c \in Nat, NEW x \in Int
  PROVE  /\ StandsFor(c, x, n, l) <=> powm(c, l, n * n) = 1 + ((x * l) % n) * n
         /\ StandsFor(c, x, n, l) => L(powm(c, l, n * n), n) = (x * l) % n
PROOF
  <1>1. PICK y \in Int, k \in Nat : y = x * l /\ k = n * n /\ k >= 2
    <2>1. n * n >= 2 * n
      OBVIOUS
    <2>2. x * l \in Int /\ n * n \in Nat
      OBVIOUS
    <2>. QED
      BY <2>1, <2>2
  <1>2. PICK w \in Nat : w = power(c, l) /\ powm(c, l, k) = w % k
    <2>1. power(c, l) \in Nat
      BY PowerPositive
    <2>2. powm(c, l, k) = power(c, l) % k
      BY <1>1, PowmIsPower
    <2>. QED
      BY <2>1, <2>2
  <1>3. PICK z \in 0..(k - 1) : /\ z = 1 + (y % n) * n
                               /\ Cong(1 + y * n, z, k) /\ L(z, n) = y % n
    BY <1>1, ResidueOfOnePlus
  <1>4. PICK v \in Int : v = 1 + y * n
    BY <1>1
  <1>5. v % k = z
    BY <1>1, <1>3, <1>4, CongOfResidue DEF Residues
  <1>6. Cong(w, v, k) <=> w % k = z
    <2>1. k \in Nat \ {0} /\ w \in Int
      BY <1>1
    <2>. QED
      BY <1>4, <1>5, <2>1, CongModulo
  <1>. QED
    BY <1>1, <1>2, <1>3, <1>4, <1>6 DEF StandsFor

LEMMA StandsForCong ==
  ASSUME NEW n \in Int, NEW l \in Nat, NEW a \in Int, NEW b \in Int,
         NEW x \in Int, NEW y \in Int,
         StandsFor(a, x, n, l), Cong(b, a, n * n), Cong(x, y, n)
  PROVE  StandsFor(b, y, n, l)
PROOF
  <1>1. PICK k \in Int : k = n * n
    OBVIOUS
  <1>2. PICK t \in Int : x = y + n * t
    BY DEF Cong
  <1>3. 1 + (x * l) * n = (1 + (y * l) * n) + (n * n) * (t * l)
    <2>1. 1 + ((y + n * t) * l) * n = (1 + (y * l) * n) + (n * n) * (t * l)
      OBVIOUS
    <2>. QED
      BY <1>2, <2>1
  <1>4. PICK u \in Int, v \in Int : u = 1 + (x * l) * n /\ v = 1 + (y * l) * n
    OBVIOUS
  <1>5. Cong(u, v, k)
    <2>1. t * l \in Int /\ u = v + k * (t * l)
      BY <1>1, <1>3, <1>4
    <2>. QED
      BY <2>1 DEF Cong
  <1>6. Cong(power(a, l), u, k)
    BY <1>1, <1>4 DEF StandsFor
  <1>7. Cong(power(b, l), power(a, l), k)
    BY <1>1, PowerCong
  <1>8. power(a, l) \in Int /\ power(b, l) \in Int
    BY PowerFacts
  <1>9. Cong(power(b, l), v, k)
    BY <1>4, <1>5, <1>6, <1>7, <1>8, CongTrans
  <1>. QED
    BY <1>1, <1>4, <1>9 DEF StandsFor

LEMMA StandsForSum ==
  ASSUME NEW n \in Int, NEW l \in Nat, NEW a \in Int, NEW b \in Int,
         NEW x \in Int, NEW y \in Int, StandsFor(a, x, n, l), StandsFor(b, y, n, l)
  PROVE  StandsFor(a * b, x + y, n, l)
PROOF
  <1>1. PICK u \in Int, v \in Int : u = x * l /\ v = y * l
    OBVIOUS
  <1>2. PICK s \in Int, t \in Int : /\ power(a, l) = (1 + u * n) + (n * n) * s
                                    /\ power(b, l) = (1 + v * n) + (n * n) * t
    BY <1>1 DEF StandsFor, Cong
  <1>3. ((1 + u * n) + (n * n) * s) * ((1 + v * n) + (n * n) * t)
          = (1 + (u + v) * n)
            + (n * n) * (u * v + s * (1 + v * n) + t * (1 + u * n) + s * ((n * n) * t))
    OBVIOUS
  <1>4. u * v + s * (1 + v * n) + t * (1 + u * n) + s * ((n * n) * t) \in Int
    OBVIOUS
  <1>5. u + v = (x + y) * l
    BY <1>1
  <1>6. power(a * b, l) = power(a, l) * power(b, l)
    BY PowerOfProduct
  <1>7. Cong(power(a * b, l), 1 + (u + v) * n, n * n)
    BY <1>2, <1>3, <1>4, <1>6 DEF Cong
  <1>. QED
    BY <1>5, <1>7 DEF StandsFor

LEMMA StandsForMultiple ==
  ASSUME NEW n \in Int, NEW l \in Nat, NEW a \in Int, NEW x \in Int,
         NEW j \in Nat, StandsFor(a, x, n, l)
  PROVE  StandsFor(power(a, j), j * x, n, l)
PROOF
  <1>1. PICK u \in Int, k \in Int, c \in Int :
          u = x * l /\ k = n * n /\ c = 1 + u * n
    <2>1. PICK u \in Int : u = x * l
      OBVIOUS
    <2>. QED
      BY <2>1
  <1>2. PICK w \in Int : w = power(a, l)
    BY PowerFacts
  <1>3. Cong(w, c, k)
    BY <1>1, <1>2 DEF StandsFor
  <1>4. Cong(power(w, j), power(c, j), k)
    BY <1>3, PowerCong
  <1>5. Cong(power(c, j), 1 + (j * u) * n, k)
    BY <1>1, PowerOfOnePlus
  <1>6. power(w, j) \in Int /\ power(c, j) \in Int /\ 1 + (j * u) * n \in Int
    <2>1. 1 + (j * u) * n \in Int
      OBVIOUS
    <2>. QED
      BY <2>1, PowerFacts
  <1>7. Cong(power(w, j), 1 + (j * u) * n, k)
    BY <1>4, <1>5, <1>6, CongTrans
  <1>8. power(power(a, j), l) = power(w, j)
    <2>1. power(power(a, j), l) = power(a, j * l) /\ power(power(a, l), j) = power(a, l * j)
      BY PowerMultiplies
    <2>2. j * l = l * j
      OBVIOUS
    <2>. QED
      BY <1>2, <2>1, <2>2
  <1>9. j * u = (j * x) * l
    <2>1. j * (x * l) = (j * x) * l
      OBVIOUS
    <2>. QED
      BY <1>1, <2>1
  <1>. QED
    BY <1>1, <1>7, <1>8, <1>9 DEF StandsFor

(* What encrypt computes, before it reduces modulo the square of N.        *)
LEMMA StandsForPlaintext ==
  ASSUME NEW n \in Nat, NEW l \in Nat, NEW x \in Nat, NEW r \in Int,
         Cong(power(r, l), 1, n)
  PROVE  StandsFor(power(n + 1, x) * power(r, n), x, n, l)
PROOF
  <1>1. StandsFor(n + 1, 1, n, l)
    <2>1. Cong(power(1 + 1 * n, l), 1 + (l * 1) * n, n * n)
      <3>1. 1 \in Int /\ n \in Int
        OBVIOUS
      <3>. QED
        BY <3>1, PowerOfOnePlus
    <2>2. 1 + 1 * n = n + 1 /\ l * 1 = 1 * l
      OBVIOUS
    <2>. QED
      BY <2>1, <2>2 DEF StandsFor
  <1>2. StandsFor(power(n + 1, x), x * 1, n, l)
    <2>1. n + 1 \in Int /\ 1 \in Int /\ n \in Int
      OBVIOUS
    <2>. QED
      BY <1>1, <2>1, StandsForMultiple
  <1>3. StandsFor(power(r, n), 0, n, l)
    <2>1. PICK t \in Int, c \in Int : c = power(r, l) /\ c = 1 + t * n
      <3>1. PICK t \in Int : power(r, l) = 1 + n * t
        BY DEF Cong
      <3>2. n * t = t * n /\ power(r, l) \in Int
        BY PowerFacts
      <3>. QED
        BY <3>1, <3>2
    <2>2. Cong(power(c, n), 1 + (n * t) * n, n * n)
      <3>1. n \in Int
        OBVIOUS
      <3>2. Cong(power(1 + t * n, n), 1 + (n * t) * n, n * n)
        BY <3>1, PowerOfOnePlus
      <3>. QED
        BY <2>1, <3>2
    <2>3. power(power(r, n), l) = power(c, n)
      <3>1. power(power(r, n), l) = power(r, n * l) /\ power(power(r, l), n) = power(r, l * n)
        BY PowerMultiplies
      <3>2. n * l = l * n
        OBVIOUS
      <3>. QED
        BY <2>1, <3>1, <3>2
    <2>4. PICK w \in Int, s \in Int : w = power(c, n) /\ w = (1 + (n * t) * n) + (n * n) * s
      <3>1. power(c, n) \in Int
        BY <2>1, PowerFacts
      <3>. QED
        BY <2>2, <3>1 DEF Cong
    <2>5. (1 + (n * t) * n) + (n * n) * s = (1 + (0 * l) * n) + (n * n) * (t + s)
      OBVIOUS
    <2>6. Cong(w, 1 + (0 * l) * n, n * n)
      BY <2>4, <2>5 DEF Cong
    <2>. QED
      BY <2>3, <2>4, <2>6 DEF StandsFor
  <1>4. power(n + 1, x) \in Int /\ power(r, n) \in Int /\ x * 1 \in Int /\ 0 \in Int
        /\ n \in Int
    BY PowerFacts
  <1>5. StandsFor(power(n + 1, x) * power(r, n), x * 1 + 0, n, l)
    BY <1>2, <1>3, <1>4, StandsForSum
  <1>6. x * 1 + 0 = x
    OBVIOUS
  <1>. QED
    BY <1>5, <1>6

(* No ciphertext is 0.                                                     *)
LEMMA StandsForNotZero ==
  ASSUME NEW n \in Nat, n >= 2, NEW l \in Nat \ {0}, NEW x \in Int
  PROVE  ~StandsFor(0, x, n, l)
PROOF
  <1>1. power(0, l) = 0
    <2>1. l - 1 \in Nat /\ (l - 1) + 1 = l /\ 0 \in Int
      OBVIOUS
    <2>2. power(0, (l - 1) + 1) = power(0, l - 1) * 0 /\ power(0, l - 1) \in Int
      BY <2>1, PowerFacts
    <2>. QED
      BY <2>1, <2>2
  <1>2. SUFFICES ASSUME StandsFor(0, x, n, l) PROVE FALSE
    OBVIOUS
  <1>3. PICK t \in Int : 0 = (1 + (x * l) * n) + (n * n) * t
    BY <1>1, <1>2 DEF StandsFor, Cong
  <1>4. PICK u \in Int : u = x * l + n * t
    OBVIOUS
  <1>5. (1 + (x * l) * n) + (n * n) * t = 1 + n * (x * l + n * t)
    OBVIOUS
  <1>6. n * u = -1
    BY <1>3, <1>4, <1>5
  <1>7. (u >= 0 => n * u >= 0) /\ (u <= -1 => n * u <= -n)
    OBVIOUS
  <1>. QED
    BY <1>6, <1>7
-----------------------------------------------------------------------------
(* The invariant: what generate_keys has established at each stage, that   *)
(* the key it returns works, and what every ciphertext stands for.         *)

KeyWorks ==
  /\ pub.n \in Nat /\ pub.n >= 2 /\ pub.g = pub.n + 1 /\ pub.n2 = pub.n * pub.n
  /\ full_size(pub.n)
  /\ priv.lambda \in Nat \ {0} /\ priv.mu \in 1..(pub.n - 1)
  /\ ((priv.lambda % pub.n) * priv.mu) % pub.n = 1
  /\ \A r \in 1..(pub.n - 1) : coprime(r, pub.n) => powm(r, priv.lambda, pub.n) = 1

Decryptable(ct) ==
  /\ ct.c \in 1..(pub.n2 - 1) /\ ct.m \in 0..(pub.n - 1)
  /\ powm(ct.c, priv.lambda, pub.n2) = 1 + ((ct.m * priv.lambda) % pub.n) * pub.n

StagesInv ==
  /\ pc \in {"p", "q", "n", "mu", "ready", "r"}
  /\ prime_bits \in PrimeBits /\ m \in Int
  /\ p \in 0..two_to[prime_bits + 1] /\ q \in 0..two_to[prime_bits + 1]
  /\ pc \in {"q", "n", "mu"} => is_prime(p) /\ right_size(p)
  /\ pc \in {"n", "mu"} => is_prime(q) /\ right_size(q) /\ p # q
  /\ pc = "mu" => /\ pub = [n |-> p * q, g |-> p * q + 1, n2 |-> (p * q) * (p * q)]
                  /\ full_size(p * q)
  /\ pc = "r" => in_range(m)

PaillierInv ==
  /\ StagesInv
  /\ pc \in {"ready", "r"} => KeyWorks
  /\ pc \in {"p", "q", "n", "mu"} => cts = {}
  /\ \A ct \in cts : Decryptable(ct)

(* By Bertrand's postulate there is a next prime, with at most one bit     *)
(* more.                                                                   *)
LEMMA NextPrimeFacts ==
  ASSUME NEW b \in PrimeBits, NEW x \in two_to[b - 1]..(two_to[b] - 1)
  PROVE  is_prime(next_prime(x)) /\ next_prime(x) \in 0..two_to[b + 1]
PROOF
  <1>1. b \in Nat /\ b - 1 \in Nat
    BY PaillierAssumption
  <1>2. /\ two_to[b] \in Nat /\ two_to[b + 1] = 2 * two_to[b]
        /\ x \in Nat /\ x <= two_to[b] - 1
    BY <1>1, TwoTo, TwoToPositive
  <1>. DEFINE S == {y \in (x + 1)..(2 * x + 2) : is_prime(y)}
  <1>3. S # {} /\ S \in SUBSET Nat
    BY <1>2, BertrandsPostulate
  <1>4. PICK y \in S : \A z \in S : y <= z
    BY <1>3, LeastElement
  <1>5. ASSUME NEW z \in (x + 1)..(y - 1), is_prime(z) PROVE FALSE
    <2>1. z \in (x + 1)..(2 * x + 2) /\ z < y
      BY <1>2, <1>4
    <2>2. z \in S
      BY <1>5, <2>1
    <2>. QED
      BY <1>2, <1>4, <2>1, <2>2
  <1>6. y \in (x + 1)..(2 * x + 2) /\ is_prime(y)
    BY <1>4
  <1>7. next_prime(x) \in (x + 1)..(2 * x + 2) /\ is_prime(next_prime(x))
    BY <1>5, <1>6 DEF next_prime
  <1>. QED
    BY <1>2, <1>7

(* The first exponentiation of generate_keys leaves lambda itself.         *)
LEMMA LvalIsLambda ==
  ASSUME NEW n \in Nat, n >= 2, NEW l \in Nat
  PROVE  L(powm(n + 1, l, n * n), n) = l % n
PROOF
  <1>1. 1 \in Int /\ n \in Int /\ n + 1 \in Nat
    OBVIOUS
  <1>2. Cong(power(1 + 1 * n, l), 1 + (l * 1) * n, n * n)
    BY <1>1, PowerOfOnePlus
  <1>3. 1 + 1 * n = n + 1 /\ l * 1 = 1 * l /\ 1 * l = l
    OBVIOUS
  <1>4. StandsFor(n + 1, 1, n, l)
    BY <1>2, <1>3 DEF StandsFor
  <1>. QED
    BY <1>1, <1>3, <1>4, StandsForMeans

LEMMA KeyOfPrimes ==
  ASSUME StagesInv, pc = "mu"
  PROVE  /\ pub.n \in Nat /\ pub.n >= 2 /\ pub.g = pub.n + 1 /\ pub.n2 = pub.n * pub.n
         /\ full_size(pub.n)
         /\ lambda \in Nat \ {0}
         /\ \E z \in Int : Cong(lambda * z, 1, pub.n)
         /\ \A r \in Nat \ {0} : coprime(r, pub.n) => Cong(power(r, lambda), 1, pub.n)
PROOF
  <1>1. /\ prime_bits \in Nat /\ prime_bits >= 3
        /\ p \in Nat /\ q \in Nat /\ is_prime(p) /\ is_prime(q) /\ p # q
        /\ sizeinbase2(p) = prime_bits /\ sizeinbase2(q) = prime_bits
    <2>1. prime_bits \in Nat /\ prime_bits >= 3
      BY PaillierAssumption DEF StagesInv
    <2>2. two_to[prime_bits + 1] \in Nat
      BY <2>1, TwoToPositive
    <2>. QED
      BY <2>1, <2>2 DEF StagesInv, right_size
  <1>2. /\ pub.n = p * q /\ pub.g = p * q + 1 /\ pub.n2 = (p * q) * (p * q)
        /\ full_size(p * q)
    BY DEF StagesInv
  <1>3. lambda = lcm(p - 1, q - 1)
    BY DEF lambda, lcm
  <1>4. /\ lambda \in Nat \ {0} /\ pub.n \in Nat /\ pub.n >= 2
        /\ \E z \in Int : Cong(lambda * z, 1, pub.n)
        /\ \A r \in Nat \ {0} : coprime(r, pub.n) => Cong(power(r, lambda), 1, pub.n)
    BY <1>1, <1>2, <1>3, KeyNumbers
  <1>. QED
    BY <1>2, <1>4

(* Line 97 never throws.                                                   *)
LEMMA LambdaIsInvertible ==
  ASSUME StagesInv, pc = "mu"
  PROVE  Lval = lambda % pub.n /\ invertible(Lval, pub.n)
PROOF
  <1>. DEFINE n == pub.n
  <1>1. PICK z \in Int : /\ n \in Nat /\ n >= 2 /\ pub.g = n + 1 /\ pub.n2 = n * n
                         /\ lambda \in Nat /\ Cong(lambda * z, 1, n)
    BY KeyOfPrimes
  <1>2. Lval = lambda % n
    <2>1. Lval = L(powm(n + 1, lambda, n * n), n)
      BY <1>1 DEF Lval
    <2>. HIDE DEF n
    <2>. QED
      BY <1>1, <2>1, LvalIsLambda
  <1>3. PICK y \in Nat, r \in Nat :
          /\ y = lambda % n /\ Cong(y, lambda, n)
          /\ r = z % n /\ r < n /\ Cong(r, z, n)
    <2>. HIDE DEF n
    <2>1. n \in Nat \ {0} /\ lambda \in Int
      BY <1>1
    <2>. QED
      BY <1>1, <2>1, RemainderFacts
  <1>. HIDE DEF n
  <1>4. Cong(y * r, 1, n)
    <2>1. n \in Int /\ lambda \in Int /\ y \in Int /\ r \in Int
      BY <1>1, <1>3
    <2>2. Cong(y * r, lambda * z, n)
      BY <1>3, <2>1, CongMul
    <2>3. y * r \in Int /\ lambda * z \in Int /\ 1 \in Int
      BY <2>1
    <2>. QED
      BY <1>1, <2>1, <2>2, <2>3, CongTrans
  <1>5. (y * r) % n = 1
    <2>1. n \in Nat \ {0} /\ 1 \in Residues(n) /\ y * r \in Int
      BY <1>1, <1>3 DEF Residues
    <2>. QED
      BY <1>4, <2>1, CongOfResidue
  <1>6. r \in Residues(n)
    BY <1>1, <1>3 DEF Residues
  <1>. QED
    BY <1>2, <1>3, <1>5, <1>6 DEF invertible, mod_mul, n
LEMMA PowmIsOne ==
  ASSUME NEW n \in Nat, n >= 2, NEW l \in Nat, NEW r \in Nat
  PROVE  powm(r, l, n) = 1 <=> Cong(power(r, l), 1, n)
PROOF
  <1>1. PICK c \in Int : c = power(r, l) /\ powm(r, l, n) = c % n
    <2>1. power(r, l) \in Int
      BY PowerFacts
    <2>2. powm(r, l, n) = power(r, l) % n
      BY PowmIsPower
    <2>. QED
      BY <2>1, <2>2
  <1>2. 1 % n = 1 /\ n \in Nat \ {0} /\ 1 \in Int
    OBVIOUS
  <1>3. Cong(c, 1, n) <=> c % n = 1 % n
    BY <1>2, CongModulo
  <1>. QED
    BY <1>1, <1>2, <1>3

(* generate_keys returns a key that works.                                 *)
LEMMA KeyIsMade ==
  ASSUME StagesInv, pc = "mu", Invert
  PROVE  KeyWorks'
PROOF
  <1>. DEFINE n == pub.n
  <1>1. /\ n \in Nat /\ n >= 2 /\ pub.g = n + 1 /\ pub.n2 = n * n
        /\ full_size(n) /\ lambda \in Nat \ {0}
        /\ \A r \in Nat \ {0} : coprime(r, n) => Cong(power(r, lambda), 1, n)
    BY KeyOfPrimes
  <1>2. Lval = lambda % n /\ invertible(Lval, n)
    BY LambdaIsInvertible
  <1>. DEFINE u == mod_inv(Lval, n)
  <1>3. /\ pub' = pub /\ prime_bits' = prime_bits
        /\ priv'.lambda = lambda /\ priv'.mu = u
    BY DEF Invert
  <1>4. u \in Residues(n) /\ (Lval * u) % n = 1
    BY <1>2 DEF invertible, mod_inv, mod_mul
  <1>5. u \in 1..(n - 1)
    <2>1. u # 0
      <3>1. ASSUME u = 0 PROVE FALSE
        <4>1. lambda % n \in Int
          BY <1>1
        <4>2. Lval * u = 0
          BY <1>2, <3>1, <4>1
        <4>3. 0 % n = 0
          BY <1>1
        <4>. QED
          BY <1>4, <4>2, <4>3
      <3>. QED
        BY <3>1
    <2>. HIDE DEF u
    <2>. QED
      BY <1>1, <1>4, <2>1 DEF Residues
  <1>6. ASSUME NEW r \in 1..(n - 1), coprime(r, n) PROVE powm(r, lambda, n) = 1
    <2>1. r \in Nat \ {0} /\ lambda \in Nat
      BY <1>1
    <2>. HIDE DEF n
    <2>2. Cong(power(r, lambda), 1, n)
      BY <1>1, <1>6, <2>1
    <2>. QED
      BY <1>1, <2>1, <2>2, PowmIsOne
  <1>7. full_size(n)'
    BY <1>1, <1>3 DEF full_size
  <1>8. pub'.n = n /\ pub'.g = n + 1 /\ pub'.n2 = n * n
    BY <1>1, <1>3
  <1>. HIDE DEF n, u
  <1>9. \A r \in 1..(n - 1) : coprime(r, n) => powm(r, lambda, n) = 1
    BY <1>6
  <1>10. full_size(pub.n)'
    BY <1>7, <1>3 DEF n
  <1>. QED
    BY <1>1, <1>2, <1>3, <1>4, <1>5, <1>8, <1>9, <1>10 DEF KeyWorks

LEMMA KeyFacts ==
  ASSUME KeyWorks, NEW n, n = pub.n, NEW l, l = priv.lambda
  PROVE  /\ n \in Nat /\ n >= 2 /\ n * n \in Nat /\ n * n >= 2
         /\ pub.g = n + 1 /\ pub.n2 = n * n
         /\ l \in Nat /\ l >= 1 /\ priv.mu \in Nat /\ Cong(l * priv.mu, 1, n)
         /\ \A r \in 1..(n - 1) : coprime(r, n) => Cong(power(r, l), 1, n)
PROOF
  <1>1. /\ n \in Nat /\ n >= 2 /\ pub.g = n + 1 /\ pub.n2 = n * n
        /\ l \in Nat \ {0} /\ priv.mu \in 1..(n - 1) /\ ((l % n) * priv.mu) % n = 1
        /\ \A r \in 1..(n - 1) : coprime(r, n) => powm(r, l, n) = 1
    BY DEF KeyWorks
  <1>2. PICK u \in Nat, y \in Nat : u = priv.mu /\ y = l % n /\ Cong(y, l, n)
    <2>1. l \in Int /\ n \in Nat \ {0} /\ priv.mu \in Nat
      BY <1>1
    <2>. QED
      BY <2>1, RemainderFacts
  <1>3. Cong(l * u, 1, n)
    <2>1. n \in Nat \ {0} /\ n \in Int /\ l \in Int
      BY <1>1
    <2>2. Cong(y * u, l * u, n)
      <3>1. y \in Int /\ u \in Int /\ Cong(u, u, n)
        BY <2>1, CongRefl
      <3>. QED
        BY <1>2, <2>1, <3>1, CongMul
    <2>3. y * u \in Int /\ l * u \in Int /\ 1 \in Int
      BY <1>2, <2>1
    <2>4. (y * u) % n = 1 /\ 1 % n = 1
      BY <1>1, <1>2
    <2>5. (y * u) % n = (l * u) % n
      BY <2>1, <2>2, <2>3, CongModulo
    <2>6. (l * u) % n = 1 % n
      BY <2>4, <2>5
    <2>. QED
      BY <2>1, <2>3, <2>6, CongModulo
  <1>4. ASSUME NEW r \in 1..(n - 1), coprime(r, n) PROVE Cong(power(r, l), 1, n)
    <2>1. r \in Nat /\ l \in Nat
      BY <1>1
    <2>. QED
      BY <1>1, <1>4, <2>1, PowmIsOne
  <1>5. n * n \in Nat /\ n * n >= 2
    <2>1. n * n >= 2 * n
      BY <1>1
    <2>2. n * n \in Nat
      BY <1>1
    <2>. QED
      BY <1>1, <2>1, <2>2
  <1>. QED
    BY <1>1, <1>2, <1>3, <1>4, <1>5

LEMMA DecryptableMeans ==
  ASSUME KeyWorks, NEW ct
  PROVE  Decryptable(ct) <=> /\ ct.c \in 1..(pub.n2 - 1) /\ ct.m \in 0..(pub.n - 1)
                             /\ StandsFor(ct.c, ct.m, pub.n, priv.lambda)
PROOF
  <1>1. PICK n \in Nat, l \in Nat : /\ n = pub.n /\ l = priv.lambda /\ n >= 2
                                    /\ pub.n2 = n * n
    BY KeyFacts
  <1>2. ASSUME ct.c \in 1..(pub.n2 - 1), ct.m \in 0..(pub.n - 1)
        PROVE  StandsFor(ct.c, ct.m, n, l)
                 <=> powm(ct.c, l, n * n) = 1 + ((ct.m * l) % n) * n
    <2>1. ct.c \in Nat /\ ct.m \in Int
      BY <1>2
    <2>. QED
      BY <1>1, <2>1, StandsForMeans
  <1>. QED
    BY <1>1, <1>2 DEF Decryptable

(* decrypt returns the plaintext.                                          *)
LEMMA DecryptableDecrypts ==
  ASSUME KeyWorks, NEW ct, Decryptable(ct)
  PROVE  decrypt(ct.c) = ct.m
PROOF
  <1>1. PICK n \in Nat, l \in Nat, u \in Nat :
          /\ n = pub.n /\ l = priv.lambda /\ u = priv.mu /\ n >= 2
          /\ pub.n2 = n * n /\ Cong(l * u, 1, n)
    BY KeyFacts
  <1>2. PICK c \in Nat, x \in Nat : c = ct.c /\ x = ct.m /\ x < n /\ StandsFor(c, x, n, l)
    <2>1. ct.c \in Nat /\ ct.m \in Nat /\ ct.m < n /\ StandsFor(ct.c, ct.m, n, l)
      BY <1>1, DecryptableMeans
    <2>. QED
      BY <2>1
  <1>3. PICK y \in Nat, z \in Int : z = x * l /\ y = z % n /\ Cong(y, z, n)
                                    /\ L(powm(c, l, n * n), n) = y
    <2>1. x * l \in Int /\ n \in Nat \ {0} /\ x \in Int
      BY <1>1
    <2>2. (x * l) % n \in Nat /\ Cong((x * l) % n, x * l, n)
      BY <2>1, RemainderFacts
    <2>3. L(powm(c, l, n * n), n) = (x * l) % n
      <3>1. StandsFor(c, x, n, l)
        BY <1>2
      <3>2. x \in Int /\ n >= 2
        BY <1>1
      <3>. QED
        BY <3>1, <3>2, StandsForMeans, Zenon
    <2>. QED
      BY <2>1, <2>2, <2>3
  <1>4. decrypt(ct.c) = (y * u) % n
    <2>1. decrypt(ct.c) = times(y, u, n)
      BY <1>1, <1>2, <1>3 DEF decrypt
    <2>2. n \in Nat \ {0}
      BY <1>1
    <2>. QED
      BY <2>1, <2>2, TimesIsProduct
  <1>5. Cong(y * u, x, n)
    <2>1. n \in Int /\ u \in Int /\ y \in Int /\ x \in Int
      OBVIOUS
    <2>2. Cong(y * u, z * u, n)
      BY <1>3, <2>1, CongMul, CongRefl
    <2>3. PICK w \in Int : w = l * u
      OBVIOUS
    <2>4. Cong(x * w, x * 1, n)
      <3>1. 1 \in Int /\ Cong(x, x, n) /\ Cong(w, 1, n)
        BY <1>1, <2>1, <2>3, CongRefl
      <3>. QED
        BY <2>1, <3>1, CongMul
    <2>5. z * u = x * w /\ x * 1 = x
      <3>1. (x * l) * u = x * (l * u)
        OBVIOUS
      <3>. QED
        BY <1>3, <2>3, <3>1
    <2>6. y * u \in Int /\ x * w \in Int
      OBVIOUS
    <2>. QED
      BY <2>1, <2>2, <2>4, <2>5, <2>6, CongTrans
  <1>6. (y * u) % n = x
    <2>1. n \in Nat \ {0} /\ y * u \in Int /\ x \in Residues(n)
      BY <1>1, <1>2 DEF Residues
    <2>. QED
      BY <1>5, <2>1, CongOfResidue
  <1>. QED
    BY <1>2, <1>4, <1>6

(* Reduced, what stands for an integer is a ciphertext of its residue.     *)
LEMMA ReducedIsDecryptable ==
  ASSUME KeyWorks, NEW c \in Int, NEW x \in Int, StandsFor(c, x, pub.n, priv.lambda)
  PROVE  Decryptable([c |-> c % pub.n2, m |-> x % pub.n])
PROOF
  <1>1. PICK n \in Nat, l \in Nat, k \in Nat :
          /\ n = pub.n /\ l = priv.lambda /\ n >= 2 /\ l >= 1
          /\ pub.n2 = k /\ k = n * n /\ k >= 2
    BY KeyFacts
  <1>2. n \in Nat \ {0} /\ k \in Nat \ {0} /\ n \in Int /\ k \in Int /\ l \in Nat \ {0}
    BY <1>1
  <1>3. PICK d \in Nat, y \in Nat : /\ d = c % k /\ d < k /\ Cong(d, c, k)
                                    /\ y = x % n /\ y < n /\ Cong(y, x, n)
    BY <1>2, RemainderFacts
  <1>4. StandsFor(d, y, n, l)
    <2>1. Cong(x, y, n) /\ d \in Int /\ y \in Int
      BY <1>2, <1>3, CongSym
    <2>. QED
      BY <1>1, <1>2, <1>3, <2>1, StandsForCong
  <1>5. d # 0
    BY <1>1, <1>2, <1>4, StandsForNotZero
  <1>6. d \in 1..(pub.n2 - 1) /\ y \in 0..(pub.n - 1)
    BY <1>1, <1>3, <1>5
  <1>. QED
    BY <1>1, <1>3, <1>4, <1>6, DecryptableMeans
LEMMA ProductOfRemainders ==
  ASSUME NEW a \in Int, NEW b \in Int, NEW k \in Nat \ {0}
  PROVE  ((a % k) * (b % k)) % k = (a * b) % k
PROOF
  <1>1. PICK x \in Nat, y \in Nat : /\ x = a % k /\ Cong(x, a, k)
                                    /\ y = b % k /\ Cong(y, b, k)
    BY RemainderFacts
  <1>2. x \in Int /\ y \in Int /\ k \in Int
    OBVIOUS
  <1>3. Cong(x * y, a * b, k)
    BY <1>1, <1>2, CongMul
  <1>4. x * y \in Int /\ a * b \in Int
    OBVIOUS
  <1>5. (x * y) % k = (a * b) % k
    BY <1>3, <1>4, CongModulo
  <1>. QED
    BY <1>1, <1>5

LEMMA CiphertextIsProduct ==
  ASSUME KeyWorks, NEW x \in Nat, NEW r \in Nat, NEW n, n = pub.n
  PROVE  /\ power(n + 1, x) \in Nat /\ power(r, n) \in Nat
         /\ ciphertext(x, r) = (power(n + 1, x) * power(r, n)) % pub.n2
PROOF
  <1>1. PICK k \in Nat : /\ pub.n2 = k /\ k >= 2 /\ pub.g = n + 1 /\ n \in Nat
                         /\ n + 1 \in Nat
    BY KeyFacts
  <1>2. PICK a \in Nat, b \in Nat : a = power(n + 1, x) /\ b = power(r, n)
    BY <1>1, PowerPositive
  <1>3. powm(n + 1, x, k) = a % k /\ powm(r, n, k) = b % k
    BY <1>1, <1>2, PowmIsPower
  <1>4. k \in Nat \ {0} /\ a \in Int /\ b \in Int
    BY <1>1
  <1>5. a % k \in Nat /\ b % k \in Nat
    BY <1>4, RemainderFacts
  <1>6. ciphertext(x, r) = times(a % k, b % k, k)
    BY <1>1, <1>3 DEF ciphertext
  <1>7. times(a % k, b % k, k) = ((a % k) * (b % k)) % k
    BY <1>4, <1>5, TimesIsProduct
  <1>8. ((a % k) * (b % k)) % k = (a * b) % k
    BY <1>4, ProductOfRemainders
  <1>. QED
    BY <1>1, <1>2, <1>6, <1>7, <1>8

(* encrypt returns a ciphertext of its argument.                           *)
LEMMA FreshIsDecryptable ==
  ASSUME KeyWorks, NEW x \in Nat, x < pub.n, NEW r \in 1..(pub.n - 1), coprime(r, pub.n)
  PROVE  Decryptable([c |-> ciphertext(x, r), m |-> x])
PROOF
  <1>1. PICK n \in Nat, l \in Nat :
          n = pub.n /\ l = priv.lambda /\ n >= 2 /\ Cong(power(r, l), 1, n)
    <2>1. \A s \in 1..(pub.n - 1) : coprime(s, pub.n) => Cong(power(s, priv.lambda), 1, pub.n)
      BY KeyFacts
    <2>. QED
      BY <2>1, KeyFacts
  <1>2. r \in Nat /\ r \in Int
    BY <1>1
  <1>3. PICK a \in Nat, b \in Nat : /\ a = power(n + 1, x) /\ b = power(r, n)
                                    /\ ciphertext(x, r) = (a * b) % pub.n2
    BY <1>1, <1>2, CiphertextIsProduct
  <1>4. StandsFor(a * b, x, n, l)
    BY <1>1, <1>2, <1>3, StandsForPlaintext
  <1>5. Decryptable([c |-> (a * b) % pub.n2, m |-> x % pub.n])
    <2>1. a * b \in Int /\ x \in Int
      OBVIOUS
    <2>. QED
      BY <1>1, <1>4, <2>1, ReducedIsDecryptable
  <1>6. x % n = x
    BY <1>1
  <1>. QED
    BY <1>1, <1>3, <1>5, <1>6

(* Multiplying ciphertexts adds plaintexts.                                *)
LEMMA SumIsDecryptable ==
  ASSUME KeyWorks, NEW a, NEW b, Decryptable(a), Decryptable(b)
  PROVE  Decryptable([c |-> times(a.c, b.c, pub.n2), m |-> (a.m + b.m) % pub.n])
PROOF
  <1>1. PICK n \in Nat, l \in Nat, k \in Nat :
          n = pub.n /\ l = priv.lambda /\ pub.n2 = k /\ k >= 2
    BY KeyFacts
  <1>2. PICK c \in Nat, x \in Nat : c = a.c /\ x = a.m /\ StandsFor(c, x, n, l)
    BY <1>1, DecryptableMeans
  <1>3. PICK d \in Nat, y \in Nat : d = b.c /\ y = b.m /\ StandsFor(d, y, n, l)
    BY <1>1, DecryptableMeans
  <1>4. /\ c \in Int /\ d \in Int /\ x \in Int /\ y \in Int /\ n \in Int
        /\ c * d \in Int /\ x + y \in Int /\ k \in Nat \ {0}
    BY <1>1
  <1>5. StandsFor(c * d, x + y, n, l)
    BY <1>2, <1>3, <1>4, StandsForSum
  <1>6. Decryptable([c |-> (c * d) % k, m |-> (x + y) % n])
    BY <1>1, <1>4, <1>5, ReducedIsDecryptable
  <1>7. times(c, d, k) = (c * d) % k
    BY <1>4, TimesIsProduct
  <1>. QED
    BY <1>1, <1>2, <1>3, <1>6, <1>7

(* Raising a ciphertext to a power multiplies the plaintext.               *)
LEMMA MultipleIsDecryptable ==
  ASSUME KeyWorks, NEW a, Decryptable(a), NEW j \in Nat
  PROVE  Decryptable([c |-> powm(a.c, j, pub.n2), m |-> (j * a.m) % pub.n])
PROOF
  <1>1. PICK n \in Nat, l \in Nat, k \in Nat :
          n = pub.n /\ l = priv.lambda /\ pub.n2 = k /\ k >= 2
    BY KeyFacts
  <1>2. PICK c \in Nat, x \in Nat : c = a.c /\ x = a.m /\ StandsFor(c, x, n, l)
    BY <1>1, DecryptableMeans
  <1>3. /\ c \in Int /\ x \in Int /\ n \in Int /\ power(c, j) \in Int /\ j * x \in Int
    <2>1. j * x \in Int
      OBVIOUS
    <2>. QED
      BY <2>1, PowerFacts
  <1>4. StandsFor(power(c, j), j * x, n, l)
    BY <1>2, <1>3, StandsForMultiple
  <1>5. Decryptable([c |-> power(c, j) % k, m |-> (j * x) % n])
    BY <1>1, <1>3, <1>4, ReducedIsDecryptable
  <1>6. powm(c, j, k) = power(c, j) % k
    BY <1>1, PowmIsPower
  <1>. QED
    BY <1>1, <1>2, <1>5, <1>6
-----------------------------------------------------------------------------
(* The invariant is one.                                                   *)

LEMMA InitPaillierInv ==
  ASSUME Init
  PROVE  PaillierInv
PROOF
  <1>1. prime_bits \in Nat /\ two_to[prime_bits + 1] \in Nat
    BY PaillierAssumption, TwoToPositive DEF Init
  <1>. QED
    BY <1>1 DEF Init, PaillierInv, StagesInv

(* What the steps of generate_keys leave alone and establish.              *)
LEMMA GenPKeepsInv ==
  ASSUME PaillierInv, NEW x \in Draws, GenP(x)
  PROVE  PaillierInv'
PROOF
  <1>1. is_prime(next_prime(x)) /\ next_prime(x) \in 0..two_to[prime_bits + 1]
    BY NextPrimeFacts DEF Draws, PaillierInv, StagesInv
  <1>. DEFINE y == next_prime(x)
  <1>. HIDE DEF y
  <1>2. /\ pc = "p" /\ p' = y /\ is_prime(y) /\ y \in 0..two_to[prime_bits + 1]
        /\ pc' = IF right_size(p') THEN "q" ELSE "p"
        /\ prime_bits' = prime_bits /\ q' = q /\ m' = m /\ cts' = cts
    BY <1>1 DEF GenP, y
  <1>3. cts = {} /\ m \in Int /\ q \in 0..two_to[prime_bits + 1] /\ prime_bits \in PrimeBits
    BY <1>2 DEF PaillierInv, StagesInv
  <1>4. pc' \in {"p", "q"} /\ (pc' = "q" => right_size(p)')
    BY <1>2 DEF right_size
  <1>5. StagesInv'
    BY <1>2, <1>3, <1>4 DEF StagesInv
  <1>. QED
    BY <1>2, <1>3, <1>4, <1>5 DEF PaillierInv

LEMMA GenQKeepsInv ==
  ASSUME PaillierInv, NEW x \in Draws, GenQ(x)
  PROVE  PaillierInv'
PROOF
  <1>1. is_prime(next_prime(x)) /\ next_prime(x) \in 0..two_to[prime_bits + 1]
    BY NextPrimeFacts DEF Draws, PaillierInv, StagesInv
  <1>. DEFINE y == next_prime(x)
  <1>. HIDE DEF y
  <1>2. /\ pc = "q" /\ q' = y /\ is_prime(y) /\ y \in 0..two_to[prime_bits + 1]
        /\ pc' = IF right_size(q') /\ q' # p THEN "n" ELSE "q"
        /\ prime_bits' = prime_bits /\ p' = p /\ m' = m /\ cts' = cts
    BY <1>1 DEF GenQ, y
  <1>3. /\ cts = {} /\ m \in Int /\ p \in 0..two_to[prime_bits + 1]
        /\ prime_bits \in PrimeBits /\ is_prime(p) /\ right_size(p)
    BY <1>2 DEF PaillierInv, StagesInv
  <1>4. /\ pc' \in {"q", "n"} /\ right_size(p)'
        /\ pc' = "n" => right_size(q)' /\ p' # q'
    BY <1>2, <1>3 DEF right_size
  <1>5. StagesInv'
    BY <1>2, <1>3, <1>4 DEF StagesInv
  <1>. QED
    BY <1>2, <1>3, <1>4, <1>5 DEF PaillierInv

LEMMA TestSizeKeepsInv ==
  ASSUME PaillierInv, TestSize
  PROVE  PaillierInv'
PROOF
  <1>1. /\ pc = "n" /\ UNCHANGED <<prime_bits, p, q, m, cts>>
        /\ \/ /\ full_size(p * q) /\ pc' = "mu"
              /\ pub' = [n |-> p * q, g |-> p * q + 1, n2 |-> (p * q) * (p * q)]
           \/ pc' = "p"
    BY DEF TestSize
  <1>2. /\ cts = {} /\ m \in Int /\ prime_bits \in PrimeBits
        /\ p \in 0..two_to[prime_bits + 1] /\ q \in 0..two_to[prime_bits + 1]
        /\ is_prime(p) /\ right_size(p) /\ is_prime(q) /\ right_size(q) /\ p # q
    BY <1>1 DEF PaillierInv, StagesInv
  <1>3. right_size(p)' /\ right_size(q)'
    BY <1>1, <1>2 DEF right_size
  <1>4. full_size(p * q) => full_size(p * q)'
    BY <1>1 DEF full_size
  <1>5. StagesInv' /\ pc' \in {"p", "mu"}
    BY <1>1, <1>2, <1>3, <1>4 DEF StagesInv
  <1>. QED
    BY <1>1, <1>2, <1>5 DEF PaillierInv

LEMMA InvertKeepsInv ==
  ASSUME PaillierInv, Invert
  PROVE  PaillierInv'
PROOF
  <1>1. /\ pc = "mu" /\ pc' = "ready" /\ p' = 0 /\ q' = 0
        /\ prime_bits' = prime_bits /\ m' = m /\ cts' = cts
    BY DEF Invert
  <1>2. StagesInv /\ cts = {} /\ m \in Int /\ prime_bits \in PrimeBits
    BY <1>1 DEF PaillierInv, StagesInv
  <1>3. KeyWorks'
    BY <1>1, <1>2, KeyIsMade
  <1>4. prime_bits \in Nat /\ two_to[prime_bits + 1] \in Nat
    BY <1>2, PaillierAssumption, TwoToPositive
  <1>5. StagesInv'
    BY <1>1, <1>2, <1>4 DEF StagesInv
  <1>. QED
    BY <1>1, <1>2, <1>3, <1>5 DEF PaillierInv

(* A step between calls or in encrypt changes neither key nor primes.      *)
LEMMA CallKeepsInv ==
  ASSUME PaillierInv, pc \in {"ready", "r"}, pc' \in {"ready", "r"},
         UNCHANGED <<prime_bits, p, q, pub, priv>>, m' \in Int,
         pc' = "r" => in_range(m)', \A ct \in cts' : Decryptable(ct)
  PROVE  PaillierInv'
PROOF
  <1>1. KeyWorks /\ StagesInv
    BY DEF PaillierInv
  <1>2. KeyWorks'
    BY <1>1 DEF KeyWorks, full_size, coprime
  <1>3. StagesInv'
    BY <1>1 DEF StagesInv
  <1>4. (\A ct \in cts : Decryptable(ct))'
    BY DEF Decryptable
  <1>. QED
    BY <1>2, <1>3, <1>4 DEF PaillierInv

LEMMA EncryptKeepsInv ==
  ASSUME PaillierInv, NEW x \in Plaintexts \cup {-1}, Encrypt(x)
  PROVE  PaillierInv'
PROOF
  <1>1. /\ pc = "ready" /\ m' = x /\ UNCHANGED <<prime_bits, p, q, pub, priv, cts>>
        /\ pc' = IF in_range(x) THEN "r" ELSE "ready"
    BY DEF Encrypt
  <1>2. x \in Int
    BY PaillierAssumption
  <1>3. pc' = "r" => in_range(m)'
    BY <1>1 DEF in_range
  <1>4. pc' \in {"ready", "r"} /\ \A ct \in cts' : Decryptable(ct)
    BY <1>1 DEF PaillierInv
  <1>. QED
    BY <1>1, <1>2, <1>3, <1>4, CallKeepsInv

LEMMA PickRKeepsInv ==
  ASSUME PaillierInv, NEW r \in 1..(pub.n - 1), PickR(r)
  PROVE  PaillierInv'
PROOF
  <1>1. /\ pc = "r" /\ pc' = "ready" /\ coprime(r, pub.n)
        /\ cts' = cts \cup {[c |-> ciphertext(m, r), m |-> m]}
        /\ UNCHANGED <<prime_bits, p, q, pub, priv, m>>
    BY DEF PickR
  <1>2. KeyWorks /\ m \in Nat /\ m < pub.n
    BY <1>1 DEF PaillierInv, StagesInv, in_range
  <1>3. Decryptable([c |-> ciphertext(m, r), m |-> m])
    BY <1>1, <1>2, FreshIsDecryptable
  <1>4. \A ct \in cts' : Decryptable(ct)
    BY <1>1, <1>3 DEF PaillierInv
  <1>. QED
    BY <1>1, <1>2, <1>4, CallKeepsInv

LEMMA AddKeepsInv ==
  ASSUME PaillierInv, NEW a \in cts, NEW b \in cts, Add(a, b)
  PROVE  PaillierInv'
PROOF
  <1>. DEFINE ct0 == [c |-> times(a.c, b.c, pub.n2), m |-> (a.m + b.m) % pub.n]
  <1>1. /\ pc = "ready" /\ cts' = cts \cup {ct0}
        /\ UNCHANGED <<pc, prime_bits, p, q, pub, priv, m>>
    BY DEF Add
  <1>2. KeyWorks /\ Decryptable(a) /\ Decryptable(b) /\ m \in Int
    BY <1>1 DEF PaillierInv, StagesInv
  <1>3. Decryptable(ct0)
    BY <1>2, SumIsDecryptable
  <1>. HIDE DEF ct0
  <1>4. \A ct \in cts' : Decryptable(ct)
    BY <1>1, <1>3 DEF PaillierInv
  <1>. QED
    BY <1>1, <1>2, <1>4, CallKeepsInv

LEMMA ScaleKeepsInv ==
  ASSUME PaillierInv, NEW a \in cts, NEW j \in Factors, Scale(a, j)
  PROVE  PaillierInv'
PROOF
  <1>. DEFINE ct0 == [c |-> powm(a.c, j, pub.n2), m |-> (j * a.m) % pub.n]
  <1>1. /\ pc = "ready" /\ cts' = cts \cup {ct0}
        /\ UNCHANGED <<pc, prime_bits, p, q, pub, priv, m>>
    BY DEF Scale
  <1>2. KeyWorks /\ Decryptable(a) /\ m \in Int
    BY <1>1 DEF PaillierInv, StagesInv
  <1>3. j \in Nat
    BY PaillierAssumption
  <1>4. Decryptable(ct0)
    BY <1>2, <1>3, MultipleIsDecryptable
  <1>. HIDE DEF ct0
  <1>5. \A ct \in cts' : Decryptable(ct)
    BY <1>1, <1>4 DEF PaillierInv
  <1>. QED
    BY <1>1, <1>2, <1>5, CallKeepsInv

LEMMA NextPaillierInv ==
  ASSUME PaillierInv, [Next]_vars
  PROVE  PaillierInv'
PROOF
  <1>1. CASE \E x \in Draws : GenP(x) \/ GenQ(x)
    BY <1>1, GenPKeepsInv, GenQKeepsInv
  <1>2. CASE TestSize
    BY <1>2, TestSizeKeepsInv
  <1>3. CASE Invert
    BY <1>3, InvertKeepsInv
  <1>4. CASE \E x \in Plaintexts \cup {-1} : Encrypt(x)
    BY <1>4, EncryptKeepsInv
  <1>5. CASE \E r \in 1..(pub.n - 1) : PickR(r)
    BY <1>5, PickRKeepsInv
  <1>6. CASE \E a, b \in cts : Add(a, b)
    BY <1>6, AddKeepsInv
  <1>7. CASE \E a \in cts, k \in Factors : Scale(a, k)
    BY <1>7, ScaleKeepsInv
  <1>8. CASE UNCHANGED vars
    <2>1. UNCHANGED <<pc, prime_bits, p, q, pub, priv, m, cts>>
      BY <1>8 DEF vars
    <2>. QED
      BY <2>1 DEF PaillierInv, StagesInv, KeyWorks, Decryptable, right_size, full_size,
                  in_range, coprime
  <1>. QED
    BY <1>1, <1>2, <1>3, <1>4, <1>5, <1>6, <1>7, <1>8 DEF Next

(* generate_keys, encrypt and the caller keep the invariant.               *)
THEOREM PaillierInvariant == Spec => []PaillierInv
PROOF
  <1>1. Init => PaillierInv
    BY InitPaillierInv
  <1>2. PaillierInv /\ [Next]_vars => PaillierInv'
    BY NextPaillierInv
  <1>. QED
    BY <1>1, <1>2, PTL DEF Spec

(* Primes, keys and ciphertexts stay in range.                             *)
THEOREM PaillierTypeCorrect == Spec => []TypeOK
PROOF
  <1>1. PaillierInv => TypeOK
    BY DEF PaillierInv, StagesInv, KeyWorks, Decryptable, TypeOK, full_size
  <1>. QED
    BY <1>1, PaillierInvariant, PTL

(* generate_keys never throws "mu inversion failed".                       *)
THEOREM MuAlwaysExists == Spec => []MuExists
PROOF
  <1>1. PaillierInv => MuExists
    BY LambdaIsInvertible DEF PaillierInv, MuExists
  <1>. QED
    BY <1>1, PaillierInvariant, PTL

(* Whatever the caller encrypts, adds and multiplies, decrypt returns the  *)
(* plaintext it stands for.                                                *)
THEOREM AlwaysDecryptsToPlaintext == Spec => []DecryptsToPlaintext
PROOF
  <1>1. ASSUME PaillierInv, NEW ct \in cts PROVE decrypt(ct.c) = ct.m
    <2>1. KeyWorks /\ Decryptable(ct)
      BY <1>1 DEF PaillierInv, StagesInv
    <2>. QED
      BY <2>1, DecryptableDecrypts
  <1>2. PaillierInv => DecryptsToPlaintext
    BY <1>1 DEF DecryptsToPlaintext
  <1>. QED
    BY <1>2, PaillierInvariant, PTL
-----------------------------------------------------------------------------
(* No two encryptions are the same.                                        *)

LEMMA CongOfSquare ==
  ASSUME NEW a \in Int, NEW b \in Int, NEW n \in Int, Cong(a, b, n * n)
  PROVE  Cong(a, b, n)
PROOF
  <1>1. PICK t \in Int : a = b + (n * n) * t
    BY DEF Cong
  <1>2. (n * n) * t = n * (n * t) /\ n * t \in Int
    OBVIOUS
  <1>3. a = b + n * (n * t)
    BY <1>1, <1>2
  <1>. QED
    BY <1>2, <1>3 DEF Cong

(* Some power undoes raising a unit to N.                                  *)
LEMMA UnitsComeBack ==
  ASSUME NEW n \in Nat, n >= 2, NEW l \in Nat, l >= 1, NEW u \in Nat, u < n,
         Cong(l * u, 1, n)
  PROVE  \E j \in Nat : \A r \in Int :
           Cong(power(r, l), 1, n) => Cong(power(power(r, n), j), r, n)
PROOF
  <1>1. PICK t \in Int : l * u = 1 + n * t
    BY DEF Cong
  <1>2. PICK i \in Nat, j \in Int : i = n - u /\ j = l - t
    OBVIOUS
  <1>3. n * j = 1 + l * i
    <2>1. n * (l - t) = l * n - n * t /\ l * (n - u) = l * n - l * u
      OBVIOUS
    <2>2. l * n \in Int /\ n * t \in Int /\ l * u \in Int
      OBVIOUS
    <2>. QED
      BY <1>1, <1>2, <2>1, <2>2
  <1>4. j \in Nat
    <2>1. l * i >= 0
      OBVIOUS
    <2>2. j < 0 => n * j < 0
      OBVIOUS
    <2>3. l * i \in Int /\ n * j \in Int
      OBVIOUS
    <2>. QED
      BY <1>3, <2>1, <2>2, <2>3
  <1>5. ASSUME NEW r \in Int, Cong(power(r, l), 1, n)
        PROVE  Cong(power(power(r, n), j), r, n)
    <2>1. PICK c \in Int : c = power(r, l)
      BY PowerFacts
    <2>2. PICK k \in Nat : k = l * i
      OBVIOUS
    <2>3. power(power(r, n), j) = power(r, k + 1)
      <3>1. power(power(r, n), j) = power(r, n * j)
        BY <1>4, PowerMultiplies
      <3>2. n * j = k + 1
        BY <1>3, <2>2
      <3>. QED
        BY <3>1, <3>2
    <2>4. power(r, k + 1) = power(r, k) * r
      BY PowerFacts
    <2>5. power(r, k) = power(c, i)
      BY <2>1, <2>2, PowerMultiplies
    <2>6. Cong(power(c, i), 1, n)
      <3>1. 1 \in Int /\ n \in Int /\ Cong(c, 1, n)
        BY <1>5, <2>1
      <3>2. Cong(power(c, i), power(1, i), n)
        BY <3>1, PowerCong
      <3>. QED
        BY <3>2, PowerOfOne
    <2>7. Cong(power(c, i) * r, 1 * r, n)
      <3>0. 1 \in Int /\ n \in Int /\ power(c, i) \in Int
        BY PowerFacts
      <3>1. Cong(r, r, n)
        BY <3>0, CongRefl
      <3>. QED
        BY <2>6, <3>0, <3>1, CongMul
    <2>8. 1 * r = r
      OBVIOUS
    <2>. QED
      BY <2>3, <2>4, <2>5, <2>7, <2>8
  <1>. QED
    BY <1>4, <1>5

LEMMA CiphertextsDiffer ==
  ASSUME KeyWorks,
         NEW x \in Nat, x < pub.n, NEW r \in 1..(pub.n - 1), coprime(r, pub.n),
         NEW y \in Nat, y < pub.n, NEW s \in 1..(pub.n - 1), coprime(s, pub.n),
         ciphertext(x, r) = ciphertext(y, s)
  PROVE  x = y /\ r = s
PROOF
  <1>1. x = y
    <2>1. /\ Decryptable([c |-> ciphertext(x, r), m |-> x])
          /\ Decryptable([c |-> ciphertext(y, s), m |-> y])
      BY FreshIsDecryptable
    <2>2. decrypt(ciphertext(x, r)) = x
      BY <2>1, DecryptableDecrypts
    <2>3. decrypt(ciphertext(y, s)) = y
      BY <2>1, DecryptableDecrypts
    <2>. QED
      BY <2>2, <2>3
  <1>2. PICK n \in Nat, l \in Nat, k \in Nat, u \in Nat :
          /\ n = pub.n /\ l = priv.lambda /\ u = priv.mu /\ k = pub.n2
          /\ n >= 2 /\ l >= 1 /\ k >= 2 /\ k = n * n /\ Cong(l * u, 1, n)
    BY KeyFacts
  <1>3. u < n
    BY <1>2 DEF KeyWorks
  <1>4. Cong(power(r, l), 1, n) /\ Cong(power(s, l), 1, n) /\ r \in Int /\ s \in Int
    <2>1. \A i \in 1..(pub.n - 1) : coprime(i, pub.n) => Cong(power(i, priv.lambda), 1, pub.n)
      BY KeyFacts
    <2>. QED
      BY <1>2, <2>1
  <1>5. PICK g \in Nat, a \in Nat, b \in Nat :
          /\ g = power(n + 1, x) /\ a = power(r, n) /\ b = power(s, n)
          /\ (g * a) % k = (g * b) % k
    <2>1. r \in Nat /\ s \in Nat
      OBVIOUS
    <2>2. ASSUME NEW z \in Nat
          PROVE  /\ power(n + 1, x) \in Nat /\ power(z, n) \in Nat
                 /\ ciphertext(x, z) = (power(n + 1, x) * power(z, n)) % k
      <3>1. /\ power(n + 1, x) \in Nat /\ power(z, n) \in Nat
            /\ ciphertext(x, z) = (power(n + 1, x) * power(z, n)) % pub.n2
        BY <1>2, CiphertextIsProduct
      <3>. QED
        BY <1>2, <3>1
    <2>3. ciphertext(x, r) = ciphertext(x, s)
      BY <1>1
    <2>. QED
      BY <2>1, <2>2, <2>3
  <1>6. n \in Int /\ k \in Nat \ {0} /\ g * a \in Int /\ g * b \in Int /\ 1 \in Int
    BY <1>2
  <1>7. Cong(g * a, g * b, n)
    <2>1. PICK c \in Int, d \in Int : c = g * a /\ d = g * b
      BY <1>6
    <2>2. Cong(c, d, k)
      BY <1>5, <1>6, <2>1, CongModulo
    <2>3. Cong(c, d, n)
      BY <1>2, <1>6, <2>2, CongOfSquare
    <2>. QED
      BY <2>1, <2>3
  <1>8. Cong(g, 1, n)
    <2>1. n + 1 = 1 + n * 1 /\ n + 1 \in Int /\ 1 \in Int
      OBVIOUS
    <2>2. Cong(n + 1, 1, n)
      BY <2>1 DEF Cong
    <2>3. Cong(power(n + 1, x), power(1, x), n)
      BY <1>6, <2>1, <2>2, PowerCong
    <2>. QED
      BY <1>5, <2>3, PowerOfOne
  <1>9. Cong(g * a, a, n) /\ Cong(g * b, b, n)
    <2>1. ASSUME NEW c \in Int PROVE Cong(g * c, c, n)
      <3>1. g \in Int /\ Cong(c, c, n)
        BY <1>6, CongRefl
      <3>2. Cong(g * c, 1 * c, n)
        BY <1>6, <1>8, <3>1, CongMul
      <3>3. 1 * c = c
        OBVIOUS
      <3>. QED
        BY <3>2, <3>3
    <2>. QED
      BY <2>1
  <1>10. Cong(a, b, n)
    <2>1. a \in Int /\ b \in Int
      OBVIOUS
    <2>2. Cong(a, g * a, n)
      BY <1>6, <1>9, <2>1, CongSym
    <2>3. Cong(a, g * b, n)
      BY <1>6, <1>7, <2>1, <2>2, CongTrans
    <2>. QED
      BY <1>6, <1>9, <2>1, <2>3, CongTrans
  <1>11. PICK j \in Nat : /\ Cong(power(a, j), r, n) /\ Cong(power(b, j), s, n)
    BY <1>2, <1>3, <1>4, <1>5, UnitsComeBack
  <1>12. Cong(r, s, n)
    <2>0. a \in Int /\ b \in Int
      OBVIOUS
    <2>1. power(a, j) \in Int /\ power(b, j) \in Int
      BY <2>0, PowerFacts
    <2>2. Cong(power(a, j), power(b, j), n)
      BY <1>6, <1>10, <2>0, PowerCong
    <2>3. Cong(r, power(a, j), n)
      BY <1>4, <1>6, <1>11, <2>1, CongSym
    <2>4. Cong(r, power(b, j), n)
      BY <1>4, <1>6, <2>1, <2>2, <2>3, CongTrans
    <2>. QED
      BY <1>4, <1>6, <1>11, <2>1, <2>4, CongTrans
  <1>13. r \in Residues(n) /\ s \in Residues(n)
    BY <1>2 DEF Residues
  <1>. QED
    BY <1>1, <1>12, <1>13, CongResidues

(* An injective function of pairs has as many values as there are pairs.   *)
LEMMA PairsCounted ==
  ASSUME NEW S, NEW T, IsFiniteSet(S), IsFiniteSet(T), NEW f,
         NEW V, V = {f[z] : z \in S \X T},
         \A x, y \in S \X T : f[x] = f[y] => x = y
  PROVE  Cardinality(V) = Cardinality(S) * Cardinality(T)
PROOF
  <1>. DEFINE h == [z \in S \X T |-> f[z]]
  <1>1. h \in [S \X T -> V] /\ (\A x, y \in S \X T : h[x] = h[y] => x = y)
        /\ (\A v \in V : \E z \in S \X T : h[z] = v)
    OBVIOUS
  <1>. HIDE DEF h
  <1>2. h \in Bijection(S \X T, V)
    BY <1>1 DEF Bijection, Injection, Surjection, IsInjective
  <1>3. IsFiniteSet(S \X T) /\ Cardinality(S \X T) = Cardinality(S) * Cardinality(T)
    BY FS_Product
  <1>4. Cardinality(V) = Cardinality(S \X T)
    BY <1>2, <1>3, FS_Bijection DEF ExistsBijection
  <1>. QED
    BY <1>3, <1>4

(* encrypt is injective in plaintext and unit together: it spreads each    *)
(* plaintext over as many ciphertexts as any other.                        *)
THEOREM EncryptionAlwaysInjective == Spec => []EncryptionIsInjective
PROOF
  <1>1. ASSUME PaillierInv, pc = "r" PROVE EncryptionIsInjective
    <2>. DEFINE units  == {r \in 1..(pub.n - 1) : coprime(r, pub.n)}
                inputs == {x \in Plaintexts : in_range(x)}
                V == {ciphertext(x, r) : x \in inputs, r \in units}
                f == [z \in inputs \X units |-> ciphertext(z[1], z[2])]
    <2>1. KeyWorks /\ pub.n \in Nat
      BY <1>1 DEF PaillierInv, KeyWorks
    <2>2. \A x \in inputs : x \in Nat /\ x < pub.n
      BY PaillierAssumption DEF in_range
    <2>3. IsFiniteSet(units)
      <3>1. IsFiniteSet(1..(pub.n - 1))
        BY <2>1, FS_Interval
      <3>. QED
        BY <3>1, FS_Subset
    <2>4. IsFiniteSet(inputs)
      <3>1. IsFiniteSet(0..(pub.n - 1))
        BY <2>1, FS_Interval
      <3>2. inputs \subseteq 0..(pub.n - 1)
        BY <2>1, <2>2
      <3>. QED
        BY <3>1, <3>2, FS_Subset
    <2>5. ASSUME NEW z \in inputs \X units, NEW w \in inputs \X units, f[z] = f[w]
          PROVE  z = w
      <3>1. PICK x \in inputs, r \in units : z = <<x, r>>
        OBVIOUS
      <3>2. PICK y \in inputs, s \in units : w = <<y, s>>
        OBVIOUS
      <3>3. ciphertext(x, r) = ciphertext(y, s)
        BY <2>5, <3>1, <3>2
      <3>4. x = y /\ r = s
        <4>1. /\ x \in Nat /\ x < pub.n /\ y \in Nat /\ y < pub.n
              /\ r \in 1..(pub.n - 1) /\ coprime(r, pub.n)
              /\ s \in 1..(pub.n - 1) /\ coprime(s, pub.n)
          BY <2>2
        <4>. QED
          BY <2>1, <3>3, <4>1, CiphertextsDiffer
      <3>. QED
        BY <3>1, <3>2, <3>4
    <2>. HIDE DEF units, inputs
    <2>6. V = {f[z] : z \in inputs \X units}
      <3>. DEFINE c(x, r) == ciphertext(x, r)
      <3>1. f = [z \in inputs \X units |-> c(z[1], z[2])]
            /\ V = {c(x, r) : x \in inputs, r \in units}
        OBVIOUS
      <3>. HIDE DEF c, f, V
      <3>2. \A x \in inputs, r \in units : f[<<x, r>>] = c(x, r)
        BY <3>1
      <3>3. ASSUME NEW v \in V PROVE v \in {f[z] : z \in inputs \X units}
        <4>1. PICK x \in inputs, r \in units : v = c(x, r)
          BY <3>1, <3>3
        <4>2. <<x, r>> \in inputs \X units /\ v = f[<<x, r>>]
          BY <3>2, <4>1
        <4>. QED
          BY <4>2
      <3>4. ASSUME NEW z \in inputs \X units PROVE f[z] \in V
        <4>1. PICK x \in inputs, r \in units : z = <<x, r>>
          OBVIOUS
        <4>2. f[z] = c(x, r)
          BY <3>2, <4>1
        <4>. QED
          BY <3>1, <4>2
      <3>. QED
        BY <3>3, <3>4
    <2>. HIDE DEF V, f
    <2>7. Cardinality(V) = Cardinality(inputs) * Cardinality(units)
      BY <2>3, <2>4, <2>5, <2>6, PairsCounted
    <2>. QED
      BY <2>7 DEF EncryptionIsInjective, V, inputs, units
  <1>2. PaillierInv => EncryptionIsInjective
    BY <1>1 DEF EncryptionIsInjective
  <1>. QED
    BY <1>2, PaillierInvariant, PTL
=============================================================================
