-------------------------- MODULE Rfc6979Theorems --------------------------
(***************************************************************************)
(* derive_nonce for every order, every size of octet, block and hash, and  *)
(* every HMAC: its invariants, and that it is a function of its arguments. *)
(***************************************************************************)
EXTENDS Rfc6979, ArithmeticTheorems, SequenceTheorems

-----------------------------------------------------------------------------
(* Octets *)

radix == two_to[OctetBits]

LEMMA Parameters ==
  /\ OctetBits \in Nat \ {0} /\ LengthOctets \in Nat \ {0}
  /\ BlockOctets \in Nat \ {0} /\ BlockOctets > LengthOctets
  /\ HashOctets \in 1..BlockOctets /\ HashOctets \in Nat
BY Sha256Assumption, Rfc6979Assumption

LEMMA OctetFacts ==
  /\ radix \in Nat \ {0} /\ radix >= 2
  /\ Octets = 0..(radix - 1)
  /\ 0 \in Octets /\ 1 \in Octets
  /\ two_to[OctetBits - 1] \in Octets /\ two_to[OctetBits - 1] # 0
<1>1. OctetBits - 1 \in Nat /\ OctetBits \in Nat /\ OctetBits - 1 < OctetBits
  BY Parameters
<1>2. /\ 2 * two_to[OctetBits - 1] <= radix
      /\ two_to[OctetBits - 1] \in Nat /\ two_to[OctetBits - 1] >= 1 /\ radix \in Nat
  BY <1>1, TwoToGrows, TwoToPositive DEF radix
<1>3. QED
  BY <1>2 DEF Octets, radix

LEMMA BigEndianType ==
  ASSUME NEW x \in Nat, NEW len \in Nat
  PROVE  /\ big_endian(x, len) \in [1..len -> Octets]
         /\ big_endian(x, len) \in Seq(Octets)
         /\ Len(big_endian(x, len)) = len
<1>1. ASSUME NEW i \in 1..len
      PROVE  (x \div two_to[OctetBits * (len - i)]) % radix \in Octets
  <2>1. OctetBits * (len - i) \in Nat
    <3>1. len - i \in Nat /\ OctetBits \in Nat
      BY Parameters
    <3>2. QED
      BY <3>1
  <2>2. PICK m \in Nat \ {0} : m = two_to[OctetBits * (len - i)]
    BY <2>1, TwoToPositive
  <2>3. x \div m \in Int
    OBVIOUS
  <2>4. QED
    BY <2>2, <2>3, OctetFacts
<1>2. big_endian(x, len) \in [1..len -> Octets]
  BY <1>1 DEF big_endian, radix
<1>3. QED
  BY <1>2

LEMMA BigEndianInjective ==
  ASSUME NEW len \in Nat, NEW x \in Nat, NEW y \in Nat,
         x < two_to[OctetBits * len], y < two_to[OctetBits * len],
         big_endian(x, len) = big_endian(y, len)
  PROVE  x = y
<1> DEFINE power(j) == two_to[OctetBits * j]
           J == {j \in Nat : j <= len => x % power(j) = y % power(j)}
<1>1. \A j \in Nat : OctetBits * j \in Nat /\ power(j) \in Nat \ {0}
  BY Parameters, TwoToPositive
<1>2. 0 \in J
  <2>1. OctetBits * 0 = 0
    BY Parameters
  <2>2. power(0) = 1
    BY <2>1, TwoTo
  <2>3. x % 1 = 0 /\ y % 1 = 0
    OBVIOUS
  <2>4. QED
    BY <2>2, <2>3
<1>3. ASSUME NEW j \in Nat, j \in J PROVE j + 1 \in J
  <2>1. SUFFICES ASSUME j + 1 <= len PROVE x % power(j + 1) = y % power(j + 1)
    OBVIOUS
  <2>2. power(j + 1) = power(j) * radix
    <3>1. OctetBits * (j + 1) = OctetBits * j + OctetBits /\ OctetBits \in Nat
      BY Parameters
    <3>2. QED
      BY <1>1, <3>1, TwoToSum DEF radix
  <2>3. (x \div power(j)) % radix = (y \div power(j)) % radix
    <3>1. len - j \in 1..len /\ len - (len - j) = j
      BY <2>1
    <3>2. big_endian(x, len)[len - j] = big_endian(y, len)[len - j]
      OBVIOUS
    <3>3. QED
      BY <3>1, <3>2 DEF big_endian, radix
  <2>4. x % power(j) = y % power(j)
    BY <1>3, <2>1
  <2> HIDE DEF power
  <2>5. power(j) \in Nat \ {0} /\ radix \in Nat \ {0}
    BY <1>1, OctetFacts, Zenon
  <2>6. x % (power(j) * radix) = power(j) * ((x \div power(j)) % radix) + (x % power(j))
    BY <2>5, NestedQuotients
  <2>7. y % (power(j) * radix) = power(j) * ((y \div power(j)) % radix) + (y % power(j))
    BY <2>5, NestedQuotients
  <2>8. QED
    BY <2>2, <2>3, <2>4, <2>6, <2>7
<1>4. Nat \subseteq J
  <2> HIDE DEF J
  <2> QED
    BY <1>2, <1>3, SetInduction
<1>5. x % power(len) = y % power(len)
  BY <1>4
<1>6. \A m \in Nat \ {0}, v \in Nat : v < m => v % m = v
  <2> SUFFICES ASSUME NEW m \in Nat \ {0}, NEW v \in Nat, v < m PROVE v % m = v
    OBVIOUS
  <2>1. v = m * 0 + v /\ v \in 0..(m - 1)
    OBVIOUS
  <2>2. QED
    BY <2>1, QuotientAndRest
<1>7. x % power(len) = x /\ y % power(len) = y
  BY <1>1, <1>6
<1>8. QED
  BY <1>5, <1>7

-----------------------------------------------------------------------------
(* What HMAC hashes *)

mark == two_to[OctetBits - 1]

(* c is a followed by b. *)
Joins(c, a, b, S) ==
  /\ c \in Seq(S) /\ Len(c) = Len(a) + Len(b) /\ Len(a) \in Nat /\ Len(b) \in Nat
  /\ \A i \in 1..Len(a) : c[i] = a[i]
  /\ \A i \in 1..Len(b) : c[Len(a) + i] = b[i]

LEMMA ConcatJoins ==
  ASSUME NEW S, NEW a \in Seq(S), NEW b \in Seq(S)
  PROVE  Joins(a \o b, a, b, S)
<1>1. Len(a) \in Nat /\ Len(b) \in Nat
  OBVIOUS
<1>2. /\ a \o b \in Seq(S) /\ Len(a \o b) = Len(a) + Len(b)
      /\ \A i \in 1..(Len(a) + Len(b)) :
           (a \o b)[i] = IF i <= Len(a) THEN a[i] ELSE b[i - Len(a)]
  BY ConcatProperties
<1>3. ASSUME NEW i \in 1..Len(a) PROVE (a \o b)[i] = a[i]
  BY <1>1, <1>2
<1>4. ASSUME NEW i \in 1..Len(b) PROVE (a \o b)[Len(a) + i] = b[i]
  <2>1. /\ Len(a) + i \in 1..(Len(a) + Len(b)) /\ ~(Len(a) + i <= Len(a))
        /\ (Len(a) + i) - Len(a) = i
    BY <1>1
  <2>2. QED
    BY <1>2, <2>1
<1>5. QED
  BY <1>1, <1>2, <1>3, <1>4 DEF Joins

LEMMA FillExists ==
  ASSUME NEW l \in Nat
  PROVE  \E c \in 0..(BlockOctets - 1) : (l + c + LengthOctets) % BlockOctets = 0
<1> DEFINE u == (l + LengthOctets) \div BlockOctets
           r == (l + LengthOctets) % BlockOctets
<1>0. BlockOctets \in Nat \ {0} /\ LengthOctets \in Nat
  BY Parameters
<1>1. u \in Int /\ r \in 0..(BlockOctets - 1) /\ l + LengthOctets = BlockOctets * u + r
  BY <1>0
<1> HIDE DEF u, r
<1>2. CASE r = 0
  <2>1. l + 0 + LengthOctets = BlockOctets * u + 0 /\ 0 \in 0..(BlockOctets - 1)
    BY <1>0, <1>1, <1>2
  <2>2. (l + 0 + LengthOctets) % BlockOctets = 0
    <3> DEFINE x == l + 0 + LengthOctets
    <3>1. x \in Int /\ x = BlockOctets * u + 0
      BY <1>0, <2>1
    <3> HIDE DEF x
    <3>2. x % BlockOctets = 0
      BY <1>0, <1>1, <2>1, <3>1, QuotientAndRest
    <3>3. QED
      BY <3>2 DEF x
  <2>3. QED
    BY <2>1, <2>2
<1>3. CASE r # 0
  <2> DEFINE c == BlockOctets - r
  <2>1. c \in 0..(BlockOctets - 1) /\ 0 \in 0..(BlockOctets - 1)
    BY <1>0, <1>1, <1>3
  <2>2. l + c + LengthOctets = BlockOctets * (u + 1) + 0
    <3>1. BlockOctets * (u + 1) = BlockOctets * u + BlockOctets
      BY <1>0, <1>1
    <3>2. QED
      BY <1>0, <1>1, <3>1
  <2>3. (l + c + LengthOctets) % BlockOctets = 0
    <3>1. u + 1 \in Int /\ l + c + LengthOctets \in Int
      BY <1>0, <1>1, <2>1
    <3> HIDE DEF c
    <3>2. QED
      BY <1>0, <2>1, <2>2, <3>1, QuotientAndRest
  <2>4. QED
    BY <2>1, <2>3
<1>4. QED
  BY <1>2, <1>3

(* A message, the mark, zeros and eight octets more, to whole blocks.      *)
LEMMA PaddedLayout ==
  ASSUME NEW data \in Seq(Octets)
  PROVE  /\ padded(data) \in Seq(Octets)
         /\ Len(padded(data)) % BlockOctets = 0
         /\ \E fill \in Nat :
              /\ Len(padded(data)) = Len(data) + 1 + fill + LengthOctets
              /\ \A i \in 1..Len(data) : padded(data)[i] = data[i]
              /\ padded(data)[Len(data) + 1] = mark
              /\ \A i \in (Len(data) + 2)..(Len(data) + 1 + fill) : padded(data)[i] = 0
<1> DEFINE fill == CHOOSE c \in 0..(BlockOctets - 1) :
                     (Len(marked(data)) + c + LengthOctets) % BlockOctets = 0
           tail == big_endian(bitlen(data), LengthOctets)
<1>1. /\ marked(data) = Append(data, mark)
      /\ marked(data) \in Seq(Octets) /\ Len(marked(data)) = Len(data) + 1
      /\ Len(marked(data)) \in Nat /\ Len(data) \in Nat
  BY OctetFacts DEF marked, mark
<1>2. /\ fill \in 0..(BlockOctets - 1) /\ fill \in Nat
      /\ (Len(marked(data)) + fill + LengthOctets) % BlockOctets = 0
  <2>1. \E c \in 0..(BlockOctets - 1) :
          (Len(marked(data)) + c + LengthOctets) % BlockOctets = 0
    BY <1>1, FillExists
  <2>2. /\ fill \in 0..(BlockOctets - 1)
        /\ (Len(marked(data)) + fill + LengthOctets) % BlockOctets = 0
    BY <2>1, Zenon
  <2> HIDE DEF fill
  <2>3. fill \in Nat
    BY <2>2, Parameters
  <2>4. QED
    BY <2>2, <2>3
<1>3. tail \in Seq(Octets) /\ Len(tail) = LengthOctets /\ LengthOctets \in Nat
  <2>1. bitlen(data) \in Nat
    <3>1. OctetBits * LengthOctets \in Nat /\ Len(data) * OctetBits \in Nat
      BY <1>1, Parameters
    <3>2. PICK m \in Nat \ {0} : m = two_to[OctetBits * LengthOctets]
      BY <3>1, TwoToPositive
    <3>3. \A v \in Nat : v % m \in Nat
      OBVIOUS
    <3>4. QED
      BY <3>1, <3>2, <3>3 DEF bitlen
  <2>2. QED
    BY <2>1, BigEndianType, Parameters
<1>4. padded(data) = (marked(data) \o zeros(fill)) \o tail
  BY DEF padded
<1> HIDE DEF fill, tail
<1>5. /\ zeros(fill) \in Seq(Octets) /\ Len(zeros(fill)) = fill
      /\ \A i \in 1..fill : zeros(fill)[i] = 0
  BY <1>2, OctetFacts DEF zeros
<1>6. QED
  <2> DEFINE front == marked(data) \o zeros(fill)
  <2>1. /\ front \in Seq(Octets) /\ Len(front) = Len(data) + 1 + fill
        /\ \A i \in 1..(Len(data) + 1) : front[i] = marked(data)[i]
        /\ \A i \in (Len(data) + 2)..(Len(data) + 1 + fill) : front[i] = 0
    <3>0. Joins(front, marked(data), zeros(fill), Octets)
      BY <1>1, <1>5, ConcatJoins
    <3> HIDE DEF front
    <3>1. /\ front \in Seq(Octets) /\ Len(front) = Len(marked(data)) + Len(zeros(fill))
          /\ \A i \in 1..Len(marked(data)) : front[i] = marked(data)[i]
          /\ \A i \in 1..Len(zeros(fill)) :
               front[Len(marked(data)) + i] = zeros(fill)[i]
      BY <3>0 DEF Joins
    <3>2. ASSUME NEW i \in (Len(data) + 2)..(Len(data) + 1 + fill)
          PROVE  front[i] = 0
      <4>1. i - Len(marked(data)) \in 1..fill
            /\ Len(marked(data)) + (i - Len(marked(data))) = i
        BY <1>1, <1>2
      <4>2. QED
        BY <1>5, <3>1, <4>1
    <3>3. QED
      BY <1>1, <1>2, <1>5, <3>1, <3>2
  <2> HIDE DEF front
  <2>2. padded(data) = front \o tail
    BY <1>4 DEF front
  <2>3. /\ padded(data) \in Seq(Octets)
        /\ Len(padded(data)) = Len(data) + 1 + fill + LengthOctets
        /\ \A i \in 1..(Len(data) + 1 + fill) : padded(data)[i] = front[i]
    <3>1. /\ front \o tail \in Seq(Octets) /\ Len(front \o tail) = Len(front) + Len(tail)
          /\ \A i \in 1..Len(front) : (front \o tail)[i] = front[i]
      BY <1>3, <2>1, ConcatJoins DEF Joins
    <3>2. QED
      BY <1>3, <2>1, <2>2, <3>1
  <2>4. \A i \in 1..Len(data) : marked(data)[i] = data[i]
    BY <1>1, OctetFacts DEF mark
  <2>5. marked(data)[Len(data) + 1] = mark
    BY <1>1
  <2>6. Len(padded(data)) % BlockOctets = 0
    BY <1>1, <1>2, <2>3
  <2>7. ASSUME NEW i \in 1..Len(data) PROVE padded(data)[i] = data[i]
    <3>1. i \in 1..(Len(data) + 1) /\ i \in 1..(Len(data) + 1 + fill)
      BY <1>1, <1>2
    <3>2. QED
      BY <2>1, <2>3, <2>4, <3>1
  <2>8. padded(data)[Len(data) + 1] = mark
    BY <1>1, <1>2, <2>1, <2>3, <2>5
  <2>9. \A i \in (Len(data) + 2)..(Len(data) + 1 + fill) : padded(data)[i] = 0
    BY <1>1, <1>2, <2>1, <2>3
  <2>10. QED
    BY <1>2, <2>3, <2>6, <2>7, <2>8, <2>9

(* The mark is the last octet before the length that is not zero.          *)
LEMMA PaddedInjective ==
  ASSUME NEW a \in Seq(Octets), NEW b \in Seq(Octets), padded(a) = padded(b)
  PROVE  a = b
<1>1. PICK f \in Nat :
        /\ Len(padded(a)) = Len(a) + 1 + f + LengthOctets
        /\ \A i \in 1..Len(a) : padded(a)[i] = a[i]
        /\ padded(a)[Len(a) + 1] = mark
        /\ \A i \in (Len(a) + 2)..(Len(a) + 1 + f) : padded(a)[i] = 0
  BY PaddedLayout
<1>2. PICK g \in Nat :
        /\ Len(padded(b)) = Len(b) + 1 + g + LengthOctets
        /\ \A i \in 1..Len(b) : padded(b)[i] = b[i]
        /\ padded(b)[Len(b) + 1] = mark
        /\ \A i \in (Len(b) + 2)..(Len(b) + 1 + g) : padded(b)[i] = 0
  BY PaddedLayout
<1>3. /\ Len(a) \in Nat /\ Len(b) \in Nat /\ LengthOctets \in Nat
      /\ Len(a) + f = Len(b) + g
  BY <1>1, <1>2, Parameters
<1>4. mark # 0
  BY OctetFacts DEF mark
<1>5. ~(Len(a) < Len(b))
  <2> SUFFICES ASSUME Len(a) < Len(b) PROVE FALSE
    OBVIOUS
  <2>1. Len(b) + 1 \in (Len(a) + 2)..(Len(a) + 1 + f)
    BY <1>3
  <2>2. QED
    BY <1>1, <1>2, <1>4, <2>1
<1>6. ~(Len(b) < Len(a))
  <2> SUFFICES ASSUME Len(b) < Len(a) PROVE FALSE
    OBVIOUS
  <2>1. Len(a) + 1 \in (Len(b) + 2)..(Len(b) + 1 + g)
    BY <1>3
  <2>2. QED
    BY <1>1, <1>2, <1>4, <2>1
<1>7. Len(a) = Len(b)
  BY <1>3, <1>5, <1>6
<1>8. \A i \in 1..Len(a) : a[i] = b[i]
  BY <1>1, <1>2, <1>7
<1>9. QED
  BY <1>7, <1>8

LEMMA ConcatCancel ==
  ASSUME NEW a \in Seq(Octets), NEW b \in Seq(Octets),
         NEW c \in Seq(Octets), NEW e \in Seq(Octets),
         Len(a) = Len(c), a \o b = c \o e
  PROVE  a = c /\ b = e
<1> DEFINE w == a \o b
<1>1. Joins(w, a, b, Octets) /\ Joins(w, c, e, Octets)
  <2>1. Joins(a \o b, a, b, Octets)
    BY ConcatJoins
  <2>2. Joins(c \o e, c, e, Octets)
    BY ConcatJoins
  <2>3. QED
    BY <2>1, <2>2
<1> HIDE DEF w
<1>2. Len(b) = Len(e) /\ \A i \in 1..Len(a) : a[i] = c[i]
  BY <1>1 DEF Joins
<1>5. \A i \in 1..Len(b) : b[i] = e[i]
  BY <1>1, <1>2 DEF Joins
<1>6. a = c
  BY <1>2, SeqEqual
<1>7. b = e
  BY <1>2, <1>5, SeqEqual
<1>8. QED
  BY <1>6, <1>7

LEMMA KeyBlock ==
  ASSUME NEW key \in Hashes
  PROVE  /\ key_block(key) \in Seq(Octets) /\ Len(key_block(key)) = BlockOctets
         /\ \A i \in 1..HashOctets : key_block(key)[i] = key[i]
<1>1. key \in Seq(Octets) /\ Len(key) = HashOctets
  BY Parameters DEF Hashes
<1>2. BlockOctets - HashOctets \in Nat /\ HashOctets \in Nat
  BY Parameters
<1>3. zeros(BlockOctets - Len(key)) \in Seq(Octets)
      /\ Len(zeros(BlockOctets - Len(key))) = BlockOctets - HashOctets
  BY <1>1, <1>2, OctetFacts DEF zeros
<1>4. QED
  <2> DEFINE rest == zeros(BlockOctets - Len(key))
  <2>1. /\ key \o rest \in Seq(Octets) /\ Len(key \o rest) = Len(key) + Len(rest)
        /\ \A i \in 1..Len(key) : (key \o rest)[i] = key[i]
    BY <1>1, <1>3, ConcatJoins DEF Joins
  <2>2. key_block(key) = key \o rest
    BY DEF key_block
  <2> HIDE DEF rest
  <2>3. Len(rest) = BlockOctets - HashOctets
    BY <1>3 DEF rest
  <2>4. Len(key \o rest) = BlockOctets
    BY <1>1, <1>2, <2>1, <2>3, Parameters
  <2>5. QED
    BY <1>1, <2>1, <2>2, <2>4

LEMMA InnerType ==
  ASSUME NEW key \in Hashes, NEW msg \in Seq(Octets)
  PROVE  inner(key, msg) \in Seq(Octets) /\ Len(inner(key, msg)) % BlockOctets = 0
<1>1. key_block(key) \o msg \in Seq(Octets)
  BY KeyBlock
<1>2. QED
  BY <1>1, PaddedLayout DEF inner

(* HMACs of different keys or messages hash different blocks.              *)
LEMMA InnerInjective ==
  ASSUME NEW j \in Hashes, NEW k \in Hashes,
         NEW m \in Seq(Octets), NEW o \in Seq(Octets), inner(j, m) = inner(k, o)
  PROVE  j = k /\ m = o
<1>1. /\ key_block(j) \o m \in Seq(Octets) /\ key_block(k) \o o \in Seq(Octets)
      /\ key_block(j) \in Seq(Octets) /\ key_block(k) \in Seq(Octets)
      /\ Len(key_block(j)) = BlockOctets /\ Len(key_block(k)) = BlockOctets
  BY KeyBlock
<1>2. key_block(j) \o m = key_block(k) \o o
  BY <1>1, PaddedInjective DEF inner
<1>3. key_block(j) = key_block(k) /\ m = o
  BY <1>1, <1>2, ConcatCancel
<1>4. \A i \in 1..HashOctets : j[i] = k[i]
  <2>1. \A i \in 1..HashOctets : key_block(j)[i] = j[i]
    BY KeyBlock
  <2>2. \A i \in 1..HashOctets : key_block(k)[i] = k[i]
    BY KeyBlock
  <2>3. QED
    BY <1>3, <2>1, <2>2
<1>5. j = k
  <2>1. j = [i \in 1..HashOctets |-> j[i]] /\ k = [i \in 1..HashOctets |-> k[i]]
    BY DEF Hashes
  <2>2. QED
    BY <1>4, <2>1
<1>6. QED
  BY <1>3, <1>5

-----------------------------------------------------------------------------
(* Integers from octets *)

(* The values of the first octets of s. *)
Prefixes(value, s) ==
  /\ value \in [0..Len(s) -> Nat] /\ value[0] = 0
  /\ \A i \in 1..Len(s) : value[i] = value[i - 1] * radix + s[i]

LEMMA OctetsToInt ==
  ASSUME NEW s \in Seq(Octets)
  PROVE  \E value : Prefixes(value, s) /\ octets_to_int(s) = value[Len(s)]
<1> DEFINE octet(i) == IF i \in 1..Len(s) THEN s[i] ELSE 0
           g == [t \in Nat \X Nat |-> t[2] * radix + octet(t[1] + 1)]
           Value(v) == v = [i \in 0..Len(s) |->
                              IF i = 0 THEN 0 ELSE v[i - 1] * two_to[OctetBits] + s[i]]
           value == CHOOSE v : Value(v)
<1>1. Len(s) \in Nat /\ radix \in Nat /\ \A i \in Nat : octet(i) \in Nat
  <2>1. \A i \in 1..Len(s) : s[i] \in Octets
    OBVIOUS
  <2>2. QED
    BY <2>1, OctetFacts
<1>2. g \in StepsOn(Nat) /\ \A i, x \in Nat : g[<<i, x>>] = x * radix + octet(i + 1)
  <2> HIDE DEF octet
  <2>1. ASSUME NEW i \in Nat, NEW x \in Nat PROVE x * radix + octet(i + 1) \in Nat
    <3>1. octet(i + 1) \in Nat
      BY <1>1
    <3>2. \A a, b, c \in Nat : a * b + c \in Nat
      OBVIOUS
    <3>3. QED
      BY <1>1, <3>1, <3>2, Zenon
  <2>2. \A t \in Nat \X Nat : t[2] * radix + octet(t[1] + 1) \in Nat
    BY <2>1
  <2>3. QED
    BY <2>2 DEF StepsOn
<1> HIDE DEF g
<1>3. PICK f \in [0..Len(s) -> Nat] : Recursive(f, 0, g, 0..Len(s))
  BY <1>1, <1>2, RecursionUpTo
<1>4. ASSUME NEW i \in 1..Len(s) PROVE f[i] = f[i - 1] * radix + s[i]
  <2>1. i \in 0..Len(s) /\ i # 0 /\ i - 1 \in Nat /\ (i - 1) + 1 = i
        /\ i - 1 \in 0..Len(s)
    BY <1>1
  <2>2. f[i] = g[<<i - 1, f[i - 1]>>] /\ f[i - 1] \in Nat
    BY <1>3, <2>1 DEF Recursive
  <2>3. QED
    BY <1>2, <2>1, <2>2
<1>5. f[0] = 0 /\ 0 \in 0..Len(s)
  BY <1>1, <1>3 DEF Recursive
<1>6. Value(f)
  <2>1. f = [i \in 0..Len(s) |-> f[i]]
    OBVIOUS
  <2>2. \A i \in 0..Len(s) : i # 0 => i \in 1..Len(s)
    BY <1>1
  <2>3. QED
    BY <1>4, <1>5, <2>1, <2>2 DEF radix
<1>7. Value(value)
  <2> HIDE DEF Value
  <2> QED
    BY <1>6
<1>8. octets_to_int(s) = value[Len(s)]
  BY DEF octets_to_int
<1> HIDE DEF value
<1>9. /\ DOMAIN value = 0..Len(s) /\ value[0] = 0
      /\ \A i \in 1..Len(s) : value[i] = value[i - 1] * radix + s[i]
      /\ value = [i \in 0..Len(s) |-> value[i]]
  <2> DEFINE body(i) == IF i = 0 THEN 0 ELSE value[i - 1] * two_to[OctetBits] + s[i]
  <2>1. value = [i \in 0..Len(s) |-> body(i)]
    BY <1>7, Zenon
  <2>2. body(0) = 0 /\ \A i \in 1..Len(s) : body(i) = value[i - 1] * radix + s[i]
    BY <1>1 DEF radix
  <2> HIDE DEF body
  <2>3. 0 \in 0..Len(s) /\ \A i \in 1..Len(s) : i \in 0..Len(s)
    BY <1>1
  <2>4. DOMAIN value = 0..Len(s) /\ \A i \in 0..Len(s) : value[i] = body(i)
    BY <2>1
  <2>5. value = [i \in 0..Len(s) |-> value[i]]
    BY <2>1, <2>4, Zenon
  <2>6. QED
    BY <2>2, <2>3, <2>4, <2>5
<1>10. value \in [0..Len(s) -> Nat]
  <2> DEFINE I == {i \in Nat : i <= Len(s) => value[i] \in Nat}
  <2>1. 0 \in I
    BY <1>9
  <2>2. ASSUME NEW i \in Nat, i \in I PROVE i + 1 \in I
    <3>1. SUFFICES ASSUME i + 1 <= Len(s) PROVE value[i + 1] \in Nat
      OBVIOUS
    <3>2. i + 1 \in 1..Len(s) /\ (i + 1) - 1 = i /\ value[i] \in Nat /\ s[i + 1] \in Nat
      BY <1>1, <2>2, <3>1
    <3>3. value[i + 1] = value[i] * radix + s[i + 1]
      BY <1>9, <3>2, Zenon
    <3>4. \A a, b, c \in Nat : a * b + c \in Nat
      OBVIOUS
    <3>5. value[i] * radix + s[i + 1] \in Nat
      BY <1>1, <3>2, <3>4, Zenon
    <3>6. QED
      BY <3>3, <3>5, Zenon
  <2>3. Nat \subseteq I
    <3> HIDE DEF I
    <3> QED
      BY <2>1, <2>2, SetInduction
  <2>4. QED
    BY <1>1, <1>9, <2>3
<1>11. QED
  BY <1>8, <1>9, <1>10 DEF Prefixes

LEMMA OctetsToIntType ==
  ASSUME NEW s \in Seq(Octets)
  PROVE  octets_to_int(s) \in Nat
<1>1. PICK value : Prefixes(value, s) /\ octets_to_int(s) = value[Len(s)]
  BY OctetsToInt
<1>2. Len(s) \in Nat
  OBVIOUS
<1>3. QED
  BY <1>1, <1>2 DEF Prefixes

-----------------------------------------------------------------------------
(* The order *)

LEMMA OrderSize ==
  ASSUME q \in Orders
  PROVE  /\ q \in Nat /\ q >= 2
         /\ qlen_bits \in Nat /\ qlen_bits >= 1 /\ q < two_to[qlen_bits]
         /\ rolen \in Nat /\ rolen >= 1 /\ qlen_bits <= OctetBits * rolen
<1>1. q \in Nat /\ q >= 2
  BY Rfc6979Assumption
<1>2. qlen_bits \in Nat /\ qlen_bits >= 1 /\ q < two_to[qlen_bits]
  BY <1>1, SizeInBase2 DEF qlen_bits
<1>3. rolen \in Int /\ qlen_bits <= OctetBits * rolen
  <2> DEFINE x == qlen_bits + OctetBits - 1
  <2>1. OctetBits \in Nat \ {0} /\ x \in Nat
    BY <1>2, Parameters
  <2> HIDE DEF x
  <2>2. x \div OctetBits \in Int /\ x % OctetBits \in 0..(OctetBits - 1)
        /\ x = OctetBits * (x \div OctetBits) + (x % OctetBits)
    BY <2>1
  <2>3. OctetBits * (x \div OctetBits) \in Int
    BY <2>1, <2>2
  <2>4. rolen = x \div OctetBits
    BY DEF rolen, x
  <2>5. x - (OctetBits - 1) <= OctetBits * (x \div OctetBits)
    BY <2>1, <2>2, <2>3
  <2>6. qlen_bits <= OctetBits * (x \div OctetBits)
    <3>1. x - (OctetBits - 1) = qlen_bits
      BY <1>2, <2>1 DEF x
    <3>2. QED
      BY <2>5, <3>1
  <2>7. QED
    BY <2>2, <2>4, <2>6, Zenon
<1>4. qlen_bits <= OctetBits * rolen
  BY <1>3
<1>5. rolen >= 1
  <2>1. \A r \in Int, b \in Nat : r <= 0 => b * r <= 0
    OBVIOUS
  <2>2. OctetBits * rolen \in Int
    BY <1>3, Parameters
  <2>3. QED
    BY <1>2, <1>3, <1>4, <2>1, <2>2, Parameters
<1>6. QED
  BY <1>1, <1>2, <1>3, <1>4, <1>5

LEMMA BelowOrder ==
  ASSUME q \in Orders, NEW x \in Nat, x < q
  PROVE  x < two_to[OctetBits * rolen]
<1>1. OctetBits * rolen \in Nat /\ qlen_bits \in Nat
  BY OrderSize, Parameters
<1>2. two_to[qlen_bits] <= two_to[OctetBits * rolen]
  <2>1. CASE qlen_bits = OctetBits * rolen
    BY <2>1, <1>1, TwoToPositive
  <2>2. CASE qlen_bits < OctetBits * rolen
    BY <1>1, <2>2, TwoToGrows, TwoToPositive
  <2>3. QED
    BY <1>1, <2>1, <2>2, OrderSize
<1>3. two_to[qlen_bits] \in Nat /\ two_to[OctetBits * rolen] \in Nat
  BY <1>1, TwoToPositive
<1>4. QED
  BY <1>2, <1>3, OrderSize

LEMMA Int2OctetsType ==
  ASSUME q \in Orders, NEW x \in Nat
  PROVE  int2octets(x, rolen) \in Seq(Octets) /\ Len(int2octets(x, rolen)) = rolen
BY OrderSize, BigEndianType DEF int2octets

LEMMA Int2OctetsInjective ==
  ASSUME q \in Orders, NEW x \in Nat, NEW y \in Nat, x < q, y < q,
         int2octets(x, rolen) = int2octets(y, rolen)
  PROVE  x = y
BY OrderSize, BelowOrder, BigEndianInjective DEF int2octets

LEMMA Bits2IntType ==
  ASSUME q \in Orders, NEW s \in Seq(Octets)
  PROVE  bits2int(s) \in Nat
<1>1. octets_to_int(s) \in Nat /\ Len(s) \in Nat
  BY OctetsToIntType
<1>2. \A e \in Nat : octets_to_int(s) \div two_to[e] \in Nat
  <2> SUFFICES ASSUME NEW e \in Nat PROVE octets_to_int(s) \div two_to[e] \in Nat
    OBVIOUS
  <2>1. PICK m \in Nat \ {0} : m = two_to[e]
    BY TwoToPositive
  <2>2. \A v \in Nat : v \div m \in Nat
    OBVIOUS
  <2>3. QED
    BY <1>1, <2>1, <2>2
<1>3. Len(s) * OctetBits \in Nat /\ qlen_bits \in Nat
  BY <1>1, OrderSize, Parameters
<1>4. CASE Len(s) * OctetBits > qlen_bits
  <2>1. Len(s) * OctetBits - qlen_bits \in Nat
    BY <1>3, <1>4
  <2>2. octets_to_int(s) \div two_to[Len(s) * OctetBits - qlen_bits] \in Nat
    BY <1>2, <2>1
  <2>3. QED
    BY <1>4, <2>2, Zenon DEF bits2int
<1>5. CASE ~(Len(s) * OctetBits > qlen_bits)
  BY <1>1, <1>5, Zenon DEF bits2int
<1>6. QED
  BY <1>4, <1>5, Zenon

LEMMA HashType ==
  ASSUME NEW x \in Nat
  PROVE  Hash(x) \in Hashes /\ Hash(x) \in Seq(Octets)
BY BigEndianType, Parameters DEF Hash, Hashes

LEMMA DigestScalarType ==
  ASSUME q \in Orders, NEW x \in Nat
  PROVE  digest_scalar(x) \in Nat /\ digest_scalar(x) < q
<1>1. bits2int(Hash(x)) \in Nat
  BY HashType, Bits2IntType
<1>2. \A v \in Nat, m \in Nat \ {0} : v % m \in Nat /\ v % m < m
  OBVIOUS
<1>3. QED
  BY <1>1, <1>2, OrderSize DEF digest_scalar

-----------------------------------------------------------------------------
(* The invariants *)

ones == [i \in 1..HashOctets |-> 1]

(* A call has arguments, and the generator starts anew in each.            *)
CallOK ==
  /\ pc = "idle" => T = <<>>
  /\ pc # "idle" => d \in Keys /\ d < q /\ h \in Digests
  /\ pc = "d" => V = ones

seed_of(v, separator, dd, zz) ==
  v \o <<separator>> \o int2octets(dd, rolen) \o int2octets(zz, rolen)

SeedsOK ==
  \A e \in seeds :
    /\ e.d \in Nat /\ e.z \in Nat /\ e.d < q /\ e.z < q
    /\ e.msg = seed_of(ones, 0, e.d, e.z)

(* HMAC is a function of the octets the inner SHA-256 compresses.          *)
MacOK ==
  /\ \A e \in mac : e.buf = inner(e.key, e.msg)
  /\ \A a, b \in mac : a.buf = b.buf => a.out = b.out

RInv == TypeOK /\ CallOK /\ SeedsOK /\ MacOK

LEMMA DataTypes ==
  /\ \A x \in Digests \cup Macs : x \in Nat /\ Hash(x) \in Hashes
  /\ Hash(0) \in Hashes /\ ones \in Hashes
  /\ \A x \in Keys : x \in Nat /\ x >= 1
  /\ \A x \in Hashes : x \in Seq(Octets) /\ Len(x) = HashOctets
<1>1. \A x \in Digests \cup Macs : x \in Nat
  <2>1. \A x \in Digests \cup Macs : x \in 0..(two_to[OctetBits * HashOctets] - 1)
    BY Rfc6979Assumption
  <2>2. OctetBits * HashOctets \in Nat
    BY Parameters
  <2>3. two_to[OctetBits * HashOctets] \in Nat
    BY <2>2, TwoToPositive
  <2>4. QED
    BY <2>1, <2>3
<1>2. \A x \in Nat : Hash(x) \in Hashes
  BY HashType
<1>3. ones \in Hashes
  BY OctetFacts DEF ones, Hashes
<1>4. \A x \in Hashes : x \in Seq(Octets) /\ Len(x) = HashOctets
  BY Parameters DEF Hashes
<1>5. QED
  BY <1>1, <1>2, <1>3, <1>4, Rfc6979Assumption

LEMMA SeedType ==
  ASSUME q \in Orders, NEW v \in Hashes, NEW separator \in {0, 1},
         NEW x \in Nat, NEW y \in Nat
  PROVE  seed_of(v, separator, x, y) \in Seq(Octets)
<1>1. v \in Seq(Octets) /\ <<separator>> \in Seq(Octets)
  BY OctetFacts, DataTypes
<1>2. int2octets(x, rolen) \in Seq(Octets) /\ int2octets(y, rolen) \in Seq(Octets)
  BY Int2OctetsType
<1>3. QED
  BY <1>1, <1>2 DEF seed_of

LEMMA SeedIsSeedOf ==
  \A separator : seed(separator) = seed_of(V, separator, d, digest_scalar(h))
BY DEF seed, seed_of, bits2octets

(* The octets of the key and of the digest have the same length in every   *)
(* seed, and each stands for one scalar.                                   *)
LEMMA SeedInjective ==
  ASSUME q \in Orders, NEW v \in Hashes, NEW separator \in {0, 1},
         NEW a \in Nat, NEW b \in Nat, NEW x \in Nat, NEW y \in Nat,
         a < q, b < q, x < q, y < q,
         seed_of(v, separator, a, x) = seed_of(v, separator, b, y)
  PROVE  a = b /\ x = y
<1> DEFINE head == v \o <<separator>>
           A == int2octets(a, rolen)
           B == int2octets(b, rolen)
           X == int2octets(x, rolen)
           Y == int2octets(y, rolen)
<1>1. /\ head \in Seq(Octets)
      /\ A \in Seq(Octets) /\ B \in Seq(Octets) /\ X \in Seq(Octets) /\ Y \in Seq(Octets)
      /\ Len(A) = rolen /\ Len(B) = rolen
  <2>1. v \in Seq(Octets) /\ <<separator>> \in Seq(Octets)
    BY OctetFacts, DataTypes
  <2>2. QED
    BY <2>1, Int2OctetsType
<1>2. head \o A \o X = head \o B \o Y
  BY DEF seed_of
<1>3. QED
  <2>1. A = B => a = b
    BY Int2OctetsInjective
  <2>2. X = Y => x = y
    BY Int2OctetsInjective
  <2> HIDE DEF head, A, B, X, Y
  <2>3. head \o A \in Seq(Octets) /\ head \o B \in Seq(Octets)
        /\ Len(head \o A) = Len(head \o B)
    BY <1>1
  <2>4. head \o A = head \o B /\ X = Y
    BY <1>1, <1>2, <2>3, ConcatCancel
  <2>5. A = B
    BY <1>1, <2>4, ConcatCancel
  <2>6. QED
    BY <2>1, <2>2, <2>4, <2>5

LEMMA RInvInit == Init => RInv
<1> SUFFICES ASSUME Init PROVE RInv
  OBVIOUS
<1>1. TypeOK
  <2>1. rolen >= 1 /\ rolen \in Nat /\ HashOctets \in Nat
    BY OrderSize, Parameters DEF Init
  <2>2. <<>> \in Seq(Octets) /\ Len(<<>>) = 0
    OBVIOUS
  <2>3. QED
    BY <2>1, <2>2, DataTypes DEF Init, TypeOK
<1>2. CallOK /\ SeedsOK /\ MacOK
  BY DEF Init, CallOK, SeedsOK, MacOK
<1>3. QED
  BY <1>1, <1>2 DEF RInv

(* What a query of HMAC adds to mac.                                       *)
LEMMA HmacStep ==
  ASSUME TypeOK, MacOK, NEW key \in Hashes, NEW msg \in Seq(Octets), NEW out \in Hashes,
         Hmac(key, msg, out)
  PROVE  /\ mac' \subseteq [key : Hashes, msg : Seq(Octets), buf : Seq(Octets),
                             out : Hashes]
         /\ MacOK'
         /\ mac \subseteq mac'
         /\ \E e \in mac' : e.buf = inner(key, msg) /\ e.out = out
<1> DEFINE new == [key |-> key, msg |-> msg, buf |-> inner(key, msg), out |-> out]
<1>1. mac' = mac \cup {new} /\ \A e \in mac : e.buf = inner(key, msg) => e.out = out
  BY DEF Hmac
<1>2. /\ new.buf = inner(new.key, new.msg)
      /\ new.buf = inner(key, msg) /\ new.out = out
      /\ new \in [key : Hashes, msg : Seq(Octets), buf : Seq(Octets), out : Hashes]
  BY InnerType
<1> HIDE DEF new
<1>3. MacOK'
  <2>1. \A e \in mac' : e.buf = inner(e.key, e.msg)
    BY <1>1, <1>2 DEF MacOK
  <2>2. \A a, b \in mac' : a.buf = b.buf => a.out = b.out
    BY <1>1, <1>2 DEF MacOK
  <2>3. QED
    BY <2>1, <2>2 DEF MacOK
<1>4. new \in mac' /\ mac \subseteq mac'
  BY <1>1
<1>5. QED
  BY <1>1, <1>2, <1>3, <1>4 DEF TypeOK

LEMMA NextVStep ==
  ASSUME RInv, NextV, UNCHANGED q
  PROVE  /\ V' \in Hashes /\ Hmac(K, V, V')
         /\ mac' \subseteq [key : Hashes, msg : Seq(Octets), buf : Seq(Octets),
                             out : Hashes]
         /\ MacOK'
<1>1. PICK out \in Macs : V' = Hash(out) /\ Hmac(K, V, V')
  BY DEF NextV
<1>2. V' \in Hashes /\ K \in Hashes /\ V \in Seq(Octets)
  BY <1>1, DataTypes DEF RInv, TypeOK
<1>3. QED
  BY <1>1, <1>2, HmacStep DEF RInv

LEMMA RInvNext == RInv /\ [Next]_vars => RInv'
<1> SUFFICES ASSUME RInv, [Next]_vars PROVE RInv'
  OBVIOUS
<1>1. q \in Orders /\ rolen \in Nat /\ rolen >= 1 /\ HashOctets \in Nat /\ HashOctets >= 1
      /\ <<>> \in Seq(Octets) /\ Len(<<>>) = 0
  BY OrderSize, Parameters DEF RInv, TypeOK
<1>2. q' = q => rolen' = rolen
  BY DEF rolen, qlen_bits
<1>3. ASSUME q' = q, seeds' = seeds PROVE SeedsOK'
  BY <1>2, <1>3 DEF RInv, SeedsOK, seed_of
<1>4. ASSUME mac' = mac PROVE MacOK'
  BY <1>4 DEF RInv, MacOK
<1>5. \A x \in Nat : digest_scalar(x) \in Nat /\ digest_scalar(x) < q /\ digest_scalar(x) \in 0..(q - 1)
  BY <1>1, DigestScalarType, OrderSize
<1>6. ASSUME NEW dd \in Keys, NEW hh \in Digests, Call(dd, hh) PROVE RInv'
  <2>1. TypeOK'
    BY <1>2, <1>6, DataTypes DEF Call, RInv, TypeOK, ones
  <2>2. CallOK'
    BY <1>6 DEF Call, CallOK, ones
  <2>3. QED
    BY <1>3, <1>4, <1>6, <2>1, <2>2 DEF Call, RInv
<1>7. ASSUME NEW step, NEW separator \in {0, 1}, NEW next \in {"e", "g"},
             step # "idle", step = "d" => separator = 0, Rekey(step, separator, next)
      PROVE  RInv'
  <2>1. PICK out \in Macs : K' = Hash(out) /\ Hmac(K, seed(separator), K')
    BY <1>7 DEF Rekey
  <2>2. d \in Nat /\ d < q /\ h \in Nat /\ K \in Hashes /\ V \in Hashes
    BY <1>7, DataTypes DEF Rekey, RInv, CallOK, TypeOK
  <2>3. K' \in Hashes /\ seed(separator) \in Seq(Octets)
    BY <1>1, <1>5, <2>1, <2>2, DataTypes, SeedType, SeedIsSeedOf
  <2>4. MacOK' /\ mac' \subseteq [key : Hashes, msg : Seq(Octets), buf : Seq(Octets),
                                  out : Hashes]
    BY <2>1, <2>2, <2>3, HmacStep DEF RInv
  <2>5. TypeOK'
    BY <1>2, <1>7, <2>3, <2>4 DEF Rekey, RInv, TypeOK
  <2>6. CallOK'
    BY <1>7 DEF Rekey, RInv, CallOK
  <2>7. ASSUME step = "d" PROVE SeedsOK'
    <3> DEFINE new == [d |-> d, z |-> digest_scalar(h), msg |-> seed(0)]
    <3>1. seeds' = seeds \cup {new} /\ q' = q
      BY <1>7, <2>7 DEF Rekey
    <3>2. new.d = d /\ new.z = digest_scalar(h) /\ new.msg = seed_of(ones, 0, d, digest_scalar(h))
      BY <1>7, <2>7, SeedIsSeedOf DEF Rekey, RInv, CallOK
    <3>3. digest_scalar(h) \in Nat /\ digest_scalar(h) < q
      BY <1>5, <2>2
    <3> HIDE DEF new
    <3>4. QED
      BY <1>2, <2>2, <3>1, <3>2, <3>3 DEF RInv, SeedsOK, seed_of
  <2>8. ASSUME step # "d" PROVE SeedsOK'
    BY <1>3, <1>7, <2>8 DEF Rekey
  <2>9. QED
    BY <2>4, <2>5, <2>6, <2>7, <2>8 DEF RInv
<1>8. ASSUME NEW step, NEW next \in {"f", "candidate"}, step # "idle",
             Revalue(step, next)
      PROVE  RInv'
  <2>1. /\ V' \in Hashes /\ MacOK'
        /\ mac' \subseteq [key : Hashes, msg : Seq(Octets), buf : Seq(Octets),
                            out : Hashes]
    BY <1>8, NextVStep DEF Revalue
  <2>2. TypeOK'
    BY <1>2, <1>8, <2>1 DEF Revalue, RInv, TypeOK
  <2>3. CallOK'
    BY <1>8 DEF Revalue, RInv, CallOK
  <2>4. QED
    BY <1>3, <1>8, <2>1, <2>2, <2>3 DEF Revalue, RInv
<1>9. ASSUME Extend PROVE RInv'
  <2>1. /\ V' \in Hashes /\ MacOK'
        /\ mac' \subseteq [key : Hashes, msg : Seq(Octets), buf : Seq(Octets),
                            out : Hashes]
    BY <1>9, NextVStep DEF Extend
  <2>2. T' \in Seq(Octets) /\ Len(T') < rolen' + HashOctets
    <3>1. V' \in Seq(Octets) /\ Len(V') = HashOctets /\ T \in Seq(Octets)
      BY <2>1, DataTypes DEF RInv, TypeOK
    <3>2. T' = T \o V' /\ Len(T) < rolen /\ q' = q
      BY <1>9 DEF Extend
    <3>3. T' \in Seq(Octets) /\ Len(T') = Len(T) + HashOctets
      BY <3>1, <3>2
    <3>4. QED
      BY <1>1, <1>2, <3>1, <3>2, <3>3
  <2>3. TypeOK'
    BY <1>9, <2>1, <2>2 DEF Extend, RInv, TypeOK
  <2>4. CallOK'
    BY <1>9 DEF Extend, RInv, CallOK
  <2>5. QED
    BY <1>3, <1>9, <2>1, <2>3, <2>4 DEF Extend, RInv
<1>10. ASSUME Accept PROVE RInv'
  <2>1. candidate \in 1..(q - 1) /\ d \in Keys /\ digest_scalar(h) \in 0..(q - 1)
    <3>1. SubSeq(T, 1, rolen) \in Seq(Octets)
      <4>1. T \in Seq(Octets) /\ rolen <= Len(T)
        BY <1>1, <1>10 DEF Accept, RInv, TypeOK
      <4>2. QED
        BY <1>1, <4>1
    <3>2. candidate \in Nat
      BY <1>1, <3>1, Bits2IntType DEF candidate
    <3>3. d \in Keys /\ h \in Nat
      BY <1>10, DataTypes DEF Accept, RInv, CallOK
    <3>4. candidate >= 1 /\ candidate < q
      BY <1>10 DEF Accept, acceptable
    <3>5. candidate \in 1..(q - 1)
      BY <1>1, <3>2, <3>4, OrderSize
    <3>6. QED
      BY <1>5, <3>3, <3>5
  <2>2. TypeOK'
    BY <1>1, <1>2, <1>10, <2>1, DataTypes DEF Accept, RInv, TypeOK
  <2>3. CallOK'
    BY <1>10 DEF Accept, CallOK
  <2>4. QED
    BY <1>3, <1>4, <1>10, <2>2, <2>3 DEF Accept, RInv
<1>11. ASSUME Reseed PROVE RInv'
  <2>1. PICK out \in Macs : K' = Hash(out) /\ Hmac(K, V \o <<0>>, K')
    BY <1>11 DEF Reseed
  <2>2. K \in Hashes /\ K' \in Hashes /\ V \o <<0>> \in Seq(Octets)
    <3>1. V \in Seq(Octets) /\ <<0>> \in Seq(Octets)
      BY DataTypes, OctetFacts DEF RInv, TypeOK
    <3>2. QED
      BY <2>1, <3>1, DataTypes DEF RInv, TypeOK
  <2>3. /\ MacOK'
        /\ mac' \subseteq [key : Hashes, msg : Seq(Octets), buf : Seq(Octets),
                            out : Hashes]
    BY <2>1, <2>2, HmacStep DEF RInv
  <2>4. TypeOK'
    BY <1>1, <1>2, <1>11, <2>2, <2>3 DEF Reseed, RInv, TypeOK
  <2>5. CallOK'
    BY <1>11 DEF Reseed, RInv, CallOK
  <2>6. QED
    BY <1>3, <1>11, <2>3, <2>4, <2>5 DEF Reseed, RInv
<1>12. CASE UNCHANGED vars
  <2>1. TypeOK' /\ CallOK'
    BY <1>2, <1>12 DEF vars, RInv, TypeOK, CallOK
  <2>2. QED
    BY <1>3, <1>4, <1>12, <2>1 DEF vars, RInv
<1>13. QED
  BY <1>6, <1>7, <1>8, <1>9, <1>10, <1>11, <1>12 DEF Next

(* Every state of derive_nonce has the types of TypeOK.                    *)
THEOREM TypeCorrect == Spec => []TypeOK
<1>1. RInv => TypeOK
  BY DEF RInv
<1>2. QED
  BY <1>1, RInvInit, RInvNext, PTL DEF Spec

(* RInv, the inductive invariant, holds in every reachable state.          *)
THEOREM Reachable == Spec => []RInv
BY RInvInit, RInvNext, PTL DEF Spec

(* No two seeds of step d are alike unless their keys and digests are.     *)
THEOREM DifferentSeeds == Spec => []SeedsDiffer
<1>1. RInv => SeedsDiffer
  <2> SUFFICES ASSUME RInv, NEW a \in seeds, NEW b \in seeds, a.msg = b.msg
               PROVE  a.d = b.d /\ a.z = b.z
    BY DEF SeedsDiffer
  <2>1. /\ a.d \in Nat /\ a.z \in Nat /\ a.d < q /\ a.z < q
        /\ b.d \in Nat /\ b.z \in Nat /\ b.d < q /\ b.z < q
        /\ seed_of(ones, 0, a.d, a.z) = seed_of(ones, 0, b.d, b.z)
    BY DEF RInv, SeedsOK
  <2>2. q \in Orders /\ ones \in Hashes
    BY DataTypes DEF RInv, TypeOK
  <2>3. QED
    BY <2>1, <2>2, SeedInjective
<1>2. QED
  BY <1>1, RInvInit, RInvNext, PTL DEF Spec

(* Every HMAC hashes whole blocks, and no two of them the same ones.       *)
THEOREM SoundBuffers == Spec => []BuffersAreSound
<1>1. RInv => BuffersAreSound
  <2> SUFFICES ASSUME RInv PROVE BuffersAreSound
    OBVIOUS
  <2>1. \A e \in mac : e.key \in Hashes /\ e.msg \in Seq(Octets)
                      /\ e.buf = inner(e.key, e.msg)
    BY DEF RInv, TypeOK, MacOK
  <2>2. \A e \in mac : Len(e.buf) % BlockOctets = 0
    BY <2>1, InnerType
  <2>3. ASSUME NEW a \in mac, NEW b \in mac, a.buf = b.buf
        PROVE  a.key = b.key /\ a.msg = b.msg
    BY <2>1, <2>3, InnerInjective
  <2>4. QED
    BY <2>2, <2>3 DEF BuffersAreSound
<1>2. QED
  BY <1>1, RInvInit, RInvNext, PTL DEF Spec

-----------------------------------------------------------------------------
(* The leftmost bits *)

(* The value of the first octets is the integer with the others cut off.   *)
LEMMA PrefixIsQuotient ==
  ASSUME NEW s \in Seq(Octets), NEW value, Prefixes(value, s)
  PROVE  \A k \in 0..Len(s) :
           value[k] = value[Len(s)] \div two_to[OctetBits * (Len(s) - k)]
<1> DEFINE l == Len(s)
           X == value[l]
           I == {i \in Nat : i <= l => value[l - i] = X \div two_to[OctetBits * i]}
<1>1. l \in Nat /\ X \in Nat /\ OctetBits \in Nat /\ radix \in Nat \ {0}
      /\ \A k \in 0..l : value[k] \in Nat
  <2>1. l \in Nat
    OBVIOUS
  <2>2. value \in [0..l -> Nat] /\ l \in 0..l
    BY <2>1 DEF Prefixes
  <2>3. OctetBits \in Nat /\ radix \in Nat \ {0}
    BY Parameters, OctetFacts
  <2> HIDE DEF l
  <2>4. QED
    BY <2>1, <2>2, <2>3
<1>2. 0 \in I
  <2>1. l - 0 = l /\ two_to[OctetBits * 0] = 1
    BY <1>1, TwoTo
  <2>2. \A v \in Nat : v \div 1 = v
    OBVIOUS
  <2>3. QED
    BY <1>1, <2>1, <2>2
<1>3. ASSUME NEW i \in Nat, i \in I PROVE i + 1 \in I
  <2>1. SUFFICES ASSUME i + 1 <= l
                 PROVE  value[l - (i + 1)] = X \div two_to[OctetBits * (i + 1)]
    OBVIOUS
  <2>2. value[l - i] = X \div two_to[OctetBits * i]
    BY <1>1, <1>3, <2>1
  <2>3. two_to[OctetBits * (i + 1)] = two_to[OctetBits * i] * radix
        /\ two_to[OctetBits * i] \in Nat \ {0}
    <3>1. OctetBits * (i + 1) = OctetBits * i + OctetBits /\ OctetBits * i \in Nat
      BY <1>1
    <3>2. two_to[OctetBits * i + OctetBits] = two_to[OctetBits * i] * two_to[OctetBits]
      BY <1>1, <3>1, TwoToSum, Zenon
    <3>3. two_to[OctetBits * i] \in Nat \ {0}
      BY <3>1, TwoToPositive
    <3>4. QED
      BY <3>1, <3>2, <3>3, Zenon DEF radix
  <2>4. X \div (two_to[OctetBits * i] * radix) = (X \div two_to[OctetBits * i]) \div radix
    BY <1>1, <2>3, NestedQuotients
  <2>5. /\ l - i \in 1..l /\ (l - i) - 1 = l - (i + 1) /\ l - (i + 1) \in 0..l
        /\ s[l - i] \in Octets
    BY <1>1, <2>1
  <2>6. value[l - i] = radix * value[l - (i + 1)] + s[l - i]
    <3>1. value[l - i] = value[l - (i + 1)] * radix + s[l - i]
      BY <2>5 DEF Prefixes
    <3>2. \A a, b \in Nat : a * b = b * a
      OBVIOUS
    <3>3. value[l - (i + 1)] * radix = radix * value[l - (i + 1)]
      BY <1>1, <2>5, <3>2
    <3>4. QED
      BY <3>1, <3>3
  <2>7. value[l - i] \div radix = value[l - (i + 1)]
    <3>1. value[l - i] \in Int /\ value[l - (i + 1)] \in Int
      BY <1>1, <2>1
    <3>2. s[l - i] \in 0..(radix - 1)
      BY <2>5, OctetFacts
    <3>3. QED
      BY <1>1, <2>6, <3>1, <3>2, QuotientAndRest
  <2>8. QED
    BY <2>2, <2>3, <2>4, <2>7
<1>4. Nat \subseteq I
  <2> HIDE DEF I
  <2> QED
    BY <1>2, <1>3, SetInduction
<1>5. ASSUME NEW k \in 0..l PROVE value[k] = X \div two_to[OctetBits * (l - k)]
  <2>1. l - k \in Nat /\ l - k <= l /\ l - (l - k) = k
    BY <1>1
  <2>2. QED
    BY <1>4, <2>1
<1>6. QED
  BY <1>5

(* The bit of s that Leftmost takes i-th. *)
bit_of(s, i) ==
  (s[1 + (i - 1) \div OctetBits]
     \div two_to[OctetBits - 1 - ((i - 1) % OctetBits)]) % 2

(* Cutting an integer off after its i-th bit leaves that bit last.         *)
LEMMA LastBit ==
  ASSUME NEW s \in Seq(Octets), NEW i \in Nat, i < OctetBits * Len(s)
  PROVE  /\ (octets_to_int(s) \div two_to[OctetBits * Len(s) - (i + 1)]) % 2
              = bit_of(s, i + 1)
         /\ 1 + ((i + 1) - 1) \div OctetBits \in 1..Len(s)
<1> DEFINE j == i \div OctetBits
           r == i % OctetBits
           l == Len(s)
           X == octets_to_int(s)
<1>1. PICK value : Prefixes(value, s) /\ X = value[l]
  BY OctetsToInt
<1>2. /\ OctetBits \in Nat \ {0} /\ l \in Nat
      /\ j \in Nat /\ r \in 0..(OctetBits - 1) /\ i = OctetBits * j + r
  BY Parameters
<1>3. (i + 1) - 1 = i
  OBVIOUS
<1>4. bit_of(s, i + 1) = (s[1 + j] \div two_to[OctetBits - 1 - r]) % 2
  BY <1>3 DEF bit_of
<1> HIDE DEF j, r, l, X
<1>5. j + 1 <= l /\ l - (j + 1) \in Nat
  <2>1. ASSUME l <= j PROVE FALSE
    <3>1. OctetBits * l <= OctetBits * j
      <4>1. \A a, b, c \in Nat : b <= c => a * b <= a * c
        OBVIOUS
      <4>2. QED
        BY <1>2, <2>1, <4>1
    <3>2. i < OctetBits * l
      BY DEF l
    <3>3. OctetBits * l \in Nat /\ OctetBits * j \in Nat
      BY <1>2
    <3>4. QED
      BY <1>2, <3>1, <3>2, <3>3
  <2>2. QED
    BY <1>2, <2>1
<1> DEFINE low == OctetBits - 1 - r
           cut == OctetBits * (l - (j + 1))
<1>6. low \in Nat /\ cut \in Nat /\ OctetBits * l - (i + 1) = cut + low
      /\ r + 1 \in Nat /\ OctetBits = low + (r + 1)
  <2>1. cut = OctetBits * l - OctetBits * j - OctetBits
        /\ OctetBits * l \in Nat /\ OctetBits * j \in Nat
    BY <1>2, <1>5
  <2>2. \A a, b \in Nat : a * b \in Nat
    OBVIOUS
  <2>3. cut \in Nat
    BY <1>2, <1>5, <2>2
  <2>4. QED
    BY <1>2, <2>1, <2>3
<1> HIDE DEF low, cut
<1>7. /\ value[j + 1] = X \div two_to[cut] /\ value[j] \in Nat /\ X \in Nat
      /\ value[j + 1] = value[j] * radix + s[j + 1] /\ s[j + 1] \in Nat
      /\ value[j + 1] \in Nat
  <2>1. /\ j + 1 \in 1..l /\ (j + 1) - 1 = j /\ j + 1 \in 0..l /\ j \in 0..l
        /\ l \in 0..l
    BY <1>2, <1>5
  <2>2. value[j + 1] = X \div two_to[cut]
    BY <1>1, <2>1, PrefixIsQuotient DEF cut, l
  <2>3. s[j + 1] \in Nat
    <3>1. s[j + 1] \in Octets
      BY <2>1 DEF l
    <3>2. QED
      BY <3>1, OctetFacts
  <2>4. /\ value \in [0..l -> Nat]
        /\ \A k \in 1..l : value[k] = value[k - 1] * radix + s[k]
    BY <1>1 DEF Prefixes, l
  <2>5. QED
    BY <1>1, <2>1, <2>2, <2>3, <2>4
<1>8. /\ two_to[cut] \in Nat \ {0} /\ two_to[low] \in Nat \ {0}
      /\ two_to[cut + low] = two_to[cut] * two_to[low]
      /\ radix = two_to[low] * two_to[r + 1]
      /\ two_to[r + 1] = 2 * two_to[r] /\ two_to[r] \in Nat
  <2>1. r \in Nat
    BY <1>2
  <2>2. two_to[OctetBits] = two_to[low] * two_to[r + 1]
    BY <1>6, TwoToSum
  <2>3. two_to[cut + low] = two_to[cut] * two_to[low]
    BY <1>6, TwoToSum
  <2>4. /\ two_to[cut] \in Nat \ {0} /\ two_to[low] \in Nat \ {0}
        /\ two_to[r] \in Nat
    BY <1>6, <2>1, TwoToPositive
  <2>5. two_to[r + 1] = 2 * two_to[r]
    BY <2>1, TwoTo
  <2>6. QED
    BY <2>2, <2>3, <2>4, <2>5, Zenon DEF radix
<1>9. X \div two_to[cut + low] = value[j + 1] \div two_to[low]
  <2>1. X \div (two_to[cut] * two_to[low]) = (X \div two_to[cut]) \div two_to[low]
    BY <1>7, <1>8, NestedQuotients
  <2>2. QED
    BY <1>7, <1>8, <2>1, Zenon
<1>10. PICK aa, bb, vv, oo \in Nat :
         aa = two_to[low] /\ bb = two_to[r] /\ vv = value[j] /\ oo = s[j + 1] /\ aa # 0
  BY <1>7, <1>8
<1>11. value[j + 1] = aa * (2 * (vv * bb) + (oo \div aa)) + (oo % aa)
       /\ oo % aa \in 0..(aa - 1) /\ oo \div aa \in Nat /\ vv * bb \in Nat
  <2>1. oo = aa * (oo \div aa) + (oo % aa)
        /\ oo % aa \in 0..(aa - 1) /\ oo \div aa \in Nat
    <3>1. \A x \in Nat, m \in Nat \ {0} :
            x = m * (x \div m) + (x % m) /\ x % m \in 0..(m - 1) /\ x \div m \in Nat
      OBVIOUS
    <3>2. aa \in Nat \ {0}
      BY <1>10
    <3>3. QED
      BY <3>1, <3>2, Zenon
  <2>2. vv * bb \in Nat
    OBVIOUS
  <2>3. value[j + 1] = vv * (aa * (2 * bb)) + oo
    BY <1>7, <1>8, <1>10
  <2>4. vv * (aa * (2 * bb)) = aa * (2 * (vv * bb))
    OBVIOUS
  <2>5. PICK w \in Nat, t \in Nat : w = vv * bb /\ t = oo \div aa
    BY <2>1, <2>2
  <2>6. aa * (2 * w + t) = aa * (2 * w) + aa * t
    OBVIOUS
  <2>7. aa * (2 * w) \in Nat /\ aa * t \in Nat
    BY <2>5
  <2>8. PICK u, v, rest \in Nat : u = aa * (2 * w) /\ v = aa * t /\ rest = oo % aa
    <3>1. \A z \in 0..(aa - 1) : z \in Nat
      OBVIOUS
    <3>2. oo % aa \in Nat
      BY <2>1, <3>1, Zenon
    <3>3. QED
      BY <2>7, <3>2, Zenon
  <2>9. value[j + 1] = u + oo
    BY <2>3, <2>4, <2>5, <2>8, Zenon
  <2>10. oo = v + rest
    BY <2>1, <2>5, <2>8, Zenon
  <2>11. value[j + 1] = (u + v) + rest
    BY <2>9, <2>10
  <2>12. value[j + 1] = aa * (2 * (vv * bb) + (oo \div aa)) + (oo % aa)
    BY <2>5, <2>6, <2>8, <2>11, Zenon
  <2>13. QED
    BY <2>1, <2>2, <2>12, Zenon
<1>12. value[j + 1] \div aa = 2 * (vv * bb) + (oo \div aa)
  <2>1. PICK c \in Int : c = 2 * (vv * bb) + (oo \div aa)
    BY <1>11
  <2>2. PICK t \in 0..(aa - 1) : t = oo % aa
    BY <1>11
  <2>3. value[j + 1] = aa * c + t
    BY <1>11, <2>1, <2>2, Zenon
  <2>4. aa \in Nat \ {0} /\ value[j + 1] \in Int
    BY <1>7, <1>10
  <2>5. value[j + 1] \div aa = c
    BY <2>3, <2>4, QuotientAndRest
  <2>6. QED
    BY <2>1, <2>5
<1>13. (2 * (vv * bb) + (oo \div aa)) % 2 = (oo \div aa) % 2
  <2>1. \A w, t \in Nat : (2 * w + t) % 2 = t % 2
    OBVIOUS
  <2>2. QED
    BY <1>11, <2>1
<1>14. (X \div two_to[OctetBits * l - (i + 1)]) % 2 = (s[1 + j] \div two_to[low]) % 2
  <2>1. 1 + j = j + 1
    BY <1>2
  <2>2. QED
    BY <1>6, <1>9, <1>10, <1>12, <1>13, <2>1
<1>15. 1 + ((i + 1) - 1) \div OctetBits \in 1..Len(s)
  <2>1. 1 + j \in 1..l
    BY <1>2, <1>5
  <2>2. QED
    BY <1>3, <2>1 DEF j, l
<1>16. QED
  BY <1>4, <1>14, <1>15 DEF low, l, X

(* Leftmost reads no more of t than s, which t starts with.                *)
LEMMA LeftmostIsQuotient ==
  ASSUME NEW s \in Seq(Octets), NEW bits \in Nat, bits <= OctetBits * Len(s),
         NEW t, \A i \in 1..Len(s) : t[i] = s[i]
  PROVE  Leftmost(bits, t)
           = octets_to_int(s) \div two_to[OctetBits * Len(s) - bits]
<1> DEFINE l == OctetBits * Len(s)
           X == octets_to_int(s)
           bit(i) == (t[1 + (i - 1) \div OctetBits]
                        \div two_to[OctetBits - 1 - ((i - 1) % OctetBits)]) % 2
           Value(v) == v = [i \in 0..bits |-> IF i = 0 THEN 0 ELSE 2 * v[i - 1] + bit(i)]
           value == CHOOSE v : Value(v)
           f == [i \in 0..bits |-> X \div two_to[l - i]]
<1>1. l \in Nat /\ X \in Nat
  BY OctetsToIntType, Parameters
<1>2. ASSUME NEW i \in 0..bits PROVE X \div two_to[l - i] \in Nat
  <2>1. l - i \in Nat
    BY <1>1
  <2>2. PICK m \in Nat \ {0} : m = two_to[l - i]
    BY <2>1, TwoToPositive
  <2>3. \A x \in Nat, n \in Nat \ {0} : x \div n \in Nat
    OBVIOUS
  <2>4. QED
    BY <1>1, <2>2, <2>3
<1>3. X \div two_to[l - 0] = 0
  <2>1. PICK octets : Prefixes(octets, s) /\ octets_to_int(s) = octets[Len(s)]
    BY OctetsToInt
  <2>2. 0 \in 0..Len(s) /\ Len(s) - 0 = Len(s)
    OBVIOUS
  <2>3. octets[0] = X \div two_to[OctetBits * (Len(s) - 0)]
    BY <2>1, <2>2, PrefixIsQuotient
  <2>4. octets[0] = 0
    BY <2>1 DEF Prefixes
  <2>5. l - 0 = l
    BY <1>1
  <2>6. QED
    BY <2>2, <2>3, <2>4, <2>5
<1>4. ASSUME NEW i \in 0..bits, i # 0
      PROVE  X \div two_to[l - i] = 2 * (X \div two_to[l - (i - 1)]) + bit(i)
  <2>1. /\ i - 1 \in Nat /\ i - 1 < l /\ (i - 1) + 1 = i /\ l - i \in Nat
        /\ l - (i - 1) = (l - i) + 1
    BY <1>1, <1>4
  <2>2. (X \div two_to[l - i]) % 2 = bit(i)
    <3>1. (octets_to_int(s) \div two_to[OctetBits * Len(s) - ((i - 1) + 1)]) % 2
            = bit_of(s, (i - 1) + 1)
      BY <2>1, LastBit
    <3>2. bit_of(s, i) = bit(i)
      <4>1. 1 + ((i - 1) + 1 - 1) \div OctetBits \in 1..Len(s)
        BY <2>1, LastBit
      <4>2. s[1 + (i - 1) \div OctetBits] = t[1 + (i - 1) \div OctetBits]
        BY <2>1, <4>1
      <4>3. QED
        BY <4>2, Zenon DEF bit_of
    <3>3. QED
      BY <2>1, <3>1, <3>2, Zenon
  <2> HIDE DEF bit, l, X
  <2>3. two_to[l - (i - 1)] = two_to[l - i] * 2 /\ two_to[l - i] \in Nat \ {0}
    <3>1. two_to[(l - i) + 1] = 2 * two_to[l - i] /\ two_to[l - i] \in Nat \ {0}
      <4>1. two_to[(l - i) + 1] = 2 * two_to[l - i]
        BY <2>1, TwoTo, Zenon
      <4>2. two_to[l - i] \in Nat /\ two_to[l - i] >= 1
        BY <2>1, TwoToPositive, Zenon
      <4>3. QED
        BY <4>1, <4>2
    <3>2. \A m \in Nat : 2 * m = m * 2
      OBVIOUS
    <3>3. QED
      BY <2>1, <3>1, <3>2
  <2>4. X \div two_to[l - (i - 1)] = (X \div two_to[l - i]) \div 2
    <3>1. PICK m \in Nat \ {0}, n \in Nat \ {0} : m = two_to[l - i] /\ n = 2
      BY <2>3
    <3>2. X \div (m * n) = (X \div m) \div n
      BY <1>1, NestedQuotients
    <3>3. QED
      BY <2>3, <3>1, <3>2, Zenon
  <2>5. PICK x \in Nat : x = X \div two_to[l - i]
    BY <1>2
  <2>6. x = 2 * (x \div 2) + (x % 2)
    OBVIOUS
  <2>7. QED
    BY <2>2, <2>4, <2>5, <2>6
<1>5. Value(f)
  <2> DEFINE body(i) == IF i = 0 THEN 0 ELSE 2 * f[i - 1] + bit(i)
  <2>1. ASSUME NEW i \in 0..bits PROVE X \div two_to[l - i] = body(i)
    <3>1. CASE i = 0
      BY <1>3, <3>1
    <3>2. CASE i # 0
      <4>1. i - 1 \in 0..bits
        BY <3>2
      <4>2. f[i - 1] = X \div two_to[l - (i - 1)]
        BY <4>1
      <4> HIDE DEF f, bit, X, l
      <4>3. QED
        BY <1>4, <3>2, <4>2
    <3>3. QED
      BY <3>1, <3>2
  <2> HIDE DEF body, bit, X, l
  <2>2. f = [i \in 0..bits |-> body(i)]
    BY <2>1
  <2>3. QED
    BY <2>2, Zenon DEF body
<1>6. Value(value)
  <2> HIDE DEF Value, f
  <2> QED
    BY <1>5
<1>7. Leftmost(bits, t) = value[bits]
  BY DEF Leftmost
<1> HIDE DEF value, f
<1>8. \A i \in Nat : i <= bits => value[i] = X \div two_to[l - i]
  <2> DEFINE I == {i \in Nat : i <= bits => value[i] = X \div two_to[l - i]}
             body(i) == IF i = 0 THEN 0 ELSE 2 * value[i - 1] + bit(i)
  <2>1. value = [i \in 0..bits |-> body(i)]
    BY <1>6, Zenon
  <2> HIDE DEF bit, X, l
  <2>2. \A i \in 0..bits : value[i] = body(i)
    <3> HIDE DEF body
    <3> QED
      BY <2>1
  <2>3. 0 \in I
    <3>1. 0 \in 0..bits
      OBVIOUS
    <3>2. value[0] = 0
      BY <2>2, <3>1
    <3>3. QED
      BY <1>3, <3>2
  <2>4. ASSUME NEW i \in Nat, i \in I PROVE i + 1 \in I
    <3>1. SUFFICES ASSUME i + 1 <= bits PROVE value[i + 1] = X \div two_to[l - (i + 1)]
      OBVIOUS
    <3>2. i + 1 \in 0..bits /\ i + 1 # 0 /\ (i + 1) - 1 = i
      BY <3>1
    <3>3. value[i + 1] = 2 * value[i] + bit(i + 1)
      BY <2>2, <3>2
    <3>4. value[i] = X \div two_to[l - i]
      BY <2>4, <3>1
    <3>5. X \div two_to[l - (i + 1)] = 2 * (X \div two_to[l - ((i + 1) - 1)]) + bit(i + 1)
      BY <1>4, <3>2
    <3>6. QED
      BY <3>2, <3>3, <3>4, <3>5, Zenon
  <2>5. Nat \subseteq I
    <3> HIDE DEF I
    <3> QED
      BY <2>3, <2>4, SetInduction
  <2>6. QED
    BY <2>5
<1>9. QED
  BY <1>7, <1>8

(* A candidate is the leftmost qlen bits of the octets generated for it.   *)
THEOREM CandidateBits == Spec => []CandidateIsLeftmostBits
<1>1. RInv => CandidateIsLeftmostBits
  <2> SUFFICES ASSUME RInv, Len(T) >= rolen PROVE candidate = Leftmost(qlen_bits, T)
    BY DEF CandidateIsLeftmostBits
  <2> DEFINE S == SubSeq(T, 1, rolen)
  <2>1. /\ T \in Seq(Octets) /\ rolen \in Nat /\ rolen >= 1 /\ OctetBits \in Nat
        /\ qlen_bits \in Nat /\ qlen_bits <= OctetBits * rolen
    BY OrderSize, Parameters DEF RInv, TypeOK
  <2>2. S \in Seq(Octets) /\ Len(S) = rolen /\ \A i \in 1..rolen : T[i] = S[i]
    BY <2>1
  <2>3. candidate = bits2int(S)
    BY DEF candidate
  <2> HIDE DEF S
  <2>4. Leftmost(qlen_bits, T)
          = octets_to_int(S) \div two_to[OctetBits * rolen - qlen_bits]
    BY <2>1, <2>2, LeftmostIsQuotient
  <2>5. Len(S) * OctetBits = OctetBits * rolen /\ OctetBits * rolen \in Nat
    BY <2>1, <2>2
  <2>6. CASE OctetBits * rolen > qlen_bits
    BY <2>3, <2>4, <2>5, <2>6, Zenon DEF bits2int
  <2>7. CASE ~(OctetBits * rolen > qlen_bits)
    <3>1. bits2int(S) = octets_to_int(S)
      BY <2>5, <2>7, Zenon DEF bits2int
    <3>2. OctetBits * rolen - qlen_bits = 0
      BY <2>1, <2>5, <2>7
    <3>3. octets_to_int(S) \div 1 = octets_to_int(S)
      <4>1. \A x \in Nat : x \div 1 = x
        OBVIOUS
      <4>2. QED
        BY <2>2, <4>1, OctetsToIntType
    <3>4. QED
      BY <2>3, <2>4, <3>1, <3>2, <3>3, TwoTo
  <2>8. QED
    BY <2>6, <2>7
<1>2. QED
  BY <1>1, RInvInit, RInvNext, PTL DEF Spec

-----------------------------------------------------------------------------
(* A call of derive_nonce is a walk: each step asks HMAC one question, and *)
(* the answer settles where it goes.  The order o, the key and the digest  *)
(* scalar in, and the known points m of HMAC settle the whole walk.        *)

octets_of(o) == (sizeinbase2(o) + OctetBits - 1) \div OctetBits

scalar_of(o, s) ==
  IF Len(s) * OctetBits > sizeinbase2(o)
  THEN octets_to_int(s) \div two_to[Len(s) * OctetBits - sizeinbase2(o)]
  ELSE octets_to_int(s)

nonce_of(o, s) == scalar_of(o, SubSeq(s.T, 1, octets_of(o)))

start == [step |-> "d", K |-> Hash(0), V |-> ones, T |-> <<>>]

full(o, s) == s.step = "candidate" /\ Len(s.T) >= octets_of(o)
halted(o, s) == full(o, s) /\ nonce_of(o, s) >= 1 /\ nonce_of(o, s) < o

seed_for(o, in, separator, v) ==
  v \o <<separator>> \o int2octets(in[1], octets_of(o)) \o int2octets(in[2], octets_of(o))

question(o, in, s) ==
  IF s.step = "d" THEN seed_for(o, in, 0, s.V)
  ELSE IF s.step = "f" THEN seed_for(o, in, 1, s.V)
  ELSE IF full(o, s) THEN s.V \o <<0>>
  ELSE s.V

moved(o, s, out) ==
  IF s.step = "d" THEN [step |-> "e", K |-> out, V |-> s.V, T |-> s.T]
  ELSE IF s.step = "e" THEN [step |-> "f", K |-> s.K, V |-> out, T |-> s.T]
  ELSE IF s.step = "f" THEN [step |-> "g", K |-> out, V |-> s.V, T |-> s.T]
  ELSE IF full(o, s) THEN [step |-> "revalue", K |-> out, V |-> s.V, T |-> <<>>]
  ELSE IF s.step = "candidate"
       THEN [step |-> "candidate", K |-> s.K, V |-> out, T |-> s.T \o out]
  ELSE [step |-> "candidate", K |-> s.K, V |-> out, T |-> s.T]

Moves(o, m, in, s, t) ==
  /\ ~halted(o, s)
  /\ \E e \in m : e.buf = inner(s.K, question(o, in, s)) /\ t = moved(o, s, e.out)

Walk(o, m, in, n, tr) ==
  /\ tr[0] = start
  /\ \A i \in Nat : i < n => Moves(o, m, in, tr[i], tr[i + 1])

Reaches(o, m, in, s) == \E n \in Nat : \E tr : Walk(o, m, in, n, tr) /\ tr[n] = s

IsFunction(m) == \A a, b \in m : a.buf = b.buf => a.out = b.out

LEMMA ReachesStart ==
  ASSUME NEW o, NEW m, NEW in
  PROVE  Reaches(o, m, in, start)
<1> DEFINE tr == [i \in Nat |-> start]
<1>1. Walk(o, m, in, 0, tr) /\ tr[0] = start
  BY DEF Walk
<1> HIDE DEF tr
<1>2. QED
  BY <1>1 DEF Reaches

LEMMA ReachesOn ==
  ASSUME NEW o, NEW m, NEW in, NEW s, NEW t,
         Reaches(o, m, in, s), Moves(o, m, in, s, t)
  PROVE  Reaches(o, m, in, t)
<1>1. PICK n \in Nat : \E tr : Walk(o, m, in, n, tr) /\ tr[n] = s
  BY DEF Reaches
<1>2. PICK tr : Walk(o, m, in, n, tr) /\ tr[n] = s
  BY <1>1
<1> DEFINE ur == [i \in Nat |-> IF i <= n THEN tr[i] ELSE t]
<1>3. ur[0] = start /\ ur[n + 1] = t /\ n + 1 \in Nat
  BY <1>2 DEF Walk
<1>4. ASSUME NEW i \in Nat, i < n + 1 PROVE Moves(o, m, in, ur[i], ur[i + 1])
  <2>1. CASE i < n
    <3>1. ur[i] = tr[i] /\ ur[i + 1] = tr[i + 1]
      BY <2>1
    <3>2. QED
      BY <1>2, <2>1, <3>1 DEF Walk
  <2>2. CASE i = n
    <3>1. ur[i] = s /\ ur[i + 1] = t
      BY <1>2, <2>2
    <3>2. QED
      BY <3>1
  <2>3. QED
    BY <1>4, <2>1, <2>2
<1>5. Walk(o, m, in, n + 1, ur)
  <2> HIDE DEF ur
  <2> QED
    BY <1>3, <1>4 DEF Walk
<1> HIDE DEF ur
<1>6. QED
  BY <1>3, <1>5 DEF Reaches

(* What HMAC is asked later does not change where a walk has been.         *)
LEMMA ReachesStays ==
  ASSUME NEW o, NEW m, NEW l, NEW in, NEW s, m \subseteq l, Reaches(o, m, in, s)
  PROVE  Reaches(o, l, in, s)
<1>1. PICK n \in Nat : \E tr : Walk(o, m, in, n, tr) /\ tr[n] = s
  BY DEF Reaches
<1>2. PICK tr : Walk(o, m, in, n, tr) /\ tr[n] = s
  BY <1>1
<1>3. ASSUME NEW u, NEW v, Moves(o, m, in, u, v) PROVE Moves(o, l, in, u, v)
  BY <1>3 DEF Moves
<1>4. Walk(o, l, in, n, tr)
  BY <1>2, <1>3 DEF Walk
<1>5. QED
  BY <1>2, <1>4 DEF Reaches

(* Two walks with the same arguments end in the same place.                *)
LEMMA WalksEndAlike ==
  ASSUME NEW o, NEW m, NEW in, NEW s, NEW t, IsFunction(m),
         Reaches(o, m, in, s), Reaches(o, m, in, t), halted(o, s), halted(o, t)
  PROVE  s = t
<1>1. PICK k \in Nat : \E tr : Walk(o, m, in, k, tr) /\ tr[k] = s
  BY DEF Reaches
<1>2. PICK tr : Walk(o, m, in, k, tr) /\ tr[k] = s
  BY <1>1
<1>3. PICK n \in Nat : \E ur : Walk(o, m, in, n, ur) /\ ur[n] = t
  BY DEF Reaches
<1>4. PICK ur : Walk(o, m, in, n, ur) /\ ur[n] = t
  BY <1>3
<1>5. ASSUME NEW u, NEW v, NEW w, Moves(o, m, in, u, v), Moves(o, m, in, u, w)
      PROVE  v = w
  BY <1>5 DEF Moves, IsFunction
<1>6. ASSUME NEW v, halted(o, v) PROVE \A w : ~Moves(o, m, in, v, w)
  BY <1>6 DEF Moves
<1> DEFINE I == {i \in Nat : i <= k /\ i <= n => tr[i] = ur[i]}
<1>7. 0 \in I
  BY <1>2, <1>4 DEF Walk
<1>8. ASSUME NEW i \in Nat, i \in I PROVE i + 1 \in I
  <2> SUFFICES ASSUME i + 1 <= k, i + 1 <= n PROVE tr[i + 1] = ur[i + 1]
    OBVIOUS
  <2>1. i < k /\ i < n /\ tr[i] = ur[i]
    BY <1>8
  <2>2. Moves(o, m, in, tr[i], tr[i + 1]) /\ Moves(o, m, in, ur[i], ur[i + 1])
    BY <1>2, <1>4, <2>1 DEF Walk
  <2>3. QED
    BY <1>5, <2>1, <2>2, Zenon
<1>9. \A i \in Nat : i <= k /\ i <= n => tr[i] = ur[i]
  <2>1. Nat \subseteq I
    <3> HIDE DEF I
    <3> QED
      BY <1>7, <1>8, SetInduction
  <2>2. QED
    BY <2>1
<1>10. ASSUME k < n PROVE FALSE
  <2>1. ur[k] = s
    BY <1>2, <1>9, <1>10
  <2>2. Moves(o, m, in, ur[k], ur[k + 1])
    BY <1>4, <1>10 DEF Walk
  <2>3. QED
    BY <1>6, <2>1, <2>2
<1>11. ASSUME n < k PROVE FALSE
  <2>1. tr[n] = t
    BY <1>4, <1>9, <1>11
  <2>2. Moves(o, m, in, tr[n], tr[n + 1])
    BY <1>2, <1>11 DEF Walk
  <2>3. QED
    BY <1>6, <2>1, <2>2
<1>12. QED
  BY <1>2, <1>4, <1>9, <1>10, <1>11

-----------------------------------------------------------------------------
(* The machine walks. *)

now == [step |-> pc, K |-> K, V |-> V, T |-> T]
asked == <<d, digest_scalar(h)>>

WalkInv ==
  /\ pc # "idle" => Reaches(q, mac, asked, now)
  /\ \A e \in nonces : \E s : /\ Reaches(q, mac, e[1], s) /\ halted(q, s)
                              /\ e[2] = nonce_of(q, s)

LEMMA SameOrder ==
  /\ rolen = octets_of(q)
  /\ \A s : bits2int(s) = scalar_of(q, s)
  /\ candidate = nonce_of(q, now)
  /\ halted(q, now) <=> pc = "candidate" /\ Len(T) >= rolen /\ acceptable(candidate)
  /\ full(q, now) <=> pc = "candidate" /\ Len(T) >= rolen
<1>1. rolen = octets_of(q)
  BY DEF rolen, octets_of, qlen_bits
<1>2. \A s : bits2int(s) = scalar_of(q, s)
  BY DEF bits2int, scalar_of, qlen_bits
<1>3. candidate = nonce_of(q, now)
  BY <1>1, <1>2 DEF candidate, nonce_of, now
<1>4. full(q, now) <=> pc = "candidate" /\ Len(T) >= rolen
  BY <1>1 DEF full, now
<1>5. halted(q, now) <=> pc = "candidate" /\ Len(T) >= rolen /\ acceptable(candidate)
  BY <1>3, <1>4, Zenon DEF halted, acceptable
<1>6. QED
  BY <1>1, <1>2, <1>3, <1>4, <1>5

(* A step that asks HMAC what the walk would ask goes where it goes.       *)
LEMMA StepMoves ==
  ASSUME RInv, WalkInv, pc # "idle", ~halted(q, now), NEW out \in Hashes,
         question(q, asked, now) \in Seq(Octets),
         Hmac(K, question(q, asked, now), out),
         now' = moved(q, now, out), pc' # "idle",
         UNCHANGED <<q, d, h, nonces>>
  PROVE  WalkInv'
<1>1. /\ MacOK' /\ mac \subseteq mac'
      /\ \E e \in mac' : e.buf = inner(K, question(q, asked, now)) /\ e.out = out
  BY HmacStep DEF RInv, TypeOK
<1>2. asked' = asked
  BY DEF asked, digest_scalar, bits2int, qlen_bits
<1>3. Moves(q, mac', asked, now, now')
  <2>1. now.K = K
    BY DEF now
  <2>2. QED
    BY <1>1, <2>1 DEF Moves
<1>4. Reaches(q, mac', asked, now')
  <2>1. Reaches(q, mac, asked, now)
    BY DEF WalkInv
  <2>2. Reaches(q, mac', asked, now)
    BY <1>1, <2>1, ReachesStays
  <2>3. QED
    BY <1>3, <2>2, ReachesOn
<1>5. ASSUME NEW e \in nonces
      PROVE  \E s : Reaches(q, mac', e[1], s) /\ halted(q, s) /\ e[2] = nonce_of(q, s)
  <2>1. PICK s : Reaches(q, mac, e[1], s) /\ halted(q, s) /\ e[2] = nonce_of(q, s)
    BY DEF WalkInv
  <2>2. Reaches(q, mac', e[1], s)
    BY <1>1, <2>1, ReachesStays
  <2>3. QED
    BY <2>1, <2>2
<1>6. QED
  BY <1>2, <1>4, <1>5 DEF WalkInv

LEMMA SeedIsAsked ==
  \A separator : seed(separator) = seed_for(q, asked, separator, V)
BY SameOrder DEF seed, seed_for, asked, bits2octets

LEMMA SeedInSeq ==
  ASSUME RInv, pc # "idle", NEW separator \in {0, 1}
  PROVE  seed(separator) \in Seq(Octets)
<1>1. d \in Nat /\ digest_scalar(h) \in Nat /\ V \in Hashes /\ q \in Orders
  BY DataTypes, DigestScalarType DEF RInv, TypeOK, CallOK
<1>2. QED
  BY <1>1, SeedType, SeedIsSeedOf

LEMMA WalkInvNext ==
  ASSUME RInv, WalkInv, [Next]_vars
  PROVE  WalkInv'
<1>1. K \in Hashes /\ V \in Hashes /\ V \in Seq(Octets) /\ V \o <<0>> \in Seq(Octets)
  <2>1. <<0>> \in Seq(Octets)
    BY OctetFacts
  <2>2. QED
    BY <2>1, DataTypes DEF RInv, TypeOK
<1>2. \A out \in Macs : Hash(out) \in Hashes
  BY DataTypes
<1>3. ASSUME q' = q, mac' = mac, nonces' = nonces, pc' # "idle" => Reaches(q, mac, asked', now')
      PROVE  WalkInv'
  BY <1>3 DEF WalkInv
<1>4. ASSUME NEW dd \in Keys, NEW hh \in Digests, Call(dd, hh) PROVE WalkInv'
  <2>1. now' = start
    BY <1>4 DEF Call, RInv, CallOK, now, start, ones
  <2>2. Reaches(q, mac, asked', start)
    BY ReachesStart
  <2>3. QED
    BY <1>3, <1>4, <2>1, <2>2 DEF Call
<1>5. ASSUME Rekey("d", 0, "e") PROVE WalkInv'
  <2>1. PICK out \in Macs : K' = Hash(out) /\ Hmac(K, seed(0), K')
    BY <1>5 DEF Rekey
  <2>2. now.step = "d" /\ now.V = V
    BY <1>5 DEF Rekey, now
  <2>3. question(q, asked, now) = seed(0) /\ ~halted(q, now)
    BY <2>2, <1>5, SeedIsAsked, SameOrder DEF question, Rekey
  <2>4. now' = moved(q, now, K')
    BY <1>5 DEF Rekey, now, moved
  <2>5. K' \in Hashes /\ seed(0) \in Seq(Octets)
    BY <1>2, <1>5, <2>1, SeedInSeq DEF Rekey
  <2>6. QED
    BY <1>5, <2>1, <2>3, <2>4, <2>5, StepMoves DEF Rekey
<1>6. ASSUME Rekey("f", 1, "g") PROVE WalkInv'
  <2>1. PICK out \in Macs : K' = Hash(out) /\ Hmac(K, seed(1), K')
    BY <1>6 DEF Rekey
  <2>2. now.step = "f" /\ now.V = V
    BY <1>6 DEF Rekey, now
  <2>3. question(q, asked, now) = seed(1) /\ ~halted(q, now)
    BY <2>2, <1>6, SeedIsAsked, SameOrder DEF question, Rekey
  <2>4. now' = moved(q, now, K')
    BY <1>6 DEF Rekey, now, moved
  <2>5. K' \in Hashes /\ seed(1) \in Seq(Octets)
    BY <1>2, <1>6, <2>1, SeedInSeq DEF Rekey
  <2>6. QED
    BY <1>6, <2>1, <2>3, <2>4, <2>5, StepMoves DEF Rekey
<1>7. ASSUME NEW step \in {"e", "g", "revalue"}, NEW next \in {"f", "candidate"},
             step = "e" <=> next = "f", Revalue(step, next)
      PROVE  WalkInv'
  <2>1. PICK out \in Macs : V' = Hash(out) /\ Hmac(K, V, V')
    BY <1>7 DEF Revalue, NextV
  <2>2. now.step = step /\ now.V = V
    BY <1>7 DEF Revalue, now
  <2>3. ~full(q, now) /\ ~halted(q, now)
    BY <1>7, SameOrder DEF Revalue
  <2>4. question(q, asked, now) = V
    BY <1>7, <2>2, <2>3 DEF question
  <2>5. now' = moved(q, now, V')
    BY <1>7, <2>3 DEF Revalue, now, moved
  <2>6. QED
    BY <1>1, <1>2, <1>7, <2>1, <2>3, <2>4, <2>5, StepMoves DEF Revalue
<1>8. ASSUME Extend PROVE WalkInv'
  <2>1. PICK out \in Macs : V' = Hash(out) /\ Hmac(K, V, V')
    BY <1>8 DEF Extend, NextV
  <2>2. now.step = "candidate" /\ now.V = V
    BY <1>8 DEF Extend, now
  <2>3. ~full(q, now) /\ ~halted(q, now)
    <3>1. rolen \in Nat /\ Len(T) \in Nat
      BY OrderSize DEF RInv, TypeOK
    <3>2. ~(Len(T) >= rolen)
      BY <1>8, <3>1 DEF Extend
    <3>3. QED
      BY <3>2, SameOrder
  <2>4. question(q, asked, now) = V
    BY <2>2, <2>3 DEF question
  <2>5. now' = moved(q, now, V')
    BY <1>8, <2>3 DEF Extend, now, moved
  <2>6. QED
    BY <1>1, <1>2, <1>8, <2>1, <2>3, <2>4, <2>5, StepMoves DEF Extend
<1>9. ASSUME Reseed PROVE WalkInv'
  <2>1. PICK out \in Macs : K' = Hash(out) /\ Hmac(K, V \o <<0>>, K')
    BY <1>9 DEF Reseed
  <2>2. now.step = "candidate" /\ now.V = V
    BY <1>9 DEF Reseed, now
  <2>3. full(q, now) /\ ~halted(q, now)
    BY <1>9, SameOrder DEF Reseed
  <2>4. question(q, asked, now) = V \o <<0>>
    BY <2>2, <2>3 DEF question
  <2>5. now' = moved(q, now, K')
    BY <1>9, <2>3 DEF Reseed, now, moved
  <2>6. QED
    BY <1>1, <1>2, <1>9, <2>1, <2>3, <2>4, <2>5, StepMoves DEF Reseed
<1>10. ASSUME Accept PROVE WalkInv'
  <2>1. Reaches(q, mac, asked, now) /\ halted(q, now) /\ candidate = nonce_of(q, now)
    BY <1>10, SameOrder DEF Accept, WalkInv
  <2>2. nonces' = nonces \cup {<<asked, candidate>>} /\ q' = q /\ mac' = mac /\ pc' = "idle"
    BY <1>10 DEF Accept, asked
  <2>3. ASSUME NEW e \in nonces'
        PROVE  \E s : Reaches(q, mac, e[1], s) /\ halted(q, s) /\ e[2] = nonce_of(q, s)
    <3>1. CASE e \in nonces
      BY <3>1 DEF WalkInv
    <3>2. CASE e = <<asked, candidate>>
      <4>1. e[1] = asked /\ e[2] = candidate
        BY <3>2
      <4>2. QED
        BY <2>1, <4>1
    <3>3. QED
      BY <2>2, <3>1, <3>2
  <2>4. QED
    BY <2>2, <2>3 DEF WalkInv
<1>11. CASE UNCHANGED vars
  <2>1. asked' = asked /\ now' = now
    BY <1>11 DEF vars, asked, now, digest_scalar, bits2int, qlen_bits
  <2>2. QED
    BY <1>3, <1>11, <2>1 DEF vars, WalkInv
<1>12. QED
  BY <1>4, <1>5, <1>6, <1>7, <1>8, <1>9, <1>10, <1>11 DEF Next

LEMMA WalkInvInit == Init => WalkInv
BY DEF Init, WalkInv

(* Accept answers what every call with the same key and digest scalar was  *)
(* answered before: the walks of the two end alike.                        *)
LEMMA AnswersAgree ==
  ASSUME RInv, WalkInv, Accept, NEW e \in nonces, e[1] = asked
  PROVE  e[2] = candidate
<1>1. PICK s : Reaches(q, mac, e[1], s) /\ halted(q, s) /\ e[2] = nonce_of(q, s)
  BY DEF WalkInv
<1>2. Reaches(q, mac, asked, now) /\ halted(q, now) /\ candidate = nonce_of(q, now)
  BY SameOrder DEF Accept, WalkInv
<1>3. IsFunction(mac)
  BY DEF IsFunction, RInv, MacOK
<1>4. s = now
  BY <1>1, <1>2, <1>3, WalksEndAlike
<1>5. QED
  BY <1>1, <1>2, <1>4

(* derive_nonce is one function of the key and the digest scalar, whatever *)
(* calls came before and whatever HMAC is.                                 *)
THEOREM DerivesOneFunction == Spec => ImplementsNonceFunction
<1> DEFINE in == IF pc = "idle" THEN None ELSE <<d, digest_scalar(h)>>
<1>1. Init => Function!Init
  BY DEF Init, Function!Init
<1>2. ASSUME RInv, WalkInv, [Next]_vars
      PROVE  [Function!Next]_<<in, nonces>>
  <2>1. ASSUME q' = q, d' = d, h' = h, nonces' = nonces, (pc = "idle") <=> (pc' = "idle")
        PROVE  UNCHANGED <<in, nonces>>
    BY <2>1 DEF digest_scalar, bits2int, qlen_bits
  <2>2. q \in Orders /\ \A x \in Digests : digest_scalar(x) \in 0..(q - 1)
    <3>1. q \in Orders
      BY <1>2 DEF RInv, TypeOK
    <3>2. \A x \in Digests : digest_scalar(x) \in Nat /\ digest_scalar(x) < q
      BY <3>1, DataTypes, DigestScalarType
    <3>3. QED
      BY <3>1, <3>2, OrderSize
  <2>3. ASSUME NEW dd \in Keys, NEW hh \in Digests, Call(dd, hh)
        PROVE  Function!Next
    <3>1. pc = "idle" /\ pc' # "idle" /\ d' = dd /\ h' = hh /\ q' = q /\ nonces' = nonces
      BY <2>3 DEF Call
    <3>2. in = None /\ in' = <<dd, digest_scalar(hh)>>
      BY <3>1 DEF digest_scalar, bits2int, qlen_bits
    <3>3. <<dd, digest_scalar(hh)>> \in UNION {Keys \X (0..(o - 1)) : o \in Orders}
      BY <2>2
    <3>4. Function!Ask(<<dd, digest_scalar(hh)>>)
      BY <3>1, <3>2 DEF Function!Ask
    <3>5. QED
      BY <3>3, <3>4 DEF Function!Next
  <2>4. ASSUME Accept PROVE Function!Next
    <3>1. /\ pc # "idle" /\ pc' = "idle" /\ in = asked /\ in' = None
          /\ nonces' = nonces \cup {<<asked, candidate>>}
      BY <2>4 DEF Accept, asked
    <3>2. asked # None
      <4>1. d \in Keys /\ digest_scalar(h) \in 0..(q - 1)
        BY <1>2, <2>2, <3>1 DEF RInv, CallOK
      <4>2. asked \in Keys \X (0..(q - 1))
        BY <4>1 DEF asked
      <4>3. QED
        BY <2>2, <4>2, Rfc6979Assumption
    <3>3. \A e \in nonces : e[1] = asked => e[2] = candidate
      BY <1>2, <2>4, AnswersAgree
    <3>4. candidate \in UNION {1..(o - 1) : o \in Orders}
      <4>1. RInv'
        BY <1>2, RInvNext
      <4>2. <<asked, candidate>> \in nonces' /\ q' = q
        BY <2>4, <3>1 DEF Accept
      <4>3. <<asked, candidate>>[2] \in 1..(q - 1)
        BY <4>1, <4>2 DEF RInv, TypeOK
      <4>4. candidate \in 1..(q - 1)
        BY <4>3
      <4>5. QED
        BY <2>2, <4>4
    <3>5. Function!Answer(candidate)
      BY <3>1, <3>2, <3>3 DEF Function!Answer
    <3>6. QED
      BY <3>4, <3>5 DEF Function!Next
  <2>5. ASSUME NEW step, NEW separator, NEW next, Rekey(step, separator, next),
               step # "idle", next # "idle"
        PROVE  UNCHANGED <<in, nonces>>
    BY <2>1, <2>5 DEF Rekey
  <2>6. ASSUME NEW step, NEW next, Revalue(step, next), step # "idle", next # "idle"
        PROVE  UNCHANGED <<in, nonces>>
    BY <2>1, <2>6 DEF Revalue
  <2>7. ASSUME Extend \/ Reseed PROVE UNCHANGED <<in, nonces>>
    BY <2>1, <2>7 DEF Extend, Reseed
  <2>8. CASE UNCHANGED vars
    BY <2>1, <2>8 DEF vars
  <2>9. QED
    BY <1>2, <2>3, <2>4, <2>5, <2>6, <2>7, <2>8 DEF Next
<1>3. Spec => [](RInv /\ WalkInv)
  <2>1. Init => RInv /\ WalkInv
    BY RInvInit, WalkInvInit
  <2>2. (RInv /\ WalkInv) /\ [Next]_vars => (RInv /\ WalkInv)'
    BY RInvNext, WalkInvNext
  <2>3. QED
    BY <2>1, <2>2, PTL DEF Spec
<1>4. QED
  BY <1>1, <1>2, <1>3, PTL DEF Spec, ImplementsNonceFunction, Function!Spec
=============================================================================
