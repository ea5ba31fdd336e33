------------------------- MODULE RuntimeCodecProofs -------------------------
(***************************************************************************)
(* Proofs about the primitive formats, for every even number of values of  *)
(* a byte, about streams of them of any length, and about the queue of the *)
(* parser that follows offsets.                                            *)
(***************************************************************************)
EXTENDS RuntimeCodec, OffsetQueue, DataInduction

-----------------------------------------------------------------------------
(* Arithmetic. *)

\* Quotient and remainder are what they have to be.
LEMMA DivUnique ==
  ASSUME NEW q \in Nat, NEW r \in Nat, NEW m \in Nat, r < m
  PROVE  (r + m * q) \div m = q /\ (r + m * q) % m = r
OBVIOUS

\* A number is its quotient and its remainder.
LEMMA DivMod ==
  ASSUME NEW v \in Nat, NEW m \in Nat \ {0}
  PROVE  /\ v \div m \in Nat /\ v % m \in 0 .. m - 1
         /\ v = (v % m) + m * (v \div m)
OBVIOUS

\* A product of naturals, one of them positive.
LEMMA Products ==
  ASSUME NEW a \in Nat, NEW b \in Nat, NEW c \in Nat
  PROVE  /\ a * b \in Nat /\ a * b = b * a
         /\ a * (b + c) = a * b + a * c
         /\ (a * b) * c = a * (b * c)
         /\ b <= c => a * b <= a * c
OBVIOUS

\* The remainder by a product: one more digit.
LEMMA ModProduct ==
  ASSUME NEW v \in Nat, NEW p \in Nat \ {0}, NEW m \in Nat \ {0}
  PROVE  v % (m * p) = (v % p) + ((v \div p) % m) * p
<1> DEFINE q == v \div p
           d == q % m
           e == q \div m
           r == v % p
<1>1. q \in Nat /\ r \in 0 .. p - 1 /\ v = r + p * q
  BY DivMod
<1>2. d \in 0 .. m - 1 /\ e \in Nat /\ q = d + m * e
  BY <1>1, DivMod
<1> HIDE DEF q, d, e, r
<1>3. p * q = p * d + p * (m * e)
  BY <1>1, <1>2, Products
<1>4. p * (m * e) = (m * p) * e /\ p * d = d * p
  BY <1>2, Products
<1>5. v = (r + d * p) + (m * p) * e
  BY <1>1, <1>2, <1>3, <1>4
<1>6. r + d * p \in Nat /\ r + d * p < m * p /\ m * p \in Nat
  <2>1. d * p \in Nat /\ m * p \in Nat /\ p * d <= p * (m - 1) /\ p * m = p * (m - 1) + p * 1
    BY <1>2, Products
  <2> QED BY <1>1, <1>2, <1>4, <2>1
<1>7. v % (m * p) = r + d * p
  BY <1>2, <1>5, <1>6, DivUnique
<1> QED BY <1>7 DEF d, r, q

-----------------------------------------------------------------------------
(* Weights, sizes and places. *)

\* The weights are the powers of the radix.
LEMMA WeightDef ==
  /\ Weight \in [0 .. 8 -> Nat \ {0}] /\ Weight[0] = 1
  /\ \A k \in 1 .. 8 : Weight[k] = Radix * Weight[k - 1]
<1> DEFINE P == Nat \ {0}
           step == [x \in P \X Nat |-> Radix * x[1]]
           body(f) == [k \in 0 .. 8 |-> IF k = 0 THEN 1 ELSE Radix * f[k - 1]]
<1>1. step \in [P \X Nat -> P]
  <2> SUFFICES ASSUME NEW a \in P PROVE Radix * a \in P
    OBVIOUS
  <2>1. Radix \in Nat /\ Radix >= 1 /\ a \in Nat /\ a * 1 <= a * Radix
    BY RadixAssumption, Products
  <2> QED BY <2>1, Products
<1>2. PICK f : IsIteration(f, P, 1, 8, step)
  <2> HIDE DEF step
  <2>1. 1 \in P /\ 8 \in Nat
    OBVIOUS
  <2> HIDE DEF P
  <2> QED BY <1>1, <2>1, Iteration
<1>3. f = body(f)
  <2>1. f \in [0 .. 8 -> P] /\ f[0] = 1 /\ \A k \in 1 .. 8 : f[k] = step[<<f[k - 1], k>>]
    BY <1>2 DEF IsIteration
  <2>2. \A k \in 1 .. 8 : f[k] = Radix * f[k - 1]
    <3> SUFFICES ASSUME NEW k \in 1 .. 8 PROVE f[k] = Radix * f[k - 1]
      OBVIOUS
    <3>1. f[k - 1] \in P /\ k \in Nat
      BY <2>1
    <3> QED BY <2>1, <3>1
  <2> QED BY <2>1, <2>2
<1>4. Weight = body(Weight)
  <2>1. Weight = CHOOSE g : g = body(g)
    BY DEF Weight
  <2> HIDE DEF body
  <2> QED BY <1>3, <2>1
<1>5. Weight[0] = 1 /\ \A k \in 1 .. 8 : Weight[k] = Radix * Weight[k - 1]
  BY <1>4
<1>6. DOMAIN Weight = 0 .. 8 /\ Weight = [k \in 0 .. 8 |-> Weight[k]]
  BY <1>4
<1>7. \A k \in 0 .. 8 : Weight[k] = f[k]
  <2> DEFINE T == {k \in Nat : k \in 0 .. 8 => Weight[k] = f[k]}
  <2>1. f[0] = 1 /\ \A k \in 1 .. 8 : f[k] = Radix * f[k - 1]
    BY <1>3
  <2>2. 0 \in T
    BY <1>5, <2>1
  <2>3. ASSUME NEW k \in Nat, k \in T PROVE k + 1 \in T
    BY <1>5, <2>1, <2>3
  <2>4. Nat \subseteq T
    <3> HIDE DEF T
    <3> QED BY <2>2, <2>3, SetInduction
  <2> QED BY <2>4
<1>8. \A k \in 0 .. 8 : Weight[k] \in P
  BY <1>2, <1>7 DEF IsIteration
<1> QED BY <1>5, <1>6, <1>8

\* A format has one, two, four or eight bytes.
LEMMA SizeCases == ASSUME NEW f PROVE Size(f) \in {1, 2, 4, 8} /\ Size(f) \in 1 .. 8
BY DEF Size

\* Byte and place name each other.
LEMMA PlaceOfByte ==
  ASSUME NEW f
  PROVE  /\ \A i \in 1 .. Size(f) : Place(f, i) \in 0 .. Size(f) - 1 /\ ByteAt(f, Place(f, i)) = i
         /\ \A p \in 0 .. Size(f) - 1 : ByteAt(f, p) \in 1 .. Size(f) /\ Place(f, ByteAt(f, p)) = p
BY SizeCases DEF Place, ByteAt

\* The partial sums of read_unchecked.
IsSum(sum, f, bytes) ==
  /\ sum \in [0 .. Size(f) -> Nat] /\ sum[0] = 0
  /\ \A p \in 1 .. Size(f) : sum[p] = sum[p - 1] + bytes[ByteAt(f, p - 1)] * Weight[p - 1]

\* What read_unchecked returns is the last of them.
LEMMA ReadUnsignedDef ==
  ASSUME NEW f, NEW bytes \in [1 .. Size(f) -> Byte]
  PROVE  \E sum : IsSum(sum, f, bytes) /\ ReadUnsigned(f, bytes) = sum[Size(f)]
<1> DEFINE n == Size(f)
           add(s, p) == s + bytes[ByteAt(f, p - 1)] * Weight[p - 1]
           step == [x \in Nat \X Nat |-> IF x[2] \in 1 .. n THEN add(x[1], x[2]) ELSE 0]
           body(g) == [p \in 0 .. n |-> IF p = 0 THEN 0 ELSE add(g[p - 1], p)]
           sum == CHOOSE g : g = body(g)
<1>1. n \in 1 .. 8
  BY SizeCases
<1>2. \A s \in Nat, p \in 1 .. n : add(s, p) \in Nat
  <2> SUFFICES ASSUME NEW s \in Nat, NEW p \in 1 .. n PROVE add(s, p) \in Nat
    OBVIOUS
  <2>1. p - 1 \in 0 .. n - 1 /\ p - 1 \in 0 .. 8
    BY <1>1
  <2>2. bytes[ByteAt(f, p - 1)] \in Nat
    <3>1. ByteAt(f, p - 1) \in 1 .. Size(f)
      BY <2>1, PlaceOfByte
    <3>2. bytes[ByteAt(f, p - 1)] \in Byte
      BY <3>1
    <3> QED BY <3>2, RadixAssumption DEF Byte
  <2>3. Weight[p - 1] \in Nat
    BY <2>1, WeightDef
  <2> QED BY <2>2, <2>3, Products
<1>3. step \in [Nat \X Nat -> Nat]
  BY <1>2
<1>4. PICK g : IsIteration(g, Nat, 0, n, step)
  <2> HIDE DEF step, n
  <2>1. 0 \in Nat /\ n \in Nat
    BY <1>1
  <2> QED BY <1>3, <2>1, Iteration
<1>5. g \in [0 .. n -> Nat] /\ g = body(g)
  <2>1. g \in [0 .. n -> Nat] /\ g[0] = 0 /\ \A p \in 1 .. n : g[p] = step[<<g[p - 1], p>>]
    BY <1>4 DEF IsIteration
  <2>2. \A p \in 1 .. n : g[p] = add(g[p - 1], p)
    <3> SUFFICES ASSUME NEW p \in 1 .. n PROVE g[p] = add(g[p - 1], p)
      OBVIOUS
    <3>1. g[p - 1] \in Nat /\ p \in Nat
      BY <1>1, <2>1
    <3> HIDE DEF n, add
    <3> QED BY <2>1, <3>1
  <2> HIDE DEF add
  <2> QED BY <1>1, <2>1, <2>2
<1>6. sum = body(sum)
  <2> HIDE DEF body
  <2> QED BY <1>5
<1>7. ReadUnsigned(f, bytes) = sum[n]
  BY DEF ReadUnsigned
<1> HIDE DEF sum
<1>8. sum[0] = 0 /\ \A p \in 1 .. n : sum[p] = add(sum[p - 1], p)
  BY <1>1, <1>6
<1>9. \A p \in 0 .. n : sum[p] \in Nat
  <2> DEFINE T == {p \in Nat : p \in 0 .. n => sum[p] \in Nat}
  <2> HIDE DEF add, n
  <2>1. 0 \in T
    BY <1>8
  <2>2. ASSUME NEW p \in Nat, p \in T PROVE p + 1 \in T
    <3>1. CASE p + 1 \in 0 .. n
      <4>1. p \in 0 .. n /\ p + 1 \in 1 .. n /\ (p + 1) - 1 = p
        BY <1>1, <3>1
      <4>2. sum[p] \in Nat
        BY <2>2, <4>1
      <4> QED BY <1>2, <1>8, <4>1, <4>2
    <3> QED BY <3>1
  <2>3. Nat \subseteq T
    <3> HIDE DEF T
    <3> QED BY <2>1, <2>2, SetInduction
  <2> QED BY <1>1, <2>3
<1>10. sum \in [0 .. n -> Nat]
  BY <1>6, <1>9
<1>11. IsSum(sum, f, bytes)
  BY <1>8, <1>10 DEF IsSum
<1> QED BY <1>7, <1>11

-----------------------------------------------------------------------------
(* The unsigned formats. *)

\* write gives one byte per place.
LEMMA WriteUnsignedType ==
  ASSUME NEW f, NEW v \in Nat
  PROVE  WriteUnsigned(f, v) \in [1 .. Size(f) -> Byte]
<1> SUFFICES ASSUME NEW i \in 1 .. Size(f)
             PROVE  (v \div Weight[Place(f, i)]) % Radix \in Byte
  BY DEF WriteUnsigned
<1>1. Place(f, i) \in 0 .. 8
  BY SizeCases, PlaceOfByte
<1>2. Weight[Place(f, i)] \in Nat \ {0}
  BY <1>1, WeightDef
<1>3. v \div Weight[Place(f, i)] \in Nat
  BY <1>2, DivMod
<1> QED BY <1>3, RadixAssumption, DivMod DEF Byte

\* A sum of k bytes is less than the weight of the next.
LEMMA SumBound ==
  ASSUME NEW f, NEW bytes \in [1 .. Size(f) -> Byte], NEW sum, IsSum(sum, f, bytes)
  PROVE  \A p \in 0 .. Size(f) : sum[p] \in 0 .. Weight[p] - 1
<1> DEFINE n == Size(f)
           T == {p \in Nat : p \in 0 .. n => sum[p] \in 0 .. Weight[p] - 1}
<1>1. n \in 1 .. 8
  BY SizeCases
<1>2. 0 \in T
  BY WeightDef DEF IsSum
<1>3. ASSUME NEW p \in Nat, p \in T, p + 1 \in 0 .. n
      PROVE  sum[p + 1] \in 0 .. Weight[p + 1] - 1
  <2> DEFINE w == Weight[p]
             b == bytes[ByteAt(f, p)]
  <2>1. p \in 0 .. n - 1 /\ p \in 0 .. n /\ p + 1 \in 1 .. n /\ (p + 1) - 1 = p /\ p \in 0 .. 8 /\ p + 1 \in 1 .. 8
    BY <1>1, <1>3
  <2>2. w \in Nat \ {0} /\ Weight[p + 1] = Radix * w
    BY <2>1, WeightDef
  <2>3. ByteAt(f, p) \in 1 .. n
    BY <2>1, PlaceOfByte
  <2>4. b \in 0 .. Radix - 1 /\ Radix \in Nat
    BY <2>3, RadixAssumption DEF Byte
  <2>5. sum[p + 1] = sum[p] + b * w
    BY <2>1 DEF IsSum
  <2>6. sum[p] \in 0 .. w - 1
    BY <1>3, <2>1
  <2> HIDE DEF w, b
  <2>7. b * w = w * b /\ w * b \in Nat /\ w * b <= w * (Radix - 1) /\ w * ((Radix - 1) + 1) = w * (Radix - 1) + w * 1
        /\ Radix * w = w * Radix
    BY <2>2, <2>4, RadixAssumption, Products
  <2> QED BY <2>2, <2>4, <2>5, <2>6, <2>7
<1>4. Nat \subseteq T
  <2>1. \A p \in Nat : p \in T => p + 1 \in T
    BY <1>3
  <2> HIDE DEF T
  <2> QED BY <1>2, <2>1, SetInduction
<1> QED BY <1>1, <1>4

\* What was written is read.
LEMMA ReadOfWrite ==
  ASSUME NEW f, NEW v \in 0 .. Weight[Size(f)] - 1
  PROVE  ReadUnsigned(f, WriteUnsigned(f, v)) = v
<1> DEFINE n == Size(f)
           bytes == WriteUnsigned(f, v)
<1>1. n \in 1 .. 8 /\ Weight[n] \in Nat \ {0} /\ v \in Nat
  BY SizeCases, WeightDef
<1>2. bytes \in [1 .. Size(f) -> Byte]
  BY <1>1, WriteUnsignedType
<1>3. PICK sum : IsSum(sum, f, bytes) /\ ReadUnsigned(f, bytes) = sum[n]
  <2> HIDE DEF bytes
  <2> QED BY <1>2, ReadUnsignedDef
<1> DEFINE T == {p \in Nat : p \in 0 .. n => sum[p] = v % Weight[p]}
<1>4. 0 \in T
  <2>1. v % 1 = 0
    BY <1>1
  <2> QED BY <1>3, <2>1, WeightDef DEF IsSum
<1>5. ASSUME NEW p \in Nat, p \in T, p + 1 \in 0 .. n
      PROVE  sum[p + 1] = v % Weight[p + 1]
  <2> DEFINE w == Weight[p]
  <2>1. p \in 0 .. n - 1 /\ p \in 0 .. n /\ p + 1 \in 1 .. n /\ (p + 1) - 1 = p /\ p \in 0 .. 8 /\ p + 1 \in 1 .. 8
    BY <1>1, <1>5
  <2>2. w \in Nat \ {0} /\ Weight[p + 1] = Radix * w
    BY <2>1, WeightDef
  <2>3. bytes[ByteAt(f, p)] = (v \div w) % Radix
    <3>1. ByteAt(f, p) \in 1 .. n /\ Place(f, ByteAt(f, p)) = p
      BY <2>1, PlaceOfByte
    <3> QED BY <3>1 DEF WriteUnsigned
  <2> HIDE DEF bytes
  <2>4. sum[p + 1] = sum[p] + bytes[ByteAt(f, p)] * w
    BY <1>3, <2>1 DEF IsSum
  <2>5. sum[p] = v % w
    BY <1>5, <2>1
  <2>6. v % (Radix * w) = (v % w) + ((v \div w) % Radix) * w
    <3> HIDE DEF w
    <3> QED BY <1>1, <2>2, RadixAssumption, ModProduct
  <2> QED BY <2>2, <2>3, <2>4, <2>5, <2>6
<1>6. Nat \subseteq T
  <2>1. \A p \in Nat : p \in T => p + 1 \in T
    BY <1>5
  <2> HIDE DEF T
  <2> QED BY <1>4, <2>1, SetInduction
<1>7. sum[n] = v % Weight[n]
  BY <1>1, <1>6
<1>8. v % Weight[n] = v
  <2> DEFINE w == Weight[n]
  <2>1. v = v + w * 0 /\ v < w
    BY <1>1
  <2> HIDE DEF w
  <2> QED BY <1>1, <2>1, DivUnique DEF w
<1> QED BY <1>3, <1>7, <1>8

\* Behind a place, a sum grows by multiples of the weight of that place.
LEMMA SumSplit ==
  ASSUME NEW f, NEW bytes \in [1 .. Size(f) -> Byte], NEW sum, IsSum(sum, f, bytes),
         NEW p \in 0 .. Size(f)
  PROVE  \E q \in Nat : sum[Size(f)] = sum[p] + Weight[p] * q
<1> DEFINE n == Size(f)
           w == Weight[p]
           Grown(k) == \E q, m \in Nat : sum[p + k] = sum[p] + w * q /\ Weight[p + k] = w * m
           T == {k \in Nat : p + k \in 0 .. n => Grown(k)}
<1>1. n \in 1 .. 8 /\ p \in 0 .. 8 /\ p \in Nat
  BY SizeCases
<1>2. w \in Nat \ {0} /\ sum[p] \in Nat
  BY <1>1, WeightDef DEF IsSum
<1>3. 0 \in T
  <2>1. sum[p + 0] = sum[p] + w * 0 /\ Weight[p + 0] = w * 1
    BY <1>1, <1>2
  <2> QED BY <2>1
<1>4. ASSUME NEW k \in Nat, k \in T, p + (k + 1) \in 0 .. n
      PROVE  Grown(k + 1)
  <2> DEFINE j == p + k
             b == bytes[ByteAt(f, j)]
  <2>1. j \in 0 .. n - 1 /\ j \in 0 .. n /\ j + 1 \in 1 .. n /\ (j + 1) - 1 = j /\ j + 1 \in 1 .. 8 /\ p + (k + 1) = j + 1
    BY <1>1, <1>4
  <2>2. ByteAt(f, j) \in 1 .. n
    BY <2>1, PlaceOfByte
  <2>3. b \in Nat /\ Radix \in Nat
    BY <2>2, RadixAssumption DEF Byte
  <2>4. sum[j + 1] = sum[j] + b * Weight[j] /\ Weight[j + 1] = Radix * Weight[j]
    BY <2>1, WeightDef DEF IsSum
  <2>5. PICK q, m \in Nat : sum[j] = sum[p] + w * q /\ Weight[j] = w * m
    BY <1>4, <2>1
  <2> HIDE DEF j, b, w
  <2>6. b * (w * m) = w * (b * m) /\ Radix * (w * m) = w * (Radix * m) /\ b * m \in Nat /\ Radix * m \in Nat
        /\ w * (q + b * m) = w * q + w * (b * m) /\ q + b * m \in Nat
    BY <1>2, <2>3, <2>5, Products
  <2>7. w * q \in Nat /\ w * (b * m) \in Nat
    BY <1>2, <2>5, <2>6, Products
  <2>8. sum[j + 1] = sum[p] + w * (q + b * m) /\ Weight[j + 1] = w * (Radix * m)
    BY <1>2, <2>4, <2>5, <2>6, <2>7
  <2> QED BY <2>1, <2>6, <2>8
<1>5. Nat \subseteq T
  <2>1. \A k \in Nat : k \in T => k + 1 \in T
    BY <1>4
  <2> HIDE DEF T
  <2> QED BY <1>3, <2>1, SetInduction
<1>6. n - p \in Nat /\ p + (n - p) = n /\ p + (n - p) \in 0 .. n
  BY <1>1
<1>7. Grown(n - p)
  BY <1>5, <1>6
<1> QED BY <1>6, <1>7

\* What was read is written, byte by byte.
LEMMA WriteOfRead ==
  ASSUME NEW f, NEW bytes \in [1 .. Size(f) -> Byte]
  PROVE  /\ ReadUnsigned(f, bytes) \in 0 .. Weight[Size(f)] - 1
         /\ WriteUnsigned(f, ReadUnsigned(f, bytes)) = bytes
<1> DEFINE n == Size(f)
           v == ReadUnsigned(f, bytes)
<1>1. n \in 1 .. 8
  BY SizeCases
<1>2. PICK sum : IsSum(sum, f, bytes) /\ v = sum[n]
  BY ReadUnsignedDef
<1>3. \A p \in 0 .. n : sum[p] \in 0 .. Weight[p] - 1
  BY <1>2, SumBound
<1>4. v \in 0 .. Weight[n] - 1
  BY <1>1, <1>2, <1>3
<1> HIDE DEF v
<1>5. ASSUME NEW i \in 1 .. n
      PROVE  (v \div Weight[Place(f, i)]) % Radix = bytes[i]
  <2> DEFINE p == Place(f, i)
             w == Weight[p]
             b == bytes[i]
  <2>1. p \in 0 .. n - 1 /\ ByteAt(f, p) = i
    BY PlaceOfByte
  <2> HIDE DEF p
  <2>2. p \in 0 .. n /\ p + 1 \in 0 .. n /\ p + 1 \in 1 .. n /\ (p + 1) - 1 = p /\ p \in 0 .. 8 /\ p + 1 \in 1 .. 8
    BY <1>1, <2>1
  <2>3. w \in Nat \ {0} /\ Weight[p + 1] = Radix * w
    BY <2>2, WeightDef
  <2>4. b \in 0 .. Radix - 1 /\ Radix \in Nat
    BY RadixAssumption DEF Byte
  <2>5. sum[p + 1] = sum[p] + b * w
    BY <1>2, <2>1, <2>2 DEF IsSum
  <2>6. PICK q \in Nat : sum[n] = sum[p + 1] + Weight[p + 1] * q
    BY <1>2, <2>2, SumSplit
  <2>7. sum[p] \in 0 .. w - 1
    BY <1>3, <2>2
  <2> HIDE DEF w, b
  <2>8. b * w = w * b /\ (Radix * w) * q = w * (Radix * q) /\ w * (b + Radix * q) = w * b + w * (Radix * q)
        /\ b + Radix * q \in Nat /\ w * b \in Nat /\ w * (Radix * q) \in Nat
    BY <2>3, <2>4, <2>6, Products
  <2>9. v = sum[p] + w * (b + Radix * q)
    BY <1>2, <2>3, <2>5, <2>6, <2>7, <2>8
  <2>10. v \div w = b + Radix * q
    <3> DEFINE e == b + Radix * q
    <3> HIDE DEF e
    <3>1. e \in Nat /\ v = sum[p] + w * e /\ sum[p] \in Nat /\ sum[p] < w
      BY <2>3, <2>7, <2>8, <2>9 DEF e
    <3>2. v \div w = e
      BY <2>3, <3>1, DivUnique
    <3> QED BY <3>2 DEF e
  <2>11. (b + Radix * q) % Radix = b
    BY <2>4, <2>6, DivUnique
  <2> QED BY <2>10, <2>11 DEF w, p, b
<1>6. WriteUnsigned(f, v) = bytes
  BY <1>5 DEF WriteUnsigned
<1> QED BY <1>4, <1>6 DEF v

-----------------------------------------------------------------------------
(* All formats. *)

\* The weight of a format is even: half of its values are negative.
LEMMA WeightEven ==
  ASSUME NEW f
  PROVE  \E h \in Nat \ {0} : Weight[Size(f)] = 2 * h /\ Weight[Size(f)] \div 2 = h
<1>1. Size(f) \in 1 .. 8 /\ Size(f) - 1 \in 0 .. 8
  BY SizeCases
<1>2. PICK r \in Nat \ {0} : Radix = 2 * r
  <2>1. Radix = (Radix % 2) + 2 * (Radix \div 2) /\ Radix \div 2 \in Nat
    BY RadixAssumption, DivMod
  <2>2. Radix = 2 * (Radix \div 2) /\ Radix \div 2 # 0
    BY <2>1, RadixAssumption
  <2> QED BY <2>1, <2>2
<1> DEFINE w == Weight[Size(f) - 1]
<1>3. w \in Nat \ {0} /\ Weight[Size(f)] = Radix * w
  BY <1>1, WeightDef
<1> HIDE DEF w
<1>4. r * w \in Nat /\ (2 * r) * w = 2 * (r * w) /\ w * 1 <= w * r /\ r * w = w * r
  BY <1>2, <1>3, Products
<1>5. r * w \in Nat \ {0} /\ Weight[Size(f)] = 2 * (r * w)
  BY <1>2, <1>3, <1>4
<1>6. Weight[Size(f)] \div 2 = r * w
  <2> DEFINE h == r * w
  <2> HIDE DEF h
  <2>1. h \in Nat /\ Weight[Size(f)] = 0 + 2 * h
    BY <1>5 DEF h
  <2> QED BY <2>1, DivUnique DEF h
<1> QED BY <1>5, <1>6

\* The two's complement of a signed type and its unsigned twin are one to one.
LEMMA TwosComplement ==
  ASSUME NEW f \in Signed
  PROVE  /\ \A v \in Host(f) : /\ AsUnsigned(f, v) \in 0 .. Weight[Size(f)] - 1
                               /\ AsSigned(f, AsUnsigned(f, v)) = v
         /\ \A u \in 0 .. Weight[Size(f)] - 1 : /\ AsSigned(f, u) \in Host(f)
                                                /\ AsUnsigned(f, AsSigned(f, u)) = u
<1> DEFINE w == Weight[Size(f)]
<1>1. PICK h \in Nat \ {0} : w = 2 * h /\ w \div 2 = h
  BY WeightEven
<1>2. Host(f) = -h .. h - 1
  BY <1>1 DEF Host
<1> HIDE DEF w
<1>3. \A v \in 0 .. w - 1 : v % w = v
  BY <1>1
<1>4. \A v \in -w .. -1 : v % w = v + w
  <2> SUFFICES ASSUME NEW v \in -w .. -1 PROVE v % w = v + w
    OBVIOUS
  <2>1. v = w * (-1) + (v + w) /\ v + w \in 0 .. w - 1
    BY <1>1
  <2> QED BY <1>1, <2>1
<1>5. ASSUME NEW v \in Host(f)
      PROVE  AsUnsigned(f, v) \in 0 .. w - 1 /\ AsSigned(f, AsUnsigned(f, v)) = v
  <2>1. CASE v >= 0
    <3>1. v \in 0 .. w - 1 /\ v % w = v /\ ~(2 * v >= w)
      BY <1>1, <1>2, <1>3, <2>1
    <3> QED BY <3>1 DEF AsUnsigned, AsSigned, w
  <2>2. CASE v < 0
    BY <1>1, <1>2, <1>4, <2>2 DEF AsUnsigned, AsSigned, w
  <2> QED BY <1>2, <2>1, <2>2
<1>6. ASSUME NEW u \in 0 .. w - 1
      PROVE  AsSigned(f, u) \in Host(f) /\ AsUnsigned(f, AsSigned(f, u)) = u
  <2>1. CASE 2 * u >= w
    BY <1>1, <1>2, <1>4, <2>1 DEF AsUnsigned, AsSigned, w
  <2>2. CASE ~(2 * u >= w)
    BY <1>1, <1>2, <1>3, <2>2 DEF AsUnsigned, AsSigned, w
  <2> QED BY <2>1, <2>2
<1> QED BY <1>5, <1>6 DEF w

\* Every host value is written as Size(f) bytes that read back as the value.
THEOREM CodecRoundTrip ==
  ASSUME NEW f \in PrimitiveFormat, NEW v \in Host(f)
  PROVE  /\ Encode(f, v) \in [1 .. Size(f) -> Byte]
         /\ Decode(f, Encode(f, v)) = v
<1>1. Weight[Size(f)] \in Nat \ {0}
  BY SizeCases, WeightDef
<1>2. CASE f \in Signed
  <2> DEFINE u == AsUnsigned(f, v)
  <2>1. u \in 0 .. Weight[Size(f)] - 1 /\ AsSigned(f, u) = v
    BY <1>2, TwosComplement
  <2> HIDE DEF u
  <2>2. WriteUnsigned(f, u) \in [1 .. Size(f) -> Byte] /\ ReadUnsigned(f, WriteUnsigned(f, u)) = u
    BY <1>1, <2>1, WriteUnsignedType, ReadOfWrite
  <2> QED BY <1>2, <2>1, <2>2 DEF Encode, Decode, u
<1>3. CASE f \notin Signed
  <2>1. v \in 0 .. Weight[Size(f)] - 1
    BY <1>3 DEF Host
  <2>2. WriteUnsigned(f, v) \in [1 .. Size(f) -> Byte] /\ ReadUnsigned(f, WriteUnsigned(f, v)) = v
    BY <1>1, <2>1, WriteUnsignedType, ReadOfWrite
  <2> QED BY <1>3, <2>1, <2>2 DEF Encode, Decode
<1> QED BY <1>2, <1>3

\* Size(f) bytes, whatever they are, read as a host value that is written as them.
THEOREM CodecFaithful ==
  ASSUME NEW f \in PrimitiveFormat, NEW bytes \in [1 .. Size(f) -> Byte]
  PROVE  Decode(f, bytes) \in Host(f) /\ Encode(f, Decode(f, bytes)) = bytes
<1> DEFINE u == ReadUnsigned(f, bytes)
<1>1. u \in 0 .. Weight[Size(f)] - 1 /\ WriteUnsigned(f, u) = bytes
  BY WriteOfRead
<1> HIDE DEF u
<1>2. CASE f \in Signed
  <2>1. AsSigned(f, u) \in Host(f) /\ AsUnsigned(f, AsSigned(f, u)) = u
    BY <1>1, <1>2, TwosComplement
  <2> QED BY <1>1, <1>2, <2>1 DEF Encode, Decode, u
<1>3. CASE f \notin Signed
  <2>1. u \in Host(f)
    BY <1>1, <1>3 DEF Host
  <2> QED BY <1>1, <1>3, <2>1 DEF Encode, Decode, u
<1> QED BY <1>2, <1>3

-----------------------------------------------------------------------------
(* Streams of values. *)

\* A format and one of its host values.
Value == {x \in PrimitiveFormat \X Int : x[2] \in Host(x[1])}

EncodeValue(x) == Encode(x[1], x[2])

\* A value is written as a sequence of as many bytes as its format has, and values
\* of one format that are written alike are the same.
LEMMA EncodeIsSeq ==
  ASSUME NEW x \in Value
  PROVE  /\ EncodeValue(x) \in Seq(Byte) /\ Len(EncodeValue(x)) = Size(x[1]) /\ Size(x[1]) \in Nat \ {0}
         /\ \A y \in Value : x[1] = y[1] /\ EncodeValue(x) = EncodeValue(y) => x = y
<1>1. x[1] \in PrimitiveFormat /\ x[2] \in Host(x[1]) /\ Size(x[1]) \in Nat \ {0}
  BY SizeCases DEF Value
<1>2. EncodeValue(x) \in [1 .. Size(x[1]) -> Byte]
  BY <1>1, CodecRoundTrip DEF EncodeValue
<1>3. EncodeValue(x) \in Seq(Byte) /\ Len(EncodeValue(x)) = Size(x[1])
  BY <1>1, <1>2, SegmentIsSeq
<1>4. ASSUME NEW y \in Value, x[1] = y[1], EncodeValue(x) = EncodeValue(y) PROVE x = y
  <2>1. y[1] \in PrimitiveFormat /\ y[2] \in Host(y[1])
    BY DEF Value
  <2>2. Decode(x[1], Encode(x[1], x[2])) = x[2]
    BY <1>1, CodecRoundTrip
  <2>3. Decode(y[1], Encode(y[1], y[2])) = y[2]
    BY <2>1, CodecRoundTrip
  <2>4. x[2] = y[2]
    BY <1>4, <2>2, <2>3 DEF EncodeValue
  <2>5. x = <<x[1], x[2]>> /\ y = <<y[1], y[2]>>
    BY DEF Value
  <2> QED BY <1>4, <2>4, <2>5
<1> QED BY <1>1, <1>3, <1>4

\* The bytes of the first i values of a stream.
IsParts(parts, stream) ==
  /\ parts \in [0 .. Len(stream) -> Seq(Byte)] /\ parts[0] = <<>>
  /\ \A i \in 1 .. Len(stream) : parts[i] = parts[i - 1] \o EncodeValue(stream[i])

\* The bytes of a stream are the last of its parts.
LEMMA BytesDef ==
  ASSUME NEW stream \in Seq(Value)
  PROVE  \E parts : IsParts(parts, stream) /\ Bytes(stream) = parts[Len(stream)]
<1> DEFINE n == Len(stream)
           add(b, i) == b \o EncodeValue(stream[i])
           step == [x \in Seq(Byte) \X Nat |-> IF x[2] \in 1 .. n THEN add(x[1], x[2]) ELSE <<>>]
           body(g) == [i \in 0 .. n |-> IF i = 0 THEN <<>> ELSE add(g[i - 1], i)]
           parts == CHOOSE g : g = body(g)
<1>1. n \in Nat
  OBVIOUS
<1>2. \A b \in Seq(Byte), i \in 1 .. n : add(b, i) \in Seq(Byte)
  <2> SUFFICES ASSUME NEW b \in Seq(Byte), NEW i \in 1 .. n PROVE add(b, i) \in Seq(Byte)
    OBVIOUS
  <2>1. EncodeValue(stream[i]) \in Seq(Byte)
    BY EncodeIsSeq
  <2> QED BY <2>1, ConcatProperties
<1>3. step \in [Seq(Byte) \X Nat -> Seq(Byte)]
  <2> HIDE DEF add, n
  <2> QED BY <1>2
<1>4. PICK g : IsIteration(g, Seq(Byte), <<>>, n, step)
  <2> HIDE DEF step, n
  <2>1. <<>> \in Seq(Byte) /\ n \in Nat
    BY <1>1
  <2> QED BY <1>3, <2>1, Iteration
<1>5. g \in [0 .. n -> Seq(Byte)] /\ g = body(g)
  <2>1. g \in [0 .. n -> Seq(Byte)] /\ g[0] = <<>> /\ \A i \in 1 .. n : g[i] = step[<<g[i - 1], i>>]
    BY <1>4 DEF IsIteration
  <2>2. \A i \in 1 .. n : g[i] = add(g[i - 1], i)
    <3> SUFFICES ASSUME NEW i \in 1 .. n PROVE g[i] = add(g[i - 1], i)
      OBVIOUS
    <3>1. g[i - 1] \in Seq(Byte) /\ i \in Nat
      BY <1>1, <2>1
    <3> HIDE DEF n, add
    <3> QED BY <2>1, <3>1
  <2> HIDE DEF add
  <2> QED BY <1>1, <2>1, <2>2
<1>6. parts = body(parts)
  <2> HIDE DEF body
  <2> QED BY <1>5
<1>7. Bytes(stream) = parts[n]
  BY DEF Bytes, EncodeValue
<1> HIDE DEF parts
<1>8. parts[0] = <<>> /\ \A i \in 1 .. n : parts[i] = add(parts[i - 1], i)
  BY <1>1, <1>6
<1>9. \A i \in 0 .. n : parts[i] \in Seq(Byte)
  <2> DEFINE T == {i \in Nat : i \in 0 .. n => parts[i] \in Seq(Byte)}
  <2> HIDE DEF add, n
  <2>1. 0 \in T
    <3>1. <<>> \in Seq(Byte)
      OBVIOUS
    <3> QED BY <1>8, <3>1
  <2>2. ASSUME NEW i \in Nat, i \in T PROVE i + 1 \in T
    <3>1. CASE i + 1 \in 0 .. n
      <4>1. i \in 0 .. n /\ i + 1 \in 1 .. n /\ (i + 1) - 1 = i
        BY <1>1, <3>1
      <4>2. parts[i] \in Seq(Byte)
        BY <2>2, <4>1
      <4> QED BY <1>2, <1>8, <4>1, <4>2
    <3> QED BY <3>1
  <2>3. Nat \subseteq T
    <3> HIDE DEF T
    <3> QED BY <2>1, <2>2, SetInduction
  <2> QED BY <1>1, <2>3
<1>10. IsParts(parts, stream)
  BY <1>6, <1>8, <1>9 DEF IsParts
<1> QED BY <1>7, <1>10

\* Streams that agree up to k have the same parts up to k.
LEMMA PartsAgree ==
  ASSUME NEW a \in Seq(Value), NEW b \in Seq(Value), NEW k \in Nat, k <= Len(a), k <= Len(b),
         \A i \in 1 .. k : a[i] = b[i],
         NEW p, IsParts(p, a), NEW q, IsParts(q, b)
  PROVE  \A i \in 0 .. k : p[i] = q[i]
<1> DEFINE T == {i \in Nat : i \in 0 .. k => p[i] = q[i]}
<1>1. 0 \in T
  BY DEF IsParts
<1>2. ASSUME NEW i \in Nat, i \in T, i + 1 \in 0 .. k PROVE p[i + 1] = q[i + 1]
  <2>1. i \in 0 .. k /\ i + 1 \in 1 .. k /\ (i + 1) - 1 = i /\ i + 1 \in 1 .. Len(a) /\ i + 1 \in 1 .. Len(b)
    BY <1>2
  <2>2. p[i + 1] = p[i] \o EncodeValue(a[i + 1]) /\ q[i + 1] = q[i] \o EncodeValue(b[i + 1])
    BY <2>1 DEF IsParts
  <2> QED BY <1>2, <2>1, <2>2
<1>3. Nat \subseteq T
  <2>1. \A i \in Nat : i \in T => i + 1 \in T
    BY <1>2
  <2> HIDE DEF T
  <2> QED BY <1>1, <2>1, SetInduction
<1> QED BY <1>3

\* Writing one more value adds its bytes.
LEMMA BytesAppend ==
  ASSUME NEW a \in Seq(Value), NEW x \in Value
  PROVE  Bytes(Append(a, x)) = Bytes(a) \o EncodeValue(x)
<1> DEFINE b == Append(a, x)
           n == Len(a)
<1>1. b \in Seq(Value) /\ Len(b) = n + 1 /\ n \in Nat /\ b[n + 1] = x /\ \A i \in 1 .. n : a[i] = b[i]
  BY AppendProperties
<1> HIDE DEF b
<1>2. PICK p : IsParts(p, a) /\ Bytes(a) = p[n]
  BY BytesDef
<1>3. PICK q : IsParts(q, b) /\ Bytes(b) = q[n + 1]
  BY <1>1, BytesDef
<1>4. p[n] = q[n]
  <2>1. \A i \in 0 .. n : p[i] = q[i]
    BY <1>1, <1>2, <1>3, PartsAgree
  <2> QED BY <1>1, <2>1
<1>5. q[n + 1] = q[n] \o EncodeValue(x)
  <2>1. n + 1 \in 1 .. Len(b) /\ (n + 1) - 1 = n
    BY <1>1
  <2> QED BY <1>1, <1>3, <2>1 DEF IsParts
<1> QED BY <1>2, <1>3, <1>4, <1>5 DEF b

\* One sequence of bytes begins another.
Begins(a, b) == Len(a) <= Len(b) /\ \A i \in 1 .. Len(a) : a[i] = b[i]

\* The beginning of a beginning.
LEMMA BeginsTransitive ==
  ASSUME NEW a, NEW b, NEW c, Len(a) \in Nat, Len(b) \in Nat, Len(c) \in Nat,
         Begins(a, b), Begins(b, c)
  PROVE  Begins(a, c)
BY DEF Begins

\* Concatenation, element by element.
LEMMA ConcatBytes ==
  ASSUME NEW a \in Seq(Byte), NEW b \in Seq(Byte)
  PROVE  /\ a \o b \in Seq(Byte) /\ Len(a \o b) = Len(a) + Len(b) /\ Begins(a, a \o b)
         /\ \A i \in 1 .. Len(b) : (a \o b)[Len(a) + i] = b[i]
<1>1. /\ a \o b \in Seq(Byte) /\ Len(a \o b) = Len(a) + Len(b) /\ Len(a) \in Nat /\ Len(b) \in Nat
      /\ \A i \in 1 .. (Len(a) + Len(b)) : (a \o b)[i] = IF i <= Len(a) THEN a[i] ELSE b[i - Len(a)]
  BY ConcatProperties
<1>2. Begins(a, a \o b)
  BY <1>1 DEF Begins
<1>3. ASSUME NEW i \in 1 .. Len(b) PROVE (a \o b)[Len(a) + i] = b[i]
  <2>1. Len(a) + i \in 1 .. (Len(a) + Len(b)) /\ ~(Len(a) + i <= Len(a)) /\ (Len(a) + i) - Len(a) = i
    BY <1>1
  <2> QED BY <1>1, <2>1
<1> QED BY <1>1, <1>2, <1>3

\* A part of a stream begins all later ones, and each has the bytes of one value more.
LEMMA PartsGrow ==
  ASSUME NEW a \in Seq(Value), NEW p, IsParts(p, a)
  PROVE  /\ \A i \in 1 .. Len(a) : Len(p[i]) = Len(p[i - 1]) + Size(a[i][1])
         /\ \A i \in 0 .. Len(a) : p[i] \in Seq(Byte) /\ Len(p[i]) \in Nat /\ Begins(p[i], p[Len(a)])
<1> DEFINE n == Len(a)
<1>1. n \in Nat /\ \A i \in 0 .. n : p[i] \in Seq(Byte) /\ Len(p[i]) \in Nat
  BY DEF IsParts
<1>2. ASSUME NEW i \in 1 .. n
      PROVE  Len(p[i]) = Len(p[i - 1]) + Size(a[i][1]) /\ Begins(p[i - 1], p[i])
  <2>1. i - 1 \in 0 .. n /\ a[i] \in Value
    BY <1>1
  <2>2. p[i - 1] \in Seq(Byte) /\ p[i] = p[i - 1] \o EncodeValue(a[i])
    BY <1>1, <2>1 DEF IsParts
  <2>3. EncodeValue(a[i]) \in Seq(Byte) /\ Len(EncodeValue(a[i])) = Size(a[i][1])
    BY <2>1, EncodeIsSeq
  <2> QED BY <2>2, <2>3, ConcatBytes
<1>3. ASSUME NEW i \in 0 .. n PROVE Begins(p[i], p[n])
  <2> DEFINE T == {k \in Nat : i + k \in 0 .. n => Begins(p[i], p[i + k])}
  <2>1. 0 \in T
    BY <1>1 DEF Begins
  <2>2. ASSUME NEW k \in Nat, k \in T, i + (k + 1) \in 0 .. n PROVE Begins(p[i], p[i + (k + 1)])
    <3> DEFINE j == i + k
    <3>1. j \in 0 .. n /\ j + 1 \in 1 .. n /\ (j + 1) - 1 = j /\ i + (k + 1) = j + 1 /\ j + 1 \in 0 .. n
      BY <1>1, <2>2
    <3>2. Begins(p[i], p[j]) /\ Begins(p[j], p[j + 1])
      BY <1>2, <2>2, <3>1
    <3> HIDE DEF j
    <3>3. Len(p[i]) \in Nat /\ Len(p[j]) \in Nat /\ Len(p[j + 1]) \in Nat
      BY <1>1, <3>1
    <3>4. Begins(p[i], p[j + 1])
      BY <3>2, <3>3, BeginsTransitive
    <3> QED BY <3>1, <3>4
  <2>3. Nat \subseteq T
    <3>1. \A k \in Nat : k \in T => k + 1 \in T
      BY <2>2
    <3> HIDE DEF T
    <3> QED BY <2>1, <3>1, SetInduction
  <2>4. n - i \in Nat /\ i + (n - i) = n /\ i + (n - i) \in 0 .. n
    BY <1>1
  <2> QED BY <2>3, <2>4
<1> QED BY <1>1, <1>2, <1>3

\* Bytes are parsed in one way: a stream of the formats that another one begins with,
\* whose bytes begin the other's, is the beginning of the other.
LEMMA UniqueParse ==
  ASSUME NEW s \in Seq(Value), NEW w \in Seq(Value), Len(s) <= Len(w),
         \A i \in 1 .. Len(s) : s[i][1] = w[i][1],
         Begins(Bytes(s), Bytes(w))
  PROVE  /\ \A i \in 1 .. Len(s) : s[i] = w[i]
         /\ Len(s) < Len(w) => Len(Bytes(s)) + Size(w[Len(s) + 1][1]) <= Len(Bytes(w))
         /\ Len(s) = Len(w) => Len(Bytes(s)) = Len(Bytes(w))
<1> DEFINE m == Len(s)
           n == Len(w)
<1>1. PICK p : IsParts(p, s) /\ Bytes(s) = p[m]
  BY BytesDef
<1>2. PICK q : IsParts(q, w) /\ Bytes(w) = q[n]
  BY BytesDef
<1>3. m \in Nat /\ n \in Nat /\ m <= n
  OBVIOUS
<1>4. /\ \A i \in 1 .. m : Len(p[i]) = Len(p[i - 1]) + Size(s[i][1])
      /\ \A i \in 0 .. m : p[i] \in Seq(Byte) /\ Len(p[i]) \in Nat /\ Begins(p[i], p[m])
  BY <1>1, PartsGrow
<1>5. /\ \A i \in 1 .. n : Len(q[i]) = Len(q[i - 1]) + Size(w[i][1])
      /\ \A i \in 0 .. n : q[i] \in Seq(Byte) /\ Len(q[i]) \in Nat /\ Begins(q[i], q[n])
  BY <1>2, PartsGrow
<1> HIDE DEF m, n
<1>6. \A i \in 0 .. m : Len(p[i]) = Len(q[i])
  <2> DEFINE T == {i \in Nat : i \in 0 .. m => Len(p[i]) = Len(q[i])}
  <2>1. 0 \in T
    BY <1>1, <1>2 DEF IsParts
  <2>2. ASSUME NEW i \in Nat, i \in T, i + 1 \in 0 .. m PROVE Len(p[i + 1]) = Len(q[i + 1])
    <3>1. i \in 0 .. m /\ i + 1 \in 1 .. m /\ i + 1 \in 1 .. n /\ (i + 1) - 1 = i
      BY <1>3, <2>2
    <3>2. s[i + 1][1] = w[i + 1][1]
      BY <3>1 DEF m
    <3> QED BY <1>4, <1>5, <2>2, <3>1, <3>2
  <2>3. Nat \subseteq T
    <3>1. ASSUME NEW i \in Nat, i \in T PROVE i + 1 \in T
      <4>1. i + 1 \in 0 .. m => Len(p[i + 1]) = Len(q[i + 1])
        BY <2>2, <3>1, Zenon
      <4> QED BY <4>1
    <3> HIDE DEF T
    <3> QED BY <2>1, <3>1, SetInduction
  <2> QED BY <2>3
<1>7. \A i \in 0 .. m : p[i] = q[i]
  <2> SUFFICES ASSUME NEW i \in 0 .. m PROVE p[i] = q[i]
    OBVIOUS
  <2>1. i \in 0 .. n /\ m \in 0 .. m /\ n \in 0 .. n
    BY <1>3
  <2>2. p[i] \in Seq(Byte) /\ q[i] \in Seq(Byte) /\ Len(p[i]) = Len(q[i]) /\ Len(p[i]) \in Nat
    BY <1>4, <1>5, <1>6, <2>1
  <2>3. ASSUME NEW j \in 1 .. Len(p[i]) PROVE p[i][j] = q[i][j]
    <3>1. Len(p[m]) \in Nat /\ Len(p[i]) <= Len(p[m]) /\ j \in 1 .. Len(p[m])
      BY <1>4, <2>1, <2>2 DEF Begins
    <3>2. p[i][j] = p[m][j] /\ p[m][j] = q[n][j] /\ q[i][j] = q[n][j]
      BY <1>1, <1>2, <1>4, <1>5, <2>1, <2>2, <3>1 DEF Begins
    <3> QED BY <3>2
  <2> QED BY <2>2, <2>3, SeqEqual
<1>8. ASSUME NEW i \in 1 .. m PROVE s[i] = w[i]
  <2>1. i \in 0 .. m /\ i - 1 \in 0 .. m /\ i \in 1 .. n
    BY <1>3
  <2>2. s[i] \in Value /\ w[i] \in Value /\ s[i][1] = w[i][1]
    BY <2>1 DEF m, n
  <2> DEFINE e == EncodeValue(s[i])
             f == EncodeValue(w[i])
             b == p[i - 1]
  <2>3. b \o e = b \o f
    <3>1. p[i] = b \o e /\ q[i] = q[i - 1] \o f
      BY <1>1, <1>2, <2>1 DEF IsParts, m, n
    <3> QED BY <1>7, <2>1, <3>1
  <2>4. b \in Seq(Byte) /\ e \in Seq(Byte) /\ f \in Seq(Byte) /\ Len(e) = Len(f)
    BY <1>4, <2>1, <2>2, EncodeIsSeq
  <2> HIDE DEF e, f, b
  <2>5. \A j \in 1 .. Len(e) : e[j] = f[j]
    <3>1. \A j \in 1 .. Len(e) : (b \o e)[Len(b) + j] = e[j]
      BY <2>4, ConcatBytes
    <3>2. \A j \in 1 .. Len(f) : (b \o f)[Len(b) + j] = f[j]
      BY <2>4, ConcatBytes
    <3> QED BY <2>3, <2>4, <3>1, <3>2
  <2>6. e = f
    BY <2>4, <2>5, SeqEqual
  <2> QED BY <2>2, <2>6, EncodeIsSeq DEF e, f
<1>9. ASSUME m < n PROVE Len(p[m]) + Size(w[m + 1][1]) <= Len(q[n])
  <2>1. m \in 0 .. m /\ m + 1 \in 1 .. n /\ m + 1 \in 0 .. n /\ (m + 1) - 1 = m /\ n \in 0 .. n
    BY <1>3, <1>9
  <2> QED BY <1>5, <1>6, <2>1 DEF Begins
<1>10. ASSUME m = n PROVE Len(p[m]) = Len(q[n])
  BY <1>3, <1>6, <1>10
<1> QED BY <1>1, <1>2, <1>8, <1>9, <1>10 DEF m, n

-----------------------------------------------------------------------------
(* The stream of a client. *)

\* The reader of a stream stands in the buffer, which is what was written; behind it
\* is what was seen.
Reader(offset) == [scope |-> [base |-> 0, at |-> 0, len |-> Len(buffer)], offset |-> offset]

StreamInv ==
  /\ buffer \in Seq(Byte) /\ Len(buffer) <= UsizeMax
  /\ written \in Seq(Value) /\ seen \in Seq(Value)
  /\ reader = <<>> => seen = <<>>
  /\ reader # <<>> => \E offset \in 0 .. Len(buffer) : reader = <<Reader(offset)>>
  /\ Bytes(written) = buffer
  /\ ReadsAreFaithful

\* Nothing is written as nothing.
LEMMA BytesEmpty == Bytes(<<>>) = <<>>
<1>1. <<>> \in Seq(Value) /\ Len(<<>>) = 0
  OBVIOUS
<1>2. PICK p : IsParts(p, <<>>) /\ Bytes(<<>>) = p[Len(<<>>)]
  BY <1>1, BytesDef
<1> QED BY <1>1, <1>2 DEF IsParts

\* A byte is the value of a U8, and is written as itself.
LEMMA ByteIsU8 ==
  ASSUME NEW b \in Byte
  PROVE  <<"U8", b>> \in Value /\ EncodeValue(<<"U8", b>>) = <<b>>
<1>1. "U8" \in PrimitiveFormat /\ "U8" \notin Signed /\ "U8" \notin LittleEndian /\ Size("U8") = 1
  BY DEF PrimitiveFormat, Unsigned, Signed, LittleEndian, Size
<1>2. Weight[0] = 1 /\ Weight[1] = Radix * Weight[0] /\ Radix \in Nat \ {0}
  BY WeightDef, RadixAssumption
<1>3. Weight[1] = Radix /\ b \in 0 .. Radix - 1
  BY <1>2 DEF Byte
<1>4. <<"U8", b>> \in Value
  BY <1>1, <1>2, <1>3 DEF Value, Host
<1>5. b \div 1 = b /\ b % Radix = b
  BY <1>2, <1>3
<1>6. EncodeValue(<<"U8", b>>) = [i \in 1 .. 1 |-> b]
  <2>1. EncodeValue(<<"U8", b>>) = [i \in 1 .. 1 |-> (b \div Weight[Place("U8", i)]) % Radix]
    BY <1>1 DEF EncodeValue, Encode, WriteUnsigned
  <2>2. \A i \in 1 .. 1 : Place("U8", i) = 0
    BY <1>1 DEF Place
  <2>3. \A i \in 1 .. 1 : (b \div Weight[Place("U8", i)]) % Radix = b
    BY <1>2, <1>5, <2>2
  <2> QED BY <2>1, <2>3
<1>7. [i \in 1 .. 1 |-> b] = <<b>>
  OBVIOUS
<1> QED BY <1>4, <1>6, <1>7

\* The bytes a writer starts with, taken for U8s, are written as themselves.
LEMMA PrefixBytes ==
  ASSUME NEW bytes \in Seq(Byte)
  PROVE  /\ [i \in DOMAIN bytes |-> <<"U8", bytes[i]>>] \in Seq(Value)
         /\ Bytes([i \in DOMAIN bytes |-> <<"U8", bytes[i]>>]) = bytes
<1> DEFINE w == [i \in DOMAIN bytes |-> <<"U8", bytes[i]>>]
           n == Len(bytes)
<1>1. n \in Nat /\ DOMAIN bytes = 1 .. n
  OBVIOUS
<1>2. w \in Seq(Value) /\ Len(w) = n
  <2>1. w \in [1 .. n -> Value]
    BY <1>1, ByteIsU8
  <2> HIDE DEF w, n
  <2> QED BY <1>1, <2>1, SegmentIsSeq
<1>3. \A i \in 1 .. n : EncodeValue(w[i]) = <<bytes[i]>>
  BY <1>1, ByteIsU8
<1> HIDE DEF w
<1>4. PICK p : IsParts(p, w) /\ Bytes(w) = p[n]
  BY <1>2, BytesDef
<1> DEFINE Same(i) == p[i] \in Seq(Byte) /\ Len(p[i]) = i /\ \A j \in 1 .. i : p[i][j] = bytes[j]
           T == {i \in Nat : i \in 0 .. n => Same(i)}
<1>5. 0 \in T
  BY <1>4 DEF IsParts
<1>6. ASSUME NEW i \in Nat, i \in T, i + 1 \in 0 .. n PROVE Same(i + 1)
  <2>1. i \in 0 .. n /\ i + 1 \in 1 .. n /\ (i + 1) - 1 = i
    BY <1>1, <1>6
  <2>2. p[i + 1] = p[i] \o <<bytes[i + 1]>> /\ Same(i)
    BY <1>2, <1>3, <1>4, <1>6, <2>1 DEF IsParts
  <2> DEFINE e == <<bytes[i + 1]>>
             a == p[i]
  <2>3. e \in Seq(Byte) /\ Len(e) = 1 /\ e[1] = bytes[i + 1]
    BY <2>1
  <2>4. a \in Seq(Byte) /\ Len(a) = i /\ (\A j \in 1 .. i : a[j] = bytes[j]) /\ p[i + 1] = a \o e
    BY <2>2
  <2> HIDE DEF e, a, Same
  <2>5. /\ a \o e \in Seq(Byte) /\ Len(a \o e) = i + 1
        /\ \A j \in 1 .. i + 1 : (a \o e)[j] = IF j <= i THEN a[j] ELSE e[j - i]
    <3>1. /\ a \o e \in Seq(Byte) /\ Len(a \o e) = Len(a) + Len(e)
          /\ \A j \in 1 .. (Len(a) + Len(e)) :
               (a \o e)[j] = IF j <= Len(a) THEN a[j] ELSE e[j - Len(a)]
      BY <2>3, <2>4, ConcatProperties
    <3> QED BY <2>3, <2>4, <3>1
  <2>6. \A j \in 1 .. i + 1 : (a \o e)[j] = bytes[j]
    <3> SUFFICES ASSUME NEW j \in 1 .. i + 1 PROVE (a \o e)[j] = bytes[j]
      OBVIOUS
    <3>1. CASE j <= i
      BY <2>4, <2>5, <3>1
    <3>2. CASE j = i + 1
      <4>1. ~(j <= i) /\ j - i = 1
        BY <3>2
      <4>2. (a \o e)[j] = e[j - i]
        BY <2>5, <4>1
      <4>3. e[j - i] = e[1]
        BY <4>1
      <4> QED BY <2>3, <3>2, <4>2, <4>3
    <3>3. j <= i \/ j = i + 1
      OBVIOUS
    <3> QED BY <3>1, <3>2, <3>3, Zenon
  <2> QED BY <2>4, <2>5, <2>6 DEF Same
<1>7. Nat \subseteq T
  <2>1. ASSUME NEW i \in Nat, i \in T PROVE i + 1 \in T
    <3>1. i + 1 \in 0 .. n => Same(i + 1)
      <4> HIDE DEF Same
      <4> QED BY <1>6, <2>1, Zenon
    <3> HIDE DEF Same
    <3> QED BY <3>1
  <2> HIDE DEF T
  <2> QED BY <1>5, <2>1, SetInduction
<1>8. Same(n)
  <2> HIDE DEF Same
  <2> QED BY <1>1, <1>7
<1>9. p[n] = bytes
  BY <1>8, SeqEqual
<1> QED BY <1>2, <1>4, <1>9 DEF w

\* Two adjacent pieces of a buffer.
LEMMA SubSeqConcat ==
  ASSUME NEW b \in Seq(Byte), NEW m \in Nat, NEW n \in Nat, m + n <= Len(b)
  PROVE  /\ SubSeq(b, 1, m) \in Seq(Byte) /\ SubSeq(b, m + 1, m + n) \in [1 .. n -> Byte]
         /\ SubSeq(b, 1, m) \o SubSeq(b, m + 1, m + n) = SubSeq(b, 1, m + n)
<1> DEFINE x == SubSeq(b, 1, m)
           y == SubSeq(b, m + 1, m + n)
           z == SubSeq(b, 1, m + n)
<1>1. x \in Seq(Byte) /\ Len(x) = m /\ \A i \in 1 .. m : x[i] = b[i]
  OBVIOUS
<1>2. y \in Seq(Byte) /\ Len(y) = n /\ \A i \in 1 .. n : y[i] = b[m + i]
  OBVIOUS
<1>3. z \in Seq(Byte) /\ Len(z) = m + n /\ \A i \in 1 .. m + n : z[i] = b[i]
  OBVIOUS
<1> HIDE DEF x, y, z
<1>4. /\ x \o y \in Seq(Byte) /\ Len(x \o y) = m + n
      /\ \A i \in 1 .. m + n : (x \o y)[i] = IF i <= m THEN x[i] ELSE y[i - m]
  BY <1>1, <1>2, ConcatProperties
<1>5. \A i \in 1 .. m + n : (x \o y)[i] = z[i]
  <2> SUFFICES ASSUME NEW i \in 1 .. m + n PROVE (x \o y)[i] = z[i]
    OBVIOUS
  <2>1. CASE i <= m
    BY <1>1, <1>3, <1>4, <2>1
  <2>2. CASE ~(i <= m)
    <3>1. i - m \in 1 .. n /\ m + (i - m) = i
      BY <2>2
    <3> QED BY <1>2, <1>3, <1>4, <2>2, <3>1
  <2> QED BY <2>1, <2>2
<1>6. x \o y = z
  BY <1>3, <1>4, <1>5, SeqEqual
<1>7. y \in [1 .. n -> Byte]
  BY <1>2
<1> QED BY <1>1, <1>6, <1>7 DEF x, y, z

\* A new writer holds the bytes it was given.
LEMMA StreamInit == Init => StreamInv
<1> SUFFICES ASSUME Init PROVE StreamInv
  OBVIOUS
<1>1. buffer \in Seq(Byte) /\ Len(buffer) <= UsizeMax
  BY StreamAssumption DEF Init
<1>2. written \in Seq(Value) /\ Bytes(written) = buffer
  BY <1>1, PrefixBytes DEF Init
<1>3. <<>> \in Seq(Value)
  OBVIOUS
<1> QED BY <1>1, <1>2, <1>3 DEF Init, StreamInv, ReadsAreFaithful

\* FormatWriter::write appends what the value is written as.
LEMMA WriteStep ==
  ASSUME StreamInv, NEW f \in PrimitiveFormat, NEW value \in Samples(f), Write(f, value)
  PROVE  StreamInv'
<1> DEFINE x == <<f, value>>
<1>1. x \in Value
  <2>1. value \in Host(f)
    BY StreamAssumption
  <2>2. Host(f) \subseteq Int
    <3>1. Weight[Size(f)] \in Nat
      BY SizeCases, WeightDef
    <3> QED BY <3>1 DEF Host
  <2> QED BY <2>1, <2>2 DEF Value
<1>2. EncodeValue(x) = Encode(f, value) /\ EncodeValue(x) \in Seq(Byte) /\ Len(EncodeValue(x)) = Size(f)
  BY <1>1, EncodeIsSeq DEF EncodeValue
<1>3. /\ buffer' = buffer \o EncodeValue(x) /\ written' = Append(written, x)
      /\ reader = <<>> /\ reader' = reader /\ seen' = seen /\ Len(buffer) + Size(f) <= UsizeMax
  BY <1>2 DEF Write
<1> HIDE DEF x
<1>4. buffer' \in Seq(Byte) /\ Len(buffer') <= UsizeMax
  BY <1>2, <1>3, ConcatBytes DEF StreamInv
<1>5. written' \in Seq(Value) /\ Bytes(written') = buffer'
  <2>1. written \in Seq(Value) /\ Bytes(written) = buffer
    BY DEF StreamInv
  <2>2. Append(written, x) \in Seq(Value)
    BY <1>1, <2>1
  <2>3. Bytes(Append(written, x)) = Bytes(written) \o EncodeValue(x)
    BY <1>1, <2>1, BytesAppend
  <2> QED BY <1>3, <2>1, <2>2, <2>3
<1> QED BY <1>3, <1>4, <1>5 DEF StreamInv, ReadsAreFaithful

\* The new reader stands at the start, and nothing has been seen.
LEMMA IntoReaderStep ==
  ASSUME StreamInv, IntoReader
  PROVE  StreamInv'
<1>1. /\ UNCHANGED <<buffer, written, seen>> /\ seen = <<>>
      /\ reader' = <<Reader(0)>> /\ reader' # <<>> /\ reader'[1].offset = 0
  BY DEF IntoReader, StreamInv, Reader, R!ReaderOf, R!NewScope
<1>2. Bytes(seen) = <<>> /\ SubSeq(buffer, 1, 0) = <<>> /\ Len(buffer) \in Nat
  BY <1>1, BytesEmpty DEF StreamInv
<1>3. ReadsAreFaithful'
  BY <1>1, <1>2 DEF ReadsAreFaithful
<1>4. Reader(0)' = Reader(0)
  BY <1>1 DEF Reader
<1> QED BY <1>1, <1>2, <1>3, <1>4 DEF StreamInv

\* FormatReader::read consumes exactly what the value it returns would be written as.
LEMMA ReadStep ==
  ASSUME StreamInv, NEW f \in PrimitiveFormat, Read(f)
  PROVE  StreamInv'
<1> DEFINE n == Size(f)
<1>1. PICK offset \in 0 .. Len(buffer) : reader = <<Reader(offset)>>
  BY DEF Read, StreamInv
<1>2. n \in Nat \ {0} /\ Len(buffer) \in Nat /\ buffer \in Seq(Byte) /\ UNCHANGED <<buffer, written>>
  <2>1. n \in Nat \ {0}
    BY SizeCases
  <2>2. Len(buffer) \in Nat /\ buffer \in Seq(Byte)
    BY DEF StreamInv
  <2> QED BY <2>1, <2>2 DEF Read
<1>3. offset + n <= Len(buffer)
  BY <1>1 DEF Read, Reader, R!CheckAvailable
<1> DEFINE bytes == SubSeq(buffer, offset + 1, offset + n)
           x == <<f, Decode(f, bytes)>>
<1>4. seen' = Append(seen, x) /\ reader' = <<Reader(offset + n)>>
  <2>1. reader[1].scope.at + reader[1].offset = offset /\ reader[1].scope.at = 0
    BY <1>1 DEF Reader
  <2>2. seen' = Append(seen, x)
    BY <2>1 DEF Read
  <2>3. reader' = <<R!Advance(Reader(offset), n)>>
    BY <1>1 DEF Read
  <2>4. R!Advance(Reader(offset), n) = Reader(offset + n)
    BY DEF R!Advance, Reader
  <2> QED BY <2>2, <2>3, <2>4
<1>5. /\ bytes \in [1 .. n -> Byte]
      /\ SubSeq(buffer, 1, offset) \o bytes = SubSeq(buffer, 1, offset + n)
  <2>1. offset \in Nat /\ n \in Nat
    BY <1>1, <1>2
  <2> HIDE DEF n
  <2> QED BY <1>2, <1>3, <2>1, SubSeqConcat
<1> HIDE DEF bytes
<1>6. Decode(f, bytes) \in Host(f) /\ Encode(f, Decode(f, bytes)) = bytes
  BY <1>5, CodecFaithful
<1>7. x \in Value /\ EncodeValue(x) = bytes
  <2>1. Host(f) \subseteq Int
    <3>1. Weight[Size(f)] \in Nat
      BY SizeCases, WeightDef
    <3> QED BY <3>1 DEF Host
  <2> QED BY <1>6, <2>1 DEF Value, EncodeValue
<1> HIDE DEF x
<1>8. seen' \in Seq(Value) /\ Bytes(seen') = Bytes(seen) \o bytes
  <2>1. seen \in Seq(Value)
    BY DEF StreamInv
  <2>2. Append(seen, x) \in Seq(Value)
    BY <1>7, <2>1
  <2>3. Bytes(Append(seen, x)) = Bytes(seen) \o EncodeValue(x)
    BY <1>7, <2>1, BytesAppend
  <2> QED BY <1>4, <1>7, <2>2, <2>3
<1>9. Bytes(seen) = SubSeq(buffer, 1, offset)
  BY <1>1 DEF StreamInv, ReadsAreFaithful, Reader
<1>10. reader' # <<>> /\ reader'[1].offset = offset + n
  BY <1>4 DEF Reader
<1>11. ReadsAreFaithful'
  BY <1>2, <1>5, <1>8, <1>9, <1>10 DEF ReadsAreFaithful
<1>12. offset + n \in 0 .. Len(buffer') /\ reader' = <<Reader(offset + n)'>>
  BY <1>2, <1>3, <1>4 DEF Reader
<1> QED BY <1>2, <1>8, <1>10, <1>11, <1>12 DEF StreamInv

\* Every step of the client keeps the invariant.
LEMMA StreamNext == StreamInv /\ [Next]_vars => StreamInv'
<1> SUFFICES ASSUME StreamInv, [Next]_vars PROVE StreamInv'
  OBVIOUS
<1>1. CASE UNCHANGED vars
  BY <1>1 DEF vars, StreamInv, ReadsAreFaithful, Reader
<1>2. ASSUME NEW f \in PrimitiveFormat, NEW value \in Samples(f), Write(f, value) PROVE StreamInv'
  BY <1>2, WriteStep
<1>3. CASE IntoReader
  BY <1>3, IntoReaderStep
<1>4. ASSUME NEW f \in PrimitiveFormat, Read(f) PROVE StreamInv'
  BY <1>4, ReadStep
<1> QED BY <1>1, <1>2, <1>3, <1>4 DEF Next

\* The invariant of the stream.
LEMMA StreamInvariance == Spec => []StreamInv
BY StreamInit, StreamNext, PTL DEF Spec

\* Whatever formats a client reads, writing what it saw reproduces what it consumed.
THEOREM ReadingLosesNothing == Spec => []ReadsAreFaithful
<1>1. StreamInv => ReadsAreFaithful
  BY DEF StreamInv
<1> QED BY <1>1, StreamInvariance, PTL

\* A client that reads the formats that were written gets the values that were
\* written, can go on until it has read them all, and then has nothing left.
THEOREM StreamsRoundTrip == Spec => []StreamRoundTrip
<1>1. StreamInv => StreamRoundTrip
  <2> SUFFICES ASSUME StreamInv, InStep
               PROVE  /\ seen = SubSeq(written, 1, Len(seen))
                      /\ reader # <<>> =>
                           IF Len(seen) < Len(written)
                             THEN R!CheckAvailable(reader[1], Size(written[Len(seen) + 1][1]))
                             ELSE ~R!CheckAvailable(reader[1], 1)
    BY DEF StreamRoundTrip
  <2> DEFINE m == Len(seen)
             n == Len(written)
  <2>1. m \in Nat /\ n \in Nat /\ m <= n /\ seen \in Seq(Value) /\ written \in Seq(Value)
    BY DEF InStep, StreamInv
  <2>2. \A i \in 1 .. m : seen[i][1] = written[i][1]
    <3> DEFINE a == Formats(seen)
               b == Formats(written)
    <3>1. a \in Seq(PrimitiveFormat) /\ Len(a) = m /\ \A i \in 1 .. m : a[i] = seen[i][1]
      <4>1. a \in [1 .. m -> PrimitiveFormat] /\ \A i \in 1 .. m : a[i] = seen[i][1]
        BY <2>1 DEF Formats, Value
      <4> QED BY <2>1, <4>1, SegmentIsSeq
    <3>2. b \in Seq(PrimitiveFormat) /\ Len(b) = n /\ \A i \in 1 .. n : b[i] = written[i][1]
      <4>1. b \in [1 .. n -> PrimitiveFormat] /\ \A i \in 1 .. n : b[i] = written[i][1]
        BY <2>1 DEF Formats, Value
      <4> QED BY <2>1, <4>1, SegmentIsSeq
    <3>3. a = SubSeq(b, 1, m)
      BY DEF InStep
    <3> HIDE DEF a, b
    <3>4. \A i \in 1 .. m : SubSeq(b, 1, m)[i] = b[i]
      BY <2>1, <3>2
    <3> QED BY <2>1, <3>1, <3>2, <3>3, <3>4
  <2>3. CASE reader = <<>>
    <3>1. seen = <<>> /\ SubSeq(written, 1, 0) = <<>> /\ Len(seen) = 0
      BY <2>1, <2>3 DEF StreamInv
    <3> QED BY <2>3, <3>1
  <2>4. CASE reader # <<>>
    <3>1. PICK offset \in 0 .. Len(buffer) : reader = <<Reader(offset)>>
      BY <2>4 DEF StreamInv
    <3>2. /\ reader[1].offset = offset /\ reader[1].scope.len = Len(buffer)
          /\ buffer \in Seq(Byte) /\ Len(buffer) \in Nat /\ Len(buffer) <= UsizeMax /\ UsizeMax \in Nat
          /\ Bytes(written) = buffer
      BY <3>1, StreamAssumption DEF Reader, StreamInv
    <3>3. Bytes(seen) = SubSeq(buffer, 1, offset)
      BY <2>4, <3>2 DEF StreamInv, ReadsAreFaithful
    <3>4. Len(Bytes(seen)) = offset /\ Begins(Bytes(seen), buffer)
      BY <3>2, <3>3 DEF Begins
    <3>5. /\ \A i \in 1 .. m : seen[i] = written[i]
          /\ m < n => offset + Size(written[m + 1][1]) <= Len(buffer)
          /\ m = n => offset = Len(buffer)
      BY <2>1, <2>2, <3>2, <3>4, UniqueParse
    <3>6. seen = SubSeq(written, 1, m)
      <4>1. SubSeq(written, 1, m) \in Seq(Value) /\ Len(SubSeq(written, 1, m)) = m
            /\ \A i \in 1 .. m : SubSeq(written, 1, m)[i] = written[i]
        BY <2>1
      <4> QED BY <2>1, <3>5, <4>1, SeqEqual
    <3>7. CASE m < n
      <4>1. Size(written[m + 1][1]) \in Nat
        BY SizeCases
      <4> QED BY <3>2, <3>5, <3>6, <3>7, <4>1 DEF R!CheckAvailable
    <3>8. CASE m = n
      BY <3>2, <3>5, <3>6, <3>8 DEF R!CheckAvailable
    <3> QED BY <2>1, <3>7, <3>8
  <2> QED BY <2>3, <2>4
<1> QED BY <1>1, StreamInvariance, PTL

-----------------------------------------------------------------------------
(* The queue of offsets, whatever the parsers are that push on it.         *)

\* A list of references.
IsRefs(s) == s \in Seq(Range(s)) /\ \A ref \in Range(s) : ref = <<ref[1], ref[2]>>

\* A list without its last element.
LEMMA PopRefs ==
  ASSUME NEW s, IsRefs(s), s # <<>>
  PROVE  /\ IsRefs(Front(s)) /\ Len(Front(s)) = Len(s) - 1 /\ Len(s) \in Nat \ {0}
         /\ s[Len(s)] \in Range(s)
         /\ Range(s) = Range(Front(s)) \cup {s[Len(s)]}
<1> DEFINE n == Len(s)
<1>1. s \in Seq(Range(s)) /\ n \in Nat \ {0} /\ DOMAIN s = 1 .. n
  BY DEF IsRefs
<1>2. Front(s) = [i \in 1 .. n - 1 |-> s[i]]
  BY <1>1 DEF Front
<1>3. Range(s) = {s[i] : i \in 1 .. n}
  BY <1>1, Zenon DEF Range
<1>4. Range(Front(s)) = {s[i] : i \in 1 .. n - 1}
  BY <1>1, <1>2 DEF Range
<1>5. Front(s) \in Seq(Range(Front(s))) /\ Len(Front(s)) = n - 1
  BY <1>1, <1>2, <1>4
<1>6. Range(s) = Range(Front(s)) \cup {s[n]} /\ s[n] \in Range(s)
  BY <1>1, <1>3, <1>4
<1> QED
  BY <1>1, <1>5, <1>6 DEF IsRefs

\* One list behind another.
LEMMA PushRefs ==
  ASSUME NEW s, NEW t, IsRefs(s), IsRefs(t)
  PROVE  IsRefs(s \o t) /\ Range(s \o t) = Range(s) \cup Range(t)
<1> DEFINE m == Len(s)
           n == Len(t)
           st == s \o t
<1>1. /\ s \in Seq(Range(s)) /\ m \in Nat /\ DOMAIN s = 1 .. m
      /\ t \in Seq(Range(t)) /\ n \in Nat /\ DOMAIN t = 1 .. n
  BY DEF IsRefs
<1>2. /\ m + n \in Nat /\ DOMAIN st = 1 .. m + n
      /\ \A i \in 1 .. m + n : st[i] = IF i <= m THEN s[i] ELSE t[i - m]
  <2>1. s \in Seq(Range(s) \cup Range(t)) /\ t \in Seq(Range(s) \cup Range(t))
    BY <1>1
  <2> QED
    BY <2>1, ConcatProperties
<1> HIDE DEF st
<1>3. Range(st) = Range(s) \cup Range(t)
  <2>1. ASSUME NEW i \in 1 .. m + n
        PROVE  st[i] \in Range(s) \cup Range(t)
    <3>1. CASE i <= m
      BY <1>1, <1>2, <3>1 DEF Range
    <3>2. CASE i > m
      <4>1. st[i] = t[i - m] /\ i - m \in 1 .. n
        BY <1>1, <1>2, <3>2
      <4> QED
        BY <4>1, <1>1 DEF Range
    <3> QED
      BY <1>1, <3>1, <3>2
  <2>2. ASSUME NEW i \in 1 .. m
        PROVE  s[i] \in Range(st)
    <3>1. i \in 1 .. m + n /\ st[i] = s[i]
      BY <1>1, <1>2
    <3> QED
      BY <3>1, <1>2 DEF Range
  <2>3. ASSUME NEW i \in 1 .. n
        PROVE  t[i] \in Range(st)
    <3>1. m + i \in 1 .. m + n /\ st[m + i] = t[i]
      BY <1>1, <1>2
    <3> QED
      BY <3>1, <1>2 DEF Range
  <2>4. /\ Range(st) = {st[i] : i \in 1 .. m + n}
        /\ Range(s) = {s[i] : i \in 1 .. m} /\ Range(t) = {t[i] : i \in 1 .. n}
    BY <1>1, <1>2, Zenon DEF Range
  <2> QED
    BY <2>1, <2>2, <2>3, <2>4
<1>4. st \in Seq(Range(st))
  <2>1. s \in Seq(Range(st)) /\ t \in Seq(Range(st))
    BY <1>1, <1>3
  <2> QED
    BY <2>1, ConcatProperties DEF st
<1>5. \A ref \in Range(st) : ref = <<ref[1], ref[2]>>
  BY <1>3, Zenon DEF IsRefs
<1> QED
  BY <1>3, <1>4, <1>5 DEF IsRefs, st

\* What the root refers to is referred to.
LEMMA RootIsReferredTo == AreReferredTo(RootRefs)
  BY DEF AreReferredTo

\* So is what something refers to that is referred to.
LEMMA MoreAreReferredTo ==
  ASSUME NEW refs, AreReferredTo(refs), NEW ref \in refs
  PROVE  AreReferredTo(refs \cup RefsOf(ResultAt(ref)))
<1> DEFINE more == refs \cup RefsOf(ResultAt(ref))
<1> SUFFICES ASSUME NEW few \in SUBSET more,
                    RootRefs \cap more \subseteq few,
                    \A r \in few : RefsOf(ResultAt(r)) \cap more \subseteq few
             PROVE  few = more
  BY DEF AreReferredTo
<1>1. RootRefs \cap refs \subseteq few \cap refs
  OBVIOUS
<1>2. \A r \in few \cap refs : RefsOf(ResultAt(r)) \cap refs \subseteq few \cap refs
  OBVIOUS
<1>3. few \cap refs = refs
  BY <1>1, <1>2 DEF AreReferredTo
<1>4. RefsOf(ResultAt(ref)) \subseteq few
  BY <1>3
<1> QED
  BY <1>3, <1>4

\* What is referred to is in every closed set.
LEMMA ReferredToIsLeast ==
  ASSUME NEW refs, AreReferredTo(refs), NEW all, IsClosed(all)
  PROVE  refs \subseteq all
<1>1. /\ refs \cap all \in SUBSET refs
      /\ RootRefs \cap refs \subseteq refs \cap all
      /\ \A ref \in refs \cap all : RefsOf(ResultAt(ref)) \cap refs \subseteq refs \cap all
  BY DEF IsClosed
<1>2. refs \cap all = refs
  BY <1>1 DEF AreReferredTo
<1> QED
  BY <1>2

\* What holds of the loop: everything that is referred to, by the root or by what
\* was followed, is known, and nothing else; the two maps agree, but for the root;
\* and the loop stopped for the reason it gives.
LoopInv ==
  /\ phase # "items"
  /\ RootRefs \subseteq Known
  /\ \A ref \in Followed : RefsOf(ResultAt(ref)) \subseteq Known
  /\ AreReferredTo(Known)
  /\ 0 \notin DOMAIN parsed_tys /\ DOMAIN parsed_values = DOMAIN parsed_tys \cup {0}
  /\ \A ref \in Followed : ResultAt(ref).ok /\ parsed_values[ref[1]] = ResultAt(ref).value
  /\ phase = "ok" => pending = <<>>
  /\ phase = "error" =>
       \/ \E ref \in Known : ~ResultAt(ref).ok /\ ResultAt(ref).error = error
       \/ /\ error = "OffsetPointedToDifferentTypes"
          /\ \E r1, r2 \in Known : r1[1] = r2[1] /\ r1[2] # r2[2]
  /\ phase = "panic" => \E ref \in Known : ref[1] = 0

QueueInv ==
  /\ IsRefs(pending)
  /\ phase = "items" => pending = <<>> /\ parsed_values = <<>> /\ parsed_tys = <<>>
  /\ phase \in {"follow", "ok", "panic"} => parsed_values # <<>>
  /\ parsed_values # <<>> => LoopInv

\* The empty list.
LEMMA NoRefs == IsRefs(<<>>) /\ Range(<<>>) = {} /\ DOMAIN <<>> = {}
<1>1. DOMAIN <<>> = {} /\ <<>> \in Seq({})
  OBVIOUS
<1>2. Range(<<>>) = {}
  BY <1>1, Zenon DEF Range
<1> QED
  BY <1>1, <1>2 DEF IsRefs

\* A step of the loop leaves the file, and what is in it, alone.
LEMMA FileStays ==
  ASSUME UNCHANGED <<module, file, at, context>>
  PROVE  RootRefs' = RootRefs /\ \A ref : ResultAt(ref)' = ResultAt(ref)
  BY DEF RootRefs, RootResult, ResultAt, Env, current

\* The three facts of the invariant, for each step.
LEMMA QueueInit == OffsetInit => QueueInv
  BY NoRefs DEF OffsetInit, QueueInv

LEMMA ParseRootStep ==
  ASSUME QueueInv, PushesAreLists, ParseRoot
  PROVE  QueueInv'
<1> DEFINE r == RootResult
<1>1. /\ phase = "items" /\ pending = <<>> /\ parsed_values = <<>> /\ parsed_tys = <<>>
      /\ UNCHANGED <<module, file, at, context>> /\ parsed_tys' = <<>> /\ PushesList(r)
  BY DEF QueueInv, ParseRoot, PushesAreLists
<1>2. CASE ~r.ok
  <2>1. phase' = "error" /\ pending' = <<>> /\ parsed_values' = <<>>
    BY <1>1, <1>2 DEF ParseRoot, Fail
  <2> QED
    BY <2>1, NoRefs DEF QueueInv, IsRefs
<1>3. CASE r.ok
  <2>1. phase' = "follow" /\ pending' = r.pushed /\ parsed_values' = Inserted(<<>>, 0, r.value)
    BY <1>1, <1>3 DEF ParseRoot
  <2>2. DOMAIN parsed_values' = {0} /\ parsed_values' # <<>> /\ DOMAIN parsed_tys' = {}
    BY <1>1, <2>1, NoRefs DEF Inserted
  <2>3. IsRefs(pending')
    BY <1>1, <1>3, <2>1 DEF PushesList, IsRefs
  <2>4. Followed' = {}
    BY <2>2 DEF Followed
  <2>5. RootRefs = Range(r.pushed) /\ Known' = RootRefs
    BY <1>3, <2>1, <2>4 DEF RootRefs, RefsOf, Known
  <2>6. RootRefs' = RootRefs /\ \A ref : ResultAt(ref)' = ResultAt(ref)
    BY <1>1, FileStays
  <2>7. AreReferredTo(Known)'
    BY <2>5, <2>6, RootIsReferredTo DEF AreReferredTo
  <2> QED
    BY <2>1, <2>2, <2>3, <2>4, <2>5, <2>6, <2>7 DEF QueueInv, LoopInv, IsRefs
<1> QED
  BY <1>2, <1>3

LEMMA FollowStep ==
  ASSUME QueueInv, PushesAreLists, Follow
  PROVE  QueueInv'
<1> DEFINE pos == Top[1]
           ty == Top[2]
           ref == <<pos, ty>>
           rest == Front(pending)
           r == ResultAt(ref)
<1>1. /\ phase = "follow" /\ pending # <<>> /\ parsed_values # <<>> /\ LoopInv
      /\ IsRefs(pending) /\ UNCHANGED <<module, file, at, context>>
      /\ FollowOffset(pos, ty, rest)
  BY DEF QueueInv, Follow
<1>2. /\ IsRefs(rest) /\ Top \in Range(pending) /\ Top = ref
      /\ Range(pending) = Range(rest) \cup {ref}
  BY <1>1, PopRefs, Zenon DEF Top, IsRefs
<1>3. PushesList(r)
  BY <1>1, <1>2 DEF PushesAreLists
<1>4. RootRefs' = RootRefs /\ \A x : ResultAt(x)' = ResultAt(x)
  BY <1>1, FileStays
<1>5. ref \in Known
  BY <1>2 DEF Known
<1> HIDE DEF pos, ty, rest, r
<1>6. CASE pos \notin DOMAIN parsed_values /\ r.ok
  <2>1. /\ pending' = rest \o r.pushed /\ phase' = "follow"
        /\ parsed_values' = Inserted(parsed_values, pos, r.value)
        /\ parsed_tys' = Inserted(parsed_tys, pos, ty)
    BY <1>1, <1>6 DEF FollowOffset, r
  <2>2. IsRefs(r.pushed) /\ RefsOf(r) = Range(r.pushed)
    BY <1>3, <1>6 DEF PushesList, IsRefs, RefsOf
  <2>3. IsRefs(pending)' /\ Range(pending') = Range(rest) \cup RefsOf(r)
    BY <1>2, <2>1, <2>2, PushRefs DEF IsRefs
  <2>4. pos # 0 /\ pos \notin DOMAIN parsed_tys
    BY <1>1, <1>6 DEF LoopInv
  <2>5. /\ DOMAIN parsed_values' = DOMAIN parsed_values \cup {pos} /\ parsed_values' # <<>>
        /\ DOMAIN parsed_tys' = DOMAIN parsed_tys \cup {pos}
        /\ parsed_values'[pos] = r.value /\ parsed_tys'[pos] = ty
        /\ \A p \in DOMAIN parsed_tys :
             parsed_tys'[p] = parsed_tys[p] /\ parsed_values'[p] = parsed_values[p]
    <3>1. DOMAIN parsed_values = DOMAIN parsed_tys \cup {0} /\ DOMAIN <<>> = {}
      BY <1>1, NoRefs DEF LoopInv
    <3> QED
      BY <1>6, <2>1, <2>4, <3>1 DEF Inserted
  <2>6. Followed' = Followed \cup {ref}
    BY <2>4, <2>5 DEF Followed
  <2>7. Known' = Known \cup RefsOf(r)
    BY <1>2, <2>3, <2>6 DEF Known
  <2>8. AreReferredTo(Known)'
    <3>1. AreReferredTo(Known \cup RefsOf(r))
      BY <1>1, <1>5, MoreAreReferredTo DEF LoopInv, r
    <3> QED
      BY <1>4, <2>7, <3>1 DEF AreReferredTo
  <2>9. \A x \in Followed' : RefsOf(ResultAt(x)') \subseteq Known'
    BY <1>1, <1>4, <2>6, <2>7 DEF LoopInv, r
  <2>10. \A x \in Followed' :
           ResultAt(x)'.ok /\ parsed_values'[x[1]] = ResultAt(x)'.value
    <3>1. \A x \in Followed : x[1] \in DOMAIN parsed_tys
      BY DEF Followed
    <3> QED
      BY <1>1, <1>4, <1>6, <2>5, <2>6, <3>1 DEF LoopInv, r
  <2> QED
    BY <1>1, <1>4, <2>1, <2>3, <2>4, <2>5, <2>7, <2>8, <2>9, <2>10 DEF QueueInv, LoopInv
<1>7. CASE ~(pos \notin DOMAIN parsed_values /\ r.ok)
  <2>1. UNCHANGED <<parsed_values, parsed_tys>>
    BY <1>1, <1>7 DEF FollowOffset, r
  <2>2. Followed' = Followed
    BY <2>1 DEF Followed
  <2>3. ASSUME pending' = pending, phase' \in {"error", "panic"},
               phase' = "error" =>
                 \/ ~r.ok /\ r.error = error'
                 \/ /\ error' = "OffsetPointedToDifferentTypes"
                    /\ \E x \in Followed : x[1] = pos /\ x[2] # ty,
               phase' = "panic" => pos = 0
        PROVE  QueueInv'
    <3>1. Known' = Known /\ Followed \subseteq Known
      BY <2>2, <2>3 DEF Known
    <3>2. AreReferredTo(Known)'
      BY <1>1, <1>4, <3>1 DEF AreReferredTo, LoopInv
    <3>3. ref[1] = pos /\ ref[2] = ty
      OBVIOUS
    <3>4. phase' = "error" =>
            \/ \E x \in Known' : ~ResultAt(x)'.ok /\ ResultAt(x)'.error = error'
            \/ /\ error' = "OffsetPointedToDifferentTypes"
               /\ \E r1, r2 \in Known' : r1[1] = r2[1] /\ r1[2] # r2[2]
      BY <1>4, <1>5, <2>3, <3>1, <3>3, Zenon DEF r
    <3>5. phase' = "panic" => \E x \in Known' : x[1] = 0
      BY <1>5, <2>3, <3>1, <3>3
    <3> QED
      BY <1>1, <1>4, <2>1, <2>2, <2>3, <3>1, <3>2, <3>4, <3>5 DEF QueueInv, LoopInv, IsRefs
  <2>4. CASE pos \notin DOMAIN parsed_values
    <3>1. ~r.ok /\ phase' = "error" /\ error' = r.error /\ pending' = pending
      BY <1>1, <1>7, <2>4 DEF FollowOffset, Fail, r
    <3> QED
      BY <2>3, <3>1
  <2>5. CASE pos \in DOMAIN parsed_values /\ pos \notin DOMAIN parsed_tys
    <3>1. phase' = "panic" /\ pending' = pending
      BY <1>1, <1>7, <2>5 DEF FollowOffset, r
    <3>2. pos = 0
      BY <1>1, <2>5 DEF LoopInv
    <3> QED
      BY <2>3, <3>1, <3>2
  <2>6. CASE pos \in DOMAIN parsed_values /\ pos \in DOMAIN parsed_tys /\ parsed_tys[pos] # ty
    <3>1. /\ phase' = "error" /\ error' = "OffsetPointedToDifferentTypes" /\ pending' = pending
      BY <1>1, <1>7, <2>6 DEF FollowOffset, Fail, r
    <3>2. <<pos, parsed_tys[pos]>> \in Followed
      BY <2>6 DEF Followed
    <3>3. \E x \in Followed : x[1] = pos /\ x[2] # ty
      BY <2>6, <3>2
    <3> QED
      BY <2>3, <3>1, <3>3
  <2>7. CASE pos \in DOMAIN parsed_values /\ pos \in DOMAIN parsed_tys /\ parsed_tys[pos] = ty
    <3>1. pending' = rest /\ phase' = phase /\ error' = error
      BY <1>1, <1>7, <2>7 DEF FollowOffset, r
    <3>2. ref \in Followed
      BY <2>7 DEF Followed
    <3>3. Known' = Known
      BY <1>2, <2>2, <3>1, <3>2 DEF Known
    <3>4. AreReferredTo(Known)'
      BY <1>1, <1>4, <3>3 DEF AreReferredTo, LoopInv
    <3> QED
      BY <1>1, <1>2, <1>4, <2>1, <2>2, <3>1, <3>3, <3>4 DEF QueueInv, LoopInv, IsRefs
  <2> QED
    BY <2>4, <2>5, <2>6, <2>7
<1> QED
  BY <1>6, <1>7

LEMMA QueueNext == QueueInv /\ PushesAreLists /\ [OffsetNext]_offsetVars => QueueInv'
<1> SUFFICES ASSUME QueueInv, PushesAreLists, [OffsetNext]_offsetVars
             PROVE  QueueInv'
  OBVIOUS
<1>1. CASE InsertDefinition
  BY <1>1, NoRefs DEF InsertDefinition, QueueInv, IsRefs
<1>2. CASE MissingRoot
  BY <1>2, NoRefs DEF MissingRoot, Fail, QueueInv, IsRefs
<1>3. CASE ParseRoot
  BY <1>3, ParseRootStep
<1>4. CASE Follow
  BY <1>4, FollowStep
<1>5. ASSUME UNCHANGED <<module, file, at, context, error, pending, parsed_values, parsed_tys>>,
             \/ phase' = phase
             \/ phase = "follow" /\ pending = <<>> /\ phase' = "ok"
      PROVE  QueueInv'
  <2>1. RootRefs' = RootRefs /\ \A ref : ResultAt(ref)' = ResultAt(ref)
    BY <1>5, FileStays
  <2>2. Followed' = Followed /\ Known' = Known
    BY <1>5 DEF Followed, Known
  <2>3. ASSUME LoopInv
        PROVE  LoopInv'
    <3>1. AreReferredTo(Known)'
      BY <2>1, <2>2, <2>3 DEF AreReferredTo, LoopInv
    <3> QED
      BY <1>5, <2>1, <2>2, <2>3, <3>1 DEF LoopInv
  <2> QED
    BY <1>5, <2>3 DEF QueueInv, IsRefs
<1>6. CASE Finish
  BY <1>5, <1>6 DEF Finish
<1>7. CASE UNCHANGED offsetVars
  BY <1>5, <1>7 DEF offsetVars
<1> QED
  BY <1>1, <1>2, <1>3, <1>4, <1>6, <1>7 DEF OffsetNext

LEMMA QueueInvariance == OffsetSpec /\ []PushesAreLists => []QueueInv
  BY QueueInit, QueueNext, PTL DEF OffsetSpec

\* Whatever the parsers are, as long as they push lists of references: the outcome
\* of the loop is that of the references in the file, however it orders them.
THEOREM OrderDoesNotMatter == OffsetSpec /\ []PushesAreLists => []OutcomeIsOfReferences
<1>1. QueueInv => OutcomeIsOfReferences
  <2> SUFFICES ASSUME QueueInv, parsed_values # <<>>
               PROVE  OutcomeIsOfReferences
    BY DEF OutcomeIsOfReferences, QueueInv
  <2>1. LoopInv
    BY DEF QueueInv
  <2>2. phase = "ok" => Known = Followed
    BY <2>1, NoRefs DEF LoopInv, Known
  <2> QED
    BY <2>1, <2>2 DEF OutcomeIsOfReferences, LoopInv, IsClosed
<1> QED
  BY <1>1, QueueInvariance, PTL

\* When the loop ends well, it has followed the smallest closed set of references.
THEOREM FollowsNoMore ==
  OffsetSpec /\ []PushesAreLists =>
    [](phase = "ok" => \A all : IsClosed(all) => Followed \subseteq all)
<1>1. QueueInv => (phase = "ok" => \A all : IsClosed(all) => Followed \subseteq all)
  BY ReferredToIsLeast DEF QueueInv, LoopInv, Known
<1> QED
  BY <1>1, QueueInvariance, PTL

\* Every turn of the loop parses at a new position or leaves fewer offsets.
THEOREM TurnsProgress == OffsetSpec /\ []PushesAreLists => EveryTurnProgresses
<1>1. ASSUME QueueInv, [OffsetNext]_offsetVars
      PROVE  [phase = "follow" /\ phase' = "follow" =>
                \/ DOMAIN parsed_values # DOMAIN parsed_values'
                \/ Len(pending') < Len(pending)]_offsetVars
  <2> SUFFICES ASSUME OffsetNext, phase = "follow", phase' = "follow",
                      DOMAIN parsed_values = DOMAIN parsed_values'
               PROVE  Len(pending') < Len(pending)
    BY <1>1
  <2>1. Follow
    BY DEF OffsetNext, InsertDefinition, MissingRoot, ParseRoot, Finish
  <2> DEFINE pos == Top[1]
             ty == Top[2]
             rest == Front(pending)
  <2>2. FollowOffset(pos, ty, rest) /\ pending # <<>>
    BY <2>1 DEF Follow
  <2>3. Len(rest) = Len(pending) - 1 /\ Len(pending) \in Nat
    BY <1>1, <2>2, PopRefs DEF QueueInv
  <2> HIDE DEF pos, ty, rest
  <2>4. pos \in DOMAIN parsed_values
    <3>1. CASE pos \notin DOMAIN parsed_values /\ ResultAt(<<pos, ty>>).ok
      <4>1. parsed_values' = Inserted(parsed_values, pos, ResultAt(<<pos, ty>>).value)
        BY <2>2, <3>1 DEF FollowOffset
      <4> QED
        BY <3>1, <4>1 DEF Inserted
    <3>2. CASE pos \notin DOMAIN parsed_values /\ ~ResultAt(<<pos, ty>>).ok
      BY <2>2, <3>2 DEF FollowOffset, Fail
    <3> QED
      BY <3>1, <3>2
  <2>5. pending' = rest
    BY <2>2, <2>4 DEF FollowOffset, Fail
  <2> QED
    BY <2>3, <2>5
<1> QED
  BY <1>1, QueueInvariance, PTL DEF OffsetSpec, EveryTurnProgresses

=============================================================================
