------------------------- MODULE SetpointPath_proofs -------------------------
(***************************************************************************)
(* The process image keeps every value of every tag, and the way of a      *)
(* setpoint is safe: what the node admits the drive object takes, the      *)
(* clamp changes no wave, and the wire carries what was commanded.  Proved *)
(* for every goal, jitter, limit, scale and sine table that the            *)
(* assumptions allow, and for the code's bytes of 256 values.              *)
(***************************************************************************)
EXTENDS SetpointPath, FiniteSetTheorems, TLAPS

-----------------------------------------------------------------------------
(* be_to_u64() and u64_to_be(). *)

\* The bytes of the code.  The run has smaller ones, for the width of TLC's integers.
Bytes256 == ByteSize = 256

\* The powers of a byte's size that the encodings use.
LEMMA Powers ==
  ASSUME Bytes256
  PROVE  /\ ByteSize ^ 0 = 1 /\ ByteSize ^ 1 = 256 /\ ByteSize ^ 2 = 65536
         /\ ByteSize ^ 3 = 16777216 /\ ByteSize ^ 4 = 4294967296
<1>1. /\ 256 ^ 0 = 1 /\ 256 ^ 1 = 256 /\ 256 ^ 2 = 65536
      /\ 256 ^ 3 = 16777216 /\ 256 ^ 4 = 4294967296
  BY SMT
<1> QED
  BY <1>1, SMT DEF Bytes256

\* A word from its two bytes, a long word from its two words and from its four bytes.
LEMMA LowWord ==
  ASSUME NEW v \in Int
  PROVE  ((v \div 256) % 256) * 256 + (v % 256) = v % 65536
BY SMT

LEMMA TwoWords ==
  ASSUME NEW v \in Int
  PROVE  ((v \div 65536) % 65536) * 65536 + (v % 65536) = v % 4294967296
BY SMT

LEMMA FourBytes ==
  ASSUME NEW v \in Int
  PROVE  ((((v \div 16777216) % 256) * 256 + ((v \div 65536) % 256)) * 256
            + ((v \div 256) % 256)) * 256 + (v % 256) = v % 4294967296
<1> DEFINE a == v \div 65536
<1>1. a \in Int
  BY SMT
<1>2. ((a \div 256) % 256) * 256 + (a % 256) = a % 65536
  <2> HIDE DEF a
  <2> QED
    BY <1>1, LowWord, SMT
<1>3. (v \div 65536) \div 256 = v \div 16777216
  BY SMT
<1> QED
  BY <1>2, <1>3, LowWord, TwoWords, SMT

\* be_to_u64() adds the bytes up from the first to the last.
Sums(v, b, n) ==
  /\ v[0] = 0 /\ ToUnsigned(b) = v[n]
  /\ \A i \in 1 .. n : v[i] = v[i - 1] * 256 + b[i]

\* be_to_u64() adds the bytes up from the first to the last.
LEMMA Unrolled ==
  ASSUME NEW b, NEW n \in {1, 2, 4}, b \in [1 .. n -> Int], Len(b) = n, Bytes256
  PROVE  \E v : Sums(v, b, n)
<1>1. \A i \in 0 .. n : i = 0 \/ i = 1 \/ i = 2 \/ i = 3 \/ i = 4
  BY SMT
<1> DEFINE P(v) == v = [i \in 0 .. n |-> IF i = 0 THEN 0 ELSE v[i - 1] * 256 + b[i]]
           w1 == 0 * 256 + b[1]
           w2 == w1 * 256 + b[2]
           w3 == w2 * 256 + b[3]
           w4 == w3 * 256 + b[4]
           w == [i \in 0 .. n |-> IF i = 0 THEN 0 ELSE IF i = 1 THEN w1 ELSE
                                  IF i = 2 THEN w2 ELSE IF i = 3 THEN w3 ELSE w4]
           c == CHOOSE v : P(v)
<1>2. P(w)
  <2>1. ASSUME NEW i \in 0 .. n
        PROVE  w[i] = IF i = 0 THEN 0 ELSE w[i - 1] * 256 + b[i]
    <3> HIDE DEF w1
    <3>1. i = 0 \/ i = 1 \/ i = 2 \/ i = 3 \/ i = 4
      BY <1>1
    <3>2. i = 1 => w[i] = w[i - 1] * 256 + b[i]
      BY DEF w1
    <3> QED
      BY <3>1, <3>2
  <2> QED
    BY <2>1, SMTT(20)
<1>3. P(c)
  <2> HIDE DEF w
  <2>1. \E v : P(v)
    BY <1>2
  <2> QED
    BY <2>1, Zenon
<1>4. ToUnsigned(b) = c[n]
  BY DEF ToUnsigned, Bytes256
<1>5. c[0] = 0 /\ \A i \in 1 .. n : c[i] = c[i - 1] * 256 + b[i]
  <2> HIDE DEF c
  <2>1. 0 \in 0 .. n /\ \A i \in 1 .. n : i \in 0 .. n /\ i # 0
    OBVIOUS
  <2> QED
    BY <1>3, <2>1
<1> HIDE DEF P, c
<1>6. Sums(c, b, n)
  BY <1>4, <1>5 DEF Sums
<1> QED
  BY <1>6

\* What that makes of one, two and four bytes.
LEMMA Horner ==
  ASSUME NEW b, NEW n \in {1, 2, 4}, b \in [1 .. n -> Int], Len(b) = n, Bytes256
  PROVE  /\ n = 1 => ToUnsigned(b) = b[1]
         /\ n = 2 => ToUnsigned(b) = b[1] * 256 + b[2]
         /\ n = 4 => ToUnsigned(b) = ((b[1] * 256 + b[2]) * 256 + b[3]) * 256 + b[4]
<1>1. PICK v : Sums(v, b, n)
  BY Unrolled
<1>2. b[1] \in Int /\ v[1] = b[1]
  BY <1>1 DEF Sums
<1>3. n \in {2, 4} => b[2] \in Int /\ v[2] = b[1] * 256 + b[2]
  BY <1>1, <1>2 DEF Sums
<1>4. n = 4 => b[3] \in Int /\ v[3] = (b[1] * 256 + b[2]) * 256 + b[3]
  BY <1>1, <1>3 DEF Sums
<1>5. n = 4 => v[4] = ((b[1] * 256 + b[2]) * 256 + b[3]) * 256 + b[4]
  BY <1>1, <1>4 DEF Sums
<1> QED
  BY <1>1, <1>2, <1>3, <1>5 DEF Sums

\* u64_to_be(): b is the low n bytes of v, the highest first.
BigEndian(b, v, n) ==
  /\ b \in [1 .. n -> Octet] /\ Len(b) = n
  /\ n = 1 => b[1] = v % 256
  /\ n = 2 => b[1] = (v \div 256) % 256 /\ b[2] = v % 256
  /\ n = 4 => /\ b[1] = (v \div 16777216) % 256 /\ b[2] = (v \div 65536) % 256
              /\ b[3] = (v \div 256) % 256 /\ b[4] = v % 256

\* u64_to_be() gives these bytes.
LEMMA EachByte ==
  ASSUME NEW v \in Int, NEW n \in {1, 2, 4}, Bytes256
  PROVE  BigEndian(ToBytes(v, n), v, n)
<1> DEFINE b == ToBytes(v, n)
           q(i) == (v \div ByteSize ^ (n - i)) % ByteSize
<1>1. b = [i \in 1 .. n |-> q(i)]
  BY DEF ToBytes
<1>2. Len(b) = n
  <2> HIDE DEF q
  <2> QED
    BY <1>1
<1>3. \A x \in Int : x % 256 \in Octet
  BY SMT DEF Octet, Bytes256
<1>4. v \div 256 \in Int /\ v \div 65536 \in Int /\ v \div 16777216 \in Int /\ v \div 1 = v
  BY SMT
<1>5. /\ n = 1 => q(1) = v % 256
      /\ n = 2 => q(1) = (v \div 256) % 256 /\ q(2) = v % 256
  <2>1. CASE n = 1
    <3>1. n - 1 = 0
      BY <2>1
    <3>2. q(1) = v % 256
      BY <1>4, <3>1, Powers, SMT DEF Bytes256
    <3> QED
      BY <2>1, <3>2
  <2>2. CASE n = 2
    <3>1. n - 1 = 1 /\ n - 2 = 0
      BY <2>2
    <3>2. q(1) = (v \div 256) % 256
      BY <3>1, Powers, SMT DEF Bytes256
    <3>3. q(2) = v % 256
      BY <1>4, <3>1, Powers, SMT DEF Bytes256
    <3> QED
      BY <2>2, <3>2, <3>3
  <2> QED
    BY <2>1, <2>2
<1>6. n = 4 => /\ q(1) = (v \div 16777216) % 256 /\ q(2) = (v \div 65536) % 256
               /\ q(3) = (v \div 256) % 256 /\ q(4) = v % 256
  <2> SUFFICES ASSUME n = 4
               PROVE  /\ q(1) = (v \div 16777216) % 256 /\ q(2) = (v \div 65536) % 256
                      /\ q(3) = (v \div 256) % 256 /\ q(4) = v % 256
    BY SMT
  <2>1. n - 1 = 3 /\ n - 2 = 2 /\ n - 3 = 1 /\ n - 4 = 0
    BY SMT
  <2>2. q(1) = (v \div 16777216) % 256
    BY <2>1, Powers, SMT DEF Bytes256
  <2>3. q(2) = (v \div 65536) % 256
    BY <2>1, Powers, SMT DEF Bytes256
  <2>4. q(3) = (v \div 256) % 256
    BY <2>1, Powers, SMT DEF Bytes256
  <2>5. q(4) = v % 256
    BY <1>4, <2>1, Powers, SMT DEF Bytes256
  <2> QED
    BY <2>2, <2>3, <2>4, <2>5, SMT
<1> HIDE DEF b, q
<1>7. \A i \in 1 .. n : q(i) \in Octet
  <2>1. ASSUME NEW i \in 1 .. n PROVE q(i) \in Octet
    <3>1. i = 1 \/ i = 2 \/ i = 3 \/ i = 4
      OBVIOUS
    <3> QED
      BY <1>3, <1>4, <1>5, <1>6, <3>1, SMT
  <2> QED
    BY <2>1
<1>8. b \in [1 .. n -> Octet] /\ \A i \in 1 .. n : b[i] = q(i)
  BY <1>1, <1>7
<1> QED
  BY <1>2, <1>5, <1>6, <1>8, SMT DEF b, BigEndian

\* The values of a byte.
LEMMA OctetInt == Bytes256 => Octet \subseteq Int /\ Octet = 0 .. 255
BY SMT DEF Octet, Bytes256

\* Encoding and decoding again keeps the low bytes of a value.
LEMMA Encoded ==
  ASSUME NEW v \in Int, NEW n \in {1, 2, 4}, Bytes256
  PROVE  ToUnsigned(ToBytes(v, n)) = v % ByteSize ^ n
<1> DEFINE b == ToBytes(v, n)
<1>1. BigEndian(b, v, n)
  BY EachByte
<1> HIDE DEF b
<1>2. b \in [1 .. n -> Int] /\ Len(b) = n
  BY <1>1, OctetInt, SMT DEF BigEndian
<1>3. CASE n = 1
  <2>1. ToUnsigned(b) = b[1]
    BY <1>2, <1>3, Horner
  <2>2. b[1] = v % 256
    BY <1>1, <1>3, SMT DEF BigEndian
  <2> QED
    BY <1>3, <2>1, <2>2, Powers, SMT DEF b
<1>4. CASE n = 2
  <2>1. ToUnsigned(b) = b[1] * 256 + b[2]
    BY <1>2, <1>4, Horner
  <2>2. b[1] = (v \div 256) % 256 /\ b[2] = v % 256
    BY <1>1, <1>4, SMT DEF BigEndian
  <2>3. ToUnsigned(b) = v % 65536
    BY <2>1, <2>2, LowWord, SMT
  <2> QED
    BY <1>4, <2>3, Powers, SMT DEF b
<1>5. CASE n = 4
  <2>1. ToUnsigned(b) = ((b[1] * 256 + b[2]) * 256 + b[3]) * 256 + b[4]
    BY <1>2, <1>5, Horner
  <2>2. /\ b[1] = (v \div 16777216) % 256 /\ b[2] = (v \div 65536) % 256
        /\ b[3] = (v \div 256) % 256 /\ b[4] = v % 256
    BY <1>1, <1>5, SMT DEF BigEndian
  <2>3. ToUnsigned(b) = v % 4294967296
    BY <2>1, <2>2, FourBytes, SMT
  <2> QED
    BY <1>5, <2>3, Powers, SMT DEF b
<1> QED
  BY <1>3, <1>4, <1>5
-----------------------------------------------------------------------------
(* reorder(). *)

\* r is b with its bytes where the byte order has them.
Moved(r, b, n, order) ==
  /\ r \in [1 .. n -> Octet] /\ Len(r) = n
  /\ n = 1 => r[1] = b[1]
  /\ n = 2 /\ order \in {"big", "big_swap"} => r[1] = b[1] /\ r[2] = b[2]
  /\ n = 2 /\ order \in {"little", "little_swap"} => r[1] = b[2] /\ r[2] = b[1]
  /\ n = 4 => \A i \in 1 .. 4 : r[i] = b[Layout[order][i]]

\* The three orders that are not big-endian.
LEMMA Swapped ==
  ASSUME NEW n \in {2, 4}, NEW b \in [1 .. n -> Octet], Len(b) = n
  PROVE  Moved(SwapWords(b), b, n, "big_swap")
<1> DEFINE r == SwapWords(b)
           q(i) == b[2 * ((n - i) \div 2) + 2 - (i % 2)]
<1>1. r = [i \in 1 .. n |-> q(i)]
  BY DEF SwapWords
<1>2. CASE n = 2
  <2>1. (2 - 1) \div 2 = 0 /\ (2 - 2) \div 2 = 0 /\ 1 % 2 = 1 /\ 2 % 2 = 0
    BY SMT
  <2>2. 2 * ((2 - 1) \div 2) + 2 - (1 % 2) = 1 /\ 2 * ((2 - 2) \div 2) + 2 - (2 % 2) = 2
    BY <2>1, SMT
  <2>3. q(1) = b[1] /\ q(2) = b[2]
    BY <1>2, <2>2
  <2> HIDE DEF q, r
  <2>4. \A i \in 1 .. n : q(i) = b[1] \/ q(i) = b[2]
    BY <1>2, <2>3
  <2> QED
    BY <1>1, <1>2, <2>3, <2>4 DEF Moved, r
<1>3. CASE n = 4
  <2>1. /\ 2 * ((4 - 1) \div 2) + 2 - (1 % 2) = 3 /\ 2 * ((4 - 2) \div 2) + 2 - (2 % 2) = 4
        /\ 2 * ((4 - 3) \div 2) + 2 - (3 % 2) = 1 /\ 2 * ((4 - 4) \div 2) + 2 - (4 % 2) = 2
    BY SMT
  <2>2. q(1) = b[3] /\ q(2) = b[4] /\ q(3) = b[1] /\ q(4) = b[2]
    BY <1>3, <2>1
  <2> HIDE DEF q, r
  <2>3. r \in [1 .. n -> Octet] /\ Len(r) = n
    BY <1>1, <1>3, <2>2
  <2>4. r[1] = b[3] /\ r[2] = b[4] /\ r[3] = b[1] /\ r[4] = b[2]
    BY <1>1, <1>3, <2>2
  <2>5. \A i \in 1 .. 4 : r[i] = b[<<3, 4, 1, 2>>[i]]
    BY <2>4
  <2> QED
    BY <1>3, <2>3, <2>5 DEF Moved, r, Layout
<1> QED
  BY <1>2, <1>3

LEMMA Exchanged ==
  ASSUME NEW n \in {2, 4}, NEW b \in [1 .. n -> Octet], Len(b) = n
  PROVE  Moved(SwapBytes(b), b, n, "little_swap")
<1> DEFINE r == SwapBytes(b)
           q(i) == IF i % 2 = 1 THEN b[i + 1] ELSE b[i - 1]
<1>1. r = [i \in 1 .. n |-> q(i)]
  BY DEF SwapBytes
<1>2. 1 % 2 = 1 /\ 2 % 2 = 0 /\ 3 % 2 = 1 /\ 4 % 2 = 0
  BY SMT
<1>3. q(1) = b[2] /\ q(2) = b[1] /\ q(3) = b[4] /\ q(4) = b[3]
  BY <1>2
<1> HIDE DEF q, r
<1>4. CASE n = 2
  <2>1. r \in [1 .. n -> Octet] /\ Len(r) = n /\ r[1] = b[2] /\ r[2] = b[1]
    BY <1>1, <1>3, <1>4
  <2> QED
    BY <1>4, <2>1 DEF Moved, r
<1>5. CASE n = 4
  <2>1. r \in [1 .. n -> Octet] /\ Len(r) = n
    BY <1>1, <1>3, <1>5
  <2>2. r[1] = b[2] /\ r[2] = b[1] /\ r[3] = b[4] /\ r[4] = b[3]
    BY <1>1, <1>3, <1>5
  <2>3. \A i \in 1 .. 4 : r[i] = b[<<2, 1, 4, 3>>[i]]
    BY <2>2
  <2> QED
    BY <1>5, <2>1, <2>3 DEF Moved, r, Layout
<1> QED
  BY <1>4, <1>5

LEMMA Reversed ==
  ASSUME NEW n \in {2, 4}, NEW b \in [1 .. n -> Octet], Len(b) = n
  PROVE  Moved(Reverse(b), b, n, "little")
<1> DEFINE r == Reverse(b)
           q(i) == b[(n - i) + 1]
<1>1. r = [i \in 1 .. n |-> q(i)]
  BY DEF Reverse
<1>2. CASE n = 2
  <2>1. q(1) = b[2] /\ q(2) = b[1]
    BY <1>2
  <2> HIDE DEF q, r
  <2>2. r \in [1 .. n -> Octet] /\ Len(r) = n /\ r[1] = b[2] /\ r[2] = b[1]
    BY <1>1, <1>2, <2>1
  <2> QED
    BY <1>2, <2>2 DEF Moved, r
<1>3. CASE n = 4
  <2>1. q(1) = b[4] /\ q(2) = b[3] /\ q(3) = b[2] /\ q(4) = b[1]
    BY <1>3
  <2> HIDE DEF q, r
  <2>2. r \in [1 .. n -> Octet] /\ Len(r) = n
    BY <1>1, <1>3, <2>1
  <2>3. r[1] = b[4] /\ r[2] = b[3] /\ r[3] = b[2] /\ r[4] = b[1]
    BY <1>1, <1>3, <2>1
  <2>4. \A i \in 1 .. 4 : r[i] = b[<<4, 3, 2, 1>>[i]]
    BY <2>3
  <2> QED
    BY <1>3, <2>2, <2>4 DEF Moved, r, Layout
<1> QED
  BY <1>2, <1>3

\* reorder() puts the bytes where the byte order's table says.
LEMMA Reordered ==
  ASSUME NEW n \in {1, 2, 4}, NEW b \in [1 .. n -> Octet], Len(b) = n,
         NEW order \in ByteOrders, n = 1 => order = "big"
  PROVE  Moved(Reorder(b, order), b, n, order)
<1>1. CASE order = "big"
  <2>1. Reorder(b, order) = b
    BY <1>1 DEF Reorder
  <2>2. n = 4 => \A i \in 1 .. 4 : b[i] = b[<<1, 2, 3, 4>>[i]]
    OBVIOUS
  <2>3. Layout[order] = <<1, 2, 3, 4>>
    BY <1>1 DEF Layout
  <2> QED
    BY <1>1, <2>1, <2>2, <2>3 DEF Moved
<1>2. CASE order = "little"
  BY <1>2, Reversed DEF Reorder
<1>3. CASE order = "big_swap"
  BY <1>3, Swapped DEF Reorder
<1>4. CASE order = "little_swap"
  BY <1>4, Exchanged DEF Reorder
<1> QED
  BY <1>1, <1>2, <1>3, <1>4 DEF ByteOrders

\* reorder() is its own inverse.
LEMMA ReorderTwice ==
  ASSUME NEW n \in {1, 2, 4}, NEW b \in [1 .. n -> Octet], Len(b) = n,
         NEW order \in ByteOrders, n = 1 => order = "big"
  PROVE  Reorder(Reorder(b, order), order) = b
<1> DEFINE r == Reorder(b, order)
           s == Reorder(r, order)
<1>1. Moved(r, b, n, order)
  BY Reordered
<1> HIDE DEF r
<1>2. Moved(s, r, n, order)
  BY <1>1, Reordered DEF Moved
<1> HIDE DEF s
<1>3. CASE n \in {1, 2}
  <2>1. s \in [1 .. n -> Octet] /\ \A i \in 1 .. n : s[i] = b[i]
    BY <1>1, <1>2, <1>3 DEF Moved, ByteOrders
  <2> QED
    BY <2>1 DEF r, s
<1>4. CASE n = 4
  <2>1. Layout[order] \in {<<1, 2, 3, 4>>, <<4, 3, 2, 1>>, <<3, 4, 1, 2>>, <<2, 1, 4, 3>>}
    BY DEF Layout, ByteOrders
  <2>2. \A i \in 1 .. 4 : s[i] = r[Layout[order][i]] /\ r[i] = b[Layout[order][i]]
    BY <1>1, <1>2, <1>4 DEF Moved
  <2>3. \A i \in 1 .. 4 : s[i] = b[i]
    BY <2>1, <2>2
  <2>4. s \in [1 .. n -> Octet]
    BY <1>2 DEF Moved
  <2> QED
    BY <1>4, <2>3, <2>4 DEF r, s
<1> QED
  BY <1>3, <1>4
-----------------------------------------------------------------------------
(* Tags of numbers. *)

\* The types and how many bytes they have.
LEMMA Sizes ==
  /\ DataTypes = {"bit", "u8", "i8", "u16", "i16", "u32", "i32"}
  /\ \A type \in DataTypes : TypeSize[type] \in {1, 2, 4}
  /\ \A type \in DataTypes : (type = "bit" => TypeSize[type] = 1)
  /\ TypeSize["i32"] = 4 /\ TypeSize["u16"] = 2
BY DEF DataTypes, TypeSize

\* What is stored is what is read at the same place, and nothing else changes.
StoredAt(w, img, off, n, b) ==
  /\ BytesAt(w, off, n) = b
  /\ \A i \in 1 .. n : w[off + i - 1] = b[i]
  /\ \A x \in DOMAIN img \ (off .. off + n - 1) : w[x] = img[x]

\* The image with the bytes b at an offset.
Put(img, off, n, b) ==
  [i \in DOMAIN img |-> IF i \in off .. off + n - 1 THEN b[i - off + 1] ELSE img[i]]

\* The bytes fit in there.
Placed(img, D, off, n, b) ==
  /\ img \in [D -> Octet] /\ off \in Int /\ n \in {1, 2, 4} /\ b \in [1 .. n -> Octet]
  /\ off .. off + n - 1 \subseteq D

\* Storing bytes in an image.
LEMMA StoreBytes ==
  ASSUME NEW D, NEW img, NEW off, NEW n, NEW b, Placed(img, D, off, n, b)
  PROVE  StoredAt(Put(img, off, n, b), img, off, n, b) /\ Put(img, off, n, b) \in [D -> Octet]
<1> DEFINE w == Put(img, off, n, b)
<1>1. \A i \in 1 .. n : off + i - 1 \in off .. off + n - 1 /\ (off + i - 1) - off + 1 = i
  BY SMT DEF Placed
<1>2. \A i \in 1 .. n : w[off + i - 1] = b[i]
  BY <1>1 DEF Put, Placed
<1>3. \A x \in D \ (off .. off + n - 1) : w[x] = img[x]
  BY DEF Put, Placed
<1>4. \A x \in off .. off + n - 1 : x - off + 1 \in 1 .. n
  BY SMT DEF Placed
<1>5. w \in [D -> Octet]
  BY <1>4 DEF Put, Placed
<1> HIDE DEF w
<1>6. BytesAt(w, off, n) = b
  BY <1>2 DEF BytesAt, Placed
<1> QED
  BY <1>2, <1>3, <1>5, <1>6 DEF StoredAt, w, Placed

\* A tag that lies within an image.
Tagged(img, tag) ==
  /\ tag.type \in DataTypes /\ tag.order \in ByteOrders /\ tag.offset \in Int
  /\ InRange(img, tag.offset, TypeSize[tag.type])

\* The bytes set_int() stores under a tag that is not a bit.
TagBytes(tag, v) == Reorder(ToBytes(v, TypeSize[tag.type]), OrderOf(tag))

\* set_int() of a number stores its bytes in the order of the tag.
LEMMA StoreTag ==
  ASSUME NEW D, NEW img \in [D -> Octet], NEW tag, Tagged(img, tag), tag.type # "bit",
         NEW v \in Int, Bytes256
  PROVE  /\ StoredAt(SetInt(img, tag, v), img, tag.offset, TypeSize[tag.type], TagBytes(tag, v))
         /\ SetInt(img, tag, v) \in [D -> Octet]
<1> DEFINE n == TypeSize[tag.type]
           b == TagBytes(tag, v)
           off == tag.offset
<1>1. n \in {1, 2, 4}
  BY Sizes DEF Tagged
<1>2. b \in [1 .. n -> Octet]
  <2>1. BigEndian(ToBytes(v, n), v, n)
    BY <1>1, EachByte
  <2>2. ToBytes(v, n) \in [1 .. n -> Octet] /\ Len(ToBytes(v, n)) = n
    BY <2>1 DEF BigEndian
  <2>3. OrderOf(tag) \in ByteOrders /\ (n = 1 => OrderOf(tag) = "big")
    BY DEF OrderOf, Tagged, ByteOrders
  <2>4. Moved(b, ToBytes(v, n), n, OrderOf(tag))
    BY <1>1, <2>2, <2>3, Reordered DEF TagBytes
  <2> QED
    BY <2>4 DEF Moved
<1>3. off .. off + n - 1 \subseteq D
  BY DEF Tagged, InRange
<1>4. off \in Int
  BY DEF Tagged
<1>5. SetInt(img, tag, v) = Put(img, off, n, b)
  BY DEF SetInt, Put, TagBytes
<1> HIDE DEF n, b, off
<1>6. Placed(img, D, off, n, b)
  BY <1>1, <1>2, <1>3, <1>4 DEF Placed
<1>7. StoredAt(Put(img, off, n, b), img, off, n, b) /\ Put(img, off, n, b) \in [D -> Octet]
  BY <1>6, StoreBytes
<1> QED
  BY <1>5, <1>7 DEF n, b, off

\* get_int() of these bytes is the number, within its type.
LEMMA DecodeTag ==
  ASSUME NEW img, NEW tag, Tagged(img, tag), tag.type # "bit", NEW v \in Int, Bytes256,
         BytesAt(img, tag.offset, TypeSize[tag.type]) = TagBytes(tag, v)
  PROVE  GetInt(img, tag) = Wrapped(v, tag.type)
<1> DEFINE n == TypeSize[tag.type]
           c == ToBytes(v, n)
           o == OrderOf(tag)
           m == v % ByteSize ^ n
<1>1. n \in {1, 2, 4}
  BY Sizes DEF Tagged
<1>2. c \in [1 .. n -> Octet] /\ Len(c) = n
  <2>1. BigEndian(c, v, n)
    BY <1>1, EachByte
  <2> QED
    BY <2>1 DEF BigEndian
<1>3. o \in ByteOrders /\ (n = 1 => o = "big")
  BY DEF OrderOf, Tagged, ByteOrders
<1>4. Reorder(BytesAt(img, tag.offset, n), o) = c
  BY <1>1, <1>2, <1>3, ReorderTwice DEF TagBytes
<1>5. ToUnsigned(Reorder(BytesAt(img, tag.offset, n), o)) = m
  BY <1>1, <1>4, Encoded
<1> HIDE DEF m
<1>6. GetInt(img, tag) = IF IsSigned(tag.type) THEN ToSigned(m, n) ELSE m
  BY <1>5 DEF GetInt, IsSigned
<1>7. Wrapped(v, tag.type) = IF IsSigned(tag.type) THEN ToSigned(m, n) ELSE m
  BY DEF Wrapped, IsSigned, m
<1> QED
  BY <1>6, <1>7
-----------------------------------------------------------------------------
(* Tags of bits. *)

\* The bits of a byte.
BitWeights == <<1, 2, 4, 8, 16, 32, 64, 128>>
BitValues == {1, 2, 4, 8, 16, 32, 64, 128}

LEMMA BitPower ==
  ASSUME NEW k \in 0 .. 7 PROVE 2 ^ k = BitWeights[k + 1]
<1>1. /\ 2 ^ 0 = 1 /\ 2 ^ 1 = 2 /\ 2 ^ 2 = 4 /\ 2 ^ 3 = 8
      /\ 2 ^ 4 = 16 /\ 2 ^ 5 = 32 /\ 2 ^ 6 = 64 /\ 2 ^ 7 = 128
  BY SMT
<1>2. k = 0 \/ k = 1 \/ k = 2 \/ k = 3 \/ k = 4 \/ k = 5 \/ k = 6 \/ k = 7
  BY SMT
<1>3. CASE k = 0
  BY <1>1, <1>3 DEF BitWeights
<1>4. CASE k = 1
  BY <1>1, <1>4 DEF BitWeights
<1>5. CASE k = 2
  BY <1>1, <1>5 DEF BitWeights
<1>6. CASE k = 3
  BY <1>1, <1>6 DEF BitWeights
<1>7. CASE k = 4
  BY <1>1, <1>7 DEF BitWeights
<1>8. CASE k = 5
  BY <1>1, <1>8 DEF BitWeights
<1>9. CASE k = 6
  BY <1>1, <1>9 DEF BitWeights
<1>10. CASE k = 7
  BY <1>1, <1>10 DEF BitWeights
<1> QED
  BY <1>2, <1>3, <1>4, <1>5, <1>6, <1>7, <1>8, <1>9, <1>10

\* Bits with different numbers have different weights.
LEMMA BitsApart ==
  /\ \A k \in 0 .. 7 : 2 ^ k \in BitValues
  /\ \A j, k \in 0 .. 7 : 2 ^ j = 2 ^ k => j = k
<1>1. \A k \in 0 .. 7 : BitWeights[k + 1] \in BitValues
  BY SMT DEF BitWeights, BitValues
<1>2. \A j, k \in 0 .. 7 : BitWeights[j + 1] = BitWeights[k + 1] => j = k
  BY SMT DEF BitWeights
<1> QED
  BY <1>1, <1>2, BitPower, Zenon

\* set_bit() gives the bit its value and leaves the others of the byte alone.
LEMMA SetBit ==
  ASSUME NEW byte \in Int, NEW p \in BitValues, NEW v \in {0, 1}
  PROVE  ((byte + (v - ((byte \div p) % 2)) * p) \div p) % 2 = v
BY SMT DEF BitValues

Bit(byte, p) == (byte \div p) % 2

LEMMA OtherBits ==
  ASSUME NEW byte \in 0 .. 255, NEW p \in BitValues, NEW q \in BitValues,
         NEW v \in {0, 1}, q # p
  PROVE  Bit(byte + (v - ((byte \div p) % 2)) * p, q) = Bit(byte, q)
<1>1. CASE p = 1
  BY <1>1, SMTT(30) DEF BitValues, Bit
<1>2. CASE p = 2
  BY <1>2, SMTT(30) DEF BitValues, Bit
<1>3. CASE p = 4
  BY <1>3, SMTT(30) DEF BitValues, Bit
<1>4. CASE p = 8
  BY <1>4, SMTT(30) DEF BitValues, Bit
<1>5. CASE p = 16
  BY <1>5, SMTT(30) DEF BitValues, Bit
<1>6. CASE p = 32
  BY <1>6, SMTT(30) DEF BitValues, Bit
<1>7. CASE p = 64
  BY <1>7, SMTT(30) DEF BitValues, Bit
<1>8. CASE p = 128
  BY <1>8, SMTT(30) DEF BitValues, Bit
<1> QED
  BY <1>1, <1>2, <1>3, <1>4, <1>5, <1>6, <1>7, <1>8 DEF BitValues

\* A value stored under a tag is read back, lies where the byte order says, and
\* disturbs nothing else, be it another byte or another bit.
KeptIn(w, img, tag, v) ==
  LET n == TypeSize[tag.type]
  IN  /\ GetInt(w, tag) = Wrapped(v, tag.type)
      /\ n = 4 => \A i \in 1 .. 4 :
                     w[tag.offset + i - 1] = ToBytes(v, 4)[Layout[tag.order][i]]
      /\ \A x \in DOMAIN img \ (tag.offset .. tag.offset + n - 1) : w[x] = img[x]
      /\ tag.type = "bit" => \A k \in 0 .. 7 \ {tag.bit} :
                               Bit(w[tag.offset], 2 ^ k) = Bit(img[tag.offset], 2 ^ k)

\* The two cases of the theorem below: a number, and a bit.
LEMMA NumberKept ==
  ASSUME NEW D, NEW img \in [D -> Octet], NEW tag, Tagged(img, tag), tag.type # "bit",
         NEW v \in Int, Bytes256
  PROVE  KeptIn(SetInt(img, tag, v), img, tag, v)
<1> DEFINE w == SetInt(img, tag, v)
           n == TypeSize[tag.type]
<1>1. StoredAt(w, img, tag.offset, n, TagBytes(tag, v)) /\ w \in [D -> Octet]
  BY StoreTag
<1>2. Tagged(w, tag)
  BY <1>1 DEF Tagged, InRange
<1> HIDE DEF w
<1>3. GetInt(w, tag) = Wrapped(v, tag.type)
  BY <1>1, <1>2, DecodeTag DEF StoredAt
<1>4. n = 4 => \A i \in 1 .. 4 :
                 w[tag.offset + i - 1] = ToBytes(v, 4)[Layout[tag.order][i]]
  <2> SUFFICES ASSUME n = 4
               PROVE  \A i \in 1 .. 4 :
                        w[tag.offset + i - 1] = ToBytes(v, 4)[Layout[tag.order][i]]
    OBVIOUS
  <2>1. BigEndian(ToBytes(v, 4), v, 4)
    BY EachByte
  <2>2. ToBytes(v, 4) \in [1 .. 4 -> Octet] /\ Len(ToBytes(v, 4)) = 4
    BY <2>1 DEF BigEndian
  <2>3. OrderOf(tag) = tag.order /\ tag.order \in ByteOrders
    BY DEF OrderOf, Tagged
  <2>4. Moved(TagBytes(tag, v), ToBytes(v, 4), 4, tag.order)
    BY <2>2, <2>3, Reordered DEF TagBytes
  <2> QED
    BY <1>1, <2>4 DEF Moved, StoredAt
<1> QED
  BY <1>1, <1>3, <1>4 DEF KeptIn, StoredAt, w

LEMMA BitKept ==
  ASSUME NEW D, NEW img \in [D -> Octet], NEW tag, Tagged(img, tag), tag.type = "bit",
         tag.bit \in 0 .. 7, NEW v \in Int, Bytes256
  PROVE  KeptIn(SetInt(img, tag, v), img, tag, v)
<1> DEFINE w == SetInt(img, tag, v)
           off == tag.offset
           p == 2 ^ tag.bit
           bit == IF v = 0 THEN 0 ELSE 1
           byte == img[off]
           new == byte + (bit - ((byte \div p) % 2)) * p
<1>1. TypeSize[tag.type] = 1
  BY Sizes DEF Tagged
<1>2. off \in D /\ byte \in 0 .. 255 /\ off \in Int
  BY <1>1, OctetInt DEF Tagged, InRange
<1>3. p \in BitValues /\ bit \in {0, 1}
  BY BitsApart
<1>4. w = [x \in D |-> IF x \in off .. off THEN <<new>>[x - off + 1] ELSE img[x]]
  BY <1>1, <1>2 DEF SetInt, WithBit
<1> HIDE DEF p, bit, byte, w
<1>5. w[off] = new
  <2> HIDE DEF new
  <2> QED
    BY <1>2, <1>4
<1>6. \A x \in D \ (off .. off) : w[x] = img[x]
  BY <1>4
<1>7. GetInt(w, tag) = Wrapped(v, tag.type)
  <2>1. GetInt(w, tag) = (w[off] \div p) % 2
    BY DEF GetInt, p, IsSigned
  <2>2. Wrapped(v, tag.type) = bit
    BY DEF Wrapped, bit, IsSigned
  <2>3. (new \div p) % 2 = bit
    BY <1>2, <1>3, SetBit
  <2> QED
    BY <1>5, <2>1, <2>2, <2>3
<1>8. ASSUME NEW k \in 0 .. 7 \ {tag.bit} PROVE Bit(w[off], 2 ^ k) = Bit(byte, 2 ^ k)
  <2>1. 2 ^ k \in BitValues /\ 2 ^ k # p
    BY BitsApart DEF p
  <2> QED
    BY <1>2, <1>3, <1>5, <2>1, OtherBits
<1>9. \A x \in DOMAIN img \ (off .. off + 1 - 1) : w[x] = img[x]
  BY <1>2, <1>6
<1> QED
  BY <1>1, <1>7, <1>8, <1>9 DEF KeptIn, w, byte

\* ProcessImage::set() and get() agree in every image: a value stored under a tag of any
\* type, byte order and offset is read back as the type's width leaves it, the bytes of a
\* long word lie where the byte order says, and no other byte and no other bit changes.
THEOREM TagsAreKept ==
  ASSUME NEW D, NEW img \in [D -> Octet], NEW tag, Tagged(img, tag), tag.bit \in 0 .. 7,
         NEW v \in Int, Bytes256
  PROVE  KeptIn(SetInt(img, tag, v), img, tag, v)
<1>1. CASE tag.type = "bit"
  BY <1>1, BitKept
<1>2. CASE tag.type # "bit"
  BY <1>2, NumberKept
<1> QED
  BY <1>1, <1>2
-----------------------------------------------------------------------------
(* Arithmetic: clamp(), division, llround(). *)

\* The larger and the smaller of two numbers, and clamp().
LEMMA MaxPair ==
  ASSUME NEW a \in Int, NEW b \in Int
  PROVE  Max({a, b}) = IF a >= b THEN a ELSE b
<1> DEFINE m == CHOOSE x \in {a, b} : \A y \in {a, b} : x >= y
<1>1. \E x \in {a, b} : \A y \in {a, b} : x >= y
  OBVIOUS
<1>2. m \in {a, b} /\ \A y \in {a, b} : m >= y
  BY <1>1
<1>3. Max({a, b}) = m
  BY DEF Max
<1> HIDE DEF m
<1> QED
  BY <1>2, <1>3

LEMMA MinPair ==
  ASSUME NEW a \in Int, NEW b \in Int
  PROVE  Min({a, b}) = IF a <= b THEN a ELSE b
<1> DEFINE m == CHOOSE x \in {a, b} : \A y \in {a, b} : x <= y
<1>1. \E x \in {a, b} : \A y \in {a, b} : x <= y
  OBVIOUS
<1>2. m \in {a, b} /\ \A y \in {a, b} : m <= y
  BY <1>1
<1>3. Min({a, b}) = m
  BY DEF Min
<1> HIDE DEF m
<1> QED
  BY <1>2, <1>3

LEMMA Clamps ==
  ASSUME NEW x \in Int, NEW low \in Int, NEW high \in Int, low <= high
  PROVE  /\ Clamp(x, low, high) \in low .. high
         /\ x \in low .. high => Clamp(x, low, high) = x
         /\ x > high => Clamp(x, low, high) = high
         /\ x < low => Clamp(x, low, high) = low
<1>1. Min({x, high}) = IF x <= high THEN x ELSE high
  BY MinPair
<1> DEFINE y == Min({x, high})
<1>2. y \in Int
  BY <1>1
<1> HIDE DEF y
<1>3. Max({low, y}) = IF low >= y THEN low ELSE y
  BY <1>2, MaxPair
<1> QED
  BY <1>1, <1>3 DEF Clamp, y

\* Division rounds down and keeps the order.
LEMMA Quotient ==
  ASSUME NEW a \in Int, NEW d \in Nat \ {0}
  PROVE  a \div d \in Int /\ d * (a \div d) <= a /\ a < d * (a \div d) + d
BY SMT

LEMMA QuotientOrder ==
  ASSUME NEW a \in Int, NEW b \in Int, NEW d \in Nat \ {0}, a <= b
  PROVE  a \div d <= b \div d
<1>1. /\ a \div d \in Int /\ d * (a \div d) <= a /\ a < d * (a \div d) + d
      /\ b \div d \in Int /\ d * (b \div d) <= b /\ b < d * (b \div d) + d
  BY Quotient
<1> DEFINE p == a \div d
           q == b \div d
<1> HIDE DEF p, q
<1>2. ASSUME p > q PROVE FALSE
  <2>1. p >= q + 1
    BY <1>1, <1>2 DEF p, q
  <2>2. d * p >= d * (q + 1)
    BY <1>1, <2>1 DEF p, q
  <2>3. d * (q + 1) = d * q + d
    BY <1>1 DEF p, q
  <2> QED
    BY <1>1, <2>2, <2>3 DEF p, q
<1> QED
  BY <1>1, <1>2 DEF p, q

\* llround() is within half a step, and keeps the order.
LEMMA RoundNear ==
  ASSUME NEW a \in Int, NEW d \in Nat \ {0}
  PROVE  /\ LLRound(a, d) \in Int
         /\ 2 * Magnitude(LLRound(a, d) * d - a) <= d
<1> DEFINE p == (2 * a + d) \div (2 * d)
           q == (d - 2 * a) \div (2 * d)
<1>1. 2 * d \in Nat \ {0} /\ 2 * a + d \in Int /\ d - 2 * a \in Int
  BY SMT
<1>2. /\ p \in Int /\ (2 * d) * p <= 2 * a + d /\ 2 * a + d < (2 * d) * p + 2 * d
      /\ q \in Int /\ (2 * d) * q <= d - 2 * a /\ d - 2 * a < (2 * d) * q + 2 * d
  BY <1>1, Quotient
<1>3. LLRound(a, d) = IF a >= 0 THEN p ELSE -q
  BY DEF LLRound
<1> HIDE DEF p, q
<1>4. (2 * d) * p = 2 * (p * d) /\ (2 * d) * q = 2 * (q * d) /\ p * d \in Int /\ q * d \in Int
      /\ (-q) * d = -(q * d)
  BY <1>2
<1>5. CASE a >= 0
  BY <1>2, <1>3, <1>4, <1>5 DEF Magnitude
<1>6. CASE a < 0
  BY <1>2, <1>3, <1>4, <1>6 DEF Magnitude
<1> QED
  BY <1>5, <1>6

LEMMA RoundOrder ==
  ASSUME NEW a \in Int, NEW b \in Int, NEW d \in Nat \ {0}, a <= b
  PROVE  LLRound(a, d) <= LLRound(b, d)
<1>1. 2 * d \in Nat \ {0}
  BY SMT
<1>2. CASE a >= 0
  <2>1. 2 * a + d <= 2 * b + d /\ 2 * a + d \in Int /\ 2 * b + d \in Int
    BY SMT
  <2>2. (2 * a + d) \div (2 * d) <= (2 * b + d) \div (2 * d)
    BY <1>1, <2>1, QuotientOrder
  <2> QED
    BY <1>2, <2>2 DEF LLRound
<1>3. CASE b < 0
  <2>1. d - 2 * b <= d - 2 * a /\ d - 2 * b \in Int /\ d - 2 * a \in Int
    BY SMT
  <2>2. (d - 2 * b) \div (2 * d) <= (d - 2 * a) \div (2 * d)
    BY <1>1, <2>1, QuotientOrder
  <2>3. (d - 2 * b) \div (2 * d) \in Int /\ (d - 2 * a) \div (2 * d) \in Int
    BY <1>1, <2>1, Quotient
  <2> DEFINE p == (d - 2 * b) \div (2 * d)
             q == (d - 2 * a) \div (2 * d)
  <2>4. LLRound(a, d) = -q /\ LLRound(b, d) = -p
    BY <1>3 DEF LLRound
  <2> HIDE DEF p, q
  <2> QED
    BY <2>2, <2>3, <2>4 DEF p, q
<1>4. CASE a < 0 /\ b >= 0
  <2>1. 0 <= d - 2 * a /\ 0 <= 2 * b + d /\ d - 2 * a \in Int /\ 2 * b + d \in Int
    BY <1>4, SMT
  <2>2. 0 \div (2 * d) = 0
    BY <1>1
  <2> DEFINE p == (d - 2 * a) \div (2 * d)
             q == (2 * b + d) \div (2 * d)
  <2>3. p \in Int /\ q \in Int
    BY <1>1, <2>1, Quotient
  <2>4. 0 <= p /\ 0 <= q
    BY <1>1, <2>1, <2>2, QuotientOrder
  <2>5. LLRound(a, d) = -p /\ LLRound(b, d) = q
    BY <1>4 DEF LLRound
  <2> HIDE DEF p, q
  <2> QED
    BY <2>3, <2>4, <2>5
<1> QED
  BY <1>2, <1>3, <1>4
-----------------------------------------------------------------------------
(* The drive's tags. *)

\* A word is itself as a word.
LEMMA SmallWord == ASSUME NEW v \in Nat, v < 65536 PROVE v % 65536 = v
BY SMT

\* A value that its type can hold is not changed by the cast.
LEMMA InWidth ==
  ASSUME NEW v \in Int, Bytes256
  PROVE  /\ -(ByteSize ^ 4) <= 2 * v /\ 2 * v < ByteSize ^ 4 => Wrapped(v, "i32") = v
         /\ v \in 0 .. ByteSize ^ 2 - 1 => Wrapped(v, "u16") = v
<1>1. Wrapped(v, "i32") = ToSigned(v % ByteSize ^ 4, 4)
  BY Sizes DEF Wrapped, IsSigned
<1>2. Wrapped(v, "u16") = v % ByteSize ^ 2
  BY Sizes DEF Wrapped, IsSigned
<1>3. -4294967296 <= 2 * v /\ 2 * v < 4294967296 =>
        (IF 2 * (v % 4294967296) >= 4294967296
         THEN (v % 4294967296) - 4294967296 ELSE v % 4294967296) = v
  BY SMT
<1>4. v >= 0 /\ v < 65536 => v % 65536 = v
  BY SmallWord, SMT
<1> QED
  BY <1>1, <1>2, <1>3, <1>4, Powers, SMT DEF ToSigned

\* A tag of four bytes, high byte first.
Long(img, off) == ((img[off] * 256 + img[off + 1]) * 256 + img[off + 2]) * 256 + img[off + 3]
Word(img, off) == img[off] * 256 + img[off + 1]

\* The drive's tags read these.
LEMMA ReadLong ==
  ASSUME NEW img, NEW off \in Int, NEW scale, Bytes256,
         \A x \in off .. off + 3 : img[x] \in Octet
  PROVE  GetInt(img, TagAt("i32", off, scale)) = ToSigned(Long(img, off), 4)
<1> DEFINE tag == TagAt("i32", off, scale)
           b == BytesAt(img, off, 4)
<1>1. /\ tag.type = "i32" /\ tag.offset = off /\ OrderOf(tag) = "big"
  BY DEF TagAt, OrderOf
<1>2. GetInt(img, tag) = ToSigned(ToUnsigned(Reorder(b, "big")), 4)
  BY <1>1, Sizes DEF GetInt, IsSigned
<1>3. Reorder(b, "big") = b
  BY DEF Reorder
<1>4. b \in [1 .. 4 -> Int] /\ Len(b) = 4
  BY OctetInt DEF BytesAt
<1>5. /\ b[1] = img[off] /\ b[2] = img[off + 1] /\ b[3] = img[off + 2] /\ b[4] = img[off + 3]
  BY DEF BytesAt
<1> HIDE DEF b
<1>6. ToUnsigned(b) = ((b[1] * 256 + b[2]) * 256 + b[3]) * 256 + b[4]
  BY <1>4, Horner
<1> QED
  BY <1>2, <1>3, <1>5, <1>6 DEF Long

LEMMA ReadWord ==
  ASSUME NEW img, NEW off \in Int, NEW scale, Bytes256,
         \A x \in off .. off + 1 : img[x] \in Octet
  PROVE  GetInt(img, TagAt("u16", off, scale)) = Word(img, off)
<1> DEFINE tag == TagAt("u16", off, scale)
           b == BytesAt(img, off, 2)
<1>1. /\ tag.type = "u16" /\ tag.offset = off /\ OrderOf(tag) = "big"
  BY DEF TagAt, OrderOf
<1>2. GetInt(img, tag) = ToUnsigned(Reorder(b, "big"))
  BY <1>1, Sizes DEF GetInt, IsSigned
<1>3. Reorder(b, "big") = b
  BY DEF Reorder
<1>4. b \in [1 .. 2 -> Int] /\ Len(b) = 2
  BY OctetInt DEF BytesAt
<1>5. /\ b[1] = img[off] /\ b[2] = img[off + 1]
  BY DEF BytesAt
<1> HIDE DEF b
<1>6. ToUnsigned(b) = b[1] * 256 + b[2]
  BY <1>4, Horner
<1> QED
  BY <1>2, <1>3, <1>5, <1>6 DEF Word

\* The four output tags of the drive.
DriveTag(tag) == tag \in {ControlTag, TargetTag, FeedTag, OverrideTag}

LEMMA DriveTags ==
  /\ ControlTag.type = "u16" /\ ControlTag.offset = 0 /\ ControlTag.order = "big"
  /\ TargetTag.type = "i32" /\ TargetTag.offset = 2 /\ TargetTag.order = "big"
  /\ FeedTag.type = "i32" /\ FeedTag.offset = 6 /\ FeedTag.order = "big"
  /\ OverrideTag.type = "u16" /\ OverrideTag.offset = 10 /\ OverrideTag.order = "big"
  /\ ControlTag.bit = 0 /\ TargetTag.bit = 0 /\ FeedTag.bit = 0 /\ OverrideTag.bit = 0
BY DEF ControlTag, TargetTag, FeedTag, OverrideTag, TagAt

\* v is stored under the tag, and no other byte of the outputs has changed.
SetIn(w, img, tag, v) ==
  /\ w \in [OutBytes -> Octet]
  /\ GetInt(w, tag) = Wrapped(v, tag.type)
  /\ \A x \in OutBytes \ (tag.offset .. tag.offset + TypeSize[tag.type] - 1) : w[x] = img[x]

\* set_int() under a tag of the drive.
LEMMA SetDriveTag ==
  ASSUME NEW img \in [OutBytes -> Octet], NEW tag, DriveTag(tag), NEW v \in Int, Bytes256
  PROVE  SetIn(SetInt(img, tag, v), img, tag, v)
<1>1. Tagged(img, tag) /\ tag.type # "bit" /\ tag.bit \in 0 .. 7
  <2>1. TypeSize["u16"] = 2 /\ TypeSize["i32"] = 4 /\ "u16" \in DataTypes /\ "i32" \in DataTypes
    BY Sizes
  <2>2. /\ tag.type \in {"u16", "i32"} /\ tag.order \in ByteOrders /\ tag.offset \in Int
        /\ tag.bit = 0
    BY DriveTags DEF DriveTag, ByteOrders
  <2>3. InRange(img, tag.offset, TypeSize[tag.type])
    <3>1. /\ 0 .. 0 + 2 - 1 \subseteq OutBytes /\ 10 .. 10 + 2 - 1 \subseteq OutBytes
          /\ 2 .. 2 + 4 - 1 \subseteq OutBytes /\ 6 .. 6 + 4 - 1 \subseteq OutBytes
      BY SMT DEF OutBytes
    <3> QED
      BY <2>1, <3>1, DriveTags DEF DriveTag, InRange
  <2> QED
    BY <2>1, <2>2, <2>3 DEF Tagged
<1>2. KeptIn(SetInt(img, tag, v), img, tag, v)
  BY <1>1, TagsAreKept
<1>3. SetInt(img, tag, v) \in [OutBytes -> Octet]
  BY <1>1, StoreTag
<1> QED
  BY <1>2, <1>3 DEF KeptIn, SetIn
-----------------------------------------------------------------------------
(* The image of the outputs. *)

\* The words that an image of the outputs holds.
Holds(o, control, target, feed, override) ==
  /\ o \in [OutBytes -> Octet]
  /\ Word(o, 0) = control /\ ToSigned(Long(o, 2), 4) = target
  /\ ToSigned(Long(o, 6), 4) = feed /\ Word(o, 10) = override

\* The image holds the command c of a drive that follows.
Carries(o, c) == Holds(o, RunWord, Raw(c.position), LLRound(c.feed, FeedStep), FullOverride)

\* A value that a tag of 32 bits can hold.
Fits(v) == v \in Int /\ -(ByteSize ^ 4) <= 2 * v /\ 2 * v < ByteSize ^ 4

\* Reading the four tags of the outputs.
LEMMA OutRead ==
  ASSUME NEW o \in [OutBytes -> Octet], Bytes256
  PROVE  /\ GetInt(o, ControlTag) = Word(o, 0) /\ GetInt(o, OverrideTag) = Word(o, 10)
         /\ GetInt(o, TargetTag) = ToSigned(Long(o, 2), 4)
         /\ GetInt(o, FeedTag) = ToSigned(Long(o, 6), 4)
<1>1. \A x \in 0 .. 11 : o[x] \in Octet
  BY DEF OutBytes
<1>2. GetInt(o, ControlTag) = Word(o, 0)
  BY <1>1, ReadWord DEF ControlTag
<1>3. GetInt(o, OverrideTag) = Word(o, 10)
  BY <1>1, ReadWord DEF OverrideTag
<1>4. GetInt(o, TargetTag) = ToSigned(Long(o, 2), 4)
  BY <1>1, ReadLong DEF TargetTag
<1>5. GetInt(o, FeedTag) = ToSigned(Long(o, 6), 4)
  BY <1>1, ReadLong DEF FeedTag
<1> QED
  BY <1>2, <1>3, <1>4, <1>5

\* Setting the target or the feed changes that word alone.
LEMMA SetTarget ==
  ASSUME NEW o, NEW c, NEW t, NEW f, NEW r, Holds(o, c, t, f, r), NEW v, Fits(v), Bytes256
  PROVE  Holds(SetInt(o, TargetTag, v), c, v, f, r)
<1> DEFINE w == SetInt(o, TargetTag, v)
<1>1. o \in [OutBytes -> Octet] /\ v \in Int /\ DriveTag(TargetTag)
  BY DEF Holds, Fits, DriveTag
<1>2. /\ w \in [OutBytes -> Octet] /\ GetInt(w, TargetTag) = Wrapped(v, "i32")
      /\ \A x \in OutBytes \ (2 .. 2 + 4 - 1) : w[x] = o[x]
  <2>1. SetIn(w, o, TargetTag, v)
    BY <1>1, SetDriveTag
  <2> HIDE DEF w
  <2> QED
    BY <2>1, DriveTags, Sizes DEF SetIn
<1>3. Wrapped(v, "i32") = v
  BY InWidth DEF Fits
<1> HIDE DEF w
<1>4. ToSigned(Long(w, 2), 4) = v
  BY <1>2, <1>3, OutRead
<1>5. Word(w, 0) = Word(o, 0) /\ Long(w, 6) = Long(o, 6) /\ Word(w, 10) = Word(o, 10)
  BY <1>2 DEF Word, Long, OutBytes
<1> QED
  BY <1>2, <1>4, <1>5 DEF Holds, w

LEMMA SetFeed ==
  ASSUME NEW o, NEW c, NEW t, NEW f, NEW r, Holds(o, c, t, f, r), NEW v, Fits(v), Bytes256
  PROVE  Holds(SetInt(o, FeedTag, v), c, t, v, r)
<1> DEFINE w == SetInt(o, FeedTag, v)
<1>1. o \in [OutBytes -> Octet] /\ v \in Int /\ DriveTag(FeedTag)
  BY DEF Holds, Fits, DriveTag
<1>2. /\ w \in [OutBytes -> Octet] /\ GetInt(w, FeedTag) = Wrapped(v, "i32")
      /\ \A x \in OutBytes \ (6 .. 6 + 4 - 1) : w[x] = o[x]
  <2>1. SetIn(w, o, FeedTag, v)
    BY <1>1, SetDriveTag
  <2> HIDE DEF w
  <2> QED
    BY <2>1, DriveTags, Sizes DEF SetIn
<1>3. Wrapped(v, "i32") = v
  BY InWidth DEF Fits
<1> HIDE DEF w
<1>4. ToSigned(Long(w, 6), 4) = v
  BY <1>2, <1>3, OutRead
<1>5. Word(w, 0) = Word(o, 0) /\ Long(w, 2) = Long(o, 2) /\ Word(w, 10) = Word(o, 10)
  BY <1>2 DEF Word, Long, OutBytes
<1> QED
  BY <1>2, <1>4, <1>5 DEF Holds, w

\* The image that start() leaves: control word and override in an empty image.
LEMMA Energised ==
  ASSUME Bytes256, NEW o, o = [b \in OutBytes |-> 0]
  PROVE  Holds(SetInt(SetInt(o, ControlTag, RunWord), OverrideTag, FullOverride),
               RunWord, 0, 0, FullOverride)
<1> DEFINE p == SetInt(o, ControlTag, RunWord)
           w == SetInt(p, OverrideTag, FullOverride)
<1>1. /\ RunWord \in Int /\ FullOverride \in Int
      /\ Wrapped(RunWord, "u16") = RunWord /\ Wrapped(FullOverride, "u16") = FullOverride
  <2>1. RunWord \in 0 .. ByteSize ^ 2 - 1 /\ FullOverride \in 0 .. ByteSize ^ 2 - 1
    BY TagAssumption
  <2>2. RunWord \in Int /\ FullOverride \in Int
    BY <2>1
  <2> QED
    BY <2>1, <2>2, InWidth
<1>2. o \in [OutBytes -> Octet] /\ DriveTag(ControlTag) /\ DriveTag(OverrideTag)
  BY SMT DEF Octet, Bytes256, DriveTag
<1>3. /\ p \in [OutBytes -> Octet] /\ GetInt(p, ControlTag) = RunWord
      /\ \A x \in OutBytes \ (0 .. 0 + 2 - 1) : p[x] = o[x]
  <2>1. SetIn(p, o, ControlTag, RunWord)
    BY <1>1, <1>2, SetDriveTag
  <2> HIDE DEF p
  <2> QED
    BY <1>1, <2>1, DriveTags, Sizes DEF SetIn
<1> HIDE DEF p
<1>4. /\ w \in [OutBytes -> Octet] /\ GetInt(w, OverrideTag) = FullOverride
      /\ \A x \in OutBytes \ (10 .. 10 + 2 - 1) : w[x] = p[x]
  <2>1. SetIn(w, p, OverrideTag, FullOverride)
    BY <1>1, <1>2, <1>3, SetDriveTag
  <2> HIDE DEF w
  <2> QED
    BY <1>1, <2>1, DriveTags, Sizes DEF SetIn
<1> HIDE DEF w
<1>5. Word(w, 10) = FullOverride /\ Word(p, 0) = RunWord
  BY <1>3, <1>4, OutRead
<1>6. Word(w, 0) = Word(p, 0)
  BY <1>4 DEF Word, OutBytes
<1>7. \A x \in 2 .. 9 : w[x] = 0
  BY <1>3, <1>4 DEF OutBytes
<1>8. Long(w, 2) = 0 /\ Long(w, 6) = 0
  BY <1>7 DEF Long
<1>9. ToSigned(0, 4) = 0
  BY Powers, SMT DEF ToSigned
<1> QED
  BY <1>4, <1>5, <1>6, <1>8, <1>9 DEF Holds, w, p
-----------------------------------------------------------------------------
(* The registers. *)

\* store_to_registers(), and what the drive makes of the registers.
Read32(g, r) == ToSigned(g[r] * ByteSize ^ 2 + g[r + 1], 4)
Telegram(g, control, target, feed, override) ==
  /\ g[0] = control /\ Read32(g, 1) = target /\ Read32(g, 3) = feed /\ g[5] = override

\* What is in the image is what the drive reads from the registers.
LEMMA RegistersCarry ==
  ASSUME NEW o, NEW c, NEW t, NEW f, NEW r, Holds(o, c, t, f, r), Bytes256
  PROVE  Telegram(StoreToRegisters(o, 6, 0), c, t, f, r)
<1> DEFINE g == StoreToRegisters(o, 6, 0)
<1>1. \A x \in 0 .. 11 : o[x] \in Int
  BY OctetInt DEF Holds, OutBytes
<1>2. \A k \in 0 .. 6 - 1 : g[k] = o[0 + 2 * k] * 256 + o[0 + 2 * k + 1]
  BY DEF StoreToRegisters, Bytes256
<1> HIDE DEF g
<1>3. /\ g[0] = o[0] * 256 + o[1] /\ g[1] = o[2] * 256 + o[3] /\ g[2] = o[4] * 256 + o[5]
      /\ g[3] = o[6] * 256 + o[7] /\ g[4] = o[8] * 256 + o[9] /\ g[5] = o[10] * 256 + o[11]
  BY <1>2
<1>4. g[1] * 65536 + g[2] = Long(o, 2) /\ g[3] * 65536 + g[4] = Long(o, 6)
  BY <1>1, <1>3, SMT DEF Long
<1>5. g[0] = Word(o, 0) /\ g[5] = Word(o, 10)
  BY <1>3 DEF Word
<1>6. Read32(g, 1) = ToSigned(Long(o, 2), 4) /\ Read32(g, 3) = ToSigned(Long(o, 6), 4)
  BY <1>4, Powers, SMT DEF Read32
<1> QED
  BY <1>5, <1>6 DEF Telegram, Holds, g

\* load_from_registers() of what the drive reports.
HighWord(v) == (v % 4294967296) \div 65536
LowWordOf(v) == v % 65536

Joined(h, l) == (((h \div 256) * 256 + (h % 256)) * 256 + (l \div 256)) * 256 + (l % 256)

LEMMA Halves ==
  ASSUME NEW v \in Int
  PROVE  /\ HighWord(v) \div 256 \in 0 .. 255 /\ HighWord(v) % 256 \in 0 .. 255
         /\ LowWordOf(v) \div 256 \in 0 .. 255 /\ LowWordOf(v) % 256 \in 0 .. 255
         /\ Joined(HighWord(v), LowWordOf(v)) = v % 4294967296
<1> DEFINE m == v % 4294967296
           h == m \div 65536
           l == v % 65536
<1>1. m \in Int /\ 0 <= m /\ m < 4294967296
  BY SMT
<1>2. l = m % 65536
  BY SMT
<1> HIDE DEF m, l
<1>3. h \in Int /\ 0 <= h /\ h < 65536 /\ m = h * 65536 + l /\ l \in Int /\ 0 <= l /\ l < 65536
  BY <1>1, <1>2, SMT
<1> HIDE DEF h
<1>4. h \div 256 \in 0 .. 255 /\ h % 256 \in 0 .. 255 /\ (h \div 256) * 256 + (h % 256) = h
  BY <1>3, SMT
<1>5. l \div 256 \in 0 .. 255 /\ l % 256 \in 0 .. 255 /\ (l \div 256) * 256 + (l % 256) = l
  BY <1>3, SMT
<1>6. Joined(h, l) = m
  BY <1>3, <1>4, <1>5, SMT DEF Joined
<1>7. h = HighWord(v) /\ l = LowWordOf(v) /\ m = v % 4294967296
  BY SMT DEF m, h, l, HighWord, LowWordOf
<1> QED
  BY <1>4, <1>5, <1>6, <1>7, SMT

\* The position that the drive reports is the one the node reads.
LEMMA Reported ==
  ASSUME NEW img \in [InBytes -> Octet], NEW v, Fits(v), Bytes256
  PROVE  /\ LoadFromRegisters(img, DriveWrites(v), 7, 0) \in [InBytes -> Octet]
         /\ GetInt(LoadFromRegisters(img, DriveWrites(v), 7, 0), PositionTag) = v
<1> DEFINE w == LoadFromRegisters(img, DriveWrites(v), 7, 0)
           g == DriveWrites(v)
           high == HighWord(v)
           low == LowWordOf(v)
<1>1. v \in Int
  BY DEF Fits
<1>2. /\ g[1] = high /\ g[2] = low
      /\ \A k \in {0, 3, 4, 5, 6} : g[k] = 0
  BY Powers, SMT DEF DriveWrites, HighWord, LowWordOf
<1> HIDE DEF g
<1>3. w = [x \in InBytes |-> IF x % 2 = 0 THEN g[x \div 2] \div 256 ELSE g[x \div 2] % 256]
  <2>1. \A x \in InBytes : x \in 0 .. 0 + 2 * 7 - 1 /\ x - 0 = x
    BY SMT DEF InBytes
  <2> QED
    BY <2>1 DEF LoadFromRegisters, Bytes256, g
<1> HIDE DEF w
<1>4. /\ \A x \in InBytes : x \div 2 \in 0 .. 6
      /\ 2 \div 2 = 1 /\ 2 % 2 = 0 /\ 3 \div 2 = 1 /\ 3 % 2 = 1
      /\ 4 \div 2 = 2 /\ 4 % 2 = 0 /\ 5 \div 2 = 2 /\ 5 % 2 = 1
  BY SMT DEF InBytes
<1>5. w[2] = high \div 256 /\ w[3] = high % 256 /\ w[4] = low \div 256 /\ w[5] = low % 256
  BY <1>2, <1>3, <1>4 DEF InBytes
<1>6. \A k \in 0 .. 6 : g[k] \div 256 \in Octet /\ g[k] % 256 \in Octet
  <2>1. /\ high \div 256 \in Octet /\ high % 256 \in Octet
        /\ low \div 256 \in Octet /\ low % 256 \in Octet
    BY <1>1, Halves, OctetInt, SMT
  <2>2. 0 \div 256 \in Octet /\ 0 % 256 \in Octet
    BY OctetInt, SMT
  <2>3. ASSUME NEW k \in 0 .. 6 PROVE k = 1 \/ k = 2 \/ k \in {0, 3, 4, 5, 6}
    OBVIOUS
  <2> HIDE DEF high, low
  <2> QED
    BY <1>2, <2>1, <2>2, <2>3
<1>7. w \in [InBytes -> Octet]
  BY <1>3, <1>4, <1>6
<1>8. Long(w, 2) = v % 4294967296
  <2>1. Long(w, 2) = ((w[2] * 256 + w[3]) * 256 + w[4]) * 256 + w[5]
    BY DEF Long
  <2>2. Joined(high, low) = v % 4294967296
    BY <1>1, Halves, SMTT(30)
  <2> HIDE DEF high, low
  <2> QED
    BY <1>5, <2>1, <2>2, SMT DEF Joined
<1>9. GetInt(w, PositionTag) = ToSigned(v % 4294967296, 4)
  <2>1. \A x \in 2 .. 2 + 3 : w[x] \in Octet
    BY <1>7 DEF InBytes
  <2> QED
    BY <1>8, <2>1, ReadLong, SMT DEF PositionTag
<1>10. ToSigned(v % 4294967296, 4) = v
  <2>1. Wrapped(v, "i32") = v
    BY InWidth DEF Fits
  <2>2. Wrapped(v, "i32") = ToSigned(v % ByteSize ^ 4, 4)
    BY Sizes DEF Wrapped, IsSigned
  <2> QED
    BY <2>1, <2>2, Powers, SMT
<1> QED
  BY <1>7, <1>9, <1>10, SMT DEF w, g
-----------------------------------------------------------------------------
(* Induction over the naturals, and largest elements. *)

\* A set of natural numbers with 0 and every successor holds them all: otherwise its
\* members below a missing number could be moved up by one into one place less.
LEMMA SetInduction ==
  ASSUME NEW T \in SUBSET Nat, 0 \in T, \A n \in T : n + 1 \in T
  PROVE  T = Nat
<1> SUFFICES ASSUME NEW k \in Nat, k \notin T PROVE FALSE
  OBVIOUS
<1> DEFINE A == {n \in T : n <= k}
           B == A \ {0}
           f == [n \in A |-> n + 1]
<1>1. IsFiniteSet(A)
  BY FS_BoundedSetOfNaturals
<1>2. /\ IsFiniteSet(B) /\ Cardinality(B) = Cardinality(A) - 1
      /\ Cardinality(A) \in Nat
  <2>1. 0 \in A
    OBVIOUS
  <2> HIDE DEF A
  <2> QED
    BY <1>1, <2>1, FS_RemoveElement, FS_CardinalityType
<1>3. f \in [A -> B]
  <2> SUFFICES ASSUME NEW n \in A PROVE n + 1 \in B
    OBVIOUS
  <2>1. n # k /\ n \in Nat /\ n <= k
    OBVIOUS
  <2> QED
    BY <2>1
<1>4. \A x, y \in A : f[x] = f[y] => x = y
  OBVIOUS
<1> HIDE DEF A, B, f
<1> QED
  BY <1>1, <1>2, <1>3, <1>4, FS_PigeonHole

\* Finitely many integers have a largest one.
LEMMA FamilyMax ==
  \A n \in Nat : \A f \in [0 .. n -> Int] : \E k \in 0 .. n : \A j \in 0 .. n : f[k] >= f[j]
<1> DEFINE HasMax(n) == \A f \in [0 .. n -> Int] : \E k \in 0 .. n : \A j \in 0 .. n : f[k] >= f[j]
           T == {n \in Nat : HasMax(n)}
<1>1. 0 \in T
  <2>1. 0 .. 0 = {0}
    OBVIOUS
  <2> QED
    BY <2>1
<1>2. ASSUME NEW n \in T PROVE n + 1 \in T
  <2> SUFFICES ASSUME NEW f \in [0 .. n + 1 -> Int]
               PROVE  \E k \in 0 .. n + 1 : \A j \in 0 .. n + 1 : f[k] >= f[j]
    <3>1. n + 1 \in Nat
     OBVIOUS
    <3>2. HasMax(n + 1)
     OBVIOUS
    <3> HIDE DEF HasMax
    <3> QED
      BY <3>1, <3>2
  <2> DEFINE g == [i \in 0 .. n |-> f[i]]
  <2>1. g \in [0 .. n -> Int]
    OBVIOUS
  <2>2. PICK k \in 0 .. n : \A j \in 0 .. n : g[k] >= g[j]
    BY <2>1
  <2>3. f[k] \in Int /\ f[n + 1] \in Int /\ k \in 0 .. n + 1 /\ n + 1 \in 0 .. n + 1
    OBVIOUS
  <2>4. \A j \in 0 .. n : f[j] \in Int /\ f[k] >= f[j]
    BY <2>2
  <2>5. \A j \in 0 .. n + 1 : j \in 0 .. n \/ j = n + 1
    OBVIOUS
  <2>6. CASE f[k] >= f[n + 1]
    BY <2>3, <2>4, <2>5, <2>6
  <2>7. CASE f[n + 1] > f[k]
    <3>1. \A j \in 0 .. n : f[n + 1] >= f[j]
      BY <2>3, <2>4, <2>7
    <3>2. f[n + 1] >= f[n + 1]
      BY <2>3
    <3>3. \A j \in 0 .. n + 1 : f[n + 1] >= f[j]
      BY <2>5, <3>1, <3>2
    <3> QED
      BY <2>3, <3>3
  <2> QED
    BY <2>3, <2>6, <2>7
<1>3. T = Nat
  <2>1. T \in SUBSET Nat
    OBVIOUS
  <2> HIDE DEF T
  <2> QED
    BY <1>1, <1>2, <2>1, SetInduction
<1> QED
  BY <1>3

\* A largest element.
IsTop(m, S) == m \in S /\ \A y \in S : m >= y

LEMMA MaxIsTop ==
  ASSUME NEW S, NEW m, IsTop(m, S)
  PROVE  IsTop(Max(S), S)
<1>1. \E x \in S : \A y \in S : x >= y
  BY DEF IsTop
<1> QED
  BY <1>1 DEF Max, IsTop

\* Max over a number and a family, as peak_velocity() takes it, is one of them.
LEMMA MaxOfFamily ==
  ASSUME NEW a \in Int, NEW lo \in Int, NEW hi \in Int, NEW f \in [lo .. hi -> Int]
  PROVE  IsTop(Max({a} \cup {f[i] : i \in lo .. hi}), {a} \cup {f[i] : i \in lo .. hi})
<1> DEFINE S == {a} \cup {f[i] : i \in lo .. hi}
<1>1. CASE hi < lo
  <2>1. IsTop(a, S)
    BY <1>1 DEF IsTop
  <2> QED
    BY <2>1, MaxIsTop
<1>2. CASE lo <= hi
  <2> DEFINE n == hi - lo + 1
             g == [k \in 0 .. n |-> IF k = 0 THEN a ELSE f[lo + k - 1]]
  <2>1. n \in Nat
    BY <1>2
  <2>2. g \in [0 .. n -> Int]
    OBVIOUS
  <2> HIDE DEF n
  <2>3. PICK k \in 0 .. n : \A j \in 0 .. n : g[k] >= g[j]
    BY <2>1, <2>2, FamilyMax
  <2>4. g[k] \in S
    BY <2>1 DEF n
  <2>5. ASSUME NEW y \in S PROVE g[k] >= y
    <3>1. CASE y = a
      <4>1. 0 \in 0 .. n /\ g[0] = a
        BY <2>1
      <4> QED
        BY <2>3, <3>1, <4>1
    <3>2. ASSUME NEW i \in lo .. hi, y = f[i] PROVE g[k] >= y
      <4>1. i - lo + 1 \in 0 .. n /\ i - lo + 1 # 0 /\ lo + (i - lo + 1) - 1 = i
        BY <2>1 DEF n
      <4>2. g[i - lo + 1] = f[i]
        BY <4>1
      <4> QED
        BY <2>3, <3>2, <4>1, <4>2
    <3> QED
      BY <3>1, <3>2
  <2>6. IsTop(g[k], S)
    BY <2>4, <2>5 DEF IsTop
  <2> QED
    BY <2>6, MaxIsTop
<1>3. hi < lo \/ lo <= hi
  OBVIOUS
<1> HIDE DEF S
<1> QED
  BY <1>1, <1>2, <1>3 DEF S
-----------------------------------------------------------------------------
(* Blends and interpolation. *)

\* Dividing a multiple.
LEMMA Exact ==
  ASSUME NEW a \in Int, NEW d \in Nat \ {0}
  PROVE  (a * d) \div d = a
<1> DEFINE q == (a * d) \div d
<1>1. a * d \in Int
  OBVIOUS
<1>2. q \in Int /\ d * q <= a * d /\ a * d < d * q + d
  BY <1>1, Quotient
<1> HIDE DEF q
<1>3. ASSUME q < a PROVE FALSE
  <2>1. d * (q + 1) <= d * a /\ d * (q + 1) = d * q + d /\ d * a = a * d
    BY <1>2, <1>3
  <2> QED
    BY <1>1, <1>2, <2>1
<1>4. ASSUME q > a PROVE FALSE
  <2>1. d * (a + 1) <= d * q /\ d * (a + 1) = a * d + d
    BY <1>2, <1>4
  <2> QED
    BY <1>1, <1>2, <2>1
<1> QED
  BY <1>2, <1>3, <1>4 DEF q

\* A quotient between two bounds.
LEMMA QuotientIn ==
  ASSUME NEW a \in Int, NEW d \in Nat \ {0}, NEW low \in Int, NEW high \in Int,
         low * d <= a, a <= high * d
  PROVE  a \div d \in low .. high
<1>1. low * d \in Int /\ high * d \in Int
  OBVIOUS
<1>2. (low * d) \div d <= a \div d /\ a \div d <= (high * d) \div d
  BY <1>1, QuotientOrder
<1>3. (low * d) \div d = low /\ (high * d) \div d = high /\ a \div d \in Int
  BY Exact, Quotient
<1> QED
  BY <1>2, <1>3

\* An interpolated position lies between its neighbours.
LEMMA Between ==
  ASSUME NEW p \in Int, NEW q \in Int, NEW n \in Nat \ {0}, NEW k \in 0 .. n,
         NEW low \in Int, NEW high \in Int, p \in low .. high, q \in low .. high
  PROVE  p + ((q - p) * k) \div n \in low .. high
<1> DEFINE e == q - p
           x == (e * k) \div n
<1>1. e \in Int /\ q = p + e
  OBVIOUS
<1> HIDE DEF e
<1>2. e * k \in Int
  BY <1>1
<1>3. CASE e >= 0
  <2>1. 0 * n <= e * k /\ e * k <= e * n
    BY <1>1, <1>3
  <2>2. x \in 0 .. e
    BY <1>1, <1>2, <2>1, QuotientIn
  <2> QED
    BY <1>1, <2>2 DEF e
<1>4. CASE e < 0
  <2>1. e * n <= e * k /\ e * k <= 0 * n
    <3>1. (-e) * k <= (-e) * n /\ (-e) * k >= 0 /\ (-e) * k = -(e * k) /\ (-e) * n = -(e * n)
      BY <1>1, <1>4
    <3> QED
      BY <1>1, <1>2, <3>1
  <2>2. x \in e .. 0
    BY <1>1, <1>2, <2>1, QuotientIn
  <2> QED
    BY <1>1, <2>2 DEF e
<1> QED
  BY <1>1, <1>3, <1>4

LEMMA Magnitudes ==
  ASSUME NEW x \in Int
  PROVE  Magnitude(x) \in Nat /\ Magnitude(x) >= x /\ Magnitude(x) >= -x
BY DEF Magnitude

\* quintic_blend() is typed, and complete at the end of its duration.
LEMMA Blends ==
  ASSUME NEW e \in Int, NEW d \in Nat \ {0}
  PROVE  /\ QuinticBlend(e, d).s \in Int /\ QuinticBlend(e, d).ds \in Int
         /\ e >= d => QuinticBlend(e, d).s = d * d * d * d * d
<1> DEFINE i == Clamp(e, 0, d)
           i2 == i * i
           i3 == i2 * i
           i4 == i3 * i
<1>1. i \in Int /\ (e >= d => i = d)
  BY Clamps
<1>2. /\ QuinticBlend(e, d).s = 10 * i3 * d * d - 15 * i4 * d + 6 * i4 * i
      /\ QuinticBlend(e, d).ds = 30 * i2 * d * d - 60 * i3 * d + 30 * i4
  BY DEF QuinticBlend
<1> HIDE DEF i
<1>3. i2 \in Int /\ i3 \in Int /\ i4 \in Int
  BY <1>1
<1> HIDE DEF i2, i3, i4
<1>4. QuinticBlend(e, d).s \in Int /\ QuinticBlend(e, d).ds \in Int
  BY <1>1, <1>2, <1>3
<1>5. ASSUME e >= d PROVE QuinticBlend(e, d).s = d * d * d * d * d
  <2>1. i = d
    BY <1>1, <1>5
  <2> DEFINE d3 == d * d * d
             d5 == d * d * d * d * d
  <2>2. d3 \in Int /\ d5 \in Int
    OBVIOUS
  <2>3. 10 * i3 * d * d = 10 * d5 /\ 15 * i4 * d = 15 * d5 /\ 6 * i4 * i = 6 * d5
    BY <2>1 DEF i4, i3, i2
  <2> HIDE DEF d5
  <2> QED
    BY <1>2, <2>2, <2>3 DEF d5
<1> QED
  BY <1>4, <1>5

\* The part of a distance a blend has covered: at its end all whole steps of it.
LEMMA Parts ==
  ASSUME NEW f \in Int, NEW delta \in Int, NEW d \in Nat \ {0}
  PROVE  /\ BlendPart(f, delta, d) \in Int
         /\ f = d * d * d * d * d => BlendPart(f, delta, d) = (delta \div d) * d
<1> DEFINE q == delta \div d
           d4 == d * d * d * d
<1>1. q \in Int
  BY Quotient
<1>2. d4 \in Nat \ {0}
  OBVIOUS
<1>3. BlendPart(f, delta, d) = (q * f) \div d4
  BY DEF BlendPart
<1>4. d * d * d * d * d = d * d4
  OBVIOUS
<1> HIDE DEF q, d4
<1>5. q * f \in Int
  BY <1>1
<1>6. BlendPart(f, delta, d) \in Int
  BY <1>2, <1>3, <1>5, Quotient
<1>7. ASSUME f = d * d4 PROVE BlendPart(f, delta, d) = q * d
  <2>1. q * f = (q * d) * d4 /\ q * d \in Int
    BY <1>1, <1>2, <1>7
  <2> QED
    BY <1>2, <1>3, <2>1, Exact
<1> QED
  BY <1>4, <1>6, <1>7 DEF q
-----------------------------------------------------------------------------
(* Regular waves. *)

\* A wave the node computes.
IsWave(tr) ==
  tr.amplitude \in Nat /\ tr.upright \in Int /\ tr.at_minimum \in BOOLEAN /\ tr.start \in Int

Thousandths(x) == x \in Int /\ -1000 <= x /\ x <= 1000

LEMMA Sines ==
  ASSUME NEW t \in Int
  PROVE  Thousandths(SinAt(t)) /\ Thousandths(CosAt(t))
<1> DEFINE D == 0 .. Period - 1
           R == -1000 .. 1000
<1>1. Period \in Nat \ {0} /\ Sine \in [D -> R]
  BY TrajectoryAssumption, ZenonT(60)
<1>2. \A x \in D : Thousandths(Sine[x])
  <2>1. \A y \in R : Thousandths(y)
    BY SMT DEF Thousandths
  <2> HIDE DEF D, R
  <2> QED
    BY <1>1, <2>1
<1>3. ASSUME NEW x \in Int PROVE x % Period \in 0 .. Period - 1
  BY <1>1, SMT
<1>4. t + Period \div 4 \in Int
  BY <1>1, SMT
<1> QED
  BY <1>2, <1>3, <1>4 DEF SinAt, CosAt

\* The wave lies between the positions it was admitted with, at every time.
LEMMA WaveStays ==
  ASSUME NEW tr, IsWave(tr), NEW t \in Int
  PROVE  WavePosition(tr, t) \in RequiredMinimum(tr) .. RequiredMaximum(tr)
<1> DEFINE a == tr.amplitude
           f == IF tr.at_minimum THEN 1000 - CosAt(t) ELSE SinAt(t)
<1>1. a \in Nat /\ tr.upright \in Int /\ tr.at_minimum \in BOOLEAN
  BY DEF IsWave
<1>2. Thousandths(SinAt(t)) /\ Thousandths(CosAt(t))
  BY Sines
<1>3. WavePosition(tr, t) = tr.upright + (a * f) \div 1000
  BY DEF WavePosition
<1>4. CASE tr.at_minimum
  <2>1. f \in Int /\ 0 <= f /\ f <= 2000
    BY <1>2, <1>4, SMT DEF Thousandths
  <2> HIDE DEF f, a
  <2>2. a * f \in Int /\ 0 * 1000 <= a * f /\ a * f <= (2 * a) * 1000 /\ 2 * a \in Int
    BY <1>1, <2>1, SMT
  <2>3. (a * f) \div 1000 \in 0 .. 2 * a
    BY <2>2, QuotientIn, SMT
  <2>4. RequiredMinimum(tr) = tr.upright /\ RequiredMaximum(tr) = tr.upright + a * 2
    BY <1>4 DEF RequiredMinimum, RequiredMaximum, a
  <2> QED
    BY <1>1, <1>3, <2>3, <2>4
<1>5. CASE ~tr.at_minimum
  <2>1. f \in Int /\ -1000 <= f /\ f <= 1000
    BY <1>2, <1>5, SMT DEF Thousandths
  <2> HIDE DEF f, a
  <2>2. a * f \in Int /\ (-a) * 1000 <= a * f /\ a * f <= a * 1000 /\ -a \in Int /\ a \in Int
    BY <1>1, <2>1, SMT
  <2>3. (a * f) \div 1000 \in -a .. a
    BY <2>2, QuotientIn, SMT
  <2>4. RequiredMinimum(tr) = tr.upright - a /\ RequiredMaximum(tr) = tr.upright + a * 1
    BY <1>5 DEF RequiredMinimum, RequiredMaximum, a
  <2> QED
    BY <1>1, <1>3, <2>3, <2>4
<1> QED
  BY <1>1, <1>4, <1>5

\* So does a sample once the blend is over.
LEMMA WaveIsTyped ==
  ASSUME NEW tr, IsWave(tr), NEW e \in Int
  PROVE  /\ WaveSample(tr, e).position \in Int /\ WaveSample(tr, e).velocity \in Int
         /\ e >= Period =>
              WaveSample(tr, e).position \in RequiredMinimum(tr) .. RequiredMaximum(tr)
<1> DEFINE t == WaveTime(tr, e)
           b == QuinticBlend(e, Period)
           p == WavePosition(tr, t)
           v == WaveVelocity(tr, t)
           d == p - tr.start
<1>1. /\ Period \in Nat \ {0} /\ TwoPi \in Nat
      /\ tr.amplitude \in Nat /\ tr.upright \in Int /\ tr.start \in Int
  BY TrajectoryAssumption DEF IsWave
<1>2. t \in Int
  BY <1>1 DEF WaveTime
<1>3. b.s \in Int /\ b.ds \in Int
  BY <1>1, Blends
<1>4. WaveSample(tr, e) =
        IF e >= Period THEN [position |-> p, velocity |-> v]
        ELSE [position |-> tr.start + BlendPart(b.s, d, Period),
              velocity |-> BlendPart(b.ds, d, Period) + BlendPart(b.s, v, Period)]
  BY DEF WaveSample
<1> HIDE DEF t, b
<1>5. p \in RequiredMinimum(tr) .. RequiredMaximum(tr)
  BY <1>2, WaveStays
<1>6. p \in Int /\ d \in Int
  <2>1. p \in Int
    BY <1>5, SMT
  <2> QED
    BY <1>1, <2>1
<1>7. v \in Int
  <2>1. Thousandths(SinAt(t)) /\ Thousandths(CosAt(t))
    BY <1>2, Sines
  <2> DEFINE f == IF tr.at_minimum THEN SinAt(t) ELSE CosAt(t)
             w == AmplitudeOmega(tr)
  <2>2. f \in Int
    BY <2>1 DEF Thousandths
  <2>3. w \in Int
    <3>1. 1000 * Period \in Nat \ {0} /\ tr.amplitude * TwoPi \in Int
      BY <1>1, SMT
    <3> QED
      BY <3>1, Quotient DEF AmplitudeOmega
  <2>4. v = (w * f) \div 1000
    BY DEF WaveVelocity
  <2> HIDE DEF f, w, v
  <2>5. w * f \in Int
    BY <2>2, <2>3
  <2> QED
    BY <2>4, <2>5, Quotient, SMT
<1> HIDE DEF p, v, d
<1>8. BlendPart(b.s, d, Period) \in Int /\ BlendPart(b.ds, d, Period) \in Int
      /\ BlendPart(b.s, v, Period) \in Int
  BY <1>1, <1>3, <1>6, <1>7, Parts
<1>9. CASE e >= Period
  BY <1>4, <1>5, <1>6, <1>7, <1>9
<1>10. CASE ~(e >= Period)
  BY <1>1, <1>4, <1>8, <1>10
<1> QED
  BY <1>9, <1>10

\* The wave's peak velocity is a number.
LEMMA WavePeaks ==
  ASSUME NEW tr, IsWave(tr)
  PROVE  WavePeakVelocity(tr) \in Nat
<1> DEFINE a == AmplitudeOmega(tr)
           f == [i \in 0 .. Period |-> Magnitude(WaveSample(tr, i).velocity)]
           S == {a} \cup {f[i] : i \in 0 .. Period}
<1>1. /\ Period \in Nat \ {0} /\ TwoPi \in Nat /\ Margin \in Nat /\ tr.amplitude \in Nat
  BY TrajectoryAssumption DEF IsWave
<1>2. a \in Nat
  <2>1. 1000 * Period \in Nat \ {0} /\ tr.amplitude * TwoPi \in Nat
    BY <1>1, SMT
  <2>2. (tr.amplitude * TwoPi) \div (1000 * Period) \in Nat
    BY <2>1, SMT
  <2> QED
    BY <2>2 DEF AmplitudeOmega
<1>3. f \in [0 .. Period -> Int]
  <2>1. ASSUME NEW i \in 0 .. Period PROVE Magnitude(WaveSample(tr, i).velocity) \in Int
    BY WaveIsTyped, Magnitudes
  <2> QED
    BY <2>1
<1>4. {f[i] : i \in 0 .. Period} =
        {Magnitude(WaveSample(tr, i).velocity) : i \in 0 .. Period}
  OBVIOUS
<1> HIDE DEF a, f
<1>5. IsTop(Max(S), S)
  BY <1>1, <1>2, <1>3, MaxOfFamily
<1>6. Max(S) \in Nat
  <2>1. Max(S) \in Int
    BY <1>2, <1>3, <1>5 DEF IsTop
  <2>2. Max(S) >= a
    BY <1>5 DEF IsTop
  <2> QED
    BY <1>2, <2>1, <2>2
<1>7. WavePeakVelocity(tr) = (Max(S) * (100 + Margin)) \div 100
  BY <1>4 DEF WavePeakVelocity, a
<1> HIDE DEF S
<1>8. Max(S) * (100 + Margin) \in Nat
  BY <1>1, <1>6
<1> QED
  BY <1>7, <1>8, SMT
-----------------------------------------------------------------------------
(* Pregenerated waves. *)

\* A pregenerated wave.
IsPregenerated(tr) ==
  /\ tr.positions \in Seq(Int) /\ tr.positions # <<>> /\ tr.interval \in Nat \ {0}
  /\ tr.start \in Int /\ tr.blend \in Nat

LEMMA Durations ==
  ASSUME NEW distance \in Nat
  PROVE  ReturnDuration(distance) \in Nat /\ BlendDuration(distance) \in Nat
<1>1. ReturnVelocity \in Nat \ {0} /\ ReturnMinDuration \in Nat
  BY PathAssumption
<1>2. QuinticDuration(distance, ReturnVelocity) \in Nat
  BY <1>1, SMT DEF QuinticDuration
<1>3. ReturnDuration(distance) \in Nat
  BY <1>1, <1>2, MaxPair DEF ReturnDuration
<1> QED
  BY <1>3 DEF BlendDuration

LEMMA QuinticPeaks ==
  ASSUME NEW distance \in Nat, NEW d \in Nat \ {0}
  PROVE  QuinticPeak(distance, d) \in Nat
BY SMT DEF QuinticPeak

\* The peak velocity of a pregenerated wave is a number.
LEMMA PregeneratedPeaks ==
  ASSUME NEW tr, IsPregenerated(tr)
  PROVE  PregeneratedPeakVelocity(tr) \in Nat
<1> DEFINE n == Samples(tr)
           Step(i) == Magnitude(tr.positions[i] - tr.positions[i - 1]) \div tr.interval
           f == [i \in 2 .. n |-> Step(i)]
           S == {0} \cup {f[i] : i \in 2 .. n}
<1>1. /\ n \in Nat \ {0} /\ tr.interval \in Nat \ {0} /\ tr.start \in Int /\ tr.blend \in Nat
      /\ \A i \in 1 .. n : tr.positions[i] \in Int
  BY DEF IsPregenerated, Samples
<1>2. f \in [2 .. n -> Int]
  <2>1. ASSUME NEW i \in 2 .. n PROVE Step(i) \in Int
    <3>1. i \in 1 .. n /\ i - 1 \in 1 .. n
      BY <1>1
    <3>2. tr.positions[i] - tr.positions[i - 1] \in Int
      BY <1>1, <3>1
    <3>3. Magnitude(tr.positions[i] - tr.positions[i - 1]) \in Int
      BY <3>2, Magnitudes
    <3> QED
      BY <1>1, <3>3, Quotient
  <2> QED
    BY <2>1
<1>3. StepsPeak(tr) = Max(S)
  BY DEF StepsPeak
<1> HIDE DEF f, n
<1>4. IsTop(Max(S), S)
  BY <1>1, <1>2, MaxOfFamily
<1>5. Max(S) \in Int /\ Max(S) >= 0
  BY <1>2, <1>4 DEF IsTop
<1>6. BlendPeak(tr) \in Int /\ BlendPeak(tr) >= 0
  <2>1. Magnitude(tr.positions[1] - tr.start) \in Nat
    <3>1. tr.positions[1] - tr.start \in Int
      BY <1>1
    <3> QED
      BY <3>1, Magnitudes
  <2>2. CASE tr.blend = 0
    BY <2>2 DEF BlendPeak
  <2>3. CASE tr.blend # 0
    <3>1. QuinticPeak(Magnitude(tr.positions[1] - tr.start), tr.blend) \in Nat
      BY <1>1, <2>1, <2>3, QuinticPeaks
    <3> QED
      BY <2>3, <3>1 DEF BlendPeak
  <2> QED
    BY <2>2, <2>3
<1>7. Max({BlendPeak(tr), StepsPeak(tr)}) \in Nat
  <2>1. StepsPeak(tr) \in Int /\ StepsPeak(tr) >= 0
    BY <1>3, <1>5
  <2> QED
    BY <1>6, <2>1, MaxPair
<1> QED
  BY <1>7 DEF PregeneratedPeakVelocity

\* Every sample of a pregenerated wave lies within limits its positions are within.
LEMMA PregeneratedStays ==
  ASSUME NEW tr, IsPregenerated(tr), NEW low \in Int, NEW high \in Int,
         \A i \in 1 .. Samples(tr) : tr.positions[i] \in low .. high, NEW e \in Nat
  PROVE  SamplePregenerated(tr, e).position \in low .. high
<1> DEFINE n == Samples(tr)
           k == tr.interval
           q == e \div k
           index == Min({q, n - 2}) + 1
           delta == tr.positions[index + 1] - tr.positions[index]
           part  == e - (index - 1) * k
<1>1. n \in Nat \ {0} /\ k \in Nat \ {0} /\ tr.blend \in Nat
  BY DEF IsPregenerated, Samples
<1>2. SamplePregenerated(tr, e) =
        IF e >= PregeneratedDuration(tr) - tr.blend
        THEN [position |-> tr.positions[n], done |-> TRUE]
        ELSE [position |-> tr.positions[index] + (delta * part) \div k, done |-> FALSE]
  BY DEF SamplePregenerated
<1>3. PregeneratedDuration(tr) - tr.blend = k * (n - 1)
  BY <1>1 DEF PregeneratedDuration
<1>4. q \in Int /\ k * q <= e /\ e < k * q + k /\ q >= 0
  <2> HIDE DEF k
  <2>1. e \in Int
    OBVIOUS
  <2>2. q \in Int /\ k * q <= e /\ e < k * q + k
    BY <1>1, <2>1, Quotient
  <2>3. q >= 0
    BY <1>1, SMT
  <2> QED
    BY <2>2, <2>3
<1> HIDE DEF n, k, q
<1>5. CASE e >= k * (n - 1)
  <2>1. n \in 1 .. n
    BY <1>1
  <2> QED
    BY <1>2, <1>3, <1>5, <2>1 DEF n
<1>6. CASE e < k * (n - 1)
  <2>1. q <= n - 2
    <3>1. ASSUME q >= n - 1 PROVE FALSE
      <4>1. k * q >= k * (n - 1) /\ k * q \in Int /\ k * (n - 1) \in Int
        BY <1>1, <1>4, <3>1
      <4> QED
        BY <1>4, <1>6, <4>1
    <3> QED
      BY <1>1, <1>4, <3>1
  <2>2. Min({q, n - 2}) = q
    BY <1>1, <1>4, <2>1, MinPair
  <2>3. index = q + 1 /\ index \in 1 .. n /\ index + 1 \in 1 .. n
    BY <1>1, <1>4, <2>1, <2>2
  <2>4. part = e - q * k /\ q * k = k * q
    BY <1>1, <1>4, <2>3
  <2>5. part \in 0 .. k
    BY <1>1, <1>4, <2>4
  <2>6. tr.positions[index] \in low .. high /\ tr.positions[index + 1] \in low .. high
    BY <2>3 DEF n
  <2> HIDE DEF index, part
  <2>7. tr.positions[index] + (delta * part) \div k \in low .. high
    <3> DEFINE a == tr.positions[index]
               b == tr.positions[index + 1]
    <3>1. a \in Int /\ b \in Int /\ a \in low .. high /\ b \in low .. high
      BY <2>6
    <3> HIDE DEF a, b
    <3>2. a + ((b - a) * part) \div k \in low .. high
      BY <1>1, <2>5, <3>1, Between
    <3> QED
      BY <3>2 DEF a, b
  <2>8. SamplePregenerated(tr, e).position = tr.positions[index] + (delta * part) \div k
    BY <1>1, <1>2, <1>3, <1>6
  <2> QED
    BY <2>7, <2>8
<1>7. k * (n - 1) \in Int
  BY <1>1
<1> QED
  BY <1>5, <1>6, <1>7

\* The same with its blend.
LEMMA PregeneratedIsTyped ==
  ASSUME NEW tr, IsPregenerated(tr), NEW low \in Int, NEW high \in Int,
         \A i \in 1 .. Samples(tr) : tr.positions[i] \in low .. high, NEW e \in Nat
  PROVE  /\ PregeneratedSample(tr, e).position \in Int
         /\ e >= tr.blend => PregeneratedSample(tr, e).position \in low .. high
<1>1. tr.start \in Int /\ tr.blend \in Nat /\ Samples(tr) \in Nat \ {0}
  BY DEF IsPregenerated, Samples
<1>2. CASE e < tr.blend
  <2> DEFINE s == QuinticBlend(e, tr.blend).s
             d == tr.positions[1] - tr.start
  <2>1. tr.blend \in Nat \ {0}
    BY <1>1, <1>2
  <2>2. s \in Int /\ d \in Int
    <3>1. 1 \in 1 .. Samples(tr)
      BY <1>1
    <3>2. tr.positions[1] \in Int
      BY <3>1
    <3>3. d \in Int
      BY <1>1, <3>2
    <3>4. e \in Int
      OBVIOUS
    <3>5. s \in Int
      BY <2>1, <3>4, Blends
    <3> QED
      BY <3>3, <3>5
  <2>3. PregeneratedSample(tr, e).position = tr.start + BlendPart(s, d, tr.blend)
    BY <1>2 DEF PregeneratedSample
  <2> HIDE DEF s, d
  <2>4. BlendPart(s, d, tr.blend) \in Int
    BY <2>1, <2>2, Parts
  <2> QED
    BY <1>1, <1>2, <2>3, <2>4
<1>3. CASE e >= tr.blend
  <2>1. e - tr.blend \in Nat
    BY <1>1, <1>3
  <2>2. PregeneratedSample(tr, e) = SamplePregenerated(tr, e - tr.blend)
    BY <1>1, <1>3 DEF PregeneratedSample
  <2>3. PregeneratedSample(tr, e).position \in low .. high
    BY <2>1, <2>2, PregeneratedStays
  <2> QED
    BY <2>3
<1> QED
  BY <1>1, <1>2, <1>3
-----------------------------------------------------------------------------
(* Limits. *)

\* What PathAssumption says of the configuration in use.
LEMMA Setup ==
  ASSUME config \in Configs
  PROVE  /\ MinDegrees \in Int /\ MaxDegrees \in Int /\ MinDegrees < MaxDegrees
         /\ DegreesPerUnit \in Nat \ {0} /\ Tolerance \in Nat \ {0}
         /\ config.upright \in Int /\ config.angle \in MinDegrees .. MaxDegrees
         /\ (MinDegrees - config.angle) % DegreesPerUnit = 0
         /\ (MaxDegrees - config.angle) % DegreesPerUnit = 0
         /\ config.at_minimum \in BOOLEAN
BY PathAssumption

LEMMA Divisible ==
  ASSUME NEW a \in Int, NEW d \in Nat \ {0}, a % d = 0
  PROVE  a \div d \in Int /\ a = (a \div d) * d
BY SMT

\* The node's limits are the drive's.
LEMMA Limits ==
  ASSUME config \in Configs
  PROVE  /\ GoalMinimum \in Int /\ GoalMaximum \in Int
         /\ config.upright \in GoalMinimum .. GoalMaximum
         /\ \A p \in GoalMinimum .. GoalMaximum : ToDegrees(p) \in MinDegrees .. MaxDegrees
         /\ ToDegrees(GoalMinimum - Tolerance) = MinDegrees - Tolerance * DegreesPerUnit
         /\ ToDegrees(GoalMaximum + Tolerance) = MaxDegrees + Tolerance * DegreesPerUnit
         /\ (MaxDegrees - MinDegrees) \div DegreesPerUnit = GoalMaximum - GoalMinimum
<1> DEFINE d == DegreesPerUnit
           u == config.upright
           a == config.angle
           x == (MinDegrees - a) \div d
           y == (MaxDegrees - a) \div d
<1>1. /\ MinDegrees \in Int /\ MaxDegrees \in Int /\ d \in Nat \ {0} /\ Tolerance \in Nat
      /\ u \in Int /\ a \in Int /\ MinDegrees <= a /\ a <= MaxDegrees
  BY Setup
<1>2. x \in Int /\ MinDegrees - a = x * d /\ y \in Int /\ MaxDegrees - a = y * d
  <2>1. (MinDegrees - a) % d = 0 /\ (MaxDegrees - a) % d = 0
    BY Setup
  <2>2. MinDegrees - a \in Int /\ MaxDegrees - a \in Int
    BY <1>1
  <2> QED
    BY <1>1, <2>1, <2>2, Divisible
<1>3. GoalMinimum = u + x /\ GoalMaximum = u + y
  BY DEF GoalMinimum, GoalMaximum, LimitOf
<1>4. \A p : ToDegrees(p) = a + (p - u) * d
  BY DEF ToDegrees
<1> HIDE DEF d, u, a, x, y
<1>5. x <= 0 /\ 0 <= y
  <2>1. x * d <= 0 /\ 0 <= y * d
    BY <1>1, <1>2
  <2>2. ASSUME x > 0 PROVE FALSE
    <3>1. x * d > 0
      BY <1>1, <1>2, <2>2
    <3> QED
      BY <1>1, <1>2, <2>1, <3>1
  <2>3. ASSUME y < 0 PROVE FALSE
    <3>1. (-y) * d > 0 /\ (-y) * d = -(y * d)
      BY <1>1, <1>2, <2>3
    <3> QED
      BY <1>1, <1>2, <2>1, <3>1
  <2> QED
    BY <1>2, <2>2, <2>3
<1>6. GoalMinimum \in Int /\ GoalMaximum \in Int /\ u \in GoalMinimum .. GoalMaximum
  BY <1>1, <1>2, <1>3, <1>5
<1>7. ASSUME NEW p \in GoalMinimum .. GoalMaximum
      PROVE  ToDegrees(p) \in MinDegrees .. MaxDegrees
  <2> DEFINE k == p - u
  <2>1. k \in Int /\ x <= k /\ k <= y
    BY <1>1, <1>2, <1>3
  <2> HIDE DEF k
  <2>2. x * d <= k * d /\ k * d <= y * d /\ k * d \in Int
    BY <1>1, <1>2, <2>1
  <2> QED
    BY <1>1, <1>2, <1>4, <2>2 DEF k
<1>8. /\ ToDegrees(GoalMinimum - Tolerance) = MinDegrees - Tolerance * d
      /\ ToDegrees(GoalMaximum + Tolerance) = MaxDegrees + Tolerance * d
  <2>1. (u + x) - Tolerance - u = x - Tolerance /\ (u + y) + Tolerance - u = y + Tolerance
    BY <1>1, <1>2
  <2>2. /\ (x - Tolerance) * d = x * d - Tolerance * d
        /\ (y + Tolerance) * d = y * d + Tolerance * d
        /\ x * d \in Int /\ y * d \in Int /\ Tolerance * d \in Int
    BY <1>1, <1>2
  <2> QED
    BY <1>1, <1>2, <1>3, <1>4, <2>1, <2>2
<1>9. (MaxDegrees - MinDegrees) \div d = GoalMaximum - GoalMinimum
  <2>1. MaxDegrees - MinDegrees = (y - x) * d /\ y - x \in Int
    BY <1>1, <1>2
  <2>2. GoalMaximum - GoalMinimum = y - x
    BY <1>1, <1>2, <1>3
  <2> QED
    BY <1>1, <2>1, <2>2, Exact
<1> QED
  BY <1>6, <1>7, <1>8, <1>9 DEF d, u

\* Positions and feeds within the limits fit their tags.
LEMMA PositionFits ==
  ASSUME Bytes256, NEW p \in Int,
         MinDegrees - Tolerance * DegreesPerUnit <= p,
         p <= MaxDegrees + Tolerance * DegreesPerUnit
  PROVE  Fits(Raw(p))
<1> DEFINE low == MinDegrees - Tolerance * DegreesPerUnit
           high == MaxDegrees + Tolerance * DegreesPerUnit
<1>1. low \in Int /\ high \in Int /\ PositionStep \in Nat \ {0}
  <2>1. /\ MinDegrees \in Int /\ MaxDegrees \in Int /\ Tolerance \in Nat
        /\ DegreesPerUnit \in Nat /\ PositionStep \in Nat \ {0}
    BY PathAssumption
  <2> QED
    BY <2>1
<1>2. -(ByteSize ^ 4) <= 2 * Raw(low) /\ 2 * Raw(high) < ByteSize ^ 4 /\ ByteSize ^ 4 \in Int
  BY TagAssumption, Powers, SMT
<1> HIDE DEF low, high
<1>3. Raw(low) <= Raw(p) /\ Raw(p) <= Raw(high)
  BY <1>1, RoundOrder DEF Raw, low, high
<1>4. Raw(low) \in Int /\ Raw(p) \in Int /\ Raw(high) \in Int
  BY <1>1, RoundNear DEF Raw
<1> QED
  BY <1>2, <1>3, <1>4 DEF Fits

LEMMA FeedFits ==
  ASSUME Bytes256, NEW f \in 1 .. MaxFeed
  PROVE  Fits(LLRound(f, FeedStep))
<1>1. FeedStep \in Nat \ {0} /\ MaxFeed \in Int /\ f \in Int /\ 0 <= f /\ f <= MaxFeed
  BY PathAssumption
<1>2. 2 * LLRound(MaxFeed, FeedStep) < ByteSize ^ 4 /\ ByteSize ^ 4 \in Nat
  BY TagAssumption, Powers, SMT
<1>3. /\ LLRound(0, FeedStep) <= LLRound(f, FeedStep)
      /\ LLRound(f, FeedStep) <= LLRound(MaxFeed, FeedStep)
  BY <1>1, RoundOrder
<1>4. LLRound(f, FeedStep) \in Int /\ LLRound(MaxFeed, FeedStep) \in Int
  BY <1>1, RoundNear
<1>5. LLRound(0, FeedStep) = 0
  BY <1>1, SMT DEF LLRound
<1> QED
  BY <1>2, <1>3, <1>4, <1>5 DEF Fits

\* A longer way takes longer.
LEMMA LongerReturns ==
  ASSUME NEW m \in Nat, NEW n \in Nat, m <= n
  PROVE  ReturnDuration(m) <= ReturnDuration(n)
<1> DEFINE v == 8 * ReturnVelocity
           x == QuinticDuration(m, ReturnVelocity)
           y == QuinticDuration(n, ReturnVelocity)
<1>1. v \in Nat \ {0} /\ ReturnMinDuration \in Nat
  BY PathAssumption
<1>2. 15 * m \in Int /\ 15 * n \in Int /\ 15 * m <= 15 * n
  OBVIOUS
<1>3. x = (15 * m) \div v /\ y = (15 * n) \div v
  BY DEF QuinticDuration
<1> HIDE DEF v, x, y
<1>4. x <= y /\ x \in Int /\ y \in Int
  BY <1>1, <1>2, <1>3, QuotientOrder, Quotient
<1>5. Max({x, ReturnMinDuration}) <= Max({y, ReturnMinDuration})
  BY <1>1, <1>4, MaxPair
<1> QED
  BY <1>5 DEF ReturnDuration, x, y
-----------------------------------------------------------------------------
(* Speeds, and the samples of a job. *)

\* A velocity within the node's limit is a feed within the drive's.
LEMMA Speeds ==
  MaxVelocity \in Nat /\ \A v \in 0 .. MaxVelocity : v * DegreesPerUnit \in 0 .. MaxFeed
<1>1. DegreesPerUnit \in Nat \ {0} /\ MaxFeed \in Nat
  BY PathAssumption
<1> DEFINE m == MaxFeed \div DegreesPerUnit
<1>2. m \in Int /\ DegreesPerUnit * m <= MaxFeed /\ 0 <= m
  <2>1. m \in Int /\ DegreesPerUnit * m <= MaxFeed
    BY <1>1, Quotient
  <2>2. 0 <= m
    BY <1>1, SMT
  <2> QED
    BY <2>1, <2>2
<1>3. MaxVelocity = m
  BY DEF MaxVelocity
<1> HIDE DEF m
<1>4. ASSUME NEW v \in 0 .. m PROVE v * DegreesPerUnit \in 0 .. MaxFeed
  <2>1. v * DegreesPerUnit <= m * DegreesPerUnit /\ 0 <= v * DegreesPerUnit
    BY <1>1, <1>2
  <2>2. m * DegreesPerUnit = DegreesPerUnit * m /\ v * DegreesPerUnit \in Int
    BY <1>1, <1>2
  <2> QED
    BY <1>1, <1>2, <2>1, <2>2
<1> QED
  BY <1>2, <1>3, <1>4

LEMMA Caps ==
  ASSUME NEW peak \in Nat
  PROVE  VelocityCap(peak) \in 0 .. MaxVelocity
<1> DEFINE x == (peak * CapPercent) \div 100
<1>1. CapPercent \in Nat
  BY PathAssumption
<1>2. peak * CapPercent \in Nat
  BY <1>1
<1>3. x \in Nat
  BY <1>2, SMT
<1>4. MaxVelocity \in Nat
  BY Speeds
<1>5. VelocityCap(peak) = Min({x, MaxVelocity})
  BY DEF VelocityCap
<1> HIDE DEF x
<1> QED
  BY <1>3, <1>4, <1>5, MinPair

LEMMA Feeds ==
  ASSUME NEW v \in 0 .. MaxVelocity
  PROVE  Max({MinFeed, Magnitude(ToFeed(v))}) \in 1 .. MaxFeed
<1>1. MinFeed \in 1 .. MaxFeed /\ MaxFeed \in Nat
  BY PathAssumption
<1>2. ToFeed(v) \in 0 .. MaxFeed
  BY Speeds DEF ToFeed
<1>3. Magnitude(ToFeed(v)) = ToFeed(v)
  BY <1>1, <1>2 DEF Magnitude
<1> QED
  BY <1>1, <1>2, <1>3, MaxPair

\* The jobs that are admitted under the limits low .. high and upright at u.
IsReturn(j, u) == j.blend \in 1 .. Slack /\ j.tr.delta = u - j.start
GoodJob(j, low, high, u) ==
  /\ j.cap \in 0 .. MaxVelocity /\ j.start \in Int /\ j.blend \in Nat
  /\ \/ /\ j.kind = "pregenerated" /\ IsPregenerated(j.tr) /\ j.blend = j.tr.blend
        /\ \A i \in 1 .. Samples(j.tr) : j.tr.positions[i] \in low .. high
     \/ /\ j.kind = "wave" /\ IsWave(j.tr) /\ j.blend = Period
        /\ low <= RequiredMinimum(j.tr) /\ RequiredMaximum(j.tr) <= high
     \/ j.kind = "return" /\ IsReturn(j, u)

\* A return ends within its duration of upright: what the whole steps leave.
LEMMA ReturnEnds ==
  ASSUME NEW start \in Int, NEW u \in Int, NEW d \in Nat \ {0}, NEW t \in Int
  PROVE  /\ start + BlendPart(QuinticBlend(t, d).s, u - start, d) \in Int
         /\ t >= d => start + BlendPart(QuinticBlend(t, d).s, u - start, d) \in u - d .. u
<1> DEFINE s == QuinticBlend(t, d).s
           e == u - start
           q == e \div d
<1>1. e \in Int /\ s \in Int /\ (t >= d => s = d * d * d * d * d)
  BY Blends
<1>2. q \in Int /\ d * q <= e /\ e < d * q + d
  BY <1>1, Quotient
<1> HIDE DEF s
<1>3. BlendPart(s, e, d) \in Int /\ (t >= d => BlendPart(s, e, d) = q * d)
  BY <1>1, Parts
<1> DEFINE b == BlendPart(s, e, d)
<1> HIDE DEF q, b
<1>4. q * d = d * q /\ d * q \in Int
  BY <1>2
<1>5. ASSUME t >= d PROVE start + b \in u - d .. u
  <2>1. b = d * q
    BY <1>3, <1>4, <1>5 DEF b
  <2> QED
    BY <1>2, <1>4, <2>1
<1>6. start + b \in Int
  BY <1>3 DEF b
<1> QED
  BY <1>5, <1>6 DEF b, s

\* Samples are integers, and after the blend the clamp moves them by the slack at most.
LEMMA GoodSample ==
  ASSUME config \in Configs, GoodJob(job, GoalMinimum, GoalMaximum, config.upright),
         NEW t \in Nat
  PROVE  /\ SampleAt(t).position \in Int
         /\ t >= job.blend => Magnitude(Clamped(SampleAt(t).position) - SampleAt(t).position)
                                <= Slack
<1> DEFINE p == SampleAt(t).position
           low == GoalMinimum
           high == GoalMaximum
<1>1. /\ low \in Int /\ high \in Int /\ config.upright \in Int /\ low <= high /\ Slack \in Nat
      /\ low <= config.upright /\ config.upright <= high
  <2>1. low \in Int /\ high \in Int /\ config.upright \in low .. high
    BY Limits
  <2>2. Slack \in Nat
    BY PathAssumption
  <2> HIDE DEF low, high
  <2> QED
    BY <2>1, <2>2
<1>2. /\ job.blend \in Nat /\ job.start \in Int
  BY DEF GoodJob
<1> HIDE DEF low, high
<1>3. ASSUME NEW x \in low .. high PROVE Magnitude(Clamp(x, low, high) - x) <= Slack
  <2>1. Clamp(x, low, high) = x /\ x \in Int
    BY <1>1, Clamps
  <2>2. x - x = 0
    BY <2>1
  <2> QED
    BY <1>1, <2>1, <2>2 DEF Magnitude
<1>4. CASE job.kind = "pregenerated"
  <2>1. /\ IsPregenerated(job.tr) /\ job.blend = job.tr.blend
        /\ \A i \in 1 .. Samples(job.tr) : job.tr.positions[i] \in low .. high
    BY <1>4 DEF GoodJob, low, high
  <2>2. p = PregeneratedSample(job.tr, t).position
    BY <1>4 DEF SampleAt
  <2> HIDE DEF p
  <2>3. p \in Int /\ (t >= job.blend => p \in low .. high)
    BY <1>1, <2>1, <2>2, PregeneratedIsTyped
  <2>4. t >= job.blend => Magnitude(Clamped(p) - p) <= Slack
    BY <1>3, <2>3 DEF Clamped, low, high
  <2> QED
    BY <2>3, <2>4 DEF p
<1>5. CASE job.kind = "wave"
  <2>1. /\ IsWave(job.tr) /\ job.blend = Period
        /\ low <= RequiredMinimum(job.tr) /\ RequiredMaximum(job.tr) <= high
    BY <1>5 DEF GoodJob, low, high
  <2>2. p = WaveSample(job.tr, t).position
    BY <1>5 DEF SampleAt
  <2> HIDE DEF p
  <2>3. /\ p \in Int
        /\ t >= job.blend => p \in RequiredMinimum(job.tr) .. RequiredMaximum(job.tr)
    <3>1. t \in Int
      OBVIOUS
    <3> QED
      BY <2>1, <2>2, <3>1, WaveIsTyped
  <2>4. RequiredMinimum(job.tr) \in Int /\ RequiredMaximum(job.tr) \in Int
    BY <2>1 DEF IsWave, RequiredMinimum, RequiredMaximum
  <2>5. t >= job.blend => p \in low .. high
    BY <1>1, <2>1, <2>3, <2>4
  <2>6. t >= job.blend => Magnitude(Clamped(p) - p) <= Slack
    BY <1>3, <2>5 DEF Clamped, low, high
  <2> QED
    BY <2>3, <2>6 DEF p
<1>6. CASE job.kind = "return"
  <2> DEFINE d == job.blend
             u == config.upright
  <2>1. d \in 1 .. Slack /\ job.tr.delta = u - job.start
    BY <1>6 DEF GoodJob, IsReturn
  <2>2. p = job.start + BlendPart(QuinticBlend(t, d).s, u - job.start, d)
    BY <1>6, <2>1 DEF SampleAt
  <2> HIDE DEF p, d, u
  <2>3. d \in Nat \ {0} /\ t \in Int /\ u \in Int /\ job.start \in Int
    BY <1>1, <1>2, <2>1 DEF u
  <2>4. p \in Int /\ (t >= d => p \in u - d .. u)
    BY <2>2, <2>3, ReturnEnds
  <2>5. ASSUME t >= d PROVE Magnitude(Clamped(p) - p) <= Slack
    <3> DEFINE c == Clamp(p, low, high)
    <3>1. /\ c \in low .. high /\ (p \in low .. high => c = p) /\ (p > high => c = high)
          /\ (p < low => c = low)
      BY <1>1, <2>4, Clamps
    <3>2. p \in u - d .. u
      BY <2>4, <2>5
    <3> HIDE DEF c
    <3>3. c \in Int /\ 0 <= c - p /\ c - p <= d /\ d <= Slack
      BY <1>1, <2>1, <2>3, <2>4, <3>1, <3>2 DEF u
    <3>4. Magnitude(c - p) = c - p
      BY <2>4, <3>3 DEF Magnitude
    <3>5. Clamped(p) = c
      BY DEF Clamped, c, low, high
    <3> QED
      BY <1>1, <2>3, <2>4, <3>3, <3>4, <3>5
  <2> QED
    BY <2>4, <2>5 DEF p, d
<1> QED
  BY <1>4, <1>5, <1>6 DEF GoodJob
-----------------------------------------------------------------------------
(* The invariant. *)

\* A command that the drive object has taken.
Command(c) == c.position \in Int /\ c.feed \in Int /\ Fits(Raw(c.position))

\* The inductive invariant: the job, the command, and what is on the bus.
JobInv ==
  /\ config \in Configs
  /\ elapsed \in Int /\ elapsed >= -1
  /\ active => GoodJob(job, GoalMinimum, GoalMaximum, config.upright)
  /\ WaveIsNotClipped
CommandInv == ~refused /\ Command(cmd) /\ Carries(out, cmd)
BusInv ==
  /\ Command(sent)
  /\ Telegram(regs, RunWord, Raw(sent.position), LLRound(sent.feed, FeedStep), FullOverride)
  /\ Fits(paddle) /\ polled \in Int
  /\ in \in [InBytes -> Octet] /\ GetInt(in, PositionTag) = polled
PathInv == JobInv /\ CommandInv /\ BusInv

\* What the node reads is the position that was last polled.
LEMMA Positions ==
  ASSUME JobInv, BusInv
  PROVE  /\ PositionDegrees = polled * PositionStep /\ PositionDegrees \in Int
         /\ ActualPosition \in Int
<1>1. PositionTag.scale = PositionStep /\ PositionTag.bias = 0
  BY DEF PositionTag, TagAt
<1>2. PositionStep \in Nat \ {0} /\ polled \in Int /\ GetInt(in, PositionTag) = polled
  BY PathAssumption DEF BusInv
<1>3. PositionDegrees = polled * PositionStep + 0
  BY <1>1, <1>2 DEF PositionDegrees, GetScaled
<1>4. polled * PositionStep \in Int
  BY <1>2
<1>5. PositionDegrees = polled * PositionStep /\ PositionDegrees \in Int
  BY <1>3, <1>4
<1>6. /\ config.upright \in Int /\ config.angle \in Int /\ DegreesPerUnit \in Nat \ {0}
  BY Setup DEF JobInv
<1>7. PositionDegrees - config.angle \in Int
  BY <1>5, <1>6
<1>8. (PositionDegrees - config.angle) \div DegreesPerUnit \in Int
  BY <1>6, <1>7, Quotient
<1> QED
  BY <1>5, <1>6, <1>8 DEF ActualPosition

\* The image that start() leaves holds the position of the axis.
LEMMA InitialCommand ==
  ASSUME Bytes256, NEW raw, Fits(raw)
  PROVE  LET c == [position |-> raw * PositionStep, feed |-> HoldFeed]
         IN  Command(c) /\ Raw(c.position) = raw /\ Carries(ParkedAt(raw), c)
<1> DEFINE c == [position |-> raw * PositionStep, feed |-> HoldFeed]
           o == [b \in OutBytes |-> 0]
           e == SetInt(SetInt(o, ControlTag, RunWord), OverrideTag, FullOverride)
           f == LLRound(HoldFeed, FeedStep)
<1>1. raw \in Int /\ PositionStep \in Nat \ {0} /\ HoldFeed \in 1 .. MaxFeed /\ MaxFeed \in Nat
  BY PathAssumption DEF Fits
<1>2. raw * PositionStep \in Int /\ HoldFeed \in Int
  BY <1>1
<1>3. LLRound(raw * PositionStep, PositionStep) = raw
  <2> DEFINE r == LLRound(raw * PositionStep, PositionStep)
  <2>1. r \in Int /\ 2 * Magnitude(r * PositionStep - raw * PositionStep) <= PositionStep
    BY <1>1, <1>2, RoundNear
  <2> HIDE DEF r
  <2>2. r * PositionStep - raw * PositionStep = (r - raw) * PositionStep
    BY <1>1, <2>1
  <2> DEFINE k == r - raw
  <2>3. k \in Int /\ 2 * Magnitude(k * PositionStep) <= PositionStep
    BY <1>1, <2>1, <2>2
  <2> HIDE DEF k
  <2>4. ASSUME k > 0 PROVE FALSE
    <3>1. k * PositionStep >= PositionStep /\ k * PositionStep \in Int
      BY <1>1, <2>3, <2>4
    <3> QED
      BY <1>1, <2>3, <3>1 DEF Magnitude
  <2>5. ASSUME k < 0 PROVE FALSE
    <3>1. (-k) * PositionStep >= PositionStep /\ (-k) * PositionStep = -(k * PositionStep)
          /\ k * PositionStep \in Int
      BY <1>1, <2>3, <2>5
    <3> QED
      BY <1>1, <2>3, <3>1 DEF Magnitude
  <2>6. k = 0
    BY <2>3, <2>4, <2>5
  <2> QED
    BY <1>1, <2>1, <2>6 DEF k, r
<1>4. Holds(e, RunWord, 0, 0, FullOverride)
  BY Energised
<1>5. Fits(f)
  BY <1>1, FeedFits
<1>6. ParkedAt(raw) = SetInt(SetInt(e, FeedTag, f), TargetTag, raw)
  <2>1. FeedTag.scale = FeedStep /\ FeedTag.bias = 0
    BY DEF FeedTag, TagAt
  <2>2. TargetTag.scale = PositionStep /\ TargetTag.bias = 0
    BY DEF TargetTag, TagAt
  <2>3. HoldFeed - 0 = HoldFeed /\ raw * PositionStep - 0 = raw * PositionStep
    BY <1>2
  <2> QED
    BY <1>3, <2>1, <2>2, <2>3 DEF ParkedAt, SetScaled
<1> HIDE DEF e, f
<1>7. Holds(SetInt(e, FeedTag, f), RunWord, 0, f, FullOverride)
  BY <1>4, <1>5, SetFeed
<1>8. Holds(SetInt(SetInt(e, FeedTag, f), TargetTag, raw), RunWord, raw, f, FullOverride)
  BY <1>7, SetTarget
<1>9. Raw(c.position) = raw /\ c.feed = HoldFeed
  BY <1>3 DEF Raw
<1>10. Command(c)
  BY <1>2, <1>9 DEF Command
<1> QED
  BY <1>6, <1>8, <1>9, <1>10 DEF Carries, f
-----------------------------------------------------------------------------
(* Its beginning, and the steps of the actuator. *)

\* It holds when the drive has been enabled.
LEMMA PathInit ==
  ASSUME Init, Bytes256
  PROVE  PathInv
<1>1. config \in Configs /\ active = FALSE /\ elapsed = -1 /\ refused = FALSE
  BY DEF Init
<1>2. Fits(paddle)
  <2> DEFINE low == MinDegrees - Tolerance * DegreesPerUnit
             high == MaxDegrees + Tolerance * DegreesPerUnit
  <2>1. paddle \in Raw(low) .. Raw(high)
    BY <1>1, Limits DEF Init
  <2>2. Raw(low) \in Int /\ Raw(high) \in Int
    <3>1. low \in Int /\ high \in Int /\ PositionStep \in Nat \ {0}
      BY PathAssumption
    <3> HIDE DEF low, high
    <3> QED
      BY <3>1, RoundNear DEF Raw
  <2>3. -(ByteSize ^ 4) <= 2 * Raw(low) /\ 2 * Raw(high) < ByteSize ^ 4 /\ ByteSize ^ 4 \in Int
    BY TagAssumption, Powers, SMT
  <2> HIDE DEF low, high
  <2> QED
    BY <2>1, <2>2, <2>3 DEF Fits
<1>3. JobInv
  BY <1>1 DEF JobInv, WaveIsNotClipped
<1>4. Command(cmd) /\ Raw(cmd.position) = paddle /\ Carries(out, cmd)
  BY <1>2, InitialCommand DEF Init
<1>5. CommandInv
  BY <1>1, <1>4 DEF CommandInv
<1>6. sent = cmd /\ regs = StoreToRegisters(out, 6, 0)
  BY DEF Init
<1>7. Telegram(regs, RunWord, Raw(sent.position), LLRound(sent.feed, FeedStep), FullOverride)
  BY <1>4, <1>6, RegistersCarry DEF Carries
<1>8. polled = paddle /\ in \in [InBytes -> Octet] /\ GetInt(in, PositionTag) = polled
  <2> DEFINE z == [b \in InBytes |-> 0]
  <2>1. z \in [InBytes -> Octet]
    BY SMT DEF Octet, Bytes256
  <2>2. in = LoadFromRegisters(z, DriveWrites(paddle), 7, 0) /\ polled = paddle
    BY DEF Init
  <2> HIDE DEF z
  <2> QED
    BY <1>2, <2>1, <2>2, Reported
<1>9. polled \in Int
  BY <1>2, <1>8 DEF Fits
<1>10. BusInv
  BY <1>2, <1>4, <1>6, <1>7, <1>8, <1>9 DEF BusInv
<1> QED
  BY <1>3, <1>5, <1>10 DEF PathInv

\* move_to() with a position and a feed within the drive's limits.
LEMMA MoveTaken ==
  ASSUME CommandInv, Bytes256, NEW p \in MinDegrees .. MaxDegrees, NEW f \in 1 .. MaxFeed,
         MoveTo(p, f)
  PROVE  CommandInv'
<1>1. /\ MinDegrees \in Int /\ MaxDegrees \in Int /\ MaxFeed \in Nat
      /\ Tolerance * DegreesPerUnit \in Nat
  BY PathAssumption
<1>2. p \in Int /\ f \in Int /\ ~(p < MinDegrees \/ p > MaxDegrees \/ f <= 0 \/ f > MaxFeed)
  BY <1>1
<1>3. out' = Staged(p, f) /\ cmd' = [position |-> p, feed |-> f] /\ refused' = refused
  BY <1>2 DEF MoveTo
<1> DEFINE r == LLRound(f, FeedStep)
<1>4. Fits(Raw(p))
  BY <1>1, <1>2, PositionFits
<1>5. Fits(r)
  BY FeedFits
<1>6. Staged(p, f) = SetInt(SetInt(out, FeedTag, r), TargetTag, Raw(p))
  <2>1. FeedTag.scale = FeedStep /\ FeedTag.bias = 0
    BY DEF FeedTag, TagAt
  <2>2. TargetTag.scale = PositionStep /\ TargetTag.bias = 0
    BY DEF TargetTag, TagAt
  <2>3. f - 0 = f /\ p - 0 = p
    BY <1>2
  <2> QED
    BY <2>1, <2>2, <2>3 DEF Staged, SetScaled, Raw
<1> HIDE DEF r
<1>7. Holds(out, RunWord, Raw(cmd.position), LLRound(cmd.feed, FeedStep), FullOverride)
  BY DEF CommandInv, Carries
<1>8. Holds(SetInt(out, FeedTag, r), RunWord, Raw(cmd.position), r, FullOverride)
  BY <1>5, <1>7, SetFeed
<1>9. Holds(SetInt(SetInt(out, FeedTag, r), TargetTag, Raw(p)), RunWord, Raw(p), r, FullOverride)
  BY <1>4, <1>8, SetTarget
<1>10. cmd'.position = p /\ cmd'.feed = f
  BY <1>3
<1>11. Carries(out', cmd')
  BY <1>3, <1>6, <1>9, <1>10 DEF Carries, r
<1>12. Command(cmd')
  BY <1>2, <1>4, <1>10 DEF Command
<1>13. ~refused'
  BY <1>3 DEF CommandInv
<1> QED
  BY <1>11, <1>12, <1>13 DEF CommandInv

\* halt() is never refused.
LEMMA HaltTaken ==
  ASSUME PathInv, Bytes256, Halt
  PROVE  CommandInv'
<1> DEFINE x == IF has_target THEN cmd.position ELSE PositionDegrees
<1>1. PositionDegrees \in Int
  BY Positions DEF PathInv
<1>2. x \in Int
  BY <1>1 DEF PathInv, CommandInv, Command
<1>3. /\ MinDegrees \in Int /\ MaxDegrees \in Int /\ MinDegrees <= MaxDegrees
      /\ HoldFeed \in 1 .. MaxFeed
  BY PathAssumption
<1>4. MoveTo(Clamp(x, MinDegrees, MaxDegrees), HoldFeed)
  BY DEF Halt
<1> HIDE DEF x
<1>5. Clamp(x, MinDegrees, MaxDegrees) \in MinDegrees .. MaxDegrees
  BY <1>2, <1>3, Clamps
<1> QED
  BY <1>3, <1>4, <1>5, MoveTaken DEF PathInv

\* What a step leaves alone.
LEMMA BusKept ==
  ASSUME BusInv, UNCHANGED <<busVars, paddle>>
  PROVE  BusInv'
BY DEF BusInv, busVars

LEMMA CommandKept ==
  ASSUME CommandInv, UNCHANGED <<refused, cmd, out>>
  PROVE  CommandInv'
BY DEF CommandInv

LEMMA LimitsKept ==
  ASSUME UNCHANGED config
  PROVE  GoalMinimum' = GoalMinimum /\ GoalMaximum' = GoalMaximum
BY DEF GoalMinimum, GoalMaximum, LimitOf

LEMMA JobKept ==
  ASSUME JobInv, UNCHANGED <<config, jobVars>>
  PROVE  JobInv'
<1>1. /\ config' = config /\ active' = active /\ job' = job /\ elapsed' = elapsed
      /\ wanted' = wanted /\ setpoint' = setpoint
  BY DEF jobVars
<1> QED
  BY <1>1, LimitsKept DEF JobInv, WaveIsNotClipped
-----------------------------------------------------------------------------
(* The steps. *)

\* The start of an admitted job.
LEMMA StartsKeep ==
  ASSUME PathInv, NEW j, GoodJob(j, GoalMinimum, GoalMaximum, config.upright), Starts(j)
  PROVE  PathInv'
<1>1. /\ config' = config /\ job' = j /\ elapsed' = -1
      /\ UNCHANGED <<refused, cmd, out>> /\ UNCHANGED <<busVars, paddle>>
  BY DEF Starts
<1>2. GoodJob(job', GoalMinimum', GoalMaximum', config'.upright)
  BY <1>1, LimitsKept
<1>3. ~(elapsed' >= job'.blend)
  BY <1>1 DEF GoodJob
<1>4. config' \in Configs /\ elapsed' \in Int /\ elapsed' >= -1
  BY <1>1 DEF PathInv, JobInv
<1>5. JobInv'
  BY <1>2, <1>3, <1>4 DEF JobInv, WaveIsNotClipped
<1>6. CommandInv' /\ BusInv'
  BY <1>1, CommandKept, BusKept DEF PathInv
<1> QED
  BY <1>5, <1>6 DEF PathInv

\* prepare_goal(): a pregenerated wave.
LEMMA PregeneratedKeeps ==
  ASSUME PathInv, NEW goal \in PositionGoals, AcceptPregenerated(goal)
  PROVE  PathInv'
<1> DEFINE a == ActualPosition
           tr == Pregenerated(goal)
           peak == PregeneratedPeakVelocity(tr)
           j == [tr |-> tr, kind |-> "pregenerated", start |-> a, blend |-> tr.blend,
                 cap |-> VelocityCap(peak)]
<1>1. a \in Int
  BY Positions DEF PathInv
<1>2. goal.positions \in Seq(Int) /\ goal.interval \in Int
  BY PathAssumption
<1>3. /\ goal.positions # <<>> /\ goal.interval > 0 /\ Starts(j)
      /\ \A i \in DOMAIN goal.positions : /\ goal.positions[i] >= GoalMinimum
                                          /\ goal.positions[i] <= GoalMaximum
  BY DEF AcceptPregenerated
<1>4. /\ tr.positions = goal.positions /\ tr.interval = goal.interval /\ tr.start = a
      /\ tr.blend = BlendDuration(Magnitude(goal.positions[1] - a))
  BY DEF Pregenerated
<1> HIDE DEF tr, a
<1>5. goal.positions[1] \in Int
  BY <1>2, <1>3
<1>6. tr.blend \in Nat
  <2>1. goal.positions[1] - a \in Int
    BY <1>1, <1>5
  <2>2. Magnitude(goal.positions[1] - a) \in Nat
    BY <2>1, Magnitudes
  <2> QED
    BY <1>4, <2>2, Durations
<1>7. IsPregenerated(tr)
  <2>1. goal.interval \in Nat \ {0}
    BY <1>2, <1>3
  <2> QED
    BY <1>1, <1>2, <1>3, <1>4, <1>6, <2>1 DEF IsPregenerated
<1>8. \A i \in 1 .. Samples(tr) : tr.positions[i] \in GoalMinimum .. GoalMaximum
  <2>1. GoalMinimum \in Int /\ GoalMaximum \in Int
    BY Limits DEF PathInv, JobInv
  <2>2. DOMAIN goal.positions = 1 .. Samples(tr)
    BY <1>2, <1>4 DEF Samples
  <2>3. \A i \in DOMAIN goal.positions : goal.positions[i] \in Int
    BY <1>2
  <2> QED
    BY <1>3, <1>4, <2>1, <2>2, <2>3
<1>9. VelocityCap(peak) \in 0 .. MaxVelocity
  BY <1>7, PregeneratedPeaks, Caps
<1> HIDE DEF peak
<1>10. /\ j.tr = tr /\ j.kind = "pregenerated" /\ j.start = a /\ j.blend = tr.blend
       /\ j.cap = VelocityCap(peak)
  OBVIOUS
<1> HIDE DEF j
<1>11. GoodJob(j, GoalMinimum, GoalMaximum, config.upright)
  BY <1>1, <1>6, <1>7, <1>8, <1>9, <1>10 DEF GoodJob
<1> QED
  BY <1>3, <1>11, StartsKeep

\* prepare_goal(): a regular wave.
LEMMA WaveKeeps ==
  ASSUME PathInv, NEW amplitude \in Amplitudes, AcceptWave(amplitude)
  PROVE  PathInv'
<1> DEFINE a == ActualPosition
           tr == [amplitude |-> amplitude, upright |-> config.upright,
                  at_minimum |-> config.at_minimum, start |-> a]
           peak == WavePeakVelocity(tr)
           j == [tr |-> tr, kind |-> "wave", start |-> a, blend |-> Period,
                 cap |-> VelocityCap(peak)]
<1>1. a \in Int
  BY Positions DEF PathInv
<1>2. RequiredMinimum(tr) >= GoalMinimum /\ RequiredMaximum(tr) <= GoalMaximum /\ Starts(j)
  BY DEF AcceptWave
<1>3. config.upright \in Int /\ config.at_minimum \in BOOLEAN
  BY Setup DEF PathInv, JobInv
<1>4. amplitude \in Nat
  BY PathAssumption
<1> HIDE DEF a
<1>5. IsWave(tr)
  BY <1>1, <1>3, <1>4 DEF IsWave
<1> HIDE DEF tr
<1>6. VelocityCap(peak) \in 0 .. MaxVelocity
  BY <1>5, WavePeaks, Caps
<1> HIDE DEF peak
<1>7. /\ j.tr = tr /\ j.kind = "wave" /\ j.start = a /\ j.blend = Period
      /\ j.cap = VelocityCap(peak)
  OBVIOUS
<1>8. Period \in Nat
  BY TrajectoryAssumption
<1>9. GoalMinimum <= RequiredMinimum(tr)
  <2>1. GoalMinimum \in Int
    BY Limits DEF PathInv, JobInv
  <2>2. RequiredMinimum(tr) \in Int
    BY <1>5 DEF RequiredMinimum, IsWave
  <2> QED
    BY <1>2, <2>1, <2>2
<1> HIDE DEF j
<1>10. GoodJob(j, GoalMinimum, GoalMaximum, config.upright)
  BY <1>1, <1>2, <1>5, <1>6, <1>7, <1>8, <1>9 DEF GoodJob
<1> QED
  BY <1>2, <1>10, StartsKeep

\* move_to_upright(): its duration is within the slack.
LEMMA ReturnKeeps ==
  ASSUME PathInv, NEW tolerance \in ReturnTolerances, ReturnStarts(tolerance)
  PROVE  PathInv'
<1> DEFINE a == ActualPosition
           u == config.upright
           e == u - a
           m == Magnitude(e)
           d == ReturnDuration(m)
           cap == VelocityCap(QuinticPeak(m, d))
           j == [tr |-> [delta |-> e, tolerance |-> Asked(tolerance)], kind |-> "return",
                 start |-> a, blend |-> d, cap |-> cap]
           span == (MaxDegrees - MinDegrees) \div DegreesPerUnit + Tolerance
<1>1. /\ a \in Int /\ GoalMinimum \in Int /\ GoalMaximum \in Int
      /\ u \in GoalMinimum .. GoalMaximum /\ Tolerance \in Nat \ {0}
      /\ span = GoalMaximum - GoalMinimum + Tolerance
  BY Positions, Limits, Setup DEF PathInv, JobInv
<1>2. a >= GoalMinimum - Tolerance /\ a <= GoalMaximum + Tolerance /\ Starts(j)
  BY DEF ReturnStarts, StartInLimits, Delta
<1>3. ReturnDuration(span) <= Slack
  BY SlackAssumption
<1> HIDE DEF a, u, span
<1>4. e \in Int /\ m \in Nat /\ m <= span /\ span \in Nat
  <2>1. e \in Int
    BY <1>1
  <2>2. m \in Nat
    BY <2>1, Magnitudes
  <2> QED
    BY <1>1, <1>2, <2>1, <2>2 DEF Magnitude
<1> HIDE DEF m
<1>5. d <= Slack
  <2>1. d <= ReturnDuration(span)
    BY <1>4, LongerReturns
  <2>2. d \in Nat /\ ReturnDuration(span) \in Nat /\ Slack \in Nat
    BY <1>4, Durations, PathAssumption
  <2> HIDE DEF d
  <2> QED
    BY <1>3, <2>1, <2>2
<1>6. d \in Nat \ {0}
  <2> DEFINE x == QuinticDuration(m, ReturnVelocity)
  <2>1. d = Max({x, ReturnMinDuration})
    BY DEF ReturnDuration
  <2>2. ReturnVelocity \in Nat \ {0} /\ ReturnMinDuration \in Nat \ {0}
    BY PathAssumption
  <2>3. x \in Nat
    BY <1>4, <2>2, SMT DEF QuinticDuration
  <2> HIDE DEF x, d
  <2> QED
    BY <2>1, <2>2, <2>3, MaxPair
<1> HIDE DEF d
<1>7. cap \in 0 .. MaxVelocity
  BY <1>4, <1>6, QuinticPeaks, Caps
<1> HIDE DEF cap
<1>8. j.tr.delta = e /\ j.kind = "return" /\ j.start = a /\ j.blend = d /\ j.cap = cap
  OBVIOUS
<1>9. d \in 1 .. Slack
  <2>1. Slack \in Nat
    BY PathAssumption
  <2> QED
    BY <1>5, <1>6, <2>1
<1> HIDE DEF j
<1>10. GoodJob(j, GoalMinimum, GoalMaximum, u)
  BY <1>1, <1>6, <1>7, <1>8, <1>9 DEF GoodJob, IsReturn
<1> QED
  BY <1>2, <1>10, StartsKeep DEF u

\* The steps that halt.
LEMMA ThereKeeps ==
  ASSUME PathInv, NEW tolerance \in ReturnTolerances, ReturnIsThere(tolerance), Bytes256
  PROVE  PathInv'
<1>1. Halt /\ UNCHANGED <<config, jobVars>> /\ UNCHANGED <<busVars, paddle>>
  BY DEF ReturnIsThere
<1>2. CommandInv'
  BY <1>1, HaltTaken
<1> QED
  BY <1>1, <1>2, JobKept, BusKept DEF PathInv

LEMMA EndsKeep ==
  ASSUME PathInv, Ends, Bytes256
  PROVE  PathInv'
<1>1. /\ Halt /\ config' = config /\ active' = FALSE /\ elapsed' = -1
      /\ UNCHANGED <<busVars, paddle>>
  BY DEF Ends
<1>2. CommandInv'
  BY <1>1, HaltTaken
<1>3. JobInv'
  BY <1>1 DEF PathInv, JobInv, WaveIsNotClipped
<1> QED
  BY <1>1, <1>2, <1>3, BusKept DEF PathInv

\* A control cycle: its setpoint is within the limits, its speed within the cap.
LEMMA WorksKeeps ==
  ASSUME PathInv, NEW dt \in 1 .. MaxJitter, Works(dt), Bytes256
  PROVE  PathInv'
<1> DEFINE t == elapsed + dt
           p == SampleAt(t).position
           s == Clamped(p)
<1>1. /\ active /\ config' = config /\ job' = job /\ elapsed' = t /\ wanted' = p /\ setpoint' = s
      /\ WriteSetpoint(setpoint', job.cap) /\ UNCHANGED <<busVars, paddle>>
  BY DEF Works, Cycle
<1>2. /\ config \in Configs /\ GoodJob(job, GoalMinimum, GoalMaximum, config.upright)
      /\ elapsed \in Int /\ elapsed >= -1
  BY <1>1 DEF PathInv, JobInv
<1>3. t \in Nat
  <2>1. MaxJitter \in Nat
    BY PathAssumption
  <2> QED
    BY <1>2, <2>1
<1> HIDE DEF t
<1>4. p \in Int /\ (t >= job.blend => Magnitude(s - p) <= Slack)
  BY <1>2, <1>3, GoodSample
<1> HIDE DEF p
<1>5. s \in GoalMinimum .. GoalMaximum
  <2>1. GoalMinimum \in Int /\ GoalMaximum \in Int /\ config.upright \in GoalMinimum .. GoalMaximum
    BY <1>2, Limits
  <2>2. GoalMinimum <= GoalMaximum
    BY <2>1
  <2> QED
    BY <1>4, <2>1, <2>2, Clamps DEF Clamped
<1>6. ToDegrees(s) \in MinDegrees .. MaxDegrees
  BY <1>2, <1>5, Limits
<1> DEFINE f == Max({MinFeed, Magnitude(ToFeed(job.cap))})
<1>7. f \in 1 .. MaxFeed
  BY <1>2, Feeds DEF GoodJob
<1>8. MoveTo(ToDegrees(s), f)
  BY <1>1 DEF WriteSetpoint
<1> HIDE DEF f, s
<1>9. CommandInv'
  BY <1>6, <1>7, <1>8, MoveTaken DEF PathInv
<1>10. JobInv'
  <2>1. GoodJob(job', GoalMinimum', GoalMaximum', config'.upright)
    BY <1>1, <1>2, LimitsKept
  <2>2. elapsed' >= job'.blend => Magnitude(setpoint' - wanted') <= Slack
    BY <1>1, <1>4
  <2>3. config' \in Configs /\ elapsed' \in Int /\ elapsed' >= -1
    BY <1>1, <1>2, <1>3
  <2> QED
    BY <2>1, <2>2, <2>3 DEF JobInv, WaveIsNotClipped
<1> QED
  BY <1>1, <1>9, <1>10, BusKept DEF PathInv

\* An exchange with the gateway, and the drive that follows.
LEMMA ExchangeKeeps ==
  ASSUME PathInv, Exchange, Bytes256
  PROVE  PathInv'
<1>1. /\ regs' = StoreToRegisters(out, 6, 0) /\ sent' = cmd /\ polled' = paddle
      /\ in' = LoadFromRegisters(in, DriveWrites(paddle), 7, 0) /\ paddle' = paddle
      /\ UNCHANGED <<config, jobVars>> /\ UNCHANGED <<refused, cmd, out>>
  BY DEF Exchange
<1>2. Command(cmd) /\ Carries(out, cmd) /\ Fits(paddle) /\ in \in [InBytes -> Octet]
  BY DEF PathInv, CommandInv, BusInv
<1>3. Telegram(regs', RunWord, Raw(sent'.position), LLRound(sent'.feed, FeedStep), FullOverride)
  BY <1>1, <1>2, RegistersCarry DEF Carries
<1>4. in' \in [InBytes -> Octet] /\ GetInt(in', PositionTag) = polled'
  BY <1>1, <1>2, Reported
<1>5. BusInv'
  BY <1>1, <1>2, <1>3, <1>4 DEF BusInv, Fits
<1> QED
  BY <1>1, <1>5, JobKept, CommandKept DEF PathInv

LEMMA DriveKeeps ==
  ASSUME PathInv, DriveMoves
  PROVE  PathInv'
<1>1. /\ paddle' = DriveReads(1) /\ regs' = regs /\ sent' = sent /\ polled' = polled /\ in' = in
      /\ UNCHANGED <<config, jobVars>> /\ UNCHANGED <<refused, cmd, out>>
  BY DEF DriveMoves, busVars
<1>2. DriveReads(1) = Raw(sent.position)
  BY DEF PathInv, BusInv, Telegram, Read32, DriveReads
<1>3. Fits(paddle')
  BY <1>1, <1>2 DEF PathInv, BusInv, Command
<1>4. BusInv'
  BY <1>1, <1>3 DEF PathInv, BusInv
<1> QED
  BY <1>1, <1>4, JobKept, CommandKept DEF PathInv

LEMMA StutterKeeps ==
  ASSUME PathInv, UNCHANGED vars
  PROVE  PathInv'
<1>1. /\ UNCHANGED <<config, jobVars>> /\ UNCHANGED <<refused, cmd, out>>
      /\ UNCHANGED <<busVars, paddle>>
  BY DEF vars
<1> QED
  BY <1>1, JobKept, CommandKept, BusKept DEF PathInv
-----------------------------------------------------------------------------
(* The theorems. *)

\* Every step keeps the invariant.
LEMMA PathStep ==
  ASSUME PathInv, [Next]_vars, Bytes256
  PROVE  PathInv'
<1>1. ASSUME NEW goal \in PositionGoals, AcceptPregenerated(goal) PROVE PathInv'
  BY <1>1, PregeneratedKeeps
<1>2. ASSUME NEW amplitude \in Amplitudes, AcceptWave(amplitude) PROVE PathInv'
  BY <1>2, WaveKeeps
<1>3. ASSUME NEW dt \in 1 .. MaxJitter, Works(dt) PROVE PathInv'
  BY <1>3, WorksKeeps
<1>4. ASSUME NEW tolerance \in ReturnTolerances, ReturnStarts(tolerance) PROVE PathInv'
  BY <1>4, ReturnKeeps
<1>5. ASSUME NEW tolerance \in ReturnTolerances, ReturnIsThere(tolerance) PROVE PathInv'
  BY <1>5, ThereKeeps
<1>6. CASE Ends
  BY <1>6, EndsKeep
<1>7. CASE Exchange
  BY <1>7, ExchangeKeeps
<1>8. CASE DriveMoves
  BY <1>8, DriveKeeps
<1>9. CASE UNCHANGED vars
  BY <1>9, StutterKeeps
<1> QED
  BY <1>1, <1>2, <1>3, <1>4, <1>5, <1>6, <1>7, <1>8, <1>9 DEF Next

\* The inductive invariant holds throughout: every job in hand was admitted within
\* the limits, the image holds the last command, and the registers the last sent.
THEOREM PathHolds == Bytes256 => (Spec => []PathInv)
<1> SUFFICES ASSUME Bytes256 PROVE Spec => []PathInv
  OBVIOUS
<1>1. Init => PathInv
  BY PathInit
<1>2. PathInv /\ [Next]_vars => PathInv'
  BY PathStep
<1> QED
  BY <1>1, <1>2, PTL DEF Spec

\* No setpoint of an admitted goal or return is refused by move_to(), whatever the
\* jitter of the control cycles.
THEOREM SetpointsAreTaken == Bytes256 => (Spec => []NeverRefused)
<1> SUFFICES ASSUME Bytes256 PROVE Spec => []NeverRefused
  OBVIOUS
<1>1. Spec => []PathInv
  BY PathHolds
<1>2. PathInv => NeverRefused
  BY DEF PathInv, CommandInv, NeverRefused
<1> QED
  BY <1>1, <1>2, PTL

\* After the blend the clamp of publish_and_write_setpoint() moves no setpoint by more
\* than rounding does: the admitted wave is the wave that is made.
THEOREM WavesAreWhole == Bytes256 => (Spec => []WaveIsNotClipped)
<1> SUFFICES ASSUME Bytes256 PROVE Spec => []WaveIsNotClipped
  OBVIOUS
<1>1. Spec => []PathInv
  BY PathHolds
<1>2. PathInv => WaveIsNotClipped
  BY DEF PathInv, JobInv
<1> QED
  BY <1>1, <1>2, PTL

LEMMA WireHolds ==
  ASSUME PathInv
  PROVE  WireCarriesSetpoint
<1>1. PositionStep \in Nat \ {0} /\ FeedStep \in Nat \ {0}
  BY PathAssumption
<1>2. sent.position \in Int /\ sent.feed \in Int
  BY DEF PathInv, BusInv, Command
<1>3. /\ DriveReads(1) = Raw(sent.position) /\ DriveReads(3) = LLRound(sent.feed, FeedStep)
      /\ regs[0] = RunWord /\ regs[5] = FullOverride
  BY DEF PathInv, BusInv, Telegram, Read32, DriveReads
<1>4. 2 * Magnitude(Raw(sent.position) * PositionStep - sent.position) <= PositionStep
  BY <1>1, <1>2, RoundNear DEF Raw
<1>5. 2 * Magnitude(LLRound(sent.feed, FeedStep) * FeedStep - sent.feed) <= FeedStep
  BY <1>1, <1>2, RoundNear
<1>6. PositionDegrees = polled * PositionStep
  BY Positions DEF PathInv
<1> QED
  BY <1>3, <1>4, <1>5, <1>6 DEF WireCarriesSetpoint

\* The drive reads the setpoint it was sent to half a step, in a telegram whose other
\* words are intact, and the node reads the position the drive last reported.
THEOREM WireIsTrue == Bytes256 => (Spec => []WireCarriesSetpoint)
<1> SUFFICES ASSUME Bytes256 PROVE Spec => []WireCarriesSetpoint
  OBVIOUS
<1>1. Spec => []PathInv
  BY PathHolds
<1>2. PathInv => WireCarriesSetpoint
  BY WireHolds
<1> QED
  BY <1>1, <1>2, PTL

LEMMA ImageHolds ==
  ASSUME PathInv, Bytes256
  PROVE  ImageKeepsTags
<1>1. out \in [OutBytes -> Octet]
  BY DEF PathInv, CommandInv, Carries, Holds
<1>2. ASSUME NEW type \in DataTypes, NEW order \in ByteOrders, NEW off \in {1, 4},
             NEW v \in {-3, 0, 6, 77}
      PROVE  LET tag == [type |-> type, offset |-> off, bit |-> 1, order |-> order,
                         scale |-> 1, bias |-> 0]
                 img == SetInt(out, tag, v)
             IN  /\ GetInt(img, tag) = Wrapped(v, type)
                 /\ TypeSize[type] = 4 =>
                      \A i \in 1 .. 4 : img[off + i - 1] = ToBytes(v, 4)[Layout[order][i]]
                 /\ \A b \in OutBytes \ (off .. off + TypeSize[type] - 1) : img[b] = out[b]
  <2> DEFINE tag == [type |-> type, offset |-> off, bit |-> 1, order |-> order,
                     scale |-> 1, bias |-> 0]
             img == SetInt(out, tag, v)
  <2>1. tag.type = type /\ tag.offset = off /\ tag.order = order /\ tag.bit = 1
    OBVIOUS
  <2>2. v \in Int /\ off \in Int
    OBVIOUS
  <2> HIDE DEF tag
  <2>3. InRange(out, off, TypeSize[type])
    <3>1. TypeSize[type] \in {1, 2, 4}
      BY Sizes
    <3>2. \A b \in off .. off + TypeSize[type] - 1 : b \in OutBytes
      BY <3>1 DEF OutBytes
    <3> QED
      BY <1>1, <3>2 DEF InRange
  <2>4. Tagged(out, tag) /\ tag.bit \in 0 .. 7
    BY <2>1, <2>2, <2>3 DEF Tagged
  <2>5. KeptIn(img, out, tag, v)
    BY <1>1, <2>2, <2>4, TagsAreKept
  <2>6. DOMAIN out = OutBytes
    BY <1>1
  <2> HIDE DEF img
  <2>7. /\ GetInt(img, tag) = Wrapped(v, type)
        /\ TypeSize[type] = 4 =>
             \A i \in 1 .. 4 : img[off + i - 1] = ToBytes(v, 4)[Layout[order][i]]
        /\ \A b \in OutBytes \ (off .. off + TypeSize[type] - 1) : img[b] = out[b]
    BY <2>1, <2>5, <2>6 DEF KeptIn
  <2> QED
    BY <2>7 DEF img, tag
<1> QED
  BY <1>2 DEF ImageKeepsTags

\* The same of the image the drive is enabled with, as the run checks it.
THEOREM ImageIsTrue == Bytes256 => (Spec => []ImageKeepsTags)
<1> SUFFICES ASSUME Bytes256 PROVE Spec => []ImageKeepsTags
  OBVIOUS
<1>1. Spec => []PathInv
  BY PathHolds
<1>2. PathInv => ImageKeepsTags
  BY ImageHolds
<1> QED
  BY <1>1, <1>2, PTL
==============================================================================
