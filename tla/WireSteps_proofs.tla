-------------------------- MODULE WireSteps_proofs --------------------------
(***************************************************************************)
(* The loop of deserialize_int computes DeserializeInt, for every size.    *)
(***************************************************************************)
EXTENDS WireSteps, Wire_proofs

(* The bits set so far: those of the chars read, promoted and shifted. *)
Gathered ==
  \A k \in 0..31 :
    k \in val <=> \E i \in 1..(j - 1) : k >= 8 * (i - 1) /\ k - 8 * (i - 1) \in Promoted(in[i])

IInv == /\ size \in FileSize /\ in = SerializeInt(size) /\ in \in FourBytes
        /\ j \in 1..5 /\ val \subseteq 0..31
        /\ Gathered

(* What is left of a number when its lowest bits are taken off. *)
LEMMA Halves ==
  ASSUME NEW n \in Nat
  PROVE  /\ n \div 2 \in Nat /\ n % 2 \in 0..1 /\ n = 2 * (n \div 2) + (n % 2)
         /\ n \div 4 = (n \div 2) \div 2 /\ n \div 8 = (n \div 4) \div 2 /\ n \div 16 = (n \div 8) \div 2
         /\ n \div 32 = (n \div 16) \div 2 /\ n \div 64 = (n \div 32) \div 2
         /\ n \div 128 = (n \div 64) \div 2 /\ n \div 1 = n
BY SMT

(* A char is the sum of its bits. *)
LEMMA SumOfBits ==
  ASSUME NEW b \in Byte
  PROVE  b = (b % 2) + 2 * ((b \div 2) % 2) + 4 * ((b \div 4) % 2) + 8 * ((b \div 8) % 2)
             + 16 * ((b \div 16) % 2) + 32 * ((b \div 32) % 2) + 64 * ((b \div 64) % 2)
             + 128 * ((b \div 128) % 2)
<1> DEFINE b1 == b \div 2
           b2 == b \div 4
           b3 == b \div 8
           b4 == b \div 16
           b5 == b \div 32
           b6 == b \div 64
           b7 == b \div 128
           b8 == b7 \div 2
<1>1. b \in Nat /\ b < 256
  BY SMT DEF Byte
<1>2. /\ b1 \in Nat /\ b = 2 * b1 + (b % 2) /\ b % 2 \in 0..1
      /\ b2 = b1 \div 2 /\ b3 = b2 \div 2 /\ b4 = b3 \div 2 /\ b5 = b4 \div 2
      /\ b6 = b5 \div 2 /\ b7 = b6 \div 2
  BY <1>1, Halves
<1> HIDE DEF b1, b2, b3, b4, b5, b6, b7
<1>3. b2 \in Nat /\ b1 = 2 * b2 + (b1 % 2) /\ b1 % 2 \in 0..1
  BY <1>2, Halves
<1>4. b3 \in Nat /\ b2 = 2 * b3 + (b2 % 2) /\ b2 % 2 \in 0..1
  BY <1>2, <1>3, Halves
<1>5. b4 \in Nat /\ b3 = 2 * b4 + (b3 % 2) /\ b3 % 2 \in 0..1
  BY <1>2, <1>4, Halves
<1>6. b5 \in Nat /\ b4 = 2 * b5 + (b4 % 2) /\ b4 % 2 \in 0..1
  BY <1>2, <1>5, Halves
<1>7. b6 \in Nat /\ b5 = 2 * b6 + (b5 % 2) /\ b5 % 2 \in 0..1
  BY <1>2, <1>6, Halves
<1>8. b7 \in Nat /\ b6 = 2 * b7 + (b6 % 2) /\ b6 % 2 \in 0..1
  BY <1>2, <1>7, Halves
<1>9. b8 \in Nat /\ b7 = 2 * b8 + (b7 % 2) /\ b7 % 2 \in 0..1
  BY <1>2, <1>8, Halves
<1> HIDE DEF b8
<1> DEFINE r0 == b % 2
           r1 == b1 % 2
           r2 == b2 % 2
           r3 == b3 % 2
           r4 == b4 % 2
           r5 == b5 % 2
           r6 == b6 % 2
           r7 == b7 % 2
<1>10. /\ b = 2 * b1 + r0 /\ b1 = 2 * b2 + r1 /\ b2 = 2 * b3 + r2 /\ b3 = 2 * b4 + r3
       /\ b4 = 2 * b5 + r4 /\ b5 = 2 * b6 + r5 /\ b6 = 2 * b7 + r6 /\ b7 = 2 * b8 + r7
       /\ r0 \in 0..1 /\ r1 \in 0..1 /\ r2 \in 0..1 /\ r3 \in 0..1
       /\ r4 \in 0..1 /\ r5 \in 0..1 /\ r6 \in 0..1 /\ r7 \in 0..1
       /\ b \in Nat /\ b < 256 /\ b1 \in Nat /\ b2 \in Nat /\ b3 \in Nat /\ b4 \in Nat
       /\ b5 \in Nat /\ b6 \in Nat /\ b7 \in Nat /\ b8 \in Nat
  BY <1>1, <1>2, <1>3, <1>4, <1>5, <1>6, <1>7, <1>8, <1>9, Zenon
<1> HIDE DEF r0, r1, r2, r3, r4, r5, r6, r7
<1>11. b1 < 128 /\ b2 < 64 /\ b3 < 32
  BY SMT, <1>10
<1>12. b4 < 16 /\ b5 < 8 /\ b6 < 4
  BY SMT, <1>10, <1>11
<1>13. b7 < 2 /\ b8 = 0
  BY SMT, <1>10, <1>12
<1>14. b = r0 + 2 * r1 + 4 * r2 + 8 * r3 + 16 * b4 /\ b4 = r4 + 2 * r5 + 4 * r6 + 8 * r7
  BY SMT, <1>10, <1>13
<1>15. b = r0 + 2 * r1 + 4 * r2 + 8 * r3 + 16 * r4 + 32 * r5 + 64 * r6 + 128 * r7
  BY SMT, <1>10, <1>14
<1> QED
  BY <1>15 DEF r0, r1, r2, r3, r4, r5, r6, r7, b1, b2, b3, b4, b5, b6, b7

(* The bits a char is promoted to: its own, and the sign in all above. *)
LEMMA PromotedBits ==
  ASSUME NEW b \in Byte, NEW k \in 0..31
  PROVE  /\ k <= 7 => (k \in Promoted(b) <=> k \in Bits(b))
         /\ k > 7 => (k \in Promoted(b) <=> b >= 128)
BY SMT DEF Promoted, Bits

(* Eight bits that are those of a char, or all set, make it or 255. *)
LEMMA OctetOfByte ==
  ASSUME NEW bits, NEW n, NEW b \in Byte,
         \A k \in 0..7 : n + k \in bits <=> k \in Bits(b)
  PROVE  Octet(bits, n) = b
<1> DEFINE bit(k) == IF n + k \in bits THEN 1 ELSE 0
<1>1. \A k \in 0..7 : k \in Bits(b) <=> (b \div Place[k + 1]) % 2 = 1
  BY Zenon DEF Bits
<1>2. b \in Nat
  BY SMT DEF Byte
<1>3. /\ b % 2 \in 0..1 /\ (b \div 2) % 2 \in 0..1 /\ (b \div 4) % 2 \in 0..1 /\ (b \div 8) % 2 \in 0..1
      /\ (b \div 16) % 2 \in 0..1 /\ (b \div 32) % 2 \in 0..1 /\ (b \div 64) % 2 \in 0..1
      /\ (b \div 128) % 2 \in 0..1
  BY SMT, <1>2
<1>4. b \div 1 = b
  BY SMT, <1>2
<1>5. /\ Place[1] = 1 /\ Place[2] = 2 /\ Place[3] = 4 /\ Place[4] = 8
      /\ Place[5] = 16 /\ Place[6] = 32 /\ Place[7] = 64 /\ Place[8] = 128
  BY SMT DEF Place
<1>6. /\ n + 0 \in bits <=> b % 2 = 1
      /\ n + 1 \in bits <=> (b \div 2) % 2 = 1
      /\ n + 2 \in bits <=> (b \div 4) % 2 = 1
      /\ n + 3 \in bits <=> (b \div 8) % 2 = 1
      /\ n + 4 \in bits <=> (b \div 16) % 2 = 1
      /\ n + 5 \in bits <=> (b \div 32) % 2 = 1
      /\ n + 6 \in bits <=> (b \div 64) % 2 = 1
      /\ n + 7 \in bits <=> (b \div 128) % 2 = 1
  BY SMT, <1>1, <1>4, <1>5
<1>7. /\ bit(0) = b % 2 /\ bit(1) = (b \div 2) % 2 /\ bit(2) = (b \div 4) % 2 /\ bit(3) = (b \div 8) % 2
      /\ bit(4) = (b \div 16) % 2 /\ bit(5) = (b \div 32) % 2 /\ bit(6) = (b \div 64) % 2
      /\ bit(7) = (b \div 128) % 2
  BY SMT, <1>3, <1>6
<1>8. Octet(bits, n) = bit(0) + 2 * bit(1) + 4 * bit(2) + 8 * bit(3) + 16 * bit(4) + 32 * bit(5)
                       + 64 * bit(6) + 128 * bit(7)
  BY DEF Octet
<1> HIDE DEF bit
<1> QED
  BY <1>7, <1>8, SumOfBits

LEMMA OctetOfSign ==
  ASSUME NEW bits, NEW n, \A k \in 0..7 : n + k \in bits
  PROVE  Octet(bits, n) = 255
<1>1. /\ n + 0 \in bits /\ n + 1 \in bits /\ n + 2 \in bits /\ n + 3 \in bits
      /\ n + 4 \in bits /\ n + 5 \in bits /\ n + 6 \in bits /\ n + 7 \in bits
  BY SMT
<1> QED
  BY SMT, <1>1 DEF Octet

(* Each eight bits gathered are the char or the sign of one below it. *)
LEMMA OctetSmeared ==
  ASSUME IInv, j = 5, NEW i \in 1..4
  PROVE  Octet(val, 8 * (i - 1)) = Smeared(in, i)
<1> DEFINE n == 8 * (i - 1)
<1>1. \A h \in 1..4 : in[h] \in Byte
  BY SMT DEF IInv, FourBytes
<1>2. ASSUME NEW k \in 0..7
      PROVE  n + k \in val <=> \E h \in 1..4 : n + k >= 8 * (h - 1) /\ n + k - 8 * (h - 1) \in Promoted(in[h])
  BY SMT DEF IInv, Gathered
<1>3. ASSUME NEW k \in 0..7, NEW h \in 1..4
      PROVE  (n + k >= 8 * (h - 1) /\ n + k - 8 * (h - 1) \in Promoted(in[h]))
             <=> (h < i /\ in[h] >= 128) \/ (h = i /\ k \in Bits(in[i]))
  <2>1. CASE h < i
    <3>1. n + k - 8 * (h - 1) \in 0..31 /\ n + k - 8 * (h - 1) > 7 /\ n + k >= 8 * (h - 1)
      BY SMT, <2>1
    <3>2. h # i
      BY SMT, <2>1
    <3> QED
      BY <1>1, <2>1, <3>1, <3>2, PromotedBits, Zenon
  <2>2. CASE h = i
    <3>1. n + k - 8 * (h - 1) = k /\ k \in 0..31 /\ k <= 7 /\ n + k >= 8 * (h - 1) /\ ~(h < i)
      BY SMT, <2>2
    <3>2. k \in Promoted(in[i]) <=> k \in Bits(in[i])
      BY <1>1, <3>1, PromotedBits
    <3> QED
      BY <2>2, <3>1, <3>2, Zenon
  <2>3. CASE h > i
    <3>1. ~(n + k >= 8 * (h - 1)) /\ ~(h < i) /\ h # i
      BY SMT, <2>3
    <3> QED
      BY <3>1, Zenon
  <2> QED
    BY SMT, <2>1, <2>2, <2>3
<1>4. ASSUME NEW k \in 0..7
      PROVE  n + k \in val <=> (\E h \in 1..4 : h < i /\ in[h] >= 128) \/ k \in Bits(in[i])
  BY <1>2, <1>3, Zenon
<1>5. CASE \E h \in 1..4 : h < i /\ in[h] >= 128
  <2>1. Smeared(in, i) = 255
    BY SMT, <1>5 DEF Smeared
  <2>2. \A k \in 0..7 : n + k \in val
    BY <1>4, <1>5, Zenon
  <2> QED
    BY <2>1, <2>2, OctetOfSign, Zenon
<1>6. CASE ~\E h \in 1..4 : h < i /\ in[h] >= 128
  <2>1. Smeared(in, i) = in[i]
    BY SMT, <1>6 DEF Smeared
  <2>2. \A k \in 0..7 : n + k \in val <=> k \in Bits(in[i])
    BY <1>4, <1>6, Zenon
  <2> QED
    BY <1>1, <2>1, <2>2, OctetOfByte, Zenon
<1> QED
  BY <1>5, <1>6

(* One more char: its bits are added, those gathered stay. *)
LEMMA ReadCharStep ==
  ASSUME IInv, ReadChar
  PROVE  IInv'
<1>1. /\ j \in 1..4 /\ j' = j + 1 /\ in' = in /\ size' = size
      /\ val' = val \cup Shifted(Promoted(in[j]), 8 * (j - 1))
  BY SMT DEF IInv, ReadChar
<1>2. val' \subseteq 0..31
  <2>1. 8 * (j - 1) >= 0 /\ 8 * (j - 1) \in Int
    BY SMT, <1>1
  <2>2. Shifted(Promoted(in[j]), 8 * (j - 1)) \subseteq (8 * (j - 1))..31
    BY Zenon DEF Shifted
  <2>3. (8 * (j - 1))..31 \subseteq 0..31
    BY SMT, <2>1
  <2> QED
    BY <1>1, <2>2, <2>3, Zenon DEF IInv
<1>3. ASSUME NEW k \in 0..31
      PROVE  k \in val' <=> \E i \in 1..(j' - 1) : k >= 8 * (i - 1) /\ k - 8 * (i - 1) \in Promoted(in'[i])
  <2>1. k \in val <=> \E i \in 1..(j - 1) : k >= 8 * (i - 1) /\ k - 8 * (i - 1) \in Promoted(in[i])
    BY Zenon DEF IInv, Gathered
  <2>2. k \in Shifted(Promoted(in[j]), 8 * (j - 1)) <=> k >= 8 * (j - 1) /\ k - 8 * (j - 1) \in Promoted(in[j])
    <3>1. k \in (8 * (j - 1))..31 <=> k >= 8 * (j - 1)
      BY SMT, <1>1
    <3> QED
      BY <3>1, Zenon DEF Shifted
  <2>3. \A i : i \in 1..(j' - 1) <=> i \in 1..(j - 1) \/ i = j
    BY SMT, <1>1
  <2> QED
    BY <1>1, <2>1, <2>2, <2>3, Zenon
<1>4. Gathered'
  BY <1>3, Zenon DEF Gathered
<1>5. j' \in 1..5
  BY SMT, <1>1
<1> QED
  BY <1>1, <1>2, <1>4, <1>5, Zenon DEF IInv

LEMMA Gathering == Spec => []IInv
<1>1. Init => IInv
  <2> SUFFICES ASSUME Init PROVE IInv
    OBVIOUS
  <2>1. size \in FileSize
    BY SizesAssumption DEF Init
  <2>2. j = 1 /\ val = {} /\ in = SerializeInt(size) /\ in \in FourBytes
    BY <2>1, SerializedBytes DEF Init
  <2>3. 1..(j - 1) = {} /\ j \in 1..5
    BY SMT, <2>2
  <2> QED
    BY <2>1, <2>2, <2>3, Zenon DEF IInv, Gathered
<1>2. IInv /\ [ReadChar]_vars => IInv'
  <2>1. IInv /\ UNCHANGED vars => IInv'
    BY Zenon DEF IInv, Gathered, vars
  <2> QED
    BY <2>1, ReadCharStep
<1> QED
  BY <1>1, <1>2, PTL DEF Spec

(* Server.cpp:184: the four |= compute the closed form the other modules     *)
(* use for what Core reads back, for every file size.                        *)
THEOREM LoopCorrect == Spec => []ClosedForm
<1>1. IInv => ClosedForm
  <2> SUFFICES ASSUME IInv, j = 5 PROVE IntOf(val) = DeserializeInt(in)
    BY DEF ClosedForm
  <2>1. /\ 8 * (1 - 1) = 0 /\ 8 * (2 - 1) = 8 /\ 8 * (3 - 1) = 16 /\ 8 * (4 - 1) = 24
        /\ 1 \in 1..4 /\ 2 \in 1..4 /\ 3 \in 1..4 /\ 4 \in 1..4
    BY SMT
  <2>2. /\ Octet(val, 0) = Smeared(in, 1) /\ Octet(val, 8) = Smeared(in, 2)
        /\ Octet(val, 16) = Smeared(in, 3) /\ Octet(val, 24) = Smeared(in, 4)
    BY <2>1, OctetSmeared
  <2> QED
    BY <2>2 DEF IntOf, DeserializeInt
<1> QED
  BY <1>1, Gathering, PTL

(* The count of the memcpy into file-mapping is the whole buffer, 0 to 3     *)
(* bytes or negative, as the bits of the low three bytes say; ProcessMessage *)
(* reads the size back whatever it is.                                       *)
THEOREM CountCorrect == Spec => []MemcpyCount
<1>1. IInv /\ ClosedForm => MemcpyCount
  <2> SUFFICES ASSUME IInv, ClosedForm, j = 5
               PROVE  LET n == IntOf(val) + 4
                      IN  /\ Deserialze(in) = size
                          /\ ReadBack(size) => n = size + 4
                          /\ ~ReadBack(size) /\ size % 256 >= 252 => n = (size % 256) - 252
                          /\ ~ReadBack(size) /\ size % 256 < 252 => n < 0
    BY DEF MemcpyCount
  <2>1. size \in FileSize /\ size \in Nat /\ IntOf(val) = DeserializeInt(SerializeInt(size))
        /\ Deserialze(in) = size
    BY SerializedBytes DEF IInv, ClosedForm, FileSize
  <2> DEFINE v == IntOf(val)
  <2>2. /\ v \in Int
        /\ ReadBack(size) => v = size
        /\ ~ReadBack(size) /\ size % 256 >= 252 => v = (size % 256) - 256
        /\ ~ReadBack(size) /\ size % 256 < 252 => v < -4
    BY <2>1, SizeReadByCore
  <2> HIDE DEF v
  <2>3. size % 256 \in Int
    BY SMT, <2>1
  <2>4. /\ ReadBack(size) => v + 4 = size + 4
        /\ ~ReadBack(size) /\ size % 256 >= 252 => v + 4 = (size % 256) - 252
        /\ ~ReadBack(size) /\ size % 256 < 252 => v + 4 < 0
    BY SMT, <2>1, <2>2, <2>3
  <2> QED
    BY <2>1, <2>4 DEF v
<1> QED
  BY <1>1, Gathering, LoopCorrect, PTL
=============================================================================
