----------------------------- MODULE Wire_proofs -----------------------------
(***************************************************************************)
(* What the conversions of Wire do to every file size.                     *)
(***************************************************************************)
EXTENDS Wire, TLAPS

(* One byte of an int, and what is left of it. *)
LEMMA SplitByte ==
  ASSUME NEW n \in Nat
  PROVE  /\ n \div 256 \in Nat /\ n % 256 \in 0..255
         /\ n = 256 * (n \div 256) + (n % 256)
BY SMT

(* Shifting twice by eight bits is shifting by sixteen, and so on. *)
LEMMA ShiftTwice ==
  ASSUME NEW n \in Nat
  PROVE  /\ n \div 65536 = (n \div 256) \div 256
         /\ n \div 16777216 = ((n \div 256) \div 256) \div 256
BY SMT

(* serialize_int writes four chars; read as unsigned they are the size. *)
LEMMA SerializedBytes ==
  ASSUME NEW size \in FileSize
  PROVE  /\ SerializeInt(size) \in FourBytes
         /\ Deserialze(SerializeInt(size)) = size
         /\ SerializeInt(size)[4] < 128
<1> DEFINE a == size % 256
           q == size \div 256
           b == q % 256
           r == q \div 256
           c == r % 256
           d == r \div 256
<1>1. size \in Nat /\ size <= 2147483643
  BY SMT DEF FileSize
<1>2. /\ q \in Nat /\ a \in 0..255 /\ size = 256 * q + a
      /\ r \in Nat /\ b \in 0..255 /\ q = 256 * r + b
      /\ d \in Nat /\ c \in 0..255 /\ r = 256 * d + c
  BY SMT, <1>1, SplitByte
<1>3. size \div 65536 = r /\ size \div 16777216 = d
  BY SMT, <1>1, ShiftTwice
<1> HIDE DEF a, b, c, d, q, r
<1>4. d < 128 /\ d % 256 = d
  BY SMT, <1>1, <1>2
<1>5. SerializeInt(size) = <<a, b, c, d>>
  BY SMT, <1>3, <1>4 DEF SerializeInt, a, b, c, q
<1>6. SerializeInt(size) \in FourBytes
  BY SMT, <1>2, <1>4, <1>5 DEF FourBytes, Byte
<1>7. /\ SerializeInt(size)[1] = a /\ SerializeInt(size)[2] = b
      /\ SerializeInt(size)[3] = c /\ SerializeInt(size)[4] = d
  BY SMT, <1>5
<1>8. Deserialze(SerializeInt(size)) = a + 256 * b + 65536 * c + 16777216 * d
  BY SMT, <1>7 DEF Deserialze
<1> QED
  BY SMT, <1>2, <1>4, <1>6, <1>7, <1>8

(* The four bytes deserialize_int puts together, sign bits smeared upwards. *)
LEMMA SmearedBytes ==
  ASSUME NEW in \in FourBytes
  PROVE  /\ Smeared(in, 1) = in[1]
         /\ Smeared(in, 2) = IF in[1] >= 128 THEN 255 ELSE in[2]
         /\ Smeared(in, 3) = IF in[1] >= 128 \/ in[2] >= 128 THEN 255 ELSE in[3]
         /\ Smeared(in, 4) = IF in[1] >= 128 \/ in[2] >= 128 \/ in[3] >= 128 THEN 255 ELSE in[4]
         /\ \A k \in 1..4 : in[k] \in 0..255
<1>1. \A k \in 1..4 : in[k] \in 0..255
  BY SMT DEF FourBytes, Byte
<1>2. Smeared(in, 1) = in[1]
  BY SMT DEF Smeared
<1>3. Smeared(in, 2) = IF in[1] >= 128 THEN 255 ELSE in[2]
  BY SMT DEF Smeared
<1>4. Smeared(in, 3) = IF in[1] >= 128 \/ in[2] >= 128 THEN 255 ELSE in[3]
  BY SMT DEF Smeared
<1>5. Smeared(in, 4) = IF in[1] >= 128 \/ in[2] >= 128 \/ in[3] >= 128 THEN 255 ELSE in[4]
  BY SMT DEF Smeared
<1> QED
  BY SMT, <1>1, <1>2, <1>3, <1>4, <1>5

(* A size whose low three bytes have no top bit set is read back.  One that  *)
(* has is read as a negative number, of at least -4 iff its low byte is at   *)
(* least 252.                                                                *)
THEOREM SizeReadByCore ==
  ASSUME NEW size \in FileSize
  PROVE  LET val == DeserializeInt(SerializeInt(size))
         IN  /\ val \in Int
             /\ ReadBack(size) => val = size
             /\ ~ReadBack(size) => val < 0
             /\ ~ReadBack(size) /\ size % 256 >= 252 => val = (size % 256) - 256
             /\ ~ReadBack(size) /\ size % 256 < 252 => val < -4
<1> DEFINE in == SerializeInt(size)
           val == DeserializeInt(in)
<1>1. /\ in \in FourBytes /\ in[4] < 128
      /\ in[1] + 256 * in[2] + 65536 * in[3] + 16777216 * in[4] = size
  BY SMT, SerializedBytes DEF Deserialze
<1>2. in[1] = size % 256
  BY SMT DEF SerializeInt
<1>3. ReadBack(size) <=> in[1] < 128 /\ in[2] < 128 /\ in[3] < 128
  BY SMT DEF ReadBack
<1> HIDE DEF in
<1>4. val = Smeared(in, 1) + 256 * Smeared(in, 2) + 65536 * Smeared(in, 3)
            + 16777216 * (IF Smeared(in, 4) >= 128 THEN Smeared(in, 4) - 256 ELSE Smeared(in, 4))
  BY SMT DEF DeserializeInt, SignedChar
<1> HIDE DEF val
<1>5. PICK a \in 0..255, b \in 0..255, c \in 0..255, d \in 0..127 :
        in[1] = a /\ in[2] = b /\ in[3] = c /\ in[4] = d
  <2>1. in[1] \in 0..255 /\ in[2] \in 0..255 /\ in[3] \in 0..255 /\ in[4] \in 0..127
    BY SMT, <1>1, SmearedBytes
  <2> QED
    BY <2>1, Zenon
<1>6. /\ Smeared(in, 1) = a
      /\ Smeared(in, 2) = IF a >= 128 THEN 255 ELSE b
      /\ Smeared(in, 3) = IF a >= 128 \/ b >= 128 THEN 255 ELSE c
      /\ Smeared(in, 4) = IF a >= 128 \/ b >= 128 \/ c >= 128 THEN 255 ELSE d
  BY SMT, <1>1, <1>5, SmearedBytes
<1> DEFINE b2 == Smeared(in, 2)
           c2 == Smeared(in, 3)
           d2 == Smeared(in, 4)
<1>7. /\ b2 = IF a >= 128 THEN 255 ELSE b
      /\ c2 = IF a >= 128 \/ b >= 128 THEN 255 ELSE c
      /\ d2 = IF a >= 128 \/ b >= 128 \/ c >= 128 THEN 255 ELSE d
      /\ val = a + 256 * b2 + 65536 * c2 + 16777216 * (IF d2 >= 128 THEN d2 - 256 ELSE d2)
  BY SMT, <1>4, <1>6
<1> HIDE DEF b2, c2, d2
<1>8. /\ val \in Int
      /\ a < 128 /\ b < 128 /\ c < 128 => val = a + 256 * b + 65536 * c + 16777216 * d
      /\ a >= 128 => val = a - 256
      /\ a < 128 /\ (b >= 128 \/ c >= 128) => val < -4
  <2>1. CASE a >= 128
    BY SMT, <1>7, <2>1
  <2>2. CASE a < 128 /\ b >= 128
    BY SMT, <1>7, <2>2
  <2>3. CASE a < 128 /\ b < 128 /\ c >= 128
    BY SMT, <1>7, <2>3
  <2>4. CASE a < 128 /\ b < 128 /\ c < 128
    BY SMT, <1>7, <2>4
  <2> QED
    BY SMT, <2>1, <2>2, <2>3, <2>4
<1>9. ReadBack(size) <=> a < 128 /\ b < 128 /\ c < 128
  BY SMT, <1>3, <1>5
<1>10. size % 256 = a /\ size = a + 256 * b + 65536 * c + 16777216 * d
  BY SMT, <1>1, <1>2, <1>5
<1>11. /\ ReadBack(size) => val = size
       /\ ~ReadBack(size) => val < 0
       /\ ~ReadBack(size) /\ size % 256 >= 252 => val = (size % 256) - 256
       /\ ~ReadBack(size) /\ size % 256 < 252 => val < -4
  BY SMT, <1>8, <1>9, <1>10
<1> QED
  BY <1>11, <1>8 DEF in, val

(* The number of bytes Server::Core copies: a copy of at least the four size *)
(* bytes is a copy of the whole buffer.                                      *)
COROLLARY CopiedWhole ==
  ASSUME NEW size \in FileSize, DeserializeInt(SerializeInt(size)) + 4 >= 4
  PROVE  ReadBack(size)
BY SMT, SizeReadByCore
=============================================================================
