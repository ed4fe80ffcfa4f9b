------------------------------ MODULE WireSteps ------------------------------
(***************************************************************************)
(* Server::deserialize_int as it runs: four |= of a shifted char into an   *)
(* int, on the bits themselves.  Bit 31 of an int is its sign.             *)
(***************************************************************************)
EXTENDS Wire

CONSTANT Sizes            \* the file sizes written into the four bytes

ASSUME SizesAssumption == Sizes \subseteq FileSize

VARIABLES size,           \* what Client::serialize_int wrote
          in,             \* the four chars
          j,              \* the next one to be read, 5 at the end
          val             \* the bits set in val

vars == <<size, in, j, val>>

\* Bit k of a char, what the bits of one are worth.
Place == <<1, 2, 4, 8, 16, 32, 64, 128>>
Bits(b) == {k \in 0..7 : (b \div Place[k + 1]) % 2 = 1}

\* Variant: an unsigned char, as in uchar* recv_buf.
PromotedUnsigned(b) == Bits(b)

\* The bits of the int a char is promoted to.
Promoted(b) == Bits(b) \cup (IF b >= 128 THEN 8..31 ELSE {})

Shifted(bits, n) == {k \in n..31 : k - n \in bits}

Init == /\ size \in Sizes /\ in = SerializeInt(size)
        /\ j = 1 /\ val = {}

ReadChar == /\ j <= 4
            /\ val' = val \cup Shifted(Promoted(in[j]), 8 * (j - 1))
            /\ j' = j + 1
            /\ UNCHANGED <<size, in>>

Spec == Init /\ [][ReadChar]_vars

\* The int with these bits, two's complement: four times eight of them.
Octet(bits, n) ==
  LET bit(k) == IF n + k \in bits THEN 1 ELSE 0
  IN  bit(0) + 2 * bit(1) + 4 * bit(2) + 8 * bit(3) + 16 * bit(4) + 32 * bit(5) + 64 * bit(6) + 128 * bit(7)
IntOf(bits) == Octet(bits, 0) + 256 * Octet(bits, 8) + 65536 * Octet(bits, 16)
               + 16777216 * SignedChar(Octet(bits, 24))

\* The closed form the other modules use is what the loop of |= computes.
ClosedForm == j = 5 => IntOf(val) = DeserializeInt(in)

\* total_bytes + 4, the count of the memcpy into file_mapping: the whole buffer
\* if the size is read back; else 0 to 3 bytes if its low byte is at least 252,
\* and else a negative count.  ProcessMessage reads any size as it was written.
MemcpyCount ==
  j = 5 => LET n == IntOf(val) + 4
           IN  /\ Deserialze(in) = size
               /\ ReadBack(size) => n = size + 4
               /\ ~ReadBack(size) /\ size % 256 >= 252 => n = (size % 256) - 252
               /\ ~ReadBack(size) /\ size % 256 < 252 => n < 0
=============================================================================
