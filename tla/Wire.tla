-------------------------------- MODULE Wire --------------------------------
(***************************************************************************)
(* The byte conversions of the server and of the recognition process.      *)
(* A buffer of four C chars is a sequence of four numbers 0..255; the code *)
(* is built for Win32, where char is signed and size_t has four bytes.     *)
(***************************************************************************)
EXTENDS Integers, Sequences

\* What four chars hold, and the ints a file size can be.  0xffffffff file
\* sizes never get here: new uchar[total_bytes + 4] fails first.
Byte == 0..255
FourBytes == [1..4 -> Byte]
FileSize == {n \in Nat : n <= 2147483643}

\* Variant: a shift too short for the third byte.
SerializeIntShort(val) == << val % 256,
                             (val \div 256) % 256,
                             (val \div 32768) % 256,
                             (val \div 16777216) % 256 >>

\* Server::serialize_int and Client::serialize_int: byte j is bits 8j-8..8j-1.
SerializeInt(val) == << val % 256,
                        (val \div 256) % 256,
                        (val \div 65536) % 256,
                        (val \div 16777216) % 256 >>

\* A char promoted to int keeps its sign.
SignedChar(b) == IF b >= 128 THEN b - 256 ELSE b

\* val |= in[j] << 8*(j-1): a char with its top bit set is promoted to a
\* negative int, whose sign bits cover every byte above its own.  So byte j of
\* the result is 255 if a lower byte had its top bit set, else the byte itself.
Smeared(in, j) == IF \E i \in 1..(j - 1) : in[i] >= 128 THEN 255 ELSE in[j]

\* Server::deserialize_int, the bytes assembled as a two's complement int.
DeserializeInt(in) == Smeared(in, 1)
                      + 256 * Smeared(in, 2)
                      + 65536 * Smeared(in, 3)
                      + 16777216 * SignedChar(Smeared(in, 4))

\* deserialze<size_t>(p, 4, val): memcpy of the four bytes, nothing promoted.
Deserialze(in) == in[1] + 256 * in[2] + 65536 * in[3] + 16777216 * in[4]

\* The sizes Server::Core reads back as they are: the low three bytes have
\* their top bits clear.
ReadBack(size) == \A j \in 1..3 : SerializeInt(size)[j] < 128
=============================================================================
