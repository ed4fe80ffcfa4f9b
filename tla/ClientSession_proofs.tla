------------------------- MODULE ClientSession_proofs -------------------------
(***************************************************************************)
(* Proofs about one connection, for all files a client can send, any       *)
(* lengths of frames and packages, and, where the network keeps what is    *)
(* sent apart, any number of files and of ALIVEs in any order.             *)
(*                                                                         *)
(* Nothing on the wire says which file a thing sent belongs to, and a      *)
(* frame can hold the bytes of a command.  So the invariant says that the  *)
(* things not read yet CAN be numbered: file[p] and item[p] are the file   *)
(* of the p-th and its place in it, and place 0 is what was read last.     *)
(***************************************************************************)
EXTENDS ClientSession, Wire_proofs, SequenceTheorems, TLAPS

------------------------------------------------------------------------------
(* The inductive invariant. *)

\* A file is its command, item 0, and its frames; the ALIVEs behind it are all
\* the item after them.  "file 0" is what came before the first.
Items(fs, j) == IF j = 0 THEN 0 ELSE Frames(fs[j])
SizesOf(f) == Command(FILE \o SerializeInt(Len(f.bytes)) \o SerializeInt(f.frame))
Thing(fs, j, i) == IF i = 0 THEN SizesOf(fs[j])
                   ELSE IF i <= Items(fs, j) THEN Frame(fs[j], i - 1) ELSE Command(ALIVE)

Follows(fs, j, i, j2, i2) ==
  IF i < Items(fs, j) THEN j2 = j /\ i2 = i + 1
                      ELSE \/ j2 = j + 1 /\ i2 = 0
                           \/ j2 = j /\ i2 = Items(fs, j) + 1

Numbered(fs, things, file, item) ==
  /\ file \in [0..Len(things) -> Nat] /\ item \in [0..Len(things) -> Nat]
  /\ \A p \in 0..Len(things) : /\ file[p] <= Len(fs) /\ item[p] <= Items(fs, file[p]) + 1
                               /\ file[p] = 0 => item[p] > 0
  /\ \A p \in 1..Len(things) : /\ things[p] = Thing(fs, file[p], item[p])
                               /\ Follows(fs, file[p - 1], item[p - 1], file[p], item[p])
  /\ file[Len(things)] = Len(fs) /\ item[Len(things)] >= Items(fs, Len(fs))

\* Item i of file j has been read last, and these things can come next.
Numberable(fs, things, j, i) ==
  \E file, item \in [0..Len(things) -> Nat] :
    Numbered(fs, things, file, item) /\ file[0] = j /\ item[0] = i

\* What has been read last is item i of file j, and handled if got is 0.
AtCommand(j, i) ==
  /\ op = "command"
  /\ IF got = 0 THEN i >= Items(files, j) /\ Len(posted) = j
     ELSE /\ i = 0 \/ i > Items(files, j)
          /\ Len(posted) = IF i = 0 THEN j - 1 ELSE j
          /\ got = Len(Thing(files, j, i))
          /\ \A k \in 1..got : data[k] = Thing(files, j, i)[k]

AtFrame(j, i) ==
  /\ op \in {"first frame", "frame"}
  /\ j > 0 /\ Len(posted) = j - 1
  /\ total_bytes = Len(files[j].bytes) /\ file_frame_bytes = files[j].frame
  /\ Len(data) = HEADER_LEN + files[j].frame
  /\ IF got = 0 THEN i < Items(files, j) /\ recv_bytes = i * files[j].frame
     ELSE /\ i > 0 /\ i <= Items(files, j) /\ recv_bytes = (i - 1) * files[j].frame
          /\ got = Len(data) /\ data = Thing(files, j, i)
  /\ \A k \in 1..recv_bytes : recv_file[k] = files[j].bytes[k]

At(j, i) == AtCommand(j, i) \/ AtFrame(j, i)

Ahead == stream \o toSend

InStep ==
  /\ Len(data) >= HEADER_LEN + COMMAND_LEN
  /\ \E j, i \in Nat : Numberable(files, Ahead, j, i) /\ At(j, i)

Whole == whole => ~overrun /\ FileReceived /\ (up /\ op # "none" => InStep)

\* The alive timer is started once, by the command that is the last one read.
Timed ==
  /\ timer # "unset" => op = "none"
  /\ timer \in {"unset", "set"} => ~writing /\ disconnects = 0
  /\ timer = "check" => disconnects = 0 \/ (disconnects = 1 /\ ~writing)
  /\ timer = "done" /\ writing => disconnects <= 1

------------------------------------------------------------------------------
(* The operators of the model. *)

(* The smaller of two numbers. *)
LEMMA SmallerOfTwo ==
  ASSUME NEW a \in Int, NEW b \in Int
  PROVE  /\ Min({a, b}) \in {a, b}
         /\ Min({a, b}) <= a /\ Min({a, b}) <= b
<1>1. \E x \in {a, b} : \A y \in {a, b} : x <= y
  <2>1. CASE a <= b
    BY SMT, <2>1
  <2>2. CASE b <= a
    BY SMT, <2>2
  <2> QED
    BY SMT, <2>1, <2>2
<1>2. Min({a, b}) \in {a, b} /\ \A y \in {a, b} : Min({a, b}) <= y
  BY <1>1, Zenon DEF Min
<1> QED
  BY <1>2, Zenon

(* At most the bound is begun, on a network that cuts at most one. *)
LEMMA BoundKept ==
  ASSUME NEW bound \in Nat
  PROVE  AtMost(bound) \in Int /\ AtMost(bound) <= bound
<1>1. Min({bound, 1}) \in {bound, 1} /\ Min({bound, 1}) <= bound
  BY SMT, SmallerOfTwo
<1> QED
  BY SMT, <1>1 DEF AtMost

(* A quotient rounded down, for a divisor that is no constant. *)
LEMMA Quotient ==
  ASSUME NEW a \in Nat, NEW b \in Nat, b > 0
  PROVE  /\ a \div b \in Nat
         /\ b * (a \div b) <= a /\ a < b * (a \div b) + b
BY SMT

(* A function on 1..n is a sequence of that length. *)
LEMMA SeqOfFunction ==
  ASSUME NEW S, NEW n \in Nat, NEW s \in [1..n -> S]
  PROVE  s \in Seq(S) /\ Len(s) = n
BY SMT

(* What is written as an int is four bytes, whatever number it is. *)
LEMMA SerializedSeq ==
  ASSUME NEW n \in Nat
  PROVE  SerializeInt(n) \in Seq(Byte) /\ Len(SerializeInt(n)) = 4
<1>1. /\ n % 256 \in Byte /\ (n \div 256) % 256 \in Byte
      /\ (n \div 65536) % 256 \in Byte /\ (n \div 16777216) % 256 \in Byte
  <2>1. n \div 256 \in Nat /\ n \div 65536 \in Nat /\ n \div 16777216 \in Nat
    BY SMT
  <2> QED
    BY SMT, <2>1, SplitByte DEF Byte
<1> QED
  BY SMT, <1>1 DEF SerializeInt

(* memcpy reads back every size a file can have. *)
LEMMA IntReadBack ==
  ASSUME NEW n \in FileSize, NEW in, \A k \in 1..4 : in[k] = SerializeInt(n)[k]
  PROVE  AsInt(in) = n
<1>1. /\ SerializeInt(n) \in FourBytes /\ SerializeInt(n)[4] < 128
      /\ Deserialze(SerializeInt(n)) = n
  BY SerializedBytes
<1>2. /\ in[1] = SerializeInt(n)[1] /\ in[2] = SerializeInt(n)[2]
      /\ in[3] = SerializeInt(n)[3] /\ in[4] = SerializeInt(n)[4]
  BY SMT
<1>3. SerializeInt(n)[4] \in 0..255
  BY SMT, <1>1 DEF FourBytes, Byte
<1>4. SignedChar(in[4]) = in[4]
  BY SMT, <1>1, <1>2, <1>3 DEF SignedChar
<1> QED
  BY SMT, <1>1, <1>2, <1>4 DEF AsInt, Deserialze

(* The header of a frame is read as its number or as a negative one. *)
LEMMA NumberReadBack ==
  ASSUME NEW n \in FileSize
  PROVE  DeserializeInt(SerializeInt(n)) = n \/ DeserializeInt(SerializeInt(n)) < 0
BY SMT, SizeReadByCore

(* What any four bytes are, as an int. *)
LEMMA IntOfBytes ==
  ASSUME NEW in \in FourBytes
  PROVE  AsInt(in) \in Int /\ DeserializeInt(in) \in Int
<1>1. \A k \in 1..4 : in[k] \in Int
  BY SMT DEF FourBytes, Byte
<1>2. \A j \in 1..4 : Smeared(in, j) \in Int
  BY SMT, <1>1 DEF Smeared
<1>3. \A b \in Int : SignedChar(b) \in Int
  BY SMT DEF SignedChar
<1>4. AsInt(in) \in Int
  BY SMT, <1>1, <1>3 DEF AsInt
<1>5. DeserializeInt(in) \in Int
  BY SMT, <1>2, <1>3 DEF DeserializeInt
<1> QED
  BY <1>4, <1>5

------------------------------------------------------------------------------
(* What a client sends. *)

(* A command is its body behind four bytes. *)
LEMMA CommandBytes ==
  ASSUME NEW body \in Seq(Byte)
  PROVE  /\ Command(body) \in Seq(Byte)
         /\ Len(Command(body)) = HEADER_LEN + Len(body)
         /\ \A k \in 1..Len(body) : Command(body)[HEADER_LEN + k] = body[k]
<1> DEFINE head == <<0, 0, 0, 0>>
<1>1. head \in Seq(Byte) /\ Len(head) = 4
  BY SMT DEF Byte
<1> HIDE DEF head
<1>2. /\ head \o body \in Seq(Byte)
      /\ Len(head \o body) = Len(head) + Len(body)
      /\ \A i \in 1..Len(head) + Len(body) :
           (head \o body)[i] = IF i <= Len(head) THEN head[i] ELSE body[i - Len(head)]
  BY <1>1, ConcatProperties, Zenon
<1>3. Len(body) \in Nat
  BY LenProperties
<1>4. \A k \in 1..Len(body) : (head \o body)[4 + k] = body[k]
  <2> TAKE k \in 1..Len(body)
  <2>1. 4 + k \in 1..Len(head) + Len(body) /\ ~(4 + k <= Len(head)) /\ (4 + k) - Len(head) = k
    BY SMT, <1>1, <1>3
  <2> QED
    BY <1>2, <2>1, Zenon
<1>5. Command(body) = head \o body
  BY Zenon DEF Command, head
<1> QED
  BY SMT, <1>1, <1>2, <1>4, <1>5 DEF HEADER_LEN

(* ALIVE is a command of nine bytes. *)
LEMMA AliveBytes ==
  /\ Command(ALIVE) \in Seq(Byte) /\ Len(Command(ALIVE)) = 9
  /\ \A k \in 1..5 : Command(ALIVE)[HEADER_LEN + k] = ALIVE[k]
<1>1. ALIVE \in Seq(Byte) /\ Len(ALIVE) = 5
  BY SMT DEF ALIVE, Byte
<1>2. /\ Command(ALIVE) \in Seq(Byte)
      /\ Len(Command(ALIVE)) = HEADER_LEN + Len(ALIVE)
      /\ \A k \in 1..Len(ALIVE) : Command(ALIVE)[HEADER_LEN + k] = ALIVE[k]
  BY <1>1, CommandBytes, Zenon
<1>3. Len(Command(ALIVE)) = 9
  BY SMT, <1>1, <1>2 DEF HEADER_LEN
<1> QED
  BY <1>1, <1>2, <1>3, Zenon

(* FILE is one of sixteen, the last eight the two sizes. *)
LEMMA FileBytes ==
  ASSUME NEW f \in File
  PROVE  /\ SizesOf(f) \in Seq(Byte) /\ Len(SizesOf(f)) = HEADER_LEN + COMMAND_LEN
         /\ \A k \in 1..4 : /\ SizesOf(f)[HEADER_LEN + k] = FILE[k]
                            /\ SizesOf(f)[8 + k] = SerializeInt(Len(f.bytes))[k]
                            /\ SizesOf(f)[12 + k] = SerializeInt(f.frame)[k]
<1> DEFINE total == SerializeInt(Len(f.bytes))
           frame == SerializeInt(f.frame)
           sizes == FILE \o total
           body  == sizes \o frame
<1>1. FILE \in Seq(Byte) /\ Len(FILE) = 4
  BY SMT DEF FILE, Byte
<1>2. Len(f.bytes) \in Nat /\ f.frame \in Nat
  BY SMT, SessionAssumption DEF FileSize
<1>3. /\ total \in Seq(Byte) /\ Len(total) = 4
      /\ frame \in Seq(Byte) /\ Len(frame) = 4
  BY <1>2, SerializedSeq
<1> HIDE DEF total, frame
<1>4. /\ sizes \in Seq(Byte) /\ Len(sizes) = Len(FILE) + Len(total)
      /\ \A i \in 1..Len(FILE) + Len(total) :
           sizes[i] = IF i <= Len(FILE) THEN FILE[i] ELSE total[i - Len(FILE)]
  BY <1>1, <1>3, ConcatProperties, Zenon
<1> HIDE DEF sizes
<1>5. /\ body \in Seq(Byte) /\ Len(body) = Len(sizes) + Len(frame)
      /\ \A i \in 1..Len(sizes) + Len(frame) :
           body[i] = IF i <= Len(sizes) THEN sizes[i] ELSE frame[i - Len(sizes)]
  <2>1. sizes \in Seq(Byte) /\ frame \in Seq(Byte)
    BY <1>3, <1>4
  <2> QED
    BY <2>1, ConcatProperties, Zenon
<1> HIDE DEF body
<1>6. Len(sizes) = 8 /\ Len(body) = 12
  BY SMT, <1>1, <1>3, <1>4, <1>5
<1>7. \A k \in 1..4 : sizes[k] = FILE[k] /\ sizes[4 + k] = total[k]
  BY SMT, <1>1, <1>3, <1>4
<1>8. \A k \in 1..4 : body[k] = FILE[k] /\ body[4 + k] = total[k] /\ body[8 + k] = frame[k]
  BY SMT, <1>3, <1>5, <1>6, <1>7
<1>9. SizesOf(f) = Command(body)
  BY Zenon DEF SizesOf, body, sizes, total, frame
<1>10. /\ Command(body) \in Seq(Byte) /\ Len(Command(body)) = 4 + Len(body)
       /\ \A k \in 1..Len(body) : Command(body)[4 + k] = body[k]
  BY <1>5, CommandBytes, Zenon DEF HEADER_LEN
<1>11. \A k \in 1..4 : /\ Command(body)[4 + k] = FILE[k]
                       /\ Command(body)[8 + k] = total[k]
                       /\ Command(body)[12 + k] = frame[k]
  BY SMT, <1>6, <1>8, <1>10
<1> QED
  BY SMT, <1>6, <1>9, <1>10, <1>11 DEF HEADER_LEN, COMMAND_LEN, total, frame

(* A frame is its number and as many bytes as every frame of the file has. *)
LEMMA FrameBytes ==
  ASSUME NEW f \in File, NEW i \in Nat
  PROVE  /\ Frame(f, i) \in Seq(Byte) /\ Len(Frame(f, i)) = HEADER_LEN + f.frame
         /\ \A k \in 1..4 : Frame(f, i)[k] = SerializeInt(i)[k]
         /\ \A k \in 1..f.frame : i * f.frame + k <= Len(f.bytes)
              => Frame(f, i)[HEADER_LEN + k] = f.bytes[i * f.frame + k]
<1> DEFINE head == SerializeInt(i)
           at == i * f.frame
           rest == [k \in 1..f.frame |-> IF at + k <= Len(f.bytes) THEN f.bytes[at + k] ELSE 0]
<1>1. /\ f.bytes \in Seq(Byte) /\ Len(f.bytes) \in Nat /\ f.frame \in Nat
      /\ head \in Seq(Byte) /\ Len(head) = 4
  BY SMT, SessionAssumption, SerializedSeq DEF FileSize
<1>2. at \in Nat
  BY SMT, <1>1
<1> HIDE DEF head, at
<1>3. rest \in Seq(Byte) /\ Len(rest) = f.frame
  <2>1. \A k \in 1..f.frame : at + k <= Len(f.bytes) => f.bytes[at + k] \in Byte
    <3> SUFFICES ASSUME NEW k \in 1..f.frame, at + k <= Len(f.bytes) PROVE f.bytes[at + k] \in Byte
      OBVIOUS
    <3>1. at + k \in 1..Len(f.bytes)
      BY SMT, <1>1, <1>2
    <3> QED
      BY <3>1, <1>1, ElementOfSeq
  <2>2. 0 \in Byte
    BY SMT DEF Byte
  <2>3. rest \in [1..f.frame -> Byte]
    BY <2>1, <2>2, Zenon
  <2> HIDE DEF rest
  <2> QED
    BY <2>3, <1>1, SeqOfFunction
<1>4. \A k \in 1..f.frame : at + k <= Len(f.bytes) => rest[k] = f.bytes[at + k]
  BY Zenon
<1> HIDE DEF rest
<1>5. /\ head \o rest \in Seq(Byte)
      /\ Len(head \o rest) = Len(head) + Len(rest)
      /\ \A k \in 1..Len(head) + Len(rest) :
           (head \o rest)[k] = IF k <= Len(head) THEN head[k] ELSE rest[k - Len(head)]
  BY <1>1, <1>3, ConcatProperties, Zenon
<1>6. \A k \in 1..4 : (head \o rest)[k] = head[k]
  BY SMT, <1>1, <1>3, <1>5
<1>7. \A k \in 1..f.frame : (head \o rest)[4 + k] = rest[k]
  BY SMT, <1>1, <1>3, <1>5
<1>8. Frame(f, i) = head \o rest
  BY Zenon DEF Frame, head, rest, at
<1>9. /\ Frame(f, i) \in Seq(Byte) /\ Len(Frame(f, i)) = 4 + f.frame
      /\ \A k \in 1..4 : Frame(f, i)[k] = head[k]
  BY <1>1, <1>3, <1>5, <1>6, <1>8, Zenon
<1>10. \A k \in 1..f.frame : at + k <= Len(f.bytes) => Frame(f, i)[4 + k] = f.bytes[at + k]
  BY <1>4, <1>7, <1>8, Zenon
<1> QED
  BY <1>9, <1>10, Zenon DEF HEADER_LEN, head, at

(* As many frames as are needed: the last is the first to reach the end. *)
LEMMA FrameCount ==
  ASSUME NEW f \in File
  PROVE  /\ Frames(f) \in FileSize /\ Frames(f) > 0
         /\ \A i \in 1..Frames(f) : i * f.frame < Len(f.bytes) <=> i < Frames(f)
<1> DEFINE L == Len(f.bytes)
           fr == f.frame
           F == Frames(f)
<1>1. L \in Nat /\ L > 0 /\ L <= 2147483643 /\ fr \in Nat /\ fr > 0
  BY SMT, SessionAssumption DEF FileSize, COMMAND_LEN
<1>2. F = (L + fr - 1) \div fr
  BY Zenon DEF Frames
<1> HIDE DEF L, fr, F
<1>3. F \in Nat /\ fr * F <= L + fr - 1 /\ L + fr - 1 < fr * F + fr
  BY SMT, <1>1, <1>2, Quotient
<1>4. F > 0
  BY SMT, <1>1, <1>3
<1>5. F <= L
  <2> SUFFICES ASSUME F >= L + 1 PROVE FALSE
    BY SMT, <1>1, <1>3
  <2> DEFINE e == F - L - 1
             g == fr - 1
  <2>1. e \in Nat /\ g \in Nat /\ F = L + 1 + e /\ fr = g + 1
    BY SMT, <1>1, <1>3
  <2> HIDE DEF e, g
  <2>2. fr * F = L + g * L + g + 1 + e + g * e
    BY SMT, <2>1, <1>1
  <2>3. g * L \in Nat /\ g * e \in Nat
    BY SMT, <2>1, <1>1
  <2> QED
    BY SMT, <2>1, <2>2, <2>3, <1>1, <1>3
<1>6. ASSUME NEW i \in 1..F
      PROVE  i * fr < L <=> i < F
  <2>1. CASE i = F
    BY SMT, <2>1, <1>1, <1>3
  <2>2. CASE i < F
    <3> DEFINE e == F - i - 1
    <3>1. e \in Nat /\ F = i + 1 + e
      BY SMT, <2>2, <1>3
    <3> HIDE DEF e
    <3>2. fr * F = i * fr + fr + fr * e /\ fr * e \in Nat /\ i * fr \in Nat
      BY SMT, <3>1, <1>1
    <3> QED
      BY SMT, <3>2, <2>2, <1>1, <1>3
  <2> QED
    BY SMT, <2>1, <2>2, <1>3
<1> QED
  BY SMT, <1>1, <1>3, <1>4, <1>5, <1>6 DEF FileSize, F, L, fr

(* What a client sends for a file. *)
Sent(f) == <<SizesOf(f)>> \o [i \in 1..Frames(f) |-> Frame(f, i - 1)]

LEMMA SentThings ==
  ASSUME NEW f \in File
  PROVE  /\ Sent(f) \in Seq(Seq(Byte)) /\ Len(Sent(f)) = Frames(f) + 1
         /\ Sent(f)[1] = SizesOf(f)
         /\ \A i \in 1..Frames(f) : Sent(f)[i + 1] = Frame(f, i - 1)
<1> DEFINE head == <<SizesOf(f)>>
           rest == [i \in 1..Frames(f) |-> Frame(f, i - 1)]
<1>1. SizesOf(f) \in Seq(Byte)
  BY FileBytes
<1>2. head \in Seq(Seq(Byte)) /\ Len(head) = 1 /\ head[1] = SizesOf(f)
  <2> DEFINE x == SizesOf(f)
  <2>1. x \in Seq(Byte)
    BY <1>1
  <2> HIDE DEF x
  <2>2. <<x>> \in Seq(Seq(Byte)) /\ Len(<<x>>) = 1 /\ <<x>>[1] = x
    BY SMT, <2>1
  <2> QED
    BY <2>2, Zenon DEF x
<1>3. Frames(f) \in Nat
  BY SMT, FrameCount DEF FileSize
<1>4. \A i \in 1..Frames(f) : Frame(f, i - 1) \in Seq(Byte)
  <2> TAKE i \in 1..Frames(f)
  <2>1. i - 1 \in Nat
    BY SMT, <1>3
  <2> QED
    BY <2>1, FrameBytes
<1>5. rest \in [1..Frames(f) -> Seq(Byte)] /\ \A i \in 1..Frames(f) : rest[i] = Frame(f, i - 1)
  BY <1>4, Zenon
<1> HIDE DEF head, rest
<1>6. rest \in Seq(Seq(Byte)) /\ Len(rest) = Frames(f)
  BY <1>3, <1>5, SeqOfFunction
<1>7. /\ head \o rest \in Seq(Seq(Byte)) /\ Len(head \o rest) = Len(head) + Len(rest)
      /\ \A i \in 1..Len(head) + Len(rest) :
           (head \o rest)[i] = IF i <= Len(head) THEN head[i] ELSE rest[i - Len(head)]
  <2>1. head \in Seq(Seq(Byte)) /\ rest \in Seq(Seq(Byte))
    BY <1>2, <1>6
  <2> QED
    BY <2>1, ConcatProperties, Zenon
<1>8. Sent(f) = head \o rest
  BY Zenon DEF Sent, head, rest
<1>9. (head \o rest)[1] = head[1] /\ \A i \in 1..Frames(f) : (head \o rest)[i + 1] = rest[i]
  <2>1. 1 \in 1..Len(head) + Len(rest) /\ 1 <= Len(head)
    BY SMT, <1>2, <1>3, <1>6
  <2>2. ASSUME NEW i \in 1..Frames(f) PROVE (head \o rest)[i + 1] = rest[i]
    <3>1. /\ i + 1 \in 1..Len(head) + Len(rest) /\ ~(i + 1 <= Len(head))
          /\ (i + 1) - Len(head) = i
      BY SMT, <1>2, <1>3, <1>6
    <3> QED
      BY <1>7, <3>1, Zenon
  <2> QED
    BY <1>7, <2>1, <2>2, Zenon
<1>10. Len(head \o rest) = Frames(f) + 1
  BY SMT, <1>2, <1>3, <1>6, <1>7
<1>11. \A i \in 1..Frames(f) : (head \o rest)[i + 1] = Frame(f, i - 1)
  BY <1>9, <1>5, Zenon
<1> QED
  BY <1>2, <1>7, <1>8, <1>9, <1>10, <1>11, Zenon

(* Memory nobody has written to. *)
LEMMA FreshBytes ==
  ASSUME NEW n \in Nat
  PROVE  Fresh(n) \in Seq(Byte) /\ Len(Fresh(n)) = n
<1>1. Fill \in Byte
  BY SMT, SessionAssumption DEF Byte
<1>2. Fresh(n) \in [1..n -> Byte]
  BY <1>1, Zenon DEF Fresh
<1> QED
  BY <1>2, SeqOfFunction

------------------------------------------------------------------------------
(* The types. *)

\* TypeOK and Timed, by what their variables belong to.
ClientTypes ==
  /\ whole \in BOOLEAN /\ files \in Seq(File) /\ left \in BOOLEAN
  /\ alives \in 0..MaxAlives /\ asked \in BOOLEAN /\ answered \in BOOLEAN
SentTypes == toSend \in Seq(Seq(Byte)) /\ stream \in Seq(Seq(Byte))
PackageTypes == data \in Seq(Byte) /\ Len(data) >= HEADER_LEN /\ got \in 0..Len(data)
ReadTypes == op \in {"command", "first frame", "frame", "none"} /\ PackageTypes
FileTypes ==
  /\ total_bytes \in 0..MaxAlloc /\ file_frame_bytes \in 0..MaxAlloc
  /\ recv_bytes \in 0..total_bytes
  /\ recv_file \in Seq(Byte) /\ Len(recv_file) = total_bytes
  /\ posted \in Seq(Seq(Byte)) /\ overrun \in BOOLEAN
TimerTypes ==
  /\ timer \in {"unset", "set", "check", "done"} /\ writing \in BOOLEAN
  /\ disconnects \in 0..2 /\ Timed
Alive == up \in BOOLEAN /\ open \in BOOLEAN

Typed == ClientTypes /\ SentTypes /\ ReadTypes /\ FileTypes /\ TimerTypes /\ Alive

LEMMA TypedIsTypeOK == Typed <=> TypeOK /\ Timed
BY Zenon DEF Typed, TypeOK, ClientTypes, SentTypes, ReadTypes, PackageTypes, FileTypes, TimerTypes, Alive

(* The numbers a read works with. *)
LEMMA PackageIs ==
  ASSUME Typed
  PROVE  /\ data \in Seq(Byte) /\ Len(data) \in Nat /\ Len(data) >= 4
         /\ got \in Nat /\ got <= Len(data)
<1>1. data \in Seq(Byte) /\ Len(data) >= HEADER_LEN /\ got \in 0..Len(data)
  BY Zenon DEF Typed, ReadTypes, PackageTypes
<1>2. Len(data) \in Nat
  BY <1>1, LenProperties
<1> QED
  BY SMT, <1>1, <1>2 DEF HEADER_LEN

(* A read begins with no byte. *)
LEMMA NothingRead ==
  ASSUME NEW s \in Seq(Byte)
  PROVE  0 \in 0..Len(s)
<1>1. Len(s) \in Nat
  BY LenProperties
<1> QED
  BY SMT, <1>1

LEMMA TypedInit == Init => Typed
<1> SUFFICES ASSUME Init PROVE Typed
  OBVIOUS
<1>1. ClientTypes
  <2>1. files \in Seq(File)
    BY EmptySeq, Zenon DEF Init
  <2>2. alives \in 0..MaxAlives
    BY SMT, SessionAssumption DEF Init
  <2> QED
    BY <2>1, <2>2, Zenon DEF Init, ClientTypes
<1>2. SentTypes
  BY SMT DEF Init, SentTypes
<1>3. PackageTypes
  <2>1. data = Fresh(HEADER_LEN + BODY_LEN) /\ got = 0 /\ HEADER_LEN + BODY_LEN \in Nat
    BY SMT, SessionAssumption DEF Init, HEADER_LEN
  <2>2. data \in Seq(Byte) /\ Len(data) = HEADER_LEN + BODY_LEN
    BY <2>1, FreshBytes
  <2> QED
    BY SMT, <2>1, <2>2, SessionAssumption DEF PackageTypes, HEADER_LEN
<1>4. ReadTypes
  BY <1>3, Zenon DEF Init, ReadTypes
<1>5. FileTypes
  <2>1. recv_file \in Seq(Byte) /\ Len(recv_file) = 0 /\ posted \in Seq(Seq(Byte))
    BY EmptySeq, Zenon DEF Init
  <2>2. /\ total_bytes \in 0..MaxAlloc /\ file_frame_bytes \in 0..MaxAlloc
        /\ recv_bytes \in 0..total_bytes
    BY SMT, SessionAssumption DEF Init
  <2> QED
    BY <2>1, <2>2, Zenon DEF Init, FileTypes
<1>6. TimerTypes
  <2>1. timer = "unset" /\ writing = FALSE /\ disconnects = 0
    BY Zenon DEF Init
  <2>2. Timed
    BY SMT, <2>1 DEF Timed
  <2>3. disconnects \in 0..2
    BY SMT, <2>1
  <2> QED
    BY <2>1, <2>2, <2>3, Zenon DEF TimerTypes
<1>7. Alive
  BY Zenon DEF Init, Alive
<1> QED
  BY <1>1, <1>2, <1>4, <1>5, <1>6, <1>7, Zenon DEF Typed

(* What a step does not touch keeps its types. *)
LEMMA TypesKept ==
  /\ ClientTypes /\ UNCHANGED <<whole, files, left, alives, asked, answered>> => ClientTypes'
  /\ SentTypes /\ UNCHANGED <<toSend, stream>> => SentTypes'
  /\ ReadTypes /\ UNCHANGED <<op, got, data>> => ReadTypes'
  /\ FileTypes /\ UNCHANGED fileVars => FileTypes'
  /\ TimerTypes /\ UNCHANGED <<timer, writing, disconnects>> /\ (op' = op \/ op' = "none") => TimerTypes'
  /\ Alive /\ UNCHANGED <<up, open>> => Alive'
<1>1. ClientTypes /\ UNCHANGED <<whole, files, left, alives, asked, answered>> => ClientTypes'
  BY Zenon DEF ClientTypes
<1>2. SentTypes /\ UNCHANGED <<toSend, stream>> => SentTypes'
  BY Zenon DEF SentTypes
<1>3. ReadTypes /\ UNCHANGED <<op, got, data>> => ReadTypes'
  BY Zenon DEF ReadTypes, PackageTypes
<1>4. FileTypes /\ UNCHANGED fileVars => FileTypes'
  BY Zenon DEF FileTypes, fileVars
<1>5. TimerTypes /\ UNCHANGED <<timer, writing, disconnects>> /\ (op' = op \/ op' = "none") => TimerTypes'
  BY SMT DEF TimerTypes, Timed
<1>6. Alive /\ UNCHANGED <<up, open>> => Alive'
  BY Zenon DEF Alive
<1> QED
  BY <1>1, <1>2, <1>3, <1>4, <1>5, <1>6, Zenon

------------------------------------------------------------------------------
(* The steps of the client. *)

LEMMA StartFileTyped ==
  ASSUME Typed, NEW f \in File, StartFile(f)
  PROVE  Typed'
<1>1. /\ files' = Append(files, f) /\ toSend' = Sent(f) /\ stream' = stream
      /\ UNCHANGED <<whole, left, alives, asked, answered>> /\ UNCHANGED <<op, got, data>>
      /\ UNCHANGED fileVars /\ UNCHANGED <<timer, writing, disconnects>> /\ UNCHANGED <<up, open>>
  BY Zenon DEF StartFile, Sent, SizesOf, timerVars
<1>2. ClientTypes'
  <2>1. files' \in Seq(File)
    BY <1>1, AppendProperties DEF Typed, ClientTypes
  <2> QED
    BY <1>1, <2>1, Zenon DEF Typed, ClientTypes
<1>3. SentTypes'
  BY <1>1, SentThings, Zenon DEF Typed, SentTypes
<1> QED
  BY <1>1, <1>2, <1>3, TypesKept, Zenon DEF Typed

LEMMA SayAliveTyped ==
  ASSUME Typed, SayAlive
  PROVE  Typed'
<1>1. /\ alives' = alives + 1 /\ toSend' = <<Command(ALIVE)>> /\ stream' = stream
      /\ answered' = (answered \/ asked)
      /\ UNCHANGED <<whole, files, left, asked>> /\ UNCHANGED <<op, got, data>>
      /\ UNCHANGED fileVars /\ UNCHANGED <<timer, writing, disconnects>> /\ UNCHANGED <<up, open>>
  BY Zenon DEF SayAlive, timerVars
<1>2. ClientTypes'
  <2>1. alives' \in 0..MaxAlives
    <3>1. MaxAlives \in Nat
      BY SessionAssumption
    <3>2. AtMost(MaxAlives) \in Int /\ AtMost(MaxAlives) <= MaxAlives
      BY <3>1, BoundKept
    <3> QED
      BY SMT, <3>1, <3>2 DEF Typed, ClientTypes, SayAlive
  <2>2. answered' \in BOOLEAN
    BY <1>1, Zenon DEF Typed, ClientTypes
  <2> QED
    BY <1>1, <2>1, <2>2, Zenon DEF Typed, ClientTypes
<1>3. SentTypes'
  <2> DEFINE x == Command(ALIVE)
  <2>1. x \in Seq(Byte)
    BY AliveBytes
  <2> HIDE DEF x
  <2>2. <<x>> \in Seq(Seq(Byte))
    BY SMT, <2>1
  <2> QED
    BY <1>1, <2>2, Zenon DEF Typed, SentTypes, x
<1> QED
  BY <1>1, <1>2, <1>3, TypesKept, Zenon DEF Typed

LEMMA SendTyped ==
  ASSUME Typed, Send
  PROVE  Typed'
<1>1. /\ toSend # <<>> /\ toSend' = Tail(toSend)
      /\ stream' = IF whole \/ stream = <<>> THEN Append(stream, Head(toSend))
                                             ELSE <<stream[1] \o Head(toSend)>>
      /\ UNCHANGED <<whole, files, left, alives, asked, answered>> /\ UNCHANGED <<op, got, data>>
      /\ UNCHANGED fileVars /\ UNCHANGED <<timer, writing, disconnects>> /\ UNCHANGED <<up, open>>
  BY Zenon DEF Send, timerVars
<1>2. toSend \in Seq(Seq(Byte)) /\ stream \in Seq(Seq(Byte))
  BY Zenon DEF Typed, SentTypes
<1>3. Head(toSend) \in Seq(Byte) /\ Tail(toSend) \in Seq(Seq(Byte))
  BY <1>1, <1>2, HeadTailProperties, Zenon
<1>4. Append(stream, Head(toSend)) \in Seq(Seq(Byte))
  BY <1>2, <1>3, AppendProperties, Zenon
<1>5. stream # <<>> => <<stream[1] \o Head(toSend)>> \in Seq(Seq(Byte))
  <2> SUFFICES ASSUME stream # <<>> PROVE <<stream[1] \o Head(toSend)>> \in Seq(Seq(Byte))
    OBVIOUS
  <2> DEFINE x == stream[1] \o Head(toSend)
  <2>1. 1 \in 1..Len(stream)
    BY SMT, <1>2, EmptySeq
  <2>2. stream[1] \in Seq(Byte)
    BY <1>2, <2>1, ElementOfSeq
  <2>3. x \in Seq(Byte)
    BY <1>3, <2>2, ConcatProperties, Zenon
  <2> HIDE DEF x
  <2>4. <<x>> \in Seq(Seq(Byte))
    BY SMT, <2>3
  <2> QED
    BY <2>4, Zenon DEF x
<1>6. SentTypes'
  BY <1>1, <1>3, <1>4, <1>5, Zenon DEF SentTypes
<1> QED
  BY <1>1, <1>6, TypesKept, Zenon DEF Typed

LEMMA LeaveTyped ==
  ASSUME Typed, Leave
  PROVE  Typed'
<1>1. /\ left' = TRUE /\ UNCHANGED <<toSend, stream>>
      /\ UNCHANGED <<whole, files, alives, asked, answered>> /\ UNCHANGED <<op, got, data>>
      /\ UNCHANGED fileVars /\ UNCHANGED <<timer, writing, disconnects>> /\ UNCHANGED <<up, open>>
  BY Zenon DEF Leave, timerVars
<1>2. ClientTypes'
  BY <1>1, Zenon DEF Typed, ClientTypes
<1> QED
  BY <1>1, <1>2, TypesKept, Zenon DEF Typed

------------------------------------------------------------------------------
(* The steps of the reader. *)

\* The package after n more bytes.
Read(n) == [i \in 1..Len(data) |-> IF i \in (got + 1)..(got + n) THEN stream[1][i - got] ELSE data[i]]
Unread(n) == IF n = Len(stream[1]) THEN Tail(stream)
             ELSE <<SubSeq(stream[1], n + 1, Len(stream[1]))>> \o Tail(stream)

(* A read takes a part of what is there and has room for it. *)
LEMMA ReceiveReads ==
  ASSUME Typed, Receive
  PROVE  /\ up /\ open /\ op # "none" /\ ~Complete /\ stream # <<>> /\ stream[1] \in Seq(Byte)
         /\ \E n \in 1..Len(stream[1]) :
              /\ got + n <= Len(data)
              /\ whole => n = Min({Len(stream[1]), Len(data) - got})
              /\ data' = Read(n) /\ got' = got + n /\ stream' = Unread(n)
         /\ UNCHANGED clientVars /\ UNCHANGED <<up, open, op>>
         /\ UNCHANGED fileVars /\ UNCHANGED timerVars
<1> DEFINE most == Min({Len(stream[1]), Len(data) - got})
<1>1. /\ up /\ open /\ op # "none" /\ ~Complete /\ stream # <<>>
      /\ UNCHANGED clientVars /\ UNCHANGED <<up, open, op>>
      /\ UNCHANGED fileVars /\ UNCHANGED timerVars
  BY Zenon DEF Receive
<1>2. \E n \in 1..most : /\ whole \/ op = "first frame" => n = most
                         /\ data' = Read(n) /\ got' = got + n /\ stream' = Unread(n)
  BY Zenon DEF Receive, Read, Unread
<1>3. stream[1] \in Seq(Byte)
  <2>1. stream \in Seq(Seq(Byte))
    BY Zenon DEF Typed, SentTypes
  <2>2. 1 \in 1..Len(stream)
    BY SMT, <1>1, <2>1, EmptySeq
  <2> QED
    BY <2>1, <2>2, ElementOfSeq
<1>4. Len(stream[1]) \in Nat
  BY <1>3, LenProperties
<1>5. Len(data) - got \in Nat
  BY SMT, PackageIs
<1>6. most \in Int /\ most <= Len(stream[1]) /\ most <= Len(data) - got
  <2> DEFINE a == Len(stream[1])
             b == Len(data) - got
  <2>1. a \in Int /\ b \in Int
    BY SMT, <1>4, <1>5
  <2>2. most = Min({a, b})
    BY Zenon
  <2> HIDE DEF a, b, most
  <2>3. most \in {a, b} /\ most <= a /\ most <= b
    BY <2>1, <2>2, SmallerOfTwo, Zenon
  <2>4. most \in Int
    BY <2>1, <2>3, Zenon
  <2> QED
    BY <2>3, <2>4, Zenon DEF a, b
<1> HIDE DEF most
<1>7. PICK n \in 1..most : /\ whole \/ op = "first frame" => n = most
                           /\ data' = Read(n) /\ got' = got + n /\ stream' = Unread(n)
  BY <1>2
<1>8. n \in 1..Len(stream[1]) /\ got + n <= Len(data)
  BY SMT, <1>4, <1>5, <1>6, PackageIs
<1>9. whole => n = Min({Len(stream[1]), Len(data) - got})
  BY <1>7, Zenon DEF most
<1> QED
  BY <1>1, <1>3, <1>7, <1>8, <1>9, Zenon

LEMMA ReceiveTyped ==
  ASSUME Typed, Receive
  PROVE  Typed'
<1>1. PICK n \in 1..Len(stream[1]) : /\ got + n <= Len(data)
                                     /\ data' = Read(n) /\ got' = got + n /\ stream' = Unread(n)
  BY ReceiveReads, Zenon
<1>2. /\ stream # <<>> /\ stream[1] \in Seq(Byte) /\ op' = op
      /\ UNCHANGED <<whole, files, left, alives, asked, answered>> /\ toSend' = toSend
      /\ UNCHANGED fileVars /\ UNCHANGED <<timer, writing, disconnects>> /\ UNCHANGED <<up, open>>
  BY ReceiveReads, Zenon DEF clientVars, timerVars
<1>3. /\ data \in Seq(Byte) /\ Len(data) >= HEADER_LEN /\ got \in 0..Len(data)
      /\ stream \in Seq(Seq(Byte)) /\ toSend \in Seq(Seq(Byte))
  BY Zenon DEF Typed, ReadTypes, PackageTypes, SentTypes
<1>4. Len(data) \in Nat /\ Len(stream[1]) \in Nat /\ got \in Nat
  BY SMT, <1>2, <1>3, LenProperties
<1>5. data' \in Seq(Byte) /\ Len(data') = Len(data)
  <2>1. ASSUME NEW i \in 1..Len(data), i \in (got + 1)..(got + n)
        PROVE  stream[1][i - got] \in Byte
    <3>1. i - got \in 1..Len(stream[1])
      BY SMT, <1>4, <2>1
    <3> QED
      BY <1>2, <3>1, ElementOfSeq
  <2>2. ASSUME NEW i \in 1..Len(data) PROVE data[i] \in Byte
    BY <1>3, ElementOfSeq
  <2>3. Read(n) \in [1..Len(data) -> Byte]
    BY <2>1, <2>2, Zenon DEF Read
  <2>4. Read(n) \in Seq(Byte) /\ Len(Read(n)) = Len(data)
    BY <2>3, <1>4, SeqOfFunction
  <2> QED
    BY <1>1, <2>4, Zenon
<1>6. ReadTypes'
  <2>1. got' \in 0..Len(data')
    BY SMT, <1>1, <1>4, <1>5
  <2>2. Len(data') >= HEADER_LEN
    BY SMT, <1>3, <1>5
  <2> QED
    BY <1>2, <1>5, <2>1, <2>2, Zenon DEF Typed, ReadTypes, PackageTypes
<1>7. SentTypes'
  <2>1. Tail(stream) \in Seq(Seq(Byte))
    BY <1>2, <1>3, HeadTailProperties, Zenon
  <2> DEFINE rest == SubSeq(stream[1], n + 1, Len(stream[1]))
  <2>2. rest \in Seq(Byte)
    <3>1. \A i \in (n + 1)..Len(stream[1]) : stream[1][i] \in Byte
      <4> TAKE i \in (n + 1)..Len(stream[1])
      <4>1. i \in 1..Len(stream[1])
        BY SMT, <1>4
      <4> QED
        BY <1>2, <4>1, ElementOfSeq
    <3>2. n + 1 \in Int /\ Len(stream[1]) \in Int
      BY SMT, <1>4
    <3> QED
      BY <3>1, <3>2, SubSeqProperties, Zenon
  <2> HIDE DEF rest
  <2>3. <<rest>> \in Seq(Seq(Byte))
    BY SMT, <2>2
  <2>4. <<rest>> \o Tail(stream) \in Seq(Seq(Byte))
    BY <2>1, <2>3, ConcatProperties, Zenon
  <2> QED
    BY <1>1, <1>2, <1>3, <2>1, <2>4, Zenon DEF SentTypes, Unread, rest
<1> QED
  BY <1>2, <1>6, <1>7, TypesKept, Zenon DEF Typed

LEMMA ReadFailsTyped ==
  ASSUME Typed, ReadFails
  PROVE  Typed'
<1>1. /\ op' = "none" /\ got' = 0 /\ data' = data
      /\ UNCHANGED <<whole, files, left, alives, asked, answered>> /\ UNCHANGED <<toSend, stream>>
      /\ UNCHANGED fileVars /\ UNCHANGED <<timer, writing, disconnects>> /\ UNCHANGED <<up, open>>
  BY Zenon DEF ReadFails, clientVars, timerVars
<1>2. ReadTypes'
  <2>1. got' \in 0..Len(data')
    BY <1>1, PackageIs, NothingRead, Zenon
  <2> QED
    BY <1>1, <2>1, Zenon DEF Typed, ReadTypes, PackageTypes
<1> QED
  BY <1>1, <1>2, TypesKept, Zenon DEF Typed

------------------------------------------------------------------------------
(* The handlers. *)

LEMMA CommandFileTyped ==
  ASSUME Typed, CommandFile
  PROVE  Typed'
<1> DEFINE total == SizeAt(8)
           frame == SizeAt(12)
<1>1. /\ UNCHANGED <<whole, files, left, alives, asked, answered>> /\ UNCHANGED <<toSend, stream>>
      /\ UNCHANGED <<posted, overrun>> /\ UNCHANGED <<timer, writing, disconnects>> /\ open' = open
      /\ op # "none"
  BY Zenon DEF CommandFile, clientVars, timerVars, Handles
<1>2. TimerTypes'
  BY SMT, <1>1 DEF Typed, TimerTypes, Timed
<1>3. CASE total \in 0..MaxAlloc /\ frame \in 0..MaxAlloc
  <2>1. /\ total_bytes' = total /\ file_frame_bytes' = frame /\ recv_bytes' = 0
        /\ recv_file' = Fresh(total) /\ op' = "first frame" /\ got' = 0 /\ up' = up
        /\ data' = data \/ data' = Fresh(HEADER_LEN + frame)
    BY <1>3, Zenon DEF CommandFile
  <2> HIDE DEF total, frame
  <2>2. total \in Nat /\ HEADER_LEN + frame \in Nat /\ HEADER_LEN + frame >= HEADER_LEN
    BY SMT, <1>3, SessionAssumption DEF HEADER_LEN
  <2>3. recv_file' \in Seq(Byte) /\ Len(recv_file') = total_bytes'
    BY <2>1, <2>2, FreshBytes, Zenon
  <2>4. FileTypes'
    <3>1. recv_bytes' \in 0..total_bytes'
      <4>1. total_bytes' = total /\ recv_bytes' = 0
        BY <2>1
      <4> QED
        BY SMT, <4>1, <2>2
    <3> QED
      BY <1>1, <1>3, <2>1, <2>3, <3>1, Zenon DEF Typed, FileTypes
  <2>5. data' \in Seq(Byte) /\ Len(data') >= HEADER_LEN
    <3>1. Fresh(HEADER_LEN + frame) \in Seq(Byte) /\ Len(Fresh(HEADER_LEN + frame)) = HEADER_LEN + frame
      BY <2>2, FreshBytes
    <3>2. CASE data' = data
      BY <3>2, Zenon DEF Typed, ReadTypes, PackageTypes
    <3>3. CASE data' = Fresh(HEADER_LEN + frame)
      BY <3>1, <3>3, <2>2, Zenon
    <3> QED
      BY <2>1, <3>2, <3>3
  <2>6. ReadTypes'
    <3>1. got' \in 0..Len(data')
      BY <2>1, <2>5, NothingRead, Zenon
    <3> QED
      BY <2>1, <2>5, <3>1, Zenon DEF ReadTypes, PackageTypes
  <2> QED
    BY <1>1, <1>2, <2>1, <2>4, <2>6, TypesKept, Zenon DEF Typed
<1>4. CASE ~(total \in 0..MaxAlloc /\ frame \in 0..MaxAlloc)
  <2>1. /\ up' = FALSE
        /\ UNCHANGED <<op, got, data, total_bytes, file_frame_bytes, recv_bytes, recv_file>>
    BY <1>4, Zenon DEF CommandFile
  <2>2. UNCHANGED fileVars
    BY <1>1, <2>1, Zenon DEF fileVars
  <2>3. Alive'
    BY <1>1, <2>1, Zenon DEF Typed, Alive
  <2> QED
    BY <1>1, <1>2, <2>1, <2>2, <2>3, TypesKept, Zenon DEF Typed
<1> QED
  BY <1>3, <1>4

(* The handlers that store nothing: they read on, or no more, or fault. *)
LEMMA OtherHandlersTyped ==
  ASSUME Typed, CommandAlive \/ CommandOther \/ FrameNegative \/ FrameOfNothing \/ FrameBeyond \/ FrameTooShort
  PROVE  Typed'
<1>1. /\ UNCHANGED <<whole, files, left, alives, asked, answered>> /\ UNCHANGED <<toSend, stream>>
      /\ UNCHANGED fileVars /\ data' = data
  BY Zenon DEF CommandAlive, CommandOther, FrameNegative, FrameOfNothing, FrameBeyond, FrameTooShort,
               clientVars, timerVars
<1>2. /\ op' = op \/ op' = "none"
      /\ got' = got \/ got' = 0
      /\ up' = up \/ up' = FALSE
      /\ open' = open \/ open' = FALSE
  BY Zenon DEF CommandAlive, CommandOther, FrameNegative, FrameOfNothing, FrameBeyond, FrameTooShort
<1>3. ReadTypes'
  <2>1. got' \in 0..Len(data')
    <3>1. got \in 0..Len(data) /\ 0 \in 0..Len(data)
      BY NothingRead, PackageIs, Zenon DEF Typed, ReadTypes, PackageTypes
    <3> QED
      BY <1>1, <1>2, <3>1, Zenon
  <2> QED
    BY <1>1, <1>2, <2>1, Zenon DEF Typed, ReadTypes, PackageTypes
<1>4. Alive'
  BY <1>2, Zenon DEF Typed, Alive
<1>5. TimerTypes'
  <2>1. CASE CommandAlive
    <3>1. timer' = "set" /\ op' = "none" /\ UNCHANGED <<writing, disconnects>> /\ op = "command"
      BY <2>1, Zenon DEF CommandAlive, Handles
    <3> QED
      BY SMT, <3>1 DEF Typed, TimerTypes, Timed
  <2>2. CASE CommandOther \/ FrameNegative \/ FrameOfNothing \/ FrameBeyond \/ FrameTooShort
    <3>1. UNCHANGED <<timer, writing, disconnects>>
      BY <2>2, Zenon DEF CommandOther, FrameNegative, FrameOfNothing, FrameBeyond, FrameTooShort, timerVars
    <3> QED
      BY <1>2, <3>1, TypesKept, Zenon DEF Typed
  <2> QED
    BY <2>1, <2>2, Zenon
<1> QED
  BY <1>1, <1>3, <1>4, <1>5, TypesKept, Zenon DEF Typed

\* The buffer after len bytes were stored behind its first at.
Stored(at, len) ==
  [i \in 1..total_bytes |->
     IF i - at \in 1..len THEN IF HEADER_LEN + i - at <= Len(data) THEN data[HEADER_LEN + i - at]
                                                                   ELSE Fill
     ELSE recv_file[i]]

(* It is as long as it was, whatever is stored where. *)
LEMMA StoredBytes ==
  ASSUME Typed, NEW at \in Int, NEW len \in Int
  PROVE  Stored(at, len) \in Seq(Byte) /\ Len(Stored(at, len)) = total_bytes
<1>1. /\ total_bytes \in Nat /\ recv_file \in Seq(Byte) /\ Len(recv_file) = total_bytes
  BY SMT, SessionAssumption DEF Typed, FileTypes
<1>2. Fill \in Byte
  BY SMT, SessionAssumption DEF Byte
<1>3. ASSUME NEW i \in 1..total_bytes, i - at \in 1..len, HEADER_LEN + i - at <= Len(data)
      PROVE  data[HEADER_LEN + i - at] \in Byte
  <2>1. HEADER_LEN + i - at \in 1..Len(data)
    BY SMT, <1>1, <1>3, PackageIs DEF HEADER_LEN
  <2> QED
    BY <2>1, PackageIs, ElementOfSeq
<1>4. ASSUME NEW i \in 1..total_bytes PROVE recv_file[i] \in Byte
  BY <1>1, ElementOfSeq, Zenon
<1>5. Stored(at, len) \in [1..total_bytes -> Byte]
  BY <1>2, <1>3, <1>4, Zenon DEF Stored
<1> QED
  BY <1>1, <1>5, SeqOfFunction

(* The header of a package is its first four bytes. *)
LEMMA HeaderBytes ==
  ASSUME NEW s \in Seq(Byte), Len(s) >= 4
  PROVE  /\ SubSeq(s, 1, HEADER_LEN) \in FourBytes
         /\ \A k \in 1..4 : SubSeq(s, 1, HEADER_LEN)[k] = s[k]
<1>1. \A i \in 1..4 : s[i] \in Byte
  <2> TAKE i \in 1..4
  <2>1. Len(s) \in Nat
    BY LenProperties
  <2>2. i \in 1..Len(s)
    BY SMT, <2>1
  <2> QED
    BY <2>2, ElementOfSeq
<1>2. SubSeq(s, 1, 4) = [i \in 1..4 |-> s[i]]
  BY SMT
<1>3. [i \in 1..4 |-> s[i]] \in FourBytes /\ \A k \in 1..4 : [i \in 1..4 |-> s[i]][k] = s[k]
  BY <1>1, Zenon DEF FourBytes
<1> QED
  BY <1>2, <1>3, Zenon DEF HEADER_LEN

(* The number in it. *)
LEMMA IdIsInt ==
  ASSUME Typed
  PROVE  Id \in Int
<1>1. SubSeq(data, 1, HEADER_LEN) \in FourBytes
  BY PackageIs, HeaderBytes
<1> QED
  BY <1>1, IntOfBytes DEF Id

(* What a frame that is stored changes. *)
LEMMA StoreTyped ==
  ASSUME Typed, NEW len \in Int, NEW bytes \in 0..total_bytes, Store(len, bytes), op # "none"
  PROVE  Typed'
<1> DEFINE at == Id * file_frame_bytes
<1>1. at \in Int
  <2>1. file_frame_bytes \in Int
    BY SMT, SessionAssumption DEF Typed, FileTypes
  <2> QED
    BY SMT, <2>1, IdIsInt
<1> HIDE DEF at
<1>2. /\ recv_file' = Stored(at, len) /\ recv_bytes' = bytes /\ got' = 0
      /\ overrun' = (overrun \/ at + len > total_bytes)
      /\ up' \in BOOLEAN \/ up' = up
      /\ posted' = Append(posted, Stored(at, len)) \/ posted' = posted
      /\ op' \in {"command", "frame"}
      /\ data' = data /\ total_bytes' = total_bytes /\ file_frame_bytes' = file_frame_bytes
      /\ UNCHANGED <<whole, files, left, alives, asked, answered>> /\ UNCHANGED <<toSend, stream>>
      /\ UNCHANGED <<timer, writing, disconnects>> /\ open' = open
  BY Zenon DEF Store, Stored, clientVars, timerVars, at
<1>3. Stored(at, len) \in Seq(Byte) /\ Len(Stored(at, len)) = total_bytes
  BY <1>1, StoredBytes
<1>4. posted' \in Seq(Seq(Byte))
  <2>1. posted \in Seq(Seq(Byte))
    BY Zenon DEF Typed, FileTypes
  <2>2. Append(posted, Stored(at, len)) \in Seq(Seq(Byte))
    BY <1>3, <2>1, AppendProperties, Zenon
  <2> QED
    BY <1>2, <2>1, <2>2, Zenon
<1>5. overrun' \in BOOLEAN
  BY <1>2, Zenon DEF Typed, FileTypes
<1>6. FileTypes'
  BY <1>2, <1>3, <1>4, <1>5, Zenon DEF Typed, FileTypes
<1>7. ReadTypes'
  <2>1. got' \in 0..Len(data')
    BY <1>2, PackageIs, NothingRead, Zenon
  <2> QED
    BY <1>2, <2>1, Zenon DEF Typed, ReadTypes, PackageTypes
<1>8. TimerTypes'
  BY SMT, <1>2 DEF Typed, TimerTypes, Timed
<1>9. Alive'
  BY <1>2, Zenon DEF Typed, Alive
<1> QED
  BY <1>2, <1>6, <1>7, <1>8, <1>9, TypesKept, Zenon DEF Typed

LEMMA FramesTyped ==
  ASSUME Typed, FrameFits \/ FrameTooMuch
  PROVE  Typed'
<1>1. op # "none"
  BY Zenon DEF FrameFits, FrameTooMuch, ValidFrame, InTransfer, Handles
<1>2. total_bytes \in Nat /\ recv_bytes \in Int
  BY SMT, SessionAssumption DEF Typed, FileTypes
<1>3. CASE FrameFits
  <2>1. Sum \in 0..total_bytes /\ Store(got - HEADER_LEN, Sum)
    BY <1>3, Zenon DEF FrameFits, Fits
  <2>2. got - HEADER_LEN \in Int
    BY SMT, PackageIs DEF HEADER_LEN
  <2> QED
    BY <1>1, <2>1, <2>2, StoreTyped
<1>4. CASE FrameTooMuch
  <2>1. Store(total_bytes - recv_bytes, total_bytes)
    BY <1>4, Zenon DEF FrameTooMuch
  <2>2. total_bytes - recv_bytes \in Int /\ total_bytes \in 0..total_bytes
    BY SMT, <1>2
  <2> QED
    BY <1>1, <2>1, <2>2, StoreTyped
<1> QED
  BY <1>3, <1>4

------------------------------------------------------------------------------
(* The timer, and every step. *)

LEMMA TimerTyped ==
  ASSUME Typed, Timer
  PROVE  Typed'
<1>1. /\ UNCHANGED <<whole, files, left, alives, answered>> /\ UNCHANGED <<toSend, stream>>
      /\ UNCHANGED fileVars /\ UNCHANGED <<op, got, data>> /\ up' = up
      /\ open' = open \/ open' = FALSE
      /\ asked' = asked \/ asked' = TRUE
  BY Zenon DEF Timer, AliveTimeout, WaitCheckAlive, AliveWriteFails, AliveWritten, clientVars, timerVars
<1>2. ClientTypes' /\ Alive'
  BY <1>1, Zenon DEF Typed, ClientTypes, Alive
<1>3. TimerTypes'
  <2>1. CASE AliveTimeout
    BY SMT, <1>1, <2>1 DEF AliveTimeout, Typed, TimerTypes, Timed
  <2>2. CASE WaitCheckAlive
    BY SMT, <1>1, <2>2 DEF WaitCheckAlive, Typed, TimerTypes, Timed
  <2>3. CASE AliveWriteFails
    <3>1. /\ writing /\ writing' = FALSE /\ disconnects' = disconnects + 1 /\ timer' = timer
      BY <2>3, Zenon DEF AliveWriteFails
    <3>2. TimerTypes
      BY Zenon DEF Typed
    <3>3. /\ timer \notin {"unset", "set"}
          /\ timer = "check" => disconnects = 0
          /\ timer = "done" => disconnects <= 1
          /\ timer \in {"check", "done"} /\ op = "none" /\ disconnects \in 0..2
      BY <3>1, <3>2, Zenon DEF TimerTypes, Timed
    <3>4. /\ disconnects' \in 0..2 /\ timer' \in {"check", "done"}
          /\ timer' = "check" => disconnects' = 1
      BY SMT, <3>1, <3>3
    <3>5. op' = "none"
      BY <1>1, <3>3
    <3> QED
      BY <3>1, <3>4, <3>5, Zenon DEF TimerTypes, Timed
  <2>4. CASE AliveWritten
    <3>1. writing' = FALSE /\ disconnects' = disconnects /\ timer' = timer /\ op' = op
      BY <1>1, <2>4, Zenon DEF AliveWritten
    <3>2. TimerTypes
      BY Zenon DEF Typed
    <3>3. Timed'
      BY <3>1, <3>2, SMT DEF TimerTypes, Timed
    <3> QED
      BY <3>1, <3>2, <3>3, Zenon DEF TimerTypes
  <2> QED
    BY <2>1, <2>2, <2>3, <2>4 DEF Timer
<1> QED
  BY <1>1, <1>2, <1>3, TypesKept, Zenon DEF Typed

LEMMA TypedStep == Typed /\ [Next]_vars => Typed'
<1> SUFFICES ASSUME Typed, [Next]_vars PROVE Typed'
  OBVIOUS
<1>1. CASE Client
  BY <1>1, StartFileTyped, SayAliveTyped, SendTyped, LeaveTyped DEF Client
<1>2. CASE Receive
  BY <1>2, ReceiveTyped
<1>3. CASE ReadFails
  BY <1>3, ReadFailsTyped
<1>4. CASE Handler
  BY <1>4, CommandFileTyped, OtherHandlersTyped, FramesTyped DEF Handler
<1>5. CASE Timer
  BY <1>5, TimerTyped
<1>6. CASE UNCHANGED vars
  <2>1. /\ UNCHANGED <<whole, files, left, alives, asked, answered>> /\ UNCHANGED <<toSend, stream>>
        /\ UNCHANGED fileVars /\ UNCHANGED <<op, got, data>> /\ UNCHANGED <<up, open>>
        /\ UNCHANGED <<timer, writing, disconnects>>
    BY <1>6, Zenon DEF vars, clientVars, timerVars
  <2> QED
    BY <2>1, TypesKept, Zenon DEF Typed
<1> QED
  BY <1>1, <1>2, <1>3, <1>4, <1>5, <1>6 DEF Next

(* The types, and that a connection is reported to Server::Core twice at    *)
(* most: once by the timer and once by the write of IS_ALIVE that failed.   *)
THEOREM TypeCorrect == Spec => []TypeOK
<1>1. Init => Typed
  BY TypedInit
<1>2. Typed /\ [Next]_vars => Typed'
  BY TypedStep
<1>3. Typed => TypeOK
  BY TypedIsTypeOK
<1> QED
  BY <1>1, <1>2, <1>3, PTL DEF Spec

------------------------------------------------------------------------------
(* The things sent can be numbered. *)

(* The number of frames of each file begun. *)
LEMMA ItemsIsNat ==
  ASSUME NEW fs \in Seq(File), NEW j \in Nat, j <= Len(fs)
  PROVE  /\ Items(fs, j) \in Nat
         /\ j > 0 => fs[j] \in File /\ Items(fs, j) = Frames(fs[j]) /\ Items(fs, j) > 0
         /\ j = 0 => Items(fs, j) = 0
<1>1. j = 0 => Items(fs, j) = 0
  BY Zenon DEF Items
<1>2. ASSUME j > 0
      PROVE  fs[j] \in File /\ Items(fs, j) = Frames(fs[j]) /\ Items(fs, j) \in Nat /\ Items(fs, j) > 0
  <2>1. j \in 1..Len(fs)
    BY SMT, <1>2, LenProperties
  <2>2. fs[j] \in File
    BY <2>1, ElementOfSeq
  <2>3. Items(fs, j) = Frames(fs[j])
    BY SMT, <1>2 DEF Items
  <2> QED
    BY SMT, <2>2, <2>3, FrameCount DEF FileSize
<1>3. j = 0 \/ j > 0
  BY SMT
<1> QED
  BY SMT, <1>1, <1>2, <1>3

(* Beginning another file leaves those begun as they were. *)
LEMMA ThingKept ==
  ASSUME NEW fs \in Seq(File), NEW fs2, \A j \in 1..Len(fs) : fs2[j] = fs[j],
         NEW j \in Nat, j <= Len(fs)
  PROVE  /\ Items(fs2, j) = Items(fs, j)
         /\ \A i \in Nat : (j = 0 => i > 0) => Thing(fs2, j, i) = Thing(fs, j, i)
         /\ \A i, j2, i2 : Follows(fs2, j, i, j2, i2) <=> Follows(fs, j, i, j2, i2)
<1>1. j > 0 => fs2[j] = fs[j]
  <2> SUFFICES ASSUME j > 0 PROVE fs2[j] = fs[j]
    OBVIOUS
  <2>1. j \in 1..Len(fs)
    BY SMT, LenProperties
  <2> QED
    BY <2>1
<1>2. j = 0 \/ j > 0
  BY SMT
<1>3. Items(fs2, j) = Items(fs, j)
  BY <1>1, <1>2, Zenon DEF Items
<1>4. ASSUME NEW i \in Nat, j = 0 => i > 0 PROVE Thing(fs2, j, i) = Thing(fs, j, i)
  <2>1. CASE j > 0
    BY <1>1, <1>3, <2>1, Zenon DEF Thing
  <2>2. CASE j = 0
    <3>1. i # 0 /\ ~(i <= Items(fs, j))
      BY SMT, <1>4, <2>2 DEF Items
    <3> QED
      BY <1>3, <3>1, Zenon DEF Thing
  <2> QED
    BY <1>2, <2>1, <2>2
<1> QED
  BY <1>3, <1>4, Zenon DEF Follows

(* What has been read last is a thing of a file that was begun. *)
LEMMA LastThing ==
  ASSUME NEW fs, NEW things \in Seq(Seq(Byte)), NEW j, NEW i, Numberable(fs, things, j, i)
  PROVE  j <= Len(fs) /\ i <= Items(fs, j) + 1 /\ (j = 0 => i > 0)
<1>1. 0 \in 0..Len(things)
  BY SMT, LenProperties
<1> QED
  BY <1>1, Zenon DEF Numberable, Numbered

(* What comes next, and what is left when it has been read. *)
LEMMA NextThing ==
  ASSUME NEW fs \in Seq(File), NEW things \in Seq(Seq(Byte)), things # <<>>,
         NEW j \in Nat, NEW i \in Nat, Numberable(fs, things, j, i)
  PROVE  \E j2, i2 \in Nat : /\ Numberable(fs, Tail(things), j2, i2)
                              /\ Head(things) = Thing(fs, j2, i2)
                              /\ Follows(fs, j, i, j2, i2)
<1>0. PICK file \in [0..Len(things) -> Nat], item \in [0..Len(things) -> Nat] :
        Numbered(fs, things, file, item) /\ file[0] = j /\ item[0] = i
  BY Zenon DEF Numberable
<1> DEFINE n == Len(things)
           rest == Tail(things)
<1>1. n \in Nat /\ n > 0
  BY SMT, LenProperties, EmptySeq
<1>2. rest \in Seq(Seq(Byte)) /\ Len(rest) = n - 1 /\ \A p \in 1..Len(rest) : rest[p] = things[p + 1]
  BY HeadTailProperties, Zenon
<1>3. Head(things) = things[1]
  BY SMT, <1>1
<1>4. /\ \A p \in 0..n : /\ file[p] <= Len(fs) /\ item[p] <= Items(fs, file[p]) + 1
                         /\ file[p] = 0 => item[p] > 0
      /\ \A p \in 1..n : /\ things[p] = Thing(fs, file[p], item[p])
                         /\ Follows(fs, file[p - 1], item[p - 1], file[p], item[p])
      /\ file[n] = Len(fs) /\ item[n] >= Items(fs, Len(fs))
  BY <1>0, Zenon DEF Numbered
<1> HIDE DEF n, rest
<1> DEFINE file2 == [p \in 0..(n - 1) |-> file[p + 1]]
           item2 == [p \in 0..(n - 1) |-> item[p + 1]]
<1>5. \A p \in 0..(n - 1) : p + 1 \in 0..n /\ p + 1 \in 1..n
  BY SMT, <1>1
<1>6. file \in [0..n -> Nat] /\ item \in [0..n -> Nat]
  BY Zenon DEF n
<1>7. /\ file2 \in [0..(n - 1) -> Nat] /\ item2 \in [0..(n - 1) -> Nat]
      /\ \A p \in 0..(n - 1) : file2[p] = file[p + 1] /\ item2[p] = item[p + 1]
  BY <1>5, <1>6, Zenon
<1> HIDE DEF file2, item2
<1>8. \A p \in 0..(n - 1) : /\ file2[p] <= Len(fs) /\ item2[p] <= Items(fs, file2[p]) + 1
                            /\ file2[p] = 0 => item2[p] > 0
  BY <1>4, <1>5, <1>7, Zenon
<1>9. ASSUME NEW p \in 1..(n - 1)
      PROVE  /\ rest[p] = Thing(fs, file2[p], item2[p])
             /\ Follows(fs, file2[p - 1], item2[p - 1], file2[p], item2[p])
  <2>1. /\ p \in 0..(n - 1) /\ p - 1 \in 0..(n - 1) /\ p + 1 \in 1..n
        /\ (p - 1) + 1 = p /\ (p + 1) - 1 = p /\ p \in 1..Len(rest)
    BY SMT, <1>1, <1>2
  <2>2. file2[p] = file[p + 1] /\ item2[p] = item[p + 1] /\ file2[p - 1] = file[p] /\ item2[p - 1] = item[p]
    BY <1>7, <2>1, Zenon
  <2>3. things[p + 1] = Thing(fs, file[p + 1], item[p + 1])
    BY <1>4, <2>1, Zenon
  <2>4. Follows(fs, file[p], item[p], file[p + 1], item[p + 1])
    BY <1>4, <2>1, Zenon
  <2> QED
    BY <1>2, <2>1, <2>2, <2>3, <2>4, Zenon
<1>10. file2[n - 1] = Len(fs) /\ item2[n - 1] >= Items(fs, Len(fs))
  <2>1. n - 1 \in 0..(n - 1) /\ (n - 1) + 1 = n
    BY SMT, <1>1
  <2> QED
    BY <1>4, <1>7, <2>1, Zenon
<1>11. Numbered(fs, rest, file2, item2)
  BY <1>2, <1>7, <1>8, <1>9, <1>10, Zenon DEF Numbered
<1>12. /\ Head(things) = Thing(fs, file2[0], item2[0])
       /\ Follows(fs, file[0], item[0], file2[0], item2[0])
  <2>1. 1 \in 1..n /\ 0 \in 0..(n - 1) /\ 0 + 1 = 1 /\ 1 - 1 = 0
    BY SMT, <1>1
  <2> QED
    BY <1>3, <1>4, <1>7, <2>1, Zenon
<1>13. file2 \in [0..Len(rest) -> Nat] /\ item2 \in [0..Len(rest) -> Nat]
  BY <1>2, <1>7, Zenon
<1>14. file2[0] \in Nat /\ item2[0] \in Nat
  <2>1. 0 \in 0..(n - 1)
    BY SMT, <1>1
  <2> QED
    BY <1>7, <2>1, Zenon
<1>15. Numberable(fs, rest, file2[0], item2[0])
  BY <1>11, <1>13, Zenon DEF Numberable
<1> QED
  BY <1>0, <1>12, <1>14, <1>15, Zenon DEF rest

\* What is sent when everything begun has been: G and H number it.
Continues(fs, fs2, more, m, G, H) ==
  /\ \A q \in 1..m : /\ G[q] <= Len(fs2) /\ H[q] <= Items(fs2, G[q]) + 1
                     /\ G[q] = 0 => H[q] > 0
                     /\ more[q] = Thing(fs2, G[q], H[q])
  /\ \/ G[1] = Len(fs) + 1 /\ H[1] = 0
     \/ G[1] = Len(fs) /\ H[1] = Items(fs2, Len(fs)) + 1
  /\ \A q \in 2..m : Follows(fs2, G[q - 1], H[q - 1], G[q], H[q])
  /\ G[m] = Len(fs2) /\ H[m] >= Items(fs2, Len(fs2))

Continued(fs, fs2, more) ==
  \E m \in Nat : \E G, H \in [1..m -> Nat] :
    m > 0 /\ Len(more) = m /\ Continues(fs, fs2, more, m, G, H)

Extends(fs, fs2) == Len(fs) <= Len(fs2) /\ \A j \in 1..Len(fs) : fs2[j] = fs[j]

(* It is numbered on from there. *)
LEMMA Glued ==
  ASSUME NEW fs \in Seq(File), NEW things \in Seq(Seq(Byte)),
         NEW j0, NEW i0, Numberable(fs, things, j0, i0),
         NEW fs2 \in Seq(File), Extends(fs, fs2),
         NEW more \in Seq(Seq(Byte)), Continued(fs, fs2, more)
  PROVE  Numberable(fs2, things \o more, j0, i0)
<1>0. PICK file \in [0..Len(things) -> Nat], item \in [0..Len(things) -> Nat] :
        Numbered(fs, things, file, item) /\ file[0] = j0 /\ item[0] = i0
  BY Zenon DEF Numberable
<1>14. PICK m \in Nat : \E G, H \in [1..m -> Nat] :
         m > 0 /\ Len(more) = m /\ Continues(fs, fs2, more, m, G, H)
  BY Zenon DEF Continued
<1>15. PICK G \in [1..m -> Nat], H \in [1..m -> Nat] :
         m > 0 /\ Len(more) = m /\ Continues(fs, fs2, more, m, G, H)
  BY <1>14
<1> DEFINE n == Len(things)
           all == things \o more
<1>1. n \in Nat /\ Len(fs) \in Nat /\ Len(fs2) \in Nat /\ Len(fs) <= Len(fs2)
  BY LenProperties DEF Extends
<1>2. /\ Len(all) = n + m
      /\ \A p \in 1..(n + m) : all[p] = IF p <= n THEN things[p] ELSE more[p - n]
  <2>1. /\ Len(all) = Len(things) + Len(more)
        /\ \A p \in 1..Len(things) + Len(more) :
             all[p] = IF p <= Len(things) THEN things[p] ELSE more[p - Len(things)]
    BY ConcatProperties, Zenon
  <2> QED
    BY <1>15, <2>1
<1>3. /\ \A p \in 0..n : /\ file[p] <= Len(fs) /\ item[p] <= Items(fs, file[p]) + 1
                         /\ file[p] = 0 => item[p] > 0
      /\ \A p \in 1..n : /\ things[p] = Thing(fs, file[p], item[p])
                         /\ Follows(fs, file[p - 1], item[p - 1], file[p], item[p])
      /\ file[n] = Len(fs) /\ item[n] >= Items(fs, Len(fs))
  BY <1>0, Zenon DEF Numbered
<1>4. file \in [0..n -> Nat] /\ item \in [0..n -> Nat]
  BY Zenon
<1> HIDE DEF n, all
<1>5. ASSUME NEW p \in 0..n
      PROVE  /\ file[p] \in Nat /\ item[p] \in Nat
             /\ Items(fs2, file[p]) = Items(fs, file[p])
             /\ Thing(fs2, file[p], item[p]) = Thing(fs, file[p], item[p])
             /\ \A j2, i2 : Follows(fs2, file[p], item[p], j2, i2) <=> Follows(fs, file[p], item[p], j2, i2)
  <2>1. file[p] \in Nat /\ item[p] \in Nat
    BY <1>4
  <2>2. file[p] <= Len(fs) /\ (file[p] = 0 => item[p] > 0)
    BY <1>3
  <2> DEFINE j == file[p]
             i == item[p]
  <2> HIDE DEF j, i
  <2>3. j \in Nat /\ i \in Nat /\ j <= Len(fs) /\ (j = 0 => i > 0)
    BY <2>1, <2>2 DEF j, i
  <2>4. /\ Items(fs2, j) = Items(fs, j)
        /\ Thing(fs2, j, i) = Thing(fs, j, i)
        /\ \A j2, i2 : Follows(fs2, j, i, j2, i2) <=> Follows(fs, j, i, j2, i2)
    <3>1. \A jj \in 1..Len(fs) : fs2[jj] = fs[jj]
      BY Zenon DEF Extends
    <3>2. /\ Items(fs2, j) = Items(fs, j)
          /\ \A k \in Nat : (j = 0 => k > 0) => Thing(fs2, j, k) = Thing(fs, j, k)
          /\ \A k, j2, i2 : Follows(fs2, j, k, j2, i2) <=> Follows(fs, j, k, j2, i2)
      <4>1. j \in Nat /\ j <= Len(fs)
        BY <2>3
      <4> QED
        BY <3>1, <4>1, ThingKept
    <3> QED
      BY <2>3, <3>2, Zenon
  <2> QED
    BY <2>1, <2>4 DEF j, i
<1> DEFINE file2 == [p \in 0..(n + m) |-> IF p <= n THEN file[p] ELSE G[p - n]]
           item2 == [p \in 0..(n + m) |-> IF p <= n THEN item[p] ELSE H[p - n]]
<1>6. \A p \in 0..(n + m) : IF p <= n THEN p \in 0..n ELSE p - n \in 1..m
  BY SMT, <1>1, <1>15
<1>7. /\ file2 \in [0..(n + m) -> Nat] /\ item2 \in [0..(n + m) -> Nat]
      /\ \A p \in 0..(n + m) : /\ file2[p] = IF p <= n THEN file[p] ELSE G[p - n]
                               /\ item2[p] = IF p <= n THEN item[p] ELSE H[p - n]
  BY <1>4, <1>6, Zenon
<1> HIDE DEF file2, item2
<1>8. ASSUME NEW p \in 0..(n + m)
      PROVE  /\ file2[p] <= Len(fs2) /\ item2[p] <= Items(fs2, file2[p]) + 1
             /\ file2[p] = 0 => item2[p] > 0
  <2>1. CASE p <= n
    <3>1. p \in 0..n /\ file2[p] = file[p] /\ item2[p] = item[p]
      BY <1>6, <1>7, <2>1, Zenon
    <3>2. file[p] \in Nat /\ file[p] <= Len(fs) /\ (file[p] = 0 => item[p] > 0)
          /\ item[p] <= Items(fs2, file[p]) + 1
      BY <1>3, <1>5, <3>1, Zenon
    <3>3. file[p] <= Len(fs2)
      BY SMT, <1>1, <3>2
    <3> QED
      BY <3>1, <3>2, <3>3, Zenon
  <2>2. CASE ~(p <= n)
    BY <1>6, <1>7, <1>15, <2>2, Zenon DEF Continues
  <2> QED
    BY <2>1, <2>2
<1>9. ASSUME NEW p \in 1..(n + m)
      PROVE  /\ all[p] = Thing(fs2, file2[p], item2[p])
             /\ Follows(fs2, file2[p - 1], item2[p - 1], file2[p], item2[p])
  <2>1. p \in 0..(n + m) /\ p - 1 \in 0..(n + m)
    BY SMT, <1>1, <1>15
  <2>2. CASE p <= n
    <3>1. p \in 0..n /\ p \in 1..n /\ p - 1 \in 0..n /\ p - 1 <= n
      BY SMT, <2>2, <1>1
    <3>2. /\ file2[p] = file[p] /\ item2[p] = item[p]
          /\ file2[p - 1] = file[p - 1] /\ item2[p - 1] = item[p - 1] /\ all[p] = things[p]
      BY <1>2, <1>7, <2>1, <2>2, <3>1, Zenon
    <3>3. /\ things[p] = Thing(fs, file[p], item[p])
          /\ Follows(fs, file[p - 1], item[p - 1], file[p], item[p])
      BY <1>3, <3>1, Zenon
    <3>4. /\ things[p] = Thing(fs2, file[p], item[p])
          /\ Follows(fs2, file[p - 1], item[p - 1], file[p], item[p])
      BY <1>5, <3>1, <3>3, Zenon
    <3> QED
      BY <3>2, <3>4, Zenon
  <2>3. CASE p = n + 1
    <3>1. ~(p <= n) /\ p - n = 1 /\ p - 1 = n /\ n <= n /\ n \in 0..n /\ n \in 0..(n + m) /\ 1 \in 1..m
      BY SMT, <2>3, <1>1, <1>15
    <3>2. /\ file2[p] = G[1] /\ item2[p] = H[1]
          /\ file2[p - 1] = file[n] /\ item2[p - 1] = item[n] /\ all[p] = more[1]
      <4>1. file2[p] = G[1] /\ item2[p] = H[1] /\ all[p] = more[1]
        <5>1. file2[p] = G[p - n] /\ item2[p] = H[p - n]
          BY <1>7, <2>1, <3>1, Zenon
        <5>2. all[p] = more[p - n]
          BY <1>2, <3>1, Zenon
        <5> QED
          BY <3>1, <5>1, <5>2
      <4>2. file2[n] = file[n] /\ item2[n] = item[n]
        BY <1>7, <3>1, Zenon
      <4> QED
        BY <3>1, <4>1, <4>2, Zenon
    <3>3. file[n] = Len(fs) /\ item[n] >= Items(fs2, Len(fs)) /\ item[n] \in Nat
      BY <1>3, <1>5, <3>1, Zenon
    <3>4. Items(fs2, Len(fs)) \in Nat
      BY <1>1, ItemsIsNat
    <3>5. ~(item[n] < Items(fs2, Len(fs)))
      BY SMT, <3>3, <3>4
    <3>6. Follows(fs2, Len(fs), item[n], G[1], H[1])
      BY <1>15, <3>5, Zenon DEF Follows, Continues
    <3> QED
      BY <1>15, <3>1, <3>2, <3>3, <3>6, Zenon DEF Continues
  <2>4. CASE p > n + 1
    <3>1. /\ ~(p <= n) /\ ~(p - 1 <= n) /\ p - n \in 2..m /\ p - n \in 1..m /\ (p - 1) - n = (p - n) - 1
      BY SMT, <2>4, <1>1, <1>15
    <3>2. /\ file2[p] = G[p - n] /\ item2[p] = H[p - n]
          /\ file2[p - 1] = G[(p - n) - 1] /\ item2[p - 1] = H[(p - n) - 1] /\ all[p] = more[p - n]
      BY <1>2, <1>7, <2>1, <3>1, Zenon
    <3> QED
      BY <1>15, <3>1, <3>2, Zenon DEF Continues
  <2>5. p <= n \/ p = n + 1 \/ p > n + 1
    BY SMT, <1>1, <1>15
  <2> QED
    BY <2>2, <2>3, <2>4, <2>5
<1>10. file2[n + m] = Len(fs2) /\ item2[n + m] >= Items(fs2, Len(fs2))
  <2>1. n + m \in 0..(n + m) /\ ~(n + m <= n) /\ (n + m) - n = m
    BY SMT, <1>1, <1>15
  <2> QED
    BY <1>7, <1>15, <2>1, Zenon DEF Continues
<1>11. Numbered(fs2, all, file2, item2)
  BY <1>2, <1>7, <1>8, <1>9, <1>10, Zenon DEF Numbered
<1>12. file2[0] = file[0] /\ item2[0] = item[0]
  <2>1. 0 \in 0..(n + m) /\ 0 <= n
    BY SMT, <1>1, <1>15
  <2> QED
    BY <1>7, <2>1, Zenon
<1>13. file2 \in [0..Len(all) -> Nat] /\ item2 \in [0..Len(all) -> Nat]
  BY <1>2, <1>7, Zenon
<1> QED
  BY <1>0, <1>11, <1>12, <1>13, Zenon DEF all, Numberable

------------------------------------------------------------------------------
(* What is sent but not read, whole, is read in step. *)

IInv == Typed /\ Whole

(* Sending moves the next thing from the client to the network. *)
LEMMA AheadSent ==
  ASSUME NEW S, NEW s \in Seq(S), NEW t \in Seq(S), t # <<>>
  PROVE  Append(s, Head(t)) \o Tail(t) = s \o t
<1> DEFINE u == Append(s, Head(t))
           r == Tail(t)
<1>1. Head(t) \in S /\ r \in Seq(S) /\ Len(r) = Len(t) - 1 /\ \A i \in 1..Len(r) : r[i] = t[i + 1]
  BY HeadTailProperties, Zenon
<1>2. /\ u \in Seq(S) /\ Len(u) = Len(s) + 1
      /\ \A i \in 1..Len(s) : u[i] = s[i]
      /\ u[Len(s) + 1] = Head(t)
  <2>1. Head(t) \in S
    BY <1>1
  <2> QED
    BY <2>1, AppendProperties
<1>3. Head(t) = t[1] /\ Len(s) \in Nat /\ Len(t) \in Nat /\ Len(t) > 0
  BY SMT, LenProperties, EmptySeq
<1> HIDE DEF u, r
<1>4. /\ u \o r \in Seq(S) /\ Len(u \o r) = Len(u) + Len(r)
      /\ \A i \in 1..Len(u) + Len(r) : (u \o r)[i] = IF i <= Len(u) THEN u[i] ELSE r[i - Len(u)]
  BY <1>1, <1>2, ConcatProperties, Zenon
<1>5. /\ s \o t \in Seq(S) /\ Len(s \o t) = Len(s) + Len(t)
      /\ \A i \in 1..Len(s) + Len(t) : (s \o t)[i] = IF i <= Len(s) THEN s[i] ELSE t[i - Len(s)]
  BY ConcatProperties, Zenon
<1>6. Len(u \o r) = Len(s \o t) /\ Len(u) + Len(r) = Len(s) + Len(t)
  BY SMT, <1>1, <1>2, <1>3, <1>4, <1>5
<1>7. ASSUME NEW i \in 1..Len(u \o r) PROVE (u \o r)[i] = (s \o t)[i]
  <2>1. i \in 1..Len(u) + Len(r) /\ i \in 1..Len(s) + Len(t)
    BY <1>4, <1>6, <1>7, Zenon
  <2>2. CASE i <= Len(s)
    <3>1. i \in 1..Len(s) /\ i <= Len(u)
      BY SMT, <1>2, <1>3, <2>2
    <3> QED
      BY <1>2, <1>4, <1>5, <2>1, <2>2, <3>1, Zenon
  <2>3. CASE i = Len(s) + 1
    <3>1. i <= Len(u) /\ ~(i <= Len(s)) /\ i - Len(s) = 1
      BY SMT, <1>2, <1>3, <2>3
    <3>2. (u \o r)[i] = u[i] /\ (s \o t)[i] = t[i - Len(s)]
      BY <1>4, <1>5, <2>1, <3>1, Zenon
    <3> QED
      BY <1>2, <1>3, <2>3, <3>1, <3>2, Zenon
  <2>4. CASE i > Len(s) + 1
    <3>1. /\ ~(i <= Len(u)) /\ ~(i <= Len(s)) /\ i - Len(u) \in 1..Len(r)
          /\ (i - Len(u)) + 1 = i - Len(s)
      BY SMT, <1>1, <1>2, <1>3, <2>1, <2>4
    <3>2. (u \o r)[i] = r[i - Len(u)] /\ (s \o t)[i] = t[i - Len(s)]
      BY <1>4, <1>5, <2>1, <3>1, Zenon
    <3> QED
      BY <1>1, <3>1, <3>2, Zenon
  <2>5. i <= Len(s) \/ i = Len(s) + 1 \/ i > Len(s) + 1
    BY SMT, <1>3
  <2> QED
    BY <2>2, <2>3, <2>4, <2>5
<1>8. u \o r = s \o t
  BY <1>4, <1>5, <1>6, <1>7, SeqEqual, Zenon
<1> QED
  BY <1>8 DEF u, r

(* Receiving takes it from the network. *)
LEMMA AheadRead ==
  ASSUME NEW S, NEW s \in Seq(S), NEW t \in Seq(S), s # <<>>
  PROVE  s \o t # <<>> /\ Head(s \o t) = s[1] /\ Tail(s \o t) = Tail(s) \o t
<1> DEFINE a == s \o t
           r == Tail(s)
<1>1. r \in Seq(S) /\ Len(r) = Len(s) - 1 /\ \A i \in 1..Len(r) : r[i] = s[i + 1]
  BY HeadTailProperties, Zenon
<1>2. /\ a \in Seq(S) /\ Len(a) = Len(s) + Len(t)
      /\ \A i \in 1..Len(s) + Len(t) : a[i] = IF i <= Len(s) THEN s[i] ELSE t[i - Len(s)]
  BY ConcatProperties, Zenon
<1>3. Len(s) \in Nat /\ Len(t) \in Nat /\ Len(s) > 0
  BY SMT, LenProperties, EmptySeq
<1> HIDE DEF a, r
<1>4. a # <<>> /\ Head(a) = a[1] /\ a[1] = s[1]
  <2>1. Len(a) > 0
    BY SMT, <1>2, <1>3
  <2>2. a # <<>> /\ Head(a) = a[1]
    BY SMT, <2>1, <1>2
  <2>3. 1 \in 1..Len(s) + Len(t) /\ 1 <= Len(s)
    BY SMT, <1>3
  <2> QED
    BY <1>2, <2>2, <2>3, Zenon
<1>5. Tail(a) \in Seq(S) /\ Len(Tail(a)) = Len(a) - 1 /\ \A i \in 1..Len(Tail(a)) : Tail(a)[i] = a[i + 1]
  BY <1>2, <1>4, HeadTailProperties, Zenon
<1>6. /\ r \o t \in Seq(S) /\ Len(r \o t) = Len(r) + Len(t)
      /\ \A i \in 1..Len(r) + Len(t) : (r \o t)[i] = IF i <= Len(r) THEN r[i] ELSE t[i - Len(r)]
  BY <1>1, ConcatProperties, Zenon
<1>7. Len(Tail(a)) = Len(r \o t)
  BY SMT, <1>1, <1>2, <1>3, <1>5, <1>6
<1>8. ASSUME NEW i \in 1..Len(Tail(a)) PROVE Tail(a)[i] = (r \o t)[i]
  <2>1. /\ i + 1 \in 1..Len(s) + Len(t) /\ i \in 1..Len(r) + Len(t)
        /\ IF i <= Len(r) THEN i + 1 <= Len(s) /\ i \in 1..Len(r)
                          ELSE ~(i + 1 <= Len(s)) /\ (i + 1) - Len(s) = i - Len(r)
    BY SMT, <1>1, <1>2, <1>3, <1>5
  <2>2. Tail(a)[i] = a[i + 1]
    BY <1>5, <1>8
  <2>3. CASE i <= Len(r)
    BY <1>1, <1>2, <1>6, <2>1, <2>2, <2>3, Zenon
  <2>4. CASE ~(i <= Len(r))
    BY <1>2, <1>6, <2>1, <2>2, <2>4, Zenon
  <2> QED
    BY <2>3, <2>4
<1>9. Tail(a) = r \o t
  BY <1>5, <1>6, <1>7, <1>8, SeqEqual, Zenon
<1> QED
  BY <1>4, <1>9, Zenon DEF a, r

(* A server that reads no more, or is gone, has received what it has. *)
LEMMA EndedWhole ==
  ASSUME Whole, whole' = whole, files' = files, posted' = posted, overrun' = overrun,
         up' = FALSE \/ op' = "none"
  PROVE  Whole'
BY Zenon DEF Whole, FileReceived

(* What the server has read and stored means the same when a file is begun. *)
LEMMA AtKept ==
  ASSUME files \in Seq(File), files' \in Seq(File), Extends(files, files'),
         NEW j \in Nat, NEW i \in Nat, j <= Len(files), j = 0 => i > 0,
         UNCHANGED <<op, got, data>>, UNCHANGED fileVars, At(j, i)
  PROVE  At(j, i)'
<1>1. \A k \in 1..Len(files) : files'[k] = files[k]
  BY DEF Extends
<1>2. /\ Items(files', j) = Items(files, j)
      /\ \A k \in Nat : (j = 0 => k > 0) => Thing(files', j, k) = Thing(files, j, k)
  BY <1>1, ThingKept
<1>3. Thing(files', j, i) = Thing(files, j, i)
  BY <1>2
<1>4. j > 0 => files'[j] = files[j]
  <2> SUFFICES ASSUME j > 0 PROVE files'[j] = files[j]
    OBVIOUS
  <2>1. j \in 1..Len(files)
    BY SMT, LenProperties
  <2> QED
    BY <1>1, <2>1
<1>5. CASE AtCommand(j, i)
  <2>1. AtCommand(j, i)'
    BY <1>2, <1>3, <1>5, Zenon DEF AtCommand, fileVars
  <2> QED
    BY <2>1 DEF At
<1>6. CASE AtFrame(j, i)
  <2>1. files'[j] = files[j]
    BY <1>4, <1>6 DEF AtFrame
  <2>2. AtFrame(j, i)'
    BY <1>2, <1>3, <1>6, <2>1, Zenon DEF AtFrame, fileVars
  <2> QED
    BY <2>2 DEF At
<1> QED
  BY <1>5, <1>6 DEF At

(* A step that leaves what is ahead as it is. *)
LEMMA SameWhole ==
  ASSUME Whole, UNCHANGED <<whole, files, up, op, got, data>>, UNCHANGED fileVars,
         whole => Ahead' = Ahead
  PROVE  Whole'
<1>1. /\ posted' = posted /\ overrun' = overrun /\ total_bytes' = total_bytes
      /\ file_frame_bytes' = file_frame_bytes /\ recv_bytes' = recv_bytes /\ recv_file' = recv_file
  BY Zenon DEF fileVars
<1>2. ASSUME whole, InStep PROVE InStep'
  <2>1. Ahead' = Ahead /\ files' = files
    BY <1>2
  <2>2. ASSUME NEW j, NEW i, At(j, i)
        PROVE  At(j, i)'
    BY <1>1, <2>2, Zenon DEF At, AtCommand, AtFrame
  <2>3. PICK j \in Nat, i \in Nat : Numberable(files, Ahead, j, i) /\ At(j, i)
    BY <1>2, Zenon DEF InStep
  <2>4. At(j, i)'
    BY <2>2, <2>3
  <2>5. Len(data') >= HEADER_LEN + COMMAND_LEN
    BY <1>2, Zenon DEF InStep
  <2> QED
    BY <2>1, <2>3, <2>4, <2>5, Zenon DEF InStep
<1>3. FileReceived => FileReceived'
  BY <1>1, Zenon DEF FileReceived
<1> QED
  BY <1>1, <1>2, <1>3, Zenon DEF Whole

(* The client goes on sending. *)
LEMMA SentOn ==
  ASSUME Typed, InStep, toSend = <<>>, stream' = stream,
         UNCHANGED <<op, got, data>>, UNCHANGED fileVars,
         files' \in Seq(File), Extends(files, files'),
         toSend' \in Seq(Seq(Byte)), Continued(files, files', toSend')
  PROVE  InStep'
<1>1. stream \in Seq(Seq(Byte)) /\ files \in Seq(File)
  BY Zenon DEF Typed, SentTypes, ClientTypes
<1>2. Ahead = stream
  BY <1>1, ConcatEmptySeq DEF Ahead
<1>3. PICK j \in Nat, i \in Nat : Numberable(files, Ahead, j, i) /\ At(j, i)
  BY Zenon DEF InStep
<1>4. Numberable(files, stream, j, i)
  BY <1>2, <1>3
<1>5. Numberable(files', stream \o toSend', j, i)
  BY <1>1, <1>4, Glued
<1>6. Ahead' = stream \o toSend'
  BY DEF Ahead
<1>7. j <= Len(files) /\ (j = 0 => i > 0)
  BY <1>1, <1>4, LastThing
<1>8. At(j, i)'
  BY <1>1, <1>3, <1>7, AtKept
<1>9. Len(data') >= HEADER_LEN + COMMAND_LEN
  BY Zenon DEF InStep
<1> QED
  BY <1>5, <1>6, <1>8, <1>9, Zenon DEF InStep

LEMMA StartFileWhole ==
  ASSUME Typed, Whole, NEW f \in File, StartFile(f)
  PROVE  Whole'
<1>1. /\ toSend = <<>> /\ files' = Append(files, f) /\ toSend' = Sent(f) /\ stream' = stream
      /\ whole' = whole /\ up' = up /\ UNCHANGED <<op, got, data>> /\ UNCHANGED fileVars
  BY Zenon DEF StartFile, Sent, SizesOf
<1>2. files \in Seq(File)
  BY Zenon DEF Typed, ClientTypes
<1>3. /\ files' \in Seq(File) /\ Len(files') = Len(files) + 1
      /\ \A k \in 1..Len(files) : files'[k] = files[k]
      /\ files'[Len(files) + 1] = f
  BY <1>1, <1>2, AppendProperties
<1>4. Len(files) \in Nat /\ Len(files') \in Nat
  BY <1>2, <1>3, LenProperties
<1>5. posted' = posted /\ overrun' = overrun
  BY <1>1, Zenon DEF fileVars
<1>6. FileReceived => FileReceived'
  <2> SUFFICES ASSUME FileReceived, NEW k \in 1..Len(posted)
               PROVE  k <= Len(files') /\ posted[k] = files'[k].bytes
    BY <1>5, Zenon DEF FileReceived
  <2>1. k <= Len(files) /\ posted[k] = files[k].bytes
    BY Zenon DEF FileReceived
  <2>2. Len(posted) \in Nat
    BY Zenon, LenProperties DEF Typed, FileTypes
  <2>3. k \in 1..Len(files) /\ k <= Len(files')
    BY SMT, <1>3, <1>4, <2>1, <2>2
  <2> QED
    BY <1>3, <2>1, <2>3, Zenon
<1>7. Extends(files, files')
  BY SMT, <1>3, <1>4 DEF Extends
<1> DEFINE m == Frames(f) + 1
           j == Len(files) + 1
           G == [q \in 1..m |-> j]
           H == [q \in 1..m |-> q - 1]
<1>8. Frames(f) \in Nat /\ Frames(f) > 0
  BY SMT, FrameCount DEF FileSize
<1>9. m \in Nat /\ m > 0 /\ j \in Nat
  BY SMT, <1>4, <1>8
<1>10. toSend' \in Seq(Seq(Byte)) /\ Len(toSend') = m
       /\ toSend'[1] = SizesOf(f) /\ \A i \in 1..Frames(f) : toSend'[i + 1] = Frame(f, i - 1)
  BY <1>1, SentThings
<1>11. G \in [1..m -> Nat] /\ H \in [1..m -> Nat]
       /\ \A q \in 1..m : G[q] = j /\ H[q] = q - 1
  <2>1. \A q \in 1..m : q - 1 \in Nat
    BY SMT, <1>9
  <2> QED
    BY <1>9, <2>1, Zenon
<1>12. Items(files', j) = Frames(f) /\ j = Len(files')
  <2>1. j # 0
    BY SMT, <1>4
  <2> QED
    BY <1>3, <2>1, Zenon DEF Items
<1> HIDE DEF G, H, j
<1>13. Continues(files, files', toSend', m, G, H)
  <2>1. ASSUME NEW q \in 1..m
        PROVE  /\ G[q] <= Len(files') /\ H[q] <= Items(files', G[q]) + 1
               /\ G[q] = 0 => H[q] > 0
               /\ toSend'[q] = Thing(files', G[q], H[q])
    <3>1. G[q] = j /\ H[q] = q - 1
      BY <1>11
    <3>2. G[q] <= Len(files') /\ H[q] <= Items(files', G[q]) + 1 /\ (G[q] = 0 => H[q] > 0)
      BY SMT, <1>4, <1>8, <1>12, <3>1 DEF j
    <3>3. files'[j] = f
      BY <1>3 DEF j
    <3>4. CASE q = 1
      <4>1. q - 1 = 0
        BY SMT, <3>4
      <4> QED
        BY <1>10, <3>1, <3>2, <3>3, <3>4, <4>1, Zenon DEF Thing
    <3>5. CASE q # 1
      <4>1. q - 1 \in 1..Frames(f) /\ (q - 1) + 1 = q /\ q - 1 # 0 /\ q - 1 <= Frames(f)
        BY SMT, <1>8, <3>5
      <4>2. toSend'[q] = Frame(f, (q - 1) - 1)
        BY <1>10, <4>1
      <4>3. H[q] # 0 /\ H[q] <= Items(files', j)
        BY <1>12, <3>1, <4>1, Zenon
      <4>4. Thing(files', j, H[q]) = Frame(files'[j], H[q] - 1)
        BY <4>3, Zenon DEF Thing
      <4> QED
        BY <3>1, <3>2, <3>3, <4>2, <4>4, Zenon
    <3> QED
      BY <3>2, <3>4, <3>5, Zenon
  <2>2. G[1] = Len(files) + 1 /\ H[1] = 0
    <3>1. 1 \in 1..m /\ 1 - 1 = 0
      BY SMT, <1>8
    <3> QED
      BY <1>11, <3>1, Zenon DEF j
  <2>3. ASSUME NEW q \in 2..m PROVE Follows(files', G[q - 1], H[q - 1], G[q], H[q])
    <3>1. q \in 1..m /\ q - 1 \in 1..m /\ (q - 1) - 1 < Frames(f) /\ q - 1 = ((q - 1) - 1) + 1
      BY SMT, <1>8
    <3>2. G[q] = j /\ H[q] = q - 1 /\ G[q - 1] = j /\ H[q - 1] = (q - 1) - 1
      BY <1>11, <3>1, Zenon
    <3> QED
      BY <1>12, <3>1, <3>2, Zenon DEF Follows
  <2>4. G[m] = Len(files') /\ H[m] >= Items(files', Len(files'))
    <3>1. m \in 1..m /\ m - 1 >= Frames(f)
      BY SMT, <1>8
    <3> QED
      BY <1>11, <1>12, <3>1, Zenon
  <2> QED
    BY <2>1, <2>2, <2>3, <2>4, Zenon DEF Continues
<1> HIDE DEF m
<1>14. Continued(files, files', toSend')
  BY <1>9, <1>10, <1>11, <1>13, Zenon DEF Continued
<1>15. InStep => InStep'
  BY <1>1, <1>3, <1>7, <1>10, <1>14, SentOn
<1> QED
  BY <1>1, <1>5, <1>6, <1>15, Zenon DEF Whole

LEMMA SayAliveWhole ==
  ASSUME Typed, Whole, SayAlive
  PROVE  Whole'
<1>1. /\ toSend = <<>> /\ files' = files /\ toSend' = <<Command(ALIVE)>> /\ stream' = stream
      /\ whole' = whole /\ up' = up /\ UNCHANGED <<op, got, data>> /\ UNCHANGED fileVars
  BY Zenon DEF SayAlive
<1>2. files \in Seq(File) /\ Len(files) \in Nat
  BY LenProperties, Zenon DEF Typed, ClientTypes
<1>3. toSend' \in Seq(Seq(Byte)) /\ Len(toSend') = 1 /\ toSend'[1] = Command(ALIVE)
  <2> DEFINE x == Command(ALIVE)
  <2>1. x \in Seq(Byte)
    BY AliveBytes
  <2> HIDE DEF x
  <2>2. <<x>> \in Seq(Seq(Byte)) /\ Len(<<x>>) = 1 /\ <<x>>[1] = x
    BY SMT, <2>1
  <2> QED
    BY <1>1, <2>2, Zenon DEF x
<1>4. Extends(files, files')
  BY SMT, <1>1, <1>2 DEF Extends
<1> DEFINE j == Len(files)
           k == Items(files, j) + 1
           G == [q \in 1..1 |-> j]
           H == [q \in 1..1 |-> k]
<1>5. Items(files, j) \in Nat /\ k \in Nat /\ k > 0 /\ k # 0 /\ ~(k <= Items(files, j)) /\ j <= j
      /\ k <= Items(files, j) + 1 /\ k >= Items(files, j)
  <2>1. Items(files, j) \in Nat
    BY SMT, <1>2, ItemsIsNat
  <2> QED
    BY SMT, <1>2, <2>1
<1> HIDE DEF k
<1>6. G \in [1..1 -> Nat] /\ H \in [1..1 -> Nat] /\ \A q \in 1..1 : G[q] = j /\ H[q] = k
  BY <1>2, <1>5, Zenon
<1> HIDE DEF G, H
<1>7. Thing(files, j, k) = Command(ALIVE)
  BY <1>5, Zenon DEF Thing
<1>8. Continues(files, files', toSend', 1, G, H)
  <2>1. 1 \in 1..1 /\ 2..1 = {} /\ \A q \in 1..1 : q = 1
    BY SMT
  <2>2. G[1] = j /\ H[1] = k
    BY <1>6, <2>1, Zenon
  <2>3. k = Items(files', j) + 1
    BY <1>1, Zenon DEF k
  <2>4. \A q \in 1..1 : /\ G[q] <= Len(files') /\ H[q] <= Items(files', G[q]) + 1
                        /\ G[q] = 0 => H[q] > 0
                        /\ toSend'[q] = Thing(files', G[q], H[q])
    BY <1>1, <1>3, <1>5, <1>6, <1>7, <2>1, Zenon
  <2>5. \A q \in 2..1 : Follows(files', G[q - 1], H[q - 1], G[q], H[q])
    BY <2>1, Zenon
  <2>6. G[1] = Len(files') /\ H[1] >= Items(files', Len(files'))
    BY <1>1, <1>5, <2>2, Zenon
  <2> QED
    BY <2>2, <2>3, <2>4, <2>5, <2>6, Zenon DEF Continues
<1>9. InStep => InStep'
  <2>1. 1 \in Nat /\ 1 > 0
    BY SMT
  <2>2. files' \in Seq(File)
    BY <1>1, <1>2
  <2>3. Continued(files, files', toSend')
    BY <1>3, <1>6, <1>8, <2>1, Zenon DEF Continued
  <2> QED
    BY <1>1, <1>3, <1>4, <2>2, <2>3, SentOn
<1>10. FileReceived => FileReceived'
  BY <1>1, Zenon DEF FileReceived, fileVars
<1>11. overrun' = overrun
  BY <1>1, Zenon DEF fileVars
<1> QED
  BY <1>1, <1>9, <1>10, <1>11, Zenon DEF Whole

LEMMA SendWhole ==
  ASSUME Typed, Whole, Send
  PROVE  Whole'
<1>1. /\ toSend # <<>> /\ toSend' = Tail(toSend)
      /\ whole => stream' = Append(stream, Head(toSend))
      /\ UNCHANGED <<whole, files, up, op, got, data>> /\ UNCHANGED fileVars
  BY Zenon DEF Send
<1>2. stream \in Seq(Seq(Byte)) /\ toSend \in Seq(Seq(Byte))
  BY Zenon DEF Typed, SentTypes
<1>3. whole => Ahead' = Ahead
  BY <1>1, <1>2, AheadSent DEF Ahead
<1> QED
  BY <1>1, <1>3, SameWhole

(* A command or a frame, by what has been read of the file. *)
LEMMA NextIsCommand ==
  ASSUME NEW fs \in Seq(File), NEW j \in Nat, NEW i \in Nat, j <= Len(fs), i >= Items(fs, j),
         NEW j2 \in Nat, NEW i2 \in Nat, j2 <= Len(fs), Follows(fs, j, i, j2, i2)
  PROVE  /\ Thing(fs, j2, i2) \in Seq(Byte)
         /\ Len(Thing(fs, j2, i2)) \in 1..(HEADER_LEN + COMMAND_LEN)
         /\ i2 = 0 \/ i2 > Items(fs, j2)
         /\ j = IF i2 = 0 THEN j2 - 1 ELSE j2
<1>1. Items(fs, j) \in Nat
  BY ItemsIsNat
<1>2. ~(i < Items(fs, j))
  BY SMT, <1>1
<1>3. \/ j2 = j + 1 /\ i2 = 0
      \/ j2 = j /\ i2 = Items(fs, j) + 1
  BY <1>2, Zenon DEF Follows
<1>4. CASE j2 = j + 1 /\ i2 = 0
  <2>1. j2 > 0 /\ j = j2 - 1
    BY SMT, <1>4
  <2>2. fs[j2] \in File
    BY <2>1, ItemsIsNat
  <2>3. Thing(fs, j2, i2) = SizesOf(fs[j2])
    BY <1>4, Zenon DEF Thing
  <2>4. Thing(fs, j2, i2) \in Seq(Byte) /\ Len(Thing(fs, j2, i2)) = HEADER_LEN + COMMAND_LEN
    BY <2>2, <2>3, FileBytes
  <2>5. Len(Thing(fs, j2, i2)) \in 1..(HEADER_LEN + COMMAND_LEN)
    BY SMT, <2>4 DEF HEADER_LEN, COMMAND_LEN
  <2> QED
    BY <1>4, <2>1, <2>4, <2>5, Zenon
<1>5. CASE j2 = j /\ i2 = Items(fs, j) + 1
  <2>1. i2 # 0 /\ ~(i2 <= Items(fs, j2)) /\ i2 > Items(fs, j2)
    BY SMT, <1>1, <1>5
  <2>2. Thing(fs, j2, i2) = Command(ALIVE)
    BY <2>1, Zenon DEF Thing
  <2>3. Thing(fs, j2, i2) \in Seq(Byte) /\ Len(Thing(fs, j2, i2)) = 9
    BY <2>2, AliveBytes
  <2>4. Len(Thing(fs, j2, i2)) \in 1..(HEADER_LEN + COMMAND_LEN)
    BY SMT, <2>3 DEF HEADER_LEN, COMMAND_LEN
  <2> QED
    BY <1>5, <2>1, <2>3, <2>4, Zenon
<1> QED
  BY <1>3, <1>4, <1>5

\* A frame of the file j is waited for, and what follows comes ...
FrameAwaited(fs, j, i, j2, i2) ==
  /\ fs \in Seq(File) /\ j \in Nat /\ i \in Nat /\ j2 \in Nat /\ i2 \in Nat
  /\ j > 0 /\ j <= Len(fs) /\ i < Items(fs, j)
  /\ Follows(fs, j, i, j2, i2)

\* ... which is that frame.
FrameComes(fs, j, i, j2, i2) ==
  /\ j2 = j /\ i2 = i + 1 /\ i2 > 0 /\ i2 <= Items(fs, j) /\ i2 - 1 = i
  /\ Thing(fs, j2, i2) = Frame(fs[j], i)
  /\ Thing(fs, j2, i2) \in Seq(Byte)
  /\ Len(Thing(fs, j2, i2)) = HEADER_LEN + fs[j].frame

LEMMA NextIsFrame ==
  ASSUME NEW fs, NEW j, NEW i, NEW j2, NEW i2, FrameAwaited(fs, j, i, j2, i2)
  PROVE  FrameComes(fs, j, i, j2, i2)
<1>0. /\ fs \in Seq(File) /\ j \in Nat /\ i \in Nat /\ j2 \in Nat /\ i2 \in Nat
      /\ j > 0 /\ j <= Len(fs) /\ i < Items(fs, j)
      /\ Follows(fs, j, i, j2, i2)
  BY Zenon DEF FrameAwaited
<1>1. Items(fs, j) \in Nat /\ fs[j] \in File
  BY <1>0, ItemsIsNat
<1>2. j2 = j /\ i2 = i + 1
  BY <1>0, Zenon DEF Follows
<1>3. i2 > 0 /\ i2 # 0 /\ i2 <= Items(fs, j) /\ i2 - 1 = i
  BY SMT, <1>0, <1>1, <1>2
<1>4. Thing(fs, j2, i2) = Frame(fs[j], i)
  BY <1>2, <1>3, Zenon DEF Thing
<1>5. Frame(fs[j], i) \in Seq(Byte) /\ Len(Frame(fs[j], i)) = HEADER_LEN + fs[j].frame
  BY <1>0, <1>1, FrameBytes
<1> QED
  BY <1>2, <1>3, <1>4, <1>5, Zenon DEF FrameComes

(* A read brings what the command or the frame that is waited for is. *)
LEMMA ReceiveWhole ==
  ASSUME Typed, Whole, Receive
  PROVE  Whole'
<1>1. /\ up /\ op # "none" /\ ~Complete /\ stream # <<>> /\ stream[1] \in Seq(Byte)
      /\ UNCHANGED clientVars /\ UNCHANGED <<up, op>> /\ UNCHANGED fileVars
      /\ \E n \in 1..Len(stream[1]) :
              /\ got + n <= Len(data)
              /\ whole => n = Min({Len(stream[1]), Len(data) - got})
              /\ data' = Read(n) /\ got' = got + n /\ stream' = Unread(n)
  BY ReceiveReads, Zenon
<1>2. whole' = whole /\ files' = files /\ posted' = posted /\ overrun' = overrun /\ toSend' = toSend
  BY <1>1, Zenon DEF clientVars, fileVars
<1>3. FileReceived => FileReceived'
  BY <1>2, Zenon DEF FileReceived
<1>4. ASSUME whole, InStep PROVE InStep'
  <2>1. PICK n \in 1..Len(stream[1]) : /\ n = Min({Len(stream[1]), Len(data) - got})
                                       /\ data' = Read(n) /\ got' = got + n /\ stream' = Unread(n)
    BY <1>1, <1>4, Zenon
  <2>2. PICK j \in Nat, i \in Nat : Numberable(files, Ahead, j, i) /\ At(j, i)
    BY <1>4, Zenon DEF InStep
  <2>3. files \in Seq(File) /\ stream \in Seq(Seq(Byte)) /\ toSend \in Seq(Seq(Byte))
    BY Zenon DEF Typed, ClientTypes, SentTypes
  <2>4. /\ Ahead \in Seq(Seq(Byte)) /\ Ahead # <<>>
        /\ Head(Ahead) = stream[1] /\ Tail(Ahead) = Tail(stream) \o toSend
    BY <1>1, <2>3, AheadRead, ConcatProperties DEF Ahead
  <2>5. PICK j2 \in Nat, i2 \in Nat : /\ Numberable(files, Tail(Ahead), j2, i2)
                                      /\ stream[1] = Thing(files, j2, i2)
                                      /\ Follows(files, j, i, j2, i2)
    BY <2>2, <2>3, <2>4, NextThing
  <2>6. Tail(Ahead) \in Seq(Seq(Byte))
    BY <2>4, HeadTailProperties
  <2>7. j <= Len(files) /\ j2 <= Len(files)
    BY <2>2, <2>3, <2>4, <2>5, <2>6, LastThing
  <2>8. Len(data) \in Nat /\ Len(data) >= 16 /\ Len(stream[1]) \in Nat
    BY SMT, <1>1, <1>4, PackageIs, LenProperties DEF InStep, HEADER_LEN, COMMAND_LEN
  \* Nothing that was read before is left in the package ...
  <2>9. got = 0
    <3>1. CASE AtCommand(j, i)
      BY SMT, <1>1, <3>1, PackageIs DEF AtCommand, Complete
    <3>2. CASE AtFrame(j, i)
      <4>1. got = 0 \/ got = Len(data)
        BY <3>2, Zenon DEF AtFrame
      <4>2. got = Len(data) => got > 0
        BY SMT, <2>8
      <4> QED
        BY <1>1, <4>1, <4>2, Zenon DEF Complete
    <3> QED
      BY <2>2, <3>1, <3>2 DEF At
  \* ... and what comes fits in.
  <2>10. Len(stream[1]) <= Len(data)
    <3>1. CASE AtCommand(j, i)
      <4>1. i >= Items(files, j)
        BY <2>9, <3>1 DEF AtCommand
      <4>2. Len(Thing(files, j2, i2)) \in 1..(HEADER_LEN + COMMAND_LEN)
        BY <2>3, <2>5, <2>7, <4>1, NextIsCommand
      <4>3. Len(stream[1]) \in 1..(HEADER_LEN + COMMAND_LEN)
        BY <2>5, <4>2
      <4> DEFINE a == Len(stream[1])
      <4>4. a \in 1..16
        BY SMT, <4>3 DEF HEADER_LEN, COMMAND_LEN
      <4> HIDE DEF a
      <4>5. a <= Len(data)
        BY SMT, <2>8, <4>4
      <4> QED
        BY <4>5 DEF a
    <3>2. CASE AtFrame(j, i)
      <4>1. j > 0 /\ i < Items(files, j) /\ Len(data) = HEADER_LEN + files[j].frame
        BY <2>9, <3>2 DEF AtFrame
      <4>2. FrameComes(files, j, i, j2, i2)
        <5>1. FrameAwaited(files, j, i, j2, i2)
          BY <2>2, <2>3, <2>5, <2>7, <4>1, Zenon DEF FrameAwaited
        <5> QED
          BY <5>1, NextIsFrame, Zenon
      <4>3. Len(Thing(files, j2, i2)) = HEADER_LEN + files[j].frame
        BY <4>2, Zenon DEF FrameComes
      <4> QED
        BY SMT, <2>5, <2>8, <4>1, <4>3
    <3> QED
      BY <2>2, <3>1, <3>2 DEF At
  <2>11. n = Len(stream[1])
    <3> DEFINE a == Len(stream[1])
               b == Len(data) - got
    <3>1. a \in Int /\ b \in Int /\ a <= b /\ n = Min({a, b})
      BY SMT, <2>1, <2>8, <2>9, <2>10
    <3> HIDE DEF a, b
    <3>2. Min({a, b}) \in {a, b} /\ Min({a, b}) <= a /\ Min({a, b}) <= b
      BY <3>1, SmallerOfTwo
    <3>3. n = a
      BY SMT, <3>1, <3>2
    <3> QED
      BY <3>3 DEF a
  <2>12. stream' = Tail(stream) /\ got' = Len(stream[1]) /\ got' > 0
    <3>1. stream' = Tail(stream)
      BY <2>1, <2>11, Zenon DEF Unread
    <3>2. got' = got + n /\ n > 0
      BY SMT, <2>1, <2>8
    <3> QED
      BY SMT, <2>8, <2>9, <2>11, <3>1, <3>2
  <2>13. Ahead' = Tail(Ahead)
    BY <1>2, <2>4, <2>12, Zenon DEF Ahead
  <2>14. /\ Len(data') = Len(data) /\ data' \in Seq(Byte)
         /\ \A k \in 1..got' : data'[k] = stream[1][k]
    <3>1. data' \in Seq(Byte)
      BY ReceiveTyped, Zenon DEF Typed, ReadTypes, PackageTypes
    <3>2. data' = [k \in 1..Len(data) |-> IF k \in (got + 1)..(got + n) THEN stream[1][k - got] ELSE data[k]]
      BY <2>1, Zenon DEF Read
    <3>3. \A k \in 1..got' : k \in 1..Len(data) /\ k \in (got + 1)..(got + n) /\ k - got = k
      BY SMT, <2>8, <2>9, <2>10, <2>11, <2>12
    <3>4. \A k \in 1..got' : data'[k] = stream[1][k]
      BY <3>2, <3>3, Zenon
    <3>5. Len(data') = Len(data)
      BY SMT, <3>2, <2>8
    <3> QED
      BY <3>1, <3>4, <3>5
  <2>15. At(j2, i2)'
    <3>1. CASE AtCommand(j, i)
      <4>1. i >= Items(files, j) /\ Len(posted) = j /\ op = "command"
        BY <2>9, <3>1 DEF AtCommand
      <4>2. /\ i2 = 0 \/ i2 > Items(files, j2)
            /\ j = IF i2 = 0 THEN j2 - 1 ELSE j2
        BY <2>3, <2>5, <2>7, <4>1, NextIsCommand
      <4>3. got' # 0
        BY SMT, <2>12, <2>8
      <4>4. AtCommand(j2, i2)'
        BY <1>1, <1>2, <2>5, <2>12, <2>14, <4>1, <4>2, <4>3, Zenon DEF AtCommand
      <4> QED
        BY <4>4 DEF At
    <3>2. CASE AtFrame(j, i)
      <4>1. /\ j > 0 /\ i < Items(files, j) /\ Len(data) = HEADER_LEN + files[j].frame
            /\ op \in {"first frame", "frame"} /\ Len(posted) = j - 1
            /\ total_bytes = Len(files[j].bytes) /\ file_frame_bytes = files[j].frame
            /\ recv_bytes = i * files[j].frame
            /\ \A k \in 1..recv_bytes : recv_file[k] = files[j].bytes[k]
        BY <2>9, <3>2, Zenon DEF AtFrame
      <4>2. /\ j2 = j /\ i2 > 0 /\ i2 <= Items(files, j) /\ i2 - 1 = i
            /\ Len(Thing(files, j2, i2)) = HEADER_LEN + files[j].frame
        <5>1. FrameAwaited(files, j, i, j2, i2)
          BY <2>2, <2>3, <2>5, <2>7, <4>1, Zenon DEF FrameAwaited
        <5>2. FrameComes(files, j, i, j2, i2)
          BY <5>1, NextIsFrame, Zenon
        <5> QED
          BY <5>2, Zenon DEF FrameComes
      <4>3. got' = Len(data') /\ got' # 0
        <5>1. Len(stream[1]) = HEADER_LEN + files[j].frame
          BY <2>5, <4>2, Zenon
        <5>2. Len(stream[1]) = Len(data)
          BY <4>1, <5>1, Zenon
        <5> QED
          BY SMT, <2>8, <2>12, <2>14, <5>2
      <4>4. data' = stream[1]
        <5>1. Len(data') = Len(stream[1]) /\ \A k \in 1..Len(data') : data'[k] = stream[1][k]
          BY <2>12, <2>14, <4>3, Zenon
        <5> QED
          BY <1>1, <2>14, <5>1, SeqEqual, Zenon
      <4>5. /\ total_bytes' = total_bytes /\ file_frame_bytes' = file_frame_bytes
            /\ recv_bytes' = recv_bytes /\ recv_file' = recv_file
        BY <1>1, Zenon DEF fileVars
      <4>6. recv_bytes' = (i2 - 1) * files[j2].frame
        BY <4>1, <4>2, <4>5, Zenon
      <4>7. Len(data') = HEADER_LEN + files[j2].frame
        BY <2>14, <4>1, <4>2, Zenon
      <4>8. AtFrame(j2, i2)'
        BY <1>1, <1>2, <2>5, <4>1, <4>2, <4>3, <4>4, <4>5, <4>6, <4>7, Zenon DEF AtFrame
      <4> QED
        BY <4>8 DEF At
    <3> QED
      BY <2>2, <3>1, <3>2 DEF At
  <2>16. Len(data') >= HEADER_LEN + COMMAND_LEN
    BY <1>4, <2>14, Zenon DEF InStep
  <2> QED
    BY <1>2, <2>5, <2>13, <2>15, <2>16, Zenon DEF InStep
<1> QED
  BY <1>1, <1>2, <1>3, <1>4, Zenon DEF Whole

------------------------------------------------------------------------------
(* The commands. *)

(* The command that has been read whole is the one that was sent. *)
LEMMA CommandRead ==
  ASSUME files \in Seq(File), NEW j \in Nat, NEW i \in Nat, j <= Len(files), j = 0 => i > 0,
         AtCommand(j, i), got # 0
  PROVE  /\ i = 0 \/ i > Items(files, j)
         /\ i = 0 => /\ Says(FILE) /\ files[j] \in File /\ got = 16 /\ j > 0 /\ Len(posted) = j - 1
                     /\ \A k \in 1..16 : data[k] = SizesOf(files[j])[k]
         /\ i > Items(files, j) => ~Says(FILE) /\ Says(ALIVE)
<1>1. /\ i = 0 \/ i > Items(files, j)
      /\ Len(posted) = IF i = 0 THEN j - 1 ELSE j
      /\ got = Len(Thing(files, j, i)) /\ \A k \in 1..got : data[k] = Thing(files, j, i)[k]
  BY Zenon DEF AtCommand
<1>2. ASSUME i = 0
      PROVE  /\ Says(FILE) /\ files[j] \in File /\ got = 16 /\ j > 0 /\ Len(posted) = j - 1
             /\ \A k \in 1..16 : data[k] = SizesOf(files[j])[k]
  <2>1. j > 0
    BY SMT, <1>2
  <2>2. files[j] \in File
    BY <2>1, ItemsIsNat
  <2>3. Thing(files, j, i) = SizesOf(files[j])
    BY <1>2, Zenon DEF Thing
  <2>4. /\ Len(SizesOf(files[j])) = HEADER_LEN + COMMAND_LEN
        /\ \A k \in 1..4 : SizesOf(files[j])[HEADER_LEN + k] = FILE[k]
    BY <2>2, FileBytes
  <2>5. got = 16
    BY SMT, <1>1, <2>3, <2>4 DEF HEADER_LEN, COMMAND_LEN
  <2>6. \A k \in 1..16 : data[k] = SizesOf(files[j])[k]
    BY <1>1, <2>3, <2>5, Zenon
  <2>7. \A k \in 1..4 : data[HEADER_LEN + k] = FILE[k]
    <3>1. \A k \in 1..4 : HEADER_LEN + k \in 1..16
      BY SMT DEF HEADER_LEN
    <3> QED
      BY <2>4, <2>6, <3>1, Zenon
  <2>8. Len(FILE) = 4 /\ got - HEADER_LEN = 12
    BY SMT, <2>5 DEF FILE, HEADER_LEN
  <2>9. Min({12, 4}) <= 4 /\ Min({12, 4}) \in {12, 4}
    <3>1. 12 \in Int /\ 4 \in Int
      BY SMT
    <3> QED
      BY <3>1, SmallerOfTwo
  <2>10. \A k \in 1..Min({12, 4}) : k \in 1..4
    BY SMT, <2>9
  <2>11. Says(FILE)
    BY <2>7, <2>8, <2>10, Zenon DEF Says
  <2> QED
    BY <1>1, <1>2, <2>1, <2>2, <2>5, <2>6, <2>11, Zenon
<1>3. ASSUME i > Items(files, j)
      PROVE  ~Says(FILE) /\ Says(ALIVE)
  <2>1. Items(files, j) \in Nat
    BY ItemsIsNat
  <2>2. i # 0 /\ ~(i <= Items(files, j))
    BY SMT, <1>3, <2>1
  <2>3. Thing(files, j, i) = Command(ALIVE)
    BY <2>2, Zenon DEF Thing
  <2>4. got = 9 /\ \A k \in 1..9 : data[k] = Command(ALIVE)[k]
    BY <1>1, <2>3, AliveBytes, Zenon
  <2>5. \A k \in 1..5 : data[HEADER_LEN + k] = ALIVE[k]
    BY SMT, <2>4, AliveBytes DEF HEADER_LEN
  <2>6. Len(FILE) = 4 /\ Len(ALIVE) = 5 /\ got - HEADER_LEN = 5
    BY SMT, <2>4 DEF FILE, ALIVE, HEADER_LEN
  <2>7. Min({5, 4}) = 4 /\ Min({5, 5}) = 5
    <3>1. 4 \in Int /\ 5 \in Int
      BY SMT
    <3>2. Min({5, 4}) \in {5, 4} /\ Min({5, 4}) <= 4 /\ Min({5, 5}) \in {5, 5}
      BY <3>1, SmallerOfTwo
    <3> QED
      BY SMT, <3>2
  <2>8. 1 \in 1..4 /\ 1 \in 1..5 /\ FILE[1] = 70 /\ ALIVE[1] = 65 /\ 65 # 70
    BY SMT DEF FILE, ALIVE
  <2>9. ~Says(FILE)
    <3>1. data[HEADER_LEN + 1] # FILE[1]
      BY <2>5, <2>8
    <3>2. 1 \in 1..Min({got - HEADER_LEN, Len(FILE)})
      BY <2>6, <2>7, <2>8, Zenon
    <3> QED
      BY <3>1, <3>2, Zenon DEF Says
  <2>10. Says(ALIVE)
    BY <2>5, <2>6, <2>7, Zenon DEF Says
  <2> QED
    BY <2>9, <2>10
<1> QED
  BY <1>1, <1>2, <1>3, Zenon

(* The sizes in the command are those of the file. *)
LEMMA SizesRead ==
  ASSUME Len(data) >= 16, Len(data) \in Nat, NEW f \in File, \A k \in 1..16 : data[k] = SizesOf(f)[k]
  PROVE  SizeAt(8) = Len(f.bytes) /\ SizeAt(12) = f.frame
<1>1. \A k \in 1..4 : /\ 8 + k <= Len(data) /\ 12 + k <= Len(data)
                      /\ 8 + k \in 1..16 /\ 12 + k \in 1..16
  BY SMT
<1>2. Len(f.bytes) \in FileSize /\ f.frame \in FileSize
  BY SessionAssumption, Zenon
<1> DEFINE total == [k \in 1..4 |-> IF 8 + k <= Len(data) THEN data[8 + k] ELSE Fill]
           frame == [k \in 1..4 |-> IF 12 + k <= Len(data) THEN data[12 + k] ELSE Fill]
<1>3. \A k \in 1..4 : total[k] = data[8 + k] /\ frame[k] = data[12 + k]
  BY <1>1, Zenon
<1>4. SizeAt(8) = AsInt(total) /\ SizeAt(12) = AsInt(frame)
  BY Zenon DEF SizeAt
<1> HIDE DEF total, frame
<1>5. \A k \in 1..4 : /\ total[k] = SerializeInt(Len(f.bytes))[k]
                      /\ frame[k] = SerializeInt(f.frame)[k]
  BY <1>1, <1>3, FileBytes, Zenon
<1> QED
  BY <1>2, <1>4, <1>5, IntReadBack, Zenon

LEMMA CommandFileWhole ==
  ASSUME Typed, Whole, CommandFile
  PROVE  Whole'
<1> DEFINE total == SizeAt(8)
           frame == SizeAt(12)
<1>1. /\ up /\ op = "command" /\ Complete /\ Says(FILE)
      /\ whole' = whole /\ files' = files /\ toSend' = toSend /\ stream' = stream
      /\ posted' = posted /\ overrun' = overrun
  BY Zenon DEF CommandFile, Handles, clientVars
<1>2. CASE ~(total \in 0..MaxAlloc /\ frame \in 0..MaxAlloc)
  <2>1. up' = FALSE
    BY <1>2, Zenon DEF CommandFile
  <2> QED
    BY <1>1, <2>1, EndedWhole
<1>3. CASE total \in 0..MaxAlloc /\ frame \in 0..MaxAlloc
  <2>1. /\ total_bytes' = total /\ file_frame_bytes' = frame /\ recv_bytes' = 0
        /\ op' = "first frame" /\ got' = 0
        /\ data' = IF frame = Len(data) - HEADER_LEN THEN data ELSE Fresh(HEADER_LEN + frame)
    BY <1>3, Zenon DEF CommandFile
  <2> HIDE DEF total, frame
  <2>2. ASSUME whole, InStep PROVE InStep'
    <3>1. PICK j \in Nat, i \in Nat : Numberable(files, Ahead, j, i) /\ At(j, i)
      BY <2>2, Zenon DEF InStep
    <3>2. files \in Seq(File) /\ Ahead \in Seq(Seq(Byte)) /\ Ahead' = Ahead
      BY <1>1, ConcatProperties, Zenon DEF Typed, ClientTypes, SentTypes, Ahead
    <3>3. j <= Len(files) /\ (j = 0 => i > 0)
      BY <3>1, <3>2, LastThing
    <3>4. AtCommand(j, i)
      BY <1>1, <3>1 DEF At, AtFrame
    <3>5. got # 0
      BY SMT, <1>1, PackageIs DEF Complete
    <3>6. /\ i = 0 /\ files[j] \in File /\ j > 0 /\ Len(posted) = j - 1
          /\ \A k \in 1..16 : data[k] = SizesOf(files[j])[k]
      BY <1>1, <3>2, <3>3, <3>4, <3>5, CommandRead
    <3>7. Len(data) >= 16 /\ Len(data) \in Nat
      BY SMT, <2>2, PackageIs DEF InStep, HEADER_LEN, COMMAND_LEN
    <3>8. total = Len(files[j].bytes) /\ frame = files[j].frame
      BY <3>6, <3>7, SizesRead DEF total, frame
    <3>9. frame \in Nat /\ frame >= COMMAND_LEN
      BY SMT, <3>6, <3>8, SessionAssumption DEF FileSize
    <3>10. Len(data') = HEADER_LEN + frame
      <4>1. HEADER_LEN + frame \in Nat
        BY SMT, <3>9 DEF HEADER_LEN
      <4>2. Len(Fresh(HEADER_LEN + frame)) = HEADER_LEN + frame
        BY <4>1, FreshBytes
      <4>3. frame = Len(data) - HEADER_LEN => Len(data) = HEADER_LEN + frame
        BY SMT, <3>7, <3>9 DEF HEADER_LEN
      <4> QED
        BY <2>1, <4>2, <4>3, Zenon
    <3>11. Len(data') >= HEADER_LEN + COMMAND_LEN
      BY SMT, <3>9, <3>10 DEF HEADER_LEN, COMMAND_LEN
    <3>12. i < Items(files, j) /\ recv_bytes' = i * files[j].frame
      <4>1. Items(files, j) \in Nat /\ Items(files, j) > 0
        BY <3>2, <3>3, <3>6, ItemsIsNat
      <4>2. 0 * files[j].frame = 0
        BY SMT, <3>8, <3>9
      <4> QED
        BY <2>1, <3>6, <4>1, <4>2, Zenon
    <3>13. \A k \in 1..recv_bytes' : recv_file'[k] = files[j].bytes[k]
      <4>1. 1..0 = {}
        BY SMT
      <4> QED
        BY <2>1, <4>1, Zenon
    <3>14. AtFrame(j, i)'
      BY <1>1, <2>1, <3>6, <3>8, <3>10, <3>12, <3>13, Zenon DEF AtFrame
    <3> QED
      BY <1>1, <3>1, <3>2, <3>11, <3>14, Zenon DEF InStep, At
  <2>3. FileReceived => FileReceived'
    BY <1>1, Zenon DEF FileReceived
  <2>4. up /\ op # "none"
    BY <1>1
  <2> QED
    BY <1>1, <2>2, <2>3, <2>4, Zenon DEF Whole
<1> QED
  BY <1>2, <1>3

(* Nothing is sent that is no command the server knows. *)
LEMMA CommandOtherWhole ==
  ASSUME Typed, Whole, CommandOther
  PROVE  Whole'
<1>1. /\ up /\ op = "command" /\ Complete /\ ~Says(FILE) /\ ~Says(ALIVE)
      /\ whole' = whole /\ files' = files /\ posted' = posted /\ overrun' = overrun
  BY Zenon DEF CommandOther, Handles, clientVars, fileVars
<1>2. ASSUME InStep PROVE FALSE
  <2>1. PICK j \in Nat, i \in Nat : Numberable(files, Ahead, j, i) /\ At(j, i)
    BY <1>2, Zenon DEF InStep
  <2>2. files \in Seq(File) /\ Ahead \in Seq(Seq(Byte))
    BY ConcatProperties, Zenon DEF Typed, ClientTypes, SentTypes, Ahead
  <2>3. j <= Len(files) /\ (j = 0 => i > 0)
    BY <2>1, <2>2, LastThing
  <2>4. AtCommand(j, i)
    BY <1>1, <2>1 DEF At, AtFrame
  <2>5. got # 0
    BY SMT, <1>1, PackageIs DEF Complete
  <2> QED
    BY <1>1, <2>2, <2>3, <2>4, <2>5, CommandRead
<1> QED
  BY <1>1, <1>2, Zenon DEF Whole

------------------------------------------------------------------------------
(* The frames. *)

\* What is known of a whole frame of the file f, its i-th, when it has been read.
FrameRead(f, j, i) ==
  /\ f \in File /\ f = files[j] /\ j \in 1..Len(files) /\ Items(files, j) = Frames(f)
  /\ Len(posted) = j - 1
  /\ i \in 1..Frames(f) /\ data = Frame(f, i - 1) /\ got = HEADER_LEN + f.frame
  /\ total_bytes = Len(f.bytes) /\ file_frame_bytes = f.frame
  /\ recv_bytes = (i - 1) * f.frame
  /\ \A k \in 1..recv_bytes : recv_file[k] = f.bytes[k]

(* It is known of every frame that comes to be handled. *)
LEMMA InTransferReads ==
  ASSUME Typed, InStep, InTransfer
  PROVE  /\ Len(data) >= HEADER_LEN + COMMAND_LEN
         /\ \E f \in File, j \in Nat, i \in Nat :
              Numberable(files, Ahead, j, i) /\ FrameRead(f, j, i) /\ Len(data) = HEADER_LEN + f.frame
<1>1. PICK j \in Nat, i \in Nat : Numberable(files, Ahead, j, i) /\ At(j, i)
  BY Zenon DEF InStep
<1>2. files \in Seq(File) /\ Ahead \in Seq(Seq(Byte))
  BY ConcatProperties, Zenon DEF Typed, ClientTypes, SentTypes, Ahead
<1>3. j <= Len(files)
  BY <1>1, <1>2, LastThing
<1>4. AtFrame(j, i)
  BY <1>1 DEF At, AtCommand, InTransfer, Handles
<1>5. j > 0 /\ files[j] \in File /\ Items(files, j) = Frames(files[j])
  BY <1>2, <1>3, <1>4, ItemsIsNat DEF AtFrame
<1>6. got # 0
  <2>1. got = 0 => ~(got > 0) /\ got # Len(data)
    BY SMT, PackageIs
  <2> QED
    BY <2>1, Zenon DEF InTransfer, Handles, Complete
<1>7. /\ i > 0 /\ i <= Items(files, j) /\ recv_bytes = (i - 1) * files[j].frame
      /\ got = Len(data) /\ data = Thing(files, j, i)
      /\ Len(posted) = j - 1
      /\ total_bytes = Len(files[j].bytes) /\ file_frame_bytes = files[j].frame
      /\ Len(data) = HEADER_LEN + files[j].frame
      /\ \A k \in 1..recv_bytes : recv_file[k] = files[j].bytes[k]
  BY <1>4, <1>6, Zenon DEF AtFrame
<1>8. i # 0
  BY SMT, <1>7
<1>9. data = Frame(files[j], i - 1)
  BY <1>7, <1>8, Zenon DEF Thing
<1>10. i \in 1..Frames(files[j]) /\ j \in 1..Len(files)
  BY SMT, <1>2, <1>3, <1>5, <1>7, FrameCount, LenProperties DEF FileSize
<1>11. FrameRead(files[j], j, i)
  BY <1>5, <1>7, <1>9, <1>10, Zenon DEF FrameRead
<1> QED
  BY <1>1, <1>5, <1>7, <1>11, Zenon DEF InStep

(* Its number is read as it was sent, if it is not read as a negative one. *)
LEMMA IdRead ==
  ASSUME Typed, NEW f, NEW j, NEW i \in Nat, FrameRead(f, j, i), Id >= 0
  PROVE  Id = i - 1
<1>1. f \in File /\ i \in 1..Frames(f) /\ data = Frame(f, i - 1)
  BY Zenon DEF FrameRead
<1>2. i - 1 \in FileSize /\ i - 1 \in Nat
  BY SMT, <1>1, FrameCount DEF FileSize
<1>3. \A k \in 1..4 : data[k] = SerializeInt(i - 1)[k]
  BY <1>1, <1>2, FrameBytes
<1>4. /\ SubSeq(data, 1, HEADER_LEN) \in FourBytes
      /\ \A k \in 1..4 : SubSeq(data, 1, HEADER_LEN)[k] = data[k]
  BY PackageIs, HeaderBytes
<1>5. SerializeInt(i - 1) \in FourBytes
  BY <1>2, SerializedBytes
<1>6. SubSeq(data, 1, HEADER_LEN) = SerializeInt(i - 1)
  <2> DEFINE s == SubSeq(data, 1, HEADER_LEN)
             t == SerializeInt(i - 1)
  <2>1. s \in [1..4 -> Byte] /\ t \in [1..4 -> Byte] /\ \A k \in 1..4 : s[k] = t[k]
    BY <1>3, <1>4, <1>5 DEF FourBytes
  <2> HIDE DEF s, t
  <2>2. s = t
    BY SMT, <2>1
  <2> QED
    BY <2>2 DEF s, t
<1>7. Id = DeserializeInt(SerializeInt(i - 1))
  BY <1>6, Zenon DEF Id
<1>8. Id = i - 1 \/ Id < 0
  BY <1>2, <1>7, NumberReadBack
<1> QED
  BY SMT, <1>8, IdIsInt

(* What is stored of it is where it belongs. *)
LEMMA StoredRead ==
  ASSUME Typed, NEW f, NEW j, NEW i \in Nat, FrameRead(f, j, i),
         NEW len \in Nat, len <= f.frame, recv_bytes + len <= total_bytes
  PROVE  \A k \in 1..(recv_bytes + len) : Stored(recv_bytes, len)[k] = f.bytes[k]
<1>1. /\ f \in File /\ i \in 1..Frames(f) /\ data = Frame(f, i - 1)
      /\ total_bytes = Len(f.bytes) /\ recv_bytes = (i - 1) * f.frame
      /\ \A k \in 1..recv_bytes : recv_file[k] = f.bytes[k]
  BY Zenon DEF FrameRead
<1>2. f.frame \in Nat /\ i - 1 \in Nat /\ Len(f.bytes) \in Nat
  BY SMT, <1>1, SessionAssumption, FrameCount DEF FileSize
<1>3. recv_bytes \in Nat /\ total_bytes \in Nat
  BY SMT, SessionAssumption DEF Typed, FileTypes
<1>4. /\ Len(data) = HEADER_LEN + f.frame
      /\ \A k \in 1..f.frame : recv_bytes + k <= Len(f.bytes)
           => data[HEADER_LEN + k] = f.bytes[recv_bytes + k]
  BY <1>1, <1>2, FrameBytes
<1> SUFFICES ASSUME NEW k \in 1..(recv_bytes + len) PROVE Stored(recv_bytes, len)[k] = f.bytes[k]
  OBVIOUS
<1>5. k \in 1..total_bytes
  BY SMT, <1>3
<1>6. Stored(recv_bytes, len)[k] =
        IF k - recv_bytes \in 1..len THEN IF HEADER_LEN + k - recv_bytes <= Len(data) THEN data[HEADER_LEN + k - recv_bytes]
                                                                                      ELSE Fill
        ELSE recv_file[k]
  BY <1>5, Zenon DEF Stored
<1>7. CASE k <= recv_bytes
  <2>1. k - recv_bytes \notin 1..len /\ k \in 1..recv_bytes
    BY SMT, <1>3, <1>7
  <2> QED
    BY <1>1, <1>6, <2>1, Zenon
<1>8. CASE k > recv_bytes
  <2>1. /\ k - recv_bytes \in 1..len /\ k - recv_bytes \in 1..f.frame
        /\ HEADER_LEN + k - recv_bytes = HEADER_LEN + (k - recv_bytes)
        /\ HEADER_LEN + (k - recv_bytes) <= HEADER_LEN + f.frame
        /\ recv_bytes + (k - recv_bytes) = k /\ k <= total_bytes
    BY SMT, <1>2, <1>3, <1>5, <1>8 DEF HEADER_LEN
  <2>2. Stored(recv_bytes, len)[k] = data[HEADER_LEN + (k - recv_bytes)]
    BY <1>4, <1>6, <2>1, Zenon
  <2>3. data[HEADER_LEN + (k - recv_bytes)] = f.bytes[k]
    BY <1>1, <1>4, <2>1, Zenon
  <2> QED
    BY <2>2, <2>3
<1>9. k <= recv_bytes \/ k > recv_bytes
  BY SMT, <1>3
<1> QED
  BY <1>7, <1>8, <1>9

(* How much of the file is there with this frame. *)
LEMMA SumRead ==
  ASSUME Typed, NEW f, NEW j, NEW i \in Nat, FrameRead(f, j, i)
  PROVE  /\ Sum = i * f.frame /\ Sum \in Nat /\ Sum = recv_bytes + f.frame
         /\ Sum < total_bytes <=> i < Frames(f)
         /\ got - HEADER_LEN = f.frame /\ f.frame \in Nat
<1>1. /\ f \in File /\ i \in 1..Frames(f) /\ got = HEADER_LEN + f.frame
      /\ total_bytes = Len(f.bytes) /\ recv_bytes = (i - 1) * f.frame
  BY Zenon DEF FrameRead
<1>2. f.frame \in Nat
  BY SMT, <1>1, SessionAssumption DEF FileSize
<1>3. (i - 1) * f.frame + f.frame = i * f.frame /\ i * f.frame \in Nat /\ (i - 1) * f.frame \in Int
  BY SMT, <1>2
<1>4. got - HEADER_LEN = f.frame /\ got \in Nat
  BY SMT, <1>1, <1>2 DEF HEADER_LEN
<1>5. Sum = recv_bytes + f.frame
  BY SMT, <1>1, <1>2, <1>3 DEF Sum, HEADER_LEN
<1>6. Sum = i * f.frame
  BY <1>1, <1>3, <1>5, Zenon
<1>7. i * f.frame < Len(f.bytes) <=> i < Frames(f)
  BY <1>1, FrameCount
<1> QED
  BY <1>1, <1>2, <1>3, <1>4, <1>5, <1>6, <1>7, Zenon

(* A frame whose bytes are stored, all of them or what there is room for. *)
LEMMA FrameStored ==
  ASSUME Typed, FileReceived, ~overrun, up, Len(data) >= HEADER_LEN + COMMAND_LEN,
         NEW f, NEW j \in Nat, NEW i \in Nat, Numberable(files, Ahead, j, i), FrameRead(f, j, i),
         Len(data) = HEADER_LEN + f.frame, Id = i - 1,
         NEW len \in Nat, len <= f.frame, NEW bytes \in Nat, bytes = recv_bytes + len,
         bytes <= total_bytes, bytes < total_bytes <=> i < Frames(f),
         bytes < total_bytes => bytes = i * f.frame, Store(len, bytes)
  PROVE  up' = up /\ ~overrun' /\ FileReceived' /\ InStep'
<1>1. /\ f \in File /\ f = files[j] /\ j \in 1..Len(files) /\ Items(files, j) = Frames(f)
      /\ Len(posted) = j - 1 /\ i \in 1..Frames(f)
      /\ total_bytes = Len(f.bytes) /\ file_frame_bytes = f.frame
      /\ recv_bytes = (i - 1) * f.frame
  BY Zenon DEF FrameRead
<1>2. total_bytes \in Nat /\ recv_bytes \in Nat /\ posted \in Seq(Seq(Byte))
  BY SMT, SessionAssumption DEF Typed, FileTypes
<1>3. Id * file_frame_bytes = recv_bytes
  BY <1>1, Zenon
<1> DEFINE buf == Stored(recv_bytes, len)
<1>4. /\ recv_file' = buf /\ recv_bytes' = bytes /\ got' = 0
      /\ overrun' = (overrun \/ recv_bytes + len > total_bytes)
      /\ recv_bytes + len > total_bytes \/ up' = up
      /\ IF bytes >= total_bytes THEN posted' = Append(posted, buf) /\ op' = "command"
                                 ELSE op' = "frame" /\ posted' = posted
      /\ data' = data /\ total_bytes' = total_bytes /\ file_frame_bytes' = file_frame_bytes
      /\ files' = files /\ toSend' = toSend /\ stream' = stream
  BY <1>3, Zenon DEF Store, Stored, clientVars
<1>5. ~(recv_bytes + len > total_bytes) /\ recv_bytes + len <= total_bytes
  BY SMT, <1>2
<1>6. up' = up /\ ~overrun'
  BY <1>4, <1>5, Zenon
<1>7. \A k \in 1..bytes : buf[k] = f.bytes[k]
  BY <1>5, StoredRead
<1>8. buf \in Seq(Byte) /\ Len(buf) = total_bytes
  <2>1. recv_bytes \in Int /\ len \in Int
    BY SMT, <1>2
  <2> QED
    BY <2>1, StoredBytes
<1> HIDE DEF buf
<1>9. Ahead' = Ahead
  BY <1>4, Zenon DEF Ahead
<1>10. j \in Nat /\ Len(files) \in Nat /\ j <= Len(files) /\ Frames(f) \in Nat
  <2>1. files \in Seq(File)
    BY Zenon DEF Typed, ClientTypes
  <2> QED
    BY SMT, <1>1, <2>1, LenProperties, FrameCount DEF FileSize
<1>11. CASE bytes < total_bytes
  <2>1. /\ op' = "frame" /\ posted' = posted /\ i < Items(files, j) /\ bytes = i * f.frame
    <3>1. ~(bytes >= total_bytes)
      BY SMT, <1>2, <1>11
    <3> QED
      BY <1>1, <1>4, <1>11, <3>1, Zenon
  <2>2. FileReceived'
    BY <1>4, <2>1, Zenon DEF FileReceived
  <2>3. \A k \in 1..recv_bytes' : recv_file'[k] = f.bytes[k]
    BY <1>4, <1>7, Zenon
  <2>4. j > 0
    BY SMT, <1>1, <1>10
  <2>5. AtFrame(j, i)'
    BY <1>1, <1>4, <2>1, <2>3, <2>4, Zenon DEF AtFrame
  <2> QED
    BY <1>4, <1>6, <1>9, <2>2, <2>5, Zenon DEF InStep, At
<1>12. CASE ~(bytes < total_bytes)
  <2>1. bytes = total_bytes /\ bytes >= total_bytes
    BY SMT, <1>2, <1>12
  <2>2. posted' = Append(posted, buf) /\ op' = "command" /\ ~(i < Frames(f))
    BY <1>4, <1>12, <2>1, Zenon
  <2>3. buf = f.bytes
    <3>1. f.bytes \in Seq(Byte)
      BY <1>1, SessionAssumption
    <3>2. Len(buf) = Len(f.bytes) /\ \A k \in 1..Len(buf) : buf[k] = f.bytes[k]
      BY <1>1, <1>7, <1>8, <2>1, Zenon
    <3> QED
      BY <1>8, <3>1, <3>2, SeqEqual, Zenon
  <2>4. /\ Len(posted') = Len(posted) + 1
        /\ \A k \in 1..Len(posted) : posted'[k] = posted[k]
        /\ posted'[Len(posted) + 1] = buf
    BY <1>2, <1>8, <2>2, AppendProperties
  <2>5. Len(posted) + 1 = j /\ Len(posted) \in Nat
    BY SMT, <1>1, <1>2, <1>10, LenProperties
  <2>6. Len(posted') = j /\ posted'[j] = files[j].bytes
    BY <1>1, <2>3, <2>4, <2>5, Zenon
  <2>7. FileReceived'
    <3> SUFFICES ASSUME NEW k \in 1..j PROVE k <= Len(files) /\ posted'[k] = files[k].bytes
      BY <1>4, <2>6, Zenon DEF FileReceived
    <3>1. CASE k = j
      BY <1>10, <2>6, <3>1, Zenon
    <3>2. CASE k # j
      <4>1. k \in 1..Len(posted)
        BY SMT, <2>5, <3>2
      <4> QED
        BY <2>4, <4>1, Zenon DEF FileReceived
    <3> QED
      BY <3>1, <3>2
  <2>8. i >= Items(files, j)
    BY SMT, <1>1, <1>10, <2>2
  <2>9. AtCommand(j, i)'
    BY <1>4, <2>2, <2>6, <2>8, Zenon DEF AtCommand
  <2> QED
    BY <1>4, <1>6, <1>9, <2>7, <2>9, Zenon DEF InStep, At
<1> QED
  BY <1>11, <1>12

LEMMA FramesWhole ==
  ASSUME Typed, Whole, FrameFits \/ FrameTooMuch
  PROVE  Whole'
<1>1. InTransfer /\ up /\ op # "none" /\ Id >= 0 /\ whole' = whole
  <2>1. InTransfer /\ Id \in 0..(total_bytes \div file_frame_bytes) /\ whole' = whole
    BY Zenon DEF FrameFits, FrameTooMuch, ValidFrame, Store, clientVars
  <2>2. Id >= 0
    BY SMT, <2>1, IdIsInt
  <2> QED
    BY <2>1, <2>2, Zenon DEF InTransfer, Handles
<1>2. ASSUME whole PROVE up' = up /\ ~overrun' /\ FileReceived' /\ InStep'
  <2>1. ~overrun /\ FileReceived /\ InStep
    BY <1>1, <1>2, Zenon DEF Whole
  <2>2. Len(data) >= HEADER_LEN + COMMAND_LEN
    BY <2>1, Zenon DEF InStep
  <2>3. PICK f \in File, j \in Nat, i \in Nat :
          Numberable(files, Ahead, j, i) /\ FrameRead(f, j, i) /\ Len(data) = HEADER_LEN + f.frame
    BY <1>1, <2>1, InTransferReads
  <2>4. Id = i - 1
    BY <1>1, <2>3, IdRead
  <2>5. /\ Sum = i * f.frame /\ Sum \in Nat /\ Sum = recv_bytes + f.frame
        /\ Sum < total_bytes <=> i < Frames(f)
        /\ got - HEADER_LEN = f.frame /\ f.frame \in Nat
    BY <2>3, SumRead
  <2>6. total_bytes \in Nat /\ recv_bytes \in 0..total_bytes
    BY SMT, SessionAssumption DEF Typed, FileTypes
  <2>7. CASE FrameFits
    <3>1. Sum \in 0..total_bytes /\ Store(got - HEADER_LEN, Sum)
      BY <2>7, Zenon DEF FrameFits, Fits
    <3> DEFINE len == f.frame
               bytes == Sum
    <3>2. /\ len \in Nat /\ len <= f.frame /\ bytes \in Nat /\ bytes = recv_bytes + len
          /\ bytes <= total_bytes
      BY SMT, <2>5, <2>6, <3>1
    <3>3. /\ bytes < total_bytes <=> i < Frames(f)
          /\ bytes < total_bytes => bytes = i * f.frame
      BY <2>5
    <3>4. Store(len, bytes)
      BY <2>5, <3>1, Zenon
    <3> HIDE DEF len, bytes
    <3> QED
      BY <1>1, <2>1, <2>2, <2>3, <2>4, <3>2, <3>3, <3>4, FrameStored
  <2>8. CASE FrameTooMuch
    <3>1. ~(Sum \in 0..total_bytes) /\ Store(total_bytes - recv_bytes, total_bytes)
      BY <2>8, Zenon DEF FrameTooMuch, Fits
    <3> DEFINE len == total_bytes - recv_bytes
               bytes == total_bytes
    <3>2. /\ len \in Nat /\ len <= f.frame /\ bytes \in Nat /\ bytes = recv_bytes + len
          /\ bytes <= total_bytes /\ ~(bytes < total_bytes) /\ ~(Sum < total_bytes)
      BY SMT, <2>5, <2>6, <3>1
    <3>3. /\ bytes < total_bytes <=> i < Frames(f)
          /\ bytes < total_bytes => bytes = i * f.frame
      BY <2>5, <3>2, Zenon
    <3>4. Store(len, bytes)
      BY <3>1
    <3> HIDE DEF len, bytes
    <3> QED
      BY <1>1, <2>1, <2>2, <2>3, <2>4, <3>2, <3>3, <3>4, FrameStored
  <2> QED
    BY <2>7, <2>8
<1> QED
  BY <1>1, <1>2, Zenon DEF Whole

------------------------------------------------------------------------------
(* Every step, and the theorems. *)

LEMMA WholeInit == Init => Whole
<1> SUFFICES ASSUME Init PROVE Whole
  OBVIOUS
<1>1. Typed
  BY TypedInit
<1>2. ~overrun /\ FileReceived
  <2>1. posted = <<>> /\ overrun = FALSE
    BY Zenon DEF Init
  <2>2. 1..Len(posted) = {}
    BY SMT, <2>1
  <2> QED
    BY <2>1, <2>2, Zenon DEF FileReceived
<1>3. Len(data) >= HEADER_LEN + COMMAND_LEN
  <2>1. data = Fresh(HEADER_LEN + BODY_LEN) /\ HEADER_LEN + BODY_LEN \in Nat
    BY SMT, SessionAssumption DEF Init, HEADER_LEN
  <2>2. Len(data) = HEADER_LEN + BODY_LEN
    BY <2>1, FreshBytes
  <2> QED
    BY SMT, <2>2, SessionAssumption DEF HEADER_LEN, COMMAND_LEN
\* Before anything is sent, what has been read last is "item 1 of file 0".
<1> DEFINE file == [p \in 0..0 |-> 0]
           item == [p \in 0..0 |-> 1]
<1>4. /\ file \in [0..0 -> Nat] /\ item \in [0..0 -> Nat] /\ file[0] = 0 /\ item[0] = 1
      /\ \A p \in 0..0 : p = 0
  <2>1. 0 \in 0..0 /\ 0 \in Nat /\ 1 \in Nat /\ \A p \in 0..0 : p = 0
    BY SMT
  <2> QED
    BY <2>1, Zenon
<1> HIDE DEF file, item
<1>5. Ahead = <<>> /\ Len(Ahead) = 0 /\ files = <<>> /\ Len(files) = 0 /\ 1..0 = {}
  <2>1. stream = <<>> /\ toSend = <<>> /\ files = <<>>
    BY Zenon DEF Init
  <2>2. <<>> \o <<>> = <<>> /\ Len(<<>>) = 0 /\ 1..0 = {}
    BY SMT
  <2> QED
    BY <2>1, <2>2, Zenon DEF Ahead
<1>6. Items(files, 0) = 0
  BY Zenon DEF Items
<1>7. Numbered(files, Ahead, file, item)
  <2>1. 0 <= 0 /\ 1 <= 0 + 1 /\ 1 > 0 /\ 1 >= 0
    BY SMT
  <2> QED
    BY <1>4, <1>5, <1>6, <2>1, Zenon DEF Numbered
<1>8. Numberable(files, Ahead, 0, 1)
  BY <1>4, <1>5, <1>7, Zenon DEF Numberable
<1>9. AtCommand(0, 1)
  <2>1. 1 >= Items(files, 0) /\ Len(posted) = 0
    BY SMT, <1>6 DEF Init
  <2> QED
    BY <2>1, Zenon DEF AtCommand, Init
<1>10. InStep
  <2>1. 0 \in Nat /\ 1 \in Nat
    BY SMT
  <2> QED
    BY <1>3, <1>8, <1>9, <2>1, Zenon DEF InStep, At
<1> QED
  BY <1>2, <1>10, Zenon DEF Whole

LEMMA WholeStep == IInv /\ [Next]_vars => Whole'
<1> SUFFICES ASSUME Typed, Whole, [Next]_vars PROVE Whole'
  BY Zenon DEF IInv
<1>1. CASE Client
  <2>1. CASE Leave
    <3>1. UNCHANGED <<whole, files, up, op, got, data>> /\ UNCHANGED fileVars /\ UNCHANGED <<stream, toSend>>
      BY <2>1, Zenon DEF Leave
    <3>2. Ahead' = Ahead
      BY <3>1, Zenon DEF Ahead
    <3> QED
      BY <3>1, <3>2, SameWhole
  <2> QED
    BY <1>1, <2>1, StartFileWhole, SayAliveWhole, SendWhole DEF Client
<1>2. CASE Receive
  BY <1>2, ReceiveWhole
<1>3. CASE Handler
  <2>1. CASE CommandAlive \/ FrameNegative \/ FrameOfNothing \/ FrameBeyond \/ FrameTooShort
    <3>1. /\ whole' = whole /\ files' = files /\ posted' = posted /\ overrun' = overrun
          /\ up' = FALSE \/ op' = "none"
      BY <2>1, Zenon DEF CommandAlive, FrameNegative, FrameOfNothing, FrameBeyond, FrameTooShort,
                         clientVars, fileVars
    <3> QED
      BY <3>1, EndedWhole
  <2> QED
    BY <1>3, <2>1, CommandFileWhole, CommandOtherWhole, FramesWhole DEF Handler
<1>4. CASE ReadFails
  <2>1. whole' = whole /\ files' = files /\ posted' = posted /\ overrun' = overrun /\ op' = "none"
    BY <1>4, Zenon DEF ReadFails, clientVars, fileVars
  <2> QED
    BY <2>1, EndedWhole
<1>5. CASE Timer \/ UNCHANGED vars
  <2>1. UNCHANGED <<whole, files, up, op, got, data>> /\ UNCHANGED fileVars /\ UNCHANGED <<stream, toSend>>
    BY <1>5, Zenon DEF Timer, AliveTimeout, WaitCheckAlive, AliveWriteFails, AliveWritten, vars, clientVars
  <2>2. Ahead' = Ahead
    BY <2>1, Zenon DEF Ahead
  <2> QED
    BY <2>1, <2>2, SameWhole
<1> QED
  BY <1>1, <1>2, <1>3, <1>4, <1>5 DEF Next

LEMMA InvariantHolds == Spec => []IInv
<1>1. Init => IInv
  BY TypedInit, WholeInit DEF IInv
<1>2. IInv /\ [Next]_vars => IInv'
  BY TypedStep, WholeStep DEF IInv
<1> QED
  BY <1>1, <1>2, PTL DEF Spec

(* On a network that keeps what is sent apart, for any files one after the  *)
(* other with ALIVEs anywhere between them: what is posted to Server::Core  *)
(* as the k-th file is the k-th file, whatever its bytes look like.         *)
THEOREM FileCorrect == Spec => []FileExact
<1>1. IInv => FileExact
  BY Zenon DEF IInv, Whole, FileExact
<1> QED
  BY <1>1, InvariantHolds, PTL

(* And no memcpy writes behind the end of recv_buf.                         *)
THEOREM WritesCorrect == Spec => []WritesInside
<1>1. IInv => WritesInside
  BY Zenon DEF IInv, Whole, WritesInside
<1> QED
  BY <1>1, InvariantHolds, PTL
------------------------------------------------------------------------------
(* A connection implements ImageQueue. *)

(* A file begun is one more handed in. *)
LEMMA BegunAppended ==
  ASSUME NEW f \in File, files \in Seq(File), whole, whole', files' = Append(files, f)
  PROVE  Begun' = Append(Begun, Item(f.bytes))
<1> DEFINE n == Len(files)
           q == [k \in 1..n |-> Item(files[k].bytes)]
<1>1. n \in Nat /\ Len(files') = n + 1 /\ files'[n + 1] = f /\ \A k \in 1..n : files'[k] = files[k]
  BY AppendProperties, LenProperties
<1>2. Begun' = [k \in 1..(n + 1) |-> Item(files'[k].bytes)]
  BY <1>1, Zenon DEF Begun
<1>3. Begun = q
  BY Zenon DEF Begun
<1> HIDE DEF n
<1>4. Len(q) = n
  BY <1>1, SMT
<1> HIDE DEF q
<1>5. Append(q, Item(f.bytes)) = [k \in 1..(n + 1) |-> IF k = n + 1 THEN Item(f.bytes) ELSE q[k]]
  BY <1>1, <1>4, SMT
<1>6. \A k \in 1..(n + 1) : k = n + 1 \/ k \in 1..n
  BY <1>1, SMT
<1>7. \A k \in 1..n : k # n + 1 /\ q[k] = Item(files[k].bytes)
  BY <1>1, SMT DEF q
<1>8. \A k \in 1..(n + 1) : Item(files'[k].bytes) = IF k = n + 1 THEN Item(f.bytes) ELSE q[k]
  BY <1>1, <1>6, <1>7, Zenon
<1> QED
  BY <1>2, <1>3, <1>5, <1>8, Zenon

(* Nothing done to the files: the path stands still, or breaks for good. *)
LEMMA TransferRests ==
  ASSUME whole' = whole, files' = files, posted' = posted, Healthy' => Healthy
  PROVE  [Transfer!Next]_(Transfer!vars)
<1>1. Begun' = Begun /\ Delivered' = Delivered
  BY Zenon DEF Begun, Delivered
<1>2. CASE Healthy' <=> Healthy
  <2>1. Healthy' = Healthy
    BY <1>2 DEF Healthy
  <2> QED
    BY <1>1, <2>1, Zenon DEF Transfer!vars
<1>3. CASE ~(Healthy' <=> Healthy)
  <2>1. Healthy /\ Healthy' = FALSE
    BY <1>3 DEF Healthy
  <2> QED
    BY <1>1, <2>1, Zenon DEF Transfer!Next, Transfer!Break
<1> QED
  BY <1>2, <1>3

(* A file is begun: it is handed in. *)
LEMMA TransferPosts ==
  ASSUME Typed, NEW f \in File, StartFile(f)
  PROVE  [Transfer!Next]_(Transfer!vars)
<1>1. files' = Append(files, f) /\ UNCHANGED <<whole, alives, up, posted>>
  BY Zenon DEF StartFile, fileVars
<1>2. Delivered' = Delivered /\ Healthy' = Healthy
  BY <1>1, Zenon DEF Delivered, Healthy
<1>3. CASE whole
  <2>1. Begun' = Append(Begun, [cli |-> 1, img |-> f.bytes])
    BY <1>1, <1>3, BegunAppended DEF Item, Typed, ClientTypes
  <2>2. 1 \in {1} /\ f.bytes \in {g.bytes : g \in File}
    OBVIOUS
  <2> QED
    BY <1>2, <2>1, <2>2, Zenon DEF Transfer!Next, Transfer!Post
<1>4. CASE ~whole
  <2>1. Begun' = Begun
    BY <1>1, <1>4, Zenon DEF Begun
  <2> QED
    BY <1>2, <2>1, Zenon DEF Transfer!vars
<1> QED
  BY <1>3, <1>4

(* What a frame does to the files and to what is posted. *)
LEMMA FrameEffect ==
  ASSUME Typed, FrameFits \/ FrameTooMuch
  PROVE  /\ UNCHANGED <<whole, files, alives>>
         /\ posted' = posted \/ \E b \in Seq(Byte) : posted' = Append(posted, b)
         /\ up
         /\ overrun' = FALSE => up' = up
<1>1. PICK len \in Int, bytes \in Int : Store(len, bytes)
  <2>1. got - HEADER_LEN \in Int /\ total_bytes - recv_bytes \in Int /\ total_bytes \in Int
    BY SMT, PackageIs, SessionAssumption DEF HEADER_LEN, Typed, FileTypes
  <2>2. CASE FrameFits
    <3>1. Store(got - HEADER_LEN, Sum) /\ Sum \in 0..total_bytes
      BY <2>2, Zenon DEF FrameFits, Fits
    <3>2. Sum \in Int
      BY SMT, <2>1, <3>1
    <3> QED
      BY <2>1, <3>1, <3>2
  <2>3. CASE FrameTooMuch
    BY <2>1, <2>3 DEF FrameTooMuch
  <2> QED
    BY <2>2, <2>3
<1> DEFINE at == Id * file_frame_bytes
<1>2. at \in Int
  <2>1. file_frame_bytes \in Int
    BY SMT, SessionAssumption DEF Typed, FileTypes
  <2> QED
    BY SMT, <2>1, IdIsInt
<1> HIDE DEF at
<1>3. /\ overrun' = (overrun \/ at + len > total_bytes)
      /\ IF at + len > total_bytes THEN up' \in BOOLEAN ELSE UNCHANGED up
      /\ posted' = Append(posted, Stored(at, len)) \/ posted' = posted
      /\ UNCHANGED <<whole, files, alives>>
  BY <1>1, Zenon DEF Store, Stored, clientVars, at
<1>4. Stored(at, len) \in Seq(Byte)
  BY <1>2, StoredBytes
<1>5. up
  BY Zenon DEF FrameFits, FrameTooMuch, ValidFrame, InTransfer, Handles
<1> QED
  BY <1>3, <1>4, <1>5, Zenon

(* A frame is stored: if it was the last, its file arrives.  That the file   *)
(* is the one that is due, and its bytes its own, is FileExact; that the     *)
(* copy does not end the process is WritesInside.                            *)
LEMMA TransferDelivers ==
  ASSUME Typed, Typed', FileExact', WritesInside', FrameFits \/ FrameTooMuch
  PROVE  [Transfer!Next]_(Transfer!vars)
<1>1. /\ UNCHANGED <<whole, files, alives>> /\ up
      /\ posted' = posted \/ \E b \in Seq(Byte) : posted' = Append(posted, b)
      /\ overrun' = FALSE => up' = up
  BY FrameEffect
<1>2. Healthy' => Healthy
  BY <1>1, Zenon DEF Healthy
<1>3. CASE posted' = posted
  BY <1>1, <1>2, <1>3, TransferRests
<1>4. CASE ~whole
  <2>1. Begun' = Begun /\ Delivered' = Delivered
    BY <1>1, <1>4, Zenon DEF Begun, Delivered
  <2>2. CASE Healthy' <=> Healthy
    <3>1. Healthy' = Healthy
      BY <2>2 DEF Healthy
    <3> QED
      BY <2>1, <3>1, Zenon DEF Transfer!vars
  <2>3. CASE ~(Healthy' <=> Healthy)
    <3>1. Healthy /\ Healthy' = FALSE
      BY <1>2, <2>3 DEF Healthy
    <3> QED
      BY <2>1, <3>1, Zenon DEF Transfer!Next, Transfer!Break
  <2> QED
    BY <2>2, <2>3
<1>5. CASE whole /\ \E b \in Seq(Byte) : posted' = Append(posted, b)
  <2>1. PICK b \in Seq(Byte) : posted' = Append(posted, b)
    BY <1>5
  <2>2. posted \in Seq(Seq(Byte)) /\ files \in Seq(File)
    BY Zenon DEF Typed, FileTypes, ClientTypes
  <2> DEFINE n == Len(posted)
  <2>3. n \in Nat /\ Len(posted') = n + 1 /\ \A k \in 1..n : posted'[k] = posted[k]
    BY <2>1, <2>2, AppendProperties, LenProperties
  <2>4. whole' /\ overrun' = FALSE /\ FileReceived'
    BY <1>1, <1>5, Zenon DEF FileExact, WritesInside, Typed, FileTypes
  <2>5. Healthy' = Healthy /\ Begun' = Begun
    BY <1>1, <2>4, Zenon DEF Healthy, Begun
  <2> HIDE DEF n
  <2>6. n + 1 \in 1..(n + 1) /\ Len(files) \in Nat
    BY <2>2, <2>3, LenProperties, SMT
  <2>7. n + 1 <= Len(files) /\ posted'[n + 1] = files[n + 1].bytes
    BY <1>1, <2>3, <2>4, <2>6, Zenon DEF FileReceived
  <2>8. /\ Delivered = [k \in 1..n |-> Item(posted[k])]
        /\ Delivered' = [k \in 1..(n + 1) |-> Item(posted'[k])]
        /\ Begun = [k \in 1..Len(files) |-> Item(files[k].bytes)]
    BY <1>5, <2>3, <2>4, Zenon DEF Delivered, Begun, n
  <2>9. Len(Delivered) = n /\ Len(Delivered') = n + 1 /\ Len(Begun) = Len(files)
    BY <2>3, <2>6, <2>8, SMT
  <2>10. \A k \in 1..n : Delivered'[k] = Delivered[k]
    <3>1. \A k \in 1..n : k \in 1..(n + 1)
      BY <2>3, SMT
    <3> QED
      BY <2>3, <2>8, <3>1, Zenon
  <2>11. n + 1 \in 1..Len(files)
    BY <2>6, <2>3, <2>7, SMT
  <2>12. Delivered'[n + 1] = Item(posted'[n + 1]) /\ Begun[n + 1] = Item(posted'[n + 1])
    BY <2>6, <2>7, <2>8, <2>11, Zenon
  <2>13. Transfer!Faithful(Begun[Len(Delivered')], Delivered'[Len(Delivered')])
    BY <2>9, <2>12, Zenon DEF Transfer!Faithful
  <2>14. Len(Delivered) < Len(Begun)
    BY <2>3, <2>6, <2>7, <2>9, SMT
  <2>15. Transfer!Deliver
    BY <2>5, <2>9, <2>10, <2>13, <2>14, Zenon DEF Transfer!Deliver
  <2> QED
    BY <2>15, Zenon DEF Transfer!Next
<1> QED
  BY <1>1, <1>3, <1>4, <1>5

LEMMA StepTransfer == IInv /\ IInv' /\ [Next]_vars => [Transfer!Next]_(Transfer!vars)
<1> SUFFICES ASSUME Typed, Typed', FileExact', WritesInside', [Next]_vars
             PROVE  [Transfer!Next]_(Transfer!vars)
  BY Zenon DEF IInv, Whole, FileExact, WritesInside
<1>1. CASE \E f \in File : StartFile(f)
  BY <1>1, TransferPosts
<1>2. CASE SayAlive
  <2>1. UNCHANGED <<whole, files, posted, up>> /\ alives' = alives + 1
    BY <1>2, Zenon DEF SayAlive, fileVars
  <2>2. alives' # 0
    BY <2>1, SMT, SessionAssumption DEF Typed, ClientTypes
  <2>3. ~Healthy'
    BY <2>2 DEF Healthy
  <2> QED
    BY <2>1, <2>3, TransferRests
<1>3. CASE FrameFits \/ FrameTooMuch
  BY <1>3, TransferDelivers
<1>4. CASE CommandFile \/ FrameOfNothing \/ FrameTooShort
  <2>1. UNCHANGED <<whole, files, posted, alives>> /\ up
    BY <1>4, Zenon DEF CommandFile, FrameOfNothing, FrameTooShort, ValidFrame, InTransfer, Handles, clientVars, fileVars
  <2>2. Healthy' => Healthy
    BY <2>1, Zenon DEF Healthy
  <2> QED
    BY <2>1, <2>2, TransferRests
<1>5. CASE \/ Send \/ Leave \/ Receive \/ ReadFails \/ CommandAlive \/ CommandOther \/ FrameNegative
           \/ FrameBeyond \/ Timer \/ UNCHANGED vars
  <2>1. UNCHANGED <<whole, files, posted, alives, up>>
    BY <1>5, Zenon DEF Send, Leave, Receive, ReadFails, CommandAlive, CommandOther, FrameNegative,
         FrameBeyond, Timer, AliveTimeout, WaitCheckAlive, AliveWriteFails, AliveWritten,
         vars, clientVars, fileVars
  <2>2. Healthy' => Healthy
    BY <2>1, Zenon DEF Healthy
  <2> QED
    BY <2>1, <2>2, TransferRests
<1> QED
  BY <1>1, <1>2, <1>3, <1>4, <1>5, Zenon DEF Next, Client, Handler

(* Client.cpp:149: on a network that keeps what is sent apart a connection   *)
(* posts the files of its client once each, in order, as they were sent, and *)
(* takes none back: every step is one of ImageQueue.                         *)
THEOREM TransferImplemented == Spec => TransferSpec
<1>1. Init => Transfer!Init
  <2> SUFFICES ASSUME Init PROVE Transfer!Init
    OBVIOUS
  <2>1. files = <<>> /\ posted = <<>> /\ up = TRUE /\ alives = 0
    BY Zenon DEF Init
  <2>2. Begun = <<>> /\ Delivered = <<>>
    BY <2>1 DEF Begun, Delivered
  <2>3. Healthy = TRUE
    BY <2>1 DEF Healthy
  <2> QED
    BY <2>2, <2>3, Zenon DEF Transfer!Init
<1>2. IInv /\ IInv' /\ [Next]_vars => [Transfer!Next]_(Transfer!vars)
  BY StepTransfer
<1> QED
  BY <1>1, <1>2, InvariantHolds, PTL DEF Spec, TransferSpec, Transfer!Spec
=============================================================================
