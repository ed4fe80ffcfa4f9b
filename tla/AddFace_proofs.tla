---------------------------- MODULE AddFace_proofs ----------------------------
(***************************************************************************)
(* AddFace, for every set of connections and faces and every cut of the    *)
(* reads.                                                                  *)
(*                                                                         *)
(* The handler's steps are about a static variable; what an invariant can  *)
(* say of it depends on who is between new and the post.  While no two     *)
(* clients have been there at once, the one that is there owns the buffer  *)
(* made last, which holds what its step has copied, and nothing else.      *)
(***************************************************************************)
EXTENDS AddFace, FiniteSetTheorems, TLAPS

PartType == [of : Client, first : Nat, len : Nat, offset : Nat]
Buffer == [by : Client, size : Nat, parts : Seq(PartType), deleted : Nat]
PostType == [by : Client, buf : Nat, rest : BOOLEAN, parts : Seq(PartType)]

Types ==
  /\ up \in BOOLEAN /\ mixed \in BOOLEAN
  /\ at \in [Client -> {"command", "rects", "first", "new", "head", "text", "post", "rest",
                        "append", "post rest", "null", "hung", "gone"}]
  /\ face \in [Client -> Face \union {NoFace}] /\ asked \in [Client -> 0..MaxAdds]
  /\ bytes_transferred \in [Client -> Nat] /\ recv_bytes \in [Client -> Nat]
  /\ misread \in [Client -> BOOLEAN]
  /\ heap \in Seq(Buffer) /\ buf \in 0..Len(heap)
  /\ posts \in Seq(PostType) /\ \A k \in 1..Len(posts) : posts[k].buf \in 0..Len(heap)

\* What a read has brought: at most all of the text, and at least its length, but if
\* the text is taken for one.  A client to which that happened posts nothing more.
Reads ==
  \A c \in Client :
    /\ at[c] \in {"new", "head", "text"} => bytes_transferred[c] <= 4 + face[c].text
    /\ at[c] \in {"new", "head", "text"} /\ ~misread[c] => bytes_transferred[c] >= 4
    /\ at[c] = "rest" => face[c].text - bytes_transferred[c] - 4 >= 0
    /\ misread[c] => at[c] \in {"new", "head", "text", "hung", "gone"}

\* Whoever has asked and made no buffer yet may make one, and another one if its
\* text is taken for a length.
Misread == {c \in Client : misread[c]}
Asking == {c \in Client : at[c] \in {"rects", "first", "new"}}
Pairs == {p \in Client \X (1..MaxAdds) : p[2] <= asked[p[1]]}
Made == Len(heap) + Cardinality(Asking) <= Asked + Cardinality(Misread)

\* What is in the buffer of a client at each of its steps.
HeadOf(c) == Part(c, 0, HeadLen(c), 0)
TextOf(c) == Part(c, 1, FirstText(c), HeadLen(c))
ReadBefore(c) == Part(c, 1, recv_bytes[c], HeadLen(c))
RestOf(c) == Part(c, recv_bytes[c] + 1, bytes_transferred[c], HeadLen(c) + recv_bytes[c])

Holds(c) ==
  /\ at[c] = "head" => heap[buf].parts = <<>>
  /\ at[c] = "text" => heap[buf].parts = <<HeadOf(c)>>
  /\ at[c] = "post" => heap[buf].parts = <<HeadOf(c), TextOf(c)>> /\ FirstText(c) = face[c].text
  /\ at[c] \in {"rest", "hung"} /\ ~misread[c] =>
       heap[buf].parts = <<HeadOf(c), ReadBefore(c)>> /\ recv_bytes[c] = FirstText(c)
  /\ at[c] \in {"append", "post rest"} => bytes_transferred[c] = face[c].text - recv_bytes[c] - 8
  /\ at[c] = "append" => heap[buf].parts = <<HeadOf(c), ReadBefore(c)>>
  /\ at[c] = "post rest" => heap[buf].parts = <<HeadOf(c), ReadBefore(c), RestOf(c)>>

Owns(c) ==
  at[c] # "null" =>
    /\ buf # 0 /\ heap[buf].deleted = 0 /\ heap[buf].size = HeadLen(c) + total_bytes(c)
    /\ Holds(c)

\* One counts on buf, and owns it; what was posted after a second read is named
\* by buf only until SetNull.
Alone ==
  ~mixed =>
    /\ \A c, d \in Counting : c = d
    /\ up => \A c \in Counting : Owns(c)
    /\ \A k \in 1..Len(posts) : posts[k].rest /\ posts[k].buf = buf => \E c \in Client : at[c] = "null"

IInv == Types /\ Reads /\ Made /\ Alone /\ TextInPlace /\ RestKept

-------------------------------------------------------------------------------
(* Faces, lengths and parts. *)

LEMMA Lengths ==
  ASSUME Types, NEW c \in Client
  PROVE  /\ face[c].nRects \in Nat /\ face[c].text \in Nat
         /\ HeadLen(c) \in Nat /\ HeadLen(c) >= 4 /\ Package(c) = HeadLen(c)
<1>1. face[c] \in Face \union {NoFace}
  BY DEF Types
<1>2. face[c].nRects \in Nat /\ face[c].text \in Nat
  BY <1>1, AddFaceAssumption DEF NoFace
<1> QED
  BY <1>2 DEF HeadLen, Package

(* The length that is read: that of the text, or what its characters make. *)
LEMMA Totals ==
  ASSUME Types, NEW c \in Client
  PROVE  /\ total_bytes(c) \in Nat /\ face[c].text < AsLength
         /\ ~misread[c] => total_bytes(c) = face[c].text
         /\ misread[c] => total_bytes(c) = AsLength
<1>1. face[c] \in Face \union {NoFace} /\ face[c].text \in Nat
  BY Lengths DEF Types
<1>2. face[c].text < AsLength /\ AsLength \in Nat
  BY <1>1, AddFaceAssumption DEF NoFace
<1> QED
  BY <1>1, <1>2 DEF total_bytes

LEMMA PartTypes ==
  ASSUME NEW c \in Client, NEW first \in Nat, NEW len \in Nat, NEW offset \in Nat
  PROVE  Part(c, first, len, offset) \in PartType
BY DEF Part, PartType

LEMMA TypesSeq ==
  ASSUME Types
  PROVE  /\ heap \in Seq(Buffer) /\ Len(heap) \in Nat /\ buf \in 0..Len(heap) /\ up \in BOOLEAN
         /\ posts \in Seq(PostType) /\ Len(posts) \in Nat
         /\ \A k \in 1..Len(posts) : posts[k].buf \in 0..Len(heap)
<1>1. /\ heap \in Seq(Buffer) /\ buf \in 0..Len(heap) /\ up \in BOOLEAN
      /\ posts \in Seq(PostType) /\ \A k \in 1..Len(posts) : posts[k].buf \in 0..Len(heap)
  BY Zenon DEF Types
<1>2. Len(heap) \in Nat /\ Len(posts) \in Nat
  BY <1>1
<1> QED
  BY <1>1, <1>2, Zenon

(* memcpy into the buffer that buf names: a part more, and nothing else. *)
LEMMA CopyKeeps ==
  ASSUME Types, NEW p \in PartType, Copies(p)
  PROVE  /\ heap' \in Seq(Buffer) /\ Len(heap') = Len(heap) /\ up' \in BOOLEAN
         /\ \A k \in 1..Len(heap) : heap'[k].size = heap[k].size /\ heap'[k].deleted = heap[k].deleted
         /\ up' => buf \in 1..Len(heap) /\ heap'[buf].parts = Append(heap[buf].parts, p)
<1>1. heap \in Seq(Buffer) /\ Len(heap) \in Nat /\ buf \in 0..Len(heap) /\ up \in BOOLEAN
  BY TypesSeq
<1>2. CASE up' = FALSE /\ UNCHANGED heap
  BY <1>1, <1>2
<1>3. CASE buf # 0 /\ UNCHANGED up /\ heap' = [heap EXCEPT ![buf].parts = Append(@, p)]
  <2>1. buf \in 1..Len(heap)
    BY <1>1, <1>3
  <2>2. heap[buf] \in Buffer
    BY <1>1, <2>1
  <2> DEFINE b == [heap[buf] EXCEPT !.parts = Append(@, p)]
  <2>3. /\ b \in Buffer /\ b.size = heap[buf].size /\ b.deleted = heap[buf].deleted
        /\ b.parts = Append(heap[buf].parts, p)
    <3>1. Append(heap[buf].parts, p) \in Seq(PartType)
      BY <2>2 DEF Buffer
    <3>2. b = [heap[buf] EXCEPT !.parts = Append(heap[buf].parts, p)]
      OBVIOUS
    <3> QED
      BY <2>2, <3>1, <3>2, Zenon DEF Buffer
  <2>4. heap' = [heap EXCEPT ![buf] = b]
    BY <1>3
  <2> HIDE DEF b
  <2>5. /\ heap' \in Seq(Buffer) /\ Len(heap') = Len(heap) /\ heap'[buf] = b
        /\ \A k \in 1..Len(heap) : k # buf => heap'[k] = heap[k]
    BY <1>1, <2>1, <2>3, <2>4
  <2> QED
    BY <1>1, <1>3, <2>1, <2>3, <2>5
<1> QED
  BY <1>2, <1>3 DEF Copies

(* delete buf: a deletion more, and nothing else. *)
LEMMA DeleteKeeps ==
  ASSUME Types, buf # 0, heap' = [heap EXCEPT ![buf].deleted = @ + 1]
  PROVE  /\ heap' \in Seq(Buffer) /\ Len(heap') = Len(heap)
         /\ \A k \in 1..Len(heap) : /\ heap'[k].size = heap[k].size
                                    /\ k # buf => heap'[k].deleted = heap[k].deleted
<1>1. heap \in Seq(Buffer) /\ Len(heap) \in Nat /\ buf \in 1..Len(heap)
  BY TypesSeq
<1>2. heap[buf] \in Buffer
  BY <1>1
<1> DEFINE b == [heap[buf] EXCEPT !.deleted = @ + 1]
<1>3. b \in Buffer /\ b.size = heap[buf].size
  BY <1>2 DEF Buffer
<1>4. heap' = [heap EXCEPT ![buf] = b]
  OBVIOUS
<1> HIDE DEF b
<1>5. /\ heap' \in Seq(Buffer) /\ Len(heap') = Len(heap) /\ heap'[buf] = b
      /\ \A k \in 1..Len(heap) : k # buf => heap'[k] = heap[k]
  BY <1>1, <1>3, <1>4
<1> QED
  BY <1>1, <1>3, <1>5

-------------------------------------------------------------------------------
(* Types, and what the reads have brought. *)

(* The steps that make no buffer and post nothing. *)
LEMMA TypesStill ==
  ASSUME Types, heap' \in Seq(Buffer), Len(heap') = Len(heap), UNCHANGED <<buf, posts>>,
         up' \in BOOLEAN, mixed' \in BOOLEAN,
         at' \in [Client -> {"command", "rects", "first", "new", "head", "text", "post", "rest",
                             "append", "post rest", "null", "hung", "gone"}],
         face' \in [Client -> Face \union {NoFace}], asked' \in [Client -> 0..MaxAdds],
         bytes_transferred' \in [Client -> Nat], recv_bytes' \in [Client -> Nat],
         misread' \in [Client -> BOOLEAN]
  PROVE  Types'
BY Zenon DEF Types

(* A post adds the buffer that buf names, as it is. *)
LEMMA PostTypes ==
  ASSUME Types, NEW c \in Client, NEW rest \in BOOLEAN, Posted(c, rest), UNCHANGED heap
  PROVE  /\ posts' \in Seq(PostType) /\ Len(posts') = Len(posts) + 1
         /\ \A k \in 1..Len(posts) : posts'[k] = posts[k]
         /\ posts'[Len(posts) + 1].by = c /\ posts'[Len(posts) + 1].buf = buf
         /\ posts'[Len(posts) + 1].rest = rest
         /\ buf # 0 => posts'[Len(posts) + 1].parts = heap[buf].parts
         /\ \A k \in 1..Len(posts') : posts'[k].buf \in 0..Len(heap)
<1> DEFINE m == [by |-> c, buf |-> buf, rest |-> rest, parts |-> IF buf = 0 THEN <<>> ELSE heap[buf].parts]
<1>1. heap \in Seq(Buffer) /\ buf \in 0..Len(heap) /\ Len(heap) \in Nat /\ posts \in Seq(PostType)
  BY TypesSeq
<1>2. (IF buf = 0 THEN <<>> ELSE heap[buf].parts) \in Seq(PartType)
  <2>1. CASE buf # 0
    <3>1. heap[buf] \in Buffer
      BY <1>1, <2>1
    <3> QED
      BY <2>1, <3>1 DEF Buffer
  <2> QED
    BY <2>1
<1>3. m \in PostType /\ m.by = c /\ m.buf = buf /\ m.rest = rest /\ (buf # 0 => m.parts = heap[buf].parts)
  BY <1>1, <1>2 DEF PostType
<1>4. posts' = Append(posts, m)
  BY DEF Posted
<1> HIDE DEF m
<1>5. /\ posts' \in Seq(PostType) /\ Len(posts') = Len(posts) + 1 /\ Len(posts) \in Nat
      /\ \A k \in 1..Len(posts) : posts'[k] = posts[k]
      /\ posts'[Len(posts) + 1] = m
  BY <1>1, <1>3, <1>4
<1>6. \A k \in 1..Len(posts') : posts'[k].buf \in 0..Len(heap)
  BY <1>1, <1>3, <1>5, TypesSeq
<1> QED
  BY <1>3, <1>5, <1>6

(* The reads of one client go on; those of the others are as they were. *)
LEMMA ReadsGo ==
  ASSUME Types, Reads, NEW c \in Client, NEW s, at' = [at EXCEPT ![c] = s],
         \A d \in Client : d # c => /\ face'[d] = face[d]
                                    /\ bytes_transferred'[d] = bytes_transferred[d],
         \A d \in Client : d # c => misread'[d] = misread[d],
         s \in {"new", "head", "text"} => bytes_transferred'[c] <= 4 + face'[c].text,
         s \in {"new", "head", "text"} /\ ~misread'[c] => bytes_transferred'[c] >= 4,
         s = "rest" => face'[c].text - bytes_transferred'[c] - 4 >= 0,
         misread'[c] => s \in {"new", "head", "text", "hung", "gone"}
  PROVE  Reads'
<1> SUFFICES ASSUME NEW d \in Client
             PROVE  /\ at'[d] \in {"new", "head", "text"} => bytes_transferred'[d] <= 4 + face'[d].text
                    /\ at'[d] \in {"new", "head", "text"} /\ ~misread'[d] => bytes_transferred'[d] >= 4
                    /\ at'[d] = "rest" => face'[d].text - bytes_transferred'[d] - 4 >= 0
                    /\ misread'[d] => at'[d] \in {"new", "head", "text", "hung", "gone"}
  BY DEF Reads
<1>1. at'[d] = IF d = c THEN s ELSE at[d]
  BY DEF Types
<1>2. CASE d = c
  BY <1>1, <1>2, Zenon
<1>3. CASE d # c
  <2>1. at'[d] = at[d] /\ face'[d] = face[d] /\ bytes_transferred'[d] = bytes_transferred[d]
    BY <1>1, <1>3
  <2>2. misread'[d] = misread[d]
    BY <1>3
  <2> QED
    BY <2>1, <2>2, Zenon DEF Reads
<1> QED
  BY <1>2, <1>3

(* A step of one client that reads nothing and moves on. *)
LEMMA ReadsKept ==
  ASSUME Types, Reads, NEW c \in Client, NEW s, at' = [at EXCEPT ![c] = s],
         UNCHANGED <<face, bytes_transferred, misread>>,
         s \in {"new", "head", "text"} => at[c] \in {"new", "head", "text"},
         s = "rest" => face[c].text - bytes_transferred[c] - 4 >= 0,
         misread[c] => s \in {"new", "head", "text", "hung", "gone"}
  PROVE  Reads'
<1>1. /\ s \in {"new", "head", "text"} => bytes_transferred[c] <= 4 + face[c].text
      /\ s \in {"new", "head", "text"} /\ ~misread[c] => bytes_transferred[c] >= 4
  BY Zenon DEF Reads
<1> QED
  BY <1>1, ReadsGo

(* A client that may ask has not asked MaxAdds times. *)
LEMMA AskedBound ==
  ASSUME Types
  PROVE  /\ IsFiniteSet(Pairs) /\ Asked = Cardinality(Pairs) /\ Asked \in Nat
         /\ \A c \in Client : Asked < MaxAdds => asked[c] + 1 \in 0..MaxAdds
<1>1. MaxAdds \in Nat /\ IsFiniteSet(Client) /\ asked \in [Client -> 0..MaxAdds]
  BY AddFaceAssumption DEF Types
<1>2. IsFiniteSet(1..MaxAdds) /\ Cardinality(1..MaxAdds) = MaxAdds
  BY <1>1, FS_Interval
<1>3. IsFiniteSet(Pairs)
  <2>1. IsFiniteSet(Client \X (1..MaxAdds))
    BY <1>1, <1>2, FS_Product
  <2> QED
    BY <2>1, FS_Subset DEF Pairs
<1>4. Asked = Cardinality(Pairs) /\ Asked \in Nat
  BY <1>3, FS_CardinalityType DEF Asked, Pairs
<1>5. ASSUME NEW c \in Client, asked[c] + 1 \notin 0..MaxAdds PROVE Asked >= MaxAdds
  <2>1. asked[c] = MaxAdds
    BY <1>1, <1>5
  <2> DEFINE own == {<<c, n>> : n \in 1..MaxAdds}
             f == [n \in 1..MaxAdds |-> <<c, n>>]
  <2>2. own \in SUBSET Pairs
    BY <2>1 DEF Pairs
  <2>3. f \in Bijection(1..MaxAdds, own)
    BY DEF Bijection, Injection, Surjection, IsInjective
  <2>4. Cardinality(own) = MaxAdds
    <3>1. ExistsBijection(1..MaxAdds, own)
      BY <2>3 DEF ExistsBijection
    <3> QED
      BY <1>2, <3>1, FS_Bijection
  <2> QED
    BY <1>3, <1>4, <2>2, <2>4, FS_Subset
<1> QED
  BY <1>1, <1>3, <1>4, <1>5

LEMMA ResetTypes ==
  /\ \A f \in [Client -> Nat] : \A c \in Client : [f EXCEPT ![c] = 0] \in [Client -> Nat]
  /\ \A f \in [Client -> Face \union {NoFace}] : \A c \in Client :
       [f EXCEPT ![c] = NoFace] \in [Client -> Face \union {NoFace}]
OBVIOUS

LEMMA StepTypes == Types /\ Reads /\ [Next]_vars => Types' /\ Reads'
<1> SUFFICES ASSUME Types, Reads, [Next]_vars PROVE Types' /\ Reads'
  OBVIOUS
<1>0. /\ up \in BOOLEAN /\ heap \in Seq(Buffer) /\ Len(heap) \in Nat /\ buf \in 0..Len(heap)
      /\ mixed \in BOOLEAN
  BY TypesSeq, Zenon DEF Types
<1>13. /\ at \in [Client -> {"command", "rects", "first", "new", "head", "text", "post", "rest",
                            "append", "post rest", "null", "hung", "gone"}]
      /\ face \in [Client -> Face \union {NoFace}] /\ asked \in [Client -> 0..MaxAdds]
      /\ bytes_transferred \in [Client -> Nat] /\ recv_bytes \in [Client -> Nat]
      /\ misread \in [Client -> BOOLEAN]
  BY Zenon DEF Types
<1>14. \A c \in Client : misread[c] => at[c] \in {"new", "head", "text", "hung", "gone"}
  BY Zenon DEF Reads
<1>1. ASSUME NEW c \in Client, NEW f \in Face, Rects(c, f) PROVE Types' /\ Reads'
  <2>1. /\ at[c] = "command" /\ at' = [at EXCEPT ![c] = "rects"] /\ face' = [face EXCEPT ![c] = f]
        /\ asked' = [asked EXCEPT ![c] = @ + 1] /\ Asked < MaxAdds
        /\ UNCHANGED <<up, bytes_transferred, recv_bytes, misread, buf, heap, posts, mixed>>
    BY <1>1 DEF Rects, Goes
  <2>2. asked' \in [Client -> 0..MaxAdds]
    BY <1>0, <1>13, <2>1, AskedBound
  <2>3. Reads'
    <3>1. ~misread[c]
      BY <1>14, <2>1
    <3>2. \A d \in Client : d # c => face'[d] = face[d]
      BY <1>13, <2>1
    <3> QED
      BY <2>1, <3>1, <3>2, ReadsGo
  <2> QED
    BY <1>0, <1>13, <2>1, <2>2, <2>3, TypesStill
<1>2. ASSUME NEW c \in Client, RectsHandler(c) \/ RectsFail(c) PROVE Types' /\ Reads'
  <2>1. /\ UNCHANGED <<face, bytes_transferred, misread, asked, buf, heap, posts, mixed>> /\ up' \in BOOLEAN
        /\ recv_bytes' \in [Client -> Nat]
    <3>1. /\ UNCHANGED <<face, bytes_transferred, misread, asked, buf, heap, posts, mixed>>
          /\ up' = up \/ up' = FALSE
          /\ recv_bytes' = recv_bytes \/ recv_bytes' = [recv_bytes EXCEPT ![c] = 0]
      BY <1>2 DEF RectsHandler, RectsFail, Goes, readVars
    <3>2. recv_bytes' \in [Client -> Nat]
      <4>1. recv_bytes \in [Client -> Nat] /\ [recv_bytes EXCEPT ![c] = 0] \in [Client -> Nat]
        BY <1>13, ResetTypes
      <4> QED
        BY <3>1, <4>1
    <3> QED
      BY <1>0, <3>1, <3>2
  <2>2. /\ at[c] = "rects"
        /\ \/ at' = at
           \/ at' = [at EXCEPT ![c] = "first"]
           \/ at' = [at EXCEPT ![c] = "gone"]
    BY <1>2 DEF RectsHandler, RectsFail, Goes
  <2>3. CASE at' = at
    <3>1. Reads'
      BY <2>1, <2>3 DEF Reads
    <3> QED
      BY <1>0, <1>13, <2>1, <2>3, <3>1, TypesStill
  <2>4. ASSUME NEW s \in {"first", "gone"}, at' = [at EXCEPT ![c] = s] PROVE Types' /\ Reads'
    <3>1. ~misread[c]
      BY <1>14, <2>2
    <3>2. Reads'
      BY <2>1, <2>4, <3>1, ReadsKept
    <3> QED
      BY <1>0, <1>13, <2>1, <2>4, <3>2, TypesStill
  <2> QED
    BY <2>2, <2>3, <2>4
<1>3. ASSUME NEW c \in Client, FirstRead(c) PROVE Types' /\ Reads'
  <2> DEFINE most == Least(Package(c), 4 + face[c].text)
  <2>1. /\ most \in Nat /\ most >= 4 /\ most <= 4 + face[c].text
    BY Lengths DEF Least
  <2>2. /\ at' = [at EXCEPT ![c] = "new"]
        /\ UNCHANGED <<up, face, recv_bytes, misread, asked, buf, heap, posts, mixed>>
    BY <1>3 DEF FirstRead, Goes
  <2>3. PICK n \in {most} \union {4 + k : k \in Cut} :
          n <= most /\ bytes_transferred' = [bytes_transferred EXCEPT ![c] = n]
    BY <1>3 DEF FirstRead
  <2>4. n \in Nat /\ n >= 4 /\ n <= 4 + face[c].text
    <3>1. \A k \in Cut : 4 + k \in Nat /\ 4 + k >= 4
      BY AddFaceAssumption
    <3>2. face[c].text \in Nat
      BY Lengths
    <3> HIDE DEF most
    <3> QED
      BY <2>1, <2>3, <3>1, <3>2
  <2>5. /\ bytes_transferred' \in [Client -> Nat] /\ bytes_transferred'[c] = n
        /\ \A d \in Client : d # c => bytes_transferred'[d] = bytes_transferred[d]
    BY <1>0, <1>13, <2>3, <2>4
  <2>6. Reads'
    BY <2>2, <2>4, <2>5, ReadsGo
  <2> QED
    BY <1>0, <1>13, <2>2, <2>5, <2>6, TypesStill
<1>4. ASSUME NEW c \in Client, New(c) PROVE Types' /\ Reads'
  <2> DEFINE b == [by |-> c, size |-> HeadLen(c) + total_bytes(c), parts |-> <<>>, deleted |-> 0]
  <2>1. b \in Buffer
    <3>1. HeadLen(c) + total_bytes(c) \in Nat /\ <<>> \in Seq(PartType)
      BY Lengths, Totals
    <3> QED
      BY <3>1 DEF Buffer
  <2>2. /\ at[c] = "new" /\ UNCHANGED <<face, bytes_transferred, recv_bytes, misread, asked, posts>>
        /\ \/ /\ at' = [at EXCEPT ![c] = "head"] /\ heap' = Append(heap, b) /\ up' = up
              /\ buf' = Len(heap') /\ mixed' = (mixed \/ Counting # {})
           \/ up' = FALSE /\ UNCHANGED <<at, heap, buf, mixed>>
    BY <1>4 DEF New, Goes, readVars
  <2> HIDE DEF b
  <2>3. CASE /\ at' = [at EXCEPT ![c] = "head"] /\ heap' = Append(heap, b) /\ up' = up
             /\ buf' = Len(heap') /\ mixed' = (mixed \/ Counting # {})
    <3>1. /\ heap' \in Seq(Buffer) /\ buf' \in 0..Len(heap') /\ Len(heap') = Len(heap) + 1
          /\ \A k \in 1..Len(posts) : posts[k].buf \in 0..Len(heap')
      BY <2>1, <2>3, TypesSeq
    <3>2. Reads'
      BY <2>2, <2>3, ReadsKept
    <3>3. mixed' \in BOOLEAN
      BY <2>3
    <3>4. at' \in [Client -> {"command", "rects", "first", "new", "head", "text", "post", "rest",
                              "append", "post rest", "null", "hung", "gone"}]
      BY <1>13, <2>3
    <3>5. Types'
      BY <1>0, <1>13, <2>2, <2>3, <3>1, <3>3, <3>4, Zenon DEF Types
    <3> QED
      BY <3>2, <3>5
  <2>4. CASE up' = FALSE /\ UNCHANGED <<at, heap, buf, mixed>>
    <3>1. Reads'
      BY <2>2, <2>4 DEF Reads
    <3> QED
      BY <1>0, <1>13, <2>2, <2>4, <3>1, TypesStill
  <2> QED
    BY <2>2, <2>3, <2>4
<1>5. ASSUME NEW c \in Client, CopyHead(c) PROVE Types' /\ Reads'
  <2>1. /\ at[c] = "head" /\ at' = [at EXCEPT ![c] = "text"] /\ Copies(Part(c, 0, HeadLen(c), 0))
        /\ UNCHANGED <<face, bytes_transferred, recv_bytes, misread, asked, buf, posts, mixed>>
    BY <1>5 DEF CopyHead, Goes, readVars
  <2>2. Part(c, 0, HeadLen(c), 0) \in PartType
    BY Lengths, PartTypes
  <2>3. heap' \in Seq(Buffer) /\ Len(heap') = Len(heap) /\ up' \in BOOLEAN
    BY <2>1, <2>2, CopyKeeps
  <2>4. Reads'
    BY <2>1, ReadsKept
  <2> QED
    BY <1>0, <1>13, <2>1, <2>3, <2>4, TypesStill
<1>6. ASSUME NEW c \in Client, CopyText(c) PROVE Types' /\ Reads'
  <2> DEFINE first == IF misread[c] THEN 5 ELSE 1
  <2>1. /\ at[c] = "text" /\ Copies(Part(c, first, FirstText(c), HeadLen(c))) /\ FirstText(c) >= 0
        /\ UNCHANGED <<face, bytes_transferred, misread, asked, buf, posts, mixed>>
    BY <1>6 DEF CopyText, Goes
  <2>2. FirstText(c) \in Nat /\ bytes_transferred[c] \in Nat /\ face[c].text \in Nat
    <3>1. bytes_transferred[c] \in Nat /\ face[c].text \in Nat
      BY <1>13, Lengths
    <3> QED
      BY <2>1, <3>1 DEF FirstText
  <2>3. Part(c, first, FirstText(c), HeadLen(c)) \in PartType
    <3>1. first \in Nat
      OBVIOUS
    <3> HIDE DEF first
    <3> QED
      BY <2>2, <3>1, Lengths, PartTypes
  <2>4. heap' \in Seq(Buffer) /\ Len(heap') = Len(heap) /\ up' \in BOOLEAN
    BY <2>1, <2>3, CopyKeeps
  <2>5. FirstText(c) = total_bytes(c) => ~misread[c]
    <3>1. bytes_transferred[c] <= 4 + face[c].text
      BY <2>1 DEF Reads
    <3> QED
      BY <2>2, <3>1, Totals, AddFaceAssumption DEF FirstText
  <2>6. PICK s \in {"post", "rest", "hung"} : /\ at' = [at EXCEPT ![c] = s]
                                              /\ s = "post" => FirstText(c) = total_bytes(c)
                                              /\ s = "rest" => RestLen(c) >= 0 /\ ~misread[c]
    BY <1>6 DEF CopyText, Goes
  <2>7. recv_bytes' \in [Client -> Nat]
    BY <1>0, <1>13, <1>6, <2>2 DEF CopyText
  <2>8. Reads'
    <3>1. s = "rest" => face[c].text - bytes_transferred[c] - 4 >= 0
      BY <2>6, Totals DEF RestLen
    <3>2. misread[c] => s \in {"new", "head", "text", "hung", "gone"}
      BY <2>5, <2>6, Zenon
    <3> QED
      BY <2>1, <2>6, <3>1, <3>2, ReadsKept
  <2> QED
    BY <1>0, <1>13, <2>1, <2>4, <2>6, <2>7, <2>8, TypesStill
<1>15. ASSUME NEW c \in Client, CopyTextNegative(c) PROVE Types' /\ Reads'
  <2>1. /\ up' = FALSE
        /\ UNCHANGED <<at, face, bytes_transferred, recv_bytes, misread, asked, buf, heap, posts, mixed>>
    BY <1>15 DEF CopyTextNegative, readVars
  <2>2. Reads'
    BY <2>1 DEF Reads
  <2> QED
    BY <1>0, <1>13, <2>1, <2>2, TypesStill
<1>7. ASSUME NEW c \in Client, PostWhole(c) \/ PostRest(c) PROVE Types' /\ Reads'
  <2>1. PICK rest \in BOOLEAN : Posted(c, rest)
    BY <1>7 DEF PostWhole, PostRest
  <2>2. /\ UNCHANGED <<up, buf, heap, mixed, asked, recv_bytes, misread>>
        /\ at[c] \in {"post", "post rest"}
        /\ \E s \in {"command", "null"} : at' = [at EXCEPT ![c] = s]
        /\ face' \in {face, [face EXCEPT ![c] = NoFace]}
        /\ bytes_transferred' \in {bytes_transferred, [bytes_transferred EXCEPT ![c] = 0]}
    BY <1>7 DEF PostWhole, PostRest, Goes, Returns, readVars
  <2>3. /\ posts' \in Seq(PostType) /\ \A k \in 1..Len(posts') : posts'[k].buf \in 0..Len(heap)
    BY <2>1, <2>2, PostTypes
  <2>4. Reads'
    <3>1. \A d \in Client : d # c => face'[d] = face[d] /\ bytes_transferred'[d] = bytes_transferred[d]
      BY <1>0, <1>13, <2>2
    <3>2. ~misread[c]
      BY <1>14, <2>2
    <3> QED
      BY <2>2, <3>1, <3>2, ReadsGo
  <2>5. at' \in [Client -> {"command", "rects", "first", "new", "head", "text", "post", "rest",
                            "append", "post rest", "null", "hung", "gone"}]
    BY <1>13, <2>2
  <2>6. face' \in [Client -> Face \union {NoFace}] /\ bytes_transferred' \in [Client -> Nat]
    <3>1. /\ bytes_transferred \in [Client -> Nat] /\ [bytes_transferred EXCEPT ![c] = 0] \in [Client -> Nat]
          /\ face \in [Client -> Face \union {NoFace}]
          /\ [face EXCEPT ![c] = NoFace] \in [Client -> Face \union {NoFace}]
      BY <1>13, ResetTypes
    <3> QED
      BY <2>2, <3>1
  <2>7. Types'
    BY <1>0, <1>13, <2>2, <2>3, <2>5, <2>6, Zenon DEF Types
  <2> QED
    BY <2>4, <2>7
<1>8. ASSUME NEW c \in Client, RestRead(c) PROVE Types' /\ Reads'
  <2>1. at[c] = "rest" /\ up' \in BOOLEAN /\ UNCHANGED <<face, recv_bytes, asked, buf, heap, posts, mixed>>
    BY <1>0, <1>8 DEF RestRead, Goes
  <2>2. CASE UNCHANGED <<at, bytes_transferred, misread>>
    <3>1. Reads'
      BY <2>1, <2>2 DEF Reads
    <3> QED
      BY <1>0, <1>13, <2>1, <2>2, <3>1, TypesStill
  <2>3. CASE /\ bytes_transferred' = [bytes_transferred EXCEPT ![c] = RestLen(c)]
             /\ \/ at' = [at EXCEPT ![c] = "append"] /\ misread' = misread
                \/ at' = [at EXCEPT ![c] = "new"] /\ misread' = [misread EXCEPT ![c] = TRUE]
    <3>1. RestLen(c) \in Nat /\ RestLen(c) <= 4 + face[c].text /\ ~misread[c]
      <4>1. /\ face[c].text \in Nat /\ bytes_transferred[c] \in Nat /\ ~misread[c]
            /\ face[c].text - bytes_transferred[c] - 4 >= 0
        BY <1>13, <1>14, <2>1, Lengths DEF Reads
      <4>2. RestLen(c) = face[c].text - bytes_transferred[c] - 4
        BY <4>1, Totals DEF RestLen
      <4> QED
        BY <4>1, <4>2
    <3>2. /\ bytes_transferred' \in [Client -> Nat] /\ bytes_transferred'[c] = RestLen(c)
          /\ \A d \in Client : d # c => bytes_transferred'[d] = bytes_transferred[d]
      BY <1>13, <2>3, <3>1
    <3>3. CASE at' = [at EXCEPT ![c] = "append"] /\ misread' = misread
      <4>1. Reads'
        BY <2>1, <3>1, <3>2, <3>3, ReadsGo
      <4> QED
        BY <1>0, <1>13, <2>1, <3>2, <3>3, <4>1, TypesStill
    <3>4. CASE at' = [at EXCEPT ![c] = "new"] /\ misread' = [misread EXCEPT ![c] = TRUE]
      <4>1. misread' \in [Client -> BOOLEAN] /\ misread'[c] /\ \A d \in Client : d # c => misread'[d] = misread[d]
        BY <1>13, <3>4, Zenon
      <4>2. Reads'
        BY <2>1, <3>1, <3>2, <3>4, <4>1, ReadsGo
      <4> QED
        BY <1>0, <1>13, <2>1, <3>2, <3>4, <4>1, <4>2, TypesStill
    <3> QED
      BY <2>3, <3>3, <3>4
  <2> QED
    BY <1>8, <2>2, <2>3 DEF RestRead, Goes
<1>9. ASSUME NEW c \in Client, AppendRest(c) PROVE Types' /\ Reads'
  <2> DEFINE p == Part(c, recv_bytes[c] + 1, bytes_transferred[c], HeadLen(c) + recv_bytes[c])
  <2>1. /\ at[c] = "append" /\ at' = [at EXCEPT ![c] = "post rest"] /\ Copies(p)
        /\ UNCHANGED <<face, bytes_transferred, recv_bytes, misread, asked, buf, posts, mixed>>
    BY <1>9 DEF AppendRest, Goes, readVars
  <2>2. p \in PartType
    <3>1. recv_bytes[c] + 1 \in Nat /\ bytes_transferred[c] \in Nat /\ HeadLen(c) + recv_bytes[c] \in Nat
      <4>1. recv_bytes[c] \in Nat /\ bytes_transferred[c] \in Nat /\ HeadLen(c) \in Nat
        BY <1>13, Lengths
      <4> QED
        BY <4>1
    <3> QED
      BY <3>1, PartTypes
  <2> HIDE DEF p
  <2>3. heap' \in Seq(Buffer) /\ Len(heap') = Len(heap) /\ up' \in BOOLEAN
    BY <2>1, <2>2, CopyKeeps
  <2>4. Reads'
    <3>1. ~misread[c]
      BY <1>14, <2>1
    <3> QED
      BY <2>1, <3>1, ReadsKept
  <2> QED
    BY <1>0, <1>13, <2>1, <2>3, <2>4, TypesStill
<1>10. ASSUME NEW c \in Client, SetNull(c) PROVE Types' /\ Reads'
  <2>1. /\ at[c] = "null" /\ at' = [at EXCEPT ![c] = "command"] /\ buf' = 0 /\ face' = [face EXCEPT ![c] = NoFace]
        /\ bytes_transferred' = [bytes_transferred EXCEPT ![c] = 0]
        /\ UNCHANGED <<up, recv_bytes, misread, asked, heap, posts, mixed>>
    BY <1>10 DEF SetNull, Goes, Returns
  <2>2. /\ at' \in [Client -> {"command", "rects", "first", "new", "head", "text", "post", "rest",
                               "append", "post rest", "null", "hung", "gone"}]
        /\ face' \in [Client -> Face \union {NoFace}] /\ bytes_transferred' \in [Client -> Nat]
    BY <1>0, <1>13, <2>1
  <2>3. Reads'
    <3>1. ~misread[c]
      BY <1>14, <2>1
    <3>2. \A d \in Client : d # c => face'[d] = face[d] /\ bytes_transferred'[d] = bytes_transferred[d]
      BY <1>13, <2>1
    <3> QED
      BY <2>1, <3>1, <3>2, ReadsGo
  <2>4. buf' \in 0..Len(heap)
    BY <2>1
  <2>5. Types'
    BY <1>0, <1>13, <2>1, <2>2, <2>4, Zenon DEF Types
  <2> QED
    BY <2>3, <2>5
<1>11. ASSUME NEW c \in Client, ReadFails(c) PROVE Types' /\ Reads'
  <2>1. /\ at' = [at EXCEPT ![c] = "gone"] /\ mixed' = (mixed \/ Counting \ {c} # {}) /\ up' \in BOOLEAN
        /\ UNCHANGED <<face, bytes_transferred, recv_bytes, misread, asked, buf, posts>>
    BY <1>0, <1>11 DEF ReadFails, readVars
  <2>2. heap' \in Seq(Buffer) /\ Len(heap') = Len(heap)
    BY <1>0, <1>11, DeleteKeeps DEF ReadFails
  <2>3. Reads'
    BY <2>1, ReadsKept
  <2>4. mixed' \in BOOLEAN
    BY <1>0, <1>13, <2>1
  <2> QED
    BY <1>0, <1>13, <2>1, <2>2, <2>3, <2>4, TypesStill
<1>12. CASE UNCHANGED vars
  <2>1. /\ UNCHANGED <<at, face, bytes_transferred, recv_bytes, misread, asked, heap, buf, posts>>
        /\ UNCHANGED <<up, mixed>>
    BY <1>12 DEF vars, readVars
  <2>2. Reads'
    BY <2>1 DEF Reads
  <2> QED
    BY <1>0, <1>13, <2>1, <2>2, TypesStill
<1> QED
  BY <1>1, <1>2, <1>3, <1>4, <1>5, <1>6, <1>7, <1>8, <1>9, <1>10, <1>11, <1>12, <1>15
  DEF Next, Handler, Leaves

-------------------------------------------------------------------------------
(* Buffers made and commands sent. *)

LEMMA CopyLen ==
  ASSUME Types, NEW p, Copies(p)
  PROVE  Len(heap') = Len(heap)
<1>1. CASE buf # 0 /\ heap' = [heap EXCEPT ![buf].parts = Append(@, p)]
  <2> DEFINE b == [heap[buf] EXCEPT !.parts = Append(@, p)]
  <2>1. heap \in Seq(Buffer \union {b}) /\ buf \in 1..Len(heap)
    BY <1>1, TypesSeq
  <2>2. heap' = [heap EXCEPT ![buf] = b]
    BY <1>1
  <2> HIDE DEF b
  <2> QED
    BY <2>1, <2>2
<1> QED
  BY <1>1 DEF Copies

LEMMA AskingFinite ==
  /\ IsFiniteSet(Asking) /\ Cardinality(Asking) \in Nat
  /\ \A c : c \notin Asking => Cardinality(Asking \union {c}) = Cardinality(Asking) + 1
  /\ \A c \in Asking : Cardinality(Asking \ {c}) = Cardinality(Asking) - 1
  /\ \A S \in SUBSET Asking : Cardinality(S) \in Nat /\ Cardinality(S) <= Cardinality(Asking)
<1>1. IsFiniteSet(Client) /\ Asking \in SUBSET Client
  BY AddFaceAssumption DEF Asking
<1>2. IsFiniteSet(Asking)
  BY <1>1, FS_Subset
<1> QED
  BY <1>2, FS_CardinalityType, FS_AddElement, FS_RemoveElement, FS_Subset

LEMMA MisreadFinite ==
  /\ IsFiniteSet(Misread) /\ Cardinality(Misread) \in Nat
  /\ \A c : c \notin Misread => Cardinality(Misread \union {c}) = Cardinality(Misread) + 1
<1>1. IsFiniteSet(Client) /\ Misread \in SUBSET Client
  BY AddFaceAssumption DEF Misread
<1>2. IsFiniteSet(Misread)
  BY <1>1, FS_Subset
<1> QED
  BY <1>2, FS_CardinalityType, FS_AddElement

LEMMA MadeStill ==
  ASSUME Types, Made, Asking' \in SUBSET Asking, Len(heap') = Len(heap), asked' = asked,
         misread' = misread
  PROVE  Made'
<1>1. Cardinality(Asking') \in Nat /\ Cardinality(Asking') <= Cardinality(Asking) /\ Cardinality(Asking) \in Nat
  BY AskingFinite
<1>2. Asked' = Asked /\ Asked \in Nat /\ Len(heap) \in Nat
  BY AskedBound, TypesSeq DEF Asked
<1>3. Misread' = Misread /\ Cardinality(Misread) \in Nat
  BY MisreadFinite DEF Misread
<1> QED
  BY <1>1, <1>2, <1>3 DEF Made

LEMMA StepMade == Types /\ Reads /\ Made /\ [Next]_vars => Made'
<1> SUFFICES ASSUME Types, Reads, Made, [Next]_vars PROVE Made'
  OBVIOUS
<1>1. /\ at \in [Client -> {"command", "rects", "first", "new", "head", "text", "post", "rest",
                            "append", "post rest", "null", "hung", "gone"}]
      /\ asked \in [Client -> 0..MaxAdds]
  BY Zenon DEF Types
<1>2. /\ Len(heap) \in Nat /\ Asked \in Nat /\ Cardinality(Asking) \in Nat
      /\ Asked = Cardinality(Pairs) /\ IsFiniteSet(Pairs) /\ MaxAdds \in Nat
      /\ Cardinality(Misread) \in Nat
  BY TypesSeq, AskedBound, AskingFinite, MisreadFinite, AddFaceAssumption
<1>3. ASSUME NEW c \in Client, NEW f \in Face, Rects(c, f) PROVE Made'
  <2>1. /\ at[c] = "command" /\ at' = [at EXCEPT ![c] = "rects"] /\ asked' = [asked EXCEPT ![c] = @ + 1]
        /\ heap' = heap /\ misread' = misread /\ Asked < MaxAdds
    BY <1>3 DEF Rects, Goes
  <2>2. Asking' = Asking \union {c} /\ c \notin Asking
    BY <1>1, <2>1 DEF Asking
  <2>3. Cardinality(Asking') = Cardinality(Asking) + 1
    BY <2>2, AskingFinite
  <2>4. asked[c] + 1 \in 1..MaxAdds /\ asked[c] \in Nat
    <3>1. asked[c] + 1 \in 0..MaxAdds
      BY <2>1, AskedBound
    <3>2. asked[c] \in 0..MaxAdds
      BY <1>1
    <3> QED
      BY <1>2, <3>1, <3>2
  <2>5. Pairs' = Pairs \union {<<c, asked[c] + 1>>} /\ <<c, asked[c] + 1>> \notin Pairs
    <3>1. \A d \in Client, n \in 1..MaxAdds :
            n <= asked'[d] <=> (n <= asked[d] \/ (d = c /\ n = asked[c] + 1))
      <4> SUFFICES ASSUME NEW d \in Client, NEW n \in 1..MaxAdds
                   PROVE  n <= asked'[d] <=> (n <= asked[d] \/ (d = c /\ n = asked[c] + 1))
        OBVIOUS
      <4>1. asked'[d] = IF d = c THEN asked[c] + 1 ELSE asked[d]
        BY <1>1, <2>1
      <4>2. n \in Nat
        BY <1>2
      <4>3. CASE d = c
        BY <2>4, <4>1, <4>2, <4>3
      <4>4. CASE d # c
        BY <4>1, <4>4
      <4> QED
        BY <4>3, <4>4
    <3>2. \A p : p \in Pairs' <=> \E d \in Client, n \in 1..MaxAdds : p = <<d, n>> /\ n <= asked'[d]
      BY DEF Pairs
    <3>3. \A p : p \in Pairs <=> \E d \in Client, n \in 1..MaxAdds : p = <<d, n>> /\ n <= asked[d]
      BY DEF Pairs
    <3>4. <<c, asked[c] + 1>> \notin Pairs
      BY <2>4 DEF Pairs
    <3>5. Pairs' = Pairs \union {<<c, asked[c] + 1>>}
      BY <2>4, <3>1, <3>2, <3>3
    <3> QED
      BY <3>4, <3>5
  <2>6. Asked' = Asked + 1
    <3>1. Asked' = Cardinality(Pairs')
      BY DEF Asked, Pairs
    <3> QED
      BY <1>2, <2>5, <3>1, FS_AddElement
  <2>7. Misread' = Misread
    BY <2>1 DEF Misread
  <2> QED
    BY <1>2, <2>1, <2>3, <2>6, <2>7 DEF Made
<1>4. ASSUME NEW c \in Client, New(c) PROVE Made'
  <2> DEFINE b == [by |-> c, size |-> HeadLen(c) + total_bytes(c), parts |-> <<>>, deleted |-> 0]
  <2>1. /\ at[c] = "new" /\ asked' = asked /\ misread' = misread
        /\ \/ at' = [at EXCEPT ![c] = "head"] /\ heap' = Append(heap, b)
           \/ UNCHANGED <<at, heap>>
    BY <1>4 DEF New, Goes, readVars
  <2> HIDE DEF b
  <2>2. CASE at' = [at EXCEPT ![c] = "head"] /\ heap' = Append(heap, b)
    <3>1. Asking' = Asking \ {c} /\ c \in Asking
      BY <1>1, <2>1, <2>2 DEF Asking
    <3>2. Cardinality(Asking') = Cardinality(Asking) - 1
      BY <3>1, AskingFinite
    <3>3. Len(heap') = Len(heap) + 1
      BY <2>2, TypesSeq
    <3>4. Asked' = Asked /\ Misread' = Misread
      BY <2>1 DEF Asked, Misread
    <3> QED
      BY <1>2, <3>2, <3>3, <3>4 DEF Made
  <2>3. CASE UNCHANGED <<at, heap>>
    BY <2>1, <2>3, MadeStill DEF Asking
  <2> QED
    BY <2>1, <2>2, <2>3
<1>5. ASSUME NEW c \in Client, RectsHandler(c) \/ RectsFail(c) \/ FirstRead(c) PROVE Made'
  <2>1. /\ heap' = heap /\ asked' = asked /\ misread' = misread
        /\ at' = at \/ (at[c] = "rects" /\ at' = [at EXCEPT ![c] = "first"])
                    \/ at' = [at EXCEPT ![c] = "gone"] \/ (at[c] = "first" /\ at' = [at EXCEPT ![c] = "new"])
    BY <1>5 DEF RectsHandler, RectsFail, FirstRead, Goes, readVars
  <2>2. Asking' \in SUBSET Asking
    BY <1>1, <2>1 DEF Asking
  <2> QED
    BY <2>1, <2>2, MadeStill
<1>6. ASSUME NEW c \in Client, CopyHead(c) \/ CopyText(c) \/ AppendRest(c) PROVE Made'
  <2>1. /\ asked' = asked /\ misread' = misread /\ \E p : Copies(p)
        /\ \E s \in {"text", "post", "rest", "hung", "post rest"} : at' = [at EXCEPT ![c] = s]
    BY <1>6 DEF CopyHead, CopyText, AppendRest, Goes, readVars
  <2>2. Asking' \in SUBSET Asking
    BY <1>1, <2>1 DEF Asking
  <2>3. Len(heap') = Len(heap)
    BY <2>1, CopyLen
  <2> QED
    BY <2>1, <2>2, <2>3, MadeStill
<1>7. ASSUME NEW c \in Client, PostWhole(c) \/ PostRest(c) \/ SetNull(c) \/ CopyTextNegative(c) PROVE Made'
  <2>1. /\ asked' = asked /\ misread' = misread /\ heap' = heap
        /\ at' = at \/ \E s \in {"command", "null"} : at' = [at EXCEPT ![c] = s]
    BY <1>7 DEF PostWhole, PostRest, SetNull, CopyTextNegative, Goes, Returns, readVars
  <2>2. Asking' \in SUBSET Asking
    BY <1>1, <2>1 DEF Asking
  <2> QED
    BY <2>1, <2>2, MadeStill
<1>10. ASSUME NEW c \in Client, RestRead(c) PROVE Made'
  <2>1. /\ at[c] = "rest" /\ asked' = asked /\ heap' = heap
        /\ \/ at' = at /\ misread' = misread
           \/ at' = [at EXCEPT ![c] = "append"] /\ misread' = misread
           \/ at' = [at EXCEPT ![c] = "new"] /\ misread' = [misread EXCEPT ![c] = TRUE]
    BY <1>10 DEF RestRead, Goes
  <2>2. CASE (at' = at \/ at' = [at EXCEPT ![c] = "append"]) /\ misread' = misread
    <3>1. Asking' \in SUBSET Asking
      BY <1>1, <2>2 DEF Asking
    <3> QED
      BY <2>1, <2>2, <3>1, MadeStill
  <2>3. CASE at' = [at EXCEPT ![c] = "new"] /\ misread' = [misread EXCEPT ![c] = TRUE]
    <3>1. Asking' = Asking \union {c} /\ c \notin Asking
      BY <1>1, <2>1, <2>3 DEF Asking
    <3>2. ~misread[c] /\ misread \in [Client -> BOOLEAN]
      BY <2>1, Zenon DEF Reads, Types
    <3>3. misread'[c] /\ \A d \in Client : d # c => misread'[d] = misread[d]
      BY <2>3, <3>2, Zenon
    <3>4. Misread' = Misread \union {c} /\ c \notin Misread
      <4>1. \A d : d \in Misread' <=> d \in Client /\ misread'[d]
        BY Zenon DEF Misread
      <4>2. \A d : d \in Misread <=> d \in Client /\ misread[d]
        BY Zenon DEF Misread
      <4>3. \A d : d \in Misread' <=> d \in Misread \/ d = c
        BY <3>3, <4>1, <4>2, Zenon
      <4> QED
        BY <3>2, <4>2, <4>3
    <3>5. /\ Cardinality(Asking') = Cardinality(Asking) + 1
          /\ Cardinality(Misread') = Cardinality(Misread) + 1
      BY <3>1, <3>4, AskingFinite, MisreadFinite
    <3>6. Asked' = Asked
      BY <2>1 DEF Asked
    <3> QED
      BY <1>2, <2>1, <3>5, <3>6 DEF Made
  <2> QED
    BY <2>1, <2>2, <2>3
<1>8. ASSUME NEW c \in Client, ReadFails(c) PROVE Made'
  <2>1. asked' = asked /\ misread' = misread /\ at' = [at EXCEPT ![c] = "gone"]
    BY <1>8 DEF ReadFails, readVars
  <2>2. Asking' \in SUBSET Asking
    BY <1>1, <2>1 DEF Asking
  <2>3. Len(heap') = Len(heap)
    BY <1>8, DeleteKeeps DEF ReadFails
  <2> QED
    BY <2>1, <2>2, <2>3, MadeStill
<1>9. CASE UNCHANGED vars
  BY <1>9, MadeStill DEF vars, readVars, Asking
<1> QED
  BY <1>3, <1>4, <1>5, <1>6, <1>7, <1>8, <1>9, <1>10 DEF Next, Handler, Leaves

-------------------------------------------------------------------------------
(* Whose buffer it is. *)

CountSteps == {"head", "text", "post", "rest", "append", "post rest", "null", "hung"}
Own == Alone /\ TextInPlace /\ RestKept

LEMMA CountingMoves ==
  ASSUME Types, NEW c \in Client, NEW s, at' = [at EXCEPT ![c] = s]
  PROVE  /\ at'[c] = s /\ \A d \in Client : d # c => at'[d] = at[d]
         /\ c \in Counting' <=> s \in CountSteps
         /\ \A d : d # c => (d \in Counting' <=> d \in Counting)
         /\ \A d : d \in Counting <=> d \in Client /\ at[d] \in CountSteps
<1>1. at'[c] = s /\ \A d \in Client : d # c => at'[d] = at[d]
  BY DEF Types
<1>2. /\ Counting = {d \in Client : at[d] \in CountSteps}
      /\ Counting' = {d \in Client : at'[d] \in CountSteps}
  BY DEF Counting, CountSteps
<1> QED
  BY <1>1, <1>2, Zenon

(* Posts and what they name stay. *)
LEMMA PostsStill ==
  ASSUME Types, TextInPlace, RestKept, posts' = posts, mixed => mixed',
         \A k \in 1..Len(heap) : heap'[k].size = heap[k].size /\ heap'[k].deleted = heap[k].deleted
  PROVE  TextInPlace' /\ RestKept'
<1> SUFFICES ASSUME ~mixed' PROVE TextInPlace' /\ RestKept'
  BY DEF TextInPlace, RestKept
<1>1. ASSUME NEW k \in 1..Len(posts)
      PROVE  /\ posts[k].buf # 0 /\ InPlace(posts[k], posts[k].by, heap'[posts[k].buf].size)
             /\ posts[k].rest => heap'[posts[k].buf].deleted = 0
  <2>1. posts[k].buf # 0 /\ InPlace(posts[k], posts[k].by, heap[posts[k].buf].size)
    BY DEF TextInPlace
  <2>2. posts[k].buf \in 1..Len(heap)
    BY <2>1, TypesSeq
  <2>3. posts[k].rest => heap[posts[k].buf].deleted = 0
    BY DEF RestKept
  <2> QED
    BY <2>1, <2>2, <2>3
<1> QED
  BY <1>1 DEF TextInPlace, RestKept, InPlace

(* A step of a client that does not count on buf, before or after. *)
LEMMA OthersOwn ==
  ASSUME Types, Own, NEW c \in Client, NEW s, at[c] \notin CountSteps, s \notin CountSteps,
         at' = [at EXCEPT ![c] = s], UNCHANGED <<buf, heap, posts, mixed>>, up' => up,
         \A d \in Client : d # c => /\ face'[d] = face[d] /\ recv_bytes'[d] = recv_bytes[d]
                                    /\ bytes_transferred'[d] = bytes_transferred[d],
         misread' = misread
  PROVE  Own'
<1>1. TextInPlace' /\ RestKept'
  BY PostsStill DEF Own
<1>2. ASSUME ~mixed' PROVE Alone'
  <2>1. \A d : d \in Counting' <=> d \in Counting
    BY CountingMoves
  <2>2. ASSUME up', NEW d \in Counting PROVE Owns(d)'
    <3>1. Owns(d) /\ d \in Client /\ d # c
      BY <1>2, <2>2, CountingMoves DEF Own, Alone
    <3>2. /\ at'[d] = at[d] /\ face'[d] = face[d] /\ recv_bytes'[d] = recv_bytes[d]
          /\ bytes_transferred'[d] = bytes_transferred[d]
      BY <3>1, CountingMoves
    <3> QED
      BY <3>1, <3>2 DEF Owns, Holds, HeadOf, TextOf, ReadBefore, RestOf, Part, HeadLen, FirstText, total_bytes
  <2>3. \A k \in 1..Len(posts) : posts[k].rest /\ posts[k].buf = buf => \E d \in Client : at'[d] = "null"
    <3>1. \A d \in Client : at[d] = "null" => d # c /\ at'[d] = "null"
      BY CountingMoves DEF CountSteps
    <3> QED
      BY <1>2, <3>1 DEF Own, Alone
  <2>4. \A d, e \in Counting' : d = e
    BY <1>2, <2>1 DEF Own, Alone
  <2> QED
    BY <2>1, <2>2, <2>3, <2>4 DEF Alone
<1> QED
  BY <1>1, <1>2 DEF Own, Alone

(* A step of the client that counts on buf, between new and the post. *)
LEMMA CountsOn ==
  ASSUME Types, Own, NEW c \in Client, NEW s, at[c] \in CountSteps \ {"null"}, s \in CountSteps \ {"null"},
         at' = [at EXCEPT ![c] = s], UNCHANGED <<buf, posts, mixed>>,
         \A k \in 1..Len(heap) : heap'[k].size = heap[k].size /\ heap'[k].deleted = heap[k].deleted,
         up' /\ ~mixed => Owns(c)'
  PROVE  Own'
<1>1. TextInPlace' /\ RestKept'
  BY PostsStill DEF Own
<1>2. ASSUME ~mixed' PROVE Alone'
  <2>1. \A d \in Counting : d = c
    BY <1>2, CountingMoves DEF Own, Alone
  <2>2. \A d \in Counting' : d = c
    BY <2>1, CountingMoves
  <2>3. \A k \in 1..Len(posts) : posts[k].rest => posts[k].buf # buf
    <3>1. \A d \in Client : at[d] # "null"
      BY <2>1, CountingMoves DEF CountSteps
    <3> QED
      BY <1>2, <3>1 DEF Own, Alone
  <2> QED
    BY <1>2, <2>2, <2>3 DEF Alone
<1> QED
  BY <1>1, <1>2 DEF Own, Alone

(* The client that counts on buf does not any more, and nothing else. *)
LEMMA LeavesOff ==
  ASSUME Types, Own, NEW c \in Client, NEW s, at[c] \in CountSteps \ {"null"}, s \notin CountSteps,
         at' = [at EXCEPT ![c] = s], UNCHANGED <<buf, heap, posts, mixed>>
  PROVE  Own'
<1>1. TextInPlace' /\ RestKept'
  BY PostsStill DEF Own
<1>2. ASSUME ~mixed' PROVE Alone'
  <2>1. \A d \in Counting : d = c
    BY <1>2, CountingMoves DEF Own, Alone
  <2>2. \A d : d \notin Counting'
    BY <2>1, CountingMoves
  <2>3. \A k \in 1..Len(posts) : posts[k].rest => posts[k].buf # buf
    <3>1. \A d \in Client : at[d] # "null"
      BY <2>1, CountingMoves DEF CountSteps
    <3> QED
      BY <1>2, <3>1 DEF Own, Alone
  <2> QED
    BY <1>2, <2>2, <2>3 DEF Alone
<1> QED
  BY <1>1, <1>2 DEF Own, Alone

(* What the client that counts on buf knows of it. *)
LEMMA OwnsIt ==
  ASSUME Types, Own, NEW c \in Client, at[c] \in CountSteps, up, ~mixed
  PROVE  /\ \A d \in Client : at[d] \in CountSteps => d = c
         /\ at[c] # "null" =>
              /\ buf \in 1..Len(heap) /\ heap[buf].deleted = 0 /\ heap[buf].size = HeadLen(c) + total_bytes(c)
              /\ Holds(c)
<1>1. \A d : d \in Counting <=> d \in Client /\ at[d] \in CountSteps
  BY DEF Counting, CountSteps
<1>2. /\ \A d, e \in Counting : d = e
      /\ \A d \in Counting : Owns(d)
  BY DEF Own, Alone
<1>3. Owns(c) /\ \A d \in Client : at[d] \in CountSteps => d = c
  BY <1>1, <1>2
<1> QED
  BY <1>3, TypesSeq DEF Owns

LEMMA CopyHeadOwn ==
  ASSUME Types, Own, NEW c \in Client, CopyHead(c)
  PROVE  Own'
<1>1. /\ up /\ at[c] = "head" /\ at' = [at EXCEPT ![c] = "text"] /\ Copies(HeadOf(c))
      /\ UNCHANGED <<face, bytes_transferred, recv_bytes, misread, buf, posts, mixed>>
  BY DEF CopyHead, Goes, readVars, HeadOf
<1>2. /\ HeadOf(c) \in PartType /\ HeadOf(c)' = HeadOf(c) /\ HeadLen(c)' = HeadLen(c)
      /\ total_bytes(c)' = total_bytes(c)
  BY <1>1, Lengths, PartTypes DEF HeadOf, Part, HeadLen, total_bytes
<1>3. /\ \A k \in 1..Len(heap) : heap'[k].size = heap[k].size /\ heap'[k].deleted = heap[k].deleted
      /\ up' => buf \in 1..Len(heap) /\ heap'[buf].parts = Append(heap[buf].parts, HeadOf(c))
  BY <1>1, <1>2, CopyKeeps
<1>4. ASSUME up', ~mixed PROVE Owns(c)'
  <2>1. /\ buf \in 1..Len(heap) /\ heap[buf].deleted = 0 /\ heap[buf].size = HeadLen(c) + total_bytes(c)
        /\ heap[buf].parts = <<>>
    BY <1>1, <1>4, OwnsIt DEF Holds, CountSteps
  <2>2. heap'[buf].parts = <<HeadOf(c)>>
    BY <1>3, <1>4, <2>1
  <2>3. at'[c] = "text"
    BY <1>1, CountingMoves
  <2>4. buf # 0
    BY <2>1
  <2> QED
    BY <1>1, <1>2, <1>3, <2>1, <2>2, <2>3, <2>4 DEF Owns, Holds
<1> QED
  BY <1>1, <1>3, <1>4, CountsOn DEF CountSteps

LEMMA CopyTextOwn ==
  ASSUME Types, Reads, Own, NEW c \in Client, CopyText(c)
  PROVE  Own'
<1> DEFINE first == IF misread[c] THEN 5 ELSE 1
           p == Part(c, first, FirstText(c), HeadLen(c))
<1>1. /\ up /\ at[c] = "text" /\ Copies(p) /\ FirstText(c) >= 0
      /\ UNCHANGED <<face, bytes_transferred, misread, buf, posts, mixed>>
  BY DEF CopyText, Goes
<1>2. /\ HeadOf(c)' = HeadOf(c) /\ TextOf(c)' = TextOf(c) /\ HeadLen(c)' = HeadLen(c)
      /\ FirstText(c)' = FirstText(c) /\ total_bytes(c)' = total_bytes(c)
  BY <1>1 DEF HeadOf, TextOf, Part, HeadLen, FirstText, total_bytes
<1>3. p \in PartType /\ FirstText(c) <= face[c].text
  <2>1. bytes_transferred[c] \in Nat /\ face[c].text \in Nat /\ first \in Nat
    BY Lengths DEF Types
  <2>2. FirstText(c) \in Nat
    BY <1>1, <2>1 DEF FirstText
  <2>3. FirstText(c) <= face[c].text
    BY <1>1, <2>1 DEF Reads, FirstText
  <2> HIDE DEF first
  <2> QED
    BY <2>1, <2>2, <2>3, Lengths, PartTypes
<1>4. ~misread[c] => p = TextOf(c)
  BY DEF TextOf
<1> HIDE DEF p, first
<1>5. /\ \A k \in 1..Len(heap) : heap'[k].size = heap[k].size /\ heap'[k].deleted = heap[k].deleted
      /\ up' => buf \in 1..Len(heap) /\ heap'[buf].parts = Append(heap[buf].parts, p)
  BY <1>1, <1>3, CopyKeeps
<1>6. ASSUME up', ~mixed
      PROVE  /\ buf \in 1..Len(heap) /\ buf # 0 /\ heap[buf].deleted = 0
             /\ heap[buf].size = HeadLen(c) + total_bytes(c)
             /\ heap'[buf].size = heap[buf].size /\ heap'[buf].deleted = heap[buf].deleted
             /\ ~misread[c] => heap'[buf].parts = <<HeadOf(c), TextOf(c)>>
  <2>1. /\ buf \in 1..Len(heap) /\ heap[buf].deleted = 0 /\ heap[buf].size = HeadLen(c) + total_bytes(c)
        /\ heap[buf].parts = <<HeadOf(c)>>
    BY <1>1, <1>6, OwnsIt DEF Holds, CountSteps
  <2>2. heap'[buf].parts = <<HeadOf(c), p>>
    BY <1>5, <1>6, <2>1
  <2> QED
    BY <1>4, <1>5, <2>1, <2>2
<1>7. CASE FirstText(c) = total_bytes(c) /\ at' = [at EXCEPT ![c] = "post"]
  <2>1. at'[c] = "post"
    BY <1>7, CountingMoves
  <2>2. ~misread[c] /\ FirstText(c) = face[c].text
    <3>1. face[c].text \in Nat /\ AsLength \in Nat
      BY Lengths, AddFaceAssumption
    <3> QED
      BY <1>3, <1>7, <3>1, Totals
  <2>3. up' /\ ~mixed => Owns(c)'
    BY <1>1, <1>2, <1>6, <2>1, <2>2 DEF Owns, Holds
  <2> QED
    BY <1>1, <1>5, <1>7, <2>3, CountsOn DEF CountSteps
<1>8. ASSUME NEW s \in {"rest", "hung"}, at' = [at EXCEPT ![c] = s],
             recv_bytes' = [recv_bytes EXCEPT ![c] = FirstText(c)]
      PROVE  Own'
  <2>1. at'[c] = s /\ recv_bytes'[c] = FirstText(c)
    BY <1>8, CountingMoves DEF Types
  <2>2. ReadBefore(c)' = TextOf(c)
    BY <1>2, <2>1 DEF ReadBefore, TextOf, Part
  <2>3. up' /\ ~mixed => Owns(c)'
    BY <1>1, <1>2, <1>6, <2>1, <2>2 DEF Owns, Holds
  <2> QED
    BY <1>1, <1>5, <1>8, <2>3, CountsOn DEF CountSteps
<1> QED
  BY <1>7, <1>8 DEF CopyText, Goes

LEMMA CopyTextNegativeOwn ==
  ASSUME Types, Own, NEW c \in Client, CopyTextNegative(c)
  PROVE  Own'
<1>1. at[c] = "text" /\ up' = FALSE /\ UNCHANGED <<at, buf, heap, posts, mixed>>
  BY DEF CopyTextNegative
<1>2. at' = [at EXCEPT ![c] = "text"]
  BY <1>1 DEF Types
<1> QED
  BY <1>1, <1>2, CountsOn DEF CountSteps

LEMMA RestReadOwn ==
  ASSUME Types, Reads, Own, NEW c \in Client, RestRead(c)
  PROVE  Own'
<1>1. at[c] = "rest" /\ up /\ UNCHANGED <<face, recv_bytes, buf, heap, posts, mixed>>
  BY DEF RestRead, Goes
<1>2. CASE up' = FALSE /\ UNCHANGED at
  <2>1. at' = [at EXCEPT ![c] = "rest"]
    BY <1>1, <1>2 DEF Types
  <2> QED
    BY <1>1, <1>2, <2>1, CountsOn DEF CountSteps
<1>3. CASE /\ at' = [at EXCEPT ![c] = "append"] /\ misread' = misread
           /\ bytes_transferred' = [bytes_transferred EXCEPT ![c] = RestLen(c)]
  <2>1. at'[c] = "append" /\ bytes_transferred'[c] = RestLen(c)
    BY <1>3, CountingMoves DEF Types
  <2>2. ~misread[c]
    BY <1>1, Zenon DEF Reads
  <2>3. ASSUME ~mixed PROVE Owns(c)'
    <3>1. /\ buf \in 1..Len(heap) /\ heap[buf].deleted = 0 /\ heap[buf].size = HeadLen(c) + total_bytes(c)
          /\ heap[buf].parts = <<HeadOf(c), ReadBefore(c)>> /\ recv_bytes[c] = FirstText(c)
      BY <1>1, <2>2, <2>3, OwnsIt DEF Holds, CountSteps
    <3>2. buf # 0
      BY <3>1
    <3>3. bytes_transferred'[c] = face[c].text - recv_bytes[c] - 8
      <4>1. face[c].text \in Nat /\ bytes_transferred[c] \in Nat
        BY Lengths DEF Types
      <4>2. RestLen(c) = face[c].text - bytes_transferred[c] - 4
        BY <2>2, Totals DEF RestLen
      <4> QED
        BY <2>1, <3>1, <4>1, <4>2 DEF FirstText
    <3>4. /\ HeadOf(c)' = HeadOf(c) /\ ReadBefore(c)' = ReadBefore(c) /\ HeadLen(c)' = HeadLen(c)
          /\ total_bytes(c)' = total_bytes(c)
      BY <1>1, <1>3 DEF HeadOf, ReadBefore, Part, HeadLen, total_bytes
    <3> QED
      BY <1>1, <2>1, <3>1, <3>2, <3>3, <3>4 DEF Owns, Holds
  <2> QED
    BY <1>1, <1>3, <2>3, CountsOn DEF CountSteps
<1>4. CASE at' = [at EXCEPT ![c] = "new"]
  BY <1>1, <1>4, LeavesOff DEF CountSteps
<1> QED
  BY <1>2, <1>3, <1>4 DEF RestRead, Goes

LEMMA AppendRestOwn ==
  ASSUME Types, Own, NEW c \in Client, AppendRest(c)
  PROVE  Own'
<1>1. /\ up /\ at[c] = "append" /\ at' = [at EXCEPT ![c] = "post rest"] /\ Copies(RestOf(c))
      /\ UNCHANGED <<face, bytes_transferred, recv_bytes, misread, buf, posts, mixed>>
  BY DEF AppendRest, Goes, readVars, RestOf
<1>2. /\ RestOf(c) \in PartType /\ HeadOf(c)' = HeadOf(c) /\ ReadBefore(c)' = ReadBefore(c)
      /\ RestOf(c)' = RestOf(c) /\ HeadLen(c)' = HeadLen(c) /\ total_bytes(c)' = total_bytes(c)
  <2>1. recv_bytes[c] \in Nat /\ bytes_transferred[c] \in Nat /\ HeadLen(c) \in Nat
    BY Lengths DEF Types
  <2>2. recv_bytes[c] + 1 \in Nat /\ HeadLen(c) + recv_bytes[c] \in Nat
    BY <2>1
  <2>3. RestOf(c) \in PartType
    BY <2>1, <2>2, PartTypes DEF RestOf
  <2> QED
    BY <1>1, <2>3 DEF HeadOf, ReadBefore, RestOf, Part, HeadLen, total_bytes
<1>3. /\ \A k \in 1..Len(heap) : heap'[k].size = heap[k].size /\ heap'[k].deleted = heap[k].deleted
      /\ up' => buf \in 1..Len(heap) /\ heap'[buf].parts = Append(heap[buf].parts, RestOf(c))
  BY <1>1, <1>2, CopyKeeps
<1>4. ASSUME up', ~mixed PROVE Owns(c)'
  <2>1. /\ buf \in 1..Len(heap) /\ heap[buf].deleted = 0 /\ heap[buf].size = HeadLen(c) + total_bytes(c)
        /\ heap[buf].parts = <<HeadOf(c), ReadBefore(c)>>
        /\ bytes_transferred[c] = face[c].text - recv_bytes[c] - 8
    BY <1>1, <1>4, OwnsIt DEF Holds, CountSteps
  <2>2. heap'[buf].parts = <<HeadOf(c), ReadBefore(c), RestOf(c)>>
    BY <1>3, <1>4, <2>1
  <2>3. at'[c] = "post rest"
    BY <1>1, CountingMoves
  <2>4. buf # 0
    BY <2>1
  <2> QED
    BY <1>1, <1>2, <1>3, <2>1, <2>2, <2>3, <2>4 DEF Owns, Holds
<1> QED
  BY <1>1, <1>3, <1>4, CountsOn DEF CountSteps

(* A new buffer is behind all that were made, so nothing posted is in it. *)
LEMMA NewOwn ==
  ASSUME Types, Own, NEW c \in Client, New(c)
  PROVE  Own'
<1> DEFINE b == [by |-> c, size |-> HeadLen(c) + total_bytes(c), parts |-> <<>>, deleted |-> 0]
<1>1. /\ at[c] = "new" /\ UNCHANGED <<face, bytes_transferred, recv_bytes, misread, posts>>
      /\ \/ /\ at' = [at EXCEPT ![c] = "head"] /\ heap' = Append(heap, b) /\ buf' = Len(heap')
            /\ mixed' = (mixed \/ Counting # {})
         \/ up' = FALSE /\ UNCHANGED <<at, heap, buf, mixed>>
  BY DEF New, Goes, readVars
<1>2. b.size = HeadLen(c) + total_bytes(c) /\ b.parts = <<>> /\ b.deleted = 0
  OBVIOUS
<1> HIDE DEF b
<1>3. CASE /\ at' = [at EXCEPT ![c] = "head"] /\ heap' = Append(heap, b) /\ buf' = Len(heap')
           /\ mixed' = (mixed \/ Counting # {})
  <2>1. /\ Len(heap') = Len(heap) + 1 /\ buf' = Len(heap) + 1 /\ heap'[buf'] = b /\ Len(heap) \in Nat
        /\ \A k \in 1..Len(heap) : heap'[k] = heap[k]
    BY <1>3, TypesSeq
  <2>2. TextInPlace' /\ RestKept'
    BY <1>1, <1>3, <2>1, PostsStill DEF Own
  <2>3. ASSUME ~mixed' PROVE Alone'
    <3>1. Counting = {}
      BY <1>3, <2>3
    <3>2. /\ \A d : d \in Counting' => d = c
          /\ at'[c] = "head"
      BY <1>3, <3>1, CountingMoves
    <3>3. Owns(c)'
      <4>1. buf' # 0 /\ HeadLen(c)' = HeadLen(c) /\ total_bytes(c)' = total_bytes(c)
        BY <1>1, <2>1 DEF HeadLen, total_bytes
      <4> QED
        BY <1>2, <2>1, <3>2, <4>1 DEF Owns, Holds
    <3>4. \A k \in 1..Len(posts) : posts[k].buf # buf'
      BY <2>1, TypesSeq
    <3> QED
      BY <1>1, <3>2, <3>3, <3>4 DEF Alone
  <2> QED
    BY <2>2, <2>3 DEF Own, Alone
<1>4. CASE up' = FALSE /\ UNCHANGED <<at, heap, buf, mixed>>
  <2>1. at' = [at EXCEPT ![c] = "new"]
    BY <1>1, <1>4 DEF Types
  <2> QED
    BY <1>1, <1>4, <2>1, OthersOwn DEF CountSteps
<1> QED
  BY <1>1, <1>3, <1>4

(* What is posted next is in place, and not deleted. *)
LEMMA PostOwn ==
  ASSUME Types, Own, NEW c \in Client, NEW rest \in BOOLEAN, Posted(c, rest), UNCHANGED <<heap, mixed>>,
         ~mixed => /\ buf \in 1..Len(heap) /\ heap[buf].deleted = 0
                   /\ \A p : p.parts = heap[buf].parts => InPlace(p, c, heap[buf].size)
  PROVE  TextInPlace' /\ RestKept'
<1> SUFFICES ASSUME ~mixed PROVE TextInPlace' /\ RestKept'
  BY DEF TextInPlace, RestKept
<1>1. buf \in 1..Len(heap) /\ buf # 0
  OBVIOUS
<1>2. /\ Len(posts') = Len(posts) + 1 /\ Len(posts) \in Nat
      /\ \A k \in 1..Len(posts) : posts'[k] = posts[k]
      /\ posts'[Len(posts) + 1].by = c /\ posts'[Len(posts) + 1].buf = buf
      /\ posts'[Len(posts) + 1].parts = heap[buf].parts
  BY <1>1, PostTypes, TypesSeq
<1>3. ASSUME NEW k \in 1..Len(posts')
      PROVE  /\ posts'[k].buf # 0 /\ InPlace(posts'[k], posts'[k].by, heap[posts'[k].buf].size)
             /\ posts'[k].rest => heap[posts'[k].buf].deleted = 0
  <2>1. CASE k \in 1..Len(posts)
    BY <1>2, <2>1 DEF Own, TextInPlace, RestKept
  <2>2. CASE k = Len(posts) + 1
    <3>1. InPlace(posts'[k], c, heap[buf].size)
      BY <1>2, <2>2
    <3> QED
      BY <1>1, <1>2, <2>2, <3>1
  <2>3. k \in 1..Len(posts) \/ k = Len(posts) + 1
    BY <1>2
  <2> QED
    BY <2>1, <2>2, <2>3
<1> QED
  BY <1>3 DEF TextInPlace, RestKept, InPlace

LEMMA PostWholeOwn ==
  ASSUME Types, Reads, Own, NEW c \in Client, PostWhole(c)
  PROVE  Own'
<1>1. /\ up /\ at[c] = "post" /\ at' = [at EXCEPT ![c] = "command"] /\ Posted(c, FALSE)
      /\ UNCHANGED <<buf, heap, mixed>>
  BY DEF PostWhole, Goes
<1>5. total_bytes(c) = face[c].text
  <2>1. ~misread[c]
    BY <1>1, Zenon DEF Reads
  <2> QED
    BY <2>1, Totals
<1>2. ASSUME ~mixed
      PROVE  /\ buf \in 1..Len(heap) /\ heap[buf].deleted = 0
             /\ \A p : p.parts = heap[buf].parts => InPlace(p, c, heap[buf].size)
  <2>1. /\ buf \in 1..Len(heap) /\ heap[buf].deleted = 0 /\ heap[buf].size = HeadLen(c) + total_bytes(c)
        /\ heap[buf].parts = <<HeadOf(c), TextOf(c)>> /\ FirstText(c) = face[c].text
    BY <1>1, <1>2, OwnsIt DEF Holds, CountSteps
  <2>5. heap[buf].size = HeadLen(c) + face[c].text
    BY <1>5, <2>1
  <2>2. /\ HeadOf(c).of = c /\ HeadOf(c).first = 0 /\ HeadOf(c).len = HeadLen(c) /\ HeadOf(c).offset = 0
        /\ TextOf(c).of = c /\ TextOf(c).first = 1 /\ TextOf(c).len = FirstText(c)
        /\ TextOf(c).offset = HeadLen(c)
    BY DEF HeadOf, TextOf, Part
  <2>3. HeadLen(c) \in Nat /\ face[c].text \in Nat
    BY Lengths
  <2>4. ASSUME NEW p, p.parts = <<HeadOf(c), TextOf(c)>> PROVE InPlace(p, c, heap[buf].size)
    <3>1. Len(p.parts) = 2 /\ p.parts[1] = HeadOf(c) /\ p.parts[2] = TextOf(c)
      BY <2>4
    <3> QED
      BY <2>1, <2>2, <2>3, <2>5, <3>1 DEF InPlace
  <2> QED
    BY <2>1, <2>4
<1>3. TextInPlace' /\ RestKept'
  BY <1>1, <1>2, PostOwn
<1>4. ASSUME ~mixed' PROVE Alone'
  <2>1. \A d \in Client : at[d] \in CountSteps => d = c
    BY <1>1, <1>4, OwnsIt DEF CountSteps
  <2>2. \A d : d \notin Counting'
    BY <1>1, <2>1, CountingMoves DEF CountSteps
  <2>3. \A k \in 1..Len(posts') : posts'[k].rest => posts'[k].buf # buf
    <3>1. \A k \in 1..Len(posts) : posts[k].rest => posts[k].buf # buf
      <4>1. \A d \in Client : at[d] # "null"
        BY <1>1, <2>1 DEF CountSteps
      <4> QED
        BY <1>1, <1>4, <4>1 DEF Own, Alone
    <3>2. /\ Len(posts') = Len(posts) + 1 /\ Len(posts) \in Nat /\ posts'[Len(posts) + 1].rest = FALSE
          /\ \A k \in 1..Len(posts) : posts'[k] = posts[k]
      BY <1>1, PostTypes, TypesSeq
    <3>3. \A k \in 1..Len(posts') : k \in 1..Len(posts) \/ k = Len(posts) + 1
      BY <3>2
    <3> QED
      BY <3>1, <3>2, <3>3
  <2> QED
    BY <1>1, <2>2, <2>3 DEF Alone
<1> QED
  BY <1>3, <1>4 DEF Own, Alone

LEMMA PostRestOwn ==
  ASSUME Types, Reads, Own, NEW c \in Client, PostRest(c)
  PROVE  Own'
<1>1. /\ up /\ at[c] = "post rest" /\ at' = [at EXCEPT ![c] = "null"] /\ Posted(c, TRUE)
      /\ UNCHANGED <<buf, heap, mixed>>
  BY DEF PostRest, Goes
<1>5. total_bytes(c) = face[c].text
  <2>1. ~misread[c]
    BY <1>1, Zenon DEF Reads
  <2> QED
    BY <2>1, Totals
<1>2. ASSUME ~mixed
      PROVE  /\ buf \in 1..Len(heap) /\ heap[buf].deleted = 0
             /\ \A p : p.parts = heap[buf].parts => InPlace(p, c, heap[buf].size)
  <2>1. /\ buf \in 1..Len(heap) /\ heap[buf].deleted = 0 /\ heap[buf].size = HeadLen(c) + total_bytes(c)
        /\ heap[buf].parts = <<HeadOf(c), ReadBefore(c), RestOf(c)>>
        /\ bytes_transferred[c] = face[c].text - recv_bytes[c] - 8
    BY <1>1, <1>2, OwnsIt DEF Holds, CountSteps
  <2>5. heap[buf].size = HeadLen(c) + face[c].text
    BY <1>5, <2>1
  <2>2. /\ HeadOf(c).of = c /\ HeadOf(c).first = 0 /\ HeadOf(c).len = HeadLen(c) /\ HeadOf(c).offset = 0
        /\ ReadBefore(c).of = c /\ ReadBefore(c).first = 1 /\ ReadBefore(c).len = recv_bytes[c]
        /\ ReadBefore(c).offset = HeadLen(c)
        /\ RestOf(c).of = c /\ RestOf(c).first = recv_bytes[c] + 1 /\ RestOf(c).len = bytes_transferred[c]
        /\ RestOf(c).offset = HeadLen(c) + recv_bytes[c]
    BY DEF HeadOf, ReadBefore, RestOf, Part
  <2>3. HeadLen(c) \in Nat /\ face[c].text \in Nat /\ recv_bytes[c] \in Nat /\ bytes_transferred[c] \in Nat
    BY Lengths DEF Types
  <2>4. ASSUME NEW p, p.parts = <<HeadOf(c), ReadBefore(c), RestOf(c)>> PROVE InPlace(p, c, heap[buf].size)
    <3>1. /\ Len(p.parts) = 3 /\ p.parts[1] = HeadOf(c) /\ p.parts[2] = ReadBefore(c)
          /\ p.parts[3] = RestOf(c)
      BY <2>4
    <3>2. /\ \A k \in 1..3 : p.parts[k].of = c
          /\ \A k \in 2..3 : p.parts[k].offset = HeadLen(c) + p.parts[k].first - 1
      <4>1. /\ p.parts[1].of = c /\ p.parts[2].of = c /\ p.parts[3].of = c
            /\ p.parts[2].offset = HeadLen(c) + p.parts[2].first - 1
            /\ p.parts[3].offset = HeadLen(c) + p.parts[3].first - 1
        BY <2>2, <2>3, <3>1
      <4>2. (\A k \in 1..3 : k = 1 \/ k = 2 \/ k = 3) /\ (\A k \in 2..3 : k = 2 \/ k = 3)
        OBVIOUS
      <4> QED
        BY <4>1, <4>2
    <3>3. p.parts[3].offset + p.parts[3].len = heap[buf].size - 8
      <4>1. /\ p.parts[3].offset = HeadLen(c) + recv_bytes[c] /\ p.parts[3].len = bytes_transferred[c]
            /\ heap[buf].size = HeadLen(c) + face[c].text
            /\ bytes_transferred[c] = face[c].text - recv_bytes[c] - 8
        BY <2>1, <2>2, <2>5, <3>1, Zenon
      <4> QED
        BY <2>3, <4>1
    <3> QED
      BY <2>2, <3>1, <3>2, <3>3 DEF InPlace
  <2> QED
    BY <2>1, <2>4
<1>3. TextInPlace' /\ RestKept'
  BY <1>1, <1>2, PostOwn
<1>4. ASSUME ~mixed' PROVE Alone'
  <2>1. \A d \in Client : at[d] \in CountSteps => d = c
    BY <1>1, <1>4, OwnsIt DEF CountSteps
  <2>2. /\ \A d : d \in Counting' => d = c
        /\ at'[c] = "null"
    BY <1>1, <2>1, CountingMoves
  <2> QED
    BY <2>2 DEF Alone, Owns
<1> QED
  BY <1>3, <1>4 DEF Own, Alone

LEMMA SetNullOwn ==
  ASSUME Types, Own, NEW c \in Client, SetNull(c)
  PROVE  Own'
<1>1. /\ up /\ at[c] = "null" /\ at' = [at EXCEPT ![c] = "command"] /\ buf' = 0
      /\ UNCHANGED <<heap, posts, mixed>>
  BY DEF SetNull, Goes
<1>2. TextInPlace' /\ RestKept'
  BY <1>1, PostsStill DEF Own
<1>3. ASSUME ~mixed' PROVE Alone'
  <2>1. \A d \in Client : at[d] \in CountSteps => d = c
    BY <1>1, <1>3, OwnsIt DEF CountSteps
  <2>2. \A d : d \notin Counting'
    BY <1>1, <2>1, CountingMoves DEF CountSteps
  <2>3. \A k \in 1..Len(posts) : posts[k].buf # 0
    BY <1>1, <1>3 DEF Own, TextInPlace
  <2> QED
    BY <1>1, <2>2, <2>3 DEF Alone
<1> QED
  BY <1>2, <1>3 DEF Own, Alone

(* Whoever leaves deletes what buf names: nothing posted after a second read. *)
LEMMA ReadFailsOwn ==
  ASSUME Types, Own, NEW c \in Client, ReadFails(c)
  PROVE  Own'
<1>1. /\ up /\ at[c] \in {"first", "rest", "hung"} /\ at' = [at EXCEPT ![c] = "gone"]
      /\ mixed' = (mixed \/ Counting \ {c} # {}) /\ UNCHANGED <<buf, posts>>
      /\ heap' = heap \/ (buf # 0 /\ heap' = [heap EXCEPT ![buf].deleted = @ + 1])
  BY DEF ReadFails, readVars
<1> SUFFICES ASSUME ~mixed' PROVE Own'
  BY DEF Own, Alone, TextInPlace, RestKept
<1>2. ~mixed /\ \A d \in Counting : d = c
  BY <1>1
<1>3. \A d : d \notin Counting'
  BY <1>1, <1>2, CountingMoves DEF CountSteps
<1>4. \A k \in 1..Len(posts) : posts[k].rest => posts[k].buf # buf
  <2>1. \A d \in Client : at[d] # "null"
    BY <1>1, <1>2, CountingMoves DEF CountSteps
  <2> QED
    BY <1>2, <2>1 DEF Own, Alone
<1>5. \A k \in 1..Len(heap) : /\ heap'[k].size = heap[k].size
                              /\ k # buf => heap'[k].deleted = heap[k].deleted
  BY <1>1, DeleteKeeps
<1>6. ASSUME NEW k \in 1..Len(posts)
      PROVE  /\ posts[k].buf # 0 /\ InPlace(posts[k], posts[k].by, heap'[posts[k].buf].size)
             /\ posts[k].rest => heap'[posts[k].buf].deleted = 0
  <2>1. posts[k].buf # 0 /\ InPlace(posts[k], posts[k].by, heap[posts[k].buf].size)
    BY <1>2 DEF Own, TextInPlace
  <2>2. posts[k].buf \in 1..Len(heap)
    BY <2>1, TypesSeq
  <2>3. posts[k].rest => heap[posts[k].buf].deleted = 0
    BY <1>2 DEF Own, RestKept
  <2> QED
    <3>1. heap'[posts[k].buf].size = heap[posts[k].buf].size
      BY <1>5, <2>2
    <3>2. posts[k].rest => heap'[posts[k].buf].deleted = heap[posts[k].buf].deleted
      BY <1>4, <1>5, <2>2, Zenon
    <3> QED
      BY <2>1, <2>3, <3>1, <3>2, Zenon
<1>7. TextInPlace' /\ RestKept'
  BY <1>1, <1>6 DEF TextInPlace, RestKept, InPlace
<1> QED
  BY <1>1, <1>3, <1>4, <1>7 DEF Own, Alone

LEMMA StepOwn == Types /\ Reads /\ Own /\ [Next]_vars => Own'
<1> SUFFICES ASSUME Types, Reads, Own, [Next]_vars PROVE Own'
  OBVIOUS
<1>1. ASSUME NEW c \in Client, NEW f \in Face, Rects(c, f) PROVE Own'
  <2>1. /\ at[c] = "command" /\ at' = [at EXCEPT ![c] = "rects"] /\ face' = [face EXCEPT ![c] = f]
        /\ UNCHANGED <<up, bytes_transferred, recv_bytes, misread, buf, heap, posts, mixed>>
    BY <1>1 DEF Rects, Goes
  <2>2. \A d \in Client : d # c => face'[d] = face[d]
    BY <2>1 DEF Types
  <2> QED
    BY <2>1, <2>2, OthersOwn DEF CountSteps
<1>2. ASSUME NEW c \in Client, RectsHandler(c) \/ RectsFail(c) PROVE Own'
  <2>1. /\ at[c] = "rects" /\ up /\ UNCHANGED <<face, bytes_transferred, misread, buf, heap, posts, mixed>>
        /\ recv_bytes' = recv_bytes \/ recv_bytes' = [recv_bytes EXCEPT ![c] = 0]
        /\ at' = at \/ \E s \in {"first", "gone"} : at' = [at EXCEPT ![c] = s]
    BY <1>2 DEF RectsHandler, RectsFail, Goes, readVars
  <2>2. \A d \in Client : d # c => recv_bytes'[d] = recv_bytes[d]
    BY <2>1 DEF Types
  <2>3. \E s \in {"rects", "first", "gone"} : at' = [at EXCEPT ![c] = s]
    BY <2>1 DEF Types
  <2> QED
    BY <2>1, <2>2, <2>3, OthersOwn DEF CountSteps
<1>3. ASSUME NEW c \in Client, FirstRead(c) PROVE Own'
  <2>1. /\ at[c] = "first" /\ at' = [at EXCEPT ![c] = "new"]
        /\ UNCHANGED <<up, face, recv_bytes, misread, buf, heap, posts, mixed>>
        /\ \E n : bytes_transferred' = [bytes_transferred EXCEPT ![c] = n]
    BY <1>3 DEF FirstRead, Goes
  <2>2. \A d \in Client : d # c => bytes_transferred'[d] = bytes_transferred[d]
    BY <2>1 DEF Types
  <2> QED
    BY <2>1, <2>2, OthersOwn DEF CountSteps
<1>4. CASE UNCHANGED vars
  <2>1. TextInPlace' /\ RestKept'
    BY <1>4, PostsStill DEF vars, Own
  <2>2. Alone'
    <3>1. UNCHANGED <<up, at, face, bytes_transferred, recv_bytes, misread, buf, heap, posts, mixed>>
      BY <1>4 DEF vars, readVars
    <3>2. \A d : Owns(d) => Owns(d)'
      <4>1. \A d : /\ HeadOf(d)' = HeadOf(d) /\ TextOf(d)' = TextOf(d) /\ ReadBefore(d)' = ReadBefore(d)
                   /\ RestOf(d)' = RestOf(d) /\ HeadLen(d)' = HeadLen(d) /\ FirstText(d)' = FirstText(d)
                   /\ total_bytes(d)' = total_bytes(d)
        BY <3>1 DEF HeadOf, TextOf, ReadBefore, RestOf, Part, HeadLen, FirstText, total_bytes
      <4>2. ASSUME NEW d, Holds(d) PROVE Holds(d)'
        BY <3>1, <4>1, <4>2 DEF Holds
      <4> QED
        BY <3>1, <4>1, <4>2 DEF Owns
    <3>3. Counting' = Counting
      BY <3>1 DEF Counting
    <3> QED
      BY <3>1, <3>2, <3>3 DEF Own, Alone
  <2> QED
    BY <2>1, <2>2 DEF Own
<1> QED
  BY <1>1, <1>2, <1>3, <1>4, NewOwn, CopyHeadOwn, CopyTextOwn, CopyTextNegativeOwn, PostWholeOwn, RestReadOwn, AppendRestOwn,
     PostRestOwn, SetNullOwn, ReadFailsOwn
  DEF Next, Handler, Leaves

LEMMA Inductive == Spec => []IInv
<1>1. Init => IInv
  <2> SUFFICES ASSUME Init PROVE IInv
    OBVIOUS
  <2>1. Types
    <3>1. /\ heap = <<>> /\ posts = <<>> /\ buf = 0 /\ up = TRUE /\ mixed = FALSE
          /\ at = [c \in Client |-> "command"] /\ face = [c \in Client |-> NoFace]
          /\ bytes_transferred = [c \in Client |-> 0] /\ recv_bytes = [c \in Client |-> 0]
          /\ asked = [c \in Client |-> 0] /\ misread = [c \in Client |-> FALSE]
      BY DEF Init
    <3>2. /\ heap \in Seq(Buffer) /\ posts \in Seq(PostType) /\ buf \in 0..Len(heap)
          /\ \A k \in 1..Len(posts) : posts[k].buf \in 0..Len(heap)
      BY <3>1
    <3>3. asked \in [Client -> 0..MaxAdds]
      BY <3>1, AddFaceAssumption
    <3> QED
      BY <3>1, <3>2, <3>3 DEF Types
  <2>2. Reads
    BY DEF Init, Reads
  <2>3. Made
    <3>1. Asking = {} /\ Len(heap) = 0
      BY DEF Init, Asking
    <3>2. Asked \in Nat /\ Cardinality(Misread) \in Nat
      BY <2>1, AskedBound, MisreadFinite
    <3> QED
      BY <3>1, <3>2, FS_EmptySet DEF Made
  <2>4. Alone /\ TextInPlace /\ RestKept
    BY DEF Init, Alone, Counting, TextInPlace, RestKept
  <2> QED
    BY <2>1, <2>2, <2>3, <2>4 DEF IInv
<1>2. IInv /\ [Next]_vars => IInv'
  BY StepTypes, StepMade, StepOwn DEF IInv, Own
<1> QED
  BY <1>1, <1>2, PTL DEF Spec

(* Every variable has its type, buf names a buffer that was made, and nobody  *)
(* makes one who has not asked for it, or a second one but by a text taken    *)
(* for a length: a handler that begins again otherwise would.                 *)
THEOREM TypeCorrect == Spec => []TypeOK
<1>1. IInv => TypeOK
  <2> SUFFICES ASSUME IInv PROVE TypeOK
    OBVIOUS
  <2>1. Types
    BY DEF IInv
  <2>2. Len(heap) <= Asked + Cardinality({c \in Client : misread[c]})
    <3>1. /\ Made /\ Len(heap) \in Nat /\ Asked \in Nat
          /\ Cardinality(Asking) \in Nat /\ Cardinality(Misread) \in Nat
      BY <2>1, TypesSeq, AskedBound, AskingFinite, MisreadFinite DEF IInv
    <3> QED
      BY <3>1 DEF Made, Misread
  <2>3. /\ \A k \in 1..Len(heap) : heap[k].by \in Client /\ heap[k].size \in Nat /\ heap[k].deleted \in Nat
        /\ \A k \in 1..Len(posts) : posts[k].by \in Client
    <3>1. \A k \in 1..Len(heap) : heap[k] \in Buffer
      BY <2>1, TypesSeq
    <3>2. \A k \in 1..Len(posts) : posts[k] \in PostType
      BY <2>1, TypesSeq
    <3> QED
      BY <3>1, <3>2 DEF Buffer, PostType
  <2> QED
    BY <2>1, <2>2, <2>3, Zenon DEF TypeOK, Types
<1> QED
  BY <1>1, Inductive, PTL

(* While no two clients add faces at once, a client's rectangles and text are *)
(* posted in their places, all of them or all but the last eight bytes.       *)
THEOREM TextCorrect == Spec => []TextInPlace
BY Inductive, PTL DEF IInv

(* While no two clients add faces at once, what is posted after a second read *)
(* is never deleted by the handler of a client that leaves.                   *)
THEOREM RestCorrect == Spec => []RestKept
BY Inductive, PTL DEF IInv
===============================================================================
