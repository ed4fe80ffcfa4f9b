------------------------------ MODULE AddFace ------------------------------
(***************************************************************************)
(* The command RECTS: a client sends rectangles, then four bytes of length *)
(* and a text about the persons in them, and recv_person_data_handler puts *)
(* both into a buffer that it posts to Server::Core with WM_ADD_FACE.      *)
(*                                                                         *)
(* The variable buf of that handler is static: one for all connections,    *)
(* whose handlers run in several threads.  Each use of it is a step here.  *)
(* What is in a buffer is the sequence of the parts copied into it: whose  *)
(* bytes, where, and for a text which of its bytes.                        *)
(***************************************************************************)
EXTENDS Integers, Sequences, FiniteSets

CONSTANTS Client,      \* connections
          Face,        \* what a client adds: [nRects, text], the text by its length
          MaxAdds,     \* bound: RECTS commands
          Cut,         \* bytes of a text a first read may bring, if not all there is room for
          AsLength     \* four characters of a text read as a length: more than is ever sent

ASSUME AddFaceAssumption ==
    /\ IsFiniteSet(Client) /\ MaxAdds \in Nat /\ Cut \subseteq Nat
    /\ AsLength \in Nat \ {0}
    /\ \A f \in Face : f.nRects \in Nat /\ f.text \in Nat /\ f.text < AsLength

VARIABLES
  up,                  \* FALSE after an exception or a fault
  at,                  \* [Client -> the read that is pending, or the step of its handler]
  face,                \* [Client -> what it is adding]
  bytes_transferred, recv_bytes,
  misread,             \* [Client -> its text was taken for a length]
  buf,                 \* the static variable: a position in heap, 0: NULL
  heap,                \* every buffer made: [by, size, parts, deleted]
  posts,               \* the WM_ADD_FACEs: [by, buf, parts, rest]
  asked,               \* [Client -> the RECTS commands it has sent]
  mixed                \* two clients have been between new and the post at once

readVars == <<face, bytes_transferred, recv_bytes, misread, asked>>
vars == <<up, at, readVars, buf, heap, posts, mixed>>

NoFace == [nRects |-> 0, text |-> 0]
HeadLen(c) == 4 + 16 * face[c].nRects    \* the count and the rectangles
Package(c) == 4 + 16 * face[c].nRects    \* recv_package after reCreateData
Least(a, b) == IF a <= b THEN a ELSE b

Init ==
  /\ up = TRUE /\ at = [c \in Client |-> "command"] /\ face = [c \in Client |-> NoFace]
  /\ bytes_transferred = [c \in Client |-> 0] /\ recv_bytes = [c \in Client |-> 0]
  /\ misread = [c \in Client |-> FALSE]
  /\ buf = 0 /\ heap = <<>> /\ posts = <<>> /\ asked = [c \in Client |-> 0] /\ mixed = FALSE

Goes(c, from, to) == up /\ at[c] = from /\ at' = [at EXCEPT ![c] = to]

\* Between new and the post a client counts on buf.
Counting == {c \in Client : at[c] \in {"head", "text", "post", "rest", "append", "post rest", "null", "hung"}}

------------------------------------------------------------------------------
(* recv_handler and recv_rects_handler *)

Asked == Cardinality({p \in Client \X (1..MaxAdds) : p[2] <= asked[p[1]]})

Rects(c, f) ==
  /\ Goes(c, "command", "rects") /\ Asked < MaxAdds
  /\ face' = [face EXCEPT ![c] = f] /\ asked' = [asked EXCEPT ![c] = @ + 1]
  /\ UNCHANGED <<up, bytes_transferred, recv_bytes, misread, buf, heap, posts, mixed>>

\* The rectangles are copied from sixty-four bytes behind where they were read
\* to, so they are not those sent, and sixty bytes lie behind the package.
RectsHandler(c) ==
  /\ at[c] = "rects"
  /\ \/ Goes(c, "rects", "first") /\ recv_bytes' = [recv_bytes EXCEPT ![c] = 0] /\ UNCHANGED up
     \/ up /\ up' = FALSE /\ UNCHANGED <<at, recv_bytes>>
  /\ UNCHANGED <<face, bytes_transferred, misread, asked, buf, heap, posts, mixed>>

RectsFail(c) ==
  /\ Goes(c, "rects", "gone")
  /\ UNCHANGED <<up, readVars, buf, heap, posts, mixed>>

------------------------------------------------------------------------------
(* recv_person_data_handler *)

\* async_read of at least four bytes into the package.
FirstRead(c) ==
  /\ Goes(c, "first", "new")
  /\ LET most == Least(Package(c), 4 + face[c].text)
     IN  \E n \in {most} \union {4 + k : k \in Cut} :
           n <= most /\ bytes_transferred' = [bytes_transferred EXCEPT ![c] = n]
  /\ UNCHANGED <<up, face, recv_bytes, misread, asked, buf, heap, posts, mixed>>

\* What deserialze makes of the first four bytes of the package.
total_bytes(c) == IF misread[c] THEN AsLength ELSE face[c].text

\* buf = new char[...], which may throw for a length that is none.
New(c) ==
  /\ \/ /\ Goes(c, "new", "head") /\ UNCHANGED up
        /\ heap' = Append(heap, [by |-> c, size |-> HeadLen(c) + total_bytes(c), parts |-> <<>>,
                                 deleted |-> 0])
        /\ buf' = Len(heap') /\ mixed' = (mixed \/ Counting # {})
     \/ /\ up /\ at[c] = "new" /\ misread[c]
        /\ up' = FALSE /\ UNCHANGED <<at, heap, buf, mixed>>
  /\ UNCHANGED <<readVars, posts>>

\* memcpy into buf as it is now.  NULL ends the process; memory that is deleted,
\* or too small, may or may not.
Faulty(p) == IF buf = 0 THEN TRUE ELSE heap[buf].deleted > 0 \/ p.offset + p.len > heap[buf].size
Part(c, first, len, offset) == [of |-> c, first |-> first, len |-> len, offset |-> offset]
Copies(p) ==
  \/ /\ buf # 0 /\ UNCHANGED up
     /\ heap' = [heap EXCEPT ![buf].parts = Append(@, p)]
  \/ Faulty(p) /\ up' = FALSE /\ UNCHANGED heap

CopyHead(c) ==
  /\ Goes(c, "head", "text") /\ Copies(Part(c, 0, HeadLen(c), 0))
  /\ UNCHANGED <<readVars, buf, posts, mixed>>

\* The bytes to read next: eight less than there are; below zero, as many as never come.
RestLen(c) == total_bytes(c) - bytes_transferred[c] - 4
FirstText(c) == bytes_transferred[c] - 4

\* Variant: the four bytes of the length are forgotten in the comparison.
CopyTextAll(c) ==
  /\ FirstText(c) >= 0
  /\ IF bytes_transferred[c] = total_bytes(c)
     THEN Goes(c, "text", "post") /\ UNCHANGED recv_bytes
     ELSE /\ Goes(c, "text", IF RestLen(c) >= 0 /\ ~misread[c] THEN "rest" ELSE "hung")
          /\ recv_bytes' = [recv_bytes EXCEPT ![c] = FirstText(c)]
  /\ Copies(Part(c, IF misread[c] THEN 5 ELSE 1, FirstText(c), HeadLen(c)))
  /\ UNCHANGED <<face, bytes_transferred, misread, asked, buf, posts, mixed>>

\* A client never sends as much as a text makes for a length, so what is read next
\* then never completes either.
CopyText(c) ==
  /\ FirstText(c) >= 0
  /\ IF FirstText(c) = total_bytes(c)
     THEN Goes(c, "text", "post") /\ UNCHANGED recv_bytes
     ELSE /\ Goes(c, "text", IF RestLen(c) >= 0 /\ ~misread[c] THEN "rest" ELSE "hung")
          /\ recv_bytes' = [recv_bytes EXCEPT ![c] = FirstText(c)]
  /\ Copies(Part(c, IF misread[c] THEN 5 ELSE 1, FirstText(c), HeadLen(c)))
  /\ UNCHANGED <<face, bytes_transferred, misread, asked, buf, posts, mixed>>

\* Fewer bytes than a length has: memcpy of bytes_transferred-4.
CopyTextNegative(c) ==
  /\ up /\ at[c] = "text" /\ FirstText(c) < 0 /\ up' = FALSE
  /\ UNCHANGED <<at, readVars, buf, heap, posts, mixed>>

Posted(c, rest) ==
  posts' = Append(posts, [by |-> c, buf |-> buf, rest |-> rest,
                          parts |-> IF buf = 0 THEN <<>> ELSE heap[buf].parts])

\* The handler returns; its parameter and what the client sent are forgotten.
Returns(c) ==
  /\ bytes_transferred' = [bytes_transferred EXCEPT ![c] = 0]
  /\ face' = [face EXCEPT ![c] = NoFace]
  /\ UNCHANGED <<up, recv_bytes, misread, asked>>

\* One try, then post_recv; buf goes on naming what was posted.
PostWhole(c) ==
  /\ Goes(c, "post", "command") /\ Posted(c, FALSE) /\ Returns(c)
  /\ UNCHANGED <<buf, heap, mixed>>

\* Variant: recv_bytes is not set by the first read, and the handler starts again.
RestReadAgain(c) ==
  /\ recv_bytes[c] # 0 /\ Goes(c, "rest", "new")
  /\ UNCHANGED <<up, readVars, buf, heap, posts, mixed>>

\* If the first read brought the length alone, recv_bytes is 0 still: the handler
\* starts again and takes the first four bytes it has for the length.
RestRead(c) ==
  /\ at[c] = "rest"
  /\ \/ /\ recv_bytes[c] # 0 /\ Goes(c, "rest", "append") /\ UNCHANGED <<up, misread>>
        /\ bytes_transferred' = [bytes_transferred EXCEPT ![c] = RestLen(c)]
     \/ /\ recv_bytes[c] = 0 /\ Goes(c, "rest", "new") /\ UNCHANGED up
        /\ bytes_transferred' = [bytes_transferred EXCEPT ![c] = RestLen(c)]
        /\ misread' = [misread EXCEPT ![c] = TRUE]
     \/ /\ up /\ RestLen(c) > Package(c)
        /\ up' = FALSE /\ UNCHANGED <<at, bytes_transferred, misread>>
  /\ UNCHANGED <<face, recv_bytes, asked, buf, heap, posts, mixed>>

\* Variant: the rest is copied to where the text begins.
AppendStart(c) ==
  /\ Goes(c, "append", "post rest")
  /\ Copies(Part(c, recv_bytes[c] + 1, bytes_transferred[c], HeadLen(c)))
  /\ UNCHANGED <<readVars, buf, posts, mixed>>

AppendRest(c) ==
  /\ Goes(c, "append", "post rest")
  /\ Copies(Part(c, recv_bytes[c] + 1, bytes_transferred[c], HeadLen(c) + recv_bytes[c]))
  /\ UNCHANGED <<readVars, buf, posts, mixed>>

PostRest(c) ==
  /\ Goes(c, "post rest", "null") /\ Posted(c, TRUE)
  /\ UNCHANGED <<up, readVars, buf, heap, mixed>>

\* Variant: buf goes on naming what was posted here too.
SetNullNot(c) ==
  /\ Goes(c, "null", "command") /\ Returns(c)
  /\ UNCHANGED <<buf, heap, posts, mixed>>

\* buf = NULL; post_recv().  The eight bytes not read are an unknown command.
SetNull(c) ==
  /\ Goes(c, "null", "command") /\ buf' = 0 /\ Returns(c)
  /\ UNCHANGED <<heap, posts, mixed>>

\* if(buf) delete buf, whosever it is, and buf stays; deleting twice may end the process.
ReadFails(c) ==
  /\ up /\ at[c] \in {"first", "rest", "hung"} /\ at' = [at EXCEPT ![c] = "gone"]
  /\ \/ /\ UNCHANGED up
        /\ heap' = IF buf = 0 THEN heap ELSE [heap EXCEPT ![buf].deleted = @ + 1]
     \/ buf # 0 /\ heap[buf].deleted > 0 /\ up' = FALSE /\ UNCHANGED heap
  /\ mixed' = (mixed \/ Counting \ {c} # {})
  /\ UNCHANGED <<readVars, buf, posts>>

------------------------------------------------------------------------------
Handler(c) == FirstRead(c) \/ New(c) \/ CopyHead(c) \/ CopyText(c) \/ CopyTextNegative(c)
              \/ PostWhole(c) \/ RestRead(c) \/ AppendRest(c) \/ PostRest(c) \/ SetNull(c) \/ RectsHandler(c)
Leaves(c) == RectsFail(c) \/ ReadFails(c)

Next == \E c \in Client : Handler(c) \/ Leaves(c) \/ \E f \in Face : Rects(c, f)

\* What a client has sent arrives, and the threads run.
Spec == Init /\ [][Next]_vars /\ \A c \in Client : WF_vars(Handler(c))

------------------------------------------------------------------------------
(* Properties *)

\* Type invariant.  Only buffers that were made are named, and nobody makes one
\* who has not asked for it, or a second one but by a text taken for a length.
TypeOK ==
  /\ up \in BOOLEAN /\ mixed \in BOOLEAN
  /\ at \in [Client -> {"command", "rects", "first", "new", "head", "text", "post", "rest",
                        "append", "post rest", "null", "hung", "gone"}]
  /\ face \in [Client -> Face \union {NoFace}] /\ asked \in [Client -> 0..MaxAdds]
  /\ bytes_transferred \in [Client -> Nat] /\ recv_bytes \in [Client -> Nat]
  /\ misread \in [Client -> BOOLEAN]
  /\ buf \in 0..Len(heap) /\ Len(heap) <= Asked + Cardinality({c \in Client : misread[c]})
  /\ \A k \in 1..Len(heap) : heap[k].by \in Client /\ heap[k].size \in Nat /\ heap[k].deleted \in Nat
  /\ \A k \in 1..Len(posts) : posts[k].by \in Client /\ posts[k].buf \in 0..Len(heap)

\* The bytes of a text a buffer has, if they are the first ones of one client's,
\* each in its place behind the count and the rectangles.
InPlace(p, c, size) ==
  /\ Len(p.parts) \in 2..3
  /\ \A k \in 1..Len(p.parts) : p.parts[k].of = c
  /\ LET head == p.parts[1].len
         text(k) == p.parts[k]
     IN  /\ p.parts[1].first = 0 /\ p.parts[1].offset = 0 /\ text(2).first = 1
         /\ \A k \in 2..Len(p.parts) : text(k).offset = head + text(k).first - 1
         /\ Len(p.parts) = 3 => text(3).first = text(2).len + 1
         /\ LET end == text(Len(p.parts)).offset + text(Len(p.parts)).len
            IN  end = size \/ (Len(p.parts) = 3 /\ end = size - 8)

\* As long as no two clients add faces at once, what is posted is the client's own
\* count and rectangles and its text from the first byte on: all of it, or all
\* but the last eight bytes if it took a second read; and it is not deleted yet.
TextInPlace ==
  ~mixed => \A k \in 1..Len(posts) :
              posts[k].buf # 0 /\ InPlace(posts[k], posts[k].by, heap[posts[k].buf].size)

\* As long as no two clients add faces at once, nothing posted after a second read
\* is ever deleted (what is posted after one read can be, by the next client
\* that leaves while its person data is read).
RestKept ==
  ~mixed => \A k \in 1..Len(posts) : posts[k].rest => heap[posts[k].buf].deleted = 0

\* Every face is posted in the end, even if two clients get into each other's
\* buffers, unless the client leaves, the first read ended one to seven bytes
\* before the text does, or it brought the length alone.
PostsOf(c) == Cardinality({k \in 1..Len(posts) : posts[k].by = c})
FacesPosted ==
  \A c \in Client :
    []<>(\/ PostsOf(c) = asked[c] \/ at[c] = "gone" \/ ~up
         \/ at[c] = "hung" /\ (misread[c] \/ face[c].text - FirstText(c) \in 1..7))

\* A buffer is posted with one client's person data, that of the client it is
\* posted for: "count + CvRect array + sex1 name1 ..." (Client.cpp:213).
PersonDataOwn ==
  \A k \in 1..Len(posts) : \A i \in 1..Len(posts[k].parts) : posts[k].parts[i].of = posts[k].by
=============================================================================
