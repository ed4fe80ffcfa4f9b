--------------------------- MODULE ClientSession ---------------------------
(***************************************************************************)
(* One connection of the server: the commands FILE and ALIVE, a file in    *)
(* frames, the alive timer, and the client at the other end of TCP.        *)
(*                                                                         *)
(* Bytes are bytes here, because TCP delivers them in any cut and the code *)
(* takes for a command or a frame whatever one read has brought.  "stream" *)
(* is what the client sent and the server has not read: while the network  *)
(* is "whole" one element for each thing sent, else one for everything.    *)
(***************************************************************************)
EXTENDS Wire, FiniteSetsExt

CONSTANTS BODY_LEN,       \* bytes of a package behind its header
          File,           \* what a client sends: [bytes, frame]
          MaxFiles,       \* bound: transfers begun (one if the network cuts)
          MaxAlives,      \* bound: ALIVEs sent (one if the network cuts)
          MaxAlloc,       \* bytes beyond which an allocation fails
          Fill            \* the byte fresh memory holds (0xcd in a debug build)

\* FILE, the size and the length of a frame: the package is left as long as
\* the frames were, so that a shorter frame would cut the next command.  Both
\* sizes are ints of four bytes; an empty file has no frame, and what is sent
\* next would be taken for its first.
COMMAND_LEN == 12

ASSUME SessionAssumption ==
    /\ BODY_LEN \in Nat /\ BODY_LEN >= COMMAND_LEN
    /\ MaxFiles \in Nat /\ MaxAlives \in Nat /\ MaxAlloc \in Nat /\ Fill \in 0..251
    /\ \A f \in File : /\ f.bytes \in Seq(Byte) /\ Len(f.bytes) \in FileSize /\ Len(f.bytes) > 0
                       /\ f.frame \in FileSize /\ f.frame >= COMMAND_LEN

VARIABLES
  (* the client and the network *)
  whole,                  \* the network delivers each thing sent at once, alone
  files,                  \* the transfers the client has begun
  toSend,                 \* what is left to send of the last one
  stream,
  left,                   \* the client has gone
  asked, alives, answered,\* IS_ALIVE has arrived; ALIVEs sent; one of them after it
  (* the server *)
  up,                     \* FALSE after an exception or a fault
  open,                   \* cli_socket
  op, got,                \* the pending read, and the bytes it has
  data,                   \* recv_package
  total_bytes, file_frame_bytes, recv_bytes,
  recv_file,              \* the bytes of recv_buf behind its first four
  posted,                 \* the files posted to Server::Core
  overrun,                \* a memcpy has written behind recv_buf
  timer, writing,         \* timer_; the write of IS_ALIVE is pending
  disconnects             \* WM_CLIENT_DISCONNECTs posted

clientVars == <<whole, files, toSend, left, alives, answered>>
fileVars == <<total_bytes, file_frame_bytes, recv_bytes, recv_file, posted, overrun>>
timerVars == <<asked, timer, writing, disconnects>>
vars == <<clientVars, stream, up, open, op, got, data, fileVars, timerVars>>

FILE == <<70, 73, 76, 69>>
ALIVE == <<65, 76, 73, 86, 69>>
HEADER_LEN == 4

\* memcpy of four bytes into an int.
AsInt(in) == in[1] + 256 * in[2] + 65536 * in[3] + 16777216 * SignedChar(in[4])

\* The int behind the first at bytes of the package, whose end may come first.
SizeAt(at) == AsInt([i \in 1..4 |-> IF at + i <= Len(data) THEN data[at + i] ELSE Fill])

Fresh(n) == [i \in 1..n |-> Fill]

\* On a network that cuts, whatever is sent can be taken for a size.  Without the
\* bytes 252 to 255 that is never -1 to -4, for which new uchar[total_bytes + 4] and
\* the package of a frame succeed.
Plain(f) == Len(f.bytes) < 252 /\ f.frame < 252 /\ \A i \in 1..Len(f.bytes) : f.bytes[i] < 252

Init ==
  /\ whole \in BOOLEAN /\ (whole \/ \A f \in File : Plain(f))
  /\ files = <<>> /\ toSend = <<>> /\ stream = <<>> /\ left = FALSE
  /\ asked = FALSE /\ alives = 0 /\ answered = FALSE
  /\ up = TRUE /\ open = TRUE /\ op = "command" /\ got = 0
  /\ data = Fresh(HEADER_LEN + BODY_LEN)
  /\ total_bytes = 0 /\ file_frame_bytes = 0 /\ recv_bytes = 0 /\ recv_file = <<>>
  /\ posted = <<>> /\ overrun = FALSE
  /\ timer = "unset" /\ writing = FALSE /\ disconnects = 0

------------------------------------------------------------------------------
(* The client. *)

\* A command has a header nobody looks at.  Frames are numbered from 0 and all
\* of one length: the first is read with that length, so a file of one frame
\* has to fill it.
Command(body) == <<0, 0, 0, 0>> \o body
Frames(f) == (Len(f.bytes) + f.frame - 1) \div f.frame
Frame(f, i) == SerializeInt(i) \o [k \in 1..f.frame |-> IF i * f.frame + k <= Len(f.bytes)
                                                         THEN f.bytes[i * f.frame + k] ELSE 0]

AtMost(bound) == IF whole THEN bound ELSE Min({bound, 1})

StartFile(f) ==
  /\ ~left /\ toSend = <<>> /\ Len(files) < AtMost(MaxFiles)
  /\ files' = Append(files, f)
  /\ toSend' = <<Command(FILE \o SerializeInt(Len(f.bytes)) \o SerializeInt(f.frame))>>
               \o [i \in 1..Frames(f) |-> Frame(f, i - 1)]
  /\ UNCHANGED <<whole, left, alives, answered, stream, up, open, op, got, data, fileVars, timerVars>>

\* Said unasked, or in answer to IS_ALIVE.
SayAlive ==
  /\ ~left /\ toSend = <<>> /\ alives < AtMost(MaxAlives)
  /\ toSend' = <<Command(ALIVE)>>
  /\ alives' = alives + 1 /\ answered' = (answered \/ asked)
  /\ UNCHANGED <<whole, files, left, stream, up, open, op, got, data, fileVars, timerVars>>

Send ==
  /\ toSend # <<>> /\ toSend' = Tail(toSend)
  /\ stream' = IF whole \/ stream = <<>> THEN Append(stream, Head(toSend))
                                         ELSE <<stream[1] \o Head(toSend)>>
  /\ UNCHANGED <<whole, files, left, alives, answered, up, open, op, got, data, fileVars, timerVars>>

Leave ==
  /\ ~left /\ toSend = <<>> /\ left' = TRUE
  /\ UNCHANGED <<whole, files, toSend, alives, answered, stream, up, open, op, got, data, fileVars, timerVars>>

------------------------------------------------------------------------------
(* Reading.  async_read waits for the whole package, async_read_some for any byte. *)

Complete == IF op = "first frame" THEN got = Len(data) ELSE got > 0

Receive ==
  /\ up /\ open /\ op # "none" /\ ~Complete /\ stream # <<>>
  /\ LET most == Min({Len(stream[1]), Len(data) - got})
     IN  \E n \in 1..most :
           /\ whole \/ op = "first frame" => n = most
           /\ data' = [i \in 1..Len(data) |-> IF i \in (got + 1)..(got + n) THEN stream[1][i - got]
                                                                            ELSE data[i]]
           /\ got' = got + n
           /\ stream' = IF n = Len(stream[1]) THEN Tail(stream)
                        ELSE <<SubSeq(stream[1], n + 1, Len(stream[1]))>> \o Tail(stream)
  /\ UNCHANGED <<clientVars, up, open, op, fileVars, timerVars>>

\* End of file: the handler prints the error and reads no more.
ReadFails ==
  /\ up /\ left /\ stream = <<>> /\ op # "none" /\ ~Complete
  /\ op' = "none" /\ got' = 0
  /\ UNCHANGED <<clientVars, stream, up, open, data, fileVars, timerVars>>

------------------------------------------------------------------------------
(* recv_handler *)

Handles(what) == up /\ op \in what /\ Complete

\* match_string over the bytes received: true of any word if there are none.
Says(word) == \A i \in 1..Min({got - HEADER_LEN, Len(word)}) : data[HEADER_LEN + i] = word[i]

\* Variant: recv_bytes keeps the count of the transfer before.
CommandFileNoReset ==
  /\ Handles({"command"}) /\ Says(FILE)
  /\ LET total == SizeAt(8)
         frame == SizeAt(12)
     IN  /\ total \in 0..MaxAlloc /\ frame \in 0..MaxAlloc
         /\ total_bytes' = total /\ file_frame_bytes' = frame /\ recv_file' = Fresh(total)
         /\ data' = IF frame = Len(data) - HEADER_LEN THEN data ELSE Fresh(HEADER_LEN + frame)
  /\ op' = "first frame" /\ got' = 0
  /\ UNCHANGED <<clientVars, stream, up, open, recv_bytes, posted, overrun, timerVars>>

\* Sizes that are negative or too big end in an exception nobody catches (-1 to
\* -4 would not, but neither a command nor a Plain file brings them).  The command
\* RECTS is left out: this client never sends it.
CommandFile ==
  /\ Handles({"command"}) /\ Says(FILE)
  /\ LET total == SizeAt(8)
         frame == SizeAt(12)
     IN  IF total \in 0..MaxAlloc /\ frame \in 0..MaxAlloc
         THEN /\ total_bytes' = total /\ file_frame_bytes' = frame /\ recv_bytes' = 0
              /\ recv_file' = Fresh(total)
              /\ data' = IF frame = Len(data) - HEADER_LEN THEN data ELSE Fresh(HEADER_LEN + frame)
              /\ op' = "first frame" /\ got' = 0 /\ UNCHANGED up
         ELSE up' = FALSE /\ UNCHANGED <<op, got, data, total_bytes, file_frame_bytes, recv_bytes, recv_file>>
  /\ UNCHANGED <<clientVars, stream, open, posted, overrun, timerVars>>

\* reset_timer, which cancels a wait that is pending; and no further read.
CommandAlive ==
  /\ Handles({"command"}) /\ ~Says(FILE) /\ Says(ALIVE)
  /\ timer' = "set" /\ op' = "none" /\ got' = 0
  /\ UNCHANGED <<clientVars, stream, up, open, data, fileVars, asked, writing, disconnects>>

CommandOther ==
  /\ Handles({"command"}) /\ ~Says(FILE) /\ ~Says(ALIVE)
  /\ got' = 0
  /\ UNCHANGED <<clientVars, stream, up, open, op, data, fileVars, timerVars>>

------------------------------------------------------------------------------
(* recv_file_handler *)

Id == DeserializeInt(SubSeq(data, 1, HEADER_LEN))
InTransfer == Handles({"first frame", "frame"})

\* A negative id ends the reading; a number of frames divided by 0 the process.
FrameNegative ==
  /\ InTransfer /\ Id < 0
  /\ op' = "none" /\ got' = 0
  /\ UNCHANGED <<clientVars, stream, up, open, data, fileVars, timerVars>>

FrameOfNothing ==
  /\ InTransfer /\ Id >= 0 /\ file_frame_bytes = 0
  /\ up' = FALSE
  /\ UNCHANGED <<clientVars, stream, open, op, got, data, fileVars, timerVars>>

FrameBeyond ==
  /\ InTransfer /\ file_frame_bytes > 0 /\ Id > total_bytes \div file_frame_bytes
  /\ open' = FALSE /\ op' = "none" /\ got' = 0
  /\ UNCHANGED <<clientVars, stream, up, data, fileVars, timerVars>>

ValidFrame == InTransfer /\ file_frame_bytes > 0 /\ Id \in 0..(total_bytes \div file_frame_bytes)

\* recv_bytes + bytes_transferred - 4 is unsigned: below 0 it is more than any total.
Sum == recv_bytes + got - HEADER_LEN
Fits == Sum \in 0..total_bytes

\* memcpy(recv_file + id*file_frame_bytes, body(), len), which may write behind
\* recv_file and then may or may not end the process.
Store(len, bytes) ==
  LET at == Id * file_frame_bytes
      buf == [i \in 1..total_bytes |->
                IF i - at \in 1..len THEN IF HEADER_LEN + i - at <= Len(data) THEN data[HEADER_LEN + i - at]
                                                                              ELSE Fill
                ELSE recv_file[i]]
  IN  /\ recv_file' = buf /\ recv_bytes' = bytes /\ got' = 0
      /\ overrun' = (overrun \/ at + len > total_bytes)
      /\ IF at + len > total_bytes THEN up' \in BOOLEAN ELSE UNCHANGED up
      /\ IF bytes >= total_bytes THEN posted' = Append(posted, buf) /\ op' = "command"
                                 ELSE op' = "frame" /\ UNCHANGED posted
      /\ UNCHANGED <<clientVars, stream, open, data, total_bytes, file_frame_bytes, timerVars>>

FrameFits == ValidFrame /\ Fits /\ got >= HEADER_LEN /\ Store(got - HEADER_LEN, Sum)

\* Variant: what is too much is stored all the same.
FrameTooMuchStored == ValidFrame /\ ~Fits /\ Store(got - HEADER_LEN, total_bytes)

\* Variant: only what is more than announced is taken for the end.
FrameTooMuchGoesOn == ValidFrame /\ ~Fits /\ Store(total_bytes - recv_bytes, total_bytes - 1)

\* More than was announced is cut off.
FrameTooMuch == ValidFrame /\ ~Fits /\ Store(total_bytes - recv_bytes, total_bytes)

\* Less than a header: the length of the memcpy is 2^32 - 1 or a little less.
FrameTooShort ==
  /\ ValidFrame /\ Fits /\ got < HEADER_LEN
  /\ up' = FALSE
  /\ UNCHANGED <<clientVars, stream, open, op, got, data, fileVars, timerVars>>

------------------------------------------------------------------------------
(* The alive timer. *)

\* alive_timeout: IS_ALIVE is written, and the timer that has just expired is
\* waited for again, which is over at once.
AliveTimeout ==
  /\ up /\ timer = "set"
  /\ timer' = "check" /\ writing' = TRUE
  /\ UNCHANGED <<clientVars, stream, up, open, op, got, data, fileVars, asked, disconnects>>

\* wait_check_alive: whatever the error code, the client is shut down.
WaitCheckAlive ==
  /\ up /\ timer = "check"
  /\ timer' = "done" /\ open' = FALSE /\ disconnects' = disconnects + 1
  /\ UNCHANGED <<clientVars, stream, up, op, got, data, fileVars, asked, writing>>

\* Variant: the write is started again when it has failed.
AliveWriteFailsAgain ==
  /\ up /\ writing
  /\ open' = FALSE /\ disconnects' = disconnects + 1
  /\ UNCHANGED <<clientVars, stream, up, op, got, data, fileVars, asked, timer, writing>>

\* alive_write_handler with an error, and without one.
AliveWriteFails ==
  /\ up /\ writing /\ writing' = FALSE
  /\ open' = FALSE /\ disconnects' = disconnects + 1
  /\ UNCHANGED <<clientVars, stream, up, op, got, data, fileVars, asked, timer>>

AliveWritten ==
  /\ up /\ writing /\ writing' = FALSE
  /\ asked' = TRUE
  /\ UNCHANGED <<clientVars, stream, up, open, op, got, data, fileVars, timer, disconnects>>

------------------------------------------------------------------------------
Handler == CommandFile \/ CommandAlive \/ CommandOther \/ FrameNegative \/ FrameOfNothing
           \/ FrameBeyond \/ FrameFits \/ FrameTooMuch \/ FrameTooShort
Timer == AliveTimeout \/ WaitCheckAlive \/ AliveWriteFails \/ AliveWritten
Client == SayAlive \/ Send \/ Leave \/ \E f \in File : StartFile(f)

Next == Client \/ Receive \/ ReadFails \/ Handler \/ Timer

\* What was begun is sent, what was sent arrives, and the io threads run.
Spec == Init /\ [][Next]_vars /\ WF_vars(Send) /\ WF_vars(Receive) /\ WF_vars(Handler) /\ WF_vars(Timer)

------------------------------------------------------------------------------
(* Properties *)

\* Type invariant; a connection is reported to Server::Core twice at most.
TypeOK ==
  /\ whole \in BOOLEAN /\ files \in Seq(File) /\ left \in BOOLEAN
  /\ alives \in 0..MaxAlives /\ asked \in BOOLEAN /\ answered \in BOOLEAN
  /\ toSend \in Seq(Seq(Byte)) /\ stream \in Seq(Seq(Byte))
  /\ up \in BOOLEAN /\ open \in BOOLEAN
  /\ op \in {"command", "first frame", "frame", "none"}
  /\ data \in Seq(Byte) /\ Len(data) >= HEADER_LEN /\ got \in 0..Len(data)
  /\ total_bytes \in 0..MaxAlloc /\ file_frame_bytes \in 0..MaxAlloc
  /\ recv_bytes \in 0..total_bytes
  /\ recv_file \in Seq(Byte) /\ Len(recv_file) = total_bytes
  /\ posted \in Seq(Seq(Byte)) /\ overrun \in BOOLEAN
  /\ timer \in {"unset", "set", "check", "done"} /\ writing \in BOOLEAN
  /\ disconnects \in 0..2

\* Client.cpp:149: when the buffer is posted the file has been received: the
\* k-th buffer posted is the k-th file sent.
FileReceived == \A k \in 1..Len(posted) : k <= Len(files) /\ posted[k] = files[k].bytes

\* It has been, for any number of files one after the other, their frames
\* numbered, the last one padded, if every read brings one thing sent.
FileExact == whole => FileReceived

\* With a network that cuts nothing a connection keeps the promise of ImageQueue:
\* a file begun is handed in, a buffer posted has arrived.  It breaks with an
\* ALIVE, after which nothing is read, and with the end of the process.
Whatever(i) == TRUE
Item(bytes) == [cli |-> 1, img |-> bytes]
Begun == IF whole THEN [k \in 1..Len(files) |-> Item(files[k].bytes)] ELSE <<>>
Delivered == IF whole THEN [k \in 1..Len(posted) |-> Item(posted[k])] ELSE <<>>
Healthy == up /\ alives = 0
Transfer == INSTANCE ImageQueue WITH
              Client <- {1}, Image <- {f.bytes : f \in File}, Carried <- Whatever, MaxPosted <- MaxFiles,
              posted <- Begun, arrived <- Delivered, open <- Healthy
TransferSpec == Transfer!Spec

\* Nor is anything written behind the end of recv_buf.
WritesInside == whole => ~overrun

\* Every file sent is posted, unless it has more frames than read_header_int
\* can count or the client has said ALIVE before it was.
Countable(k) == Len(files) >= k /\ Frames(files[k]) <= 128
FilesArrive ==
  \A k \in 1..MaxFiles :
    whole /\ (\A j \in 1..k : Countable(j)) ~> Len(posted) >= k \/ alives > 0

\* Client.h:78: the timer decides whether a client is alive: one that has
\* answered IS_ALIVE is not shut down.
AnsweredKept == answered /\ toSend = <<>> => open
=============================================================================
