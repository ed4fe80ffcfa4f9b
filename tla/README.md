# FaceRecognitionServer: TLA+ specifications and proofs

The repository is a face recognition service for Windows. Clients connect over
TCP and send images; a **server process** (`my_server/`, Boost.Asio) assembles
them and hands them, through shared memory and thread messages, to a
**recognition process** (`FaceRecognition/`, OpenCV) that detects faces and
hands the rectangles back.

The sources carry both sides of an unresolved merge. The first side (`HEAD`) is
the one modelled; of the second (`ceaf66a`) the start is, in `Lifecycle`, which
shows that it never serves anyone (section 5).
The build is Win32: `char` is signed, `int`, `size_t` and pointers have 32 bits.

## 1. The system

| component | where | its state | its operations |
|---|---|---|---|
| io threads | `Server::run`, four threads on one `io_service` | - | run every handler below, several at once |
| accept loop | `Server.cpp` 329-372 | `client_map`, the counter `client_id` | `start_next_accept`, `accept_handler` |
| client session | `Client.cpp` | `recv_package`, `recv_buf`, `recv_bytes`, `total_bytes`, `file_frame_bytes`, `rects` | `recv_handler` (commands FILE, RECTS, ALIVE), `recv_file_handler`, `recv_rects_handler`, `recv_person_data_handler` |
| alive timer | `Client.cpp` 274-300, `Client.h` 42-46 | `timer_` | `reset_timer`, `alive_timeout`, `alive_write_handler`, `wait_check_alive` |
| `Server::Core` | `Server.cpp` 195-327 | its message queue, `recognition_thread_id` | WM_IMAGE, WM_GET_RECOGNITION_ID, WM_RESULT_DECTIVE, WM_CLIENT_DISCONNECT, WM_RECOGNITION_ERROR |
| image section | `"file-mapping"` and the auto-reset event `file_mapping_op_finish` | one buffer: 4 size bytes, then the file | written by `Server::Core`, read by `ProcessMessage` |
| result section | `"result-mapping"` | rectangles | written by the recognition thread, read by `Server::Core`, no lock |
| `ProcessMessage` | `FaceRecognition.cpp` 305-425 | its message queue | maps the sections; WM_IMAGE, WM_CLIENT_DISCONNECT |
| recognition thread `Core` | `FaceRecognition.cpp` 233-303 | `work_queue`, `cli_map` | pop, show, wait for a key, detect, update, copy, post |
| `_tmain` | `FaceRecognition.cpp` 430-499 | - | starts the threads, posts WM_GET_RECOGNITION_ID |
| `Server`, `main` | `Server.cpp` 25-165, 329-356; `my_server.cpp` (`main.cpp` is not in the project file) | `is_start`, the sections, the events, `recognition_main_thread_id` | constructor, `init`, `start`, destructor; the console |
| conversions | `serialize_int`, `deserialize_int`, `deserialze`, `Package::read_header_int` | - | int to four bytes and back |

How an image travels:

```
 client --TCP--> recv_handler / recv_file_handler         (io threads)
        --WM_IMAGE, recv_buf--> queue of Server::Core
 Server::Core: wait for file_mapping_op_finish; memcpy; 
        --WM_IMAGE, client id--> queue of ProcessMessage
 ProcessMessage: read size, read bytes; SetEvent; imdecode; push
        --work_queue--> recognition thread: show, key, detect, update cli_map,
                        copy the rectangles into "result-mapping"
        --WM_RESULT_DECTIVE--> queue of Server::Core: async_write to the client
```

What is hard to get right, and hard to test:

* two processes and a dozen threads with no lock common to both: the exclusion
  on the image section rests on an auto-reset event handed round a cycle of two
  message queues; a step out of place mixes the images of two clients;
* `PostThreadMessage` fails (thread not known yet, dead, queue full) and every
  caller treats that differently: forever, ten tries, eleven tries, one try;
* a process may die between any two steps, and nobody restarts it;
* conversions on signed chars that change the size of an image on the way;
* values never assigned (`cli_id`, `tmp.cli_id`, `count`) used as ids and lengths;
* TCP cuts and glues what a client sends, the frame protocol does not expect it;
* static and shared state used by four io threads without a lock.

PROJECT.json lists each of these hazards at its line, and says for those no property
covers why not: most of them happen on every run that gets there, and a property
could only repeat it.

What makes each component correct:

| component | properties |
|---|---|
| conversions | a size is read back as written (holds for sizes without a top bit in the low three bytes: `ReadBack`); what is copied otherwise |
| image section | one owner at a time; nothing changes it from the copy to the read |
| path of the images | once, in order, under the right id, with its own bytes; a failure costs one image and is final |
| results | in the order of the images; rectangles no older than the result |
| recognition thread | every queued image is served |
| client session | a posted buffer is the file that was sent; writes stay inside it; every file sent is posted |
| alive timer | a client that answers is not shut down; a disconnect is not reported under the id of a client being served |
| add face | the buffer posted is this client's and whole, and not deleted |
| accept loop | one accept at a time, and everyone connected is in `client_map` |
| results to a client | each whole, in order, its array deleted once and not too early |
| io threads | a thread kept by a full queue comes back, files are posted, connections accepted |
| lifecycle | the id of the recognition process is not lost; nobody is accepted before Core and the recognition process are there; a failure to start ends the server |

## 2. Modules

| module | what it is |
|---|---|
| `Wire` | the conversions as operators on four bytes |
| `WireSteps`, `MCWireSteps` | `deserialize_int` as it runs, one `\|=` per step on the bits of an int; shows that the closed form in `Wire` is what the loop computes |
| `Wire_proofs` | theorems about `Wire` for every file size |
| `WireSteps_proofs` | the loop of `deserialize_int` computes the closed form, for every file size |
| `ImageQueue` | abstract specification: what the path of the images promises, and what a connection promises of its files |
| `ResultStream` | abstract specification: what the connections promise of the results given to them |
| `Pipeline` | the two processes from the finished transfer to the result handed to `async_write` |
| `MCPipeline` | instances of `Pipeline` for TLC |
| `ClientSession` | one connection: commands, the frames of a file, the alive timer, byte by byte |
| `MCClientSession` | instances of `ClientSession` for TLC |
| `AddFace` | the command RECTS: rectangles and person data of several clients through one static buffer |
| `MCAddFace` | instances of `AddFace` for TLC |
| `Clients` | the accept loop, `client_map`, the pool of io threads, and the writes of results of all connections |
| `MCClients` | instance of `Clients` for TLC: four loads |
| `Lifecycle` | start and stop of both processes, on either side of the merge |
| `MCLifecycle` | instance of `Lifecycle` for TLC |
| `Pipeline_proofs` | types of `Pipeline`, exclusion on and integrity of the image section, finality of a loss |
| `Lifecycle_proofs` | types of `Lifecycle`, registration, serving, the console |
| `Arrival_proofs` | where every image is, the order of arrival, the refinement of `ImageQueue`, the order of results |
| `ClientSession_proofs` | types of a connection, that an uncut file is posted as it was sent, the refinement of `ImageQueue` |
| `AddFace_proofs` | types of the add-face handlers, what is posted by a client that is alone |
| `Clients_proofs` | types, one accept at a time, `client_map`, reports, the order and the deletion of results, the refinement of `ResultStream` |

`Pipeline`, `ClientSession`, `AddFace` and `Clients` overlap at the places where
one abstracts from what another has in detail: a connection is a sequence of
frames in `ClientSession`, one completed read in `Clients` and one step
(`PostImage`) in `Pipeline`; the recognition process is `Pipeline`'s and only
signals in `Clients`.

### Wire

A buffer of four chars is a sequence of numbers 0..255. `serialize_int` writes
the bytes of the size. `deserialize_int` promotes each signed char to `int`
before the shift, so a byte of 128 or more sets every bit above its own: `Smeared`
is that, byte by byte, and the top byte gives the sign. `Deserialze` is the
`memcpy` into a `size_t` the recognition process uses, which is exact.

### Pipeline

*State.* The variables carry the names of the code. An image is the record of
what the code can tell apart: size, whether it decodes, how many faces are found.
A buffer is named by its position in `recv_bufs`, the order of the posts to
`Server::Core`. `file_mapping` keeps the first four bytes exactly, and whose bytes
follow them. `work_queue` is the log of every `WorkInfo` pushed and `popped` the
number already taken, so the queue itself is what lies behind. A message holds
its two parameters; its field `of` is not sent, it says which image a message is
about so that properties can.

*Actions.* One action per step at which another thread can come in between:

| thread | actions |
|---|---|
| io threads | `Accept`, `PostImage` (end of `recv_file_handler`), `PostDisconnect` (alive timer) |
| `Server::Core` | `CoreGetImage`, `CoreWait`, `CoreCopy`, `CorePost` for WM_IMAGE; `CoreGetRecognitionId`, `CoreResult`, `CoreDisconnect`, `CoreError` |
| `_tmain` | `Register` |
| `ProcessMessage` | `PMMapped`, `PMNotMapped`; `PMGetImage`, `PMRead`, `PMSignal`, `PMQueue` for WM_IMAGE; `PMDisconnect`, `PMErase` |
| recognition thread | `RecPop`, `RecShow`, `OperatorKey`, `RecDetect`, `RecLock`, `RecUpdate`, `RecCopy`, `RecPost` |

*Failures.* A post fails when the thread is gone or its queue is full. Its
retries follow each other with nothing waited for, so they are one step that
succeeds or has failed for good; the loop of `recv_file_handler` never counts and
is a step that waits. `CoreCopy` ends the server on a count that is negative or
beyond the section, `PMRead`, `PMQueue`, `RecShow` and `RecCopy` end the
recognition process where the code reads beyond the section or an exception
leaves the thread. `abort()` is `CoreError`. `PMNotMapped` may happen for lack of
memory at any time.

*Undefined behaviour.* `stray` is what the never assigned `cli_id` and
`tmp.cli_id` hold: any id or none, chosen once. An unassigned `count` copies
nothing if it happens to be 0 and ends the process otherwise; it stays unassigned
with no face, and whenever `displaydetection` cannot set itself up. A lookup in
`cli_map` while the other thread inserts may miss an entry that is there, or fault.

*Definitions called "Variant"* stand before the action they vary. Each is a
plausible mistake in that piece of code, used to see that a property notices it
(PROJECT.json, "mutants"); no specification uses them.

### ImageQueue

Three variables: what was handed in, what was delivered, whether the path is
open. `Deliver` delivers the next item under its own id, with its own bytes if
the path carries its size; `Break` ends the promise of liveness, never that of
safety. `Pipeline` maps `recv_bufs` to `posted`, `work_queue` to `arrived`, and
calls the path open while both processes live and the event is not lost.
`ClientSession` maps the files its client has begun to `posted` and the buffers it
has posted to `arrived`; it is open until an ALIVE, after which nothing is read, or
the end of the process, and it hands in nothing on a network that cuts, where it
promises nothing.

### ResultStream

What the connections promise of the results given to them: `Give` assigns a
result, the results in their order; `SendPiece` sends the next piece of one, its
first only behind all that was sent of earlier results and never begun again;
`SendOther` is IS_ALIVE; `Delete` deletes an array once, when every piece was sent
or the connection is down, and a deleted result sends nothing; `Break` is a socket
closed or a client gone. Pieces of two results may alternate. `Clients` maps `dest`
to `owner`, `wire` to `sent`, `freed` to `deleted`.

### ClientSession

One connection from the read of a command to the buffer posted: what `Pipeline`
begins with in `PostImage`. Bytes are bytes here, because TCP may cut a frame
anywhere and the code takes what one read has brought for a command or a frame.
`whole` says which network there is: one that delivers each thing sent by itself,
as the code expects, or one that delivers a stream (`stream` has one element then,
and `async_read_some` takes any prefix of it).

| code | actions |
|---|---|
| the client | `StartFile`, `SayAlive`, `Send`, `Leave` |
| `post_recv` and the reads posted later | `Receive`, `ReadFails` |
| `recv_handler` | `CommandFile`, `CommandAlive`, `CommandOther` |
| `recv_file_handler` | `FrameFits`, `FrameTooMuch` (stored, posted when complete), `FrameNegative`, `FrameBeyond`, `FrameOfNothing`, `FrameTooShort` |
| alive timer | `AliveTimeout`, `WaitCheckAlive`, `AliveWritten`, `AliveWriteFails` |

`op` is the read that is pending and the handler it will call: `"first frame"` is
the `async_read` of a whole package, the others are `async_read_some`. The handlers
of one connection never overlap: each starts the next read as its last act. Fresh
memory holds `Fill`. Writing behind `recv_buf` sets `overrun` and may or may not end
the process. An exception no handler catches ends it (`up`).

The client sends frames of equal length, the last one padded: the first frame is
read with `async_read` of exactly that length, so a shorter one would never
complete. A frame is at least as long as a command (`COMMAND_LEN`), because the
package keeps the length of the frames for the next command. Sizes are ints of four
bytes, and no file is empty: after FILE the code reads a first frame even if
`total_bytes` is 0, so what is sent next would be taken for it (`SessionAssumption`
says all this). On the network that cuts, bytes of a file or of a frame's number can be
taken for a size; files are `Plain` there (no byte, length or frame of 252 or more),
which keeps out the sizes -4 to -1: `new uchar[total_bytes + 4]` would succeed for them,
where for every other negative size it throws.

### AddFace

What a client sends after RECTS: a count and rectangles, then a length and a text.
What matters is whose bytes end up where, so a buffer of `heap` is the list of
`parts` copied into it (whose, which bytes of the text, at what offset), and `buf`
is the static variable: a position in `heap` or 0 for NULL. Every use of `buf` in
`recv_person_data_handler` is a step of its own, because four io threads may be
in it, and every step reads `buf` anew.

| code | actions |
|---|---|
| the client | `Rects`, `ReadFails`, `RectsFail` (it leaves) |
| `recv_rects_handler` | `RectsHandler` |
| `recv_person_data_handler`, `recv_bytes` is 0 | `FirstRead`, `New`, `CopyHead`, `CopyText`, `CopyTextNegative`, `PostWhole` |
| the same, second read | `RestRead`, `AppendRest`, `PostRest`, `SetNull` |

The rest of the text is asked for eight bytes short
(`total_bytes-bytes_transferred-4`): it arrives so (`TextInPlace` says it), and if
fewer than eight are left the length is negative and the read never ends (`at` is
"hung"). What the eight bytes are taken for next is an unknown command, which does
nothing. A first read that brings the four bytes of the length and no more leaves
`recv_bytes` at 0, so the handler begins again with the first bytes of the text for a
length (`misread`). What they make is `AsLength`, more than any client sends: `new` may
throw for it, or a second buffer is made, the first one lost, and the read of the
rest never completes. If that second read brought fewer than four bytes, `memcpy` is
given a negative length (`CopyTextNegative`). The rectangles are copied from 64 bytes behind where they were read to;
their values are not those sent, so values are left out, and the copy may fault.
`memcpy` to NULL ends the process; into memory that was deleted or is too small
it may or may not. `PostThreadMessage` is one try here, and `Server::Core` has no
case for WM_ADD_FACE.

### Clients

The connections together. A handler runs when its operation has completed and one
of the `async_run_num` threads is free; the two that can hold a thread have a state
of their own: `accept_handler` until the next accept is started (`accepting`), and
`recv_file_handler`, which posts WM_IMAGE until there is room (`posting`).
`IoThreads`, `Core`, `System` and `RecSignals` are the processes.

| code | actions |
|---|---|
| `accept_handler`, `create_client`, `start_next_accept` | `AcceptHandler`, `AcceptHandlerFailed`, `CreateClient`, `Insert`, `StartAccept` |
| `recv_file_handler`, `recv_handler` | `FileReceived`, `PostImage`, `ReadEnds` |
| alive timer | `AliveTimeout`, `WaitCheckAlive`, `AliveWriteHandler` |
| `send_dective_result`, `send_handler` | `SendResult`, `SendHandler` |
| `Server::Core` | `CoreImage`, `CoreHandsOn`, `CoreResult`, `CoreDisconnect`, `CoreFaults` |
| Boost.Asio and the system | `AcceptDone`, `TimerExpires`, `Continue`, `SystemSends` |
| recognition process | `RecSignals`, `RecLoses`, `RecResult` |

*Writes.* `async_write` hands the system one piece after the other, each when the
one before is sent, and a thread must be free for it; the system sends in the order
handed over. Core starts a write for each result without waiting for the last one,
so pieces of two results can alternate on the wire: the code does nothing against it,
and the model has it.

*Ids.* `Client.cpp` 291 posts the counter `client_id` and not the id of the client;
`Report` does the same. The id of a result is arbitrary, since it comes from a
`cli_id` nothing was assigned to (see `stray` of `Pipeline`). A `find` in
`client_map` while another thread inserts may miss an entry, find the new one, or
fault and end the process (`CoreFaults`).
`remote_endpoint()` throws for a connection that is reset already; nobody catches,
and `up` becomes FALSE.

### Lifecycle

`main` with constructor, `init`, `start` and destructor of `Server`; the thread
`Server::Core`; `_tmain` and `ProcessMessage`. `mainPc`, `corePc`, `recPc` and `pmPc`
are where they are. Each call of the system that the code checks may fail, up to
`MaxFaults` times in a behaviour, crashes included. An early `return` in the
constructor leaves an object `main` goes on with, as in the code.

| code | actions |
|---|---|
| `Server::Server` | `CtorMySql`, `CtorSections`, `CtorThread`, `CtorWait`, `CtorProcess`, `CtorInit`, `CtorFlag` |
| `start`, `run` | `RunEnds`; `AcceptFails`, `ClientsLeave`, `ServerCrashes` |
| the clients | `ClientPosts`: an image, posted until there is room, or another message, in one try |
| `main`, `~Server` | `MainCheck`, `OperatorTypes`, `MainExit` |
| `Server::Core` | `CoreQueue`, `CoreSignal`, `CoreFlag`; `CoreGetRecognitionId`, `CoreError`, `CoreImage`, `CoreHandsOn`, `CoreResult`, `CoreDisconnect` |
| `_tmain` | `RecStart`, `RecWait`, `RecRegister`, `RecExit`, `RecCrashes` |
| `ProcessMessage` | `PMQueue`, `PMSignal`, `PMOpen`, `PMImage` |
| recognition thread | `RecResult` |

*Sections and views.* `CreateFileMapping` that failed is noticed, later, by
`CtorProcess`. A failed `MapViewOfFile` is only printed: `views` says which of the
two are there, the server accepts all the same, and Core's `memcpy` to or from the
missing one ends it.

*What Core may be kept by.* Clients are accepted before the recognition process has
registered, and Core takes messages in the order they came. An image posted
before WM_GET_RECOGNITION_ID was handled takes the event and is posted to no thread,
so the event is lost and Core waits at the next image, with the id, or
WM_RECOGNITION_ERROR, behind it. A queue that clients have filled refuses either
message. `Stuck`, `lostId` and `lostError` name these ends. Images are counted
here and not told apart; `Pipeline` has the rest of their way.

`build` is chosen once: with or without `assert()`, and which side of the merge
`Client.cpp` and `FaceRecognition.cpp` are. A `Client` of `ceaf66a` waits on its timer with
`shared_from_this()` in its constructor, which throws; `_tmain` of `ceaf66a` maps
the sections before it has opened them and reports WM_RECOGNITION_ERROR. `stray` says
whether the never assigned `recognition_main_thread_id` happens to be right: if it is
not, the WM_EXIT of the destructor reaches nobody and the recognition process lives on.
Core and the constructor both write `is_start`, in either order, and `main` reads it when
`run` has returned. No property is stated of these two: the first is so on every
run, and neither order of the second is wrong by anything the code says.

## 3. Properties and runs

| run | instance | shows |
|---|---|---|
| `wire_steps` | 8 edge values in the low three bytes, 3 in the top one, all combinations: 7 680 states | `ClosedForm`, `MemcpyCount` |
| `pipeline_safety` | 2 clients, 3 images, 2 disconnects, queues of 2: 2 483 331 states | `OneOwner`, `MappingUndisturbed`, `ArrivalExact`, `Accounting`, `ResultsInOrder`, `LossIsFinal`, `PathSpec` |
| `pipeline_odd` | 1 client, 2 of 7 images that are misread, too big, have no face or do not decode: 123 806 states | `TypeOK`, `ArrivalExact`, `Accounting`, `PathLive`, `Served` |
| `pipeline_rects` | violation | `RectsMatchResult` |
| `pipeline_sizes` | violation | `SizeKept` |
| `session` | 3 files of one or two frames and 2 ALIVEs undivided, one of each cut anywhere: 17 855 states | `TypeOK`, `FileExact`, `WritesInside`, `TransferSpec`, `FilesArrive` |
| `session_cuts` | violation | `FileReceived` |
| `session_alive` | violation | `AnsweredKept` |
| `addface` | 2 clients, 2 faces with texts of 9 and 24 bytes, first reads of 4 lengths: 148 768 states | `TypeOK`, `TextInPlace`, `RestKept`, `FacesPosted` |
| `addface_own` | violation | `PersonDataOwn` |
| `clients` | 2 connections, 2 threads, a queue of 1, 4 loads: 93 408 states | `TypeOK`, `OneAccept`, `ConnectedMapped`, `WireOrdered`, `DeletedOnce`, `ReportsNewest`, `StreamSpec`, `FilesPosted`, `DialsAccepted` |
| `lifecycle` | 8 builds, 2 faults, 3 messages of clients, queues of 2: 310 428 states | `TypeOK`, `RegistrationKept`, `ServesReady`, `ConsoleAfterInit`, `MapFailureEndsServer`, `Starts` |

* `OneOwner`: the event signalled, Core between wait and post, a WM_IMAGE on its
  way, `ProcessMessage` before its SetEvent: at most one of them at any time.
* `MappingUndisturbed`: from the `memcpy` to the SetEvent the section holds the
  announced image, header and bytes.
* `ArrivalExact`: the k-th `WorkInfo` is the k-th buffer posted, with its client's
  id, its bytes and its decoding. A lost image is the last one that arrives
  nowhere: nothing after it arrives either, so positions never shift.
* `Accounting`: every buffer is in one place: a queue, a thread's hands,
  `work_queue`, or it is the one whose post failed.
* `LossIsFinal`: after such a failure the event is never signalled again and the
  section never written. One failed post ends the service; this is what the code
  does, and the property says that it does nothing worse.
* `ResultsInOrder`: one result per image at most, in order, and rectangles at
  least as new as the image. That they can be newer is what the run of `RectsMatchResult` shows.
* `PathSpec`, `PathLive`: the path implements `ImageQueue`.
* `Served`: every queued image is popped and its round finished, or the
  recognition process is gone.

* `FileExact`, `WritesInside`: with nothing cut the k-th buffer posted is the k-th
  file sent, whatever was sent before it on the same connection, and nothing is
  written behind its end.
* `TransferSpec`: with nothing cut, one connection implements `ImageQueue`. `FileExact`
  speaks of every state, this of every step: one buffer at a time, never taken back,
  and none behind an ALIVE.
* `FilesArrive`: with nothing cut every file is posted, unless an ALIVE came first
  (the server reads nothing after it) or the file has more than 128 frames
  (`read_header_int` makes the number of the 129th negative).
* `TypeOK` of `ClientSession` also says that a connection is reported to
  `Server::Core` at most twice (it can be twice: by `wait_check_alive` and by a
  failed write).

* `TextInPlace`, `RestKept`: as long as no two clients are between `new` and the post
  at once, what is posted is that client's count, rectangles and text, each byte in
  its place, whole or eight bytes short, and what is posted after a second read is
  never deleted (what is posted after one read can be: `buf` still names it when
  the next read fails).
* `FacesPosted`: every RECTS is posted, even if clients get into each other's buffers,
  unless the client leaves, a fault ends the process, a rest of one to seven
  bytes makes the length negative, or the first read brought the length alone and
  the text was taken for another one.
* `OneAccept`: what makes the missing lock of `create_client` harmless: one accept,
  or one handler of it, at any time, about the `Client` made last.
* `ConnectedMapped`: everyone connected is in `client_map`; a result under the right id
  can be lost by a lookup during an insertion only.
* `ReportsNewest`: the id of a disconnect is wrong (the counter), but it is the newest
  one: never an older client's, never one being served, but for the moments before
  `accept_handler` has made the next `Client`.
* `WireOrdered`: results reach a client in the order Core handled them, piece by piece
  in order, each whole when its array is deleted. That they do not
  alternate is not said, because they may.
* `DeletedOnce`: `send_handler` deletes each array once, when no piece is left to send.
* `StreamSpec`: all of this step by step, the refinement of `ResultStream`: what is sent is
  sent on an open connection, of a result that was given to it and is not deleted.
* `FilesPosted`: a file received is posted, however many of the threads a full queue
  keeps; `Stuck` is the exception: Core waits for a lost event with its queue full,
  and every thread that posts an image is gone for good.
* `DialsAccepted`: a connection is accepted, unless an accept has failed before
  (`accept_handler` only prints), or `Stuck`.
* `RegistrationKept`: eleven tries in no time are enough for WM_GET_RECOGNITION_ID and
  WM_RECOGNITION_ERROR, since Core has its queue before the recognition process is
  made, unless the server has ended or clients have filled the queue. It speaks of
  the post; whether Core gets to read it is a question for the next two.
* `MapFailureEndsServer`, `Starts`: a recognition process that cannot map its sections
  ends the server; if nothing fails both of `HEAD` come up and know each other, and with
  a file of `ceaf66a` the server ends. Both except what the code lets happen to them:
  Core waiting for a lost event (`Stuck`) and a report lost in a full queue.
* `ServesReady`: nobody is accepted before Core has its queue, both sections were created
  and the recognition process was started. That the views are mapped is not part of it: the
  code only prints that they are not.
* `ConsoleAfterInit`: built with `assert()`, `main` waits at its console only if `init`
  has succeeded, whatever Core and the constructor make of `is_start`.

*Bounds.* Three images are one in the section, one in each queue, so every
owner has a rival; two clients are enough for a wrong id; a queue of two is full
with one message of each kind waiting. The section is 1024 bytes long, longer
than every size but the one chosen to be too big. `MaxClients`, `MaxImages` and
`MaxDisconnects` bound the environment; `QueueLimit` and `IPC_BUFF_SIZE` are
constants of the code with small values.
Packages are 16 bytes in `ClientSession` (1024 in the code): the command FILE just
fits, and every position of a cut is tried in a command and in a frame. Three
files make the second and third follow a transfer of either length. `MaxAlloc` is
where an allocation fails.
In `AddFace` two clients are what it takes to mix buffers, two RECTS give
each client one or one client two; the texts are shorter and longer than the 16 bytes that
fit in the first read, and `Cut` lets it end behind the length (0), early and late.
`Clients` has two threads (four in the code), so that two files in a full queue of
one keep them all; three `Client`s are two connections and the one that waits. A
`Load` is a set of bounds that go together, because all at their highest are too
many states: files until every thread is kept; two results in two pieces
and a timer; two connections and a timer; a result and files. Each has what it is
about at the bound, and with a fault where faults matter.
In `Lifecycle` two faults let a second failure
meet the handling of the first. Its queue of two is full with a client's message and the id,
and three messages are enough to lose the event, keep Core at the next image and
fill the queue behind it.

*Stopping.* No run checks deadlock: a process that has
died, an event that is lost and an environment that has used its bounds all
leave the system with nothing to do.

*Fairness.* Every thread is scheduled: weak fairness of each thread's actions
together, which is what the operating system gives. In `ClientSession` what the
client has begun to send is sent, what was sent arrives, and the io threads run. Nothing is assumed of
clients, timers and the operator; `Served` has the operator who keeps pressing keys
as its premise (`WF_vars(OperatorKey)`): without one the recognition thread waits in
`waitKey()` for ever. In `AddFace` what is sent arrives and each client's handlers
run. In `Clients` the io threads together, Core, the system (accepts, timers, sends) and the signal
of the recognition process are fair; clients, faults and results are not. In
`Lifecycle` each of the four threads is.

*Violations.* Each violation run shows a comment of the code not kept by it:
`rects_mapping_mutex` is created and never taken; the four size bytes
do not keep the size across `deserialize_int`; a file whose second frame is cut is
"complete" and wrong; a client that answers IS_ALIVE is shut down; the static `buf`
is posted with the person data of two clients.

## 4. Theorems

Every safety invariant, action property and refinement the passing runs check is a
theorem. They are proved for every value of the constants: every number of
clients, images and disconnects, every queue length, every section of at least four
bytes, every set of images; every file, length of frames and package; every number of
threads, connections, results, pieces and loads; every number of faults. The
assumptions are the named ones of the modules and nothing else: `BoundsAssumption`
and `ImageAssumption` (`Pipeline`), `SessionAssumption` (`ClientSession`),
`AddFaceAssumption` (`AddFace`), `ClientsAssumption`, `LifecycleAssumption`. All of them are types
and lower bounds, except that no text of `AddFace` is as long as `AsLength`, and that
the clients of `ClientSession` keep to the protocol: sizes are ints of four bytes, frames are
no shorter than a command, files not empty, and `Plain` on a network that cuts. `Fill`,
the one byte that stands for what fresh memory holds, is below 252 (a debug build
fills with 0xcd): four of a higher one would be a size of -4 to -1.

* `SizeReadByCore`, `CopiedWhole` (`Wire_proofs`). A file size is read back iff its
  low three bytes have no top bit; otherwise it is read as a negative number,
  and the count of the `memcpy` is 0 to 3 if the low byte is 252 or more and
  negative if not. So a copy of four bytes or more is a copy of everything. The
  proof names the four bytes a, b, c, d and splits on which of them smears.
* `LoopCorrect`, `CountCorrect` (`WireSteps_proofs`): `ClosedForm`, `MemcpyCount`, for every
  set `Sizes` of file sizes. The inductive invariant is `Gathered`: bit k is set iff one of the chars
  read so far, promoted and shifted, has it. At the end an octet of `val` is the char
  at its place, or all ones from the first negative char below it on (`SumOfBits`: a
  char is the sum of its bits), which is what `Smeared` says.
* `TypeCorrect` (`Pipeline_proofs`): `Spec => []TypeOK`. `TypeOK` is inductive:
  the types alone are not, because `ImageOf(b)` is a type only for a buffer that
  exists; `Names` adds that messages, section, vector and `WorkInfo`s name posted
  buffers, and that the recognition thread works on an image that was decoded.
* `OwnerCorrect` (`Pipeline_proofs`): `Spec => []OneOwner`. `OneOwner` is inductive
  with the types: each of `CoreWait`, `CorePost`, `PMGetImage`, `PMSignal` hands
  the section on and has given it up itself; all other steps leave the event,
  the WM_IMAGEs and the two program counters alone. The two lemmas on `ImageAt`
  say where the WM_IMAGEs of a queue are after a post and a take.
* `MappingCorrect` (`Pipeline_proofs`): `Spec => []MappingUndisturbed`. Only
  `CoreCopy` writes the section, and by `OneOwner` nobody else holds it then; by
  `SizeReadByCore` the count is the whole buffer for an image of a size the path
  carries (`OverlayExact`).
* `LossForEver` (`Pipeline_proofs`): `Spec => LossIsFinal`, step by step: the two
  actions that could end a loss are disabled by it.

* `TypeCorrect` (`Lifecycle_proofs`) goes by three parts: `Flags`, what is TRUE or
  FALSE; `Places`, which adds to the types that `_tmain` is made once and makes
  `ProcessMessage`; and `Queued`, the messages of Core's queue and its length.
* `ServesCorrect`, `ConsoleAfterListening` (`Lifecycle_proofs`) rest on one inductive
  invariant, `IInv`. The properties alone are not inductive: they say nothing of what is
  behind them. `Started` does: CoreStartEvent implies that Core has its queue, main passes
  it before the recognition process is made, and listens behind that; `Listens` ties
  `is_start` to `init`.
* `RegistrationCorrect` (`Lifecycle_proofs`) adds `Filled`: as long as the recognition process
  may still post its id or its failure, Core's queue holds at most one message that
  is not from a client, so a post to a server that is up fails only if clients' messages make up
  the rest (`FailedPost`). No result is among them, because `ProcessMessage` has taken no
  image before it has opened its sections.

* `AccountingCorrect` (`Arrival_proofs`) rests on `Numbered`: the WM_IMAGEs in Core's
  queue name consecutive buffers, from the one after all that were taken out to the
  last one posted; what Core, the second queue and `ProcessMessage` hold are
  the ones before, in that order, and `work_queue` has the rest. Each of these
  counts 0 or 1 by `OneOwner`, so "taken" is a sum that a step moves between its terms.
  `ConsecutiveAppend` and `ConsecutiveTail` are the numbering under a post and a take.
* `ArrivalCorrect` adds what `ProcessMessage` has read (`VuExact`): its copy is the announced
  image, because `MappingUndisturbed` holds at the read.
* `PathImplemented`: `Spec => PathSpec`, the refinement of `ImageQueue`. `PostImage` is a `Post`,
  `PMQueue` a `Deliver` (it pushes the image after the last one by `Numbered`), a
  process that ends and a post that fails are `Break`s, all others stutter. Each
  action has a step, and the lemmas say what a step that touches neither log maps to.
* `ResultsCorrect`: `Rising` puts the results sent and then those queued in the order of
  the images, none beyond the last image the recognition thread is done with; `Fresh`
  says that the section's rectangles are at least as new as every result queued.
* `TypeCorrect` (`ClientSession_proofs`) holds under every cut TCP can make. The types
  need `Timed`: a second ALIVE cannot be handled, as no read is posted after the
  first, so the timer is started once and at most two disconnects are reported.
* `FileCorrect`, `WritesCorrect` (`ClientSession_proofs`): `FileExact`, `WritesInside`. The hard part
  is that nothing on the wire says which file a thing belongs to, and a frame may hold
  the bytes of a command. So the invariant cannot decode what is under way; it says
  that the things sent and not read *can be* numbered (`Numberable`: there are functions
  `file` and `item`), starting from the thing read last, and that the handler stands
  where this numbering says: at a command with as many files posted as
  came before (`AtCommand`), or in the frames with the prefix of the file stored that
  they make (`AtFrame`). A step of the client extends a numbering at its end, `Receive`
  drops its first element, a handler moves the place. The arithmetic is in lemmas:
  `FrameCount` (frame i begins inside the file iff i is below the number of frames),
  `FrameBytes`, `FileBytes`, `NumberReadBack`, and `SizeReadByCore` for the sizes.
* `TransferImplemented` (`ClientSession_proofs`): `Spec => TransferSpec`. `StartFile` is a
  `Post`; a frame that completes the file is a `Deliver`, and by `FileExact` after the
  step what it delivers is the next file; `SayAlive` and a process that ends are
  `Break`s; all others stutter.
* `TypeCorrect`, `TextCorrect`, `RestCorrect` (`AddFace_proofs`). The buffers a client may still
  make are counted against what it asked for, and one more for a text taken for a
  length, after which it asks for nothing again (`Made`). `Alone` says, as long as no two
  clients were between `new` and the post at once, that `buf` is the buffer of
  the one that is there, and what it holds at each step of the handler.
* `AcceptCorrect`, `MappedCorrect` (`Clients_proofs`): `OneAccept` is inductive with the types;
  `Mapped` says of all that leads to a connection (the accept, the read, the timer,
  IS_ALIVE) that its client was inserted before, and that results never pass for
  IS_ALIVE in the queue of Core. There is one step per action; `CloseKeeps` and
  `WriteReplaced` are what the steps on writes have in common.
* `ReportsCorrect` (`Clients_proofs`): `Served` says that what is served is older than the
  counter, unless its `accept_handler` has not made the next `Client`.
* `DeletedCorrect` (`Clients_proofs`) rests on `Once`: a result is in the queue, then in one
  write, then deleted; results in the queue are in order and untouched.
* `WireCorrect` (`Clients_proofs`): `WireOrdered`. `Orderly` adds the pieces handed to the system
  and not sent: they begin results in order behind those on the wire, every write that
  sends has its piece there, and a write of k pieces has k of them on the wire
  (`Progress`). `Younger` puts what Core has not handled behind all of it.
  `Fresh` keeps a write from failing unless its socket did: nobody closes a
  socket whose accept is not done.
* `StreamImplemented` (`Clients_proofs`): `Spec => StreamSpec`. `CoreResult` is a `Give` (`Younger`:
  no later result was given), `SystemSends` a `SendPiece` or `SendOther` (`Orderly`: the head of what
  was handed over is the next piece), `SendHandler` a `Delete`, what closes a socket a
  `Break`. It needs one more invariant, `Flowing`: what is handed to the system and not
  sent is on an open socket, because `Close` fails the writes under way.
* `TypeCorrect` (`Clients_proofs`) needs `Counted`, since each handler that keeps a thread was
  counted when it took it, and no more images are handed on than files were received.

Only model-checked is what needs fairness: `PathLive`, `Served`, `FilesArrive`, `FacesPosted`,
`FilesPosted`, `DialsAccepted`, `MapFailureEndsServer`, `Starts`. Liveness and
ENABLED are out of the prover's reach.

## 5. Not modelled, and why

* The Haar detector, `imdecode` and the windows: only their outcomes count.
* MySQL: opened and closed, never queried. The LBPH model: created, never used.
  `PersonData`: used by nothing. `write_share_file`, `read_result`: commented out.
* The values of the rectangles of RECTS, which are not those sent (see `AddFace`), and
  WM_ADD_FACE in `Server::Core`, which has no case for it.
* `remote_endpoint()` in `recv_handler`, which throws when a client has reset the
  connection before its command is handled; `Clients` has the one of `accept_handler`.
* Memory that leaks (`recv_buf` of an earlier transfer, `CvRect`s, arrays of results
  whose client was not found): nothing reads it.
* `reuse_client_can` and `stop_listen`: declared, never used or defined.
* The second side of the merge behind its start. `Lifecycle` has its two starts, and each
  ends the server before a client can connect, so what differs behind them is never
  reached: `MAX_ALIVE_SECOND` 5, no `wait_check_alive`, a first frame read with
  `async_read_some`, an accept handler that goes on after an error, and a recognition
  process whose threads pass ids and look the image up in a `cli_map` that nothing fills.

## 6. Plan

1. Done: `Wire`, `WireSteps`, `ImageQueue`, `Pipeline`; types, exclusion, integrity
   and finality proved.
2. Done: `ClientSession`: commands, frames, segmentation, the alive timer, with `Package`.
3. Done: `AddFace`: rectangles and person data over a static buffer, two clients.
4. Done: `Lifecycle`: start and stop of both processes, both sides of the merge;
   registration, what is there before a client is accepted, and the console proved.
5. Done: `Clients`: the accept loop, the io threads, results of all connections;
   `OneAccept` and `ConnectedMapped` proved.
6. Done: proofs of all safety properties of `Pipeline`, `ClientSession`, `AddFace`, `Clients`.
7. Done: the theorems of `WireSteps`, on the bits themselves; `ResultStream`, and
   the promises of one connection and of the results proved to be kept by
   `ClientSession` and `Clients`.
