------------------------------ MODULE Pipeline ------------------------------
(***************************************************************************)
(* The path of an image: from a client's finished transfer through the     *)
(* message queue of Server::Core, the shared section "file-mapping" and    *)
(* the queue of ProcessMessage into work_queue of the recognition process; *)
(* and the path of its result: from the recognition thread Core through    *)
(* the section "result-mapping" and the queue of Server::Core back to a    *)
(* client.  Two processes, five threads: the server's io threads and       *)
(* Server::Core; the recognition process's _tmain, ProcessMessage and Core.*)
(*                                                                         *)
(* An image is the record of what the code can tell apart: its size in     *)
(* bytes, whether its bytes decode, how many faces the detector finds.  A  *)
(* buffer (recv_buf) is named by its position in recv_bufs, the order in   *)
(* which buffers were posted to Server::Core.                              *)
(***************************************************************************)
EXTENDS Wire, FiniteSets, Functions

CONSTANTS MaxClients,      \* bound: ids are 1..MaxClients
          Image,           \* records [size, decodes, faces]
          MaxImages,       \* bound: buffers the clients post
          MaxDisconnects,  \* bound: expired alive timers
          QueueLimit,      \* messages a thread's queue holds (10000 in Windows)
          IPC_BUFF_SIZE    \* bytes of a shared section

ASSUME BoundsAssumption ==
    /\ MaxClients \in Nat \ {0} /\ MaxImages \in Nat /\ MaxDisconnects \in Nat
    /\ QueueLimit \in Nat \ {0} /\ IPC_BUFF_SIZE \in Nat /\ IPC_BUFF_SIZE >= 4
ASSUME ImageAssumption ==
    Image \subseteq [size : FileSize, decodes : BOOLEAN, faces : Nat]

VARIABLES
  (* the server process *)
  client_id,              \* clients created so far; client_map holds 1..client_id
  recv_bufs,              \* every buffer posted: [cli, img]
  disconnects,            \* alive timers expired so far
  serverUp,               \* FALSE after a crash or abort()
  coreQ,                  \* message queue of Server::Core
  corePc, coreMsg,        \* where Core is, and the message it handles
  recognition_thread_id,  \* TRUE once Core knows the id of ProcessMessage
  sent,                   \* results handed to async_write: [to, of, slot, n]
  (* shared by both processes *)
  file_mapping_op_finish, \* the auto-reset event: TRUE when signalled
  file_mapping,           \* [hdr: its first four bytes, body: whose bytes follow]
  rects_mapping,          \* the buffer whose rectangles it holds, 0: none yet
  (* the recognition process *)
  frUp,                   \* FALSE after a crash
  frMain,                 \* where _tmain is: "start" or "running"
  pmQ, pmPc, pmMsg,       \* queue, place and message of ProcessMessage
  vu,                     \* its copy of the section: [of, len]
  work_queue,             \* every WorkInfo pushed: [cli, of, len, mat]
  popped,                 \* how many of them Core has popped
  cli_map,                \* ids that have an entry in cli_map
  recPc, count,           \* where the recognition thread Core is, its count
  stray                   \* its never assigned cli_id and tmp.cli_id

serverVars == <<client_id, recv_bufs, disconnects, serverUp, coreQ, corePc, coreMsg,
                recognition_thread_id, sent>>
sharedVars == <<file_mapping_op_finish, file_mapping, rects_mapping>>
recVars == <<popped, cli_map, recPc, count>>
pmVars == <<pmQ, pmPc, pmMsg, vu, work_queue>>
vars == <<serverVars, sharedVars, frUp, frMain, pmVars, recVars, stray>>

Cli == 1..MaxClients
\* What an int never assigned can hold, as far as a lookup by id can tell.
StrayId == 0..MaxClients

\* A posted message: its type, wParam and lParam.  The lParam of WM_IMAGE is a
\* buffer and that of WM_RESULT_DECTIVE the rectangle count; "of" is not sent,
\* it names the buffer the message is about (0: none).
Msg(type, wParam, lParam, of) == [type |-> type, wParam |-> wParam, lParam |-> lParam, of |-> of]
Idle == Msg("NONE", 0, 0, 0)

\* client_map: create_client inserts every client, nothing erases one.
client_map == 1..client_id

\* PostThreadMessage succeeds iff the thread lives and its queue has room, and
\* Core must have been told the id of ProcessMessage.
ServerTakesPost == serverUp /\ Len(coreQ) < QueueLimit
PMTakesPost == recognition_thread_id /\ frUp /\ pmPc # "ended" /\ Len(pmQ) < QueueLimit

\* A vector nothing was read into, a count nothing was assigned to.
Nothing == [of |-> 0, len |-> 0]
Unassigned == -1

ImageOf(b) == recv_bufs[b].img
Header(b) == SerializeInt(ImageOf(b).size)

Init ==
  /\ client_id = 1 /\ recv_bufs = <<>> /\ disconnects = 0 /\ sent = <<>>
  /\ serverUp = TRUE /\ coreQ = <<>> /\ corePc = "loop" /\ coreMsg = Idle
  /\ recognition_thread_id = FALSE
  /\ file_mapping_op_finish = TRUE /\ rects_mapping = 0
  /\ file_mapping = [hdr |-> SerializeInt(0), body |-> 0]
  /\ frUp = TRUE /\ frMain = "start"
  /\ pmQ = <<>> /\ pmPc = "start" /\ pmMsg = Idle
  /\ vu = Nothing /\ work_queue = <<>>
  /\ popped = 0 /\ cli_map = {} /\ recPc = "poll" /\ count = Unassigned
  /\ stray \in [core : StrayId, tmp : StrayId]

------------------------------------------------------------------------------
(* The io threads of the server. *)

\* accept_handler and start_next_accept: the next client is made and mapped.
Accept ==
  /\ serverUp /\ client_id < MaxClients
  /\ client_id' = client_id + 1
  /\ UNCHANGED <<recv_bufs, disconnects, serverUp, coreQ, corePc, coreMsg,
                 recognition_thread_id, sent, sharedVars, frUp, frMain, pmVars, recVars, stray>>

\* The end of recv_file_handler: recv_buf holds the size and the bytes of the
\* file.  "count" never grows in its retry loop, so it posts until it succeeds.
PostImage(c, img) ==
  /\ ServerTakesPost /\ Len(recv_bufs) < MaxImages
  /\ recv_bufs' = Append(recv_bufs, [cli |-> c, img |-> img])
  /\ coreQ' = Append(coreQ, Msg("WM_IMAGE", c, Len(recv_bufs'), Len(recv_bufs')))
  /\ UNCHANGED <<client_id, disconnects, serverUp, corePc, coreMsg,
                 recognition_thread_id, sent, sharedVars, frUp, frMain, pmVars, recVars, stray>>

\* wait_check_alive and alive_write_handler: one try, and the id posted is the
\* counter client_id, not the client's own.
PostDisconnect ==
  /\ serverUp /\ disconnects < MaxDisconnects
  /\ disconnects' = disconnects + 1
  /\ coreQ' = IF ServerTakesPost THEN Append(coreQ, Msg("WM_CLIENT_DISCONNECT", client_id, 0, 0))
                                 ELSE coreQ
  /\ UNCHANGED <<client_id, recv_bufs, serverUp, corePc, coreMsg,
                 recognition_thread_id, sent, sharedVars, frUp, frMain, pmVars, recVars, stray>>

------------------------------------------------------------------------------
(* Server::Core *)

CoreHandles(type) == serverUp /\ corePc = "loop" /\ coreQ # <<>> /\ Head(coreQ).type = type

\* Variant: the message is handled without waiting for the event.
CoreGetImageNoWait ==
  /\ CoreHandles("WM_IMAGE")
  /\ coreQ' = Tail(coreQ) /\ coreMsg' = Head(coreQ) /\ corePc' = "copy"
  /\ UNCHANGED <<client_id, recv_bufs, disconnects, serverUp, recognition_thread_id, sent,
                 sharedVars, frUp, frMain, pmVars, recVars, stray>>

CoreGetImage ==
  /\ CoreHandles("WM_IMAGE")
  /\ coreQ' = Tail(coreQ) /\ coreMsg' = Head(coreQ) /\ corePc' = "wait"
  /\ UNCHANGED <<client_id, recv_bufs, disconnects, serverUp, recognition_thread_id, sent,
                 sharedVars, frUp, frMain, pmVars, recVars, stray>>

\* Variant: a manual-reset event nobody resets (the call is commented out).
CoreWaitNoReset ==
  /\ serverUp /\ corePc = "wait" /\ file_mapping_op_finish
  /\ corePc' = "copy"
  /\ UNCHANGED <<client_id, recv_bufs, disconnects, serverUp, coreQ, coreMsg,
                 recognition_thread_id, sent, sharedVars, frUp, frMain, pmVars, recVars, stray>>

\* Variant: a wait with a timeout whose result is not looked at.
CoreWaitTimeout ==
  /\ serverUp /\ corePc = "wait"
  /\ file_mapping_op_finish' = FALSE /\ corePc' = "copy"
  /\ UNCHANGED <<client_id, recv_bufs, disconnects, serverUp, coreQ, coreMsg,
                 recognition_thread_id, sent, file_mapping, rects_mapping,
                 frUp, frMain, pmVars, recVars, stray>>

\* WaitForSingleObject(file_mapping_op_finish, INFINITE) resets the event.
CoreWait ==
  /\ serverUp /\ corePc = "wait" /\ file_mapping_op_finish
  /\ file_mapping_op_finish' = FALSE /\ corePc' = "copy"
  /\ UNCHANGED <<client_id, recv_bufs, disconnects, serverUp, coreQ, coreMsg,
                 recognition_thread_id, sent, file_mapping, rects_mapping,
                 frUp, frMain, pmVars, recVars, stray>>

\* memcpy(file_mapping_buf, recv_buf, n) of buffer b.
Overlay(b, n) == [hdr |-> [j \in 1..4 |-> IF j <= n THEN Header(b)[j] ELSE file_mapping.hdr[j]],
                  body |-> IF n >= 4 THEN b ELSE file_mapping.body]

\* The byte count total_bytes + 4 is an int turned size_t: a negative one, or
\* one beyond the section, ends the process.
CoreCopy ==
  /\ serverUp /\ corePc = "copy"
  /\ LET n == DeserializeInt(Header(coreMsg.lParam)) + 4
     IN  IF n \in 0..IPC_BUFF_SIZE
         THEN /\ file_mapping' = Overlay(coreMsg.lParam, n)
              /\ corePc' = "post" /\ UNCHANGED serverUp
         ELSE /\ serverUp' = FALSE /\ UNCHANGED <<file_mapping, corePc>>
  /\ UNCHANGED <<client_id, recv_bufs, disconnects, coreQ, coreMsg, recognition_thread_id, sent,
                 file_mapping_op_finish, rects_mapping, frUp, frMain, pmVars, recVars, stray>>

\* Variant: Core signals the event itself when the post has failed.
CorePostSignals ==
  /\ serverUp /\ corePc = "post"
  /\ pmQ' = IF PMTakesPost
            THEN Append(pmQ, Msg("WM_IMAGE", coreMsg.wParam, 0, coreMsg.of))
            ELSE pmQ
  /\ file_mapping_op_finish' = ~PMTakesPost
  /\ corePc' = "loop" /\ coreMsg' = Idle
  /\ UNCHANGED <<client_id, recv_bufs, disconnects, serverUp, coreQ, recognition_thread_id, sent,
                 file_mapping, rects_mapping, frUp, frMain, pmPc, pmMsg, vu, work_queue,
                 recVars, stray>>

\* Up to ten tries back to back, nothing waited for in between: the message is
\* posted, or Core goes on as if it had been.
CorePost ==
  /\ serverUp /\ corePc = "post"
  /\ pmQ' = IF PMTakesPost
            THEN Append(pmQ, Msg("WM_IMAGE", coreMsg.wParam, 0, coreMsg.of))
            ELSE pmQ
  /\ corePc' = "loop" /\ coreMsg' = Idle
  /\ UNCHANGED <<client_id, recv_bufs, disconnects, serverUp, coreQ, recognition_thread_id, sent,
                 sharedVars, frUp, frMain, pmPc, pmMsg, vu, work_queue, recVars, stray>>

CoreGetRecognitionId ==
  /\ CoreHandles("WM_GET_RECOGNITION_ID")
  /\ coreQ' = Tail(coreQ) /\ recognition_thread_id' = TRUE
  /\ UNCHANGED <<client_id, recv_bufs, disconnects, serverUp, corePc, coreMsg, sent,
                 sharedVars, frUp, frMain, pmVars, recVars, stray>>

\* WM_RESULT_DECTIVE: copies what the section holds now and sends it to the
\* client named by wParam, if there is one.
CoreResult ==
  /\ CoreHandles("WM_RESULT_DECTIVE")
  /\ coreQ' = Tail(coreQ)
  /\ sent' = IF Head(coreQ).wParam \in client_map
             THEN Append(sent, [to |-> Head(coreQ).wParam, of |-> Head(coreQ).of,
                                slot |-> rects_mapping, n |-> Head(coreQ).lParam])
             ELSE sent
  /\ UNCHANGED <<client_id, recv_bufs, disconnects, serverUp, corePc, coreMsg,
                 recognition_thread_id, sharedVars, frUp, frMain, pmVars, recVars, stray>>

\* WM_CLIENT_DISCONNECT: client_map is only looked at; the message goes on, in
\* one try.
CoreDisconnect ==
  /\ CoreHandles("WM_CLIENT_DISCONNECT")
  /\ coreQ' = Tail(coreQ)
  /\ pmQ' = IF PMTakesPost
            THEN Append(pmQ, Msg("WM_CLIENT_DISCONNECT", Head(coreQ).wParam, 0, 0))
            ELSE pmQ
  /\ UNCHANGED <<client_id, recv_bufs, disconnects, serverUp, corePc, coreMsg,
                 recognition_thread_id, sent, sharedVars, frUp, frMain, pmPc, pmMsg, vu,
                 work_queue, recVars, stray>>

\* WM_RECOGNITION_ERROR: abort().
CoreError ==
  /\ CoreHandles("WM_RECOGNITION_ERROR")
  /\ coreQ' = Tail(coreQ) /\ serverUp' = FALSE
  /\ UNCHANGED <<client_id, recv_bufs, disconnects, corePc, coreMsg, recognition_thread_id, sent,
                 sharedVars, frUp, frMain, pmVars, recVars, stray>>

------------------------------------------------------------------------------
(* The recognition process: _tmain and ProcessMessage. *)

\* _tmain tells Core the id of ProcessMessage; up to eleven tries back to back.
Register ==
  /\ frUp /\ frMain = "start" /\ frMain' = "running"
  /\ coreQ' = IF ServerTakesPost THEN Append(coreQ, Msg("WM_GET_RECOGNITION_ID", 0, 0, 0))
                                 ELSE coreQ
  /\ UNCHANGED <<client_id, recv_bufs, disconnects, serverUp, corePc, coreMsg,
                 recognition_thread_id, sent, sharedVars, frUp, pmVars, recVars, stray>>

\* The two sections are opened and mapped before the first message is taken.
PMMapped ==
  /\ frUp /\ pmPc = "start" /\ serverUp
  /\ pmPc' = "loop"
  /\ UNCHANGED <<serverVars, sharedVars, frUp, frMain, pmQ, pmMsg, vu, work_queue, recVars, stray>>

\* A section could not be mapped: the server is told, the thread ends.
PMNotMapped ==
  /\ frUp /\ pmPc = "start"
  /\ pmPc' = "ended"
  /\ coreQ' = IF ServerTakesPost THEN Append(coreQ, Msg("WM_RECOGNITION_ERROR", 0, 0, 0))
                                 ELSE coreQ
  /\ UNCHANGED <<client_id, recv_bufs, disconnects, serverUp, corePc, coreMsg,
                 recognition_thread_id, sent, sharedVars, frUp, frMain, pmQ, pmMsg, vu,
                 work_queue, recVars, stray>>

PMHandles(type) == frUp /\ pmPc = "loop" /\ pmQ # <<>> /\ Head(pmQ).type = type

\* Variant: the event is signalled before the section is read.
PMGetImageSignals ==
  /\ PMHandles("WM_IMAGE")
  /\ pmQ' = Tail(pmQ) /\ pmMsg' = Head(pmQ) /\ pmPc' = "read"
  /\ file_mapping_op_finish' = TRUE
  /\ UNCHANGED <<serverVars, file_mapping, rects_mapping, frUp, frMain, vu, work_queue,
                 recVars, stray>>

PMGetImage ==
  /\ PMHandles("WM_IMAGE")
  /\ pmQ' = Tail(pmQ) /\ pmMsg' = Head(pmQ) /\ pmPc' = "read"
  /\ UNCHANGED <<serverVars, sharedVars, frUp, frMain, vu, work_queue, recVars, stray>>

\* Variant: the four bytes of the size are read as if they were image bytes too.
PMReadHeaderToo ==
  /\ frUp /\ pmPc = "read"
  /\ LET len == Deserialze(file_mapping.hdr)
     IN  IF len + 4 <= IPC_BUFF_SIZE
         THEN /\ vu' = [of |-> file_mapping.body, len |-> len + 4]
              /\ pmPc' = "signal" /\ UNCHANGED frUp
         ELSE frUp' = FALSE /\ UNCHANGED <<vu, pmPc>>
  /\ UNCHANGED <<serverVars, sharedVars, frMain, pmQ, pmMsg, work_queue, recVars, stray>>

\* The size, then that many bytes; reading beyond the section ends the process.
PMRead ==
  /\ frUp /\ pmPc = "read"
  /\ LET len == Deserialze(file_mapping.hdr)
     IN  IF len + 4 <= IPC_BUFF_SIZE
         THEN /\ vu' = [of |-> file_mapping.body, len |-> len]
              /\ pmPc' = "signal" /\ UNCHANGED frUp
         ELSE frUp' = FALSE /\ UNCHANGED <<vu, pmPc>>
  /\ UNCHANGED <<serverVars, sharedVars, frMain, pmQ, pmMsg, work_queue, recVars, stray>>

\* SetEvent(file_mapping_op_finish)
PMSignal ==
  /\ frUp /\ pmPc = "signal"
  /\ file_mapping_op_finish' = TRUE /\ pmPc' = "queue"
  /\ UNCHANGED <<serverVars, file_mapping, rects_mapping, frUp, frMain, pmQ, pmMsg, vu,
                 work_queue, recVars, stray>>

\* imdecode gives a Mat with data or an empty one.  Whole images decode or not,
\* cut or padded ones of those that do may go either way.
Decoded(v, mat) ==
  IF v.of = 0 THEN mat = FALSE
  ELSE /\ mat => ImageOf(v.of).decodes
       /\ v.len = ImageOf(v.of).size /\ ImageOf(v.of).decodes => mat

\* Variant: the WorkInfo is queued under the client counter, not the wParam.
PMQueueCounter ==
  /\ frUp /\ pmPc = "queue" /\ vu.len > 0
  /\ \E mat \in BOOLEAN :
       /\ Decoded(vu, mat)
       /\ work_queue' = Append(work_queue, [cli |-> client_id, of |-> vu.of,
                                            len |-> vu.len, mat |-> mat])
  /\ pmPc' = "loop" /\ pmMsg' = Idle /\ vu' = Nothing
  /\ UNCHANGED <<serverVars, sharedVars, frUp, frMain, pmQ, recVars, stray>>

\* imdecode of no bytes throws, and nobody catches; else the WorkInfo is queued.
PMQueue ==
  /\ frUp /\ pmPc = "queue"
  /\ IF vu.len = 0
     THEN frUp' = FALSE /\ UNCHANGED <<work_queue, pmPc, pmMsg, vu>>
     ELSE /\ \E mat \in BOOLEAN :
               /\ Decoded(vu, mat)
               /\ work_queue' = Append(work_queue, [cli |-> pmMsg.wParam, of |-> vu.of,
                                                    len |-> vu.len, mat |-> mat])
          /\ pmPc' = "loop" /\ pmMsg' = Idle /\ vu' = Nothing /\ UNCHANGED frUp
  /\ UNCHANGED <<serverVars, sharedVars, frMain, pmQ, recVars, stray>>

\* cli_map.find(id) without the mutex.  While Core inserts, it may miss an
\* entry that is there, or fault.
PMDisconnect ==
  /\ PMHandles("WM_CLIENT_DISCONNECT")
  /\ pmQ' = Tail(pmQ)
  /\ \/ \E found \in BOOLEAN :
          /\ found => Head(pmQ).wParam \in cli_map
          /\ Head(pmQ).wParam \in cli_map /\ recPc # "update" => found
          /\ pmPc' = IF found THEN "erase" ELSE "loop"
          /\ pmMsg' = IF found THEN Head(pmQ) ELSE Idle
          /\ UNCHANGED frUp
     \/ recPc = "update" /\ frUp' = FALSE /\ UNCHANGED <<pmPc, pmMsg>>
  /\ UNCHANGED <<serverVars, sharedVars, frMain, vu, work_queue, recVars, stray>>

\* Variant: the mutex is released when the next image has been popped.
CliMapLockedOn == recPc \in {"update", "copy", "post"} \/ (recPc = "poll" /\ popped > 0)

\* cli_map_mutex of the recognition process is held by its Core.
CliMapLocked == recPc \in {"update", "copy", "post"}

PMErase ==
  /\ frUp /\ pmPc = "erase" /\ ~CliMapLocked
  /\ cli_map' = cli_map \ {pmMsg.wParam}
  /\ pmPc' = "loop" /\ pmMsg' = Idle
  /\ UNCHANGED <<serverVars, sharedVars, frUp, frMain, pmQ, vu, work_queue, popped, recPc, count, stray>>

------------------------------------------------------------------------------
(* The recognition process: Core, here Rec... *)

\* tmp = work_queue.front(); pop(): operator= leaves tmp.cli_id as it was.
RecPop ==
  /\ frUp /\ recPc = "poll" /\ popped < Len(work_queue)
  /\ popped' = popped + 1 /\ recPc' = "show"
  /\ UNCHANGED <<serverVars, sharedVars, frUp, frMain, pmVars, cli_map, count, stray>>

Tmp == work_queue[popped]

\* imshow of an empty Mat throws.
RecShow ==
  /\ frUp /\ recPc = "show"
  /\ IF Tmp.mat THEN recPc' = "key" /\ UNCHANGED frUp
                ELSE frUp' = FALSE /\ UNCHANGED recPc
  /\ UNCHANGED <<serverVars, sharedVars, frMain, pmVars, popped, cli_map, count, stray>>

\* waitKey() ends when the operator presses a key in the window.
OperatorKey ==
  /\ frUp /\ recPc = "key" /\ recPc' = "detect"
  /\ UNCHANGED <<serverVars, sharedVars, frUp, frMain, pmVars, popped, cli_map, count, stray>>

\* Variant: an image without a face is looked at again.
RecDetectAgain ==
  /\ frUp /\ recPc = "detect"
  /\ \E n \in {ImageOf(Tmp.of).faces, 0} :
       /\ recPc' = IF n > 0 THEN "lock" ELSE "detect"
       /\ count' = IF n > 0 THEN n ELSE Unassigned
  /\ UNCHANGED <<serverVars, sharedVars, frUp, frMain, pmVars, popped, cli_map, stray>>

\* displaydetection: with no face, if not all bytes came or if the classifier is
\* not loaded, it returns NULL and count stays unassigned.
RecDetect ==
  /\ frUp /\ recPc = "detect" /\ recPc' = "lock"
  /\ \E n \in {ImageOf(Tmp.of).faces, 0} : count' = IF n > 0 THEN n ELSE Unassigned
  /\ UNCHANGED <<serverVars, sharedVars, frUp, frMain, pmVars, popped, cli_map, stray>>

RecLock ==
  /\ frUp /\ recPc = "lock" /\ recPc' = "update"
  /\ UNCHANGED <<serverVars, sharedVars, frUp, frMain, pmVars, popped, cli_map, count, stray>>

\* The lookup uses cli_id, the insertion tmp.cli_id; insert keeps an old entry.
RecUpdate ==
  /\ frUp /\ recPc = "update" /\ recPc' = "copy"
  /\ cli_map' = IF stray.core \in cli_map THEN cli_map ELSE cli_map \cup {stray.tmp}
  /\ UNCHANGED <<serverVars, sharedVars, frUp, frMain, pmVars, popped, count, stray>>

\* Variant: NULL is not copied, but the unassigned count is posted.
RecCopyNoCount ==
  /\ frUp /\ recPc = "copy" /\ recPc' = "post"
  /\ rects_mapping' = IF count = Unassigned THEN rects_mapping ELSE popped
  /\ UNCHANGED <<serverVars, file_mapping_op_finish, file_mapping, frUp, frMain, pmVars, popped,
                 cli_map, count, stray>>

\* memcpy(rects_mapping, rects, sizeof(CvRect)*count).  From NULL it moves
\* nothing if the unassigned count happens to be 0 and ends the process if not.
RecCopy ==
  /\ frUp /\ recPc = "copy"
  /\ \/ /\ count # Unassigned
        /\ rects_mapping' = popped /\ recPc' = "post"
        /\ UNCHANGED <<frUp, count>>
     \/ /\ count = Unassigned
        /\ count' = 0 /\ recPc' = "post"
        /\ UNCHANGED <<frUp, rects_mapping>>
     \/ /\ count = Unassigned
        /\ frUp' = FALSE
        /\ UNCHANGED <<recPc, count, rects_mapping>>
  /\ UNCHANGED <<serverVars, file_mapping_op_finish, file_mapping, frMain, pmVars, popped, cli_map, stray>>

\* Variant: the retry loop does not stop at the first success.
RecPostTwice ==
  /\ frUp /\ recPc = "post" /\ recPc' = "poll" /\ count' = Unassigned
  /\ LET result == Msg("WM_RESULT_DECTIVE", stray.core, count, popped)
     IN  coreQ' = IF ServerTakesPost THEN coreQ \o <<result, result>> ELSE coreQ
  /\ UNCHANGED <<client_id, recv_bufs, disconnects, serverUp, corePc, coreMsg,
                 recognition_thread_id, sent, sharedVars, frUp, frMain, pmVars, popped,
                 cli_map, stray>>

\* One try to post the result, under cli_id; then the mutex is released.
RecPost ==
  /\ frUp /\ recPc = "post" /\ recPc' = "poll" /\ count' = Unassigned
  /\ coreQ' = IF ServerTakesPost
              THEN Append(coreQ, Msg("WM_RESULT_DECTIVE", stray.core, count, popped))
              ELSE coreQ
  /\ UNCHANGED <<client_id, recv_bufs, disconnects, serverUp, corePc, coreMsg,
                 recognition_thread_id, sent, sharedVars, frUp, frMain, pmVars, popped,
                 cli_map, stray>>

------------------------------------------------------------------------------
IOThreads == Accept \/ PostDisconnect \/ \E c \in 1..client_id, img \in Image : PostImage(c, img)
ServerCore == CoreGetImage \/ CoreWait \/ CoreCopy \/ CorePost \/ CoreGetRecognitionId
              \/ CoreResult \/ CoreDisconnect \/ CoreError
ProcessMessage == PMMapped \/ PMNotMapped \/ PMGetImage \/ PMRead \/ PMSignal \/ PMQueue
                  \/ PMDisconnect \/ PMErase
RecognitionCore == RecPop \/ RecShow \/ RecDetect \/ RecLock \/ RecUpdate \/ RecCopy \/ RecPost

Next == IOThreads \/ ServerCore \/ Register \/ ProcessMessage \/ RecognitionCore \/ OperatorKey

\* Every thread is scheduled.  Nothing is asked of clients, timers or operator.
Spec == /\ Init /\ [][Next]_vars
        /\ WF_vars(ServerCore) /\ WF_vars(Register)
        /\ WF_vars(ProcessMessage) /\ WF_vars(RecognitionCore)

------------------------------------------------------------------------------
(* Properties *)

MessageType == {"NONE", "WM_IMAGE", "WM_GET_RECOGNITION_ID", "WM_RECOGNITION_ERROR",
                "WM_RESULT_DECTIVE", "WM_CLIENT_DISCONNECT"}
Message == [type : MessageType, wParam : StrayId, lParam : Nat, of : Nat]

\* The messages the two switches know, and what they name.
NamesBuffer(m) == m.of \in 1..Len(recv_bufs) /\ m.wParam = recv_bufs[m.of].cli
CoreKnows(m) ==
  /\ m.type \in MessageType \ {"NONE"}
  /\ m.type = "WM_IMAGE" => NamesBuffer(m) /\ m.lParam = m.of
  /\ m.type = "WM_RESULT_DECTIVE" => m.of \in 1..popped
PMKnows(m) ==
  /\ m.type \in {"WM_IMAGE", "WM_CLIENT_DISCONNECT"}
  /\ m.type = "WM_IMAGE" => NamesBuffer(m)

ServerTypes ==
  /\ client_id \in Cli
  /\ recv_bufs \in Seq([cli : Cli, img : Image])
  /\ disconnects \in Nat
  /\ serverUp \in BOOLEAN /\ recognition_thread_id \in BOOLEAN
  /\ coreQ \in Seq(Message) /\ coreMsg \in Message
  /\ corePc \in {"loop", "wait", "copy", "post"}
  /\ sent \in Seq([to : Cli, of : Nat, slot : Nat, n : Nat])
SharedTypes ==
  /\ file_mapping_op_finish \in BOOLEAN
  /\ file_mapping \in [hdr : FourBytes, body : Nat]
  /\ rects_mapping \in Nat
PMTypes ==
  /\ frUp \in BOOLEAN /\ frMain \in {"start", "running"}
  /\ pmQ \in Seq(Message) /\ pmMsg \in Message
  /\ pmPc \in {"start", "loop", "read", "signal", "queue", "erase", "ended"}
  /\ vu \in [of : Nat, len : Nat]
  /\ work_queue \in Seq([cli : StrayId, of : Nat, len : Nat, mat : BOOLEAN])
RecTypes ==
  /\ popped \in Nat
  /\ cli_map \subseteq StrayId
  /\ recPc \in {"poll", "show", "key", "detect", "lock", "update", "copy", "post"}
  /\ count \in Nat \cup {Unassigned}
  /\ stray \in [core : StrayId, tmp : StrayId]
Types == ServerTypes /\ SharedTypes /\ PMTypes /\ RecTypes

PMHolds == pmPc \in {"read", "signal", "queue"}
CoreNames ==
  /\ \A m \in Range(coreQ) : CoreKnows(m)
  /\ corePc # "loop" => coreMsg.type = "WM_IMAGE" /\ CoreKnows(coreMsg)
PMNames ==
  /\ \A m \in Range(pmQ) : PMKnows(m)
  /\ PMHolds => pmMsg.type = "WM_IMAGE" /\ PMKnows(pmMsg)
DataNames ==
  /\ file_mapping.body <= Len(recv_bufs) /\ vu.of <= Len(recv_bufs)
  /\ \A w \in Range(work_queue) : w.of <= Len(recv_bufs) /\ (w.mat => w.of > 0)
RecNames ==
  /\ popped <= Len(work_queue) /\ rects_mapping <= popped
  /\ recPc # "poll" => popped > 0
  /\ recPc \notin {"poll", "show"} => Tmp.mat
  /\ recPc = "post" => count \in Nat
Names == CoreNames /\ PMNames /\ DataNames /\ RecNames

\* Type invariant: every variable has its type, every message one of the forms
\* its receiver's switch knows, and every buffer or WorkInfo named was posted.
TypeOK == Types /\ Names

\* An image whose size Core reads back and the section can hold.
Exact(img) == ReadBack(img.size) /\ img.size \in 1..(IPC_BUFF_SIZE - 4)

\* Who may touch file_mapping: the event if it is signalled, Core between its
\* wait and its post, a WM_IMAGE on its way, ProcessMessage until it signals.
ImageAt(q) == {i \in 1..Len(q) : q[i].type = "WM_IMAGE"}
InTransit == ImageAt(pmQ)
CoreOwns == corePc \in {"copy", "post"}
PMOwns == pmPc \in {"read", "signal"}

\* At any time at most one of them has it: the auto-reset event and the two
\* message queues together are a lock on the section, though no lock is taken
\* by the process that reads it.
OneOwner ==
  /\ \A i, j \in InTransit : i = j
  /\ file_mapping_op_finish => ~CoreOwns /\ InTransit = {} /\ ~PMOwns
  /\ CoreOwns => InTransit = {} /\ ~PMOwns
  /\ PMOwns => InTransit = {}

\* From the memcpy of an image until ProcessMessage is done with it the section
\* holds exactly that image, its size and its bytes, whatever else happens.
HoldsIfExact(b) == Exact(ImageOf(b)) => file_mapping = [hdr |-> Header(b), body |-> b]
MappingUndisturbed ==
  /\ corePc = "post" => HoldsIfExact(coreMsg.of)
  /\ \A i \in InTransit : HoldsIfExact(pmQ[i].of)
  /\ PMOwns => HoldsIfExact(pmMsg.of)

\* The k-th WorkInfo belongs to the k-th buffer posted to Server::Core: same
\* client, and its own bytes, whole, decoded if they decode.  Nothing is lost in
\* between, doubled, reordered or mixed with another client's image.
ArrivalExact ==
  \A k \in 1..Len(work_queue) :
    LET w == work_queue[k]
    IN  /\ k <= Len(recv_bufs) /\ w.cli = recv_bufs[k].cli
        /\ Exact(ImageOf(k)) => w.of = k /\ w.len = ImageOf(k).size /\ w.mat = ImageOf(k).decodes

\* Nobody will ever signal the event again: a post of WM_IMAGE failed for good.
TokenLost == ~file_mapping_op_finish /\ ~CoreOwns /\ InTransit = {} /\ ~PMOwns

\* Every buffer ever posted is in exactly one place, but the one whose post
\* failed: a failing post costs one image, never two, and never wakes up again.
ImagesIn(q) == Cardinality(ImageAt(q))
One(b) == IF b THEN 1 ELSE 0
Accounting ==
  Len(recv_bufs) = ImagesIn(coreQ) + One(corePc # "loop") + ImagesIn(pmQ)
                   + One(PMHolds) + Len(work_queue) + One(TokenLost)

\* A lost token stays lost and nothing is written into file_mapping any more.
LossIsFinal == [][TokenLost => TokenLost' /\ UNCHANGED file_mapping]_vars

\* Results reach the clients in the order of the images they are about, at most
\* one for each image, and the rectangles sent are never older than that image
\* (they can be newer: nothing keeps the recognition thread off the section).
ResultsInOrder ==
  /\ \A i, j \in 1..Len(sent) : i < j => sent[i].of < sent[j].of
  /\ \A i \in 1..Len(sent) : sent[i].n > 0 => sent[i].slot \in sent[i].of..popped

\* The path keeps the promise of ImageQueue.
Received(w) == IF w.of # 0 /\ w.len = ImageOf(w.of).size THEN ImageOf(w.of) ELSE Nothing
Healthy == serverUp /\ frUp /\ pmPc # "ended" /\ ~TokenLost
Path == INSTANCE ImageQueue WITH
          Client <- Cli, Carried <- Exact, MaxPosted <- MaxImages,
          posted <- recv_bufs, open <- Healthy,
          arrived <- [k \in 1..Len(work_queue) |-> [cli |-> work_queue[k].cli,
                                                    img |-> Received(work_queue[k])]]
PathSpec == Path!Spec

\* Every image handed in reaches work_queue unless the path breaks.
PathLive == Path!Live

\* If the operator keeps pressing keys, every image queued is served, or the
\* recognition process is gone.
Served ==
  WF_vars(OperatorKey) =>
    \A k \in 1..MaxImages :
      Len(work_queue) >= k ~> (popped > k \/ (popped = k /\ recPc = "poll") \/ ~frUp)

------------------------------------------------------------------------------
(* What the code's comments say and the code does not do. *)

\* Server.cpp:34, Server.h:65: rects_mapping_mutex guards the result section.
RectsMatchResult == \A i \in 1..Len(sent) : sent[i].n > 0 => sent[i].slot = sent[i].of

\* Client.cpp:75: the first four bytes of recv_buf keep the size of the file.
SizeKept == \A k \in 1..Len(work_queue) : work_queue[k].len = ImageOf(k).size
=============================================================================
