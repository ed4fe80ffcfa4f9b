----------------------------- MODULE Lifecycle -----------------------------
(***************************************************************************)
(* Start and stop of the two processes: main with the constructor, init,   *)
(* start and destructor of Server; the thread Server::Core; and of the     *)
(* recognition process _tmain and the thread ProcessMessage.  What travels *)
(* between them here is the id of ProcessMessage, WM_RECOGNITION_ERROR and *)
(* WM_EXIT, and what Core may be kept by meanwhile: images, which it hands *)
(* over one at a time (the rest of their way is in Pipeline), their        *)
(* results, and messages it only takes.                                    *)
(*                                                                         *)
(* Client.cpp and FaceRecognition.cpp are there in two versions: "HEAD"    *)
(* and the other side of the merge, "ceaf66a".                             *)
(***************************************************************************)
EXTENDS Naturals, Sequences

CONSTANTS Build,       \* [asserts, client, recognition]: assert() is compiled in; the versions
          QueueLimit,  \* messages a thread's queue holds
          MaxFaults,   \* bound: calls of the system that fail, and crashes
          MaxMessages  \* bound: messages the clients post to Core

Version == {"HEAD", "ceaf66a"}

ASSUME LifecycleAssumption ==
    /\ Build \subseteq [asserts : BOOLEAN, client : Version, recognition : Version]
    /\ QueueLimit \in Nat \ {0} /\ MaxFaults \in Nat /\ MaxMessages \in Nat

VARIABLES
  build,
  stray,                 \* recognition_main_thread_id, never assigned, is right by chance
  messages,              \* how many messages the clients have posted
  faults,
  (* the server process *)
  mainPc,                \* where main is; "ended" when the process has
  is_start,
  sections,              \* the two file mappings were created
  views,                 \* those of them that are mapped
  listened,              \* init has succeeded
  io,                    \* what keeps the io_service running
  corePc, coreQ,         \* the thread Server::Core and its message queue
  CoreStartEvent,
  recognition_thread_id, \* TRUE once Core knows the id of ProcessMessage
  file_mapping_op_finish,
  (* the recognition process *)
  recPc, pmPc,           \* where _tmain and ProcessMessage are
  thread_done,
  announced,             \* WM_IMAGE is in the queue of ProcessMessage
  detecting,             \* how many images the recognition thread has before it
  exitQ,                 \* WM_EXIT is in the queue of _tmain
  lostId, lostError      \* the post of the id, of WM_RECOGNITION_ERROR, failed

givenVars == <<build, stray, messages>>
madeVars == <<sections, views, listened>>
mainVars == <<mainPc, is_start, madeVars, io>>
handVars == <<recognition_thread_id, file_mapping_op_finish>>
coreVars == <<corePc, coreQ, CoreStartEvent, handVars>>
imageVars == <<announced, detecting>>
recVars == <<recPc, pmPc, thread_done, imageVars, exitQ, lostId, lostError>>
vars == <<givenVars, faults, mainVars, coreVars, recVars>>

Init ==
  /\ build \in Build /\ stray \in BOOLEAN /\ messages = 0 /\ faults = 0
  /\ mainPc = "mysql" /\ is_start = FALSE /\ listened = FALSE /\ io = "none"
  /\ sections = FALSE /\ views = {}
  /\ corePc = "none" /\ coreQ = <<>> /\ CoreStartEvent = FALSE /\ recognition_thread_id = FALSE
  /\ file_mapping_op_finish = TRUE
  /\ recPc = "none" /\ pmPc = "none" /\ thread_done = FALSE /\ exitQ = FALSE
  /\ announced = FALSE /\ detecting = 0
  /\ lostId = FALSE /\ lostError = FALSE

Up == mainPc # "ended"
Fault == faults < MaxFaults /\ faults' = faults + 1
Works == UNCHANGED faults

\* A thread's queue exists from its first PeekMessage, and ends with its process.
CoreHasQueue == corePc \notin {"none", "queue"}
CoreTakesPost == Up /\ CoreHasQueue /\ Len(coreQ) < QueueLimit
PostCore(m) == coreQ' = IF CoreTakesPost THEN Append(coreQ, m) ELSE coreQ

------------------------------------------------------------------------------
(* Server::Server.  An early return leaves an object main goes on with. *)

CtorMySql ==
  /\ mainPc = "mysql"
  /\ \/ Works /\ mainPc' = "sections"
     \/ Fault /\ mainPc' = "run"
  /\ UNCHANGED <<givenVars, is_start, madeVars, io, coreVars, recVars>>

\* A section that was not created is noticed after Core has started; one that
\* was created and not mapped is only printed, and the server goes on with NULL.
View == {"file_mapping_buf", "rects_mapping_buf"}

CtorSections ==
  /\ mainPc = "sections" /\ mainPc' = "thread"
  /\ \/ Works /\ sections' = TRUE /\ views' = View
     \/ Fault /\ UNCHANGED <<sections, views>>
     \/ Fault /\ sections' = TRUE /\ views' \in SUBSET View \ {View}
  /\ UNCHANGED <<givenVars, is_start, listened, io, coreVars, recVars>>

CtorThread ==
  /\ mainPc = "thread" /\ mainPc' = "wait" /\ corePc' = "queue"
  /\ UNCHANGED <<givenVars, faults, is_start, madeVars, io, coreQ, CoreStartEvent, handVars,
                 recVars>>

\* Variant: the constructor does not wait for Core.
CtorWaitNot ==
  /\ mainPc = "wait" /\ mainPc' = "process"
  /\ UNCHANGED <<givenVars, faults, is_start, madeVars, io, coreVars, recVars>>

\* WaitForSingleObject(CoreStartEvent, INFINITE) resets the event.
CtorWait ==
  /\ mainPc = "wait" /\ CoreStartEvent
  /\ mainPc' = "process" /\ CoreStartEvent' = FALSE
  /\ UNCHANGED <<givenVars, faults, is_start, madeVars, io, corePc, coreQ, handVars, recVars>>

\* Variant: the handles of the sections are not looked at.
CtorProcessUnchecked ==
  /\ mainPc = "process"
  /\ \/ Works /\ mainPc' = "init" /\ recPc' = "start"
     \/ Fault /\ mainPc' = "run" /\ UNCHANGED recPc
  /\ UNCHANGED <<givenVars, is_start, madeVars, io, coreVars, pmPc, thread_done,
                 imageVars, exitQ, lostId, lostError>>

CtorProcess ==
  /\ mainPc = "process"
  /\ \/ Works /\ sections /\ mainPc' = "init" /\ recPc' = "start"
     \/ Works /\ ~sections /\ mainPc' = "run" /\ UNCHANGED recPc
     \/ Fault /\ sections /\ mainPc' = "run" /\ UNCHANGED recPc
  /\ UNCHANGED <<givenVars, is_start, madeVars, io, coreVars, pmPc, thread_done,
                 imageVars, exitQ, lostId, lostError>>

\* Variant: a failure is left to the caller even if assert() is compiled in.
CtorInitNoAssert ==
  /\ mainPc = "init"
  /\ \/ /\ Works /\ build.client = "HEAD"
        /\ mainPc' = "flag" /\ listened' = TRUE /\ io' = "accepting"
     \/ /\ Works /\ build.client = "ceaf66a"
        /\ mainPc' = "ended" /\ UNCHANGED <<listened, io>>
     \/ Fault /\ mainPc' = "flag" /\ UNCHANGED <<listened, io>>
  /\ UNCHANGED <<givenVars, is_start, sections, views, coreVars, recVars>>

\* init: a failure ends the process by assert, or stops the io_service and is
\* only printed.  A Client of ceaf66a cannot be made: shared_from_this in its
\* constructor throws, and nobody catches.
CtorInit ==
  /\ mainPc = "init"
  /\ \/ /\ Works /\ build.client = "HEAD"
        /\ mainPc' = "flag" /\ listened' = TRUE /\ io' = "accepting"
     \/ /\ Works /\ build.client = "ceaf66a"
        /\ mainPc' = "ended" /\ UNCHANGED <<listened, io>>
     \/ /\ Fault /\ mainPc' = IF build.asserts THEN "ended" ELSE "flag"
        /\ UNCHANGED <<listened, io>>
  /\ UNCHANGED <<givenVars, is_start, sections, views, coreVars, recVars>>

CtorFlag ==
  /\ mainPc = "flag" /\ mainPc' = "run" /\ is_start' = TRUE
  /\ UNCHANGED <<givenVars, faults, madeVars, io, coreVars, recVars>>

------------------------------------------------------------------------------
(* Server::start, main and Server::~Server *)

\* A failed accept is not tried again; the clients there are keep the io_service.
AcceptFails ==
  /\ mainPc = "run" /\ io = "accepting" /\ Fault
  /\ io' \in {"clients", "none"}
  /\ UNCHANGED <<givenVars, mainPc, is_start, madeVars, coreVars, recVars>>

ClientsLeave ==
  /\ mainPc = "run" /\ io = "clients" /\ io' = "none"
  /\ UNCHANGED <<givenVars, faults, mainPc, is_start, madeVars, coreVars, recVars>>

\* run returns when nothing keeps the io_service.
RunEnds ==
  /\ mainPc = "run" /\ io = "none" /\ mainPc' = "check"
  /\ UNCHANGED <<givenVars, faults, is_start, madeVars, io, coreVars, recVars>>

MainCheck ==
  /\ mainPc = "check" /\ mainPc' = IF is_start THEN "console" ELSE "exit"
  /\ UNCHANGED <<givenVars, faults, is_start, madeVars, io, coreVars, recVars>>

\* while(server.is_start) { cin >> str; if(str == "exit") break; }
OperatorTypes(isExit) ==
  /\ mainPc = "console" /\ (isExit \/ ~is_start) /\ mainPc' = "exit"
  /\ UNCHANGED <<givenVars, faults, is_start, madeVars, io, coreVars, recVars>>

\* ~Server posts WM_EXIT to an id nothing was assigned to; then the process ends.
MainExit ==
  /\ mainPc = "exit" /\ mainPc' = "ended"
  /\ exitQ' = (stray /\ recPc = "loop")
  /\ UNCHANGED <<givenVars, faults, is_start, madeVars, io, coreVars, recPc, pmPc, thread_done,
                 imageVars, lostId, lostError>>

\* An exception in a handler, or an image Core cannot copy.
ServerCrashes ==
  /\ mainPc = "run" /\ Fault /\ mainPc' = "ended"
  /\ UNCHANGED <<givenVars, is_start, madeVars, io, coreVars, recVars>>

\* recv_file_handler posts an image until there is room.  What else a client posts,
\* WM_ADD_FACE and WM_CLIENT_DISCONNECT, is one try.
ClientPosts(m) ==
  /\ mainPc = "run" /\ io # "none"
  /\ messages < MaxMessages /\ messages' = messages + 1
  /\ m = "WM_IMAGE" => CoreTakesPost
  /\ PostCore(m)
  /\ UNCHANGED <<build, stray, faults, mainVars, corePc, CoreStartEvent, handVars, recVars>>

------------------------------------------------------------------------------
(* Server::Core *)

CoreQueue ==
  /\ Up /\ corePc = "queue" /\ corePc' = "signal"
  /\ UNCHANGED <<givenVars, faults, mainVars, coreQ, CoreStartEvent, handVars, recVars>>

CoreSignal ==
  /\ Up /\ corePc = "signal" /\ corePc' = "flag" /\ CoreStartEvent' = TRUE
  /\ UNCHANGED <<givenVars, faults, mainVars, coreQ, handVars, recVars>>

CoreFlag ==
  /\ Up /\ corePc = "flag" /\ corePc' = "loop" /\ is_start' = FALSE
  /\ UNCHANGED <<givenVars, faults, mainPc, madeVars, io, coreQ, CoreStartEvent, handVars, recVars>>

\* GetMessage
CoreHandles(m) ==
  /\ Up /\ corePc = "loop" /\ coreQ # <<>> /\ Head(coreQ) = m
  /\ coreQ' = Tail(coreQ)

CoreGetRecognitionId ==
  /\ CoreHandles("WM_GET_RECOGNITION_ID")
  /\ recognition_thread_id' = TRUE
  /\ UNCHANGED <<givenVars, faults, mainVars, corePc, CoreStartEvent, file_mapping_op_finish, recVars>>

\* abort()
CoreError ==
  /\ CoreHandles("WM_RECOGNITION_ERROR")
  /\ mainPc' = "ended"
  /\ UNCHANGED <<givenVars, faults, is_start, madeVars, io, corePc, CoreStartEvent, handVars, recVars>>

\* WM_IMAGE up to WaitForSingleObject(file_mapping_op_finish, INFINITE).
CoreImage ==
  /\ CoreHandles("WM_IMAGE") /\ corePc' = "wait"
  /\ UNCHANGED <<givenVars, faults, mainVars, CoreStartEvent, handVars, recVars>>

PMTakesPost == recognition_thread_id /\ pmPc \in {"signal", "open", "loop"}

\* The event is signalled: memcpy, which ends the process if the section is not
\* mapped, and the post, which reaches nobody before the id is known.
CoreHandsOn ==
  /\ Up /\ corePc = "wait" /\ file_mapping_op_finish
  /\ \/ /\ "file_mapping_buf" \in views
        /\ corePc' = "loop" /\ file_mapping_op_finish' = FALSE /\ announced' = PMTakesPost
        /\ UNCHANGED mainPc
     \/ /\ "file_mapping_buf" \notin views
        /\ mainPc' = "ended" /\ file_mapping_op_finish' = FALSE
        /\ UNCHANGED <<corePc, announced>>
  /\ UNCHANGED <<givenVars, faults, is_start, madeVars, io, coreQ, CoreStartEvent,
                 recognition_thread_id, recPc, pmPc, thread_done, detecting, exitQ, lostId, lostError>>

\* memcpy from the other section; a result without rectangles copies nothing.
CoreResult ==
  /\ CoreHandles("WM_RESULT_DECTIVE")
  /\ \/ UNCHANGED mainPc
     \/ "rects_mapping_buf" \notin views /\ mainPc' = "ended"
  /\ UNCHANGED <<givenVars, faults, is_start, madeVars, io, corePc, CoreStartEvent, handVars, recVars>>

\* Nothing that matters here.
CoreDisconnect ==
  /\ CoreHandles("WM_CLIENT_DISCONNECT")
  /\ UNCHANGED <<givenVars, faults, mainVars, corePc, CoreStartEvent, handVars, recVars>>

------------------------------------------------------------------------------
(* The recognition process *)

RecUp == recPc \in {"start", "wait", "register", "loop"}

\* _tmain of ceaf66a maps its sections before ProcessMessage has opened them.
RecStart ==
  /\ recPc = "start"
  /\ \/ /\ build.recognition = "HEAD"
        /\ recPc' = "wait" /\ pmPc' = "queue" /\ UNCHANGED <<coreQ, lostError>>
     \/ /\ build.recognition = "ceaf66a"
        /\ recPc' = "failed" /\ UNCHANGED pmPc
        /\ PostCore("WM_RECOGNITION_ERROR") /\ lostError' = ~CoreTakesPost
  /\ UNCHANGED <<givenVars, faults, mainVars, corePc, CoreStartEvent, handVars, thread_done,
                 imageVars, exitQ, lostId>>

PMQueue ==
  /\ pmPc = "queue" /\ pmPc' = "signal"
  /\ UNCHANGED <<givenVars, faults, mainVars, coreVars, recPc, thread_done, imageVars, exitQ,
                 lostId, lostError>>

\* Variant: the other of the two events of that name is signalled.
PMSignalOther ==
  /\ pmPc = "signal" /\ pmPc' = "open"
  /\ UNCHANGED <<givenVars, faults, mainVars, coreVars, recPc, thread_done, imageVars, exitQ,
                 lostId, lostError>>

PMSignal ==
  /\ pmPc = "signal" /\ pmPc' = "open" /\ thread_done' = TRUE
  /\ UNCHANGED <<givenVars, faults, mainVars, coreVars, recPc, imageVars, exitQ, lostId, lostError>>

\* Variant: a failure is only printed.
PMOpenSilent ==
  /\ pmPc = "open"
  /\ \/ Up /\ Works /\ pmPc' = "loop"
     \/ Fault /\ pmPc' = "ended"
     \/ ~Up /\ Works /\ pmPc' = "ended"
  /\ UNCHANGED <<givenVars, mainVars, coreVars, recPc, thread_done, imageVars, exitQ, lostId, lostError>>

\* The sections are there as long as the server is; mapping them may still fail.
\* The report is one post.
PMOpen ==
  /\ pmPc = "open"
  /\ \/ Up /\ Works /\ pmPc' = "loop" /\ UNCHANGED <<coreQ, lostError>>
     \/ /\ Fault /\ pmPc' = "ended"
        /\ PostCore("WM_RECOGNITION_ERROR") /\ lostError' = ~CoreTakesPost
     \/ ~Up /\ Works /\ pmPc' = "ended" /\ UNCHANGED <<coreQ, lostError>>
  /\ UNCHANGED <<givenVars, mainVars, corePc, CoreStartEvent, handVars, recPc, thread_done,
                 imageVars, exitQ, lostId>>

\* WM_IMAGE: read, SetEvent, push.
PMImage ==
  /\ pmPc = "loop" /\ announced
  /\ announced' = FALSE /\ file_mapping_op_finish' = TRUE /\ detecting' = detecting + 1
  /\ UNCHANGED <<givenVars, faults, mainVars, corePc, coreQ, CoreStartEvent, recognition_thread_id,
                 recPc, pmPc, thread_done, exitQ, lostId, lostError>>

RecWait ==
  /\ recPc = "wait" /\ thread_done
  /\ recPc' = "register" /\ thread_done' = FALSE
  /\ UNCHANGED <<givenVars, faults, mainVars, coreVars, pmPc, imageVars, exitQ, lostId, lostError>>

RecRegister ==
  /\ recPc = "register" /\ recPc' = "loop"
  /\ PostCore("WM_GET_RECOGNITION_ID") /\ lostId' = ~CoreTakesPost
  /\ UNCHANGED <<givenVars, faults, mainVars, corePc, CoreStartEvent, handVars, pmPc, thread_done,
                 imageVars, exitQ, lostError>>

\* The recognition thread posts a result, when the operator has pressed a key.
RecResult ==
  /\ recPc = "loop" /\ detecting > 0
  /\ detecting' = detecting - 1 /\ PostCore("WM_RESULT_DECTIVE")
  /\ UNCHANGED <<givenVars, faults, mainVars, corePc, CoreStartEvent, handVars, recPc, pmPc,
                 thread_done, announced, exitQ, lostId, lostError>>

\* Variant: the thread ends where the process should.
RecExitThread ==
  /\ recPc = "loop" /\ exitQ
  /\ recPc' = "exited" /\ exitQ' = FALSE
  /\ UNCHANGED <<givenVars, faults, mainVars, coreVars, pmPc, thread_done, imageVars, lostId, lostError>>

\* WM_EXIT: _tmain returns, and with it the process.
RecExit ==
  /\ recPc = "loop" /\ exitQ
  /\ recPc' = "exited" /\ pmPc' = "ended" /\ exitQ' = FALSE
  /\ UNCHANGED <<givenVars, faults, mainVars, coreVars, thread_done, imageVars, lostId, lostError>>

RecCrashes ==
  /\ RecUp /\ Fault
  /\ recPc' = "crashed" /\ pmPc' = "ended"
  /\ UNCHANGED <<givenVars, mainVars, coreVars, thread_done, imageVars, exitQ, lostId, lostError>>

------------------------------------------------------------------------------
Main == CtorMySql \/ CtorSections \/ CtorThread \/ CtorWait \/ CtorProcess \/ CtorInit \/ CtorFlag
        \/ RunEnds \/ MainCheck \/ MainExit
Core == CoreQueue \/ CoreSignal \/ CoreFlag \/ CoreGetRecognitionId \/ CoreError
        \/ CoreImage \/ CoreHandsOn \/ CoreResult \/ CoreDisconnect
Recognition == RecStart \/ RecWait \/ RecRegister \/ RecExit
ProcessMessage == PMQueue \/ PMSignal \/ PMOpen \/ PMImage
Environment == AcceptFails \/ ClientsLeave \/ ServerCrashes \/ RecCrashes \/ RecResult
               \/ (\E m \in {"WM_IMAGE", "WM_CLIENT_DISCONNECT"} : ClientPosts(m))
               \/ (\E isExit \in BOOLEAN : OperatorTypes(isExit))

Next == Main \/ Core \/ Recognition \/ ProcessMessage \/ Environment

\* Every thread is scheduled.  Nothing is asked of clients and operator.
Spec == /\ Init /\ [][Next]_vars
        /\ WF_vars(Main) /\ WF_vars(Core) /\ WF_vars(Recognition) /\ WF_vars(ProcessMessage)

------------------------------------------------------------------------------
(* Properties *)

Message == {"WM_GET_RECOGNITION_ID", "WM_RECOGNITION_ERROR", "WM_IMAGE", "WM_RESULT_DECTIVE",
            "WM_CLIENT_DISCONNECT"}

\* Type invariant.  ProcessMessage lives no longer than its process.
TypeOK ==
  /\ build \in Build /\ stray \in BOOLEAN
  /\ messages \in 0..MaxMessages /\ faults \in 0..MaxFaults
  /\ mainPc \in {"mysql", "sections", "thread", "wait", "process", "init", "flag", "run", "check",
                 "console", "exit", "ended"}
  /\ is_start \in BOOLEAN /\ sections \in BOOLEAN /\ views \subseteq View /\ listened \in BOOLEAN
  /\ io \in {"none", "accepting", "clients"}
  /\ corePc \in {"none", "queue", "signal", "flag", "loop", "wait"}
  /\ coreQ \in Seq(Message) /\ Len(coreQ) <= QueueLimit
  /\ CoreStartEvent \in BOOLEAN /\ recognition_thread_id \in BOOLEAN
  /\ file_mapping_op_finish \in BOOLEAN
  /\ recPc \in {"none", "start", "wait", "register", "loop", "failed", "exited", "crashed"}
  /\ pmPc \in {"none", "queue", "signal", "open", "loop", "ended"}
  /\ thread_done \in BOOLEAN /\ announced \in BOOLEAN /\ detecting \in Nat
  /\ exitQ \in BOOLEAN /\ lostId \in BOOLEAN /\ lostError \in BOOLEAN
  /\ pmPc \in {"queue", "signal", "open", "loop"} => RecUp

\* What the recognition process tells Core of itself, its id or that it failed,
\* gets into Core's queue unless the server has ended or clients have filled the
\* queue: Core has it before the process is made (PeekMessage, CoreStartEvent).
RegistrationKept == lostId \/ lostError => ~Up \/ messages + 1 >= QueueLimit

\* Whoever is accepted finds Core with its queue, the sections created and the
\* recognition process started.  Not that the server's views of the sections are
\* there: a failed MapViewOfFile is printed, and the first image ends the server.
ServesReady == Up /\ io = "accepting" => CoreHasQueue /\ sections /\ recPc # "none"

\* With assert() compiled in, main waits at its console only after init succeeded.
ConsoleAfterInit == mainPc = "console" /\ build.asserts => listened

\* Core waits for an event that nobody will signal, whatever its queue holds.
Stuck == Up /\ corePc = "wait" /\ ~file_mapping_op_finish /\ (~announced \/ pmPc = "ended")

\* A recognition process without its sections ends the server (abort in Core),
\* unless its report was lost in a full queue, or Core is stuck before it.
MapFailureEndsServer ==
  (recPc = "failed" \/ (pmPc = "ended" /\ RecUp)) ~> ~Up \/ Stuck \/ lostError

\* If nothing fails and both files are of HEAD, the server comes up and knows the
\* recognition process; with a file of the other side it ends.  Clients can prevent
\* either: their images before the registration, which lose the event, or a full queue.
ComesUp == Up /\ io = "accepting" /\ recognition_thread_id /\ pmPc = "loop"
Starts ==
  <>(\/ faults > 0 \/ Stuck \/ lostId \/ lostError
     \/ IF build.client = "HEAD" /\ build.recognition = "HEAD" THEN ComesUp ELSE ~Up)
=============================================================================
