--------------------------- MODULE Lifecycle_proofs ---------------------------
(***************************************************************************)
(* Lifecycle, for every set of builds, every length of the queue, every    *)
(* number of faults and of messages.                                       *)
(***************************************************************************)
EXTENDS Lifecycle, TLAPS

------------------------------------------------------------------------------
(* Posts to Core and takes from its queue *)

(* A post adds one message or none, and none to a full queue. *)
LEMMA PostAdds ==
  ASSUME coreQ \in Seq(Message), NEW m \in Message, PostCore(m)
  PROVE  /\ coreQ' \in Seq(Message)
         /\ Len(coreQ') = Len(coreQ) \/ Len(coreQ') = Len(coreQ) + 1
         /\ Len(coreQ) <= QueueLimit => Len(coreQ') <= QueueLimit
<1>1. Len(coreQ) \in Nat /\ QueueLimit \in Nat
  BY LifecycleAssumption
<1>2. CASE CoreTakesPost
  BY <1>1, <1>2 DEF PostCore, CoreTakesPost
<1>3. CASE ~CoreTakesPost
  BY <1>1, <1>3 DEF PostCore
<1> QED
  BY <1>2, <1>3

(* GetMessage takes one. *)
LEMMA TakeRemoves ==
  ASSUME coreQ \in Seq(Message), NEW m \in Message, CoreHandles(m)
  PROVE  coreQ' \in Seq(Message) /\ Len(coreQ') = Len(coreQ) - 1
BY DEF CoreHandles

------------------------------------------------------------------------------
(* Types *)

\* The type invariant in two parts: what is TRUE or FALSE, and all the rest.
Flags ==
  /\ stray \in BOOLEAN /\ is_start \in BOOLEAN /\ sections \in BOOLEAN /\ listened \in BOOLEAN
  /\ CoreStartEvent \in BOOLEAN /\ recognition_thread_id \in BOOLEAN
  /\ file_mapping_op_finish \in BOOLEAN /\ announced \in BOOLEAN
  /\ thread_done \in BOOLEAN /\ exitQ \in BOOLEAN /\ lostId \in BOOLEAN /\ lostError \in BOOLEAN

Queued == coreQ \in Seq(Message) /\ Len(coreQ) <= QueueLimit

Places ==
  /\ build \in Build /\ messages \in 0..MaxMessages /\ faults \in 0..MaxFaults
  /\ mainPc \in {"mysql", "sections", "thread", "wait", "process", "init", "flag", "run", "check",
                 "console", "exit", "ended"}
  /\ views \subseteq View
  /\ io \in {"none", "accepting", "clients"}
  /\ corePc \in {"none", "queue", "signal", "flag", "loop", "wait"}
  /\ recPc \in {"none", "start", "wait", "register", "loop", "failed", "exited", "crashed"}
  /\ pmPc \in {"none", "queue", "signal", "open", "loop", "ended"}
  /\ detecting \in Nat
  /\ pmPc \in {"queue", "signal", "open", "loop"} => RecUp
  /\ recPc \in {"none", "start"} => pmPc = "none"
  /\ mainPc \in {"mysql", "sections", "thread", "wait", "process"} => recPc = "none"

(* A flag is assigned TRUE, FALSE or a condition. *)
LEMMA FlagTypes == Flags /\ [Next]_vars => Flags'
<1> SUFFICES ASSUME Flags, [Next]_vars PROVE Flags'
  OBVIOUS
<1> USE DEF Flags, givenVars, madeVars, handVars, imageVars
<1>1. CASE Main
  <2>1. CASE CtorMySql
    BY ZenonT(60), <2>1 DEF CtorMySql, coreVars, recVars
  <2>2. CASE CtorThread
    BY ZenonT(60), <2>2 DEF CtorThread, coreVars, recVars
  <2>3. CASE CtorProcess
    BY ZenonT(60), <2>3 DEF CtorProcess, coreVars
  <2>4. CASE RunEnds
    BY ZenonT(60), <2>4 DEF RunEnds, coreVars, recVars
  <2>5. CASE MainCheck
    BY ZenonT(60), <2>5 DEF MainCheck, coreVars, recVars
  <2>6. CASE CtorSections
    BY ZenonT(60), <2>6 DEF CtorSections, coreVars, recVars
  <2>7. CASE CtorWait
    BY ZenonT(60), <2>7 DEF CtorWait, coreVars, recVars
  <2>8. CASE CtorFlag
    BY ZenonT(60), <2>8 DEF CtorFlag, coreVars, recVars
  <2>9. CASE CtorInit
    BY ZenonT(60), <2>9 DEF CtorInit, coreVars, recVars
  <2>10. CASE MainExit
    BY ZenonT(60), <2>10 DEF MainExit, coreVars
  <2> QED
    BY <1>1, <2>1, <2>2, <2>3, <2>4, <2>5, <2>6, <2>7, <2>8, <2>9, <2>10 DEF Main
<1>2. CASE Core
  <2>1. CASE CoreQueue
    BY ZenonT(60), <2>1 DEF CoreQueue, mainVars, recVars
  <2>2. CASE CoreSignal
    BY ZenonT(60), <2>2 DEF CoreSignal, mainVars, recVars
  <2>3. CASE CoreFlag
    BY ZenonT(60), <2>3 DEF CoreFlag, mainVars, recVars
  <2>4. CASE CoreGetRecognitionId
    BY ZenonT(60), <2>4 DEF CoreGetRecognitionId, mainVars, recVars
  <2>5. CASE CoreError
    BY ZenonT(60), <2>5 DEF CoreError, mainVars, recVars
  <2>6. CASE CoreImage
    BY ZenonT(60), <2>6 DEF CoreImage, mainVars, recVars
  <2>7. CASE CoreDisconnect
    BY ZenonT(60), <2>7 DEF CoreDisconnect, mainVars, recVars
  <2>8. CASE CoreResult
    BY ZenonT(60), <2>8 DEF CoreResult, recVars
  <2>9. CASE CoreHandsOn
    BY ZenonT(60), <2>9 DEF CoreHandsOn, PMTakesPost
  <2> QED
    BY <1>2, <2>1, <2>2, <2>3, <2>4, <2>5, <2>6, <2>7, <2>8, <2>9 DEF Core
<1>3. CASE Recognition
  <2>1. CASE RecStart
    BY ZenonT(60), <2>1 DEF RecStart, mainVars
  <2>2. CASE RecWait
    BY ZenonT(60), <2>2 DEF RecWait, mainVars, coreVars
  <2>3. CASE RecRegister
    BY ZenonT(60), <2>3 DEF RecRegister, mainVars, coreVars
  <2>4. CASE RecExit
    BY ZenonT(60), <2>4 DEF RecExit, mainVars, coreVars
  <2> QED
    BY <1>3, <2>1, <2>2, <2>3, <2>4 DEF Recognition
<1>4. CASE ProcessMessage
  <2>1. CASE PMQueue
    BY ZenonT(60), <2>1 DEF PMQueue, mainVars, coreVars
  <2>2. CASE PMSignal
    BY ZenonT(60), <2>2 DEF PMSignal, mainVars, coreVars
  <2>3. CASE PMImage
    BY ZenonT(60), <2>3 DEF PMImage, mainVars, coreVars
  <2>4. CASE PMOpen
    BY ZenonT(60), <2>4 DEF PMOpen, mainVars
  <2> QED
    BY <1>4, <2>1, <2>2, <2>3, <2>4 DEF ProcessMessage
<1>5. CASE Environment
  <2>1. CASE AcceptFails
    BY ZenonT(60), <2>1 DEF AcceptFails, coreVars, recVars
  <2>2. CASE ClientsLeave
    BY ZenonT(60), <2>2 DEF ClientsLeave, coreVars, recVars
  <2>3. CASE ServerCrashes
    BY ZenonT(60), <2>3 DEF ServerCrashes, coreVars, recVars
  <2>4. CASE RecCrashes
    BY ZenonT(60), <2>4 DEF RecCrashes, mainVars, coreVars
  <2>5. CASE RecResult
    BY ZenonT(60), <2>5 DEF RecResult, mainVars
  <2>6. ASSUME NEW isExit \in BOOLEAN, OperatorTypes(isExit) PROVE Flags'
    BY ZenonT(60), <2>6 DEF OperatorTypes, coreVars, recVars
  <2>7. ASSUME NEW m, ClientPosts(m) PROVE Flags'
    BY ZenonT(60), <2>7 DEF ClientPosts, mainVars, recVars
  <2> QED
    BY <1>5, <2>1, <2>2, <2>3, <2>4, <2>5, <2>6, <2>7 DEF Environment
<1>6. CASE UNCHANGED vars
  BY Zenon, <1>6 DEF vars, mainVars, coreVars, recVars
<1> QED
  BY <1>1, <1>2, <1>3, <1>4, <1>5, <1>6 DEF Next

(* The queue of Core holds its messages and no more than QueueLimit of them: *)
(* it is posted to, taken from, or let alone.                                *)
LEMMA QueueSteps ==
  ASSUME [Next]_vars
  PROVE  \/ UNCHANGED coreQ
         \/ \E m \in Message : CoreHandles(m)
         \/ \E m \in Message : PostCore(m)
<1>1. CASE Main
  BY <1>1 DEF Main, CtorMySql, CtorSections, CtorThread, CtorWait, CtorProcess, CtorInit, CtorFlag,
              RunEnds, MainCheck, MainExit, coreVars
<1>2. CASE Core
  BY <1>2 DEF Core, CoreQueue, CoreSignal, CoreFlag, CoreGetRecognitionId, CoreError, CoreImage,
              CoreHandsOn, CoreResult, CoreDisconnect, Message
<1>3. CASE Recognition
  BY <1>3 DEF Recognition, RecStart, RecWait, RecRegister, RecExit, coreVars, Message
<1>4. CASE ProcessMessage
  BY <1>4 DEF ProcessMessage, PMQueue, PMSignal, PMOpen, PMImage, coreVars, Message
<1>5. CASE Environment
  BY <1>5 DEF Environment, AcceptFails, ClientsLeave, ServerCrashes, RecCrashes, RecResult,
              ClientPosts, OperatorTypes, coreVars, Message
<1>6. CASE UNCHANGED vars
  BY <1>6 DEF vars, coreVars
<1> QED
  BY <1>1, <1>2, <1>3, <1>4, <1>5, <1>6 DEF Next

LEMMA QueueTypes == Queued /\ [Next]_vars => Queued'
<1> SUFFICES ASSUME Queued, [Next]_vars PROVE Queued'
  OBVIOUS
<1>1. coreQ \in Seq(Message) /\ Len(coreQ) <= QueueLimit /\ Len(coreQ) \in Nat /\ QueueLimit \in Nat
  BY LifecycleAssumption DEF Queued
<1>2. CASE UNCHANGED coreQ
  BY <1>2 DEF Queued
<1>3. ASSUME NEW m \in Message, CoreHandles(m) PROVE Queued'
  <2>1. coreQ' \in Seq(Message) /\ Len(coreQ') = Len(coreQ) - 1
    BY <1>1, <1>3, TakeRemoves
  <2> QED
    BY <1>1, <2>1 DEF Queued
<1>4. ASSUME NEW m \in Message, PostCore(m) PROVE Queued'
  BY <1>1, <1>4, PostAdds DEF Queued
<1> QED
  BY <1>2, <1>3, <1>4, QueueSteps

(* Where the threads are: _tmain is made once, by the constructor, and makes *)
(* ProcessMessage, which ends with it.                                       *)
LEMMA PlaceTypes == Places /\ [Next]_vars => Places'
<1> SUFFICES ASSUME Places, [Next]_vars PROVE Places'
  OBVIOUS
<1> USE DEF Places, RecUp, givenVars, madeVars, handVars, imageVars
<1>1. CASE Main
  <2>1. CASE CtorMySql
    BY <2>1, LifecycleAssumption DEF CtorMySql, Fault, Works, coreVars, recVars
  <2>2. CASE CtorSections
    BY <2>2, LifecycleAssumption DEF CtorSections, Fault, Works, coreVars, recVars
  <2>3. CASE CtorThread \/ CtorWait \/ CtorFlag
    BY <2>3 DEF CtorThread, CtorWait, CtorFlag, coreVars, recVars
  <2>4. CASE CtorProcess
    BY <2>4, LifecycleAssumption DEF CtorProcess, Fault, Works, coreVars
  <2>5. CASE CtorInit
    BY <2>5, LifecycleAssumption DEF CtorInit, Fault, Works, coreVars, recVars
  <2>6. CASE RunEnds \/ MainCheck \/ MainExit
    BY <2>6 DEF RunEnds, MainCheck, MainExit, coreVars, recVars
  <2> QED
    BY <1>1, <2>1, <2>2, <2>3, <2>4, <2>5, <2>6 DEF Main
<1>2. CASE Core
  <2>1. CASE CoreQueue \/ CoreSignal \/ CoreFlag
    BY <2>1 DEF CoreQueue, CoreSignal, CoreFlag, mainVars, recVars
  <2>2. CASE CoreGetRecognitionId \/ CoreError \/ CoreImage \/ CoreResult \/ CoreDisconnect
    BY <2>2 DEF CoreGetRecognitionId, CoreError, CoreImage, CoreResult, CoreDisconnect, mainVars, recVars
  <2>3. CASE CoreHandsOn
    BY <2>3 DEF CoreHandsOn
  <2> QED
    BY <1>2, <2>1, <2>2, <2>3 DEF Core
<1>3. CASE Recognition
  BY <1>3 DEF Recognition, RecStart, RecRegister, RecWait, RecExit, mainVars, coreVars
<1>4. CASE ProcessMessage
  <2>1. CASE PMQueue \/ PMSignal \/ PMImage
    BY <2>1 DEF PMQueue, PMSignal, PMImage, mainVars, coreVars
  <2>2. CASE PMOpen
    BY <2>2, LifecycleAssumption DEF PMOpen, Fault, Works, mainVars
  <2> QED
    BY <1>4, <2>1, <2>2 DEF ProcessMessage
<1>5. CASE Environment
  <2>1. CASE AcceptFails \/ ServerCrashes \/ RecCrashes
    BY <2>1, LifecycleAssumption DEF AcceptFails, ServerCrashes, RecCrashes, Fault,
                                     mainVars, coreVars, recVars
  <2>2. CASE ClientsLeave \/ RecResult
    BY <2>2 DEF ClientsLeave, RecResult, mainVars, coreVars, recVars
  <2>3. ASSUME NEW isExit \in BOOLEAN, OperatorTypes(isExit) PROVE Places'
    BY <2>3 DEF OperatorTypes, coreVars, recVars
  <2>4. ASSUME NEW m, ClientPosts(m) PROVE Places'
    BY <2>4, LifecycleAssumption DEF ClientPosts, mainVars, recVars
  <2> QED
    BY <1>5, <2>1, <2>2, <2>3, <2>4 DEF Environment
<1>6. CASE UNCHANGED vars
  BY <1>6 DEF vars, mainVars, coreVars, recVars
<1> QED
  BY <1>1, <1>2, <1>3, <1>4, <1>5, <1>6 DEF Next

(* What is assumed of the state in every step below. *)
LEMMA AlwaysTyped == Spec => [](Flags /\ Places /\ Queued)
<1>1. Init => Flags
  BY Zenon DEF Init, Flags
<1>2. Init => Places /\ Queued
  BY LifecycleAssumption DEF Init, Places, Queued, RecUp
<1> QED
  BY <1>1, <1>2, FlagTypes, PlaceTypes, QueueTypes, PTL DEF Spec

(* ProcessMessage lives no longer than _tmain; the other parts are types. *)
THEOREM TypeCorrect == Spec => []TypeOK
<1>1. Flags /\ Places /\ Queued => TypeOK
  BY Zenon DEF Flags, Places, Queued, TypeOK
<1> QED
  BY <1>1, AlwaysTyped, PTL

------------------------------------------------------------------------------
(* Who is how far when another one counts on it *)

\* What main has done tells how far the others are: CoreStartEvent is signalled
\* behind the first PeekMessage, main passes it before it makes the recognition
\* process, and it listens after that.
Started ==
  /\ mainPc \in {"mysql", "sections", "thread"} => corePc = "none"
  /\ CoreStartEvent => CoreHasQueue
  /\ mainPc \in {"process", "init", "flag"} => CoreHasQueue
  /\ recPc # "none" => CoreHasQueue /\ sections
  /\ mainPc \in {"init", "flag"} => recPc # "none"
  /\ io # "none" => recPc # "none"

\* is_start is TRUE only behind init, which with assert() has succeeded then.
Listens == (mainPc = "flag" \/ is_start) /\ build.asserts => listened

\* How much of Core's queue is not from clients while the recognition process may
\* still post its id or its failure: one message, and no result.
Filled ==
  /\ recPc \in {"none", "start"} => Len(coreQ) <= messages
  /\ recPc \in {"wait", "register"} /\ pmPc # "ended" => Len(coreQ) <= messages
  /\ recPc \in {"wait", "register"} => Len(coreQ) <= messages + 1
  /\ pmPc \in {"none", "queue", "signal", "open"} => detecting = 0
  /\ recPc = "loop" /\ pmPc \in {"none", "queue", "signal", "open"} => Len(coreQ) <= messages + 1

IInv == Started /\ Listens /\ ConsoleAfterInit

LEMMA InitIInv == Init => IInv
BY DEF Init, IInv, Started, Listens, ConsoleAfterInit, CoreHasQueue

(* The steps of main. *)
LEMMA MainIInv == IInv /\ Main => IInv'
<1> SUFFICES ASSUME IInv, Main PROVE IInv'
  OBVIOUS
<1> USE DEF IInv, Started, Listens, ConsoleAfterInit, CoreHasQueue, givenVars, madeVars, coreVars,
            recVars, Fault, Works
<1>1. CASE CtorMySql
  BY <1>1 DEF CtorMySql
<1>2. CASE CtorSections
  BY <1>2 DEF CtorSections
<1>3. CASE CtorThread
  BY <1>3 DEF CtorThread
<1>4. CASE CtorWait
  BY <1>4 DEF CtorWait
<1>5. CASE CtorProcess
  BY <1>5 DEF CtorProcess
<1>6. CASE CtorInit
  BY <1>6 DEF CtorInit
<1>7. CASE CtorFlag
  BY <1>7 DEF CtorFlag
<1>8. CASE RunEnds
  BY <1>8 DEF RunEnds
<1>9. CASE MainCheck
  BY <1>9 DEF MainCheck
<1>10. CASE MainExit
  BY <1>10 DEF MainExit
<1> QED
  BY <1>1, <1>2, <1>3, <1>4, <1>5, <1>6, <1>7, <1>8, <1>9, <1>10 DEF Main

(* The steps of Server::Core: only CoreQueue and CoreFlag touch what is counted on. *)
LEMMA CoreIInv == IInv /\ Core => IInv'
<1> SUFFICES ASSUME IInv, Core PROVE IInv'
  OBVIOUS
<1> USE DEF IInv, Started, Listens, ConsoleAfterInit, CoreHasQueue, givenVars, madeVars, mainVars,
            recVars
<1>1. CASE CoreQueue
  BY <1>1 DEF CoreQueue
<1>2. CASE CoreSignal
  BY <1>2 DEF CoreSignal
<1>3. CASE CoreFlag
  BY <1>3 DEF CoreFlag
<1>4. CASE CoreGetRecognitionId \/ CoreDisconnect
  BY <1>4 DEF CoreGetRecognitionId, CoreDisconnect
<1>5. CASE CoreError \/ CoreResult
  BY <1>5 DEF CoreError, CoreResult
<1>6. CASE CoreImage
  BY <1>6 DEF CoreImage, CoreHandles
<1>7. CASE CoreHandsOn
  BY <1>7 DEF CoreHandsOn
<1> QED
  BY <1>1, <1>2, <1>3, <1>4, <1>5, <1>6, <1>7 DEF Core

(* The steps of the recognition process. *)
LEMMA RecognitionIInv == IInv /\ (Recognition \/ ProcessMessage) => IInv'
<1> SUFFICES ASSUME IInv, Recognition \/ ProcessMessage PROVE IInv'
  OBVIOUS
<1> USE DEF IInv, Started, Listens, ConsoleAfterInit, CoreHasQueue, givenVars, madeVars, mainVars,
            coreVars
<1>1. CASE Recognition
  BY <1>1 DEF Recognition, RecStart, RecWait, RecRegister, RecExit
<1>2. CASE ProcessMessage
  BY <1>2 DEF ProcessMessage, PMQueue, PMSignal, PMOpen, PMImage
<1> QED
  BY <1>1, <1>2

(* Failures, clients and the operator. *)
LEMMA EnvironmentIInv == IInv /\ Environment => IInv'
<1> SUFFICES ASSUME IInv, Environment PROVE IInv'
  OBVIOUS
<1> USE DEF IInv, Started, Listens, ConsoleAfterInit, CoreHasQueue, givenVars, madeVars, coreVars,
            recVars, mainVars
<1>1. CASE AcceptFails
  BY <1>1 DEF AcceptFails
<1>2. CASE ClientsLeave
  BY <1>2 DEF ClientsLeave
<1>3. CASE ServerCrashes
  BY <1>3 DEF ServerCrashes
<1>4. CASE RecCrashes \/ RecResult
  BY <1>4 DEF RecCrashes, RecResult, RecUp
<1>5. ASSUME NEW isExit \in BOOLEAN, OperatorTypes(isExit) PROVE IInv'
  BY <1>5 DEF OperatorTypes
<1>6. ASSUME NEW m, ClientPosts(m) PROVE IInv'
  BY <1>6 DEF ClientPosts
<1> QED
  BY <1>1, <1>2, <1>3, <1>4, <1>5, <1>6 DEF Environment

(* How far each thread is when another one counts on it. *)
LEMMA Inductive == Spec => []IInv
<1>1. IInv /\ [Next]_vars => IInv'
  <2> SUFFICES ASSUME IInv, [Next]_vars PROVE IInv'
    OBVIOUS
  <2>1. CASE UNCHANGED vars
    BY <2>1 DEF vars, givenVars, madeVars, mainVars, coreVars, recVars, IInv, Started, Listens,
                ConsoleAfterInit, CoreHasQueue
  <2> QED
    BY <2>1, MainIInv, CoreIInv, RecognitionIInv, EnvironmentIInv DEF Next
<1> QED
  BY <1>1, InitIInv, PTL DEF Spec

(* While an accept is pending, Core has its queue, the sections were created and *)
(* the recognition process was started.                                          *)
THEOREM ServesCorrect == Spec => []ServesReady
<1>1. IInv => ServesReady
  BY DEF IInv, Started, ServesReady
<1> QED
  BY <1>1, Inductive, PTL

(* With assert() compiled in main gets to its console only if init succeeded. *)
THEOREM ConsoleAfterListening == Spec => []ConsoleAfterInit
BY Inductive, PTL DEF IInv

------------------------------------------------------------------------------
(* Room for what the recognition process says of itself *)

(* A post that fails on a server that is up has met a full queue. *)
LEMMA FailedPost ==
  ASSUME Started, Queued, messages \in Nat, recPc # "none", Up, ~CoreTakesPost,
         Len(coreQ) <= messages + 1
  PROVE  messages + 1 >= QueueLimit
<1>1. Len(coreQ) \in Nat /\ QueueLimit \in Nat
  BY LifecycleAssumption DEF Queued
<1>2. ~(Len(coreQ) < QueueLimit)
  BY DEF Started, CoreTakesPost
<1> QED
  BY <1>1, <1>2

(* Each step keeps Filled, and a post of the id or of a failure is lost in a full *)
(* queue or on a server that has ended.                                           *)
LEMMA FilledStep ==
  Places /\ Queued /\ Started /\ Filled /\ RegistrationKept /\ [Next]_vars
    => Filled' /\ RegistrationKept'
<1> SUFFICES ASSUME Places, Queued, Started, Filled, RegistrationKept, [Next]_vars
             PROVE  Filled' /\ RegistrationKept'
  OBVIOUS
<1> DEFINE L == Len(coreQ)
<1>1. messages \in Nat /\ detecting \in Nat /\ L \in Nat /\ coreQ \in Seq(Message) /\ QueueLimit \in Nat
  BY LifecycleAssumption DEF Places, Queued
<1>2. \A m \in Message : CoreHandles(m) => Len(coreQ') = L - 1
  BY <1>1, TakeRemoves
<1>3. \A m \in Message : PostCore(m) => Len(coreQ') = L \/ Len(coreQ') = L + 1
  BY <1>1, PostAdds
<1>4. /\ "WM_GET_RECOGNITION_ID" \in Message /\ "WM_RECOGNITION_ERROR" \in Message
      /\ "WM_IMAGE" \in Message /\ "WM_RESULT_DECTIVE" \in Message /\ "WM_CLIENT_DISCONNECT" \in Message
  BY DEF Message
<1>5. CASE Main
  <2>1. UNCHANGED <<coreQ, messages, pmPc, detecting, lostId, lostError>>
    BY <1>5 DEF Main, CtorMySql, CtorSections, CtorThread, CtorWait, CtorProcess, CtorInit, CtorFlag,
                RunEnds, MainCheck, MainExit, coreVars, recVars, givenVars, imageVars
  <2>2. recPc' = recPc \/ (recPc = "none" /\ recPc' = "start")
    BY <1>5 DEF Main, CtorMySql, CtorSections, CtorThread, CtorWait, CtorProcess, CtorInit, CtorFlag,
                RunEnds, MainCheck, MainExit, recVars, Places
  <2>3. ~Up => ~Up'
    BY <1>5 DEF Main, CtorMySql, CtorSections, CtorThread, CtorWait, CtorProcess, CtorInit, CtorFlag,
                RunEnds, MainCheck, MainExit, Up
  <2> QED
    BY <2>1, <2>2, <2>3 DEF Filled, RegistrationKept
<1>6. CASE Core
  <2>1. UNCHANGED <<messages, recPc, pmPc, detecting, lostId, lostError>> /\ Up
    BY <1>6 DEF Core, CoreQueue, CoreSignal, CoreFlag, CoreGetRecognitionId, CoreError, CoreImage,
                CoreHandsOn, CoreResult, CoreDisconnect, CoreHandles, givenVars, recVars, imageVars
  <2>2. UNCHANGED coreQ \/ \E m \in Message : CoreHandles(m)
    BY <1>4, <1>6 DEF Core, CoreQueue, CoreSignal, CoreFlag, CoreGetRecognitionId, CoreError,
                      CoreImage, CoreHandsOn, CoreResult, CoreDisconnect
  <2>3. Len(coreQ') = L \/ Len(coreQ') = L - 1
    BY <1>2, <2>2
  <2> QED
    BY <1>1, <2>1, <2>3 DEF Filled, RegistrationKept
<1>7. CASE RecStart
  <2>1. /\ recPc = "start" /\ pmPc = "none"
        /\ UNCHANGED <<messages, mainPc, detecting, lostId>>
    BY <1>7 DEF RecStart, givenVars, mainVars, imageVars, Places
  <2>2. CASE recPc' = "wait" /\ pmPc' = "queue" /\ UNCHANGED <<coreQ, lostError>>
    BY <1>1, <2>1, <2>2 DEF Filled, RegistrationKept, Up
  <2>3. CASE recPc' = "failed" /\ UNCHANGED pmPc /\ lostError' = ~CoreTakesPost
    <3>1. Up /\ ~CoreTakesPost => messages + 1 >= QueueLimit
      BY <1>1, <2>1, FailedPost DEF Filled
    <3> QED
      BY <1>1, <2>1, <2>3, <3>1 DEF Filled, RegistrationKept, Up
  <2> QED
    BY <1>7, <2>2, <2>3 DEF RecStart
<1>8. CASE RecRegister
  <2>1. /\ recPc = "register" /\ recPc' = "loop" /\ lostId' = ~CoreTakesPost
        /\ UNCHANGED <<messages, mainPc, pmPc, detecting, lostError>>
        /\ PostCore("WM_GET_RECOGNITION_ID")
    BY <1>8 DEF RecRegister, givenVars, mainVars, imageVars
  <2>2. Up /\ ~CoreTakesPost => messages + 1 >= QueueLimit
    BY <1>1, <2>1, FailedPost DEF Filled
  <2>3. Len(coreQ') = L \/ Len(coreQ') = L + 1
    BY <1>3, <1>4, <2>1
  <2>4. Filled'
    BY <1>1, <2>1, <2>3 DEF Filled
  <2>5. RegistrationKept'
    BY <2>1, <2>2 DEF RegistrationKept, Up
  <2> QED
    BY <2>4, <2>5
<1>9. CASE RecWait \/ RecExit \/ RecCrashes
  BY <1>9 DEF RecWait, RecExit, RecCrashes, Filled, RegistrationKept, Up, givenVars, mainVars, coreVars,
              imageVars
<1>10. CASE PMQueue \/ PMSignal \/ PMImage
  BY <1>10 DEF PMQueue, PMSignal, PMImage, Filled, RegistrationKept, Up, givenVars, mainVars, coreVars,
               imageVars
<1>11. CASE PMOpen
  <2>1. /\ pmPc = "open" /\ recPc \in {"wait", "register", "loop"}
        /\ UNCHANGED <<messages, mainPc, recPc, detecting, lostId>>
    BY <1>11 DEF PMOpen, givenVars, mainVars, imageVars, Places, RecUp
  <2>2. CASE pmPc' \in {"loop", "ended"} /\ UNCHANGED <<coreQ, lostError>>
    BY <1>1, <2>1, <2>2 DEF Filled, RegistrationKept, Up
  <2>3. CASE pmPc' = "ended" /\ PostCore("WM_RECOGNITION_ERROR") /\ lostError' = ~CoreTakesPost
    <3>1. Up /\ ~CoreTakesPost => messages + 1 >= QueueLimit
      BY <1>1, <2>1, FailedPost DEF Filled
    <3>2. Len(coreQ') = L \/ Len(coreQ') = L + 1
      BY <1>3, <1>4, <2>3
    <3>3. Filled'
      BY <1>1, <2>1, <2>3, <3>2 DEF Filled
    <3>4. RegistrationKept'
      BY <2>1, <2>3, <3>1 DEF RegistrationKept, Up
    <3> QED
      BY <3>3, <3>4
  <2> QED
    BY <1>11, <2>2, <2>3 DEF PMOpen
<1>12. CASE RecResult
  <2>1. recPc = "loop" /\ detecting > 0 /\ UNCHANGED <<messages, mainPc, recPc, pmPc, lostId, lostError>>
    BY <1>12 DEF RecResult, givenVars, mainVars
  <2>2. pmPc \notin {"none", "queue", "signal", "open"}
    BY <1>1, <2>1 DEF Filled
  <2> QED
    BY <2>1, <2>2 DEF Filled, RegistrationKept, Up
<1>13. ASSUME NEW m \in {"WM_IMAGE", "WM_CLIENT_DISCONNECT"}, ClientPosts(m)
       PROVE  Filled' /\ RegistrationKept'
  <2>1. messages' = messages + 1 /\ UNCHANGED <<mainPc, recPc, pmPc, detecting, lostId, lostError>>
    BY <1>13 DEF ClientPosts, mainVars, recVars, imageVars
  <2>2. Len(coreQ') = L \/ Len(coreQ') = L + 1
    BY <1>3, <1>4, <1>13 DEF ClientPosts
  <2> QED
    BY <1>1, <2>1, <2>2 DEF Filled, RegistrationKept, Up
<1>14. CASE AcceptFails \/ ClientsLeave \/ ServerCrashes \/ \E isExit \in BOOLEAN : OperatorTypes(isExit)
  <2>1. UNCHANGED <<coreQ, messages, recPc, pmPc, detecting, lostId, lostError>> /\ Up
    BY <1>14 DEF AcceptFails, ClientsLeave, ServerCrashes, OperatorTypes, Up, givenVars, coreVars,
                 recVars, imageVars
  <2> QED
    BY <2>1 DEF Filled, RegistrationKept
<1>15. CASE UNCHANGED vars
  BY <1>15 DEF vars, Filled, RegistrationKept, Up, givenVars, mainVars, coreVars, recVars, imageVars
<1> QED
  BY <1>5, <1>6, <1>7, <1>8, <1>9, <1>10, <1>11, <1>12, <1>13, <1>14, <1>15
     DEF Next, Recognition, ProcessMessage, Environment

(* The post of the id of ProcessMessage (_tmain, eleven tries in no time) and that *)
(* of a failure (one try) are lost only if the server has ended or clients have    *)
(* filled the queue, never because Core is not ready for them.                     *)
THEOREM RegistrationCorrect == Spec => []RegistrationKept
<1>1. Init => Filled /\ RegistrationKept
  BY DEF Init, Filled, RegistrationKept
<1>2. IInv => Started
  BY DEF IInv
<1> QED
  BY <1>1, <1>2, FilledStep, Inductive, AlwaysTyped, PTL DEF Spec
=============================================================================
