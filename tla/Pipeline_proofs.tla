--------------------------- MODULE Pipeline_proofs ---------------------------
(***************************************************************************)
(* Pipeline, for every number of clients, images and disconnects, every    *)
(* queue length, every section size and every set of images: its types,    *)
(* and that the event, the two queues and the program counters are a lock  *)
(* on "file-mapping", where an image is undisturbed until it is read.      *)
(***************************************************************************)
EXTENDS Pipeline, Wire_proofs, SequenceTheorems

(* Every message posted is a Message. *)
LEMMA MessageTypes ==
  /\ Idle \in Message
  /\ \A w \in StrayId, l \in Nat, o \in Nat :
       /\ Msg("WM_IMAGE", w, l, o) \in Message
       /\ Msg("WM_RESULT_DECTIVE", w, l, o) \in Message
       /\ Msg("WM_CLIENT_DISCONNECT", w, l, o) \in Message
       /\ Msg("WM_GET_RECOGNITION_ID", w, l, o) \in Message
       /\ Msg("WM_RECOGNITION_ERROR", w, l, o) \in Message
  /\ Cli \subseteq StrayId /\ 0 \in StrayId
BY BoundsAssumption DEF Idle, Msg, Message, MessageType, StrayId, Cli

(* A queue of messages stays one when a message is posted or taken. *)
LEMMA QueueTypes ==
  \A q \in Seq(Message) :
    /\ \A m \in Message : Append(q, m) \in Seq(Message)
    /\ q # <<>> => Head(q) \in Message /\ Tail(q) \in Seq(Message)
OBVIOUS

(* The first four bytes of a posted buffer, and a size read from any four. *)
LEMMA PostedHeader ==
  ASSUME Types, NEW b \in 1..Len(recv_bufs)
  PROVE  /\ ImageOf(b) \in Image /\ ImageOf(b).size \in FileSize
         /\ Header(b) \in FourBytes
<1>1. ImageOf(b) \in Image
  <2>1. recv_bufs[b] \in [cli : Cli, img : Image]
    BY ElementOfSeq DEF Types, ServerTypes
  <2> QED
    BY <2>1 DEF ImageOf
<1>2. ImageOf(b).size \in FileSize
  BY <1>1, ImageAssumption
<1> QED
  BY <1>1, <1>2, SerializedBytes DEF Header

(* ProcessMessage reads a size from any four bytes. *)
LEMMA UnsignedRead ==
  ASSUME NEW in \in FourBytes
  PROVE  Deserialze(in) \in Nat
<1>1. in[1] \in Nat /\ in[2] \in Nat /\ in[3] \in Nat /\ in[4] \in Nat
  BY SMT DEF FourBytes, Byte
<1> QED
  BY SMT, <1>1 DEF Deserialze

(* What the recognition thread works on has a Mat, so it has a buffer. *)
LEMMA TmpNamesBuffer ==
  ASSUME Types, Names, recPc \notin {"poll", "show"}
  PROVE  Tmp.of \in 1..Len(recv_bufs)
<1>1. popped \in 1..Len(work_queue) /\ Tmp.mat
  BY DEF Types, RecTypes, PMTypes, Names, RecNames
<1>2. Tmp.of \in Nat /\ Tmp.of <= Len(recv_bufs) /\ Tmp.of > 0
  <2>1. Tmp \in [cli : StrayId, of : Nat, len : Nat, mat : BOOLEAN]
    BY <1>1, ElementOfSeq DEF Types, PMTypes, Tmp
  <2> QED
    BY <1>1, <2>1 DEF Names, DataNames, Range, Tmp
<1> QED
  BY <1>2 DEF Types, ServerTypes

(* Initially every variable has its type. *)
LEMMA InitTypes == Init => Types
<1> SUFFICES ASSUME Init PROVE Types
  OBVIOUS
<1>1. ServerTypes
  <2>1. 1 \in Cli
    BY BoundsAssumption DEF Cli
  <2> QED
    BY <2>1, MessageTypes, EmptySeq DEF Init, ServerTypes
<1>2. SerializeInt(0) \in FourBytes
  BY SMT, SerializedBytes DEF FileSize
<1>3. SharedTypes
  BY <1>2 DEF Init, SharedTypes
<1>4. PMTypes
  BY MessageTypes DEF Init, PMTypes, Nothing
<1>5. RecTypes
  BY DEF Init, RecTypes
<1> QED
  BY <1>1, <1>3, <1>4, <1>5 DEF Types

(* No step leaves the types; buffers are named by numbers. *)
LEMMA StepTypes == Types /\ Names /\ [Next]_vars => Types'
<1> SUFFICES ASSUME Types, Names, [Next]_vars PROVE Types'
  OBVIOUS
<1> USE DEF Types
<1>1. ASSUME NEW c \in 1..client_id, NEW img \in Image, PostImage(c, img)
      PROVE  Types'
  <2>1. ServerTypes'
    <3>1. c \in Cli /\ c \in StrayId
      BY <1>1, BoundsAssumption DEF ServerTypes, Cli, StrayId
    <3>2. recv_bufs' \in Seq([cli : Cli, img : Image]) /\ Len(recv_bufs') \in Nat
      BY <1>1, <3>1 DEF PostImage, ServerTypes
    <3>3. coreQ' \in Seq(Message)
      BY <1>1, <3>1, <3>2, MessageTypes, QueueTypes DEF PostImage, ServerTypes
    <3> QED
      BY <1>1, <3>2, <3>3 DEF PostImage, ServerTypes
  <2>2. SharedTypes' /\ PMTypes' /\ RecTypes'
    BY <1>1 DEF PostImage, SharedTypes, PMTypes, RecTypes, sharedVars, pmVars, recVars
  <2> QED
    BY <2>1, <2>2 DEF Types
<1>2. CASE Accept
  <2>1. ServerTypes'
    <3>1. client_id' \in Cli
      BY <1>2, BoundsAssumption DEF Accept, ServerTypes, Cli
    <3> QED
      BY <1>2, <3>1 DEF Accept, ServerTypes
  <2>2. SharedTypes' /\ PMTypes' /\ RecTypes'
    BY <1>2 DEF Accept, SharedTypes, PMTypes, RecTypes, sharedVars, pmVars, recVars
  <2> QED
    BY <2>1, <2>2 DEF Types
<1>3. CASE PostDisconnect
  <2>1. ServerTypes'
    BY <1>3, MessageTypes, QueueTypes DEF PostDisconnect, ServerTypes, sharedVars, pmVars, recVars
  <2>2. SharedTypes' /\ PMTypes' /\ RecTypes'
    BY <1>3 DEF PostDisconnect, SharedTypes, PMTypes, RecTypes, sharedVars, pmVars, recVars
  <2> QED
    BY <2>1, <2>2 DEF Types
<1>4. CASE CoreGetImage
  <2>1. ServerTypes'
    BY <1>4, MessageTypes, QueueTypes DEF CoreGetImage, ServerTypes, CoreHandles, sharedVars, pmVars, recVars
  <2>2. SharedTypes' /\ PMTypes' /\ RecTypes'
    BY <1>4 DEF CoreGetImage, SharedTypes, PMTypes, RecTypes, sharedVars, pmVars, recVars
  <2> QED
    BY <2>1, <2>2 DEF Types
<1>5. CASE CoreWait
  <2>1. ServerTypes'
    BY <1>5, MessageTypes, QueueTypes DEF CoreWait, ServerTypes, pmVars, recVars
  <2>2. SharedTypes'
    BY <1>5, MessageTypes, QueueTypes DEF CoreWait, SharedTypes, pmVars, recVars
  <2>3. PMTypes' /\ RecTypes'
    BY <1>5 DEF CoreWait, PMTypes, RecTypes, pmVars, recVars
  <2> QED
    BY <2>1, <2>2, <2>3 DEF Types
<1>6. CASE CoreCopy
  <2>1. ServerTypes'
    BY <1>6, MessageTypes, QueueTypes DEF CoreCopy, ServerTypes, pmVars, recVars
  <2>2. SharedTypes'
    <3>1. coreMsg.lParam \in Nat
      BY DEF ServerTypes, Message
    <3>2. Header(coreMsg.lParam) \in FourBytes
      BY <1>6, PostedHeader DEF CoreCopy, Names, CoreNames, CoreKnows, NamesBuffer
    <3>3. ASSUME NEW n \in Nat
          PROVE  Overlay(coreMsg.lParam, n) \in [hdr : FourBytes, body : Nat]
      BY <3>1, <3>2 DEF Overlay, SharedTypes, FourBytes
    <3>4. file_mapping' \in [hdr : FourBytes, body : Nat]
      <4> DEFINE n == DeserializeInt(Header(coreMsg.lParam)) + 4
      <4>1. CASE n \in 0..IPC_BUFF_SIZE
        <5>1. n \in Nat
          BY <4>1, BoundsAssumption
        <5>2. file_mapping' = Overlay(coreMsg.lParam, n)
          BY <1>6, <4>1 DEF CoreCopy
        <5> HIDE DEF n
        <5> QED
          BY <3>3, <5>1, <5>2
      <4>2. CASE n \notin 0..IPC_BUFF_SIZE
        BY <1>6, <4>2 DEF CoreCopy, SharedTypes
      <4> QED
        BY <4>1, <4>2
    <3> QED
      BY <1>6, <3>4 DEF CoreCopy, SharedTypes
  <2>3. PMTypes' /\ RecTypes'
    BY <1>6 DEF CoreCopy, PMTypes, RecTypes, pmVars, recVars
  <2> QED
    BY <2>1, <2>2, <2>3 DEF Types
<1>7. CASE CorePost
  <2>1. ServerTypes'
    BY <1>7, MessageTypes, QueueTypes DEF CorePost, ServerTypes, sharedVars, recVars
  <2>2. PMTypes'
    <3>1. coreMsg.wParam \in StrayId /\ coreMsg.of \in Nat
      BY DEF ServerTypes, Message
    <3>2. pmQ' \in Seq(Message)
      BY <1>7, <3>1, MessageTypes, QueueTypes DEF CorePost, PMTypes
    <3> QED
      BY <1>7, <3>2 DEF CorePost, PMTypes
  <2>3. SharedTypes' /\ RecTypes'
    BY <1>7 DEF CorePost, SharedTypes, RecTypes, sharedVars, recVars
  <2> QED
    BY <2>1, <2>2, <2>3 DEF Types
<1>8. CASE CoreGetRecognitionId
  <2>1. ServerTypes'
    BY <1>8, MessageTypes, QueueTypes DEF CoreGetRecognitionId, ServerTypes, CoreHandles, sharedVars, pmVars, recVars
  <2>2. SharedTypes' /\ PMTypes' /\ RecTypes'
    BY <1>8 DEF CoreGetRecognitionId, SharedTypes, PMTypes, RecTypes, sharedVars, pmVars, recVars
  <2> QED
    BY <2>1, <2>2 DEF Types
<1>9. CASE CoreResult
  <2>1. ServerTypes'
    <3>1. Head(coreQ) \in Message /\ coreQ' \in Seq(Message)
      BY <1>9, QueueTypes DEF CoreResult, CoreHandles, ServerTypes
    <3>2. client_map \subseteq Cli
      BY BoundsAssumption DEF client_map, ServerTypes, Cli
    <3>3. Head(coreQ).of \in Nat /\ Head(coreQ).lParam \in Nat
      BY <3>1 DEF Message
    <3>4. sent' \in Seq([to : Cli, of : Nat, slot : Nat, n : Nat])
      <4> DEFINE m == Head(coreQ)
                 result == [to |-> m.wParam, of |-> m.of, slot |-> rects_mapping, n |-> m.lParam]
      <4>1. CASE m.wParam \in client_map
        <5>1. result \in [to : Cli, of : Nat, slot : Nat, n : Nat]
          BY <3>2, <3>3, <4>1 DEF SharedTypes
        <5>2. sent' = Append(sent, result)
          BY <1>9, <4>1 DEF CoreResult
        <5> HIDE DEF result
        <5> QED
          BY <5>1, <5>2 DEF ServerTypes
      <4>2. CASE m.wParam \notin client_map
        BY <1>9, <4>2 DEF CoreResult, ServerTypes
      <4> QED
        BY <4>1, <4>2
    <3> QED
      BY <1>9, <3>1, <3>4 DEF CoreResult, ServerTypes
  <2>2. SharedTypes' /\ PMTypes' /\ RecTypes'
    BY <1>9 DEF CoreResult, SharedTypes, PMTypes, RecTypes, sharedVars, pmVars, recVars
  <2> QED
    BY <2>1, <2>2 DEF Types
<1>10. CASE CoreDisconnect
  <2>1. ServerTypes'
    BY <1>10, MessageTypes, QueueTypes DEF CoreDisconnect, ServerTypes, CoreHandles, sharedVars, recVars
  <2>2. PMTypes'
    <3>1. Head(coreQ) \in Message
      BY <1>10, QueueTypes DEF CoreDisconnect, CoreHandles, ServerTypes
    <3>2. Head(coreQ).wParam \in StrayId
      BY <3>1 DEF Message
    <3>3. pmQ' \in Seq(Message)
      BY <1>10, <3>2, MessageTypes, QueueTypes DEF CoreDisconnect, PMTypes
    <3> QED
      BY <1>10, <3>3 DEF CoreDisconnect, PMTypes
  <2>3. SharedTypes' /\ RecTypes'
    BY <1>10 DEF CoreDisconnect, SharedTypes, RecTypes, sharedVars, recVars
  <2> QED
    BY <2>1, <2>2, <2>3 DEF Types
<1>11. CASE CoreError
  <2>1. ServerTypes'
    BY <1>11, MessageTypes, QueueTypes DEF CoreError, ServerTypes, CoreHandles, sharedVars, pmVars, recVars
  <2>2. SharedTypes' /\ PMTypes' /\ RecTypes'
    BY <1>11 DEF CoreError, SharedTypes, PMTypes, RecTypes, sharedVars, pmVars, recVars
  <2> QED
    BY <2>1, <2>2 DEF Types
<1>12. CASE Register
  <2>1. ServerTypes'
    BY <1>12, MessageTypes, QueueTypes DEF Register, ServerTypes, sharedVars, pmVars, recVars
  <2>2. PMTypes'
    BY <1>12, MessageTypes, QueueTypes DEF Register, PMTypes, sharedVars, pmVars, recVars
  <2>3. SharedTypes' /\ RecTypes'
    BY <1>12 DEF Register, SharedTypes, RecTypes, sharedVars, pmVars, recVars
  <2> QED
    BY <2>1, <2>2, <2>3 DEF Types
<1>13. CASE PMMapped
  <2>1. PMTypes'
    BY <1>13, MessageTypes, QueueTypes DEF PMMapped, PMTypes, serverVars, sharedVars, recVars
  <2>2. ServerTypes' /\ SharedTypes' /\ RecTypes'
    BY <1>13 DEF PMMapped, ServerTypes, SharedTypes, RecTypes, serverVars, sharedVars, recVars
  <2> QED
    BY <2>1, <2>2 DEF Types
<1>14. CASE PMNotMapped
  <2>1. ServerTypes'
    BY <1>14, MessageTypes, QueueTypes DEF PMNotMapped, ServerTypes, sharedVars, recVars
  <2>2. PMTypes'
    BY <1>14, MessageTypes, QueueTypes DEF PMNotMapped, PMTypes, sharedVars, recVars
  <2>3. SharedTypes' /\ RecTypes'
    BY <1>14 DEF PMNotMapped, SharedTypes, RecTypes, sharedVars, recVars
  <2> QED
    BY <2>1, <2>2, <2>3 DEF Types
<1>15. CASE PMGetImage
  <2>1. PMTypes'
    BY <1>15, MessageTypes, QueueTypes DEF PMGetImage, PMTypes, PMHandles, serverVars, sharedVars, recVars
  <2>2. ServerTypes' /\ SharedTypes' /\ RecTypes'
    BY <1>15 DEF PMGetImage, ServerTypes, SharedTypes, RecTypes, serverVars, sharedVars, recVars
  <2> QED
    BY <2>1, <2>2 DEF Types
<1>16. CASE PMRead
  <2>1. PMTypes'
    <3>1. file_mapping.body \in Nat /\ Deserialze(file_mapping.hdr) \in Nat
      BY UnsignedRead DEF SharedTypes
    <3>2. vu' \in [of : Nat, len : Nat]
      <4> DEFINE read == [of |-> file_mapping.body, len |-> Deserialze(file_mapping.hdr)]
      <4>1. read \in [of : Nat, len : Nat]
        BY <3>1
      <4>2. vu' \in {vu, read}
        BY <1>16 DEF PMRead
      <4> HIDE DEF read
      <4> QED
        BY <4>1, <4>2 DEF PMTypes
    <3>3. frUp' \in BOOLEAN /\ pmPc' \in {pmPc, "signal"}
      BY <1>16 DEF PMRead, PMTypes
    <3> QED
      BY <1>16, <3>2, <3>3 DEF PMRead, PMTypes
  <2>2. ServerTypes' /\ SharedTypes' /\ RecTypes'
    BY <1>16 DEF PMRead, ServerTypes, SharedTypes, RecTypes, serverVars, sharedVars, recVars
  <2> QED
    BY <2>1, <2>2 DEF Types
<1>17. CASE PMSignal
  <2>1. SharedTypes'
    BY <1>17, MessageTypes, QueueTypes DEF PMSignal, SharedTypes, serverVars, recVars
  <2>2. PMTypes'
    BY <1>17, MessageTypes, QueueTypes DEF PMSignal, PMTypes, serverVars, recVars
  <2>3. ServerTypes' /\ RecTypes'
    BY <1>17 DEF PMSignal, ServerTypes, RecTypes, serverVars, recVars
  <2> QED
    BY <2>1, <2>2, <2>3 DEF Types
<1>18. CASE PMQueue
  <2>1. PMTypes'
    <3>1. pmMsg.wParam \in StrayId /\ vu.of \in Nat /\ vu.len \in Nat
      BY DEF PMTypes, Message
    <3>2. work_queue' \in Seq([cli : StrayId, of : Nat, len : Nat, mat : BOOLEAN])
      <4>1. CASE vu.len = 0
        BY <1>18, <4>1 DEF PMQueue, PMTypes
      <4>2. CASE vu.len # 0
        <5>1. PICK mat \in BOOLEAN :
                work_queue' = Append(work_queue, [cli |-> pmMsg.wParam, of |-> vu.of,
                                                  len |-> vu.len, mat |-> mat])
          BY <1>18, <4>2 DEF PMQueue
        <5> DEFINE w == [cli |-> pmMsg.wParam, of |-> vu.of, len |-> vu.len, mat |-> mat]
        <5>2. w \in [cli : StrayId, of : Nat, len : Nat, mat : BOOLEAN]
          BY <3>1
        <5>3. work_queue' = Append(work_queue, w)
          BY <5>1
        <5> HIDE DEF w
        <5> QED
          BY <5>2, <5>3 DEF PMTypes
      <4> QED
        BY <4>1, <4>2
    <3>3. /\ vu' \in {vu, Nothing} /\ pmMsg' \in {pmMsg, Idle} /\ pmPc' \in {pmPc, "loop"}
          /\ frUp' \in BOOLEAN /\ frMain' = frMain /\ pmQ' = pmQ
      BY <1>18 DEF PMQueue, PMTypes
    <3> QED
      BY <3>2, <3>3, MessageTypes DEF PMTypes, Nothing
  <2>2. ServerTypes' /\ SharedTypes' /\ RecTypes'
    BY <1>18 DEF PMQueue, ServerTypes, SharedTypes, RecTypes, serverVars, sharedVars, recVars
  <2> QED
    BY <2>1, <2>2 DEF Types
<1>19. CASE PMDisconnect
  <2>1. PMTypes'
    BY <1>19, MessageTypes, QueueTypes DEF PMDisconnect, PMTypes, PMHandles, serverVars, sharedVars, recVars
  <2>2. ServerTypes' /\ SharedTypes' /\ RecTypes'
    BY <1>19 DEF PMDisconnect, ServerTypes, SharedTypes, RecTypes, serverVars, sharedVars, recVars
  <2> QED
    BY <2>1, <2>2 DEF Types
<1>20. CASE PMErase
  <2>1. PMTypes'
    BY <1>20, MessageTypes, QueueTypes DEF PMErase, PMTypes, serverVars, sharedVars
  <2>2. RecTypes'
    BY <1>20, MessageTypes, QueueTypes DEF PMErase, RecTypes, serverVars, sharedVars
  <2>3. ServerTypes' /\ SharedTypes'
    BY <1>20 DEF PMErase, ServerTypes, SharedTypes, serverVars, sharedVars
  <2> QED
    BY <2>1, <2>2, <2>3 DEF Types
<1>21. CASE RecPop
  <2>1. RecTypes'
    BY <1>21, MessageTypes, QueueTypes DEF RecPop, RecTypes, serverVars, sharedVars, pmVars
  <2>2. ServerTypes' /\ SharedTypes' /\ PMTypes'
    BY <1>21 DEF RecPop, ServerTypes, SharedTypes, PMTypes, serverVars, sharedVars, pmVars
  <2> QED
    BY <2>1, <2>2 DEF Types
<1>22. CASE RecShow
  <2>1. PMTypes'
    BY <1>22, MessageTypes, QueueTypes DEF RecShow, PMTypes, serverVars, sharedVars, pmVars
  <2>2. RecTypes'
    BY <1>22, MessageTypes, QueueTypes DEF RecShow, RecTypes, serverVars, sharedVars, pmVars
  <2>3. ServerTypes' /\ SharedTypes'
    BY <1>22 DEF RecShow, ServerTypes, SharedTypes, serverVars, sharedVars, pmVars
  <2> QED
    BY <2>1, <2>2, <2>3 DEF Types
<1>23. CASE RecDetect
  <2>1. RecTypes'
    <3>1. ImageOf(Tmp.of).faces \in Nat
      <4>1. Tmp.of \in 1..Len(recv_bufs)
        BY <1>23, TmpNamesBuffer DEF RecDetect
      <4>2. ImageOf(Tmp.of) \in Image
        BY <4>1, PostedHeader
      <4> QED
        BY <4>2, ImageAssumption
    <3> QED
      BY <1>23, <3>1 DEF RecDetect, RecTypes
  <2>2. ServerTypes' /\ SharedTypes' /\ PMTypes'
    BY <1>23 DEF RecDetect, ServerTypes, SharedTypes, PMTypes, serverVars, sharedVars, pmVars
  <2> QED
    BY <2>1, <2>2 DEF Types
<1>24. CASE RecLock
  <2>1. RecTypes'
    BY <1>24, MessageTypes, QueueTypes DEF RecLock, RecTypes, serverVars, sharedVars, pmVars
  <2>2. ServerTypes' /\ SharedTypes' /\ PMTypes'
    BY <1>24 DEF RecLock, ServerTypes, SharedTypes, PMTypes, serverVars, sharedVars, pmVars
  <2> QED
    BY <2>1, <2>2 DEF Types
<1>25. CASE RecUpdate
  <2>1. RecTypes'
    BY <1>25, MessageTypes, QueueTypes DEF RecUpdate, RecTypes, serverVars, sharedVars, pmVars
  <2>2. ServerTypes' /\ SharedTypes' /\ PMTypes'
    BY <1>25 DEF RecUpdate, ServerTypes, SharedTypes, PMTypes, serverVars, sharedVars, pmVars
  <2> QED
    BY <2>1, <2>2 DEF Types
<1>26. CASE RecCopy
  <2>1. SharedTypes'
    BY <1>26 DEF RecCopy, SharedTypes, RecTypes
  <2>2. PMTypes'
    BY <1>26, MessageTypes, QueueTypes DEF RecCopy, PMTypes, serverVars, pmVars
  <2>3. RecTypes'
    <3>1. count' \in Nat \cup {Unassigned}
      <4>1. count' \in {count, 0}
        BY <1>26 DEF RecCopy
      <4> QED
        BY <4>1 DEF RecTypes
    <3> QED
      BY <1>26, <3>1 DEF RecCopy, RecTypes
  <2>4. ServerTypes'
    BY <1>26 DEF RecCopy, ServerTypes, serverVars, pmVars
  <2> QED
    BY <2>1, <2>2, <2>3, <2>4 DEF Types
<1>27. CASE RecPost
  <2>1. ServerTypes'
    <3>1. stray.core \in StrayId /\ count \in Nat /\ popped \in Nat
      BY <1>27 DEF RecPost, RecTypes, Names, RecNames
    <3>2. coreQ' \in Seq(Message)
      BY <1>27, <3>1, MessageTypes, QueueTypes DEF RecPost, ServerTypes
    <3> QED
      BY <1>27, <3>2 DEF RecPost, ServerTypes
  <2>2. RecTypes'
    BY <1>27, MessageTypes, QueueTypes DEF RecPost, RecTypes, sharedVars, pmVars
  <2>3. SharedTypes' /\ PMTypes'
    BY <1>27 DEF RecPost, SharedTypes, PMTypes, sharedVars, pmVars
  <2> QED
    BY <2>1, <2>2, <2>3 DEF Types
<1>28. CASE OperatorKey
  <2>1. RecTypes'
    BY <1>28, MessageTypes, QueueTypes DEF OperatorKey, RecTypes, serverVars, sharedVars, pmVars
  <2>2. ServerTypes' /\ SharedTypes' /\ PMTypes'
    BY <1>28 DEF OperatorKey, ServerTypes, SharedTypes, PMTypes, serverVars, sharedVars, pmVars
  <2> QED
    BY <2>1, <2>2 DEF Types
<1>29. CASE UNCHANGED vars
  BY <1>29 DEF vars, serverVars, sharedVars, pmVars, recVars, Types, ServerTypes, SharedTypes, PMTypes, RecTypes
<1> QED
  BY <1>1, <1>2, <1>3, <1>4, <1>5, <1>6, <1>7, <1>8, <1>9, <1>10, <1>11, <1>12, <1>13, <1>14, <1>15, <1>16, <1>17, <1>18, <1>19, <1>20, <1>21, <1>22, <1>23, <1>24, <1>25, <1>26, <1>27, <1>28, <1>29
  DEF Next, IOThreads, ServerCore, ProcessMessage, RecognitionCore

(* What is in a queue after a post and after a take. *)
LEMMA QueueRange ==
  \A q \in Seq(Message) :
    /\ \A m \in Message : Range(Append(q, m)) = Range(q) \cup {m}
    /\ q # <<>> => Head(q) \in Range(q) /\ Range(Tail(q)) \subseteq Range(q)
    /\ Range(q) \subseteq Message
BY DEF Range

(* A message the receiver knows may be posted to it, or get lost. *)
LEMMA PostToCore ==
  ASSUME Types, CoreNames, NEW m \in Message, CoreKnows(m),
         coreQ' = coreQ \/ coreQ' = Append(coreQ, m),
         UNCHANGED <<recv_bufs, popped, corePc, coreMsg>>
  PROVE  CoreNames'
<1>1. \A x \in Range(coreQ') : x = m \/ x \in Range(coreQ)
  <2>1. CASE coreQ' = coreQ
    BY <2>1
  <2>2. CASE coreQ' = Append(coreQ, m)
    BY <2>2, QueueRange DEF Types, ServerTypes
  <2> QED
    BY <2>1, <2>2
<1> QED
  BY <1>1 DEF CoreNames, CoreKnows, NamesBuffer

LEMMA PostToPM ==
  ASSUME Types, PMNames, NEW m \in Message, PMKnows(m),
         pmQ' = pmQ \/ pmQ' = Append(pmQ, m),
         UNCHANGED <<recv_bufs, pmPc, pmMsg>>
  PROVE  PMNames'
<1>1. \A x \in Range(pmQ') : x = m \/ x \in Range(pmQ)
  <2>1. CASE pmQ' = pmQ
    BY <2>1
  <2>2. CASE pmQ' = Append(pmQ, m)
    BY <2>2, QueueRange DEF Types, PMTypes
  <2> QED
    BY <2>1, <2>2
<1> QED
  BY <1>1 DEF PMNames, PMKnows, PMHolds, NamesBuffer

(* Buffers keep their names when another one is posted. *)
LEMMA BufsGrow ==
  ASSUME Types, NEW r \in [cli : Cli, img : Image], recv_bufs' = Append(recv_bufs, r)
  PROVE  /\ Len(recv_bufs') = Len(recv_bufs) + 1 /\ Len(recv_bufs) \in Nat
         /\ recv_bufs'[Len(recv_bufs')] = r
         /\ \A b \in 1..Len(recv_bufs) : b \in 1..Len(recv_bufs') /\ recv_bufs'[b] = recv_bufs[b]
BY DEF Types, ServerTypes

(* Initially no message is on its way. *)
LEMMA InitNames == Init => Names
BY DEF Init, Names, CoreNames, PMNames, DataNames, RecNames, PMHolds, Nothing, Range

(* Every message posted is one the receiver knows, about a buffer that exists. *)
LEMMA StepNames == Types /\ Names /\ [Next]_vars => Names'
<1> SUFFICES ASSUME Types, Names, [Next]_vars PROVE Names'
  OBVIOUS
<1> USE DEF Types, Names
<1>1. ASSUME NEW c \in 1..client_id, NEW img \in Image, PostImage(c, img)
      PROVE  Names'
  <2>1. CoreNames'
    <3> DEFINE r == [cli |-> c, img |-> img]
               m == Msg("WM_IMAGE", c, Len(recv_bufs'), Len(recv_bufs'))
    <3>1. c \in Cli /\ c \in StrayId
      BY BoundsAssumption DEF ServerTypes, Cli, StrayId
    <3>2. r \in [cli : Cli, img : Image] /\ recv_bufs' = Append(recv_bufs, r)
      BY <1>1, <3>1 DEF PostImage
    <3> HIDE DEF r
    <3>3. /\ Len(recv_bufs') = Len(recv_bufs) + 1 /\ Len(recv_bufs) \in Nat
          /\ recv_bufs'[Len(recv_bufs')] = r
          /\ \A b \in 1..Len(recv_bufs) : b \in 1..Len(recv_bufs') /\ recv_bufs'[b] = recv_bufs[b]
      BY <3>2, BufsGrow
    <3>4. \A x : CoreKnows(x) => CoreKnows(x)'
      BY <1>1, <3>3 DEF PostImage, CoreKnows, NamesBuffer, recVars
    <3>5. m \in Message
      BY <3>1, <3>3, MessageTypes
    <3>6. \A x : x = m => CoreKnows(x)'
      BY <3>3 DEF CoreKnows, NamesBuffer, Msg, MessageType, r
    <3>7. \A x \in Range(coreQ') : x = m \/ x \in Range(coreQ)
      <4>1. coreQ' = Append(coreQ, m)
        BY <1>1 DEF PostImage
      <4> HIDE DEF m
      <4> QED
        BY <3>5, <4>1, QueueRange DEF ServerTypes
    <3>8. corePc' = corePc /\ coreMsg' = coreMsg
      BY <1>1 DEF PostImage
    <3>9. \A x \in Range(coreQ') : CoreKnows(x)'
      BY <3>4, <3>6, <3>7 DEF CoreNames
    <3>10. corePc # "loop" => coreMsg.type = "WM_IMAGE" /\ CoreKnows(coreMsg)'
      BY <1>1, <3>3 DEF CoreNames, CoreKnows, NamesBuffer, PostImage, recVars
    <3> QED
      BY <3>8, <3>9, <3>10 DEF CoreNames
  <2>2. PMNames'
    BY <1>1, MessageTypes, QueueTypes, QueueRange DEF PostImage, PMNames, PMKnows, NamesBuffer, PMHolds, ServerTypes, PMTypes, RecTypes, sharedVars, pmVars, recVars
  <2>3. DataNames'
    <3>1. Len(recv_bufs') >= Len(recv_bufs) /\ Len(recv_bufs) \in Nat /\ Len(recv_bufs') \in Nat
      BY <1>1 DEF PostImage, ServerTypes
    <3>2. \A w \in Range(work_queue) : w.of \in Nat
      <4>1. \A k \in 1..Len(work_queue) :
              work_queue[k] \in [cli : StrayId, of : Nat, len : Nat, mat : BOOLEAN]
        BY ElementOfSeq DEF PMTypes
      <4>2. DOMAIN work_queue = 1..Len(work_queue)
        BY DEF PMTypes
      <4> QED
        BY <4>1, <4>2 DEF Range
    <3> QED
      BY <1>1, <3>1, <3>2 DEF PostImage, DataNames, SharedTypes, PMTypes, sharedVars, pmVars
  <2>4. RecNames'
    BY <1>1 DEF PostImage, RecNames, Tmp, sharedVars, pmVars, recVars
  <2> QED
    BY <2>1, <2>2, <2>3, <2>4 DEF Names
<1>2. CASE Accept
  <2>1. CoreNames' /\ PMNames' /\ DataNames' /\ RecNames'
    BY <1>2 DEF Accept, CoreNames, CoreKnows, NamesBuffer, PMNames, PMKnows, PMHolds, DataNames, RecNames, Tmp, sharedVars, pmVars, recVars
  <2> QED
    BY <2>1 DEF Names
<1>3. CASE PostDisconnect
  <2>1. CoreNames'
    <3>1. Msg("WM_CLIENT_DISCONNECT", client_id, 0, 0) \in Message
      BY MessageTypes DEF ServerTypes, RecTypes
    <3>2. CoreKnows(Msg("WM_CLIENT_DISCONNECT", client_id, 0, 0))
      BY DEF CoreKnows, Msg, MessageType
    <3> QED
      BY <1>3, <3>1, <3>2, PostToCore DEF PostDisconnect, recVars
  <2>2. PMNames' /\ DataNames' /\ RecNames'
    BY <1>3 DEF PostDisconnect, PMNames, PMKnows, NamesBuffer, PMHolds, DataNames, RecNames, Tmp, sharedVars, pmVars, recVars
  <2> QED
    BY <2>1, <2>2 DEF Names
<1>4. CASE CoreGetImage
  <2>1. CoreNames'
    BY <1>4, MessageTypes, QueueTypes, QueueRange DEF CoreGetImage, CoreNames, CoreKnows, NamesBuffer, CoreHandles, ServerTypes, PMTypes, RecTypes, sharedVars, pmVars, recVars
  <2>2. PMNames' /\ DataNames' /\ RecNames'
    BY <1>4 DEF CoreGetImage, PMNames, PMKnows, NamesBuffer, PMHolds, DataNames, RecNames, Tmp, sharedVars, pmVars, recVars
  <2> QED
    BY <2>1, <2>2 DEF Names
<1>5. CASE CoreWait
  <2>1. CoreNames'
    BY <1>5, MessageTypes, QueueTypes, QueueRange DEF CoreWait, CoreNames, CoreKnows, NamesBuffer, ServerTypes, PMTypes, RecTypes, pmVars, recVars
  <2>2. PMNames' /\ DataNames' /\ RecNames'
    BY <1>5 DEF CoreWait, PMNames, PMKnows, NamesBuffer, PMHolds, DataNames, RecNames, Tmp, pmVars, recVars
  <2> QED
    BY <2>1, <2>2 DEF Names
<1>6. CASE CoreCopy
  <2>1. CoreNames'
    BY <1>6, MessageTypes, QueueTypes, QueueRange DEF CoreCopy, CoreNames, CoreKnows, NamesBuffer, ServerTypes, PMTypes, RecTypes, pmVars, recVars
  <2>2. DataNames'
    <3>1. coreMsg.lParam <= Len(recv_bufs)
      BY <1>6 DEF CoreCopy, CoreNames, CoreKnows, NamesBuffer
    <3>2. file_mapping'.body \in {file_mapping.body, coreMsg.lParam}
      <4>1. \A n : Overlay(coreMsg.lParam, n).body \in {file_mapping.body, coreMsg.lParam}
        BY DEF Overlay
      <4> QED
        BY <1>6, <4>1 DEF CoreCopy
    <3> QED
      BY <1>6, <3>1, <3>2 DEF CoreCopy, DataNames, pmVars
  <2>3. PMNames' /\ RecNames'
    BY <1>6 DEF CoreCopy, PMNames, PMKnows, NamesBuffer, PMHolds, RecNames, Tmp, pmVars, recVars
  <2> QED
    BY <2>1, <2>2, <2>3 DEF Names
<1>7. CASE CorePost
  <2>1. CoreNames'
    BY <1>7, MessageTypes, QueueTypes, QueueRange DEF CorePost, CoreNames, CoreKnows, NamesBuffer, ServerTypes, PMTypes, RecTypes, sharedVars, recVars
  <2>2. PMNames'
    <3> DEFINE m == Msg("WM_IMAGE", coreMsg.wParam, 0, coreMsg.of)
    <3>1. m \in Message
      BY MessageTypes DEF ServerTypes, Message
    <3>2. PMKnows(m)
      BY <1>7 DEF CorePost, CoreNames, CoreKnows, PMKnows, NamesBuffer, Msg
    <3> QED
      BY <1>7, <3>1, <3>2, PostToPM DEF CorePost
  <2>3. DataNames' /\ RecNames'
    BY <1>7 DEF CorePost, DataNames, RecNames, Tmp, sharedVars, recVars
  <2> QED
    BY <2>1, <2>2, <2>3 DEF Names
<1>8. CASE CoreGetRecognitionId
  <2>1. CoreNames'
    BY <1>8, MessageTypes, QueueTypes, QueueRange DEF CoreGetRecognitionId, CoreNames, CoreKnows, NamesBuffer, CoreHandles, ServerTypes, PMTypes, RecTypes, sharedVars, pmVars, recVars
  <2>2. PMNames' /\ DataNames' /\ RecNames'
    BY <1>8 DEF CoreGetRecognitionId, PMNames, PMKnows, NamesBuffer, PMHolds, DataNames, RecNames, Tmp, sharedVars, pmVars, recVars
  <2> QED
    BY <2>1, <2>2 DEF Names
<1>9. CASE CoreResult
  <2>1. CoreNames'
    BY <1>9, MessageTypes, QueueTypes, QueueRange DEF CoreResult, CoreNames, CoreKnows, NamesBuffer, CoreHandles, ServerTypes, PMTypes, RecTypes, sharedVars, pmVars, recVars
  <2>2. PMNames' /\ DataNames' /\ RecNames'
    BY <1>9 DEF CoreResult, PMNames, PMKnows, NamesBuffer, PMHolds, DataNames, RecNames, Tmp, sharedVars, pmVars, recVars
  <2> QED
    BY <2>1, <2>2 DEF Names
<1>10. CASE CoreDisconnect
  <2>1. CoreNames'
    BY <1>10, MessageTypes, QueueTypes, QueueRange DEF CoreDisconnect, CoreNames, CoreKnows, NamesBuffer, CoreHandles, ServerTypes, PMTypes, RecTypes, sharedVars, recVars
  <2>2. PMNames'
    <3> DEFINE m == Msg("WM_CLIENT_DISCONNECT", Head(coreQ).wParam, 0, 0)
    <3>1. Head(coreQ).wParam \in StrayId
      BY <1>10, QueueTypes DEF CoreDisconnect, CoreHandles, ServerTypes, Message
    <3>2. m \in Message
      BY <3>1, MessageTypes
    <3>3. PMKnows(m)
      BY DEF PMKnows, Msg
    <3> QED
      BY <1>10, <3>2, <3>3, PostToPM DEF CoreDisconnect
  <2>3. DataNames' /\ RecNames'
    BY <1>10 DEF CoreDisconnect, DataNames, RecNames, Tmp, sharedVars, recVars
  <2> QED
    BY <2>1, <2>2, <2>3 DEF Names
<1>11. CASE CoreError
  <2>1. CoreNames'
    BY <1>11, MessageTypes, QueueTypes, QueueRange DEF CoreError, CoreNames, CoreKnows, NamesBuffer, CoreHandles, ServerTypes, PMTypes, RecTypes, sharedVars, pmVars, recVars
  <2>2. PMNames' /\ DataNames' /\ RecNames'
    BY <1>11 DEF CoreError, PMNames, PMKnows, NamesBuffer, PMHolds, DataNames, RecNames, Tmp, sharedVars, pmVars, recVars
  <2> QED
    BY <2>1, <2>2 DEF Names
<1>12. CASE Register
  <2>1. CoreNames'
    <3>1. Msg("WM_GET_RECOGNITION_ID", 0, 0, 0) \in Message
      BY MessageTypes DEF ServerTypes, RecTypes
    <3>2. CoreKnows(Msg("WM_GET_RECOGNITION_ID", 0, 0, 0))
      BY DEF CoreKnows, Msg, MessageType
    <3> QED
      BY <1>12, <3>1, <3>2, PostToCore DEF Register, recVars
  <2>2. PMNames' /\ DataNames' /\ RecNames'
    BY <1>12 DEF Register, PMNames, PMKnows, NamesBuffer, PMHolds, DataNames, RecNames, Tmp, sharedVars, pmVars, recVars
  <2> QED
    BY <2>1, <2>2 DEF Names
<1>13. CASE PMMapped
  <2>1. PMNames'
    BY <1>13, MessageTypes, QueueTypes, QueueRange DEF PMMapped, PMNames, PMKnows, NamesBuffer, PMHolds, ServerTypes, PMTypes, RecTypes, serverVars, sharedVars, recVars
  <2>2. CoreNames' /\ DataNames' /\ RecNames'
    BY <1>13 DEF PMMapped, CoreNames, CoreKnows, NamesBuffer, DataNames, RecNames, Tmp, serverVars, sharedVars, recVars
  <2> QED
    BY <2>1, <2>2 DEF Names
<1>14. CASE PMNotMapped
  <2>1. CoreNames'
    <3>1. Msg("WM_RECOGNITION_ERROR", 0, 0, 0) \in Message
      BY MessageTypes DEF ServerTypes, RecTypes
    <3>2. CoreKnows(Msg("WM_RECOGNITION_ERROR", 0, 0, 0))
      BY DEF CoreKnows, Msg, MessageType
    <3> QED
      BY <1>14, <3>1, <3>2, PostToCore DEF PMNotMapped, recVars
  <2>2. PMNames'
    BY <1>14, MessageTypes, QueueTypes, QueueRange DEF PMNotMapped, PMNames, PMKnows, NamesBuffer, PMHolds, ServerTypes, PMTypes, RecTypes, sharedVars, recVars
  <2>3. DataNames' /\ RecNames'
    BY <1>14 DEF PMNotMapped, DataNames, RecNames, Tmp, sharedVars, recVars
  <2> QED
    BY <2>1, <2>2, <2>3 DEF Names
<1>15. CASE PMGetImage
  <2>1. PMNames'
    BY <1>15, MessageTypes, QueueTypes, QueueRange DEF PMGetImage, PMNames, PMKnows, NamesBuffer, PMHolds, PMHandles, ServerTypes, PMTypes, RecTypes, serverVars, sharedVars, recVars
  <2>2. CoreNames' /\ DataNames' /\ RecNames'
    BY <1>15 DEF PMGetImage, CoreNames, CoreKnows, NamesBuffer, DataNames, RecNames, Tmp, serverVars, sharedVars, recVars
  <2> QED
    BY <2>1, <2>2 DEF Names
<1>16. CASE PMRead
  <2>1. PMNames'
    BY <1>16, MessageTypes, QueueTypes, QueueRange DEF PMRead, PMNames, PMKnows, NamesBuffer, PMHolds, ServerTypes, PMTypes, RecTypes, serverVars, sharedVars, recVars
  <2>2. DataNames'
    <3>1. vu'.of \in {vu.of, file_mapping.body}
      <4>1. CASE Deserialze(file_mapping.hdr) + 4 <= IPC_BUFF_SIZE
        BY <1>16, <4>1 DEF PMRead
      <4>2. CASE ~(Deserialze(file_mapping.hdr) + 4 <= IPC_BUFF_SIZE)
        BY <1>16, <4>2 DEF PMRead
      <4> QED
        BY <4>1, <4>2
    <3> QED
      BY <1>16, <3>1 DEF PMRead, DataNames, serverVars, sharedVars
  <2>3. CoreNames' /\ RecNames'
    BY <1>16 DEF PMRead, CoreNames, CoreKnows, NamesBuffer, RecNames, Tmp, serverVars, sharedVars, recVars
  <2> QED
    BY <2>1, <2>2, <2>3 DEF Names
<1>17. CASE PMSignal
  <2>1. PMNames'
    BY <1>17, MessageTypes, QueueTypes, QueueRange DEF PMSignal, PMNames, PMKnows, NamesBuffer, PMHolds, ServerTypes, PMTypes, RecTypes, serverVars, recVars
  <2>2. CoreNames' /\ DataNames' /\ RecNames'
    BY <1>17 DEF PMSignal, CoreNames, CoreKnows, NamesBuffer, DataNames, RecNames, Tmp, serverVars, recVars
  <2> QED
    BY <2>1, <2>2 DEF Names
<1>18. CASE PMQueue
  <2>1. PMNames'
    BY <1>18, MessageTypes, QueueTypes, QueueRange DEF PMQueue, PMNames, PMKnows, NamesBuffer, PMHolds, ServerTypes, PMTypes, RecTypes, serverVars, sharedVars, recVars
  <2>2. DataNames'
    <3>1. \A w \in Range(work_queue') :
            w \in Range(work_queue) \/ (w.of = vu.of /\ (w.mat => vu.of # 0))
      <4>1. CASE vu.len = 0
        BY <1>18, <4>1 DEF PMQueue
      <4>2. CASE vu.len # 0
        <5>1. PICK mat \in BOOLEAN :
                /\ Decoded(vu, mat)
                /\ work_queue' = Append(work_queue, [cli |-> pmMsg.wParam, of |-> vu.of,
                                                     len |-> vu.len, mat |-> mat])
          BY <1>18, <4>2 DEF PMQueue
        <5>2. mat => vu.of # 0
          BY <5>1 DEF Decoded
        <5>3. \A w \in Range(work_queue') :
                w \in Range(work_queue) \/ w = [cli |-> pmMsg.wParam, of |-> vu.of,
                                                len |-> vu.len, mat |-> mat]
          BY <5>1 DEF Range, PMTypes
        <5> QED
          BY <5>2, <5>3
      <4> QED
        BY <4>1, <4>2
    <3>2. vu'.of \in {vu.of, 0} /\ vu.of \in Nat
      <4>1. vu' \in {vu, Nothing}
        BY <1>18 DEF PMQueue
      <4> QED
        BY <4>1 DEF PMTypes, Nothing
    <3>3. Len(recv_bufs) \in Nat
      BY DEF ServerTypes
    <3> QED
      BY <1>18, <3>1, <3>2, <3>3 DEF PMQueue, DataNames, serverVars, sharedVars
  <2>3. RecNames'
    <3>1. /\ Len(work_queue) \in Nat /\ Len(work_queue') \in Nat /\ Len(work_queue') >= Len(work_queue)
          /\ \A k \in 1..Len(work_queue) : work_queue'[k] = work_queue[k]
      <4>1. work_queue' = work_queue \/ \E w : work_queue' = Append(work_queue, w)
        BY <1>18 DEF PMQueue
      <4> QED
        BY <4>1 DEF PMTypes
    <3>2. UNCHANGED <<popped, recPc, count, rects_mapping>>
      BY <1>18 DEF PMQueue, recVars, sharedVars
    <3>3. popped > 0 => popped \in 1..Len(work_queue)
      BY <3>1 DEF RecNames, RecTypes
    <3> QED
      BY <3>1, <3>2, <3>3 DEF RecNames, RecTypes, Tmp
  <2>4. CoreNames'
    BY <1>18 DEF PMQueue, CoreNames, CoreKnows, NamesBuffer, serverVars, sharedVars, recVars
  <2> QED
    BY <2>1, <2>2, <2>3, <2>4 DEF Names
<1>19. CASE PMDisconnect
  <2>1. PMNames'
    BY <1>19, MessageTypes, QueueTypes, QueueRange DEF PMDisconnect, PMNames, PMKnows, NamesBuffer, PMHolds, PMHandles, ServerTypes, PMTypes, RecTypes, serverVars, sharedVars, recVars
  <2>2. CoreNames' /\ DataNames' /\ RecNames'
    BY <1>19 DEF PMDisconnect, CoreNames, CoreKnows, NamesBuffer, DataNames, RecNames, Tmp, serverVars, sharedVars, recVars
  <2> QED
    BY <2>1, <2>2 DEF Names
<1>20. CASE PMErase
  <2>1. PMNames'
    BY <1>20, MessageTypes, QueueTypes, QueueRange DEF PMErase, PMNames, PMKnows, NamesBuffer, PMHolds, ServerTypes, PMTypes, RecTypes, serverVars, sharedVars
  <2>2. CoreNames' /\ DataNames' /\ RecNames'
    BY <1>20 DEF PMErase, CoreNames, CoreKnows, NamesBuffer, DataNames, RecNames, Tmp, serverVars, sharedVars
  <2> QED
    BY <2>1, <2>2 DEF Names
<1>21. CASE RecPop
  <2>1. CoreNames'
    <3>1. popped' = popped + 1 /\ popped \in Nat
      BY <1>21 DEF RecPop, RecTypes
    <3>2. UNCHANGED <<coreQ, corePc, coreMsg, recv_bufs>>
      BY <1>21 DEF RecPop, serverVars
    <3>3. 1..popped \subseteq 1..popped'
      BY <3>1
    <3> QED
      BY <3>2, <3>3 DEF CoreNames, CoreKnows, NamesBuffer
  <2>2. RecNames'
    <3>1. popped' = popped + 1 /\ popped \in Nat /\ recPc' = "show" /\ popped < Len(work_queue)
      BY <1>21 DEF RecPop, RecTypes
    <3>2. UNCHANGED <<work_queue, rects_mapping>> /\ rects_mapping \in Nat /\ Len(work_queue) \in Nat
      BY <1>21 DEF RecPop, pmVars, sharedVars, SharedTypes, PMTypes
    <3> QED
      BY <3>1, <3>2 DEF RecNames
  <2>3. PMNames' /\ DataNames'
    BY <1>21 DEF RecPop, PMNames, PMKnows, NamesBuffer, PMHolds, DataNames, serverVars, sharedVars, pmVars
  <2> QED
    BY <2>1, <2>2, <2>3 DEF Names
<1>22. CASE RecShow
  <2>1. RecNames'
    BY <1>22, MessageTypes, QueueTypes, QueueRange DEF RecShow, RecNames, Tmp, ServerTypes, PMTypes, RecTypes, serverVars, sharedVars, pmVars
  <2>2. CoreNames' /\ PMNames' /\ DataNames'
    BY <1>22 DEF RecShow, CoreNames, CoreKnows, NamesBuffer, PMNames, PMKnows, PMHolds, DataNames, serverVars, sharedVars, pmVars
  <2> QED
    BY <2>1, <2>2 DEF Names
<1>23. CASE RecDetect
  <2>1. RecNames'
    BY <1>23, MessageTypes, QueueTypes, QueueRange DEF RecDetect, RecNames, Tmp, ServerTypes, PMTypes, RecTypes, serverVars, sharedVars, pmVars
  <2>2. CoreNames' /\ PMNames' /\ DataNames'
    BY <1>23 DEF RecDetect, CoreNames, CoreKnows, NamesBuffer, PMNames, PMKnows, PMHolds, DataNames, serverVars, sharedVars, pmVars
  <2> QED
    BY <2>1, <2>2 DEF Names
<1>24. CASE RecLock
  <2>1. RecNames'
    BY <1>24, MessageTypes, QueueTypes, QueueRange DEF RecLock, RecNames, Tmp, ServerTypes, PMTypes, RecTypes, serverVars, sharedVars, pmVars
  <2>2. CoreNames' /\ PMNames' /\ DataNames'
    BY <1>24 DEF RecLock, CoreNames, CoreKnows, NamesBuffer, PMNames, PMKnows, PMHolds, DataNames, serverVars, sharedVars, pmVars
  <2> QED
    BY <2>1, <2>2 DEF Names
<1>25. CASE RecUpdate
  <2>1. RecNames'
    BY <1>25, MessageTypes, QueueTypes, QueueRange DEF RecUpdate, RecNames, Tmp, ServerTypes, PMTypes, RecTypes, serverVars, sharedVars, pmVars
  <2>2. CoreNames' /\ PMNames' /\ DataNames'
    BY <1>25 DEF RecUpdate, CoreNames, CoreKnows, NamesBuffer, PMNames, PMKnows, PMHolds, DataNames, serverVars, sharedVars, pmVars
  <2> QED
    BY <2>1, <2>2 DEF Names
<1>26. CASE RecCopy
  <2>1. RecNames'
    <3>1. rects_mapping' \in {rects_mapping, popped} /\ popped' = popped /\ work_queue' = work_queue
      BY <1>26 DEF RecCopy, pmVars
    <3>2. recPc' = "post" => count' \in Nat
      <4>1. count # Unassigned => count \in Nat
        BY DEF RecTypes
      <4>2. \/ count # Unassigned /\ count' = count
            \/ count' = 0
            \/ recPc' = "copy"
        BY <1>26 DEF RecCopy
      <4> QED
        BY <4>1, <4>2
    <3>3. recPc = "copy"
      BY <1>26 DEF RecCopy
    <3> QED
      BY <3>1, <3>2, <3>3 DEF RecNames, RecTypes, Tmp
  <2>2. CoreNames' /\ PMNames' /\ DataNames'
    BY <1>26 DEF RecCopy, CoreNames, CoreKnows, NamesBuffer, PMNames, PMKnows, PMHolds, DataNames, serverVars, pmVars
  <2> QED
    BY <2>1, <2>2 DEF Names
<1>27. CASE RecPost
  <2>1. CoreNames'
    <3>1. Msg("WM_RESULT_DECTIVE", stray.core, count, popped) \in Message
      BY <1>27, MessageTypes DEF RecPost, RecNames, RecTypes
    <3>2. CoreKnows(Msg("WM_RESULT_DECTIVE", stray.core, count, popped))
      BY <1>27 DEF CoreKnows, Msg, MessageType, RecPost, RecNames, RecTypes
    <3> QED
      BY <1>27, <3>1, <3>2, PostToCore DEF RecPost, recVars
  <2>2. RecNames'
    BY <1>27, MessageTypes, QueueTypes, QueueRange DEF RecPost, RecNames, Tmp, ServerTypes, PMTypes, RecTypes, sharedVars, pmVars
  <2>3. PMNames' /\ DataNames'
    BY <1>27 DEF RecPost, PMNames, PMKnows, NamesBuffer, PMHolds, DataNames, sharedVars, pmVars
  <2> QED
    BY <2>1, <2>2, <2>3 DEF Names
<1>28. CASE OperatorKey
  <2>1. RecNames'
    BY <1>28, MessageTypes, QueueTypes, QueueRange DEF OperatorKey, RecNames, Tmp, ServerTypes, PMTypes, RecTypes, serverVars, sharedVars, pmVars
  <2>2. CoreNames' /\ PMNames' /\ DataNames'
    BY <1>28 DEF OperatorKey, CoreNames, CoreKnows, NamesBuffer, PMNames, PMKnows, PMHolds, DataNames, serverVars, sharedVars, pmVars
  <2> QED
    BY <2>1, <2>2 DEF Names
<1>29. CASE UNCHANGED vars
  BY <1>29 DEF vars, serverVars, sharedVars, pmVars, recVars, Names, CoreNames, CoreKnows, NamesBuffer,
     PMNames, PMKnows, PMHolds, DataNames, RecNames, Tmp
<1> QED
  BY <1>1, <1>2, <1>3, <1>4, <1>5, <1>6, <1>7, <1>8, <1>9, <1>10, <1>11, <1>12, <1>13, <1>14, <1>15, <1>16, <1>17, <1>18, <1>19, <1>20, <1>21, <1>22, <1>23, <1>24, <1>25, <1>26, <1>27, <1>28, <1>29
  DEF Next, IOThreads, ServerCore, ProcessMessage, RecognitionCore

(* Type invariant: what the switch of each thread receives is always one of  *)
(* its messages, and names a buffer or a WorkInfo that exists.               *)
THEOREM TypeCorrect == Spec => []TypeOK
<1>1. Init => TypeOK
  BY InitTypes, InitNames DEF TypeOK
<1>2. TypeOK /\ [Next]_vars => TypeOK'
  BY StepTypes, StepNames DEF TypeOK
<1> QED
  BY <1>1, <1>2, PTL DEF Spec

------------------------------------------------------------------------------
(* Who has the section of the images. *)

(* Where the WM_IMAGE messages of a queue are after a post and after a take. *)
LEMMA ImageAtAppend ==
  ASSUME NEW q \in Seq(Message), NEW m \in Message
  PROVE  /\ ImageAt(Append(q, m)) = IF m.type = "WM_IMAGE" THEN ImageAt(q) \cup {Len(q) + 1}
                                                           ELSE ImageAt(q)
         /\ \A i \in ImageAt(q) : Append(q, m)[i] = q[i] /\ i # Len(q) + 1
         /\ Append(q, m)[Len(q) + 1] = m
<1>1. /\ Len(Append(q, m)) = Len(q) + 1 /\ Len(q) \in Nat
      /\ \A i \in 1..Len(q) : Append(q, m)[i] = q[i]
      /\ Append(q, m)[Len(q) + 1] = m
  OBVIOUS
<1>2. CASE m.type = "WM_IMAGE"
  BY <1>1, <1>2 DEF ImageAt
<1>3. CASE m.type # "WM_IMAGE"
  BY <1>1, <1>3 DEF ImageAt
<1> QED
  BY <1>1, <1>2, <1>3 DEF ImageAt

LEMMA ImageAtTail ==
  ASSUME NEW q \in Seq(Message), q # <<>>
  PROVE  /\ \A i \in ImageAt(Tail(q)) : i + 1 \in ImageAt(q) /\ Tail(q)[i] = q[i + 1] /\ i \in Nat \ {0}
         /\ \A i \in ImageAt(q) : i = 1 \/ i - 1 \in ImageAt(Tail(q))
         /\ 1 \in ImageAt(q) <=> Head(q).type = "WM_IMAGE"
         /\ Head(q) = q[1]
<1>1. /\ Len(Tail(q)) = Len(q) - 1 /\ Len(q) \in Nat \ {0} /\ Head(q) = q[1]
      /\ \A i \in 1..Len(Tail(q)) : Tail(q)[i] = q[i + 1]
  OBVIOUS
<1> QED
  BY <1>1 DEF ImageAt

(* Nothing else than these variables decides who owns the section. *)
LEMMA OwnerUnchanged ==
  ASSUME OneOwner, UNCHANGED <<file_mapping_op_finish, corePc, pmPc, pmQ>>
  PROVE  OneOwner'
BY DEF OneOwner, InTransit, ImageAt, CoreOwns, PMOwns

(* Ownership passes from one to the next and is never held twice: only these *)
(* steps hand it on, every other step leaves the lock alone.                 *)
LEMMA StepOwner == TypeOK /\ OneOwner /\ [Next]_vars => OneOwner'
<1> SUFFICES ASSUME Types, OneOwner, [Next]_vars PROVE OneOwner'
  BY DEF TypeOK
<1>1. ASSUME NEW c \in 1..client_id, NEW img \in Image, PostImage(c, img)
      PROVE  OneOwner'
  BY <1>1, OwnerUnchanged DEF PostImage, sharedVars, pmVars
<1>2. CASE Accept
  BY <1>2, OwnerUnchanged DEF Accept, serverVars, sharedVars, pmVars
<1>3. CASE PostDisconnect
  BY <1>3, OwnerUnchanged DEF PostDisconnect, serverVars, sharedVars, pmVars
<1>4. CASE CoreGetImage
  BY <1>4 DEF CoreGetImage, CoreHandles, OneOwner, InTransit, CoreOwns, PMOwns, sharedVars, pmVars
<1>5. CASE CoreWait
  BY <1>5 DEF CoreWait, OneOwner, InTransit, CoreOwns, PMOwns, pmVars
<1>6. CASE CoreCopy
  BY <1>6 DEF CoreCopy, OneOwner, InTransit, CoreOwns, PMOwns, pmVars
<1>7. CASE CorePost
  <2>1. CoreOwns /\ InTransit = {} /\ ~PMOwns /\ ~file_mapping_op_finish
    BY <1>7 DEF CorePost, OneOwner, CoreOwns
  <2>2. ~CoreOwns' /\ ~PMOwns' /\ ~file_mapping_op_finish'
    BY <1>7, <2>1 DEF CorePost, CoreOwns, PMOwns, sharedVars
  <2>3. \A i, k \in InTransit' : i = k
    <3> DEFINE m == Msg("WM_IMAGE", coreMsg.wParam, 0, coreMsg.of)
    <3>1. m \in Message /\ pmQ \in Seq(Message)
      BY MessageTypes DEF Types, ServerTypes, PMTypes, Message
    <3>2. pmQ' = pmQ \/ pmQ' = Append(pmQ, m)
      BY <1>7 DEF CorePost
    <3> HIDE DEF m
    <3>3. ImageAt(Append(pmQ, m)) \subseteq ImageAt(pmQ) \cup {Len(pmQ) + 1}
      BY <3>1, ImageAtAppend
    <3>4. ImageAt(pmQ) = {}
      BY <2>1 DEF InTransit
    <3>5. ImageAt(pmQ') \subseteq {Len(pmQ) + 1}
      BY <3>2, <3>3, <3>4
    <3> QED
      BY <3>5 DEF InTransit
  <2> QED
    BY <2>2, <2>3 DEF OneOwner
<1>8. CASE CoreGetRecognitionId
  BY <1>8, OwnerUnchanged DEF CoreGetRecognitionId, serverVars, sharedVars, pmVars
<1>9. CASE CoreResult
  BY <1>9, OwnerUnchanged DEF CoreResult, serverVars, sharedVars, pmVars
<1>10. CASE CoreDisconnect
  <2>1. ImageAt(pmQ') = ImageAt(pmQ)
    <3> DEFINE m == Msg("WM_CLIENT_DISCONNECT", Head(coreQ).wParam, 0, 0)
    <3>1. Head(coreQ) \in Message /\ pmQ \in Seq(Message)
      BY <1>10, QueueTypes DEF CoreDisconnect, CoreHandles, Types, ServerTypes, PMTypes
    <3>2. m \in Message /\ m.type = "WM_CLIENT_DISCONNECT"
      BY <3>1, MessageTypes DEF Message, Msg
    <3>3. pmQ' = pmQ \/ pmQ' = Append(pmQ, m)
      BY <1>10 DEF CoreDisconnect
    <3> HIDE DEF m
    <3>4. ImageAt(Append(pmQ, m)) = ImageAt(pmQ)
      BY <3>1, <3>2, ImageAtAppend
    <3> QED
      BY <3>3, <3>4
  <2> QED
    BY <1>10, <2>1 DEF CoreDisconnect, OneOwner, InTransit, CoreOwns, PMOwns, sharedVars
<1>11. CASE CoreError
  BY <1>11, OwnerUnchanged DEF CoreError, serverVars, sharedVars, pmVars
<1>12. CASE Register
  BY <1>12, OwnerUnchanged DEF Register, serverVars, sharedVars, pmVars
<1>13. CASE PMMapped
  BY <1>13 DEF PMMapped, OneOwner, InTransit, CoreOwns, PMOwns, serverVars, sharedVars
<1>14. CASE PMNotMapped
  BY <1>14 DEF PMNotMapped, OneOwner, InTransit, CoreOwns, PMOwns, serverVars, sharedVars
<1>15. CASE PMGetImage
  <2>1. pmQ \in Seq(Message) /\ pmQ # <<>> /\ Head(pmQ).type = "WM_IMAGE" /\ pmQ' = Tail(pmQ)
    BY <1>15 DEF PMGetImage, PMHandles, Types, PMTypes
  <2>2. 1 \in InTransit /\ InTransit' = {}
    BY <2>1, ImageAtTail DEF InTransit, OneOwner
  <2> QED
    BY <1>15, <2>2 DEF PMGetImage, OneOwner, CoreOwns, serverVars, sharedVars
<1>16. CASE PMRead
  BY <1>16 DEF PMRead, OneOwner, InTransit, CoreOwns, PMOwns, serverVars, sharedVars
<1>17. CASE PMSignal
  BY <1>17 DEF PMSignal, OneOwner, InTransit, CoreOwns, PMOwns, serverVars
<1>18. CASE PMQueue
  BY <1>18 DEF PMQueue, OneOwner, InTransit, CoreOwns, PMOwns, serverVars, sharedVars
<1>19. CASE PMDisconnect
  <2>1. pmQ \in Seq(Message) /\ pmQ # <<>> /\ Head(pmQ).type # "WM_IMAGE" /\ pmQ' = Tail(pmQ)
    BY <1>19 DEF PMDisconnect, PMHandles, Types, PMTypes
  <2>2. \A i \in InTransit' : i \in Nat /\ i + 1 \in InTransit
    BY <2>1, ImageAtTail DEF InTransit
  <2>3. ~PMOwns /\ ~PMOwns'
    BY <1>19 DEF PMDisconnect, PMHandles, PMOwns
  <2>4. UNCHANGED <<file_mapping_op_finish, CoreOwns>>
    BY <1>19 DEF PMDisconnect, CoreOwns, serverVars, sharedVars
  <2>5. \A i, k \in InTransit' : i = k
    <3> SUFFICES ASSUME NEW i \in InTransit', NEW k \in InTransit' PROVE i = k
      OBVIOUS
    <3>1. i + 1 = k + 1 /\ i \in Nat /\ k \in Nat
      BY <2>2 DEF OneOwner
    <3> QED
      BY <3>1
  <2> QED
    BY <2>2, <2>3, <2>4, <2>5 DEF OneOwner
<1>20. CASE PMErase
  BY <1>20 DEF PMErase, OneOwner, InTransit, CoreOwns, PMOwns, serverVars, sharedVars
<1>21. CASE RecPop
  BY <1>21, OwnerUnchanged DEF RecPop, serverVars, sharedVars, pmVars
<1>22. CASE RecShow
  BY <1>22, OwnerUnchanged DEF RecShow, serverVars, sharedVars, pmVars
<1>23. CASE RecDetect
  BY <1>23, OwnerUnchanged DEF RecDetect, serverVars, sharedVars, pmVars
<1>24. CASE RecLock
  BY <1>24, OwnerUnchanged DEF RecLock, serverVars, sharedVars, pmVars
<1>25. CASE RecUpdate
  BY <1>25, OwnerUnchanged DEF RecUpdate, serverVars, sharedVars, pmVars
<1>26. CASE RecCopy
  BY <1>26, OwnerUnchanged DEF RecCopy, serverVars, sharedVars, pmVars
<1>27. CASE RecPost
  BY <1>27, OwnerUnchanged DEF RecPost, serverVars, sharedVars, pmVars
<1>28. CASE OperatorKey
  BY <1>28, OwnerUnchanged DEF OperatorKey, serverVars, sharedVars, pmVars
<1>29. CASE UNCHANGED vars
  BY <1>29, OwnerUnchanged DEF vars, serverVars, sharedVars, pmVars
<1> QED
  BY <1>1, <1>2, <1>3, <1>4, <1>5, <1>6, <1>7, <1>8, <1>9, <1>10, <1>11, <1>12, <1>13, <1>14, <1>15, <1>16, <1>17, <1>18, <1>19, <1>20, <1>21, <1>22, <1>23, <1>24, <1>25, <1>26, <1>27, <1>28, <1>29
  DEF Next, IOThreads, ServerCore, ProcessMessage, RecognitionCore

(* At any time at most one of Core, the queue and ProcessMessage has the     *)
(* section "file-mapping", and nobody has it while the event is signalled.   *)
THEOREM OwnerCorrect == Spec => []OneOwner
<1>1. Init => OneOwner
  BY DEF Init, OneOwner, InTransit, ImageAt, CoreOwns, PMOwns
<1> QED
  BY <1>1, StepOwner, TypeCorrect, PTL DEF Spec

(* A memcpy of an image whose size Core reads back puts all of it there. *)
LEMMA OverlayExact ==
  ASSUME Types, NEW b \in 1..Len(recv_bufs), Exact(ImageOf(b))
  PROVE  Overlay(b, DeserializeInt(Header(b)) + 4) = [hdr |-> Header(b), body |-> b]
<1> DEFINE n == DeserializeInt(Header(b)) + 4
<1>1. /\ ImageOf(b).size \in FileSize /\ Header(b) \in FourBytes
      /\ Header(b) = SerializeInt(ImageOf(b).size)
  BY PostedHeader DEF Header
<1>2. n = ImageOf(b).size + 4
  BY <1>1, SizeReadByCore DEF Exact
<1>3. n >= 4
  BY <1>2, BoundsAssumption DEF Exact
<1> HIDE DEF n
<1>4. Overlay(b, n).body = b
  BY <1>3 DEF Overlay
<1>5. \A j \in 1..4 : j <= n
  BY <1>2, <1>3, BoundsAssumption DEF Exact
<1>6. [j \in 1..4 |-> IF j <= n THEN Header(b)[j] ELSE file_mapping.hdr[j]] = Header(b)
  BY <1>1, <1>5 DEF FourBytes
<1> QED
  BY <1>3, <1>6 DEF Overlay, n

(* A step that leaves section and queue alone, and hands them to nobody new, *)
(* keeps them: posting further buffers does not change those posted before.  *)
LEMMA HeldUnchanged ==
  ASSUME TypeOK, MappingUndisturbed, UNCHANGED <<file_mapping, pmQ>>,
         \A b \in 1..Len(recv_bufs) : recv_bufs'[b] = recv_bufs[b],
         corePc' = "post" => corePc = "post" /\ coreMsg' = coreMsg,
         PMOwns' => PMOwns /\ pmMsg' = pmMsg
  PROVE  MappingUndisturbed'
<1>1. ASSUME NEW b \in 1..Len(recv_bufs), HoldsIfExact(b)
      PROVE  \A x : x = b => HoldsIfExact(x)'
  BY <1>1 DEF HoldsIfExact, ImageOf, Header
<1>2. corePc' = "post" => HoldsIfExact(coreMsg.of)'
  BY <1>1 DEF MappingUndisturbed, TypeOK, Names, CoreNames, CoreKnows, NamesBuffer
<1>3. \A i \in InTransit' : HoldsIfExact(pmQ[i].of)'
  <2> SUFFICES ASSUME NEW i \in InTransit' PROVE HoldsIfExact(pmQ[i].of)'
    OBVIOUS
  <2>1. i \in InTransit /\ pmQ'[i] = pmQ[i]
    BY DEF InTransit
  <2>2. pmQ[i].of \in 1..Len(recv_bufs)
    BY <2>1 DEF InTransit, ImageAt, TypeOK, Names, PMNames, PMKnows, NamesBuffer, Range
  <2> QED
    BY <1>1, <2>1, <2>2 DEF MappingUndisturbed
<1>4. PMOwns' => HoldsIfExact(pmMsg.of)'
  BY <1>1 DEF MappingUndisturbed, TypeOK, Names, PMNames, PMKnows, NamesBuffer, PMHolds, PMOwns
<1> QED
  BY <1>2, <1>3, <1>4 DEF MappingUndisturbed

(* Only CoreCopy writes the section, and then nobody else holds it. *)
LEMMA StepHeld == TypeOK /\ OneOwner /\ MappingUndisturbed /\ [Next]_vars => MappingUndisturbed'
<1> SUFFICES ASSUME TypeOK, OneOwner, MappingUndisturbed, [Next]_vars PROVE MappingUndisturbed'
  OBVIOUS
<1>1. ASSUME NEW c \in 1..client_id, NEW img \in Image, PostImage(c, img)
      PROVE  MappingUndisturbed'
  <2>1. c \in Cli
    BY BoundsAssumption DEF TypeOK, Types, ServerTypes, Cli
  <2>2. \A b \in 1..Len(recv_bufs) : recv_bufs'[b] = recv_bufs[b]
    BY <1>1, <2>1, BufsGrow DEF PostImage, TypeOK
  <2> QED
    BY <1>1, <2>2, HeldUnchanged DEF PostImage, PMOwns, sharedVars, pmVars
<1>2. CASE Accept
  BY <1>2, HeldUnchanged DEF Accept, PMOwns, serverVars, sharedVars, pmVars
<1>3. CASE PostDisconnect
  BY <1>3, HeldUnchanged DEF PostDisconnect, PMOwns, serverVars, sharedVars, pmVars
<1>4. CASE CoreGetImage
  BY <1>4, HeldUnchanged DEF CoreGetImage, CoreHandles, PMOwns, serverVars, sharedVars, pmVars
<1>5. CASE CoreWait
  BY <1>5, HeldUnchanged DEF CoreWait, CoreHandles, PMOwns, serverVars, sharedVars, pmVars
<1>6. CASE CoreCopy
  <2> DEFINE b == coreMsg.of
             n == DeserializeInt(Header(b)) + 4
  <2>1. b \in 1..Len(recv_bufs) /\ coreMsg.lParam = b
    BY <1>6 DEF CoreCopy, TypeOK, Names, CoreNames, CoreKnows, NamesBuffer
  <2>2. InTransit' = {} /\ ~PMOwns'
    BY <1>6 DEF CoreCopy, OneOwner, CoreOwns, PMOwns, InTransit, pmVars
  <2>3. corePc' = "post" => file_mapping' = Overlay(b, n)
    BY <1>6, <2>1 DEF CoreCopy
  <2>4. UNCHANGED <<coreMsg, recv_bufs>>
    BY <1>6 DEF CoreCopy
  <2>5. Exact(ImageOf(b)) => Overlay(b, n) = [hdr |-> Header(b), body |-> b]
    BY <2>1, OverlayExact DEF TypeOK
  <2> HIDE DEF b, n
  <2>6. corePc' = "post" => HoldsIfExact(coreMsg.of)'
    BY <2>3, <2>4, <2>5 DEF HoldsIfExact, ImageOf, Header, b
  <2> QED
    BY <2>2, <2>6 DEF MappingUndisturbed
<1>7. CASE CorePost
  <2> DEFINE b == coreMsg.of
             m == Msg("WM_IMAGE", coreMsg.wParam, 0, b)
  <2>1. HoldsIfExact(b) /\ InTransit = {} /\ ~PMOwns
    BY <1>7 DEF CorePost, MappingUndisturbed, OneOwner, CoreOwns
  <2>2. m \in Message /\ m.of = b /\ pmQ \in Seq(Message)
    BY MessageTypes DEF TypeOK, Types, ServerTypes, PMTypes, Message, Msg
  <2>3. pmQ' = pmQ \/ pmQ' = Append(pmQ, m)
    BY <1>7 DEF CorePost
  <2>4. UNCHANGED <<recv_bufs, file_mapping>> /\ ~PMOwns' /\ corePc' = "loop"
    BY <1>7, <2>1 DEF CorePost, PMOwns, sharedVars
  <2> HIDE DEF m, b
  <2>5. ASSUME NEW i \in InTransit' PROVE pmQ'[i].of = b
    <3>1. ImageAt(pmQ) = {} /\ i \in ImageAt(pmQ')
      BY <2>1 DEF InTransit
    <3>2. pmQ' = Append(pmQ, m)
      BY <2>3, <3>1
    <3>4. ImageAt(Append(pmQ, m)) \subseteq ImageAt(pmQ) \cup {Len(pmQ) + 1}
      BY <2>2, ImageAtAppend
    <3>5. i = Len(pmQ) + 1
      BY <3>1, <3>2, <3>4
    <3>3. Append(pmQ, m)[Len(pmQ) + 1] = m
      BY <2>2, ImageAtAppend
    <3> QED
      BY <2>2, <3>2, <3>3, <3>5
  <2>6. \A i \in InTransit' : HoldsIfExact(pmQ[i].of)'
    BY <2>1, <2>4, <2>5 DEF HoldsIfExact, ImageOf, Header
  <2> QED
    BY <2>4, <2>6 DEF MappingUndisturbed
<1>8. CASE CoreGetRecognitionId
  BY <1>8, HeldUnchanged DEF CoreGetRecognitionId, PMOwns, serverVars, sharedVars, pmVars
<1>9. CASE CoreResult
  BY <1>9, HeldUnchanged DEF CoreResult, PMOwns, serverVars, sharedVars, pmVars
<1>10. CASE CoreDisconnect
  <2> DEFINE m == Msg("WM_CLIENT_DISCONNECT", Head(coreQ).wParam, 0, 0)
  <2>1. pmQ \in Seq(Message) /\ m \in Message /\ m.type # "WM_IMAGE"
    <3>1. pmQ \in Seq(Message) /\ Head(coreQ) \in Message
      BY <1>10, QueueTypes DEF CoreDisconnect, CoreHandles, TypeOK, Types, ServerTypes, PMTypes
    <3> QED
      BY <3>1, MessageTypes DEF Message, Msg
  <2>2. pmQ' = pmQ \/ pmQ' = Append(pmQ, m)
    BY <1>10 DEF CoreDisconnect
  <2>3. UNCHANGED <<recv_bufs, file_mapping, coreMsg, corePc, pmPc, pmMsg>>
    BY <1>10 DEF CoreDisconnect, sharedVars
  <2> HIDE DEF m
  <2>4. \A i \in ImageAt(pmQ') : i \in ImageAt(pmQ) /\ pmQ'[i] = pmQ[i]
    <3>1. ImageAt(Append(pmQ, m)) = ImageAt(pmQ)
      BY <2>1, ImageAtAppend
    <3>2. \A i \in ImageAt(pmQ) : Append(pmQ, m)[i] = pmQ[i]
      BY <2>1, ImageAtAppend
    <3> QED
      BY <2>2, <3>1, <3>2
  <2>5. \A i \in InTransit' : HoldsIfExact(pmQ[i].of)'
    BY <2>3, <2>4 DEF MappingUndisturbed, InTransit, HoldsIfExact, ImageOf, Header
  <2> QED
    BY <2>3, <2>5 DEF MappingUndisturbed, PMOwns, HoldsIfExact, ImageOf, Header
<1>11. CASE CoreError
  BY <1>11, HeldUnchanged DEF CoreError, PMOwns, serverVars, sharedVars, pmVars
<1>12. CASE Register
  BY <1>12, HeldUnchanged DEF Register, PMOwns, serverVars, sharedVars, pmVars
<1>13. CASE PMMapped
  BY <1>13, HeldUnchanged DEF PMMapped, CoreHandles, PMOwns, serverVars, sharedVars, pmVars
<1>14. CASE PMNotMapped
  BY <1>14, HeldUnchanged DEF PMNotMapped, CoreHandles, PMOwns, serverVars, sharedVars, pmVars
<1>15. CASE PMGetImage
  <2>1. /\ pmQ \in Seq(Message) /\ pmQ # <<>> /\ Head(pmQ).type = "WM_IMAGE"
        /\ pmQ' = Tail(pmQ) /\ pmMsg' = Head(pmQ)
    BY <1>15 DEF PMGetImage, PMHandles, TypeOK, Types, PMTypes
  <2>2. 1 \in InTransit /\ Head(pmQ) = pmQ[1]
    BY <2>1, ImageAtTail DEF InTransit
  <2>3. InTransit' = {} /\ ~CoreOwns
    BY <2>1, <2>2, ImageAtTail DEF OneOwner, InTransit
  <2>4. HoldsIfExact(pmMsg'.of)
    BY <2>1, <2>2 DEF MappingUndisturbed
  <2>5. UNCHANGED <<recv_bufs, file_mapping, corePc>>
    BY <1>15 DEF PMGetImage, serverVars, sharedVars
  <2> QED
    BY <2>3, <2>4, <2>5 DEF MappingUndisturbed, CoreOwns, HoldsIfExact, ImageOf, Header
<1>16. CASE PMRead
  BY <1>16, HeldUnchanged DEF PMRead, CoreHandles, PMOwns, serverVars, sharedVars, pmVars
<1>17. CASE PMSignal
  BY <1>17, HeldUnchanged DEF PMSignal, CoreHandles, PMOwns, serverVars, sharedVars, pmVars
<1>18. CASE PMQueue
  BY <1>18, HeldUnchanged DEF PMQueue, CoreHandles, PMOwns, serverVars, sharedVars, pmVars
<1>19. CASE PMDisconnect
  <2>1. pmQ \in Seq(Message) /\ pmQ # <<>> /\ pmQ' = Tail(pmQ)
    BY <1>19 DEF PMDisconnect, PMHandles, TypeOK, Types, PMTypes
  <2>2. \A i \in ImageAt(pmQ') : i + 1 \in ImageAt(pmQ) /\ pmQ'[i] = pmQ[i + 1]
    BY <2>1, ImageAtTail
  <2>3. ~PMOwns' /\ UNCHANGED <<recv_bufs, file_mapping, corePc, coreMsg>>
    BY <1>19 DEF PMDisconnect, PMHandles, PMOwns, serverVars, sharedVars
  <2> QED
    BY <2>2, <2>3 DEF MappingUndisturbed, InTransit, HoldsIfExact, ImageOf, Header
<1>20. CASE PMErase
  BY <1>20, HeldUnchanged DEF PMErase, CoreHandles, PMOwns, serverVars, sharedVars, pmVars
<1>21. CASE RecPop
  BY <1>21, HeldUnchanged DEF RecPop, PMOwns, serverVars, sharedVars, pmVars
<1>22. CASE RecShow
  BY <1>22, HeldUnchanged DEF RecShow, PMOwns, serverVars, sharedVars, pmVars
<1>23. CASE RecDetect
  BY <1>23, HeldUnchanged DEF RecDetect, PMOwns, serverVars, sharedVars, pmVars
<1>24. CASE RecLock
  BY <1>24, HeldUnchanged DEF RecLock, PMOwns, serverVars, sharedVars, pmVars
<1>25. CASE RecUpdate
  BY <1>25, HeldUnchanged DEF RecUpdate, PMOwns, serverVars, sharedVars, pmVars
<1>26. CASE RecCopy
  BY <1>26, HeldUnchanged DEF RecCopy, PMOwns, serverVars, sharedVars, pmVars
<1>27. CASE RecPost
  BY <1>27, HeldUnchanged DEF RecPost, PMOwns, serverVars, sharedVars, pmVars
<1>28. CASE OperatorKey
  BY <1>28, HeldUnchanged DEF OperatorKey, PMOwns, serverVars, sharedVars, pmVars
<1>29. CASE UNCHANGED vars
  BY <1>29, HeldUnchanged DEF vars, PMOwns, serverVars, sharedVars, pmVars
<1> QED
  BY <1>1, <1>2, <1>3, <1>4, <1>5, <1>6, <1>7, <1>8, <1>9, <1>10, <1>11, <1>12, <1>13, <1>14, <1>15, <1>16, <1>17, <1>18, <1>19, <1>20, <1>21, <1>22, <1>23, <1>24, <1>25, <1>26, <1>27, <1>28, <1>29
  DEF Next, IOThreads, ServerCore, ProcessMessage, RecognitionCore

(* From the memcpy of an image the section can carry until the event is      *)
(* signalled again, its size and bytes are there: no message, crash, other   *)
(* image or client gets between the copy and the read.                       *)
THEOREM MappingCorrect == Spec => []MappingUndisturbed
<1>1. Init => MappingUndisturbed
  BY DEF Init, MappingUndisturbed, InTransit, ImageAt, PMOwns
<1> QED
  BY <1>1, StepHeld, TypeCorrect, OwnerCorrect, PTL DEF Spec

(* The steps that could end a loss, CorePost and PMSignal, are disabled by it. *)
LEMMA StepLost ==
  TypeOK /\ [Next]_vars => (TokenLost => TokenLost' /\ UNCHANGED file_mapping)
<1> SUFFICES ASSUME TypeOK, TokenLost, [Next]_vars PROVE TokenLost' /\ UNCHANGED file_mapping
  OBVIOUS
<1>1. ASSUME NEW c \in 1..client_id, NEW img \in Image, PostImage(c, img)
      PROVE  TokenLost' /\ UNCHANGED file_mapping
  BY <1>1 DEF PostImage, TokenLost, CoreOwns, PMOwns, InTransit, sharedVars, pmVars
<1>2. CASE Accept
  BY <1>2 DEF Accept, TokenLost, CoreOwns, PMOwns, InTransit, serverVars, sharedVars, pmVars
<1>3. CASE PostDisconnect
  BY <1>3 DEF PostDisconnect, TokenLost, CoreOwns, PMOwns, InTransit, serverVars, sharedVars, pmVars
<1>4. CASE CoreGetImage
  BY <1>4 DEF CoreGetImage, TokenLost, CoreOwns, PMOwns, InTransit, serverVars, sharedVars, pmVars
<1>5. CASE CoreWait
  BY <1>5 DEF CoreWait, TokenLost, CoreOwns, PMOwns
<1>6. CASE CoreCopy
  BY <1>6 DEF CoreCopy, TokenLost, CoreOwns, PMOwns
<1>7. CASE CorePost
  BY <1>7 DEF CorePost, TokenLost, CoreOwns, PMOwns
<1>8. CASE CoreGetRecognitionId
  BY <1>8 DEF CoreGetRecognitionId, TokenLost, CoreOwns, PMOwns, InTransit, serverVars, sharedVars, pmVars
<1>9. CASE CoreResult
  BY <1>9 DEF CoreResult, TokenLost, CoreOwns, PMOwns, InTransit, serverVars, sharedVars, pmVars
<1>10. CASE CoreDisconnect
  <2> DEFINE m == Msg("WM_CLIENT_DISCONNECT", Head(coreQ).wParam, 0, 0)
  <2>1. pmQ \in Seq(Message) /\ m \in Message /\ m.type # "WM_IMAGE"
    <3>1. pmQ \in Seq(Message) /\ Head(coreQ) \in Message
      BY <1>10, QueueTypes DEF CoreDisconnect, CoreHandles, TypeOK, Types, ServerTypes, PMTypes
    <3> QED
      BY <3>1, MessageTypes DEF Message, Msg
  <2>2. pmQ' = pmQ \/ pmQ' = Append(pmQ, m)
    BY <1>10 DEF CoreDisconnect
  <2> HIDE DEF m
  <2>3. ImageAt(pmQ') = ImageAt(pmQ)
    <3>1. ImageAt(Append(pmQ, m)) = ImageAt(pmQ)
      BY <2>1, ImageAtAppend
    <3> QED
      BY <2>2, <3>1
  <2> QED
    BY <1>10, <2>3 DEF CoreDisconnect, TokenLost, CoreOwns, PMOwns, InTransit, sharedVars
<1>11. CASE CoreError
  BY <1>11 DEF CoreError, TokenLost, CoreOwns, PMOwns, InTransit, serverVars, sharedVars, pmVars
<1>12. CASE Register
  BY <1>12 DEF Register, TokenLost, CoreOwns, PMOwns, InTransit, serverVars, sharedVars, pmVars
<1>13. CASE PMMapped
  BY <1>13 DEF PMMapped, TokenLost, CoreOwns, PMOwns, InTransit, serverVars, sharedVars, pmVars
<1>14. CASE PMNotMapped
  BY <1>14 DEF PMNotMapped, TokenLost, CoreOwns, PMOwns, InTransit, serverVars, sharedVars, pmVars
<1>15. CASE PMGetImage
  <2>1. pmQ \in Seq(Message) /\ pmQ # <<>> /\ Head(pmQ).type = "WM_IMAGE"
    BY <1>15 DEF PMGetImage, PMHandles, TypeOK, Types, PMTypes
  <2> QED
    BY <2>1, ImageAtTail DEF TokenLost, InTransit
<1>16. CASE PMRead
  BY <1>16 DEF PMRead, TokenLost, CoreOwns, PMOwns
<1>17. CASE PMSignal
  BY <1>17 DEF PMSignal, TokenLost, CoreOwns, PMOwns
<1>18. CASE PMQueue
  BY <1>18 DEF PMQueue, TokenLost, CoreOwns, PMOwns, InTransit, serverVars, sharedVars, pmVars
<1>19. CASE PMDisconnect
  <2>1. pmQ \in Seq(Message) /\ pmQ # <<>> /\ pmQ' = Tail(pmQ)
    BY <1>19 DEF PMDisconnect, PMHandles, TypeOK, Types, PMTypes
  <2>2. InTransit' = {}
    BY <2>1, ImageAtTail DEF TokenLost, InTransit
  <2> QED
    BY <1>19, <2>2 DEF PMDisconnect, TokenLost, CoreOwns, PMOwns, serverVars, sharedVars
<1>20. CASE PMErase
  BY <1>20 DEF PMErase, TokenLost, CoreOwns, PMOwns, InTransit, serverVars, sharedVars, pmVars
<1>21. CASE RecPop
  BY <1>21 DEF RecPop, TokenLost, CoreOwns, PMOwns, InTransit, serverVars, sharedVars, pmVars
<1>22. CASE RecShow
  BY <1>22 DEF RecShow, TokenLost, CoreOwns, PMOwns, InTransit, serverVars, sharedVars, pmVars
<1>23. CASE RecDetect
  BY <1>23 DEF RecDetect, TokenLost, CoreOwns, PMOwns, InTransit, serverVars, sharedVars, pmVars
<1>24. CASE RecLock
  BY <1>24 DEF RecLock, TokenLost, CoreOwns, PMOwns, InTransit, serverVars, sharedVars, pmVars
<1>25. CASE RecUpdate
  BY <1>25 DEF RecUpdate, TokenLost, CoreOwns, PMOwns, InTransit, serverVars, sharedVars, pmVars
<1>26. CASE RecCopy
  BY <1>26 DEF RecCopy, TokenLost, CoreOwns, PMOwns, InTransit, serverVars, sharedVars, pmVars
<1>27. CASE RecPost
  BY <1>27 DEF RecPost, TokenLost, CoreOwns, PMOwns, InTransit, serverVars, sharedVars, pmVars
<1>28. CASE OperatorKey
  BY <1>28 DEF OperatorKey, TokenLost, CoreOwns, PMOwns, InTransit, serverVars, sharedVars, pmVars
<1>29. CASE UNCHANGED vars
  BY <1>29 DEF vars, TokenLost, CoreOwns, PMOwns, InTransit, serverVars, sharedVars, pmVars
<1> QED
  BY <1>1, <1>2, <1>3, <1>4, <1>5, <1>6, <1>7, <1>8, <1>9, <1>10, <1>11, <1>12, <1>13, <1>14, <1>15, <1>16, <1>17, <1>18, <1>19, <1>20, <1>21, <1>22, <1>23, <1>24, <1>25, <1>26, <1>27, <1>28, <1>29
  DEF Next, IOThreads, ServerCore, ProcessMessage, RecognitionCore

(* Once the post of an image has failed for good the section is never        *)
(* written again and the event never signalled: the loss is for ever.        *)
THEOREM LossForEver == Spec => LossIsFinal
<1>1. TypeOK /\ [Next]_vars => [TokenLost => TokenLost' /\ UNCHANGED file_mapping]_vars
  BY StepLost
<1> QED
  BY <1>1, TypeCorrect, PTL DEF Spec, LossIsFinal
=============================================================================
