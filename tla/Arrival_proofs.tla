---------------------------- MODULE Arrival_proofs ----------------------------
(***************************************************************************)
(* Every image handed in is at one place of the path, in the order of the  *)
(* posts: so images arrive in that order and unmixed, at most one is lost, *)
(* and the path implements ImageQueue; results keep the order of images.   *)
(***************************************************************************)
EXTENDS Pipeline_proofs, FiniteSetTheorems, FunctionTheorems

(* The WM_IMAGE messages of queue q name the buffers a + 1 .. b in order. *)
Consecutive(q, a, b) ==
  /\ a <= b
  /\ \A i \in ImageAt(q) : q[i].of \in (a + 1)..b
  /\ \A i, j \in ImageAt(q) : i < j => q[i].of < q[j].of
  /\ \A n \in (a + 1)..b : \E i \in ImageAt(q) : q[i].of = n

(* How many buffers have left Core, and how many have left its queue. *)
Left == Len(work_queue) + One(PMHolds) + One(InTransit # {}) + One(TokenLost)
Taken == Left + One(corePc # "loop")

(* Where every buffer is, from the newest to the oldest. *)
Numbered ==
  /\ Consecutive(coreQ, Taken, Len(recv_bufs))
  /\ corePc # "loop" => coreMsg.of = Taken
  /\ \A i \in InTransit : pmQ[i].of = Len(work_queue) + One(PMHolds) + 1
  /\ PMHolds => pmMsg.of = Len(work_queue) + 1

(* The copy ProcessMessage made of an image the section can carry. *)
VuExact ==
  pmPc \in {"signal", "queue"} /\ Exact(ImageOf(pmMsg.of))
    => vu = [of |-> pmMsg.of, len |-> ImageOf(pmMsg.of).size]

(* Posting another image extends the numbering, other messages leave it.     *)
LEMMA ConsecutiveAppend ==
  ASSUME NEW q \in Seq(Message), NEW m \in Message, NEW a \in Nat, NEW b \in Nat,
         Consecutive(q, a, b)
  PROVE  /\ m.type # "WM_IMAGE" => Consecutive(Append(q, m), a, b)
         /\ m.type = "WM_IMAGE" /\ m.of = b + 1 => Consecutive(Append(q, m), a, b + 1)
<1> DEFINE p == Append(q, m)
<1>1. /\ \A i \in ImageAt(q) : p[i] = q[i] /\ i \in 1..Len(q)
      /\ p[Len(q) + 1] = m /\ Len(q) \in Nat
  BY ImageAtAppend DEF ImageAt
<1>2. CASE m.type # "WM_IMAGE"
  <2>1. ImageAt(p) = ImageAt(q)
    BY <1>2, ImageAtAppend
  <2> HIDE DEF p
  <2> QED
    BY <1>1, <1>2, <2>1 DEF Consecutive, p
<1>3. CASE m.type = "WM_IMAGE"
  <2>1. ImageAt(p) = ImageAt(q) \cup {Len(q) + 1}
    BY <1>3, ImageAtAppend
  <2> HIDE DEF p
  <2>2. SUFFICES ASSUME m.of = b + 1 PROVE Consecutive(p, a, b + 1)
    BY <1>3 DEF p
  <2>3. a <= b + 1
    BY DEF Consecutive
  <2>4. \A i \in ImageAt(p) : p[i].of \in (a + 1)..(b + 1)
    BY <1>1, <2>1, <2>2 DEF Consecutive
  <2>5. \A i, j \in ImageAt(p) : i < j => p[i].of < p[j].of
    <3> SUFFICES ASSUME NEW i \in ImageAt(p), NEW j \in ImageAt(p), i < j
                 PROVE  p[i].of < p[j].of
      OBVIOUS
    <3>1. i \in ImageAt(q)
      BY <1>1, <2>1
    <3>2. q[i].of \in (a + 1)..b /\ p[i] = q[i]
      BY <1>1, <3>1 DEF Consecutive
    <3>3. CASE j \in ImageAt(q)
      BY <1>1, <3>1, <3>2, <3>3 DEF Consecutive
    <3>4. CASE j = Len(q) + 1
      BY <1>1, <2>2, <3>2, <3>4
    <3> QED
      BY <2>1, <3>3, <3>4
  <2>6. \A n \in (a + 1)..(b + 1) : \E i \in ImageAt(p) : p[i].of = n
    BY <1>1, <2>1, <2>2 DEF Consecutive
  <2> QED
    BY <2>3, <2>4, <2>5, <2>6 DEF Consecutive
<1> QED
  BY <1>2, <1>3

(* The first image of the queue has the lowest number. *)
LEMMA ConsecutiveTail ==
  ASSUME NEW q \in Seq(Message), q # <<>>, NEW a \in Nat, NEW b \in Nat,
         Consecutive(q, a, b)
  PROVE  /\ Head(q).type # "WM_IMAGE" => Consecutive(Tail(q), a, b)
         /\ Head(q).type = "WM_IMAGE" => Head(q).of = a + 1 /\ Consecutive(Tail(q), a + 1, b)
<1> DEFINE t == Tail(q)
<1>1. /\ \A i \in ImageAt(t) : i + 1 \in ImageAt(q) /\ t[i] = q[i + 1] /\ i \in Nat \ {0}
      /\ \A i \in ImageAt(q) : i = 1 \/ i - 1 \in ImageAt(t)
      /\ 1 \in ImageAt(q) <=> Head(q).type = "WM_IMAGE"
      /\ Head(q) = q[1]
  BY ImageAtTail
<1>2. \A i \in ImageAt(q) : i \in Nat \ {0}
  BY DEF ImageAt
<1> HIDE DEF t
<1>3. \A i, j \in ImageAt(t) : i < j => t[i].of < t[j].of
  <2> SUFFICES ASSUME NEW i \in ImageAt(t), NEW j \in ImageAt(t), i < j
               PROVE  t[i].of < t[j].of
    OBVIOUS
  <2>1. /\ i + 1 \in ImageAt(q) /\ j + 1 \in ImageAt(q) /\ i + 1 < j + 1
        /\ t[i] = q[i + 1] /\ t[j] = q[j + 1]
    BY <1>1
  <2> QED
    BY <2>1 DEF Consecutive
<1>4. \A i \in ImageAt(t) : t[i].of \in (a + 1)..b
  BY <1>1 DEF Consecutive
<1>5. CASE Head(q).type # "WM_IMAGE"
  <2>1. \A n \in (a + 1)..b : \E i \in ImageAt(t) : t[i].of = n
    <3> SUFFICES ASSUME NEW n \in (a + 1)..b PROVE \E i \in ImageAt(t) : t[i].of = n
      OBVIOUS
    <3>1. PICK i \in ImageAt(q) : q[i].of = n
      BY DEF Consecutive
    <3>2. i - 1 \in ImageAt(t) /\ t[i - 1] = q[i]
      BY <1>1, <1>2, <1>5
    <3> QED
      BY <3>1, <3>2
  <2> QED
    BY <1>3, <1>4, <1>5, <2>1 DEF Consecutive, t
<1>6. CASE Head(q).type = "WM_IMAGE"
  <2>1. q[1].of \in (a + 1)..b /\ \A i \in ImageAt(t) : q[1].of < t[i].of
    BY <1>1, <1>6 DEF Consecutive
  <2>2. q[1].of = a + 1
    <3>1. PICK i \in ImageAt(q) : q[i].of = a + 1
      BY <2>1 DEF Consecutive
    <3>2. i = 1 \/ q[1].of < q[i].of
      BY <1>1, <1>2, <1>6 DEF Consecutive
    <3> QED
      BY <2>1, <3>1, <3>2
  <2>3. \A n \in (a + 2)..b : \E i \in ImageAt(t) : t[i].of = n
    <3> SUFFICES ASSUME NEW n \in (a + 2)..b PROVE \E i \in ImageAt(t) : t[i].of = n
      OBVIOUS
    <3>1. PICK i \in ImageAt(q) : q[i].of = n
      BY DEF Consecutive
    <3>2. i - 1 \in ImageAt(t) /\ t[i - 1] = q[i]
      BY <1>1, <1>2, <2>2, <3>1
    <3> QED
      BY <3>1, <3>2
  <2>4. \A i \in ImageAt(t) : t[i].of \in (a + 2)..b
    BY <1>4, <2>1, <2>2
  <2>5. /\ a + 1 + 1 = a + 2 /\ a + 1 <= b
    BY <2>1, <2>2
  <2>6. Consecutive(t, a + 1, b)
    BY <1>3, <2>3, <2>4, <2>5 DEF Consecutive
  <2> QED
    BY <1>1, <1>6, <2>2, <2>6 DEF t
<1> QED
  BY <1>5, <1>6

(* There are as many images in the queue as numbers. *)
LEMMA ConsecutiveCount ==
  ASSUME NEW q \in Seq(Message), NEW a \in Nat, NEW b \in Nat, Consecutive(q, a, b)
  PROVE  Cardinality(ImageAt(q)) = b - a
<1> DEFINE f == [i \in ImageAt(q) |-> q[i].of]
           T == (a + 1)..b
<1>1. IsFiniteSet(ImageAt(q))
  <2>1. IsFiniteSet(1..Len(q))
    BY FS_Interval
  <2> QED
    BY <2>1, FS_Subset DEF ImageAt
<1>2. f \in [ImageAt(q) -> T]
  BY DEF Consecutive
<1>3. \A i, j \in ImageAt(q) : f[i] = f[j] => i = j
  <2> SUFFICES ASSUME NEW i \in ImageAt(q), NEW j \in ImageAt(q), q[i].of = q[j].of PROVE i = j
    OBVIOUS
  <2>1. i \in Int /\ j \in Int
    BY DEF ImageAt
  <2>2. q[i].of \in Int /\ ~(i < j) /\ ~(j < i)
    BY DEF Consecutive
  <2> QED
    BY <2>1, <2>2
<1>4. \A n \in T : \E i \in ImageAt(q) : f[i] = n
  BY DEF Consecutive
<1>5. ExistsBijection(ImageAt(q), T)
  <2>1. f \in Bijection(ImageAt(q), T)
    <3> HIDE DEF f, T
    <3> QED
      BY <1>2, <1>3, <1>4, Fun_IsBij
  <2> QED
    BY <2>1, Zenon DEF ExistsBijection
<1>6. Cardinality(T) = Cardinality(ImageAt(q))
  BY <1>1, <1>5, FS_Bijection
<1>7. Cardinality(T) = b - a
  <2>1. a + 1 \in Int /\ b \in Int /\ a <= b
    BY DEF Consecutive
  <2>2. Cardinality((a + 1)..b) = IF a + 1 > b THEN 0 ELSE b - (a + 1) + 1
    BY ONLY <2>1, FS_Interval
  <2> QED
    BY <2>1, <2>2
<1> QED
  BY <1>6, <1>7

(* Every count of buffers is a number. *)
LEMMA Counts ==
  ASSUME Types
  PROVE  /\ Len(work_queue) \in Nat /\ Len(recv_bufs) \in Nat
         /\ Left \in Nat /\ Taken \in Nat
         /\ coreQ \in Seq(Message) /\ pmQ \in Seq(Message)
<1>1. /\ Len(work_queue) \in Nat /\ Len(recv_bufs) \in Nat
      /\ coreQ \in Seq(Message) /\ pmQ \in Seq(Message)
  BY DEF Types, ServerTypes, PMTypes
<1>2. \A b : One(b) \in {0, 1}
  BY DEF One
<1>3. /\ One(PMHolds) \in {0, 1} /\ One(InTransit # {}) \in {0, 1} /\ One(TokenLost) \in {0, 1}
      /\ One(corePc # "loop") \in {0, 1}
  BY <1>2
<1> QED
  BY <1>1, <1>3 DEF Left, Taken

(* A step that moves no image keeps the numbering if Core's queue keeps it. *)
LEMMA NumberedSame ==
  ASSUME Types, Numbered, UNCHANGED <<work_queue, coreMsg>>,
         Consecutive(coreQ', Taken, Len(recv_bufs')),
         corePc' = "loop" <=> corePc = "loop",
         TokenLost' <=> TokenLost,
         PMHolds' <=> PMHolds, PMHolds => pmMsg' = pmMsg,
         InTransit' = {} <=> InTransit = {},
         \A i \in InTransit' : \E j \in InTransit : pmQ'[i].of = pmQ[j].of
  PROVE  Numbered'
<1>1. Left' = Left /\ Taken' = Taken
  BY DEF Left, Taken, One
<1>2. Consecutive(coreQ, Taken, Len(recv_bufs))'
  BY <1>1 DEF Consecutive, ImageAt
<1>3. corePc' # "loop" => coreMsg'.of = Taken'
  BY <1>1 DEF Numbered
<1>4. \A i \in InTransit' : pmQ'[i].of = Len(work_queue') + One(PMHolds)' + 1
  BY DEF Numbered, One
<1>5. PMHolds' => pmMsg'.of = Len(work_queue') + 1
  BY DEF Numbered
<1> QED
  BY <1>2, <1>3, <1>4, <1>5 DEF Numbered

(* What Core's queue may lose at its head and get at its end besides images. *)
OtherMessage ==
  \/ coreQ' = coreQ
  \/ \E m \in Message : m.type # "WM_IMAGE" /\ coreQ' = Append(coreQ, m)
  \/ coreQ # <<>> /\ Head(coreQ).type # "WM_IMAGE" /\ coreQ' = Tail(coreQ)

LEMMA OtherConsecutive ==
  ASSUME Types, Numbered, OtherMessage, UNCHANGED recv_bufs
  PROVE  Consecutive(coreQ', Taken, Len(recv_bufs'))
<1>1. /\ Taken \in Nat /\ Len(recv_bufs) \in Nat /\ coreQ \in Seq(Message)
      /\ Consecutive(coreQ, Taken, Len(recv_bufs))
  BY Counts DEF Numbered
<1>2. CASE coreQ' = coreQ
  BY <1>1, <1>2
<1>3. ASSUME NEW m \in Message, m.type # "WM_IMAGE", coreQ' = Append(coreQ, m)
      PROVE  Consecutive(coreQ', Taken, Len(recv_bufs'))
  BY <1>1, <1>3, ConsecutiveAppend
<1>4. CASE coreQ # <<>> /\ Head(coreQ).type # "WM_IMAGE" /\ coreQ' = Tail(coreQ)
  BY <1>1, <1>4, ConsecutiveTail
<1> QED
  BY <1>2, <1>3, <1>4 DEF OtherMessage

LEMMA NumberedStill ==
  ASSUME Types, Numbered,
         UNCHANGED <<work_queue, pmPc, pmQ, pmMsg, corePc, coreMsg, file_mapping_op_finish>>,
         \/ OtherMessage /\ UNCHANGED recv_bufs
         \/ Consecutive(coreQ', Taken, Len(recv_bufs'))
  PROVE  Numbered'
<1>1. Consecutive(coreQ', Taken, Len(recv_bufs'))
  BY OtherConsecutive
<1>2. /\ TokenLost' <=> TokenLost
      /\ PMHolds' <=> PMHolds
      /\ InTransit' = InTransit
  BY DEF TokenLost, CoreOwns, InTransit, ImageAt, PMOwns, PMHolds
<1> QED
  BY <1>1, <1>2, NumberedSame

(* Every image keeps its number on its way: no step lets two of them pass    *)
(* each other, and only a failing post of Core lets one of them go.          *)
LEMMA StepNumbered == TypeOK /\ OneOwner /\ Numbered /\ [Next]_vars => Numbered'
<1> SUFFICES ASSUME Types, Names, OneOwner, Numbered, [Next]_vars PROVE Numbered'
  BY DEF TypeOK
<1>0. /\ Taken \in Nat /\ Left \in Nat /\ Len(recv_bufs) \in Nat /\ Len(work_queue) \in Nat
      /\ coreQ \in Seq(Message) /\ pmQ \in Seq(Message)
      /\ Consecutive(coreQ, Taken, Len(recv_bufs))
  BY Counts DEF Numbered
<1>1. ASSUME NEW c \in 1..client_id, NEW img \in Image, PostImage(c, img)
      PROVE  Numbered'
  <2> DEFINE m == Msg("WM_IMAGE", c, Len(recv_bufs'), Len(recv_bufs'))
             r == [cli |-> c, img |-> img]
  <2>1. c \in StrayId /\ r \in [cli : Cli, img : Image]
    BY BoundsAssumption DEF Types, ServerTypes, Cli, StrayId
  <2>2. recv_bufs' = Append(recv_bufs, r) /\ coreQ' = Append(coreQ, m)
    BY <1>1 DEF PostImage
  <2> HIDE DEF r
  <2>3. Len(recv_bufs') = Len(recv_bufs) + 1
    BY <2>1, <2>2, BufsGrow
  <2>4. m \in Message /\ m.type = "WM_IMAGE" /\ m.of = Len(recv_bufs) + 1
    <3>1. Len(recv_bufs') \in Nat
      BY <1>0, <2>3
    <3>2. m \in Message
      BY <2>1, <3>1, MessageTypes
    <3> QED
      BY <2>3, <3>2 DEF Msg
  <2> HIDE DEF m
  <2>5. Consecutive(coreQ', Taken, Len(recv_bufs'))
    BY <1>0, <2>2, <2>3, <2>4, ConsecutiveAppend
  <2> QED
    BY <1>1, <2>5, NumberedStill DEF PostImage, sharedVars, pmVars
<1>2. CASE Accept
  BY <1>2, NumberedStill DEF Accept, OtherMessage, serverVars, sharedVars, pmVars
<1>3. CASE PostDisconnect
  <2>1. Msg("WM_CLIENT_DISCONNECT", client_id, 0, 0) \in Message /\ Msg("WM_CLIENT_DISCONNECT", client_id, 0, 0).type # "WM_IMAGE"
    BY MessageTypes DEF Types, ServerTypes, RecTypes, Msg, StrayId, Cli
  <2>2. OtherMessage
    BY <1>3, <2>1 DEF PostDisconnect, OtherMessage
  <2> QED
    BY <1>3, <2>2, NumberedStill DEF PostDisconnect, sharedVars, pmVars
<1>4. CASE CoreGetImage
  <2>1. /\ coreQ # <<>> /\ Head(coreQ).type = "WM_IMAGE" /\ coreQ' = Tail(coreQ)
        /\ coreMsg' = Head(coreQ) /\ corePc = "loop" /\ corePc' = "wait"
        /\ UNCHANGED <<recv_bufs, work_queue, pmPc, pmQ, pmMsg, file_mapping_op_finish>>
    BY <1>4 DEF CoreGetImage, CoreHandles, sharedVars, pmVars
  <2>2. Head(coreQ).of = Taken + 1 /\ Consecutive(coreQ', Taken + 1, Len(recv_bufs))
    BY <1>0, <2>1, ConsecutiveTail
  <2>3. Left' = Left /\ Taken' = Taken + 1
    <3>1. /\ TokenLost' <=> TokenLost
          /\ PMHolds' <=> PMHolds
          /\ InTransit' = InTransit
      BY <2>1 DEF TokenLost, CoreOwns, InTransit, ImageAt, PMOwns, PMHolds
    <3>2. Left' = Left
      BY <2>1, <3>1 DEF Left, One
    <3> QED
      BY <1>0, <2>1, <3>2 DEF Taken, One
  <2>4. Consecutive(coreQ, Taken, Len(recv_bufs))'
    BY <2>1, <2>2, <2>3 DEF Consecutive, ImageAt
  <2> QED
    BY <2>1, <2>2, <2>3, <2>4 DEF Numbered, InTransit, ImageAt, PMHolds, One
<1>5. CASE CoreWait
  <2>1. /\ UNCHANGED <<coreQ, recv_bufs, work_queue, pmPc, pmQ, pmMsg, coreMsg>>
        /\ corePc # "loop" /\ corePc' # "loop"
    BY <1>5 DEF CoreWait, pmVars
  <2>2. TokenLost' <=> TokenLost
    BY <1>5 DEF CoreWait, TokenLost, CoreOwns, InTransit, ImageAt, PMOwns, pmVars
  <2>3. PMHolds' = PMHolds /\ InTransit' = InTransit
    BY <2>1 DEF PMHolds, InTransit, ImageAt
  <2> QED
    BY <1>0, <2>1, <2>2, <2>3, NumberedSame
<1>6. CASE CoreCopy
  <2>1. /\ UNCHANGED <<coreQ, recv_bufs, work_queue, pmPc, pmQ, pmMsg, coreMsg>>
        /\ corePc # "loop" /\ corePc' # "loop"
    BY <1>6 DEF CoreCopy, pmVars
  <2>2. TokenLost' <=> TokenLost
    BY <1>6 DEF CoreCopy, TokenLost, CoreOwns, InTransit, ImageAt, PMOwns, pmVars
  <2>3. PMHolds' = PMHolds /\ InTransit' = InTransit
    BY <2>1 DEF PMHolds, InTransit, ImageAt
  <2> QED
    BY <1>0, <2>1, <2>2, <2>3, NumberedSame
<1>7. CASE CorePost
  <2> DEFINE m == Msg("WM_IMAGE", coreMsg.wParam, 0, coreMsg.of)
  <2>1. CoreOwns /\ InTransit = {} /\ ~PMOwns /\ ~file_mapping_op_finish /\ ~TokenLost
    BY <1>7 DEF CorePost, OneOwner, CoreOwns, TokenLost
  <2>2. m \in Message /\ m.of = coreMsg.of /\ m.type = "WM_IMAGE"
    BY MessageTypes DEF Types, ServerTypes, Message, Msg
  <2>3. pmQ' = pmQ \/ pmQ' = Append(pmQ, m)
    BY <1>7 DEF CorePost
  <2>4. /\ UNCHANGED <<coreQ, recv_bufs, work_queue, pmPc, pmMsg, file_mapping_op_finish>>
        /\ corePc = "post" /\ corePc' = "loop"
    BY <1>7 DEF CorePost, sharedVars
  <2>5. coreMsg.of = Len(work_queue) + One(PMHolds) + 1 /\ One(PMHolds) \in {0, 1}
    BY <1>0, <2>1, <2>4 DEF Numbered, Taken, Left, One
  <2> HIDE DEF m
  <2>6. /\ PMHolds' = PMHolds /\ ~CoreOwns' /\ ~PMOwns' /\ ~file_mapping_op_finish'
        /\ InTransit' = ImageAt(pmQ')
    BY <2>1, <2>4 DEF PMHolds, CoreOwns, PMOwns, InTransit
  <2>7. InTransit' = {} <=> TokenLost'
    BY <2>6 DEF TokenLost
  <2>8. Taken' = Taken /\ Left' = Taken
    <3>1. One(InTransit # {}) = 0 /\ One(TokenLost) = 0 /\ One(corePc # "loop") = 1
      BY <2>1, <2>4 DEF One
    <3>2. One(InTransit # {})' + One(TokenLost)' = 1 /\ One(corePc # "loop")' = 0
      BY <2>4, <2>7 DEF One
    <3>3. One(PMHolds)' = One(PMHolds) /\ Len(work_queue') = Len(work_queue)
      BY <2>4, <2>6 DEF One
    <3>4. /\ One(InTransit # {})' \in {0, 1} /\ One(TokenLost)' \in {0, 1}
          /\ One(PMHolds) \in {0, 1}
      BY DEF One
    <3> QED
      BY <1>0, <3>1, <3>2, <3>3, <3>4 DEF Taken, Left
  <2>9. Consecutive(coreQ, Taken, Len(recv_bufs))'
    BY <1>0, <2>4, <2>8 DEF Consecutive, ImageAt
  <2>10. \A i \in InTransit' : pmQ'[i].of = coreMsg.of
    <3>1. ImageAt(Append(pmQ, m)) = {Len(pmQ) + 1} /\ Append(pmQ, m)[Len(pmQ) + 1] = m
      BY <1>0, <2>1, <2>2, ImageAtAppend DEF InTransit
    <3> QED
      BY <2>1, <2>2, <2>3, <2>6, <3>1 DEF InTransit
  <2>11. PMHolds' => pmMsg'.of = Len(work_queue') + 1
    BY <2>4, <2>6 DEF Numbered
  <2>12. \A i \in InTransit' : pmQ'[i].of = Len(work_queue') + One(PMHolds)' + 1
    BY <2>4, <2>5, <2>6, <2>10 DEF One
  <2> QED
    BY <2>4, <2>9, <2>11, <2>12 DEF Numbered
<1>8. CASE CoreGetRecognitionId
  <2>1. OtherMessage
    BY <1>8 DEF CoreGetRecognitionId, CoreHandles, OtherMessage
  <2> QED
    BY <1>8, <2>1, NumberedStill DEF CoreGetRecognitionId, sharedVars, pmVars
<1>9. CASE CoreResult
  <2>1. OtherMessage
    BY <1>9 DEF CoreResult, CoreHandles, OtherMessage
  <2> QED
    BY <1>9, <2>1, NumberedStill DEF CoreResult, sharedVars, pmVars
<1>10. CASE CoreDisconnect
  <2> DEFINE m == Msg("WM_CLIENT_DISCONNECT", Head(coreQ).wParam, 0, 0)
  <2>1. m \in Message /\ m.type # "WM_IMAGE"
    <3>1. Head(coreQ) \in Message
      BY <1>0, <1>10, QueueTypes DEF CoreDisconnect, CoreHandles
    <3> QED
      BY <3>1, MessageTypes DEF Message, Msg
  <2>2. /\ pmQ' = pmQ \/ pmQ' = Append(pmQ, m)
        /\ UNCHANGED <<recv_bufs, work_queue, pmPc, pmMsg, corePc, coreMsg, file_mapping_op_finish>>
        /\ OtherMessage
    BY <1>10 DEF CoreDisconnect, CoreHandles, OtherMessage, sharedVars
  <2> HIDE DEF m
  <2>3. ImageAt(pmQ') = ImageAt(pmQ) /\ \A i \in ImageAt(pmQ) : pmQ'[i] = pmQ[i]
    <3>1. /\ ImageAt(Append(pmQ, m)) = ImageAt(pmQ)
          /\ \A i \in ImageAt(pmQ) : Append(pmQ, m)[i] = pmQ[i]
      BY <1>0, <2>1, ImageAtAppend
    <3> QED
      BY <2>2, <3>1
  <2>4. InTransit' = InTransit /\ \A i \in InTransit' : pmQ'[i].of = pmQ[i].of
    BY <2>3 DEF InTransit
  <2>5. (TokenLost' <=> TokenLost) /\ PMHolds' = PMHolds
    BY <2>2, <2>4 DEF TokenLost, CoreOwns, PMOwns, PMHolds
  <2>6. Consecutive(coreQ', Taken, Len(recv_bufs'))
    BY <2>2, OtherConsecutive
  <2> QED
    BY <2>2, <2>4, <2>5, <2>6, NumberedSame
<1>11. CASE CoreError
  <2>1. OtherMessage
    BY <1>11 DEF CoreError, CoreHandles, OtherMessage
  <2> QED
    BY <1>11, <2>1, NumberedStill DEF CoreError, sharedVars, pmVars
<1>12. CASE Register
  <2>1. Msg("WM_GET_RECOGNITION_ID", 0, 0, 0) \in Message /\ Msg("WM_GET_RECOGNITION_ID", 0, 0, 0).type # "WM_IMAGE"
    BY MessageTypes DEF Types, ServerTypes, RecTypes, Msg, StrayId, Cli
  <2>2. OtherMessage
    BY <1>12, <2>1 DEF Register, OtherMessage
  <2> QED
    BY <1>12, <2>2, NumberedStill DEF Register, sharedVars, pmVars
<1>13. CASE PMMapped
  <2>1. /\ UNCHANGED <<coreQ, recv_bufs, work_queue, pmQ, corePc, coreMsg>>
        /\ (PMHolds' <=> PMHolds) /\ (PMHolds => pmMsg' = pmMsg)
        /\ (PMOwns' <=> PMOwns) /\ UNCHANGED file_mapping_op_finish
    BY <1>13 DEF PMMapped, PMHolds, PMOwns, serverVars, sharedVars
  <2>2. InTransit' = InTransit /\ (TokenLost' <=> TokenLost)
    BY <2>1 DEF TokenLost, CoreOwns, InTransit, ImageAt
  <2> QED
    BY <1>0, <2>1, <2>2, NumberedSame
<1>14. CASE PMNotMapped
  <2> DEFINE m == Msg("WM_RECOGNITION_ERROR", 0, 0, 0)
  <2>1. m \in Message /\ m.type # "WM_IMAGE"
    BY MessageTypes DEF Msg
  <2>2. /\ OtherMessage
        /\ UNCHANGED <<recv_bufs, work_queue, pmQ, corePc, coreMsg>>
        /\ (PMHolds' <=> PMHolds) /\ (PMHolds => pmMsg' = pmMsg)
        /\ (PMOwns' <=> PMOwns) /\ UNCHANGED file_mapping_op_finish
    BY <1>14, <2>1 DEF PMNotMapped, OtherMessage, PMHolds, PMOwns, sharedVars
  <2>3. InTransit' = InTransit /\ (TokenLost' <=> TokenLost)
    BY <2>2 DEF TokenLost, CoreOwns, InTransit, ImageAt
  <2>4. Consecutive(coreQ', Taken, Len(recv_bufs'))
    BY <2>2, OtherConsecutive
  <2> QED
    BY <2>2, <2>3, <2>4, NumberedSame
<1>15. CASE PMGetImage
  <2>1. /\ pmQ # <<>> /\ Head(pmQ).type = "WM_IMAGE" /\ pmQ' = Tail(pmQ) /\ pmMsg' = Head(pmQ)
        /\ pmPc = "loop" /\ pmPc' = "read"
        /\ UNCHANGED <<coreQ, recv_bufs, work_queue, corePc, coreMsg, file_mapping_op_finish>>
    BY <1>15 DEF PMGetImage, PMHandles, serverVars, sharedVars
  <2>2. 1 \in InTransit /\ InTransit' = {} /\ Head(pmQ) = pmQ[1]
    BY <1>0, <2>1, ImageAtTail DEF InTransit, OneOwner
  <2>3. ~PMHolds /\ PMHolds' /\ ~TokenLost /\ ~TokenLost'
    BY <2>1, <2>2 DEF PMHolds, TokenLost, PMOwns
  <2>4. Left' = Left /\ Taken' = Taken
    <3>1. /\ One(InTransit # {}) = 1 /\ One(TokenLost) = 0 /\ One(PMHolds) = 0
          /\ One(InTransit # {})' = 0 /\ One(TokenLost)' = 0 /\ One(PMHolds)' = 1
      BY <2>2, <2>3 DEF One
    <3>2. Left' = Left
      BY <1>0, <2>1, <3>1 DEF Left
    <3> QED
      BY <2>1, <3>2 DEF Taken, One
  <2>5. Consecutive(coreQ, Taken, Len(recv_bufs))'
    BY <1>0, <2>1, <2>4 DEF Consecutive, ImageAt
  <2>6. pmMsg'.of = Len(work_queue') + 1
    BY <1>0, <2>1, <2>2, <2>3 DEF Numbered, One
  <2>7. corePc' # "loop" => coreMsg'.of = Taken'
    BY <2>1, <2>4 DEF Numbered
  <2> QED
    BY <2>2, <2>5, <2>6, <2>7 DEF Numbered
<1>16. CASE PMRead
  <2>1. /\ UNCHANGED <<coreQ, recv_bufs, work_queue, pmQ, corePc, coreMsg>>
        /\ (PMHolds' <=> PMHolds) /\ (PMHolds => pmMsg' = pmMsg)
        /\ (PMOwns' <=> PMOwns) /\ UNCHANGED file_mapping_op_finish
    BY <1>16 DEF PMRead, PMHolds, PMOwns, serverVars, sharedVars
  <2>2. InTransit' = InTransit /\ (TokenLost' <=> TokenLost)
    BY <2>1 DEF TokenLost, CoreOwns, InTransit, ImageAt
  <2> QED
    BY <1>0, <2>1, <2>2, NumberedSame
<1>17. CASE PMSignal
  <2>1. /\ UNCHANGED <<coreQ, recv_bufs, work_queue, pmQ, pmMsg, corePc, coreMsg>>
        /\ PMHolds' = PMHolds /\ PMOwns /\ file_mapping_op_finish'
    BY <1>17 DEF PMSignal, PMHolds, PMOwns, serverVars
  <2>2. InTransit' = InTransit /\ (TokenLost' <=> TokenLost)
    BY <2>1 DEF TokenLost, InTransit, ImageAt
  <2> QED
    BY <1>0, <2>1, <2>2, NumberedSame
<1>18. CASE PMQueue
  <2>1. CASE vu.len = 0
    <3>1. UNCHANGED <<coreQ, recv_bufs, work_queue, pmQ, pmPc, pmMsg, corePc, coreMsg, file_mapping_op_finish>>
      BY <1>18, <2>1 DEF PMQueue, serverVars, sharedVars
    <3> QED
      BY <1>0, <3>1, NumberedStill
  <2>2. CASE vu.len # 0
    <3>1. /\ pmPc = "queue" /\ pmPc' = "loop"
          /\ UNCHANGED <<coreQ, recv_bufs, pmQ, corePc, coreMsg, file_mapping_op_finish>>
      BY <1>18, <2>2 DEF PMQueue, serverVars, sharedVars
    <3>2. Len(work_queue') = Len(work_queue) + 1
      <4>1. \E w : work_queue' = Append(work_queue, w)
        BY <1>18, <2>2 DEF PMQueue
      <4> QED
        BY <4>1 DEF Types, PMTypes
    <3>3. /\ PMHolds /\ ~PMHolds' /\ InTransit' = InTransit /\ (TokenLost' <=> TokenLost)
      BY <3>1 DEF PMHolds, InTransit, ImageAt, TokenLost, CoreOwns, PMOwns
    <3>4. Left' = Left /\ Taken' = Taken
      BY <1>0, <3>1, <3>2, <3>3 DEF Taken, Left, One
    <3>5. Consecutive(coreQ, Taken, Len(recv_bufs))'
      BY <1>0, <3>1, <3>4 DEF Consecutive, ImageAt
    <3>6. \A i \in InTransit' : pmQ'[i].of = Len(work_queue') + One(PMHolds)' + 1
      BY <1>0, <3>1, <3>2, <3>3 DEF Numbered, One
    <3> QED
      BY <3>1, <3>3, <3>4, <3>5, <3>6 DEF Numbered
  <2> QED
    BY <2>1, <2>2
<1>19. CASE PMDisconnect
  <2>1. /\ pmQ # <<>> /\ Head(pmQ).type # "WM_IMAGE" /\ pmQ' = Tail(pmQ)
        /\ UNCHANGED <<coreQ, recv_bufs, work_queue, corePc, coreMsg, file_mapping_op_finish>>
        /\ ~PMHolds /\ ~PMHolds' /\ ~PMOwns /\ ~PMOwns'
    BY <1>19 DEF PMDisconnect, PMHandles, PMHolds, PMOwns, serverVars, sharedVars
  <2>2. /\ \A i \in InTransit' : i + 1 \in InTransit /\ pmQ'[i] = pmQ[i + 1]
        /\ \A i \in InTransit : i - 1 \in InTransit'
    BY <1>0, <2>1, ImageAtTail DEF InTransit
  <2>3. InTransit' = {} <=> InTransit = {}
    BY <2>2
  <2>4. TokenLost' <=> TokenLost
    BY <2>1, <2>3 DEF TokenLost, CoreOwns
  <2>5. \A i \in InTransit' : \E j \in InTransit : pmQ'[i].of = pmQ[j].of
    BY <2>2
  <2> QED
    BY <1>0, <2>1, <2>3, <2>4, <2>5, NumberedSame
<1>20. CASE PMErase
  <2>1. /\ UNCHANGED <<coreQ, recv_bufs, work_queue, pmQ, corePc, coreMsg>>
        /\ (PMHolds' <=> PMHolds) /\ (PMHolds => pmMsg' = pmMsg)
        /\ (PMOwns' <=> PMOwns) /\ UNCHANGED file_mapping_op_finish
    BY <1>20 DEF PMErase, PMHolds, PMOwns, serverVars, sharedVars
  <2>2. InTransit' = InTransit /\ (TokenLost' <=> TokenLost)
    BY <2>1 DEF TokenLost, CoreOwns, InTransit, ImageAt
  <2> QED
    BY <1>0, <2>1, <2>2, NumberedSame
<1>21. CASE RecPop
  BY <1>21, NumberedStill DEF RecPop, OtherMessage, serverVars, sharedVars, pmVars
<1>22. CASE RecShow
  BY <1>22, NumberedStill DEF RecShow, OtherMessage, serverVars, sharedVars, pmVars
<1>23. CASE RecDetect
  BY <1>23, NumberedStill DEF RecDetect, OtherMessage, serverVars, sharedVars, pmVars
<1>24. CASE RecLock
  BY <1>24, NumberedStill DEF RecLock, OtherMessage, serverVars, sharedVars, pmVars
<1>25. CASE RecUpdate
  BY <1>25, NumberedStill DEF RecUpdate, OtherMessage, serverVars, sharedVars, pmVars
<1>26. CASE RecCopy
  BY <1>26, NumberedStill DEF RecCopy, OtherMessage, serverVars, sharedVars, pmVars
<1>27. CASE RecPost
  <2>1. Msg("WM_RESULT_DECTIVE", stray.core, count, popped) \in Message /\ Msg("WM_RESULT_DECTIVE", stray.core, count, popped).type # "WM_IMAGE"
    BY <1>27, MessageTypes DEF RecPost, Names, RecNames, Types, ServerTypes, RecTypes, Msg, StrayId, Cli
  <2>2. OtherMessage
    BY <1>27, <2>1 DEF RecPost, OtherMessage
  <2> QED
    BY <1>27, <2>2, NumberedStill DEF RecPost, sharedVars, pmVars
<1>28. CASE OperatorKey
  BY <1>28, NumberedStill DEF OperatorKey, OtherMessage, serverVars, sharedVars, pmVars
<1>29. CASE UNCHANGED vars
  BY <1>29, NumberedStill DEF vars, OtherMessage, serverVars, sharedVars, pmVars
<1> QED
  BY <1>1, <1>2, <1>3, <1>4, <1>5, <1>6, <1>7, <1>8, <1>9, <1>10, <1>11, <1>12, <1>13, <1>14, <1>15, <1>16, <1>17, <1>18, <1>19, <1>20, <1>21, <1>22, <1>23, <1>24, <1>25, <1>26, <1>27, <1>28, <1>29
  DEF Next, IOThreads, ServerCore, ProcessMessage, RecognitionCore

(* Initially nothing has been posted. *)
LEMMA InitNumbered == Init => Numbered
<1> SUFFICES ASSUME Init PROVE Numbered
  OBVIOUS
<1>1. /\ InTransit = {} /\ ~PMHolds /\ ~TokenLost /\ corePc = "loop" /\ ImageAt(coreQ) = {}
      /\ Len(work_queue) = 0 /\ Len(recv_bufs) = 0
  BY DEF Init, InTransit, ImageAt, PMHolds, TokenLost
<1>2. Taken = 0
  BY <1>1 DEF Taken, Left, One
<1> QED
  BY <1>1, <1>2 DEF Numbered, Consecutive

LEMMA NumberedAlways == Spec => []Numbered
BY InitNumbered, StepNumbered, TypeCorrect, OwnerCorrect, PTL DEF Spec

(* The order numbers the images, so counting them is adding the numbers up.  *)
LEMMA NumberedCounts == TypeOK /\ OneOwner /\ Numbered => Accounting
<1> SUFFICES ASSUME Types, OneOwner, Numbered PROVE Accounting
  BY DEF TypeOK
<1>1. Cardinality(ImageAt(coreQ)) = Len(recv_bufs) - Taken
  BY Counts, ConsecutiveCount DEF Numbered
<1>2. Cardinality(ImageAt(pmQ)) = One(InTransit # {})
  <2>1. CASE InTransit = {}
    BY <2>1, FS_EmptySet DEF InTransit, One
  <2>2. CASE InTransit # {}
    <3>1. PICK i : InTransit = {i}
      BY <2>2 DEF OneOwner
    <3> QED
      BY <2>2, <3>1, FS_Singleton DEF InTransit, One
  <2> QED
    BY <2>1, <2>2
<1>3. /\ One(PMHolds) \in Nat /\ One(InTransit # {}) \in Nat /\ One(TokenLost) \in Nat
      /\ One(corePc # "loop") \in Nat /\ Len(work_queue) \in Nat /\ Len(recv_bufs) \in Nat
  BY Counts DEF One
<1> DEFINE held == One(PMHolds)
           way == One(InTransit # {})
           lost == One(TokenLost)
           core == One(corePc # "loop")
           coming == Cardinality(ImageAt(coreQ))
<1>4. coming = Len(recv_bufs) - (Len(work_queue) + held + way + lost + core)
  BY <1>1 DEF Taken, Left
<1> SUFFICES Len(recv_bufs) = coming + core + way + held + Len(work_queue) + lost
  BY <1>2 DEF Accounting, ImagesIn
<1> HIDE DEF held, way, lost, core, coming
<1> QED
  <2>1. /\ held \in Nat /\ way \in Nat /\ lost \in Nat /\ core \in Nat
        /\ Len(work_queue) \in Nat /\ Len(recv_bufs) \in Nat
    BY <1>3 DEF held, way, lost, core
  <2> QED
    BY <1>4, <2>1

(* No buffer is ever forgotten, doubled or counted twice, on whatever way    *)
(* the two processes run or stop: at most one of all ever posted is lost.    *)
THEOREM AccountingCorrect == Spec => []Accounting
BY NumberedCounts, NumberedAlways, TypeCorrect, OwnerCorrect, PTL

(* What ProcessMessage has copied stays what it was until it is queued. *)
LEMMA VuUnchanged ==
  ASSUME TypeOK, VuExact,
         \A b \in 1..Len(recv_bufs) : recv_bufs'[b] = recv_bufs[b],
         pmPc' \in {"signal", "queue"} =>
           pmPc \in {"signal", "queue"} /\ UNCHANGED <<pmMsg, vu>>
  PROVE  VuExact'
BY DEF VuExact, TypeOK, Names, PMNames, PMKnows, PMHolds, NamesBuffer, ImageOf

(* ProcessMessage reads an image as whole as Core has copied it. *)
LEMMA StepVu == TypeOK /\ MappingUndisturbed /\ VuExact /\ [Next]_vars => VuExact'
<1> SUFFICES ASSUME TypeOK, MappingUndisturbed, VuExact, [Next]_vars PROVE VuExact'
  OBVIOUS
<1>1. ASSUME NEW c \in 1..client_id, NEW img \in Image, PostImage(c, img)
      PROVE  VuExact'
  <2>1. c \in Cli
    BY BoundsAssumption DEF TypeOK, Types, ServerTypes, Cli
  <2>2. \A b \in 1..Len(recv_bufs) : recv_bufs'[b] = recv_bufs[b]
    BY <1>1, <2>1, BufsGrow DEF PostImage, TypeOK
  <2> QED
    BY <1>1, <2>2, VuUnchanged DEF PostImage, pmVars
<1>2. CASE Accept
  BY <1>2, VuUnchanged DEF Accept, serverVars, pmVars
<1>3. CASE PostDisconnect
  BY <1>3, VuUnchanged DEF PostDisconnect, serverVars, pmVars
<1>4. CASE CoreGetImage
  BY <1>4, VuUnchanged DEF CoreGetImage, serverVars, pmVars
<1>5. CASE CoreWait
  BY <1>5, VuUnchanged DEF CoreWait, serverVars, pmVars
<1>6. CASE CoreCopy
  BY <1>6, VuUnchanged DEF CoreCopy, serverVars, pmVars
<1>7. CASE CorePost
  BY <1>7, VuUnchanged DEF CorePost, serverVars, pmVars
<1>8. CASE CoreGetRecognitionId
  BY <1>8, VuUnchanged DEF CoreGetRecognitionId, serverVars, pmVars
<1>9. CASE CoreResult
  BY <1>9, VuUnchanged DEF CoreResult, serverVars, pmVars
<1>10. CASE CoreDisconnect
  BY <1>10, VuUnchanged DEF CoreDisconnect, serverVars, pmVars
<1>11. CASE CoreError
  BY <1>11, VuUnchanged DEF CoreError, serverVars, pmVars
<1>12. CASE Register
  BY <1>12, VuUnchanged DEF Register, serverVars, pmVars
<1>13. CASE PMMapped
  BY <1>13, VuUnchanged DEF PMMapped, serverVars, pmVars
<1>14. CASE PMNotMapped
  BY <1>14, VuUnchanged DEF PMNotMapped, serverVars, pmVars
<1>15. CASE PMGetImage
  BY <1>15, VuUnchanged DEF PMGetImage, serverVars, pmVars
<1>16. CASE PMRead
  <2> DEFINE b == pmMsg.of
             n == Deserialze(file_mapping.hdr)
  <2>1. pmPc = "read" /\ PMOwns /\ b \in 1..Len(recv_bufs) /\ UNCHANGED <<recv_bufs, pmMsg>>
    BY <1>16 DEF PMRead, PMOwns, TypeOK, Names, PMNames, PMKnows, PMHolds, NamesBuffer, serverVars
  <2>2. CASE pmPc' = pmPc
    BY <2>1, <2>2, VuUnchanged
  <2>3. CASE vu' = [of |-> file_mapping.body, len |-> n]
    <3>1. SUFFICES ASSUME Exact(ImageOf(b)) PROVE vu' = [of |-> b, len |-> ImageOf(b).size]
      BY <2>1 DEF VuExact, ImageOf
    <3>2. file_mapping = [hdr |-> Header(b), body |-> b]
      BY <2>1, <3>1 DEF MappingUndisturbed, HoldsIfExact
    <3>3. Deserialze(Header(b)) = ImageOf(b).size
      BY <2>1, PostedHeader, SerializedBytes DEF TypeOK, Header
    <3> HIDE DEF b
    <3> QED
      BY <2>3, <3>2, <3>3
  <2> QED
    BY <1>16, <2>2, <2>3 DEF PMRead
<1>17. CASE PMSignal
  BY <1>17, VuUnchanged DEF PMSignal, serverVars, pmVars
<1>18. CASE PMQueue
  BY <1>18, VuUnchanged DEF PMQueue, serverVars, pmVars
<1>19. CASE PMDisconnect
  BY <1>19, VuUnchanged DEF PMDisconnect, serverVars, pmVars
<1>20. CASE PMErase
  BY <1>20, VuUnchanged DEF PMErase, serverVars, pmVars
<1>21. CASE RecPop
  BY <1>21, VuUnchanged DEF RecPop, serverVars, pmVars
<1>22. CASE RecShow
  BY <1>22, VuUnchanged DEF RecShow, serverVars, pmVars
<1>23. CASE RecDetect
  BY <1>23, VuUnchanged DEF RecDetect, serverVars, pmVars
<1>24. CASE RecLock
  BY <1>24, VuUnchanged DEF RecLock, serverVars, pmVars
<1>25. CASE RecUpdate
  BY <1>25, VuUnchanged DEF RecUpdate, serverVars, pmVars
<1>26. CASE RecCopy
  BY <1>26, VuUnchanged DEF RecCopy, serverVars, pmVars
<1>27. CASE RecPost
  BY <1>27, VuUnchanged DEF RecPost, serverVars, pmVars
<1>28. CASE OperatorKey
  BY <1>28, VuUnchanged DEF OperatorKey, serverVars, pmVars
<1>29. CASE UNCHANGED vars
  BY <1>29, VuUnchanged DEF vars, serverVars, pmVars
<1> QED
  BY <1>1, <1>2, <1>3, <1>4, <1>5, <1>6, <1>7, <1>8, <1>9, <1>10, <1>11, <1>12, <1>13, <1>14, <1>15, <1>16, <1>17, <1>18, <1>19, <1>20, <1>21, <1>22, <1>23, <1>24, <1>25, <1>26, <1>27, <1>28, <1>29
  DEF Next, IOThreads, ServerCore, ProcessMessage, RecognitionCore

(* Arrived images stay: neither list loses or changes an entry. *)
LEMMA ArrivalUnchanged ==
  ASSUME TypeOK, ArrivalExact, UNCHANGED work_queue,
         recv_bufs' = recv_bufs \/ \E r \in [cli : Cli, img : Image] : recv_bufs' = Append(recv_bufs, r)
  PROVE  ArrivalExact'
<1>1. /\ Len(recv_bufs) \in Nat /\ Len(recv_bufs') \in Nat /\ Len(recv_bufs) <= Len(recv_bufs')
      /\ \A b \in 1..Len(recv_bufs) : recv_bufs'[b] = recv_bufs[b]
  <2>1. CASE recv_bufs' = recv_bufs
    BY <2>1 DEF TypeOK, Types, ServerTypes
  <2>2. ASSUME NEW r \in [cli : Cli, img : Image], recv_bufs' = Append(recv_bufs, r)
        PROVE  <1>1!:
    BY <2>2, BufsGrow DEF TypeOK
  <2> QED
    BY <2>1, <2>2
<1> SUFFICES ASSUME NEW k \in 1..Len(work_queue)
             PROVE  /\ k <= Len(recv_bufs') /\ work_queue[k].cli = recv_bufs'[k].cli
                    /\ Exact(ImageOf(k))' =>
                         /\ work_queue[k].of = k /\ work_queue[k].len = ImageOf(k)'.size
                         /\ work_queue[k].mat = ImageOf(k)'.decodes
  BY DEF ArrivalExact
<1>2. k \in 1..Len(recv_bufs)
  BY DEF ArrivalExact, TypeOK, Types, PMTypes, ServerTypes
<1>3. ImageOf(k)' = ImageOf(k)
  BY <1>1, <1>2 DEF ImageOf
<1> QED
  BY <1>1, <1>2, <1>3 DEF ArrivalExact, Exact

(* The WorkInfo queued next is that of the next buffer posted. *)
LEMMA NextArrival ==
  ASSUME TypeOK, Numbered, VuExact, PMQueue, vu.len # 0
  PROVE  LET k == Len(work_queue) + 1
             w == work_queue'[k]
         IN  /\ Len(work_queue') = k /\ k \in 1..Len(recv_bufs) /\ k \in Nat
             /\ \A j \in 1..Len(work_queue) : work_queue'[j] = work_queue[j]
             /\ w.cli = recv_bufs[k].cli
             /\ Exact(ImageOf(k)) => w.of = k /\ w.len = ImageOf(k).size /\ w.mat = ImageOf(k).decodes
<1> DEFINE k == Len(work_queue) + 1
           w(mat) == [cli |-> pmMsg.wParam, of |-> vu.of, len |-> vu.len, mat |-> mat]
<1>1. PICK mat \in BOOLEAN : Decoded(vu, mat) /\ work_queue' = Append(work_queue, w(mat))
  BY DEF PMQueue
<1>2. /\ pmPc = "queue" /\ PMHolds /\ pmMsg.of = k /\ k \in 1..Len(recv_bufs)
      /\ pmMsg.wParam = recv_bufs[k].cli
  BY DEF PMQueue, PMHolds, Numbered, TypeOK, Names, PMNames, PMKnows, NamesBuffer
<1>3. /\ Len(work_queue') = k /\ work_queue'[k] = w(mat) /\ k \in Nat
      /\ \A j \in 1..Len(work_queue) : work_queue'[j] = work_queue[j]
  BY <1>1 DEF TypeOK, Types, PMTypes
<1>4. ASSUME Exact(ImageOf(k))
      PROVE  vu.of = k /\ vu.len = ImageOf(k).size /\ mat = ImageOf(k).decodes
  <2>1. vu.of = k /\ vu.len = ImageOf(k).size
    BY <1>2, <1>4 DEF VuExact
  <2>2. k # 0 /\ ImageOf(k).decodes \in BOOLEAN
    BY <1>2, PostedHeader, ImageAssumption DEF TypeOK
  <2> QED
    BY <1>1, <2>1, <2>2 DEF Decoded
<1> HIDE DEF k
<1> QED
  BY <1>2, <1>3, <1>4 DEF k

LEMMA StepArrival ==
  TypeOK /\ Numbered /\ VuExact /\ ArrivalExact /\ [Next]_vars => ArrivalExact'
<1> SUFFICES ASSUME TypeOK, Numbered, VuExact, ArrivalExact, [Next]_vars PROVE ArrivalExact'
  OBVIOUS
<1>1. ASSUME NEW c \in 1..client_id, NEW img \in Image, PostImage(c, img)
      PROVE  ArrivalExact'
  <2>1. [cli |-> c, img |-> img] \in [cli : Cli, img : Image]
    BY BoundsAssumption DEF TypeOK, Types, ServerTypes, Cli
  <2> QED
    BY <1>1, <2>1, ArrivalUnchanged DEF PostImage, pmVars
<1>2. CASE Accept
  BY <1>2, ArrivalUnchanged DEF Accept, serverVars, pmVars
<1>3. CASE PostDisconnect
  BY <1>3, ArrivalUnchanged DEF PostDisconnect, serverVars, pmVars
<1>4. CASE CoreGetImage
  BY <1>4, ArrivalUnchanged DEF CoreGetImage, serverVars, pmVars
<1>5. CASE CoreWait
  BY <1>5, ArrivalUnchanged DEF CoreWait, serverVars, pmVars
<1>6. CASE CoreCopy
  BY <1>6, ArrivalUnchanged DEF CoreCopy, serverVars, pmVars
<1>7. CASE CorePost
  BY <1>7, ArrivalUnchanged DEF CorePost, serverVars, pmVars
<1>8. CASE CoreGetRecognitionId
  BY <1>8, ArrivalUnchanged DEF CoreGetRecognitionId, serverVars, pmVars
<1>9. CASE CoreResult
  BY <1>9, ArrivalUnchanged DEF CoreResult, serverVars, pmVars
<1>10. CASE CoreDisconnect
  BY <1>10, ArrivalUnchanged DEF CoreDisconnect, serverVars, pmVars
<1>11. CASE CoreError
  BY <1>11, ArrivalUnchanged DEF CoreError, serverVars, pmVars
<1>12. CASE Register
  BY <1>12, ArrivalUnchanged DEF Register, serverVars, pmVars
<1>13. CASE PMMapped
  BY <1>13, ArrivalUnchanged DEF PMMapped, serverVars, pmVars
<1>14. CASE PMNotMapped
  BY <1>14, ArrivalUnchanged DEF PMNotMapped, serverVars, pmVars
<1>15. CASE PMGetImage
  BY <1>15, ArrivalUnchanged DEF PMGetImage, serverVars, pmVars
<1>16. CASE PMRead
  BY <1>16, ArrivalUnchanged DEF PMRead, serverVars, pmVars
<1>17. CASE PMSignal
  BY <1>17, ArrivalUnchanged DEF PMSignal, serverVars, pmVars
<1>18. CASE PMQueue
  <2>1. CASE vu.len = 0
    BY <1>18, <2>1, ArrivalUnchanged DEF PMQueue, serverVars
  <2>2. CASE vu.len # 0
    <3> SUFFICES ASSUME NEW j \in 1..Len(work_queue')
                 PROVE  /\ j <= Len(recv_bufs) /\ work_queue'[j].cli = recv_bufs[j].cli
                        /\ Exact(ImageOf(j)) =>
                             /\ work_queue'[j].of = j /\ work_queue'[j].len = ImageOf(j).size
                             /\ work_queue'[j].mat = ImageOf(j).decodes
      BY <1>18 DEF ArrivalExact, PMQueue, serverVars, ImageOf, Exact
    <3>1. CASE j = Len(work_queue) + 1
      BY <1>18, <2>2, <3>1, NextArrival
    <3>2. CASE j # Len(work_queue) + 1
      <4>1. j \in 1..Len(work_queue) /\ work_queue'[j] = work_queue[j]
        BY <1>18, <2>2, <3>2, NextArrival
      <4> QED
        BY <4>1 DEF ArrivalExact
    <3> QED
      BY <3>1, <3>2
  <2> QED
    BY <2>1, <2>2
<1>19. CASE PMDisconnect
  BY <1>19, ArrivalUnchanged DEF PMDisconnect, serverVars, pmVars
<1>20. CASE PMErase
  BY <1>20, ArrivalUnchanged DEF PMErase, serverVars, pmVars
<1>21. CASE RecPop
  BY <1>21, ArrivalUnchanged DEF RecPop, serverVars, pmVars
<1>22. CASE RecShow
  BY <1>22, ArrivalUnchanged DEF RecShow, serverVars, pmVars
<1>23. CASE RecDetect
  BY <1>23, ArrivalUnchanged DEF RecDetect, serverVars, pmVars
<1>24. CASE RecLock
  BY <1>24, ArrivalUnchanged DEF RecLock, serverVars, pmVars
<1>25. CASE RecUpdate
  BY <1>25, ArrivalUnchanged DEF RecUpdate, serverVars, pmVars
<1>26. CASE RecCopy
  BY <1>26, ArrivalUnchanged DEF RecCopy, serverVars, pmVars
<1>27. CASE RecPost
  BY <1>27, ArrivalUnchanged DEF RecPost, serverVars, pmVars
<1>28. CASE OperatorKey
  BY <1>28, ArrivalUnchanged DEF OperatorKey, serverVars, pmVars
<1>29. CASE UNCHANGED vars
  BY <1>29, ArrivalUnchanged DEF vars, serverVars, pmVars
<1> QED
  BY <1>1, <1>2, <1>3, <1>4, <1>5, <1>6, <1>7, <1>8, <1>9, <1>10, <1>11, <1>12, <1>13, <1>14, <1>15, <1>16, <1>17, <1>18, <1>19, <1>20, <1>21, <1>22, <1>23, <1>24, <1>25, <1>26, <1>27, <1>28, <1>29
  DEF Next, IOThreads, ServerCore, ProcessMessage, RecognitionCore

LEMMA VuAlways == Spec => []VuExact
<1>1. Init => VuExact
  BY DEF Init, VuExact
<1> QED
  BY <1>1, StepVu, TypeCorrect, MappingCorrect, PTL DEF Spec

(* The k-th image in work_queue is the k-th one posted to Server::Core, with *)
(* its client's id, and whole if Core can read its size back.                *)
THEOREM ArrivalCorrect == Spec => []ArrivalExact
<1>1. Init => ArrivalExact
  BY DEF Init, ArrivalExact
<1> QED
  BY <1>1, StepArrival, NumberedAlways, VuAlways, TypeCorrect, PTL DEF Spec

(* The path never heals. *)
LEMMA StepBroken == TypeOK /\ [Next]_vars => (Healthy' => Healthy)
<1> SUFFICES ASSUME TypeOK, [Next]_vars, Healthy' PROVE Healthy
  OBVIOUS
<1>0. ~TokenLost
  BY StepLost DEF Healthy
<1>1. serverUp /\ frUp /\ pmPc # "ended"
  <2>1. ASSUME NEW c \in 1..client_id, NEW img \in Image, PostImage(c, img)
        PROVE  serverUp /\ frUp /\ pmPc # "ended"
    BY <2>1 DEF PostImage, Healthy, sharedVars, pmVars
  <2>2. CASE Accept
    BY <2>2 DEF Accept, Healthy, CoreHandles, PMHandles, serverVars, sharedVars, pmVars
  <2>3. CASE PostDisconnect
    BY <2>3 DEF PostDisconnect, Healthy, CoreHandles, PMHandles, serverVars, sharedVars, pmVars
  <2>4. CASE CoreGetImage
    BY <2>4 DEF CoreGetImage, Healthy, CoreHandles, PMHandles, serverVars, sharedVars, pmVars
  <2>5. CASE CoreWait
    BY <2>5 DEF CoreWait, Healthy, CoreHandles, PMHandles, serverVars, sharedVars, pmVars
  <2>6. CASE CoreCopy
    BY <2>6 DEF CoreCopy, Healthy, CoreHandles, PMHandles, serverVars, sharedVars, pmVars
  <2>7. CASE CorePost
    BY <2>7 DEF CorePost, Healthy, CoreHandles, PMHandles, serverVars, sharedVars, pmVars
  <2>8. CASE CoreGetRecognitionId
    BY <2>8 DEF CoreGetRecognitionId, Healthy, CoreHandles, PMHandles, serverVars, sharedVars, pmVars
  <2>9. CASE CoreResult
    BY <2>9 DEF CoreResult, Healthy, CoreHandles, PMHandles, serverVars, sharedVars, pmVars
  <2>10. CASE CoreDisconnect
    BY <2>10 DEF CoreDisconnect, Healthy, CoreHandles, PMHandles, serverVars, sharedVars, pmVars
  <2>11. CASE CoreError
    BY <2>11 DEF CoreError, Healthy, CoreHandles, PMHandles, serverVars, sharedVars, pmVars
  <2>12. CASE Register
    BY <2>12 DEF Register, Healthy, CoreHandles, PMHandles, serverVars, sharedVars, pmVars
  <2>13. CASE PMMapped
    BY <2>13 DEF PMMapped, Healthy, CoreHandles, PMHandles, serverVars, sharedVars, pmVars
  <2>14. CASE PMNotMapped
    BY <2>14 DEF PMNotMapped, Healthy, CoreHandles, PMHandles, serverVars, sharedVars, pmVars
  <2>15. CASE PMGetImage
    BY <2>15 DEF PMGetImage, Healthy, CoreHandles, PMHandles, serverVars, sharedVars, pmVars
  <2>16. CASE PMRead
    BY <2>16 DEF PMRead, Healthy, CoreHandles, PMHandles, serverVars, sharedVars, pmVars
  <2>17. CASE PMSignal
    BY <2>17 DEF PMSignal, Healthy, CoreHandles, PMHandles, serverVars, sharedVars, pmVars
  <2>18. CASE PMQueue
    BY <2>18 DEF PMQueue, Healthy, CoreHandles, PMHandles, serverVars, sharedVars, pmVars
  <2>19. CASE PMDisconnect
    BY <2>19 DEF PMDisconnect, Healthy, CoreHandles, PMHandles, serverVars, sharedVars, pmVars
  <2>20. CASE PMErase
    BY <2>20 DEF PMErase, Healthy, CoreHandles, PMHandles, serverVars, sharedVars, pmVars
  <2>21. CASE RecPop
    BY <2>21 DEF RecPop, Healthy, CoreHandles, PMHandles, serverVars, sharedVars, pmVars
  <2>22. CASE RecShow
    BY <2>22 DEF RecShow, Healthy, CoreHandles, PMHandles, serverVars, sharedVars, pmVars
  <2>23. CASE RecDetect
    BY <2>23 DEF RecDetect, Healthy, CoreHandles, PMHandles, serverVars, sharedVars, pmVars
  <2>24. CASE RecLock
    BY <2>24 DEF RecLock, Healthy, CoreHandles, PMHandles, serverVars, sharedVars, pmVars
  <2>25. CASE RecUpdate
    BY <2>25 DEF RecUpdate, Healthy, CoreHandles, PMHandles, serverVars, sharedVars, pmVars
  <2>26. CASE RecCopy
    BY <2>26 DEF RecCopy, Healthy, CoreHandles, PMHandles, serverVars, sharedVars, pmVars
  <2>27. CASE RecPost
    BY <2>27 DEF RecPost, Healthy, CoreHandles, PMHandles, serverVars, sharedVars, pmVars
  <2>28. CASE OperatorKey
    BY <2>28 DEF OperatorKey, Healthy, CoreHandles, PMHandles, serverVars, sharedVars, pmVars
  <2>29. CASE UNCHANGED vars
    BY <2>29 DEF vars, Healthy, serverVars, pmVars
  <2> QED
    BY <2>1, <2>2, <2>3, <2>4, <2>5, <2>6, <2>7, <2>8, <2>9, <2>10, <2>11, <2>12, <2>13, <2>14, <2>15, <2>16, <2>17, <2>18, <2>19, <2>20, <2>21, <2>22, <2>23, <2>24, <2>25, <2>26, <2>27, <2>28, <2>29
    DEF Next, IOThreads, ServerCore, ProcessMessage, RecognitionCore
<1> QED
  BY <1>0, <1>1 DEF Healthy

(* A step that moves no image does not move the abstract path, or breaks it. *)
LEMMA PathUnchanged ==
  ASSUME TypeOK, Healthy' => Healthy, UNCHANGED <<recv_bufs, work_queue>>
  PROVE  [Path!Next]_(Path!vars)
<1>1. Healthy \in BOOLEAN /\ Healthy' \in BOOLEAN
  BY DEF Healthy
<1> QED
  BY <1>1 DEF Path!Next, Path!Break, Path!vars, Received, ImageOf

(* A buffer posted to Server::Core is posted to the abstract path. *)
LEMMA PathPost ==
  ASSUME TypeOK, NEW c \in 1..client_id, NEW img \in Image, PostImage(c, img)
  PROVE  [Path!Next]_(Path!vars)
<1> DEFINE r == [cli |-> c, img |-> img]
           seen(w) == [cli |-> w.cli, img |-> Received(w)]
<1>1. c \in Cli /\ r \in [cli : Cli, img : Image]
  BY BoundsAssumption DEF TypeOK, Types, ServerTypes, Cli
<1>2. recv_bufs' = Append(recv_bufs, r) /\ UNCHANGED work_queue
  BY DEF PostImage, pmVars
<1>3. \A b \in 1..Len(recv_bufs) : recv_bufs'[b] = recv_bufs[b]
  BY <1>1, <1>2, BufsGrow DEF TypeOK
<1>4. \A k \in 1..Len(work_queue) :
        work_queue[k].of = 0 \/ work_queue[k].of \in 1..Len(recv_bufs)
  <2> SUFFICES ASSUME NEW k \in 1..Len(work_queue)
               PROVE  work_queue[k].of = 0 \/ work_queue[k].of \in 1..Len(recv_bufs)
    OBVIOUS
  <2>1. work_queue[k].of \in Nat
    <3>1. work_queue[k] \in [cli : StrayId, of : Nat, len : Nat, mat : BOOLEAN]
      BY ElementOfSeq DEF TypeOK, Types, PMTypes
    <3> QED
      BY <3>1
  <2>2. work_queue[k].of <= Len(recv_bufs)
    BY DEF TypeOK, Names, DataNames, Range
  <2> QED
    BY <2>1, <2>2 DEF TypeOK, Types, ServerTypes
<1>5. \A k \in 1..Len(work_queue) : Received(work_queue[k])' = Received(work_queue[k])
  BY <1>2, <1>3, <1>4 DEF Received, ImageOf
<1>6. Healthy' = Healthy
  BY DEF PostImage, Healthy, TokenLost, CoreOwns, PMOwns, InTransit, sharedVars, pmVars
<1>7. [k \in 1..Len(work_queue) |-> seen(work_queue[k])]'
        = [k \in 1..Len(work_queue) |-> seen(work_queue[k])]
  BY <1>2, <1>5
<1> QED
  BY <1>1, <1>2, <1>6, <1>7 DEF Path!Next, Path!Post

(* A WorkInfo queued is the delivery of the next image. *)
LEMMA PathDeliver ==
  ASSUME TypeOK, Numbered, VuExact, PMQueue, vu.len # 0
  PROVE  [Path!Next]_(Path!vars)
<1> DEFINE seen(w) == [cli |-> w.cli, img |-> Received(w)]
           arrived == [k \in 1..Len(work_queue) |-> seen(work_queue[k])]
<1> PICK n \in Nat : n = Len(work_queue) + 1
  BY DEF TypeOK, Types, PMTypes
<1>1. /\ Len(work_queue') = n /\ n \in 1..Len(recv_bufs) /\ n \in Nat
      /\ \A j \in 1..Len(work_queue) : work_queue'[j] = work_queue[j]
      /\ work_queue'[n].cli = recv_bufs[n].cli
      /\ Exact(ImageOf(n)) => work_queue'[n].of = n /\ work_queue'[n].len = ImageOf(n).size
  BY NextArrival
<1>2. UNCHANGED recv_bufs
  BY DEF PMQueue, serverVars
<1>3. Healthy' = Healthy
  BY DEF PMQueue, Healthy, TokenLost, CoreOwns, PMOwns, InTransit, ImageAt, serverVars, sharedVars
<1>4. Len(arrived) = Len(work_queue) /\ Len(arrived') = n
  BY <1>1 DEF TypeOK, Types, PMTypes
<1>5. \A k \in 1..Len(work_queue) : arrived'[k] = arrived[k]
  BY <1>1, <1>2, <1>4 DEF Received, ImageOf
<1>6. arrived'[n] = [cli |-> work_queue'[n].cli, img |-> Received(work_queue[n])']
  BY <1>1
<1>7. Path!Faithful(recv_bufs[n], arrived'[n])
  <2>1. Exact(recv_bufs[n].img) => Received(work_queue[n])' = recv_bufs[n].img
    BY <1>1, <1>2 DEF Received, ImageOf
  <2> HIDE DEF arrived
  <2> QED
    BY <1>1, <1>6, <2>1 DEF Path!Faithful
<1>8. Path!Deliver
  <2>1. Len(work_queue) < Len(recv_bufs)
    BY <1>1 DEF TypeOK, Types, PMTypes, ServerTypes
  <2>2. Len(arrived) < Len(recv_bufs) /\ Len(arrived') = Len(arrived) + 1
    BY <1>4, <2>1 DEF TypeOK, Types, PMTypes
  <2>3. Path!Faithful(recv_bufs[Len(arrived')], arrived'[Len(arrived')])
    BY <1>4, <1>7
  <2>4. \A k \in 1..Len(arrived) : arrived'[k] = arrived[k]
    BY <1>4, <1>5
  <2> HIDE DEF arrived
  <2> QED
    BY <1>2, <1>3, <2>2, <2>3, <2>4 DEF Path!Deliver, arrived
<1> QED
  BY <1>8 DEF Path!Next

(* Every step of the path is a step of the abstract one, or none of it. *)
LEMMA StepPath == TypeOK /\ Numbered /\ VuExact /\ [Next]_vars => [Path!Next]_(Path!vars)
<1> SUFFICES ASSUME TypeOK, Numbered, VuExact, [Next]_vars PROVE [Path!Next]_(Path!vars)
  OBVIOUS
<1>0. Healthy' => Healthy
  BY StepBroken
<1>1. ASSUME NEW c \in 1..client_id, NEW img \in Image, PostImage(c, img)
      PROVE  [Path!Next]_(Path!vars)
  BY <1>1, PathPost
<1>2. CASE Accept
  BY <1>0, <1>2, PathUnchanged DEF Accept, serverVars, pmVars
<1>3. CASE PostDisconnect
  BY <1>0, <1>3, PathUnchanged DEF PostDisconnect, serverVars, pmVars
<1>4. CASE CoreGetImage
  BY <1>0, <1>4, PathUnchanged DEF CoreGetImage, serverVars, pmVars
<1>5. CASE CoreWait
  BY <1>0, <1>5, PathUnchanged DEF CoreWait, serverVars, pmVars
<1>6. CASE CoreCopy
  BY <1>0, <1>6, PathUnchanged DEF CoreCopy, serverVars, pmVars
<1>7. CASE CorePost
  BY <1>0, <1>7, PathUnchanged DEF CorePost, serverVars, pmVars
<1>8. CASE CoreGetRecognitionId
  BY <1>0, <1>8, PathUnchanged DEF CoreGetRecognitionId, serverVars, pmVars
<1>9. CASE CoreResult
  BY <1>0, <1>9, PathUnchanged DEF CoreResult, serverVars, pmVars
<1>10. CASE CoreDisconnect
  BY <1>0, <1>10, PathUnchanged DEF CoreDisconnect, serverVars, pmVars
<1>11. CASE CoreError
  BY <1>0, <1>11, PathUnchanged DEF CoreError, serverVars, pmVars
<1>12. CASE Register
  BY <1>0, <1>12, PathUnchanged DEF Register, serverVars, pmVars
<1>13. CASE PMMapped
  BY <1>0, <1>13, PathUnchanged DEF PMMapped, serverVars, pmVars
<1>14. CASE PMNotMapped
  BY <1>0, <1>14, PathUnchanged DEF PMNotMapped, serverVars, pmVars
<1>15. CASE PMGetImage
  BY <1>0, <1>15, PathUnchanged DEF PMGetImage, serverVars, pmVars
<1>16. CASE PMRead
  BY <1>0, <1>16, PathUnchanged DEF PMRead, serverVars, pmVars
<1>17. CASE PMSignal
  BY <1>0, <1>17, PathUnchanged DEF PMSignal, serverVars, pmVars
<1>18. CASE PMQueue
  <2>1. CASE vu.len = 0
    BY <1>0, <1>18, <2>1, PathUnchanged DEF PMQueue, serverVars
  <2>2. CASE vu.len # 0
    BY <1>18, <2>2, PathDeliver
  <2> QED
    BY <2>1, <2>2
<1>19. CASE PMDisconnect
  BY <1>0, <1>19, PathUnchanged DEF PMDisconnect, serverVars, pmVars
<1>20. CASE PMErase
  BY <1>0, <1>20, PathUnchanged DEF PMErase, serverVars, pmVars
<1>21. CASE RecPop
  BY <1>0, <1>21, PathUnchanged DEF RecPop, serverVars, pmVars
<1>22. CASE RecShow
  BY <1>0, <1>22, PathUnchanged DEF RecShow, serverVars, pmVars
<1>23. CASE RecDetect
  BY <1>0, <1>23, PathUnchanged DEF RecDetect, serverVars, pmVars
<1>24. CASE RecLock
  BY <1>0, <1>24, PathUnchanged DEF RecLock, serverVars, pmVars
<1>25. CASE RecUpdate
  BY <1>0, <1>25, PathUnchanged DEF RecUpdate, serverVars, pmVars
<1>26. CASE RecCopy
  BY <1>0, <1>26, PathUnchanged DEF RecCopy, serverVars, pmVars
<1>27. CASE RecPost
  BY <1>0, <1>27, PathUnchanged DEF RecPost, serverVars, pmVars
<1>28. CASE OperatorKey
  BY <1>0, <1>28, PathUnchanged DEF OperatorKey, serverVars, pmVars
<1>29. CASE UNCHANGED vars
  BY <1>0, <1>29, PathUnchanged DEF vars, serverVars, pmVars
<1> QED
  BY <1>1, <1>2, <1>3, <1>4, <1>5, <1>6, <1>7, <1>8, <1>9, <1>10, <1>11, <1>12, <1>13, <1>14, <1>15, <1>16, <1>17, <1>18, <1>19, <1>20, <1>21, <1>22, <1>23, <1>24, <1>25, <1>26, <1>27, <1>28, <1>29
  DEF Next, IOThreads, ServerCore, ProcessMessage, RecognitionCore

(* The two processes, their queues, the section and the event implement      *)
(* ImageQueue: nothing is invented, reordered or mixed, and a break is final.*)
THEOREM PathImplemented == Spec => PathSpec
<1>1. Init => Path!Init
  <2> SUFFICES ASSUME Init PROVE Path!Init
    OBVIOUS
  <2>1. recv_bufs = <<>> /\ Len(work_queue) = 0 /\ Healthy = TRUE
    BY DEF Init, Healthy, TokenLost
  <2> QED
    BY <2>1 DEF Path!Init
<1>2. TypeOK /\ Numbered /\ VuExact /\ [Next]_vars => [Path!Next]_(Path!vars)
  BY StepPath
<1> QED
  BY <1>1, <1>2, TypeCorrect, NumberedAlways, VuAlways, PTL DEF Spec, PathSpec, Path!Spec

-------------------------------------------------------------------------------
(* The results on their way back. *)

ResultAt(q) == {i \in 1..Len(q) : q[i].type = "WM_RESULT_DECTIVE"}

(* How many images the recognition thread is done with. *)
Reached == IF recPc = "poll" THEN popped ELSE popped - 1

(* Results sent, then those queued, in the order of their images. *)
Rising ==
  /\ \A i, j \in ResultAt(coreQ) : i < j => coreQ[i].of < coreQ[j].of
  /\ \A i, j \in 1..Len(sent) : i < j => sent[i].of < sent[j].of
  /\ \A i \in 1..Len(sent), j \in ResultAt(coreQ) : sent[i].of < coreQ[j].of
  /\ \A j \in ResultAt(coreQ) : coreQ[j].of <= Reached
  /\ \A i \in 1..Len(sent) : sent[i].of <= Reached

(* The section holds rectangles at least as new as any queued result's. *)
Fresh ==
  /\ recPc = "post" /\ count > 0 => rects_mapping = popped
  /\ \A j \in ResultAt(coreQ) : coreQ[j].lParam > 0 => coreQ[j].of <= rects_mapping
  /\ \A i \in 1..Len(sent) : sent[i].n > 0 => sent[i].slot \in sent[i].of..popped

LEMMA ResultAtAppend ==
  ASSUME NEW q \in Seq(Message), NEW m \in Message
  PROVE  /\ ResultAt(Append(q, m)) = IF m.type = "WM_RESULT_DECTIVE"
                                     THEN ResultAt(q) \cup {Len(q) + 1} ELSE ResultAt(q)
         /\ \A i \in ResultAt(q) : Append(q, m)[i] = q[i] /\ i \in 1..Len(q)
         /\ Append(q, m)[Len(q) + 1] = m
<1>1. /\ Len(Append(q, m)) = Len(q) + 1 /\ Len(q) \in Nat
      /\ \A i \in 1..Len(q) : Append(q, m)[i] = q[i]
      /\ Append(q, m)[Len(q) + 1] = m
  OBVIOUS
<1>2. CASE m.type = "WM_RESULT_DECTIVE"
  BY <1>1, <1>2 DEF ResultAt
<1>3. CASE m.type # "WM_RESULT_DECTIVE"
  BY <1>1, <1>3 DEF ResultAt
<1> QED
  BY <1>1, <1>2, <1>3 DEF ResultAt

LEMMA ResultAtTail ==
  ASSUME NEW q \in Seq(Message), q # <<>>
  PROVE  /\ \A i \in ResultAt(Tail(q)) :
              i + 1 \in ResultAt(q) /\ Tail(q)[i] = q[i + 1] /\ i \in Nat \ {0}
         /\ 1 \in ResultAt(q) <=> Head(q).type = "WM_RESULT_DECTIVE"
         /\ Head(q) = q[1]
<1>1. /\ Len(Tail(q)) = Len(q) - 1 /\ Len(q) \in Nat \ {0} /\ Head(q) = q[1]
      /\ \A i \in 1..Len(Tail(q)) : Tail(q)[i] = q[i + 1]
  OBVIOUS
<1> QED
  BY <1>1 DEF ResultAt

(* A step that posts no result to Core: each result queued was queued before *)
(* it, in the same order.                                                    *)
NoNewResult ==
  \/ coreQ' = coreQ
  \/ \E m \in Message : m.type # "WM_RESULT_DECTIVE" /\ coreQ' = Append(coreQ, m)
  \/ coreQ # <<>> /\ coreQ' = Tail(coreQ)

LEMMA ResultsKept ==
  ASSUME Types, NoNewResult
  PROVE  \E d \in {0, 1} : \A i \in ResultAt(coreQ') :
           i \in Nat /\ i + d \in ResultAt(coreQ) /\ coreQ'[i] = coreQ[i + d]
<1>1. coreQ \in Seq(Message)
  BY DEF Types, ServerTypes
<1>2. CASE coreQ' = coreQ
  <2>1. \A i \in ResultAt(coreQ') : i \in Nat /\ i + 0 = i
    BY DEF ResultAt
  <2> QED
    BY <1>2, <2>1
<1>3. ASSUME NEW m \in Message, m.type # "WM_RESULT_DECTIVE", coreQ' = Append(coreQ, m)
      PROVE  \A i \in ResultAt(coreQ') :
               i \in Nat /\ i + 0 \in ResultAt(coreQ) /\ coreQ'[i] = coreQ[i + 0]
  <2>1. /\ ResultAt(coreQ') = ResultAt(coreQ)
        /\ \A i \in ResultAt(coreQ) : coreQ'[i] = coreQ[i]
    BY <1>1, <1>3, ResultAtAppend
  <2>2. \A i \in ResultAt(coreQ) : i \in Nat /\ i + 0 = i
    BY DEF ResultAt
  <2> QED
    BY <2>1, <2>2
<1>4. CASE coreQ # <<>> /\ coreQ' = Tail(coreQ)
  BY <1>1, <1>4, ResultAtTail
<1> QED
  BY <1>2, <1>3, <1>4 DEF NoNewResult

LEMMA QueuedResult ==
  ASSUME Types
  PROVE  /\ \A i \in ResultAt(coreQ) : coreQ[i].of \in Nat /\ coreQ[i].lParam \in Nat /\ i \in Nat
         /\ \A i \in 1..Len(sent) : sent[i].of \in Nat /\ sent[i].slot \in Nat /\ sent[i].n \in Nat
         /\ Reached \in Int /\ popped \in Nat /\ rects_mapping \in Nat /\ Len(sent) \in Nat
<1>1. ASSUME NEW i \in ResultAt(coreQ)
      PROVE  coreQ[i].of \in Nat /\ coreQ[i].lParam \in Nat /\ i \in Nat
  <2>1. coreQ[i] \in Message /\ i \in Nat
    BY ElementOfSeq DEF ResultAt, Types, ServerTypes
  <2> QED
    BY <2>1 DEF Message
<1>2. ASSUME NEW i \in 1..Len(sent)
      PROVE  sent[i].of \in Nat /\ sent[i].slot \in Nat /\ sent[i].n \in Nat
  <2>1. sent[i] \in [to : Cli, of : Nat, slot : Nat, n : Nat]
    BY ElementOfSeq DEF Types, ServerTypes
  <2> QED
    BY <2>1
<1> QED
  BY <1>1, <1>2 DEF Reached, Types, ServerTypes, SharedTypes, RecTypes

LEMMA ResultsUnchanged ==
  ASSUME Types, Types', Rising, Fresh, NoNewResult, UNCHANGED sent,
         Reached <= Reached', rects_mapping <= rects_mapping', popped <= popped',
         recPc' = "post" /\ count' > 0 => rects_mapping' = popped'
  PROVE  Rising' /\ Fresh'
<1>1. PICK d \in {0, 1} : \A i \in ResultAt(coreQ') :
           i \in Nat /\ i + d \in ResultAt(coreQ) /\ coreQ'[i] = coreQ[i + d]
  BY ResultsKept
<1>2. \A i, j \in ResultAt(coreQ') : i < j => coreQ'[i].of < coreQ'[j].of
  <2> SUFFICES ASSUME NEW i \in ResultAt(coreQ'), NEW j \in ResultAt(coreQ'), i < j
               PROVE  coreQ'[i].of < coreQ'[j].of
    OBVIOUS
  <2>1. i + d < j + d
    BY <1>1
  <2> QED
    BY <1>1, <2>1 DEF Rising
<1>3. \A i \in 1..Len(sent'), j \in ResultAt(coreQ') : sent'[i].of < coreQ'[j].of
  BY <1>1 DEF Rising
<1>4. \A j \in ResultAt(coreQ') : coreQ'[j].of <= Reached'
  <2> SUFFICES ASSUME NEW j \in ResultAt(coreQ') PROVE coreQ'[j].of <= Reached'
    OBVIOUS
  <2>1. coreQ'[j].of <= Reached /\ coreQ'[j].of \in Nat
    BY <1>1, QueuedResult DEF Rising
  <2>2. Reached \in Int /\ Reached' \in Int
    BY QueuedResult DEF Reached, Types, RecTypes
  <2> QED
    BY <2>1, <2>2
<1>5. \A i \in 1..Len(sent') : sent'[i].of <= Reached'
  <2>1. Reached \in Int /\ Reached' \in Int
    BY QueuedResult DEF Reached, Types, RecTypes
  <2> QED
    BY <2>1, QueuedResult DEF Rising
<1>6. \A j \in ResultAt(coreQ') : coreQ'[j].lParam > 0 => coreQ'[j].of <= rects_mapping'
  <2> SUFFICES ASSUME NEW j \in ResultAt(coreQ'), coreQ'[j].lParam > 0
               PROVE coreQ'[j].of <= rects_mapping'
    OBVIOUS
  <2>1. coreQ'[j].of <= rects_mapping /\ coreQ'[j].of \in Nat
    BY <1>1, QueuedResult DEF Fresh
  <2>2. rects_mapping \in Nat /\ rects_mapping' \in Nat
    BY DEF Types, SharedTypes
  <2> QED
    BY <2>1, <2>2
<1>7. \A i \in 1..Len(sent') : sent'[i].n > 0 => sent'[i].slot \in sent'[i].of..popped'
  <2>1. popped \in Nat /\ popped' \in Nat
    BY DEF Types, RecTypes
  <2> QED
    BY <2>1, QueuedResult DEF Fresh
<1>8. Rising'
  BY <1>2, <1>3, <1>4, <1>5 DEF Rising, ResultAt
<1> QED
  BY <1>6, <1>7, <1>8 DEF Fresh, ResultAt

LEMMA ResultsStill ==
  ASSUME Types, Types', Rising, Fresh, NoNewResult,
         UNCHANGED <<sent, rects_mapping, popped, recPc, count>>
  PROVE  Rising' /\ Fresh'
<1>1. /\ Reached' = Reached /\ Reached \in Int /\ popped \in Nat /\ rects_mapping \in Nat
      /\ recPc' = "post" /\ count' > 0 => rects_mapping' = popped'
  BY QueuedResult DEF Reached, Fresh
<1> QED
  BY <1>1, ResultsUnchanged

(* Results queue up in the order of the images, and what they will find in   *)
(* the section is at least as new as they are.                               *)
LEMMA StepResults == TypeOK /\ Rising /\ Fresh /\ [Next]_vars => Rising' /\ Fresh'
<1> SUFFICES ASSUME TypeOK, Rising, Fresh, [Next]_vars PROVE Rising' /\ Fresh'
  OBVIOUS
<1>0. /\ Types /\ Types' /\ Reached \in Int /\ popped \in Nat /\ rects_mapping \in Nat
      /\ rects_mapping <= popped
  BY StepTypes, QueuedResult DEF TypeOK, Names, RecNames
<1>1. ASSUME NEW c \in 1..client_id, NEW img \in Image, PostImage(c, img)
      PROVE  Rising' /\ Fresh'
  <2> DEFINE m == Msg("WM_IMAGE", c, Len(recv_bufs'), Len(recv_bufs'))
  <2>1. c \in StrayId /\ Len(recv_bufs') \in Nat
    BY <1>0, BoundsAssumption DEF Types, ServerTypes, StrayId, Cli
  <2>2. m \in Message /\ m.type # "WM_RESULT_DECTIVE"
    BY <2>1, MessageTypes DEF Msg
  <2>3. NoNewResult
    BY <1>1, <2>2 DEF PostImage, NoNewResult
  <2> QED
    BY <1>0, <1>1, <2>3, ResultsStill DEF PostImage, sharedVars, recVars
<1>2. CASE Accept
  <2>1. NoNewResult
    BY <1>2 DEF Accept, NoNewResult, CoreHandles, serverVars
  <2> QED
    BY <1>0, <1>2, <2>1, ResultsStill DEF Accept, serverVars, sharedVars, recVars
<1>3. CASE PostDisconnect
  <2>1. Msg("WM_CLIENT_DISCONNECT", client_id, 0, 0) \in Message /\ Msg("WM_CLIENT_DISCONNECT", client_id, 0, 0).type # "WM_RESULT_DECTIVE"
    BY MessageTypes DEF TypeOK, Types, ServerTypes, Msg, StrayId, Cli
  <2>2. NoNewResult
    BY <1>3, <2>1 DEF PostDisconnect, NoNewResult
  <2> QED
    BY <1>0, <1>3, <2>2, ResultsStill DEF PostDisconnect, sharedVars, recVars
<1>4. CASE CoreGetImage
  <2>1. NoNewResult
    BY <1>4 DEF CoreGetImage, NoNewResult, CoreHandles, serverVars
  <2> QED
    BY <1>0, <1>4, <2>1, ResultsStill DEF CoreGetImage, serverVars, sharedVars, recVars
<1>5. CASE CoreWait
  <2>1. NoNewResult
    BY <1>5 DEF CoreWait, NoNewResult, CoreHandles, serverVars
  <2> QED
    BY <1>0, <1>5, <2>1, ResultsStill DEF CoreWait, serverVars, sharedVars, recVars
<1>6. CASE CoreCopy
  <2>1. NoNewResult
    BY <1>6 DEF CoreCopy, NoNewResult, CoreHandles, serverVars
  <2> QED
    BY <1>0, <1>6, <2>1, ResultsStill DEF CoreCopy, serverVars, sharedVars, recVars
<1>7. CASE CorePost
  <2>1. NoNewResult
    BY <1>7 DEF CorePost, NoNewResult, CoreHandles, serverVars
  <2> QED
    BY <1>0, <1>7, <2>1, ResultsStill DEF CorePost, serverVars, sharedVars, recVars
<1>8. CASE CoreGetRecognitionId
  <2>1. NoNewResult
    BY <1>8 DEF CoreGetRecognitionId, NoNewResult, CoreHandles, serverVars
  <2> QED
    BY <1>0, <1>8, <2>1, ResultsStill DEF CoreGetRecognitionId, serverVars, sharedVars, recVars
<1>9. CASE CoreResult
  <2> DEFINE m == Head(coreQ)
             r == [to |-> m.wParam, of |-> m.of, slot |-> rects_mapping, n |-> m.lParam]
  <2>1. /\ coreQ \in Seq(Message) /\ coreQ # <<>> /\ coreQ' = Tail(coreQ)
        /\ sent' \in {sent, Append(sent, r)} /\ m.type = "WM_RESULT_DECTIVE"
        /\ UNCHANGED <<rects_mapping, popped, recPc, count>>
    BY <1>9 DEF CoreResult, CoreHandles, TypeOK, Types, ServerTypes, sharedVars, recVars
  <2>2. CASE sent' = sent
    BY <1>0, <2>1, <2>2, ResultsStill DEF NoNewResult
  <2>3. CASE sent' = Append(sent, r)
    <3>1. 1 \in ResultAt(coreQ) /\ m = coreQ[1]
      BY <2>1, ResultAtTail
    <3>2. \A j \in ResultAt(coreQ') :
            j + 1 \in ResultAt(coreQ) /\ coreQ'[j] = coreQ[j + 1] /\ j \in Nat \ {0}
      BY <2>1, ResultAtTail
    <3>3. m.of \in Nat /\ m.of <= Reached /\ (m.lParam > 0 => m.of <= rects_mapping)
      BY <1>0, <3>1, QueuedResult DEF Rising, Fresh
    <3>4. /\ Len(sent') = Len(sent) + 1 /\ Len(sent) \in Nat
          /\ \A i \in 1..Len(sent) : sent'[i] = sent[i]
          /\ sent'[Len(sent) + 1] = r
      BY <2>3 DEF TypeOK, Types, ServerTypes
    <3>5. r.of = m.of /\ r.slot = rects_mapping /\ r.n = m.lParam
      OBVIOUS
    <3> HIDE DEF m, r
    <3>6. \A j \in ResultAt(coreQ') : m.of < coreQ'[j].of
      <4> SUFFICES ASSUME NEW j \in ResultAt(coreQ') PROVE m.of < coreQ'[j].of
        OBVIOUS
      <4>1. 1 < j + 1
        BY <3>2
      <4> QED
        BY <3>1, <3>2, <4>1 DEF Rising
    <3>7. \A i \in 1..Len(sent) : sent[i].of < m.of
      BY <3>1 DEF Rising
    <3>8. \A i, j \in 1..Len(sent') : i < j => sent'[i].of < sent'[j].of
      <4> SUFFICES ASSUME NEW i \in 1..Len(sent'), NEW j \in 1..Len(sent'), i < j
                   PROVE  sent'[i].of < sent'[j].of
        OBVIOUS
      <4>1. i \in 1..Len(sent) /\ sent'[i] = sent[i]
        BY <3>4
      <4>2. CASE j \in 1..Len(sent)
        BY <3>4, <4>1, <4>2 DEF Rising
      <4>3. CASE j = Len(sent) + 1
        BY <3>4, <3>5, <3>7, <4>1, <4>3
      <4> QED
        BY <3>4, <4>2, <4>3
    <3>9. \A i \in 1..Len(sent'), j \in ResultAt(coreQ') : sent'[i].of < coreQ'[j].of
      <4> SUFFICES ASSUME NEW i \in 1..Len(sent'), NEW j \in ResultAt(coreQ')
                   PROVE  sent'[i].of < coreQ'[j].of
        OBVIOUS
      <4>1. CASE i \in 1..Len(sent)
        BY <3>2, <3>4, <4>1 DEF Rising
      <4>2. CASE i = Len(sent) + 1
        BY <3>4, <3>5, <3>6, <4>2
      <4> QED
        BY <3>4, <4>1, <4>2
    <3>10. Reached' = Reached /\ \A j \in ResultAt(coreQ') : coreQ'[j].of <= Reached'
      BY <2>1, <3>2 DEF Reached, Rising
    <3>11. \A i \in 1..Len(sent') : sent'[i].of <= Reached'
      <4> SUFFICES ASSUME NEW i \in 1..Len(sent') PROVE sent'[i].of <= Reached
        BY <3>10
      <4>1. CASE i \in 1..Len(sent)
        BY <3>4, <4>1 DEF Rising
      <4>2. CASE i = Len(sent) + 1
        BY <3>3, <3>4, <3>5, <4>2
      <4> QED
        BY <3>4, <4>1, <4>2
    <3>12. ResultAt(coreQ)' = ResultAt(coreQ')
      BY DEF ResultAt
    <3>13. Rising'
      BY <3>8, <3>9, <3>10, <3>11, <3>12, <3>2 DEF Rising
    <3>14. \A i \in 1..Len(sent') : sent'[i].n > 0 => sent'[i].slot \in sent'[i].of..popped'
      <4> SUFFICES ASSUME NEW i \in 1..Len(sent'), sent'[i].n > 0
                   PROVE  sent'[i].slot \in sent'[i].of..popped
        BY <2>1
      <4>1. CASE i \in 1..Len(sent)
        BY <3>4, <4>1 DEF Fresh
      <4>2. CASE i = Len(sent) + 1
        BY <1>0, <3>3, <3>4, <3>5, <4>2
      <4> QED
        BY <3>4, <4>1, <4>2
    <3>15. \A j \in ResultAt(coreQ') : coreQ'[j].lParam > 0 => coreQ'[j].of <= rects_mapping'
      BY <2>1, <3>2 DEF Fresh
    <3>16. recPc' = "post" /\ count' > 0 => rects_mapping' = popped'
      BY <2>1 DEF Fresh
    <3>17. Fresh'
      BY <3>12, <3>14, <3>15, <3>16 DEF Fresh
    <3> QED
      BY <3>13, <3>17
  <2> QED
    BY <2>1, <2>2, <2>3
<1>10. CASE CoreDisconnect
  <2>1. NoNewResult
    BY <1>10 DEF CoreDisconnect, NoNewResult, CoreHandles, serverVars
  <2> QED
    BY <1>0, <1>10, <2>1, ResultsStill DEF CoreDisconnect, serverVars, sharedVars, recVars
<1>11. CASE CoreError
  <2>1. NoNewResult
    BY <1>11 DEF CoreError, NoNewResult, CoreHandles, serverVars
  <2> QED
    BY <1>0, <1>11, <2>1, ResultsStill DEF CoreError, serverVars, sharedVars, recVars
<1>12. CASE Register
  <2>1. Msg("WM_GET_RECOGNITION_ID", 0, 0, 0) \in Message /\ Msg("WM_GET_RECOGNITION_ID", 0, 0, 0).type # "WM_RESULT_DECTIVE"
    BY MessageTypes DEF TypeOK, Types, ServerTypes, Msg, StrayId, Cli
  <2>2. NoNewResult
    BY <1>12, <2>1 DEF Register, NoNewResult
  <2> QED
    BY <1>0, <1>12, <2>2, ResultsStill DEF Register, sharedVars, recVars
<1>13. CASE PMMapped
  <2>1. NoNewResult
    BY <1>13 DEF PMMapped, NoNewResult, CoreHandles, serverVars
  <2> QED
    BY <1>0, <1>13, <2>1, ResultsStill DEF PMMapped, serverVars, sharedVars, recVars
<1>14. CASE PMNotMapped
  <2>1. Msg("WM_RECOGNITION_ERROR", 0, 0, 0) \in Message /\ Msg("WM_RECOGNITION_ERROR", 0, 0, 0).type # "WM_RESULT_DECTIVE"
    BY MessageTypes DEF TypeOK, Types, ServerTypes, Msg, StrayId, Cli
  <2>2. NoNewResult
    BY <1>14, <2>1 DEF PMNotMapped, NoNewResult
  <2> QED
    BY <1>0, <1>14, <2>2, ResultsStill DEF PMNotMapped, sharedVars, recVars
<1>15. CASE PMGetImage
  <2>1. NoNewResult
    BY <1>15 DEF PMGetImage, NoNewResult, CoreHandles, serverVars
  <2> QED
    BY <1>0, <1>15, <2>1, ResultsStill DEF PMGetImage, serverVars, sharedVars, recVars
<1>16. CASE PMRead
  <2>1. NoNewResult
    BY <1>16 DEF PMRead, NoNewResult, CoreHandles, serverVars
  <2> QED
    BY <1>0, <1>16, <2>1, ResultsStill DEF PMRead, serverVars, sharedVars, recVars
<1>17. CASE PMSignal
  <2>1. NoNewResult
    BY <1>17 DEF PMSignal, NoNewResult, CoreHandles, serverVars
  <2> QED
    BY <1>0, <1>17, <2>1, ResultsStill DEF PMSignal, serverVars, sharedVars, recVars
<1>18. CASE PMQueue
  <2>1. NoNewResult
    BY <1>18 DEF PMQueue, NoNewResult, CoreHandles, serverVars
  <2> QED
    BY <1>0, <1>18, <2>1, ResultsStill DEF PMQueue, serverVars, sharedVars, recVars
<1>19. CASE PMDisconnect
  <2>1. NoNewResult
    BY <1>19 DEF PMDisconnect, NoNewResult, CoreHandles, serverVars
  <2> QED
    BY <1>0, <1>19, <2>1, ResultsStill DEF PMDisconnect, serverVars, sharedVars, recVars
<1>20. CASE PMErase
  <2>1. NoNewResult
    BY <1>20 DEF PMErase, NoNewResult, CoreHandles, serverVars
  <2> QED
    BY <1>0, <1>20, <2>1, ResultsStill DEF PMErase, serverVars, sharedVars, recVars
<1>21. CASE RecPop
  BY <1>0, <1>21, ResultsUnchanged DEF RecPop, NoNewResult, CoreHandles, Reached, Fresh, serverVars, sharedVars, pmVars, recVars
<1>22. CASE RecShow
  <2>1. /\ UNCHANGED <<coreQ, sent, popped>> /\ Reached' = Reached
        /\ rects_mapping' \in {rects_mapping, popped}
    BY <1>22 DEF RecShow, Reached, serverVars, sharedVars
  <2>2. recPc' = "post" /\ count' > 0 => rects_mapping' = popped'
    BY <1>22 DEF RecShow, serverVars, sharedVars
  <2> QED
    BY <1>0, <2>1, <2>2, ResultsUnchanged DEF NoNewResult
<1>23. CASE RecDetect
  BY <1>0, <1>23, ResultsUnchanged DEF RecDetect, NoNewResult, CoreHandles, Reached, Fresh, serverVars, sharedVars, pmVars, recVars
<1>24. CASE RecLock
  BY <1>0, <1>24, ResultsUnchanged DEF RecLock, NoNewResult, CoreHandles, Reached, Fresh, serverVars, sharedVars, pmVars, recVars
<1>25. CASE RecUpdate
  BY <1>0, <1>25, ResultsUnchanged DEF RecUpdate, NoNewResult, CoreHandles, Reached, Fresh, serverVars, sharedVars, pmVars, recVars
<1>26. CASE RecCopy
  <2>1. /\ UNCHANGED <<coreQ, sent, popped>> /\ Reached' = Reached
        /\ rects_mapping' \in {rects_mapping, popped}
    BY <1>26 DEF RecCopy, Reached, serverVars
  <2>2. rects_mapping' = popped \/ count' = 0 \/ recPc' = "copy"
    BY <1>26 DEF RecCopy
  <2>3. recPc' = "post" /\ count' > 0 => rects_mapping' = popped'
    BY <2>1, <2>2
  <2> QED
    BY <1>0, <2>1, <2>3, ResultsUnchanged DEF NoNewResult
<1>27. CASE RecPost
  <2> DEFINE m == Msg("WM_RESULT_DECTIVE", stray.core, count, popped)
  <2>1. /\ recPc = "post" /\ recPc' = "poll" /\ coreQ' \in {coreQ, Append(coreQ, m)}
        /\ UNCHANGED <<sent, rects_mapping, popped>>
    BY <1>27 DEF RecPost, sharedVars, recVars
  <2>2. Reached = popped - 1 /\ Reached' = popped
    BY <2>1 DEF Reached
  <2>3. CASE coreQ' = coreQ
    BY <1>0, <2>1, <2>2, <2>3, ResultsUnchanged DEF NoNewResult
  <2>4. CASE coreQ' = Append(coreQ, m)
    <3>1. coreQ \in Seq(Message) /\ m \in Message /\ count \in Nat
      BY <1>0, <2>1, MessageTypes DEF Types, ServerTypes, RecTypes, TypeOK, Names, RecNames
    <3>2. m.type = "WM_RESULT_DECTIVE" /\ m.of = popped /\ m.lParam = count
      BY DEF Msg
    <3> HIDE DEF m
    <3>3. /\ ResultAt(coreQ') = ResultAt(coreQ) \cup {Len(coreQ) + 1}
          /\ \A i \in ResultAt(coreQ) : coreQ'[i] = coreQ[i] /\ i \in 1..Len(coreQ)
          /\ coreQ'[Len(coreQ) + 1] = m /\ Len(coreQ) \in Nat
      BY <2>4, <3>1, <3>2, ResultAtAppend
    <3>4. \A i \in ResultAt(coreQ) : coreQ[i].of \in Nat /\ coreQ[i].of < popped
      BY <1>0, <2>2, QueuedResult DEF Rising
    <3>5. \A i \in 1..Len(sent) : sent[i].of \in Nat /\ sent[i].of < popped
      BY <1>0, <2>2, QueuedResult DEF Rising
    <3>6. \A i, j \in ResultAt(coreQ') : i < j => coreQ'[i].of < coreQ'[j].of
      <4> SUFFICES ASSUME NEW i \in ResultAt(coreQ'), NEW j \in ResultAt(coreQ'), i < j
                   PROVE  coreQ'[i].of < coreQ'[j].of
        OBVIOUS
      <4>1. i \in ResultAt(coreQ) /\ coreQ'[i] = coreQ[i]
        BY <3>3
      <4>2. CASE j \in ResultAt(coreQ)
        BY <3>3, <4>1, <4>2 DEF Rising
      <4>3. CASE j = Len(coreQ) + 1
        BY <3>2, <3>3, <3>4, <4>1, <4>3
      <4> QED
        BY <3>3, <4>2, <4>3
    <3>7. \A i \in 1..Len(sent'), j \in ResultAt(coreQ') : sent'[i].of < coreQ'[j].of
      BY <2>1, <3>2, <3>3, <3>5 DEF Rising
    <3>8. \A j \in ResultAt(coreQ') : coreQ'[j].of <= Reached'
      BY <1>0, <2>2, <3>2, <3>3, <3>4
    <3>9. \A i \in 1..Len(sent') : sent'[i].of <= Reached'
      BY <1>0, <2>1, <2>2, <3>5
    <3>10. ResultAt(coreQ)' = ResultAt(coreQ')
      BY DEF ResultAt
    <3>11. Rising'
      BY <2>1, <3>6, <3>7, <3>8, <3>9, <3>10 DEF Rising
    <3>12. \A j \in ResultAt(coreQ') : coreQ'[j].lParam > 0 => coreQ'[j].of <= rects_mapping'
      <4> SUFFICES ASSUME NEW j \in ResultAt(coreQ'), coreQ'[j].lParam > 0
                   PROVE  coreQ'[j].of <= rects_mapping
        BY <2>1
      <4>1. CASE j \in ResultAt(coreQ)
        BY <3>3, <4>1 DEF Fresh
      <4>2. CASE j = Len(coreQ) + 1
        BY <1>0, <2>1, <3>2, <3>3, <4>2 DEF Fresh
      <4> QED
        BY <3>3, <4>1, <4>2
    <3>13. Fresh'
      BY <2>1, <3>10, <3>12 DEF Fresh
    <3> QED
      BY <3>11, <3>13
  <2> QED
    BY <2>1, <2>3, <2>4
<1>28. CASE OperatorKey
  BY <1>0, <1>28, ResultsUnchanged DEF OperatorKey, NoNewResult, CoreHandles, Reached, Fresh, serverVars, sharedVars, pmVars, recVars
<1>29. CASE UNCHANGED vars
  BY <1>0, <1>29, ResultsStill DEF vars, NoNewResult, serverVars, sharedVars, recVars
<1> QED
  BY <1>1, <1>2, <1>3, <1>4, <1>5, <1>6, <1>7, <1>8, <1>9, <1>10, <1>11, <1>12, <1>13, <1>14, <1>15, <1>16, <1>17, <1>18, <1>19, <1>20, <1>21, <1>22, <1>23, <1>24, <1>25, <1>26, <1>27, <1>28, <1>29
  DEF Next, IOThreads, ServerCore, ProcessMessage, RecognitionCore

(* Clients get results in the order of the images, one for each at most, and *)
(* rectangles no older than the image: never an earlier image's, however the *)
(* recognition thread runs ahead of Core.                                    *)
THEOREM ResultsCorrect == Spec => []ResultsInOrder
<1>1. Init => Rising /\ Fresh
  BY DEF Init, Rising, Fresh, ResultAt
<1>2. Rising /\ Fresh => ResultsInOrder
  BY DEF Rising, Fresh, ResultsInOrder
<1> QED
  BY <1>1, <1>2, StepResults, TypeCorrect, PTL DEF Spec
===============================================================================
