---------------------------- MODULE Clients_proofs ----------------------------
(***************************************************************************)
(* Clients, for every number of connections, threads, messages and pieces  *)
(* and every set of loads.                                                 *)
(***************************************************************************)
EXTENDS Clients, FiniteSetTheorems, TLAPS

Message == {m \in [type : {"WM_IMAGE", "WM_CLIENT_DISCONNECT", "WM_RESULT_DECTIVE"},
                   id : Cli, of : Nat, by : Nat] : m.type = "WM_RESULT_DECTIVE" => m.of # 0}
Write == [cli : Cli, of : Nat, piece : Nat, state : {"sending", "sent", "failed"}]

Types ==
  /\ client_id \in Cli /\ client_map \subseteq Cli
  /\ accept \in [Cli -> {"none", "pending", "done", "failed"}]
  /\ accepting \subseteq [cli : Cli, at : {"started", "insert", "accept"}, new : Nat]
  /\ cli_socket \in [Cli -> {"new", "open", "closed"}]
  /\ read \in [Cli -> {"none", "posted", "file", "alive", "error"}] /\ posting \subseteq Cli
  /\ timer_ \in [Cli -> {"unset", "set", "expired", "again", "done"}]
  /\ coreQ \in Seq(Message) /\ writes \subseteq Write /\ results \in Nat

\* Whoever has a socket accepted into, a read, a timer or an IS_ALIVE under way
\* was inserted before.
Mapped ==
  /\ \A c \in Cli : \/ accept[c] # "none" \/ cli_socket[c] # "new" \/ read[c] # "none"
                     \/ timer_[c] # "unset" \/ c \in posting => c \in client_map
  /\ \A h \in accepting : h.cli \in client_map /\ (h.at = "accept" => h.new \in client_map)
  /\ \A w \in writes : w.of = 0 => w.cli \in client_map

IInv == Types /\ OneAccept /\ Mapped

(* A queue of messages stays one when one is posted or taken. *)
LEMMA QueueTypes ==
  ASSUME NEW q \in Seq(Message)
  PROVE  /\ \A m \in Message : Append(q, m) \in Seq(Message)
         /\ q # <<>> => Head(q) \in Message /\ Tail(q) \in Seq(Message)
OBVIOUS

(* A disconnect is reported under an id that was given. *)
LEMMA ReportTypes ==
  ASSUME Types, NEW c \in Cli, Report(c)
  PROVE  coreQ' \in Seq(Message)
<1>1. Msg("WM_CLIENT_DISCONNECT", client_id, 0, c) \in Message
  BY DEF Types, Msg, Message, Cli
<1> QED
  BY <1>1, QueueTypes DEF Types, Report

(* Closing the socket of a connection that is in client_map fails writes, and adds none. *)
LEMMA CloseKeeps ==
  ASSUME Types, Mapped, NEW c \in client_map, NEW ws \in SUBSET writes, Close(c, ws)
  PROVE  /\ cli_socket' \in [Cli -> {"new", "open", "closed"}] /\ writes' \subseteq Write
         /\ \A d \in Cli : cli_socket'[d] # "new" => d \in client_map
         /\ \A w \in writes' : w.of = 0 => w.cli \in client_map
<1>1. cli_socket' = [cli_socket EXCEPT ![c] = "closed"]
  BY DEF Close
<1>2. ASSUME NEW w \in writes'
      PROVE  w \in Write /\ \E v \in writes : w.cli = v.cli /\ w.of = v.of
  <2>1. PICK v \in ws : w = IF v.cli = c /\ v.state = "sending" THEN [v EXCEPT !.state = "failed"] ELSE v
    BY DEF Close
  <2>2. v \in writes /\ v \in Write
    BY DEF Types
  <2> QED
    BY <2>1, <2>2 DEF Write
<1> QED
  BY <1>1, <1>2 DEF Types, Mapped

(* What a write in another state, or of another piece, keeps. *)
LEMMA WriteReplaced ==
  ASSUME Types, Mapped, NEW w \in writes, NEW v \in Write, v.cli = w.cli, v.of = w.of,
         writes' = (writes \ {w}) \union {v}
  PROVE  writes' \subseteq Write /\ \A u \in writes' : u.of = 0 => u.cli \in client_map
BY DEF Types, Mapped

(* The end of an accept; accept_handler takes the Client made last. *)
LEMMA AcceptStep ==
  ASSUME IInv, NEW c \in Cli,
         AcceptDone(c) \/ AcceptFails(c) \/ AcceptHandlerFailed(c) \/ AcceptHandler(c)
  PROVE  IInv'
<1> USE ClientsAssumption DEF Types, OneAccept, Mapped, acceptVars, readVars, coreVars, writeVars
<1>1. CASE AcceptDone(c)
  BY <1>1 DEF IInv, AcceptDone
<1>2. CASE AcceptFails(c)
  BY <1>2 DEF IInv, AcceptFails, Fault
<1>3. CASE AcceptHandlerFailed(c)
  BY <1>3 DEF IInv, AcceptHandlerFailed
<1>4. CASE AcceptHandler(c)
  <2>1. accept[c] = "done" /\ c = client_id /\ accepting = {} /\ accept' = [accept EXCEPT ![c] = "none"]
    BY <1>4 DEF IInv, AcceptHandler
  <2>2. CASE /\ read' = [read EXCEPT ![c] = "posted"]
             /\ accepting' = accepting \union {[cli |-> c, at |-> "started", new |-> 0]}
    <3>1. accepting' = {[cli |-> c, at |-> "started", new |-> 0]}
      BY <2>1, <2>2
    <3> QED
      BY <1>4, <2>1, <2>2, <3>1 DEF IInv, AcceptHandler
  <2>3. CASE UNCHANGED <<read, accepting>>
    BY <1>4, <2>1, <2>3 DEF IInv, AcceptHandler
  <2> QED
    BY <1>4, <2>2, <2>3 DEF AcceptHandler
<1> HIDE DEF Types, OneAccept, Mapped
<1> QED
  BY <1>1, <1>2, <1>3, <1>4

(* The rest of accept_handler: it is the only one, and its Client is the newest. *)
LEMMA CreateStep ==
  ASSUME IInv, NEW h \in accepting,
         CreateClient(h) \/ Insert(h) \/ StartAccept(h)
  PROVE  IInv'
<1> USE ClientsAssumption DEF Types, OneAccept, Mapped, acceptVars, readVars, coreVars, writeVars
<1>1. CASE CreateClient(h)
  <2> DEFINE g == [h EXCEPT !.at = "insert", !.new = client_id + 1]
  <2>0. /\ h \in [cli : Cli, at : {"started", "insert", "accept"}, new : Nat] /\ h.at = "started"
        /\ client_id + 1 \in Cli /\ client_id + 1 \in Nat /\ client_id' = client_id + 1
    BY <1>1 DEF IInv, CreateClient, Cli
  <2>1. /\ h.cli \in Cli
        /\ g \in [cli : Cli, at : {"started", "insert", "accept"}, new : Nat]
        /\ g.cli = h.cli /\ g.at = "insert" /\ g.new = client_id + 1
    <3> HIDE DEF Types, OneAccept, Mapped
    <3> QED
      BY <2>0
  <2>2. accepting' = {g} /\ \A c \in Cli : accept[c] = "none"
    BY <1>1, <2>0, <2>1 DEF IInv, CreateClient
  <2> HIDE DEF g
  <2>3. Types' /\ OneAccept'
    BY <1>1, <2>0, <2>1, <2>2 DEF IInv, CreateClient
  <2>4. Mapped'
    BY <1>1, <2>0, <2>1, <2>2 DEF IInv, CreateClient
  <2> QED
    BY <2>3, <2>4 DEF IInv
<1>2. CASE Insert(h)
  <2> DEFINE g == [h EXCEPT !.at = "accept"]
  <2>1. /\ h.new = client_id /\ g \in [cli : Cli, at : {"started", "insert", "accept"}, new : Nat]
        /\ g.cli = h.cli /\ g.at = "accept" /\ g.new = client_id
    BY <1>2 DEF IInv, Insert
  <2>2. accepting' = {g} /\ \A c \in Cli : accept[c] = "none"
    BY <1>2 DEF IInv, Insert
  <2> QED
    BY <1>2, <2>1, <2>2 DEF IInv, Insert
<1>3. CASE StartAccept(h)
  <2>1. /\ h.new = client_id /\ client_id \in client_map /\ \A c \in Cli : accept[c] = "none"
        /\ accepting' = {} /\ accept' = [accept EXCEPT ![client_id] = "pending"]
    <3>1. /\ h.at = "accept" /\ accept' = [accept EXCEPT ![h.new] = "pending"]
          /\ accepting' = accepting \ {h}
      BY <1>3 DEF StartAccept
    <3>2. /\ h.new = client_id /\ client_id \in client_map /\ \A c \in Cli : accept[c] = "none"
      BY SMTT(30), <3>1 DEF IInv
    <3>3. accepting = {h}
      BY SMTT(30), <3>1 DEF IInv
    <3> QED
      BY <3>1, <3>2, <3>3
  <2>2. client_id \in Cli /\ accept' \in [Cli -> {"none", "pending"}]
    BY <1>3, <2>1 DEF IInv
  <2>3. OneAccept'
    BY <1>3, <2>1, <2>2 DEF IInv, StartAccept
  <2>4. Mapped'
    BY <1>3, <2>1, <2>2 DEF IInv, StartAccept
  <2>5. Types'
    BY <1>3, <2>1, <2>2 DEF IInv, StartAccept
  <2> QED
    BY <2>3, <2>4, <2>5 DEF IInv
<1> HIDE DEF Types, OneAccept, Mapped
<1> QED
  BY <1>1, <1>2, <1>3

(* The handlers of a connection: what they go on with was inserted. *)
LEMMA ConnectionStep ==
  ASSUME IInv, NEW c \in Cli,
         FileReceived(c) \/ PostImage(c) \/ ReadEnds(c) \/ AliveTimeout(c) \/ WaitCheckAlive(c)
  PROVE  IInv'
<1> USE ClientsAssumption DEF Types, OneAccept, Mapped, acceptVars, readVars, coreVars, writeVars
<1>1. CASE FileReceived(c)
  BY <1>1 DEF IInv, FileReceived
<1>2. CASE PostImage(c)
  <2>1. Msg("WM_IMAGE", c, 0, c) \in Message
    BY DEF Msg, Message, Cli
  <2>2. coreQ' \in Seq(Message)
    BY <1>2, <2>1, QueueTypes DEF IInv, PostImage
  <2> QED
    BY <1>2, <2>2 DEF IInv, PostImage
<1>3. CASE ReadEnds(c)
  BY <1>3 DEF IInv, ReadEnds
<1>4. CASE AliveTimeout(c)
  <2>1. writes' \subseteq Write /\ \A w \in writes' : w.of = 0 => w.cli \in client_map
    BY <1>4 DEF IInv, AliveTimeout, AsyncWrite, Write
  <2> QED
    BY <1>4, <2>1 DEF IInv, AliveTimeout
<1>5. CASE WaitCheckAlive(c)
  <2>1. c \in client_map /\ Close(c, writes) /\ Report(c)
    BY <1>5 DEF IInv, WaitCheckAlive
  <2>2. /\ cli_socket' \in [Cli -> {"new", "open", "closed"}] /\ writes' \subseteq Write
        /\ \A d \in Cli : cli_socket'[d] # "new" => d \in client_map
        /\ \A w \in writes' : w.of = 0 => w.cli \in client_map
        /\ coreQ' \in Seq(Message)
    BY <2>1, CloseKeeps, ReportTypes DEF IInv
  <2> QED
    BY <1>5, <2>2 DEF IInv, WaitCheckAlive
<1> HIDE DEF Types, OneAccept, Mapped
<1> QED
  BY <1>1, <1>2, <1>3, <1>4, <1>5

(* Writes go on, are sent and end; a failed IS_ALIVE closes a socket that was inserted. *)
LEMMA WriteStep ==
  ASSUME IInv, NEW w \in writes,
         Continue(w) \/ SendHandler(w) \/ AliveWriteHandler(w) \/ SystemSends(w)
  PROVE  IInv'
<1> USE ClientsAssumption DEF Types, OneAccept, Mapped, acceptVars, readVars, coreVars, writeVars
<1>1. CASE Continue(w)
  <2>1. w \in Write
    BY DEF IInv
  <2>2. PICK st \in {"sending", "failed"} :
          writes' = (writes \ {w}) \union {[w EXCEPT !.piece = @ + 1, !.state = st]}
    <3>1. CASE cli_socket[w.cli] = "open"
      BY <1>1, <2>1, <3>1 DEF Continue, Write
    <3>2. CASE cli_socket[w.cli] # "open"
      BY <1>1, <2>1, <3>2 DEF Continue, Write
    <3> QED
      BY <3>1, <3>2
  <2> DEFINE v == [w EXCEPT !.piece = @ + 1, !.state = st]
  <2>3. v \in Write /\ v.cli = w.cli /\ v.of = w.of
    <3>1. w.piece + 1 \in Nat
      BY <2>1 DEF Write
    <3> QED
      BY <2>1, <3>1 DEF Write
  <2>4. writes' \subseteq Write /\ \A u \in writes' : u.of = 0 => u.cli \in client_map
    <3> HIDE DEF v, Types, Mapped
    <3> QED
      BY <2>2, <2>3, WriteReplaced DEF v, IInv
  <2> QED
    BY <1>1, <2>4 DEF IInv, Continue
<1>2. CASE SendHandler(w)
  BY <1>2 DEF IInv, SendHandler
<1>3. CASE AliveWriteHandler(w)
  <2>1. w.of = 0 /\ w.cli \in client_map /\ writes \ {w} \in SUBSET writes
    BY <1>3 DEF IInv, AliveWriteHandler
  <2>2. /\ cli_socket' \in [Cli -> {"new", "open", "closed"}] /\ writes' \subseteq Write
        /\ \A d \in Cli : cli_socket'[d] # "new" => d \in client_map
        /\ \A u \in writes' : u.of = 0 => u.cli \in client_map
        /\ coreQ' \in Seq(Message)
    <3>1. CASE w.state = "failed"
      BY <1>3, <2>1, <3>1, CloseKeeps, ReportTypes DEF IInv, AliveWriteHandler
    <3>2. CASE w.state # "failed"
      BY <1>3, <3>2 DEF IInv, AliveWriteHandler
    <3> QED
      BY <3>1, <3>2
  <2> QED
    BY <1>3, <2>2 DEF IInv, AliveWriteHandler
<1>4. CASE SystemSends(w)
  <2>1. w \in Write
    BY DEF IInv
  <2>2. PICK st \in {"sent", "failed"} : writes' = (writes \ {w}) \union {[w EXCEPT !.state = st]}
    BY <1>4 DEF SystemSends
  <2>3. writes' \subseteq Write /\ \A u \in writes' : u.of = 0 => u.cli \in client_map
    BY <2>1, <2>2, WriteReplaced DEF IInv, Write
  <2> QED
    BY <1>4, <2>3 DEF IInv, SystemSends
<1> HIDE DEF Types, OneAccept, Mapped
<1> QED
  BY <1>1, <1>2, <1>3, <1>4

(* Server::Core, which looks up what results name and takes no part in client_map. *)
LEMMA CoreStep ==
  ASSUME IInv,
         CoreImage \/ CoreHandsOn \/ CoreDisconnect \/ CoreResult \/ CoreFaults
  PROVE  IInv'
<1> USE ClientsAssumption DEF Types, OneAccept, Mapped, acceptVars, readVars, coreVars, writeVars
<1>1. CASE CoreImage
  <2>1. coreQ' \in Seq(Message)
    BY <1>1, QueueTypes DEF IInv, CoreImage, CoreHandles
  <2> QED
    BY <1>1, <2>1 DEF IInv, CoreImage
<1>2. CASE CoreHandsOn
  BY <1>2 DEF IInv, CoreHandsOn
<1>3. CASE CoreDisconnect
  <2>1. coreQ' \in Seq(Message)
    BY <1>3, QueueTypes DEF IInv, CoreDisconnect, CoreHandles
  <2> QED
    BY <1>3, <2>1 DEF IInv, CoreDisconnect
<1>4. CASE CoreResult
  <2> DEFINE m == Head(coreQ)
  <2>1. coreQ' \in Seq(Message) /\ m \in Message /\ m.type = "WM_RESULT_DECTIVE"
    BY <1>4, QueueTypes DEF IInv, CoreResult, CoreHandles
  <2>2. m.id \in Cli /\ m.of \in Nat \ {0}
    BY <2>1 DEF Message
  <2>3. writes' \subseteq Write /\ \A w \in writes' : w.of = 0 => w.cli \in client_map
    <3>1. CASE SendResult(m.id, m.of)
      BY <2>2, <3>1 DEF IInv, SendResult, AsyncWrite, Write
    <3>2. CASE UNCHANGED writes
      BY <3>2 DEF IInv
    <3> QED
      BY <1>4, <3>1, <3>2 DEF CoreResult
  <2> QED
    BY <1>4, <2>1, <2>3 DEF IInv, CoreResult
<1>5. CASE CoreFaults
  BY <1>5 DEF IInv, CoreFaults
<1> HIDE DEF Types, OneAccept, Mapped
<1> QED
  BY <1>1, <1>2, <1>3, <1>4, <1>5

(* Clients, timers, the recognition process and its failures. *)
LEMMA EnvironmentStep ==
  ASSUME IInv,
         \/ Dial \/ RecLoses \/ RecSignals \/ \E id \in Cli : RecResult(id)
         \/ \E c \in Cli : \/ TimerExpires(c) \/ Leave(c)
                          \/ \E what \in {"file", "alive", "error"} : Arrives(c, what)
  PROVE  IInv'
<1> USE ClientsAssumption DEF Types, OneAccept, Mapped, acceptVars, readVars, coreVars, writeVars
<1>1. CASE Dial \/ RecLoses \/ RecSignals
  BY <1>1 DEF IInv, Dial, RecLoses, RecSignals
<1>2. ASSUME NEW c \in Cli, TimerExpires(c) PROVE IInv'
  BY <1>2 DEF IInv, TimerExpires
<1>3. ASSUME NEW c \in Cli, Leave(c) PROVE IInv'
  BY <1>3 DEF IInv, Leave
<1>4. ASSUME NEW c \in Cli, NEW what \in {"file", "alive", "error"}, Arrives(c, what) PROVE IInv'
  BY <1>4 DEF IInv, Arrives
<1>5. ASSUME NEW id \in Cli, RecResult(id) PROVE IInv'
  <2>1. Msg("WM_RESULT_DECTIVE", id, results + 1, 0) \in Message
    BY DEF IInv, Msg, Message
  <2>2. coreQ' \in Seq(Message) /\ results' \in Nat
    BY <1>5, <2>1, QueueTypes DEF IInv, RecResult
  <2> QED
    BY <1>5, <2>2 DEF IInv, RecResult
<1> HIDE DEF Types, OneAccept, Mapped
<1> QED
  BY <1>1, <1>2, <1>3, <1>4, <1>5

(* One accept at a time, and all that runs is in client_map. *)
LEMMA Inductive == Spec => []IInv
<1>1. Init => IInv
  BY ClientsAssumption DEF Init, InitWith, IInv, Types, OneAccept, Mapped, Cli
<1>2. IInv /\ [Next]_vars => IInv'
  <2> SUFFICES ASSUME IInv, [Next]_vars PROVE IInv'
    OBVIOUS
  <2>1. CASE IoThreads
    BY <2>1, ConnectionStep, AcceptStep, CreateStep, WriteStep DEF IoThreads
  <2>2. CASE Core
    BY <2>2, CoreStep DEF Core
  <2>3. CASE System
    BY <2>3, AcceptStep, WriteStep, EnvironmentStep DEF System
  <2>4. CASE RecSignals \/ Environment
    BY <2>4, AcceptStep, EnvironmentStep DEF Environment
  <2>5. CASE UNCHANGED vars
    BY <2>5 DEF vars, acceptVars, readVars, coreVars, writeVars, IInv, Types, OneAccept, Mapped
  <2> QED
    BY <2>1, <2>2, <2>3, <2>4, <2>5 DEF Next
<1> QED
  BY <1>1, <1>2, PTL DEF Spec

(* Two threads never insert into client_map, or start an accept, at once *)
(* (create_client takes no lock), however many threads the server runs.   *)
THEOREM AcceptCorrect == Spec => []OneAccept
BY Inductive, PTL DEF IInv

(* Whoever is connected was inserted into client_map before. *)
THEOREM MappedCorrect == Spec => []ConnectedMapped
<1>1. IInv => ConnectedMapped
  BY DEF IInv, Mapped, ConnectedMapped
<1> QED
  BY <1>1, Inductive, PTL

(* A connection that is served is older than the Client made last, unless its *)
(* accept_handler has not made the next one yet.                              *)
Served ==
  /\ client_map \subseteq 1..client_id
  /\ \A c \in Cli : read[c] # "none" \/ c \in posting \/ timer_[c] # "unset" =>
       c < client_id \/ \E h \in accepting : h.cli = c /\ h.at = "started"

(* Only accept_handler begins to serve a connection, and only it and its      *)
(* create_client change the newest Client.                                    *)
LEMMA StepServed == IInv /\ Served /\ [Next]_vars => Served'
<1> SUFFICES ASSUME IInv, Served, [Next]_vars PROVE Served'
  OBVIOUS
<1> USE DEF Served, Types, Mapped, OneAccept, IInv
<1>1. ASSUME NEW c \in Cli, AcceptHandler(c) PROVE Served'
  <2>1. accept[c] = "done" /\ c = client_id /\ accepting = {}
    BY <1>1 DEF AcceptHandler
  <2>2. UNCHANGED <<client_id, client_map, posting, timer_>>
    BY <1>1 DEF AcceptHandler
  <2>3. CASE /\ read' = [read EXCEPT ![c] = "posted"]
             /\ accepting' = accepting \union {[cli |-> c, at |-> "started", new |-> 0]}
    <3> DEFINE h == [cli |-> c, at |-> "started", new |-> 0]
    <3>1. accepting' = {h} /\ h.cli = client_id /\ h.at = "started"
      BY <2>1, <2>3
    <3> HIDE DEF h
    <3>2. \A d \in Cli : d = c \/ read'[d] = read[d]
      BY <2>3
    <3> QED
      BY <2>1, <2>2, <3>1, <3>2
  <2>4. CASE UNCHANGED <<read, accepting>>
    BY <2>2, <2>4
  <2> QED
    BY <1>1, <2>3, <2>4 DEF AcceptHandler
<1>2. ASSUME NEW c \in Cli, AcceptHandlerFailed(c) PROVE Served'
  BY <1>2 DEF AcceptHandlerFailed, acceptVars, readVars
<1>3. ASSUME NEW c \in Cli, FileReceived(c) PROVE Served'
  BY <1>3 DEF FileReceived, acceptVars, readVars
<1>4. ASSUME NEW c \in Cli, PostImage(c) PROVE Served'
  BY <1>4 DEF PostImage, acceptVars, readVars
<1>5. ASSUME NEW c \in Cli, ReadEnds(c) PROVE Served'
  BY <1>5 DEF ReadEnds, acceptVars, readVars
<1>6. ASSUME NEW c \in Cli, AliveTimeout(c) PROVE Served'
  BY <1>6 DEF AliveTimeout, acceptVars, readVars
<1>7. ASSUME NEW c \in Cli, WaitCheckAlive(c) PROVE Served'
  BY <1>7 DEF WaitCheckAlive, acceptVars, readVars
<1>8. ASSUME NEW h \in accepting, CreateClient(h) PROVE Served'
  BY <1>8 DEF CreateClient, acceptVars, readVars
<1>9. ASSUME NEW h \in accepting, Insert(h) PROVE Served'
  BY <1>9 DEF Insert, acceptVars, readVars
<1>10. ASSUME NEW h \in accepting, StartAccept(h) PROVE Served'
  BY <1>10 DEF StartAccept, acceptVars, readVars
<1>11. ASSUME NEW w \in writes, Continue(w) PROVE Served'
  BY <1>11 DEF Continue, acceptVars, readVars
<1>12. ASSUME NEW w \in writes, SendHandler(w) PROVE Served'
  BY <1>12 DEF SendHandler, acceptVars, readVars
<1>13. ASSUME NEW w \in writes, AliveWriteHandler(w) PROVE Served'
  BY <1>13 DEF AliveWriteHandler, acceptVars, readVars
<1>14. CASE CoreImage
  BY <1>14 DEF CoreImage, acceptVars, readVars
<1>15. CASE CoreHandsOn
  BY <1>15 DEF CoreHandsOn, acceptVars, readVars
<1>16. CASE CoreDisconnect
  BY <1>16 DEF CoreDisconnect, acceptVars, readVars
<1>17. CASE CoreResult
  BY <1>17 DEF CoreResult, acceptVars, readVars
<1>18. ASSUME NEW c \in Cli, AcceptDone(c) PROVE Served'
  BY <1>18 DEF AcceptDone, acceptVars, readVars
<1>19. ASSUME NEW c \in Cli, TimerExpires(c) PROVE Served'
  BY <1>19 DEF TimerExpires, acceptVars, readVars
<1>20. ASSUME NEW w \in writes, SystemSends(w) PROVE Served'
  BY <1>20 DEF SystemSends, acceptVars, readVars
<1>21. CASE RecSignals
  BY <1>21 DEF RecSignals, acceptVars, readVars
<1>22. CASE Dial
  BY <1>22 DEF Dial, acceptVars, readVars
<1>23. CASE RecLoses
  BY <1>23 DEF RecLoses, acceptVars, readVars
<1>24. ASSUME NEW id \in Cli, RecResult(id) PROVE Served'
  BY <1>24 DEF RecResult, acceptVars, readVars
<1>25. ASSUME NEW c \in Cli, AcceptFails(c) PROVE Served'
  BY <1>25 DEF AcceptFails, acceptVars, readVars
<1>26. ASSUME NEW c \in Cli, Leave(c) PROVE Served'
  BY <1>26 DEF Leave, acceptVars, readVars
<1>27. ASSUME NEW c \in Cli, NEW what \in {"file", "alive", "error"}, Arrives(c, what)
      PROVE  Served'
  BY <1>27 DEF Arrives, acceptVars, readVars
<1>28. CASE UNCHANGED vars
  BY <1>28 DEF vars, acceptVars, readVars, coreVars, writeVars
<1>29. CASE CoreFaults
  BY <1>29 DEF CoreFaults, acceptVars, readVars, coreVars
<1> HIDE DEF Served, Types, Mapped, OneAccept, IInv
<1> QED
  BY <1>1, <1>2, <1>3, <1>4, <1>5, <1>6, <1>7, <1>8, <1>9, <1>10, <1>11, <1>12, <1>13, <1>14, <1>15, <1>16, <1>17, <1>18, <1>19, <1>20, <1>21, <1>22, <1>23, <1>24, <1>25, <1>26, <1>27, <1>28, <1>29
  DEF Next, IoThreads, Core, System, Environment

(* A step that posts a WM_CLIENT_DISCONNECT, as ReportsNewest says it.        *)
Reported ==
  LET m == coreQ'[Len(coreQ')]
  IN  Len(coreQ') > Len(coreQ) /\ m.type = "WM_CLIENT_DISCONNECT" =>
        /\ m.id >= m.by
        /\ read[m.id] # "none" \/ m.id \in posting \/ timer_[m.id] # "unset" =>
             \E h \in accepting : h.cli = m.id /\ h.at = "started"

(* Whatever is posted is the last message of the queue. *)
LEMMA Posted ==
  ASSUME Types
  PROVE  /\ \A m \in Message : coreQ' = Append(coreQ, m) => coreQ'[Len(coreQ')] = m
         /\ coreQ # <<>> /\ coreQ' = Tail(coreQ) => ~(Len(coreQ') > Len(coreQ))
         /\ coreQ' = coreQ => ~(Len(coreQ') > Len(coreQ))
BY DEF Types

(* A disconnect is reported under the newest Client's id. *)
LEMMA NewestReported ==
  ASSUME IInv, Served, NEW c \in client_map, Report(c)
  PROVE  Reported
<1> DEFINE m == Msg("WM_CLIENT_DISCONNECT", client_id, 0, c)
<1>1. /\ m \in Message /\ m.id = client_id /\ m.by = c /\ client_id \in Cli
      /\ client_id \in Nat /\ c \in Nat /\ c <= client_id
  BY ClientsAssumption DEF IInv, Types, Served, Msg, Message, Cli
<1>2. coreQ' = coreQ \/ coreQ' = Append(coreQ, m)
  BY DEF Report
<1> HIDE DEF m
<1>3. CASE coreQ' = coreQ
  BY <1>3, Posted DEF Reported, IInv
<1>4. CASE coreQ' = Append(coreQ, m)
  <2>1. coreQ'[Len(coreQ')] = m
    BY <1>1, <1>4, Posted DEF IInv
  <2>2. read[m.id] # "none" \/ m.id \in posting \/ timer_[m.id] # "unset" =>
             \E h \in accepting : h.cli = m.id /\ h.at = "started"
    BY <1>1 DEF Served
  <2> QED
    BY <1>1, <2>1, <2>2 DEF Reported
<1> QED
  BY <1>2, <1>3, <1>4

LEMMA StepReported == IInv /\ Served /\ [Next]_vars => Reported
<1> SUFFICES ASSUME IInv, Served, [Next]_vars PROVE Reported
  OBVIOUS
<1>0. Types
  BY DEF IInv
<1>1. ASSUME NEW c \in Cli, AcceptHandler(c) PROVE Reported
  BY <1>0, <1>1, Posted DEF AcceptHandler, Reported, CoreHandles, coreVars
<1>2. ASSUME NEW c \in Cli, AcceptHandlerFailed(c) PROVE Reported
  BY <1>0, <1>2, Posted DEF AcceptHandlerFailed, Reported, CoreHandles, coreVars
<1>3. ASSUME NEW c \in Cli, FileReceived(c) PROVE Reported
  BY <1>0, <1>3, Posted DEF FileReceived, Reported, CoreHandles, coreVars
<1>4. ASSUME NEW c \in Cli, PostImage(c) PROVE Reported
  <2> DEFINE m == Msg("WM_IMAGE", c, 0, c)
  <2>1. m \in Message /\ m.type = "WM_IMAGE" /\ coreQ' = Append(coreQ, m)
    BY <1>4 DEF PostImage, Msg, Message, Cli
  <2> HIDE DEF m
  <2> QED
    BY <1>0, <2>1, Posted DEF Reported
<1>5. ASSUME NEW c \in Cli, ReadEnds(c) PROVE Reported
  BY <1>0, <1>5, Posted DEF ReadEnds, Reported, CoreHandles, coreVars
<1>6. ASSUME NEW c \in Cli, AliveTimeout(c) PROVE Reported
  BY <1>0, <1>6, Posted DEF AliveTimeout, Reported, CoreHandles, coreVars
<1>7. ASSUME NEW c \in Cli, WaitCheckAlive(c) PROVE Reported
  <2>1. c \in client_map /\ Report(c)
    BY <1>7 DEF WaitCheckAlive, IInv, Mapped, Types
  <2> QED
    BY <2>1, NewestReported
<1>8. ASSUME NEW h \in accepting, CreateClient(h) PROVE Reported
  BY <1>0, <1>8, Posted DEF CreateClient, Reported, CoreHandles, coreVars
<1>9. ASSUME NEW h \in accepting, Insert(h) PROVE Reported
  BY <1>0, <1>9, Posted DEF Insert, Reported, CoreHandles, coreVars
<1>10. ASSUME NEW h \in accepting, StartAccept(h) PROVE Reported
  BY <1>0, <1>10, Posted DEF StartAccept, Reported, CoreHandles, coreVars
<1>11. ASSUME NEW w \in writes, Continue(w) PROVE Reported
  BY <1>0, <1>11, Posted DEF Continue, Reported, CoreHandles, coreVars
<1>12. ASSUME NEW w \in writes, SendHandler(w) PROVE Reported
  BY <1>0, <1>12, Posted DEF SendHandler, Reported, CoreHandles, coreVars
<1>13. ASSUME NEW w \in writes, AliveWriteHandler(w) PROVE Reported
  <2>1. w.cli \in client_map
    BY <1>13 DEF AliveWriteHandler, IInv, Mapped
  <2>2. Report(w.cli) \/ coreQ' = coreQ
    BY <1>13 DEF AliveWriteHandler
  <2> QED
    BY <1>0, <2>1, <2>2, NewestReported, Posted DEF Reported
<1>14. CASE CoreImage
  BY <1>0, <1>14, Posted DEF CoreImage, Reported, CoreHandles, coreVars
<1>15. CASE CoreHandsOn
  BY <1>0, <1>15, Posted DEF CoreHandsOn, Reported, CoreHandles, coreVars
<1>16. CASE CoreDisconnect
  BY <1>0, <1>16, Posted DEF CoreDisconnect, Reported, CoreHandles, coreVars
<1>17. CASE CoreResult
  BY <1>0, <1>17, Posted DEF CoreResult, Reported, CoreHandles, coreVars
<1>18. ASSUME NEW c \in Cli, AcceptDone(c) PROVE Reported
  BY <1>0, <1>18, Posted DEF AcceptDone, Reported, CoreHandles, coreVars
<1>19. ASSUME NEW c \in Cli, TimerExpires(c) PROVE Reported
  BY <1>0, <1>19, Posted DEF TimerExpires, Reported, CoreHandles, coreVars
<1>20. ASSUME NEW w \in writes, SystemSends(w) PROVE Reported
  BY <1>0, <1>20, Posted DEF SystemSends, Reported, CoreHandles, coreVars
<1>21. CASE RecSignals
  BY <1>0, <1>21, Posted DEF RecSignals, Reported, CoreHandles, coreVars
<1>22. CASE Dial
  BY <1>0, <1>22, Posted DEF Dial, Reported, CoreHandles, coreVars
<1>23. CASE RecLoses
  BY <1>0, <1>23, Posted DEF RecLoses, Reported, CoreHandles, coreVars
<1>24. ASSUME NEW id \in Cli, RecResult(id) PROVE Reported
  <2> DEFINE m == Msg("WM_RESULT_DECTIVE", id, results + 1, 0)
  <2>1. m \in Message /\ m.type = "WM_RESULT_DECTIVE" /\ coreQ' \in {coreQ, Append(coreQ, m)}
    BY <1>0, <1>24 DEF RecResult, Types, Msg, Message
  <2> HIDE DEF m
  <2> QED
    BY <1>0, <2>1, Posted DEF Reported
<1>25. ASSUME NEW c \in Cli, AcceptFails(c) PROVE Reported
  BY <1>0, <1>25, Posted DEF AcceptFails, Reported, CoreHandles, coreVars
<1>26. ASSUME NEW c \in Cli, Leave(c) PROVE Reported
  BY <1>0, <1>26, Posted DEF Leave, Reported, CoreHandles, coreVars
<1>27. ASSUME NEW c \in Cli, NEW what \in {"file", "alive", "error"}, Arrives(c, what)
      PROVE  Reported
  BY <1>0, <1>27, Posted DEF Arrives, Reported, CoreHandles, coreVars
<1>28. CASE UNCHANGED vars
  BY <1>0, <1>28, Posted DEF Reported, vars, coreVars
<1>29. CASE CoreFaults
  BY <1>0, <1>29, Posted DEF CoreFaults, Reported, coreVars
<1> QED
  BY <1>1, <1>2, <1>3, <1>4, <1>5, <1>6, <1>7, <1>8, <1>9, <1>10, <1>11, <1>12, <1>13, <1>14, <1>15, <1>16, <1>17, <1>18, <1>19, <1>20, <1>21, <1>22, <1>23, <1>24, <1>25, <1>26, <1>27, <1>28, <1>29
  DEF Next, IoThreads, Core, System, Environment

LEMMA ServedAlways == Spec => []Served
<1>1. Init => Served
  BY DEF Init, InitWith, Served, Cli
<1> QED
  BY <1>1, StepServed, Inductive, PTL DEF Spec

(* The id a disconnect is reported under is never older than the client that *)
(* has gone and never that of a client being served, whatever the threads of *)
(* the io_service do at the same time.                                       *)
THEOREM ReportsCorrect == Spec => ReportsNewest
<1>1. IInv /\ Served /\ [Next]_vars => [Reported]_vars
  BY StepReported
<1>2. Spec => [][Reported]_vars
  BY <1>1, Inductive, ServedAlways, PTL DEF Spec
<1> QED
  BY <1>2, PTL DEF ReportsNewest, Reported

-------------------------------------------------------------------------------
(* The results: posted, written, deleted. *)

ResultAt(q) == {i \in 1..Len(q) : q[i].type = "WM_RESULT_DECTIVE"}

Untouched(r) == freed[r] = 0 /\ dest[r] = 0 /\ \A w \in writes : w.of # r

(* A result is in the queue of Core, then in one write, then deleted. *)
Once ==
  /\ load \in Load /\ results \in 0..MaxResults
  /\ freed \in [Result -> {0, 1}] /\ dest \in [Result -> 0..MaxClients]
  /\ \A i \in ResultAt(coreQ) : coreQ[i].of \in 1..results /\ Untouched(coreQ[i].of)
  /\ \A i, j \in ResultAt(coreQ) : i < j => coreQ[i].of < coreQ[j].of
  /\ \A w \in writes : w.of <= results /\ (w.of # 0 => freed[w.of] = 0)
  /\ \A v, w \in writes : v.of = w.of /\ v.of # 0 => v = w
  /\ \A r \in Result : r > results => Untouched(r)

LEMMA ResultAtAppend ==
  ASSUME NEW q \in Seq(Message), NEW m \in Message
  PROVE  /\ ResultAt(Append(q, m)) = IF m.type = "WM_RESULT_DECTIVE"
                                     THEN ResultAt(q) \cup {Len(q) + 1} ELSE ResultAt(q)
         /\ \A i \in ResultAt(q) : Append(q, m)[i] = q[i] /\ i \in 1..Len(q)
         /\ Append(q, m)[Len(q) + 1] = m /\ Len(q) \in Nat
<1>1. /\ Len(Append(q, m)) = Len(q) + 1 /\ Len(q) \in Nat
      /\ \A i \in 1..Len(q) : Append(q, m)[i] = q[i]
      /\ Append(q, m)[Len(q) + 1] = m
  OBVIOUS
<1>2. CASE m.type = "WM_RESULT_DECTIVE"
  BY <1>1, <1>2 DEF ResultAt
<1>3. CASE m.type # "WM_RESULT_DECTIVE"
  BY <1>1, <1>3 DEF ResultAt
<1> QED
  BY <1>1, <1>2, <1>3 DEF ResultAt

LEMMA ResultAtTail ==
  ASSUME NEW q \in Seq(Message), q # <<>>
  PROVE  /\ \A i \in ResultAt(Tail(q)) :
              i + 1 \in ResultAt(q) /\ Tail(q)[i] = q[i + 1] /\ i \in Nat \ {0}
         /\ 1 \in ResultAt(q) <=> Head(q).type = "WM_RESULT_DECTIVE"
         /\ Head(q) = q[1]
<1>1. /\ Len(Tail(q)) = Len(q) - 1 /\ Len(q) \in Nat \ {0} /\ Head(q) = q[1]
      /\ \A i \in 1..Len(Tail(q)) : Tail(q)[i] = q[i + 1]
  OBVIOUS
<1> QED
  BY <1>1 DEF ResultAt

(* A step that posts no result: each result queued was queued before it. *)
NoNewResult ==
  \/ coreQ' = coreQ
  \/ \E m \in Message : m.type # "WM_RESULT_DECTIVE" /\ coreQ' = Append(coreQ, m)
  \/ coreQ # <<>> /\ coreQ' = Tail(coreQ)

LEMMA ResultsKept ==
  ASSUME Types, NoNewResult
  PROVE  \E d \in {0, 1} : \A i \in ResultAt(coreQ') :
           i \in Nat /\ i + d \in ResultAt(coreQ) /\ coreQ'[i] = coreQ[i + d]
<1>1. coreQ \in Seq(Message)
  BY DEF Types
<1>2. CASE coreQ' = coreQ
  <2>1. \A i \in ResultAt(coreQ') : i \in Nat /\ i + 0 = i
    BY DEF ResultAt
  <2> QED
    BY <1>2, <2>1
<1>3. ASSUME NEW m \in Message, m.type # "WM_RESULT_DECTIVE", coreQ' = Append(coreQ, m)
      PROVE  \A i \in ResultAt(coreQ') :
               i \in Nat /\ i + 0 \in ResultAt(coreQ) /\ coreQ'[i] = coreQ[i + 0]
  <2>1. /\ ResultAt(coreQ') = ResultAt(coreQ)
        /\ \A i \in ResultAt(coreQ) : coreQ'[i] = coreQ[i]
    BY <1>1, <1>3, ResultAtAppend
  <2>2. \A i \in ResultAt(coreQ) : i \in Nat /\ i + 0 = i
    BY DEF ResultAt
  <2> QED
    BY <2>1, <2>2
<1>4. CASE coreQ # <<>> /\ coreQ' = Tail(coreQ)
  BY <1>1, <1>4, ResultAtTail
<1> QED
  BY <1>2, <1>3, <1>4 DEF NoNewResult

LEMMA QueuedKept ==
  ASSUME Types, Once, NoNewResult
  PROVE  /\ \A i \in ResultAt(coreQ') :
              coreQ'[i].of \in 1..results /\ coreQ'[i].of \in Result /\ Untouched(coreQ'[i].of)
         /\ \A i, j \in ResultAt(coreQ') : i < j => coreQ'[i].of < coreQ'[j].of
<1>1. PICK d \in {0, 1} : \A i \in ResultAt(coreQ') :
           i \in Nat /\ i + d \in ResultAt(coreQ) /\ coreQ'[i] = coreQ[i + d]
  BY ResultsKept
<1>2. \A i, j \in ResultAt(coreQ') : i < j => coreQ'[i].of < coreQ'[j].of
  <2> SUFFICES ASSUME NEW i \in ResultAt(coreQ'), NEW j \in ResultAt(coreQ'), i < j
               PROVE  coreQ'[i].of < coreQ'[j].of
    OBVIOUS
  <2>1. i + d < j + d
    BY <1>1
  <2> QED
    BY <1>1, <2>1 DEF Once
<1>3. results \in 0..MaxResults /\ MaxResults \in Nat
  BY ClientsAssumption DEF Once
<1> QED
  BY <1>1, <1>2, <1>3 DEF Once, Result

(* Writes that go on, fail or end: none of them is about another result. *)
LEMMA OnceSame ==
  ASSUME Types, Once, NoNewResult, UNCHANGED <<load, results, freed, dest>>,
         \A w \in writes' : w.of = 0 \/ \E v \in writes : v.of = w.of,
         \A v, w \in writes' : v.of = w.of /\ v.of # 0 => v = w
  PROVE  Once'
<1>1. \A r \in Result : Untouched(r) => Untouched(r)'
  <2> SUFFICES ASSUME NEW r \in Result, Untouched(r) PROVE \A w \in writes' : w.of # r
    BY DEF Untouched
  <2>1. r # 0
    BY DEF Result
  <2> QED
    BY <2>1 DEF Untouched
<1>2. /\ \A i \in ResultAt(coreQ') :
           /\ coreQ'[i].of \in 1..results
           /\ freed'[coreQ'[i].of] = 0 /\ dest'[coreQ'[i].of] = 0
           /\ \A w \in writes' : w.of # coreQ'[i].of
      /\ \A i, j \in ResultAt(coreQ') : i < j => coreQ'[i].of < coreQ'[j].of
  BY <1>1, QueuedKept DEF Untouched
<1>3. \A w \in writes' : w.of <= results /\ (w.of # 0 => freed[w.of] = 0)
  BY DEF Once
<1>4. \A r \in Result : r > results => Untouched(r)'
  BY <1>1 DEF Once
<1>5. ResultAt(coreQ)' = ResultAt(coreQ')
  BY DEF ResultAt
<1> QED
  BY <1>2, <1>3, <1>4, <1>5 DEF Once, Untouched

(* A write in another state, or of another piece, takes the place of the old one. *)
LEMMA OnceReplaced ==
  ASSUME Types, Once, NoNewResult, UNCHANGED <<load, results, freed, dest>>,
         NEW w \in writes, NEW v, v.of = w.of, writes' = (writes \ {w}) \union {v}
  PROVE  Once'
<1>1. \A u \in writes' : \E x \in writes : x.of = u.of
  OBVIOUS
<1>2. \A x, y \in writes' : x.of = y.of /\ x.of # 0 => x = y
  BY DEF Once
<1> QED
  BY <1>1, <1>2, OnceSame

(* Closing a socket leaves a write of each result or none. *)
LEMMA OnceClosed ==
  ASSUME Types, Once, NoNewResult, UNCHANGED <<load, results, freed, dest>>,
         NEW c \in Cli, NEW ws \in SUBSET writes, Close(c, ws)
  PROVE  Once'
<1> DEFINE after(w) == IF w.cli = c /\ w.state = "sending" THEN [w EXCEPT !.state = "failed"] ELSE w
<1>1. \A w \in ws : after(w).of = w.of
  BY DEF Types, Write
<1>2. writes' = {after(w) : w \in ws}
  BY DEF Close
<1> HIDE DEF after
<1>3. \A u \in writes' : \E x \in writes : x.of = u.of
  BY <1>1, <1>2
<1>4. \A x, y \in writes' : x.of = y.of /\ x.of # 0 => x = y
  BY <1>1, <1>2 DEF Once
<1> QED
  BY <1>3, <1>4, OnceSame

(* send_handler: the one write of the result ends, and its array is deleted. *)
LEMMA OnceDeleted ==
  ASSUME Types, Once, NEW w \in writes, SendHandler(w)
  PROVE  Once'
<1>1. /\ w.of \in Result /\ w.of \in 1..results /\ freed[w.of] = 0
      /\ writes' = writes \ {w} /\ freed' = [freed EXCEPT ![w.of] = @ + 1]
      /\ UNCHANGED <<load, coreQ, results, dest>>
  <2>1. w \in Write /\ w.of # 0 /\ w.of \in Nat
    BY DEF Types, Write, SendHandler
  <2> QED
    BY <2>1, ClientsAssumption DEF Once, SendHandler, Result, coreVars
<1>2. freed' \in [Result -> {0, 1}] /\ \A r \in Result : r # w.of => freed'[r] = freed[r]
  BY <1>1 DEF Once
<1>3. \A r \in Result : Untouched(r) => r # w.of
  BY DEF Untouched
<1>4. \A r \in Result : Untouched(r) => Untouched(r)'
  BY <1>1, <1>2, <1>3 DEF Untouched
<1>5. \A i \in ResultAt(coreQ) : coreQ[i].of \in Result
  BY ClientsAssumption DEF Once, Result
<1>6. ResultAt(coreQ)' = ResultAt(coreQ)
  BY <1>1 DEF ResultAt
<1>7. /\ \A i \in ResultAt(coreQ) :
           /\ coreQ[i].of \in 1..results
           /\ freed'[coreQ[i].of] = 0 /\ dest'[coreQ[i].of] = 0
           /\ \A v \in writes' : v.of # coreQ[i].of
  BY <1>4, <1>5 DEF Once, Untouched
<1>8. \A v \in writes' : v.of <= results /\ (v.of # 0 => freed'[v.of] = 0)
  <2> SUFFICES ASSUME NEW v \in writes' PROVE v.of <= results /\ (v.of # 0 => freed'[v.of] = 0)
    OBVIOUS
  <2>1. v \in writes /\ v # w /\ v \in Write
    BY <1>1 DEF Types
  <2>2. v.of \in Nat /\ v.of <= results
    BY <2>1 DEF Write, Once
  <2>3. v.of # w.of
    BY <1>1, <2>1 DEF Once, Result
  <2> QED
    BY <1>1, <1>2, <2>1, <2>2, <2>3, ClientsAssumption DEF Once, Result
<1>9. /\ \A u, v \in writes' : u.of = v.of /\ u.of # 0 => u = v
      /\ \A r \in Result : r > results => Untouched(r)'
  BY <1>1, <1>4 DEF Once
<1> QED
  BY <1>1, <1>2, <1>6, <1>7, <1>8, <1>9 DEF Once, Untouched

(* Core takes a result from its queue and starts the write of it: the only one. *)
LEMMA OnceStarted ==
  ASSUME Types, Once, CoreHandles("WM_RESULT_DECTIVE"), coreQ' = Tail(coreQ),
         NEW c \in Cli, SendResult(c, Head(coreQ).of), UNCHANGED <<load, results, freed>>
  PROVE  Once'
<1> DEFINE r == Head(coreQ).of
<1>1. /\ coreQ # <<>> /\ coreQ \in Seq(Message)
      /\ 1 \in ResultAt(coreQ) /\ Head(coreQ) = coreQ[1]
  BY ResultAtTail DEF Types, CoreHandles
<1>2. r \in 1..results /\ r \in Result /\ Untouched(r)
  BY <1>1, ClientsAssumption DEF Once, Result
<1>3. /\ NoNewResult
      /\ \A i \in ResultAt(coreQ') : coreQ'[i].of # r
  <2>1. NoNewResult
    BY <1>1 DEF NoNewResult
  <2>2. ASSUME NEW i \in ResultAt(coreQ') PROVE coreQ'[i].of # r
    <3>1. i + 1 \in ResultAt(coreQ) /\ coreQ'[i] = coreQ[i + 1] /\ i \in Nat \ {0}
      BY <1>1, ResultAtTail
    <3>2. coreQ[1].of < coreQ[i + 1].of
      BY <1>1, <3>1 DEF Once
    <3>3. coreQ[1].of \in Nat /\ coreQ[i + 1].of \in Nat
      BY <1>1, <3>1 DEF Once
    <3>4. coreQ[1].of # coreQ[i + 1].of
      BY <3>2, <3>3
    <3> QED
      BY <1>1, <3>1, <3>4, Zenon
  <2> QED
    BY <2>1, <2>2
<1>4. \E v : v.of = r /\ writes' = writes \union {v}
  BY DEF SendResult, AsyncWrite
<1>5. /\ dest' \in [Result -> 0..MaxClients]
      /\ \A s \in Result : s # r => dest'[s] = dest[s]
  BY <1>2, ClientsAssumption DEF SendResult, Once, Cli
<1>6. r \in Nat \ {0} /\ r <= results /\ results \in Nat
  BY <1>2, ClientsAssumption DEF Once, Result
<1> HIDE DEF r
<1>7. \A s \in Result : s # r /\ Untouched(s) => Untouched(s)'
  BY <1>4, <1>5 DEF Untouched
<1>8. /\ \A i \in ResultAt(coreQ') :
           /\ coreQ'[i].of \in 1..results /\ coreQ'[i].of \in Result /\ coreQ'[i].of # r
           /\ Untouched(coreQ'[i].of)
      /\ \A i, j \in ResultAt(coreQ') : i < j => coreQ'[i].of < coreQ'[j].of
  <2>1. /\ \A i \in ResultAt(coreQ') :
              coreQ'[i].of \in 1..results /\ coreQ'[i].of \in Result /\ Untouched(coreQ'[i].of)
        /\ \A i, j \in ResultAt(coreQ') : i < j => coreQ'[i].of < coreQ'[j].of
    BY <1>3, QueuedKept
  <2> QED
    BY <1>3, <2>1
<1>9. \A i \in ResultAt(coreQ') :
        /\ coreQ'[i].of \in 1..results
        /\ freed'[coreQ'[i].of] = 0 /\ dest'[coreQ'[i].of] = 0
        /\ \A v \in writes' : v.of # coreQ'[i].of
  BY <1>7, <1>8 DEF Untouched
<1>10. \A v \in writes' : v.of <= results /\ (v.of # 0 => freed'[v.of] = 0)
  BY <1>2, <1>4, <1>6 DEF Once, Untouched
<1>11. \A u, v \in writes' : u.of = v.of /\ u.of # 0 => u = v
  BY <1>2, <1>4 DEF Once, Untouched
<1>12. \A s \in Result : s > results => Untouched(s)'
  <2> SUFFICES ASSUME NEW s \in Result, s > results PROVE Untouched(s)'
    OBVIOUS
  <2>1. s # r
    BY <1>6 DEF Result
  <2> QED
    BY <1>7, <2>1 DEF Once
<1>13. ResultAt(coreQ)' = ResultAt(coreQ')
  BY DEF ResultAt
<1> QED
  BY <1>5, <1>8, <1>9, <1>10, <1>11, <1>12, <1>13 DEF Once, Untouched

(* The recognition process posts the next result: the newest, and not yet written. *)
LEMMA OncePosted ==
  ASSUME Types, Once, NEW id \in Cli, RecResult(id)
  PROVE  Once'
<1> DEFINE n == results + 1
<1>1. /\ results \in Nat /\ n \in Result /\ results' = n /\ n \in 0..MaxResults /\ results < n
      /\ UNCHANGED <<load, freed, dest, writes>>
  <2>1. /\ load \in Load /\ results \in 0..MaxResults /\ results < load.results /\ results' = n
        /\ UNCHANGED <<load, freed, dest, writes>>
    BY DEF Once, RecResult, writeVars
  <2>2. load.results \in 0..MaxResults /\ MaxResults \in Nat
    BY <2>1, ClientsAssumption
  <2> QED
    BY <2>1, <2>2 DEF Result
<1>2. /\ \A s \in Result : Untouched(s) => Untouched(s)'
      /\ Untouched(n)
  BY <1>1 DEF Untouched, Once
<1>3. \A i \in ResultAt(coreQ) : coreQ[i].of \in 1..results /\ coreQ[i].of \in Result
  BY ClientsAssumption DEF Once, Result
<1> HIDE DEF n
<1>4. \A i \in ResultAt(coreQ) : coreQ[i].of \in 1..n /\ coreQ[i].of < n
  BY <1>1, <1>3 DEF Result
<1>5. n \in 1..n
  BY <1>1 DEF Result
<1>6. /\ \A i \in ResultAt(coreQ') : /\ coreQ'[i].of \in 1..n /\ coreQ'[i].of \in Result
                                     /\ Untouched(coreQ'[i].of)
      /\ \A i, j \in ResultAt(coreQ') : i < j => coreQ'[i].of < coreQ'[j].of
  <2> DEFINE m == Msg("WM_RESULT_DECTIVE", id, n, 0)
  <2>1. m \in Message /\ m.type = "WM_RESULT_DECTIVE" /\ m.of = n
    BY <1>1 DEF Msg, Message, Result
  <2>2. CASE coreQ' = coreQ
    BY <1>3, <1>4, <2>2 DEF Once
  <2>3. CASE coreQ' = Append(coreQ, m)
    <3> HIDE DEF m
    <3>1. /\ ResultAt(coreQ') = ResultAt(coreQ) \cup {Len(coreQ) + 1}
          /\ \A i \in ResultAt(coreQ) : coreQ'[i] = coreQ[i] /\ i \in 1..Len(coreQ)
          /\ coreQ'[Len(coreQ) + 1] = m /\ Len(coreQ) \in Nat
      BY <2>1, <2>3, ResultAtAppend DEF Types
    <3>2. \A i \in ResultAt(coreQ') : /\ coreQ'[i].of \in 1..n /\ coreQ'[i].of \in Result
                                      /\ Untouched(coreQ'[i].of)
      BY <1>1, <1>2, <1>3, <1>4, <1>5, <2>1, <3>1 DEF Once
    <3>3. ASSUME NEW i \in ResultAt(coreQ'), NEW j \in ResultAt(coreQ'), i < j
          PROVE  coreQ'[i].of < coreQ'[j].of
      <4>1. i \in ResultAt(coreQ)
        BY <3>1, <3>3
      <4>2. CASE j \in ResultAt(coreQ)
        BY <3>1, <3>3, <4>1, <4>2 DEF Once
      <4>3. CASE j = Len(coreQ) + 1
        BY <1>4, <2>1, <3>1, <4>1, <4>3
      <4> QED
        BY <3>1, <4>2, <4>3
    <3> QED
      BY <3>2, <3>3
  <2> QED
    BY <1>1, <2>2, <2>3 DEF RecResult
<1>7. \A i \in ResultAt(coreQ') :
        /\ coreQ'[i].of \in 1..results'
        /\ freed'[coreQ'[i].of] = 0 /\ dest'[coreQ'[i].of] = 0
        /\ \A v \in writes' : v.of # coreQ'[i].of
  BY <1>1, <1>6 DEF Untouched
<1>8. \A v \in writes' : v.of <= results' /\ (v.of # 0 => freed'[v.of] = 0)
  <2> SUFFICES ASSUME NEW v \in writes PROVE v.of <= n /\ (v.of # 0 => freed[v.of] = 0)
    BY <1>1
  <2>1. v.of \in Nat /\ v.of <= results /\ n \in Nat
    BY <1>1 DEF Types, Write, Once, Result
  <2> QED
    BY <1>1, <2>1 DEF Once
<1>9. \A s \in Result : s > results' => Untouched(s)'
  <2> SUFFICES ASSUME NEW s \in Result, s > n PROVE Untouched(s)
    BY <1>1, <1>2
  <2>1. s > results
    BY <1>1 DEF Result
  <2> QED
    BY <2>1 DEF Once
<1>10. ResultAt(coreQ)' = ResultAt(coreQ')
  BY DEF ResultAt
<1>11. \A u, v \in writes' : u.of = v.of /\ u.of # 0 => u = v
  BY <1>1 DEF Once
<1>12. /\ load' \in Load /\ results' \in 0..MaxResults
       /\ freed' \in [Result -> {0, 1}] /\ dest' \in [Result -> 0..MaxClients]
  BY <1>1 DEF Once
<1> QED
  BY <1>6, <1>7, <1>8, <1>9, <1>10, <1>11, <1>12 DEF Once, Untouched

(* The steps that touch no result and no write. *)
LEMMA OnceIdle ==
  ASSUME Types, Once, NoNewResult, UNCHANGED <<load, results, freed, dest, writes>>
  PROVE  Once'
<1>1. \A w \in writes' : \E v \in writes : v.of = w.of
  OBVIOUS
<1>2. \A v, w \in writes' : v.of = w.of /\ v.of # 0 => v = w
  BY DEF Once
<1> QED
  BY <1>1, <1>2, OnceSame

(* A disconnect that is posted is no result. *)
LEMMA ReportPosts ==
  ASSUME Types, NEW c \in Cli, Report(c)
  PROVE  NoNewResult
<1>1. /\ Msg("WM_CLIENT_DISCONNECT", client_id, 0, c) \in Message
      /\ Msg("WM_CLIENT_DISCONNECT", client_id, 0, c).type = "WM_CLIENT_DISCONNECT"
  BY DEF Types, Msg, Message, Cli
<1> QED
  BY <1>1 DEF Report, NoNewResult

LEMMA StepOnce == IInv /\ Once /\ [Next]_vars => Once'
<1> SUFFICES ASSUME IInv, Once, [Next]_vars PROVE Once'
  OBVIOUS
<1>0. Types
  BY DEF IInv
<1>1. ASSUME NEW c \in Cli, AcceptHandler(c) PROVE Once'
  BY <1>0, <1>1, OnceIdle DEF AcceptHandler, NoNewResult, coreVars, writeVars
<1>2. ASSUME NEW c \in Cli, AcceptHandlerFailed(c) PROVE Once'
  BY <1>0, <1>2, OnceIdle DEF AcceptHandlerFailed, NoNewResult, coreVars, writeVars
<1>3. ASSUME NEW c \in Cli, FileReceived(c) PROVE Once'
  BY <1>0, <1>3, OnceIdle DEF FileReceived, NoNewResult, coreVars, writeVars
<1>4. ASSUME NEW c \in Cli, PostImage(c) PROVE Once'
  <2>1. Msg("WM_IMAGE", c, 0, c) \in Message /\ Msg("WM_IMAGE", c, 0, c).type = "WM_IMAGE"
    BY DEF Msg, Message, Cli
  <2>2. NoNewResult /\ UNCHANGED <<load, results, freed, dest, writes>>
    BY <1>4, <2>1 DEF PostImage, NoNewResult, writeVars
  <2> QED
    BY <1>0, <2>2, OnceIdle
<1>5. ASSUME NEW c \in Cli, ReadEnds(c) PROVE Once'
  BY <1>0, <1>5, OnceIdle DEF ReadEnds, NoNewResult, coreVars, writeVars
<1>6. ASSUME NEW c \in Cli, AliveTimeout(c) PROVE Once'
  <2>1. \E v : v.of = 0 /\ writes' = writes \union {v}
    BY <1>6 DEF AliveTimeout, AsyncWrite
  <2>2. /\ \A u \in writes' : u.of = 0 \/ \E x \in writes : x.of = u.of
        /\ \A u, x \in writes' : u.of = x.of /\ u.of # 0 => u = x
    BY <2>1 DEF Once
  <2>3. NoNewResult /\ UNCHANGED <<load, results, freed, dest>>
    BY <1>6 DEF AliveTimeout, NoNewResult, coreVars
  <2> QED
    BY <1>0, <2>2, <2>3, OnceSame
<1>7. ASSUME NEW c \in Cli, WaitCheckAlive(c) PROVE Once'
  <2>1. Close(c, writes) /\ NoNewResult /\ UNCHANGED <<load, results, freed, dest>>
    BY <1>0, <1>7, ReportPosts DEF WaitCheckAlive
  <2> QED
    BY <1>0, <2>1, OnceClosed
<1>8. ASSUME NEW h \in accepting, CreateClient(h) PROVE Once'
  BY <1>0, <1>8, OnceIdle DEF CreateClient, NoNewResult, coreVars, writeVars
<1>9. ASSUME NEW h \in accepting, Insert(h) PROVE Once'
  BY <1>0, <1>9, OnceIdle DEF Insert, NoNewResult, coreVars, writeVars
<1>10. ASSUME NEW h \in accepting, StartAccept(h) PROVE Once'
  BY <1>0, <1>10, OnceIdle DEF StartAccept, NoNewResult, coreVars, writeVars
<1>11. ASSUME NEW w \in writes, Continue(w) PROVE Once'
  <2>1. \E v : v.of = w.of /\ writes' = (writes \ {w}) \union {v}
    BY <1>0, <1>11 DEF Continue, Types, Write
  <2>2. NoNewResult /\ UNCHANGED <<load, results, freed, dest>>
    BY <1>11 DEF Continue, NoNewResult, coreVars
  <2> QED
    BY <1>0, <2>1, <2>2, OnceReplaced
<1>12. ASSUME NEW w \in writes, SendHandler(w) PROVE Once'
  BY <1>0, <1>12, OnceDeleted
<1>13. ASSUME NEW w \in writes, AliveWriteHandler(w) PROVE Once'
  <2>1. CASE w.state = "failed"
    <3>1. w.cli \in Cli /\ writes \ {w} \in SUBSET writes
      BY <1>0 DEF Types, Write
    <3>2. Close(w.cli, writes \ {w}) /\ NoNewResult /\ UNCHANGED <<load, results, freed, dest>>
      BY <1>0, <1>13, <2>1, <3>1, ReportPosts DEF AliveWriteHandler
    <3> QED
      BY <1>0, <3>1, <3>2, OnceClosed
  <2>2. CASE w.state # "failed"
    <3>1. writes' = writes \ {w} /\ NoNewResult /\ UNCHANGED <<load, results, freed, dest>>
      BY <1>13, <2>2 DEF AliveWriteHandler, NoNewResult
    <3>2. /\ \A u \in writes' : \E x \in writes : x.of = u.of
          /\ \A u, x \in writes' : u.of = x.of /\ u.of # 0 => u = x
      BY <3>1 DEF Once
    <3> QED
      BY <1>0, <3>1, <3>2, OnceSame
  <2> QED
    BY <2>1, <2>2
<1>14. CASE CoreImage
  BY <1>0, <1>14, OnceIdle DEF CoreImage, NoNewResult, coreVars, writeVars, CoreHandles
<1>15. CASE CoreHandsOn
  BY <1>0, <1>15, OnceIdle DEF CoreHandsOn, NoNewResult, coreVars, writeVars
<1>16. CASE CoreDisconnect
  BY <1>0, <1>16, OnceIdle DEF CoreDisconnect, NoNewResult, coreVars, writeVars, CoreHandles
<1>17. CASE CoreResult
  <2>1. /\ CoreHandles("WM_RESULT_DECTIVE") /\ coreQ' = Tail(coreQ) /\ NoNewResult
        /\ UNCHANGED <<load, results, freed>>
    BY <1>17 DEF CoreResult, CoreHandles, NoNewResult
  <2>2. CASE SendResult(Head(coreQ).id, Head(coreQ).of)
    <3>1. Head(coreQ).id \in Cli
      <4>1. Head(coreQ) \in Message
        BY <1>0, <2>1, QueueTypes DEF Types, CoreHandles
      <4> QED
        BY <4>1 DEF Message
    <3> QED
      BY <1>0, <2>1, <2>2, <3>1, OnceStarted
  <2>3. CASE UNCHANGED <<dest, writes, sendQ>>
    BY <1>0, <2>1, <2>3, OnceIdle
  <2> QED
    BY <1>17, <2>2, <2>3 DEF CoreResult
<1>18. ASSUME NEW c \in Cli, AcceptDone(c) PROVE Once'
  BY <1>0, <1>18, OnceIdle DEF AcceptDone, NoNewResult, coreVars, writeVars
<1>19. ASSUME NEW c \in Cli, TimerExpires(c) PROVE Once'
  BY <1>0, <1>19, OnceIdle DEF TimerExpires, NoNewResult, coreVars, writeVars
<1>20. ASSUME NEW w \in writes, SystemSends(w) PROVE Once'
  <2>1. \E v : v.of = w.of /\ writes' = (writes \ {w}) \union {v}
    <3>1. w \in Write
      BY <1>0 DEF Types
    <3>2. [w EXCEPT !.state = "sent"].of = w.of /\ [w EXCEPT !.state = "failed"].of = w.of
      BY <3>1 DEF Write
    <3>3. \/ writes' = (writes \ {w}) \union {[w EXCEPT !.state = "sent"]}
          \/ writes' = (writes \ {w}) \union {[w EXCEPT !.state = "failed"]}
      BY <1>20 DEF SystemSends
    <3> QED
      BY <3>2, <3>3
  <2>2. NoNewResult /\ UNCHANGED <<load, results, freed, dest>>
    BY <1>20 DEF SystemSends, NoNewResult, coreVars
  <2> QED
    BY <1>0, <2>1, <2>2, OnceReplaced
<1>21. CASE RecSignals
  BY <1>0, <1>21, OnceIdle DEF RecSignals, NoNewResult, coreVars, writeVars
<1>22. CASE Dial
  BY <1>0, <1>22, OnceIdle DEF Dial, NoNewResult, coreVars, writeVars
<1>23. CASE RecLoses
  BY <1>0, <1>23, OnceIdle DEF RecLoses, NoNewResult, coreVars, writeVars
<1>24. ASSUME NEW id \in Cli, RecResult(id) PROVE Once'
  BY <1>0, <1>24, OncePosted
<1>25. ASSUME NEW c \in Cli, AcceptFails(c) PROVE Once'
  BY <1>0, <1>25, OnceIdle DEF AcceptFails, NoNewResult, coreVars, writeVars
<1>26. ASSUME NEW c \in Cli, Leave(c) PROVE Once'
  BY <1>0, <1>26, OnceIdle DEF Leave, NoNewResult, coreVars, writeVars
<1>27. ASSUME NEW c \in Cli, NEW what \in {"file", "alive", "error"}, Arrives(c, what)
      PROVE  Once'
  BY <1>0, <1>27, OnceIdle DEF Arrives, NoNewResult, coreVars, writeVars
<1>28. CASE UNCHANGED vars
  BY <1>0, <1>28, OnceIdle DEF NoNewResult, vars, coreVars, writeVars
<1>29. CASE CoreFaults
  BY <1>0, <1>29, OnceIdle DEF CoreFaults, NoNewResult, coreVars, writeVars
<1> QED
  BY <1>1, <1>2, <1>3, <1>4, <1>5, <1>6, <1>7, <1>8, <1>9, <1>10, <1>11, <1>12, <1>13, <1>14, <1>15, <1>16, <1>17, <1>18, <1>19, <1>20, <1>21, <1>22, <1>23, <1>24, <1>25, <1>26, <1>27, <1>28, <1>29
  DEF Next, IoThreads, Core, System, Environment

LEMMA OnceAlways == Spec => []Once
<1>1. Init => Once
  <2> SUFFICES ASSUME Init PROVE Once
    OBVIOUS
  <2>1. ResultAt(coreQ) = {}
    BY DEF Init, InitWith, ResultAt
  <2> QED
    BY <2>1, ClientsAssumption DEF Init, InitWith, Once, Untouched, Result
<1> QED
  BY <1>1, StepOnce, Inductive, PTL DEF Spec

(* The array of a result is deleted at most once, and only when its write has *)
(* ended: Core, the threads and the sockets hand it on, never share it.       *)
THEOREM DeletedCorrect == Spec => []DeletedOnce
<1>1. Types /\ Once => DeletedOnce
  BY DEF Once, DeletedOnce, Types, Write, Result
<1> QED
  BY <1>1, OnceAlways, Inductive, PTL DEF IInv

-------------------------------------------------------------------------------
(* The files received and the threads that are kept. *)

Waiting == {c \in Cli : read[c] = "file"}

(* Every file received waits for its handler, is being posted, or is posted. *)
Counted ==
  /\ \A c \in posting : read[c] = "none"
  /\ handed \in Nat /\ files \in Nat
  /\ handed + Cardinality(posting) + Cardinality(Waiting) = files
  /\ Cardinality(posting) + Cardinality(accepting) <= async_run_num

LEMMA SubsetsFinite ==
  ASSUME NEW S \in SUBSET Cli
  PROVE  /\ IsFiniteSet(S) /\ Cardinality(S) \in Nat
         /\ \A c : c \notin S => Cardinality(S \union {c}) = Cardinality(S) + 1
         /\ \A c \in S : Cardinality(S \ {c}) = Cardinality(S) - 1
<1>1. IsFiniteSet(Cli)
  BY ClientsAssumption, FS_Interval DEF Cli
<1>2. IsFiniteSet(S)
  BY <1>1, FS_Subset
<1> QED
  BY <1>2, FS_CardinalityType, FS_AddElement, FS_RemoveElement

(* One accept_handler runs at most. *)
LEMMA OneHandler ==
  ASSUME NEW S, \A g, h \in S : g = h
  PROVE  /\ S = {} => Cardinality(S) = 0
         /\ S # {} => Cardinality(S) = 1
         /\ Cardinality(S) \in {0, 1} /\ Cardinality(S) \in Nat
<1>1. ASSUME S # {} PROVE Cardinality(S) = 1
  <2>1. \E h : S = {h}
    BY <1>1
  <2> QED
    BY <2>1, FS_Singleton
<1> QED
  BY <1>1, FS_EmptySet

(* The steps that neither take a thread nor bring or post a file. *)
LEMMA CountedIdle ==
  ASSUME IInv, IInv', Counted, UNCHANGED <<files, posting, handed>>,
         \A c \in Cli : (read'[c] = "file") <=> (read[c] = "file"),
         \A c \in posting : read'[c] = "none",
         accepting' = {} \/ accepting # {}
  PROVE  Counted'
<1>1. Waiting' = Waiting
  BY DEF Waiting
<1>2. Cardinality(accepting') <= Cardinality(accepting)
  <2>1. (\A g, h \in accepting : g = h) /\ (\A g, h \in accepting' : g = h)
    BY DEF IInv, OneAccept
  <2>2. CASE accepting' = {}
    <3>1. Cardinality(accepting') = 0 /\ Cardinality(accepting) \in Nat
      BY <2>1, <2>2, OneHandler
    <3> QED
      BY <3>1
  <2>3. CASE accepting' # {}
    <3>1. Cardinality(accepting') = 1 /\ Cardinality(accepting) = 1
      BY <2>1, <2>3, OneHandler
    <3> QED
      BY <3>1
  <2> QED
    BY <2>2, <2>3
<1>3. /\ Cardinality(posting) \in Nat /\ Cardinality(accepting) \in Nat /\ Cardinality(accepting') \in Nat
      /\ async_run_num \in Nat
  <2>1. posting \in SUBSET Cli /\ (\A g, h \in accepting : g = h) /\ (\A g, h \in accepting' : g = h)
    BY DEF IInv, Types, OneAccept
  <2> QED
    BY <2>1, SubsetsFinite, OneHandler, ClientsAssumption
<1>4. Cardinality(posting) + Cardinality(accepting') <= async_run_num
  <2>1. Cardinality(posting) + Cardinality(accepting) <= async_run_num
    BY DEF Counted
  <2> QED
    BY <1>2, <1>3, <2>1
<1> QED
  BY <1>1, <1>4 DEF Counted

(* A handler that can keep a thread begins only when one is free. *)
LEMMA StepCounted == IInv /\ IInv' /\ Served /\ Counted /\ [Next]_vars => Counted'
<1> SUFFICES ASSUME IInv, IInv', Served, Counted, [Next]_vars PROVE Counted'
  OBVIOUS
<1>1. /\ posting \in SUBSET Cli /\ Waiting \in SUBSET Cli /\ read \in [Cli -> {"none", "posted", "file", "alive", "error"}]
  BY DEF IInv, Types, Waiting
<1>2. /\ Cardinality(posting) \in Nat /\ Cardinality(Waiting) \in Nat
      /\ Cardinality(accepting) \in Nat /\ (accepting = {} => Cardinality(accepting) = 0)
      /\ handed \in Nat /\ files \in Nat /\ async_run_num \in Nat
      /\ handed + Cardinality(posting) + Cardinality(Waiting) = files
  <2>1. \A g, h \in accepting : g = h
    BY DEF IInv, OneAccept
  <2> QED
    BY <1>1, <2>1, SubsetsFinite, OneHandler, ClientsAssumption DEF Counted
<1>3. ASSUME NEW c \in Cli, AcceptHandler(c) PROVE Counted'
  <2>1. c = client_id /\ accepting = {} /\ read[c] = "none" /\ c \notin posting
    BY <1>1, <1>3 DEF AcceptHandler, IInv, OneAccept, Served, Types, Cli
  <2>2. CASE UNCHANGED <<read, accepting>>
    BY <1>1, <1>3, <2>2, CountedIdle DEF AcceptHandler, Counted
  <2>3. CASE /\ read' = [read EXCEPT ![c] = "posted"]
             /\ accepting' = accepting \union {[cli |-> c, at |-> "started", new |-> 0]}
    <3>1. Waiting' = Waiting /\ UNCHANGED <<posting, handed, files>>
      BY <1>1, <1>3, <2>1, <2>3 DEF AcceptHandler, Waiting
    <3>2. Cardinality(accepting') = 1
      <4>1. accepting' = {[cli |-> c, at |-> "started", new |-> 0]}
        BY <2>1, <2>3
      <4> QED
        BY <4>1, FS_Singleton
    <3>3. Cardinality(posting) + Cardinality(accepting) < async_run_num
      BY <1>3 DEF AcceptHandler, FreeThread
    <3>4. \A d \in posting' : read'[d] = "none"
      BY <1>1, <2>1, <2>3, <3>1 DEF Counted
    <3>5. Cardinality(posting) + 1 <= async_run_num
      BY <1>2, <2>1, <3>3
    <3> QED
      BY <1>2, <3>1, <3>2, <3>4, <3>5 DEF Counted
  <2> QED
    BY <1>3, <2>2, <2>3 DEF AcceptHandler
<1>4. ASSUME NEW c \in Cli, FileReceived(c) PROVE Counted'
  <2>1. /\ c \in Waiting /\ c \notin posting /\ read' = [read EXCEPT ![c] = "none"]
        /\ posting' = posting \union {c} /\ UNCHANGED <<handed, files, accepting>>
    BY <1>4 DEF FileReceived, Waiting, Counted, acceptVars
  <2>2. Waiting' = Waiting \ {c}
    BY <1>1, <2>1 DEF Waiting
  <2>3. /\ Cardinality(posting') = Cardinality(posting) + 1
        /\ Cardinality(Waiting') = Cardinality(Waiting) - 1
    BY <1>1, <2>1, <2>2, SubsetsFinite
  <2>4. Cardinality(posting) + Cardinality(accepting) < async_run_num
    BY <1>4 DEF FileReceived, FreeThread
  <2>5. \A d \in posting' : read'[d] = "none"
    BY <1>1, <2>1 DEF Counted
  <2>6. /\ handed + Cardinality(posting') + Cardinality(Waiting') = files
        /\ Cardinality(posting') + Cardinality(accepting) <= async_run_num
    BY <1>2, <2>3, <2>4
  <2> QED
    BY <1>2, <2>1, <2>5, <2>6 DEF Counted
<1>5. ASSUME NEW c \in Cli, PostImage(c) PROVE Counted'
  <2>1. /\ c \in posting /\ read[c] = "none" /\ read' = [read EXCEPT ![c] = "posted"]
        /\ posting' = posting \ {c} /\ handed' = handed + 1 /\ UNCHANGED <<files, accepting>>
    BY <1>5 DEF PostImage, Counted, acceptVars
  <2>2. Waiting' = Waiting
    BY <1>1, <2>1 DEF Waiting
  <2>3. Cardinality(posting') = Cardinality(posting) - 1
    BY <1>1, <2>1, SubsetsFinite
  <2>4. \A d \in posting' : read'[d] = "none"
    BY <1>1, <2>1 DEF Counted
  <2>5. /\ handed + 1 + Cardinality(posting') + Cardinality(Waiting) = files /\ handed + 1 \in Nat
        /\ Cardinality(posting') + Cardinality(accepting) <= async_run_num
    <3>1. Cardinality(posting) + Cardinality(accepting) <= async_run_num
      BY DEF Counted
    <3> QED
      BY <1>2, <2>3, <3>1
  <2> QED
    BY <1>2, <2>1, <2>2, <2>4, <2>5 DEF Counted
<1>6. ASSUME NEW c \in Cli, NEW what \in {"file", "alive", "error"}, Arrives(c, what)
      PROVE  Counted'
  <2>1. /\ read[c] = "posted" /\ read' = [read EXCEPT ![c] = what]
        /\ files' = files + (IF what = "file" THEN 1 ELSE 0)
        /\ UNCHANGED <<posting, handed, accepting>>
    BY <1>6 DEF Arrives, acceptVars
  <2>2. c \notin posting /\ c \notin Waiting /\ \A d \in posting' : read'[d] = "none"
    BY <1>1, <2>1 DEF Counted, Waiting
  <2>3. CASE what = "file"
    <3>1. Waiting' = Waiting \union {c}
      BY <1>1, <2>1, <2>3 DEF Waiting
    <3>2. Cardinality(Waiting') = Cardinality(Waiting) + 1
      BY <1>1, <2>2, <3>1, SubsetsFinite
    <3> QED
      BY <1>2, <2>1, <2>2, <2>3, <3>2 DEF Counted
  <2>4. CASE what # "file"
    <3>1. Waiting' = Waiting /\ files' = files
      BY <1>1, <1>2, <2>1, <2>4 DEF Waiting
    <3> QED
      BY <1>2, <2>1, <2>2, <3>1 DEF Counted
  <2> QED
    BY <2>3, <2>4
<1>7. ASSUME NEW h \in accepting, CreateClient(h) \/ Insert(h) \/ StartAccept(h) PROVE Counted'
  BY <1>7, CountedIdle DEF CreateClient, Insert, StartAccept, readVars, Counted
<1>8. ASSUME NEW c \in Cli, ReadEnds(c) PROVE Counted'
  BY <1>1, <1>8, CountedIdle DEF ReadEnds, acceptVars, Counted
<1>9. CASE UNCHANGED <<readVars, accepting>>
  BY <1>9, CountedIdle DEF readVars, Counted
<1>10. ASSUME NEW c \in Cli, AcceptHandlerFailed(c) \/ AliveTimeout(c) \/ WaitCheckAlive(c) \/ AcceptDone(c)
                           \/ TimerExpires(c) \/ AcceptFails(c) \/ Leave(c)
       PROVE  UNCHANGED <<readVars, accepting>>
  BY <1>10 DEF AcceptHandlerFailed, AliveTimeout, WaitCheckAlive, AcceptDone, TimerExpires, AcceptFails,
               Leave, acceptVars
<1>11. ASSUME NEW w \in writes, Continue(w) \/ SendHandler(w) \/ AliveWriteHandler(w) \/ SystemSends(w)
       PROVE  UNCHANGED <<readVars, accepting>>
  BY <1>11 DEF Continue, SendHandler, AliveWriteHandler, SystemSends, acceptVars
<1>12. ASSUME Core \/ RecSignals \/ Dial \/ RecLoses \/ (\E id \in Cli : RecResult(id)) \/ UNCHANGED vars
       PROVE  UNCHANGED <<readVars, accepting>>
  BY <1>12 DEF Core, CoreImage, CoreHandsOn, CoreDisconnect, CoreResult, CoreFaults, RecSignals, Dial, RecLoses,
               RecResult, vars, acceptVars
<1> QED
  BY <1>3, <1>4, <1>5, <1>6, <1>7, <1>8, <1>9, <1>10, <1>11, <1>12
  DEF Next, IoThreads, System, Environment

-------------------------------------------------------------------------------
(* The rest of the type invariant: bounds, the queue of Core, the pieces. *)

QueueMessage == [type : {"WM_IMAGE", "WM_CLIENT_DISCONNECT", "WM_RESULT_DECTIVE"},
                 id : 0..MaxClients, of : 0..MaxResults, by : 0..MaxClients]

Bounds ==
  /\ up \in BOOLEAN /\ peerGone \subseteq Cli /\ coreWaits \in BOOLEAN /\ event \in {"set", "reset", "lost"}
  /\ faults \in 0..load.faults /\ dialled \in 0..load.dials
  /\ files \in 0..load.files /\ alives \in 0..load.alives
  /\ \A h \in accepting : h.new \in 0..MaxClients

QueueFits == coreQ \in Seq(QueueMessage) /\ Len(coreQ) <= QueueLimit

\* A write of IS_ALIVE has one piece, of which there is no next one.
PiecesFit == \A w \in writes : w.piece \in 1..Pieces /\ (w.of = 0 => w.piece = 1)

Fits == Bounds /\ QueueFits /\ PiecesFit

LEMMA StepBounds == IInv /\ Once /\ Bounds /\ [Next]_vars => Bounds'
<1> SUFFICES ASSUME IInv, Once, Bounds, [Next]_vars PROVE Bounds'
  OBVIOUS
<1>1. /\ load \in Load /\ load.files \in Nat /\ load.alives \in Nat /\ load.faults \in Nat /\ load.dials \in Nat
      /\ MaxClients \in Nat
  BY ClientsAssumption DEF Once
<1>2. CASE UNCHANGED <<load, up, peerGone, event, faults, dialled, files, alives, accepting>> /\ coreWaits' \in BOOLEAN
  BY <1>2 DEF Bounds
<1>3. ASSUME NEW c \in Cli,
             AcceptHandler(c) \/ AcceptHandlerFailed(c) \/ FileReceived(c) \/ PostImage(c) \/ ReadEnds(c)
      PROVE  Bounds'
  <2>1. CASE AcceptHandler(c)
    <3>1. /\ UNCHANGED <<load, peerGone, coreVars, faults, dialled, files, alives>>
          /\ up' = up \/ up' = FALSE
          /\ accepting' = accepting \/ accepting' = accepting \union {[cli |-> c, at |-> "started", new |-> 0]}
      BY <2>1 DEF AcceptHandler
    <3>2. \A h \in accepting' : h.new \in 0..MaxClients
      BY <1>1, <3>1 DEF Bounds
    <3> QED
      BY <3>1, <3>2 DEF Bounds, coreVars
  <2>2. CASE AcceptHandlerFailed(c) \/ FileReceived(c) \/ PostImage(c) \/ ReadEnds(c)
    <3>1. UNCHANGED <<load, up, peerGone, coreWaits, event, faults, dialled, files, alives, accepting>>
      BY <2>2 DEF AcceptHandlerFailed, FileReceived, PostImage, ReadEnds, acceptVars, readVars, coreVars
    <3> QED
      BY <3>1 DEF Bounds
  <2> QED
    BY <1>3, <2>1, <2>2
<1>4. ASSUME NEW h \in accepting, CreateClient(h) \/ Insert(h) \/ StartAccept(h) PROVE Bounds'
  <2>1. h \in [cli : Cli, at : {"started", "insert", "accept"}, new : Nat] /\ client_id \in Cli
    BY DEF IInv, Types
  <2>2. CASE CreateClient(h)
    <3>1. client_id' \in 0..MaxClients
      BY <1>1, <2>1, <2>2 DEF CreateClient, Cli
    <3>2. [h EXCEPT !.at = "insert", !.new = client_id'].new = client_id'
      BY <2>1
    <3> QED
      BY <1>1, <2>2, <3>1, <3>2 DEF CreateClient, Bounds, readVars, coreVars
  <2>3. CASE Insert(h)
    <3>1. [h EXCEPT !.at = "accept"].new = h.new
      BY <2>1
    <3> QED
      BY <2>3, <3>1 DEF Insert, Bounds, readVars, coreVars
  <2>4. CASE StartAccept(h)
    BY <2>4 DEF StartAccept, Bounds, readVars, coreVars
  <2> QED
    BY <1>4, <2>2, <2>3, <2>4
<1>5. ASSUME NEW c \in Cli, NEW what \in {"file", "alive", "error"}, Arrives(c, what)
      PROVE  Bounds'
  <2>1. /\ what = "file" => files < load.files
        /\ what = "alive" => alives < load.alives
        /\ files' = files + (IF what = "file" THEN 1 ELSE 0)
        /\ alives' = alives + (IF what = "alive" THEN 1 ELSE 0)
        /\ UNCHANGED <<load, up, peerGone, coreWaits, event, faults, dialled, accepting>>
    BY <1>5 DEF Arrives, acceptVars, coreVars
  <2>2. files' \in 0..load.files /\ alives' \in 0..load.alives
    BY <1>1, <2>1 DEF Bounds
  <2> QED
    BY <2>1, <2>2 DEF Bounds
<1>6. ASSUME NEW c \in Cli, AcceptFails(c) \/ Leave(c) \/ AcceptDone(c) \/ TimerExpires(c) PROVE Bounds'
  BY <1>1, <1>6 DEF AcceptFails, Fault, Leave, AcceptDone, TimerExpires, Bounds, acceptVars, readVars, coreVars
<1>7. CASE Dial \/ RecLoses \/ RecSignals
  BY <1>1, <1>7 DEF Dial, RecLoses, RecSignals, Fault, Bounds, acceptVars, readVars, coreVars
<1>8. CASE Core
  BY <1>8 DEF Core, CoreImage, CoreHandsOn, CoreDisconnect, CoreResult, CoreFaults, Bounds, acceptVars, readVars,
     coreVars
<1>9. ASSUME NEW c \in Cli, AliveTimeout(c) \/ WaitCheckAlive(c) PROVE Bounds'
  BY <1>9 DEF AliveTimeout, WaitCheckAlive, Bounds, acceptVars, readVars, coreVars
<1>10. ASSUME NEW w \in writes, Continue(w) \/ SendHandler(w) \/ AliveWriteHandler(w) \/ SystemSends(w)
       PROVE  Bounds'
  BY <1>10 DEF Continue, SendHandler, AliveWriteHandler, SystemSends, Bounds, acceptVars, readVars, coreVars
<1>11. ASSUME (\E id \in Cli : RecResult(id)) \/ UNCHANGED vars PROVE Bounds'
  BY <1>11 DEF RecResult, vars, Bounds, acceptVars, readVars, coreVars
<1> QED
  BY <1>3, <1>4, <1>5, <1>6, <1>7, <1>8, <1>9, <1>10, <1>11
  DEF Next, IoThreads, System, Environment

(* A message is posted only where there is room for it. *)
LEMMA RoomFor ==
  ASSUME QueueFits
  PROVE  /\ \A m \in QueueMessage : HasRoom /\ coreQ' = Append(coreQ, m) => QueueFits'
         /\ coreQ # <<>> /\ coreQ' = Tail(coreQ) => QueueFits'
         /\ coreQ' = coreQ => QueueFits'
BY ClientsAssumption DEF QueueFits, HasRoom

LEMMA ReportFits ==
  ASSUME IInv, QueueFits, NEW c \in Cli, Report(c)
  PROVE  QueueFits'
<1>1. Msg("WM_CLIENT_DISCONNECT", client_id, 0, c) \in QueueMessage
  BY ClientsAssumption DEF IInv, Types, Msg, QueueMessage, Cli
<1> QED
  BY <1>1, RoomFor DEF Report

LEMMA StepQueueFits == IInv /\ Once /\ QueueFits /\ [Next]_vars => QueueFits'
<1> SUFFICES ASSUME IInv, Once, QueueFits, [Next]_vars PROVE QueueFits'
  OBVIOUS
<1>1. ASSUME NEW c \in Cli, PostImage(c) PROVE QueueFits'
  <2>1. Msg("WM_IMAGE", c, 0, c) \in QueueMessage
    BY ClientsAssumption DEF Msg, QueueMessage, Cli
  <2> QED
    BY <1>1, <2>1, RoomFor DEF PostImage
<1>2. ASSUME NEW c \in Cli, WaitCheckAlive(c) PROVE QueueFits'
  BY <1>2, ReportFits DEF WaitCheckAlive
<1>3. ASSUME NEW w \in writes, AliveWriteHandler(w) PROVE QueueFits'
  <2>1. w.cli \in Cli
    BY DEF IInv, Types, Write
  <2> QED
    BY <1>3, <2>1, ReportFits, RoomFor DEF AliveWriteHandler
<1>4. ASSUME NEW id \in Cli, RecResult(id) PROVE QueueFits'
  <2>1. load.results \in 0..MaxResults /\ results \in 0..MaxResults /\ MaxResults \in Nat
    BY ClientsAssumption DEF Once
  <2>2. results' \in 0..MaxResults
    BY <1>4, <2>1 DEF RecResult
  <2>3. Msg("WM_RESULT_DECTIVE", id, results', 0) \in QueueMessage
    BY <2>2, ClientsAssumption DEF Msg, QueueMessage, Cli
  <2>4. coreQ' = IF HasRoom THEN Append(coreQ, Msg("WM_RESULT_DECTIVE", id, results', 0)) ELSE coreQ
    BY <1>4 DEF RecResult
  <2> QED
    BY <2>3, <2>4, RoomFor
<1>5. CASE CoreImage \/ CoreDisconnect \/ CoreResult
  BY <1>5, RoomFor DEF CoreImage, CoreDisconnect, CoreResult, CoreHandles
<1>6. ASSUME NEW c \in Cli, AcceptHandler(c) \/ AcceptHandlerFailed(c) \/ FileReceived(c) \/ ReadEnds(c)
                          \/ AliveTimeout(c) \/ AcceptDone(c) \/ TimerExpires(c) \/ AcceptFails(c)
                          \/ Leave(c) \/ \E what \in {"file", "alive", "error"} : Arrives(c, what)
      PROVE  QueueFits'
  BY <1>6, RoomFor DEF AcceptHandler, AcceptHandlerFailed, FileReceived, ReadEnds, AliveTimeout, AcceptDone,
     TimerExpires, AcceptFails, Leave, Arrives, coreVars
<1>7. ASSUME NEW h \in accepting, CreateClient(h) \/ Insert(h) \/ StartAccept(h) PROVE QueueFits'
  BY <1>7, RoomFor DEF CreateClient, Insert, StartAccept, coreVars
<1>8. ASSUME NEW w \in writes, Continue(w) \/ SendHandler(w) \/ SystemSends(w) PROVE QueueFits'
  BY <1>8, RoomFor DEF Continue, SendHandler, SystemSends, coreVars
<1>9. CASE CoreHandsOn \/ CoreFaults \/ RecSignals \/ Dial \/ RecLoses \/ UNCHANGED vars
  BY <1>9, RoomFor DEF CoreHandsOn, CoreFaults, RecSignals, Dial, RecLoses, vars, coreVars
<1> QED
  BY <1>1, <1>2, <1>3, <1>4, <1>5, <1>6, <1>7, <1>8, <1>9
  DEF Next, IoThreads, Core, System, Environment

LEMMA ClosePieces ==
  ASSUME IInv, PiecesFit, NEW c \in Cli, NEW ws \in SUBSET writes, Close(c, ws)
  PROVE  PiecesFit'
<1>1. ASSUME NEW u \in writes' PROVE \E v \in writes : u.piece = v.piece /\ u.of = v.of
  <2>1. PICK v \in ws : u = IF v.cli = c /\ v.state = "sending" THEN [v EXCEPT !.state = "failed"] ELSE v
    BY DEF Close
  <2>2. v \in writes /\ v \in Write
    BY DEF IInv, Types
  <2> QED
    BY <2>1, <2>2 DEF Write
<1> QED
  BY <1>1 DEF PiecesFit

LEMMA StepPieces == IInv /\ PiecesFit /\ [Next]_vars => PiecesFit'
<1> SUFFICES ASSUME IInv, PiecesFit, [Next]_vars PROVE PiecesFit'
  OBVIOUS
<1>0. Pieces \in Nat /\ 1 \in 1..Pieces
  BY ClientsAssumption
<1>1. ASSUME NEW c \in Cli, NEW of, AsyncWrite(c, of) PROVE PiecesFit'
  BY <1>0, <1>1 DEF AsyncWrite, PiecesFit
<1>2. CASE writes' \subseteq writes
  BY <1>2 DEF PiecesFit
<1>3. ASSUME NEW w \in writes, Continue(w) PROVE PiecesFit'
  <2>1. w \in Write /\ w.piece \in 1..Pieces /\ w.of # 0 /\ w.piece # Pieces
    BY <1>3 DEF IInv, Types, PiecesFit, Continue, Last
  <2>2. w.piece + 1 \in 1..Pieces
    BY <1>0, <2>1
  <2>3. \E v : v.piece = w.piece + 1 /\ v.of = w.of /\ writes' = (writes \ {w}) \union {v}
    BY <1>3, <2>1 DEF Continue, Write
  <2> QED
    BY <2>1, <2>2, <2>3 DEF PiecesFit
<1>4. ASSUME NEW w \in writes, SystemSends(w) PROVE PiecesFit'
  <2>1. w \in Write
    BY DEF IInv, Types
  <2>2. \A st \in {"sent", "failed"} :
          [w EXCEPT !.state = st].piece = w.piece /\ [w EXCEPT !.state = st].of = w.of
    BY <2>1 DEF Write
  <2>3. \/ writes' = (writes \ {w}) \union {[w EXCEPT !.state = "sent"]}
        \/ writes' = (writes \ {w}) \union {[w EXCEPT !.state = "failed"]}
    BY <1>4 DEF SystemSends
  <2>4. \E v : v.piece = w.piece /\ v.of = w.of /\ writes' = (writes \ {w}) \union {v}
    BY <2>2, <2>3
  <2> QED
    BY <2>4 DEF PiecesFit
<1>5. ASSUME NEW w \in writes, SendHandler(w) \/ AliveWriteHandler(w) PROVE PiecesFit'
  <2>1. w.cli \in Cli /\ writes \ {w} \in SUBSET writes
    BY DEF IInv, Types, Write
  <2>2. writes' \subseteq writes \/ Close(w.cli, writes \ {w})
    BY <1>5 DEF SendHandler, AliveWriteHandler
  <2> QED
    BY <1>2, <2>1, <2>2, ClosePieces
<1>6. ASSUME NEW c \in Cli, AliveTimeout(c) \/ WaitCheckAlive(c) PROVE PiecesFit'
  BY <1>1, <1>6, ClosePieces DEF AliveTimeout, WaitCheckAlive
<1>7. CASE CoreResult
  <2>1. AsyncWrite(Head(coreQ).id, Head(coreQ).of) \/ writes' = writes
    BY <1>7 DEF CoreResult, SendResult
  <2>2. coreQ # <<>> /\ coreQ \in Seq(Message)
    BY <1>7 DEF CoreResult, CoreHandles, IInv, Types
  <2>3. Head(coreQ).id \in Cli
    BY <2>2, QueueTypes DEF Message
  <2> QED
    BY <1>1, <1>2, <2>1, <2>3
<1>8. ASSUME NEW c \in Cli, AcceptHandler(c) \/ AcceptHandlerFailed(c) \/ FileReceived(c) \/ PostImage(c)
                          \/ ReadEnds(c) \/ AcceptDone(c) \/ TimerExpires(c) \/ AcceptFails(c)
                          \/ Leave(c) \/ \E what \in {"file", "alive", "error"} : Arrives(c, what)
      PROVE  PiecesFit'
  BY <1>2, <1>8 DEF AcceptHandler, AcceptHandlerFailed, FileReceived, PostImage, ReadEnds, AcceptDone,
     TimerExpires, AcceptFails, Leave, Arrives, writeVars
<1>9. ASSUME NEW h \in accepting, CreateClient(h) \/ Insert(h) \/ StartAccept(h) PROVE PiecesFit'
  BY <1>2, <1>9 DEF CreateClient, Insert, StartAccept, writeVars
<1>10. ASSUME \/ CoreImage \/ CoreDisconnect \/ CoreHandsOn \/ CoreFaults \/ RecSignals \/ Dial \/ RecLoses
              \/ (\E id \in Cli : RecResult(id)) \/ UNCHANGED vars
       PROVE  PiecesFit'
  BY <1>2, <1>10 DEF CoreImage, CoreDisconnect, CoreHandsOn, CoreFaults, RecSignals, Dial, RecLoses, RecResult, vars,
     writeVars
<1> QED
  BY <1>3, <1>4, <1>5, <1>6, <1>7, <1>8, <1>9, <1>10
  DEF Next, IoThreads, Core, System, Environment

LEMMA FitsAlways == Spec => [](Counted /\ Fits)
<1>1. Init => Counted /\ Fits
  <2> SUFFICES ASSUME Init PROVE Counted /\ Fits
    OBVIOUS
  <2>1. Waiting = {} /\ posting = {} /\ accepting = {}
    BY DEF Init, InitWith, Waiting
  <2>2. Counted
    BY <2>1, FS_EmptySet, ClientsAssumption DEF Init, InitWith, Counted
  <2>3. Bounds
    <3>1. /\ load \in Load /\ up = TRUE /\ peerGone = {} /\ coreWaits = FALSE /\ event = "set" /\ accepting = {}
          /\ faults = 0 /\ dialled = 0 /\ files = 0 /\ alives = 0
      BY DEF Init, InitWith
    <3>2. load.files \in Nat /\ load.alives \in Nat /\ load.faults \in Nat /\ load.dials \in Nat
      BY <3>1, ClientsAssumption
    <3>3. /\ faults \in 0..load.faults /\ dialled \in 0..load.dials
          /\ files \in 0..load.files /\ alives \in 0..load.alives
      BY <3>1, <3>2
    <3> QED
      BY <3>1, <3>3, Zenon DEF Bounds
  <2>4. QueueFits /\ PiecesFit
    BY ClientsAssumption DEF Init, InitWith, QueueFits, PiecesFit
  <2> QED
    BY <2>2, <2>3, <2>4 DEF Fits
<1>2. /\ IInv /\ IInv' /\ Served /\ Once /\ Counted /\ Fits /\ [Next]_vars => (Counted /\ Fits)'
  BY StepCounted, StepBounds, StepQueueFits, StepPieces DEF Fits
<1> QED
  BY <1>1, <1>2, Inductive, ServedAlways, OnceAlways, PTL DEF Spec

(* Every variable keeps its type and its bound; among them: no more handlers  *)
(* keep a thread than there are threads, the queue of Core never holds more   *)
(* than it can, and no more images are posted than files were received.       *)
THEOREM TypeCorrect == Spec => []TypeOK
<1>1. IInv /\ Served /\ Once /\ Counted /\ Fits => TypeOK
  <2> SUFFICES ASSUME IInv, Served, Once, Counted, Fits PROVE TypeOK
    OBVIOUS
  <2>1. load \in Load /\ load.dials \in 0..(MaxClients - 1) /\ load.files \in Nat /\ MaxClients \in Nat
    BY ClientsAssumption DEF Once
  <2>2. dialled \in 0..MaxClients
    BY <2>1 DEF Fits, Bounds
  <2>3. handed \in 0..files
    <3>1. posting \in SUBSET Cli /\ Waiting \in SUBSET Cli
      BY DEF IInv, Types, Waiting
    <3>2. Cardinality(posting) \in Nat /\ Cardinality(Waiting) \in Nat
      BY <3>1, SubsetsFinite
    <3> QED
      BY <3>2 DEF Counted
  <2>4. accepting \subseteq [cli : Cli, at : {"started", "insert", "accept"}, new : 0..MaxClients]
    BY DEF IInv, Types, Fits, Bounds
  <2>5. ASSUME NEW w \in writes
        PROVE  w \in [cli : Cli, of : 0..MaxResults, piece : 1..Pieces,
                      state : {"sending", "sent", "failed"}]
    <3>1. w \in Write /\ w.of \in 0..MaxResults /\ w.piece \in 1..Pieces
      <4>1. w \in Write /\ w.of <= results /\ w.piece \in 1..Pieces
        BY DEF IInv, Types, Once, Fits, PiecesFit
      <4>2. results \in 0..MaxResults /\ MaxResults \in Nat /\ w.of \in Nat
        BY <4>1, ClientsAssumption DEF Once, Write
      <4> QED
        BY <4>1, <4>2
    <3> QED
      BY <3>1 DEF Write
  <2>6. /\ up \in BOOLEAN /\ client_id \in Cli /\ client_map \subseteq 1..client_id
        /\ peerGone \subseteq Cli /\ coreWaits \in BOOLEAN /\ event \in {"set", "reset", "lost"}
        /\ faults \in 0..load.faults /\ files \in 0..load.files /\ alives \in 0..load.alives
        /\ posting \subseteq Cli /\ results \in 0..MaxResults /\ dest \in [Result -> 0..MaxClients]
    BY DEF IInv, Types, Served, Once, Fits, Bounds
  <2>7. /\ accept \in [Cli -> {"none", "pending", "done", "failed"}]
        /\ cli_socket \in [Cli -> {"new", "open", "closed"}]
        /\ read \in [Cli -> {"none", "posted", "file", "alive", "error"}]
        /\ timer_ \in [Cli -> {"unset", "set", "expired", "again", "done"}]
    BY DEF IInv, Types
  <2>8. /\ coreQ \in Seq([type : {"WM_IMAGE", "WM_CLIENT_DISCONNECT", "WM_RESULT_DECTIVE"},
                          id : 0..MaxClients, of : 0..MaxResults, by : 0..MaxClients])
        /\ Len(coreQ) <= QueueLimit /\ Cardinality(posting) + Cardinality(accepting) <= async_run_num
    BY DEF Fits, QueueFits, QueueMessage, Counted
  <2> QED
    BY <2>1, <2>2, <2>3, <2>4, <2>5, <2>6, <2>7, <2>8 DEF TypeOK
<1> QED
  BY <1>1, FitsAlways, Inductive, ServedAlways, OnceAlways, PTL

-------------------------------------------------------------------------------
(* What is on the wire: pieces of results, in the order Core handled them.     *)

Piece == Nat \X Nat

\* A socket is new until its accept is done, and nobody closes a new one.
Fresh ==
  /\ \A c \in Cli : accept[c] = "pending" => cli_socket[c] = "new"
  /\ \A c \in Cli : accept[c] = "done" \/ read[c] # "none" \/ c \in posting \/ timer_[c] # "unset"
                      => cli_socket[c] # "new"
  /\ \A h \in accepting : h.at # "started" => cli_socket[h.new] = "new"
  /\ \A w \in writes : w.of = 0 => cli_socket[w.cli] # "new"
  /\ \A r \in Result : dest[r] # 0 => cli_socket[dest[r]] # "new"

\* What Core has not handled is younger than what it has.
Younger == \A i \in ResultAt(coreQ) : \A r \in Result : dest[r] # 0 => r < coreQ[i].of

\* Results begin in their order in s, and in t after those of s.
Ascending(s) ==
  \A i, j \in 1..Len(s) : i < j /\ StartsResult(s[i]) /\ StartsResult(s[j]) => s[i][1] < s[j][1]
Before(s, t) ==
  \A i \in 1..Len(s), j \in 1..Len(t) : StartsResult(s[i]) /\ StartsResult(t[j]) => s[i][1] < t[j][1]

\* Each piece of a result follows all pieces before it, and is there once.
Gapless(s) ==
  \A i \in 1..Len(s) : s[i][1] # 0 =>
    /\ s[i][2] \in 1..Pieces
    /\ \A k \in 1..(s[i][2] - 1) : \E j \in 1..(i - 1) : s[j] = <<s[i][1], k>>
    /\ \A j \in 1..(i - 1) : s[j] # s[i]

Streams == sendQ \in [Cli -> Seq(Piece)] /\ wire \in [Cli -> Seq(Piece)]
Handed == \A c \in Cli : /\ Ascending(wire[c]) /\ Ascending(sendQ[c])
                         /\ Before(wire[c], sendQ[c]) /\ Gapless(wire[c])
Owned ==
  \A c \in Cli :
    /\ \A i \in 1..Len(wire[c]) : wire[c][i][1] # 0 => wire[c][i][1] \in Result /\ dest[wire[c][i][1]] = c
    /\ \A i \in 1..Len(sendQ[c]) : sendQ[c][i][1] # 0 => sendQ[c][i][1] \in Result /\ dest[sendQ[c][i][1]] = c
Whole ==
  \A c \in Cli : \A r \in Result :
    dest[r] = c /\ freed[r] > 0 /\ cli_socket[c] = "open" /\ c \notin peerGone =>
      \A k \in 1..Pieces : OnWire(c, <<r, k>>)

\* A write: the piece it sends is handed over, it goes where its result goes, and
\* it fails with its socket only.  So many of its pieces are on the wire.
Waits == \A w \in writes : w.state = "sending" =>
           \E i \in 1..Len(sendQ[w.cli]) : sendQ[w.cli][i] = <<w.of, w.piece>>
Goes(w) ==
  /\ dest[w.of] \in {0, w.cli}
  /\ w.state # "failed" => dest[w.of] = w.cli
  /\ w.state = "failed" /\ dest[w.of] # 0 => cli_socket[w.cli] = "closed" \/ w.cli \in peerGone
Dests == \A w \in writes : w.of # 0 => Goes(w)
SoFar(w) == IF w.state = "sent" THEN w.piece ELSE w.piece - 1
Progress ==
  \A w \in writes : w.of # 0 =>
    /\ w.state # "failed" => \A k \in 1..SoFar(w) : OnWire(w.cli, <<w.of, k>>)
    /\ \A i \in 1..Len(wire[w.cli]) : wire[w.cli][i][1] = w.of => wire[w.cli][i][2] <= SoFar(w)

Orderly == Streams /\ Handed /\ Owned /\ Whole /\ Waits /\ Dests /\ Progress

(* A result that begins after all of s, and all of t, can follow both. *)
LEMMA AscendingAppend ==
  ASSUME NEW s \in Seq(Piece), NEW p \in Piece, Ascending(s),
         \A i \in 1..Len(s) : StartsResult(s[i]) /\ StartsResult(p) => s[i][1] < p[1]
  PROVE  Ascending(Append(s, p))
<1>1. /\ Len(Append(s, p)) = Len(s) + 1 /\ Len(s) \in Nat
      /\ \A i \in 1..Len(s) : Append(s, p)[i] = s[i]
      /\ Append(s, p)[Len(s) + 1] = p
  OBVIOUS
<1>2. ASSUME NEW i \in 1..(Len(s) + 1), NEW j \in 1..(Len(s) + 1), i < j
      PROVE  i \in 1..Len(s) /\ (j \in 1..Len(s) \/ j = Len(s) + 1)
  BY <1>1, <1>2
<1> DEFINE t == Append(s, p)
<1> HIDE DEF t
<1> QED
  BY <1>1, <1>2 DEF Ascending, t

LEMMA BeforeAppend ==
  ASSUME NEW s \in Seq(Piece), NEW t \in Seq(Piece), NEW p \in Piece, Before(s, t),
         \A i \in 1..Len(s) : StartsResult(s[i]) /\ StartsResult(p) => s[i][1] < p[1]
  PROVE  Before(s, Append(t, p))
<1>1. /\ Len(Append(t, p)) = Len(t) + 1 /\ Len(t) \in Nat
      /\ \A i \in 1..Len(t) : Append(t, p)[i] = t[i]
      /\ Append(t, p)[Len(t) + 1] = p
  OBVIOUS
<1>2. \A j \in 1..(Len(t) + 1) : j \in 1..Len(t) \/ j = Len(t) + 1
  BY <1>1
<1> DEFINE u == Append(t, p)
<1> HIDE DEF u
<1> QED
  BY <1>1, <1>2 DEF Before, u

(* The first of t goes to the end of s, or is dropped. *)
LEMMA FirstMoves ==
  ASSUME NEW s \in Seq(Piece), NEW t \in Seq(Piece), t # <<>>,
         Ascending(s), Ascending(t), Before(s, t)
  PROVE  /\ Ascending(Append(s, Head(t))) /\ Ascending(Tail(t))
         /\ Before(Append(s, Head(t)), Tail(t)) /\ Before(s, Tail(t))
<1>1. /\ Tail(t) \in Seq(Piece) /\ Head(t) \in Piece /\ Head(t) = t[1]
      /\ Len(t) \in Nat \ {0} /\ Len(Tail(t)) = Len(t) - 1
      /\ \A i \in 1..Len(Tail(t)) : Tail(t)[i] = t[i + 1]
  OBVIOUS
<1>2. /\ Len(Append(s, Head(t))) = Len(s) + 1 /\ Len(s) \in Nat
      /\ \A i \in 1..Len(s) : Append(s, Head(t))[i] = s[i]
      /\ Append(s, Head(t))[Len(s) + 1] = Head(t)
  BY <1>1
<1>3. 1 \in 1..Len(t) /\ \A i \in 1..Len(Tail(t)) : i + 1 \in 1..Len(t) /\ 1 < i + 1
  BY <1>1
<1>4. \A i, j \in 1..Len(Tail(t)) : i < j => i + 1 < j + 1
  BY <1>1
<1>5. \A i \in 1..(Len(s) + 1) : i \in 1..Len(s) \/ i = Len(s) + 1
  BY <1>2
<1> DEFINE p == Head(t)  rest == Tail(t)  u == Append(s, p)
<1>6. Ascending(u)
  BY <1>1, <1>3, AscendingAppend DEF Before
<1> HIDE DEF p, rest, u
<1>7. Ascending(rest)
  BY <1>1, <1>3, <1>4 DEF Ascending, rest
<1>8. Before(s, rest)
  BY <1>1, <1>3 DEF Before, rest
<1>9. Before(u, rest)
  <2> SUFFICES ASSUME NEW i \in 1..Len(u), NEW j \in 1..Len(rest),
                      StartsResult(u[i]), StartsResult(rest[j])
               PROVE  u[i][1] < rest[j][1]
    BY DEF Before
  <2>1. CASE i \in 1..Len(s)
    BY <1>2, <1>8, <2>1 DEF Before, u, p
  <2>2. CASE i = Len(s) + 1
    BY <1>1, <1>2, <1>3, <2>2 DEF Ascending, u, p, rest
  <2> QED
    BY <1>2, <1>5, <2>1, <2>2 DEF u, p
<1> QED
  BY <1>6, <1>7, <1>8, <1>9 DEF u, p, rest

(* The next piece of a result: all before it are there, and no later one. *)
LEMMA GaplessAppend ==
  ASSUME NEW s \in Seq(Piece), NEW p \in Piece, Gapless(s),
         p[1] # 0 => /\ p[2] \in 1..Pieces
                     /\ \A k \in 1..(p[2] - 1) : \E j \in 1..Len(s) : s[j] = <<p[1], k>>
                     /\ \A j \in 1..Len(s) : s[j] # p
  PROVE  Gapless(Append(s, p))
<1> DEFINE u == Append(s, p)
<1>1. /\ Len(u) = Len(s) + 1 /\ Len(s) \in Nat
      /\ \A i \in 1..Len(s) : u[i] = s[i]
      /\ u[Len(s) + 1] = p
  OBVIOUS
<1>2. \A i \in 1..(Len(s) + 1) : i \in 1..Len(s) \/ i = Len(s) + 1
  BY <1>1
<1>3. (Len(s) + 1) - 1 = Len(s)
  BY <1>1
<1>4. \A i \in 1..Len(s) : \A j \in 1..(i - 1) : j \in 1..Len(s)
  BY <1>1
<1> HIDE DEF u
<1> SUFFICES ASSUME NEW i \in 1..Len(u), u[i][1] # 0
             PROVE  /\ u[i][2] \in 1..Pieces
                    /\ \A k \in 1..(u[i][2] - 1) : \E j \in 1..(i - 1) : u[j] = <<u[i][1], k>>
                    /\ \A j \in 1..(i - 1) : u[j] # u[i]
  BY DEF Gapless, u
<1>5. CASE i \in 1..Len(s)
  <2>1. /\ s[i][2] \in 1..Pieces
        /\ \A k \in 1..(s[i][2] - 1) : \E j \in 1..(i - 1) : s[j] = <<s[i][1], k>>
        /\ \A j \in 1..(i - 1) : s[j] # s[i]
    BY <1>1, <1>5 DEF Gapless
  <2>2. u[i] = s[i] /\ \A j \in 1..(i - 1) : u[j] = s[j]
    BY <1>1, <1>4, <1>5
  <2> QED
    BY <2>1, <2>2, Zenon
<1>6. CASE i = Len(s) + 1
  BY <1>1, <1>3, <1>6, Zenon
<1> QED
  BY <1>1, <1>2, <1>5, <1>6

(* A socket that is closed was not new: its timer, or its IS_ALIVE, is known.  *)
LEMMA FreshClosed ==
  ASSUME IInv, Fresh, NEW c \in Cli, cli_socket[c] # "new", NEW ws \in SUBSET writes, Close(c, ws)
  PROVE  /\ \A d \in Cli : cli_socket'[d] = "new" <=> cli_socket[d] = "new"
         /\ \A u \in writes' : \E v \in writes : u.cli = v.cli /\ u.of = v.of
<1>1. ASSUME NEW d \in Cli PROVE cli_socket'[d] = "new" <=> cli_socket[d] = "new"
  <2>1. cli_socket' = [cli_socket EXCEPT ![c] = "closed"] /\ cli_socket \in [Cli -> {"new", "open", "closed"}]
    BY DEF Close, IInv, Types
  <2> QED
    BY <2>1
<1>2. ASSUME NEW u \in writes' PROVE \E v \in writes : u.cli = v.cli /\ u.of = v.of
  <2>1. PICK v \in ws : u = IF v.cli = c /\ v.state = "sending" THEN [v EXCEPT !.state = "failed"] ELSE v
    BY DEF Close
  <2>2. v \in writes /\ v \in Write
    BY DEF IInv, Types
  <2> QED
    BY <2>1, <2>2 DEF Write
<1> QED
  BY <1>1, <1>2

(* Sockets and writes as they are, for what this is about; nobody new is served. *)
LEMMA FreshKept ==
  ASSUME IInv, Fresh,
         \A d \in Cli : cli_socket'[d] = "new" <=> cli_socket[d] = "new",
         \A u \in writes' : u.of = 0 => \E v \in writes : u.cli = v.cli /\ v.of = 0,
         \A d \in Cli : accept'[d] \in {"pending", "done"} => accept'[d] = accept[d],
         \A d \in Cli : read'[d] # "none" \/ d \in posting' \/ timer_'[d] # "unset" =>
                          cli_socket[d] # "new",
         accepting' \subseteq accepting, dest' = dest, dest \in [Result -> 0..MaxClients]
  PROVE  Fresh'
<1>1. \A c \in Cli : accept'[c] = "pending" => cli_socket'[c] = "new"
  BY DEF Fresh
<1>2. \A c \in Cli : accept'[c] = "done" \/ read'[c] # "none" \/ c \in posting' \/ timer_'[c] # "unset"
                       => cli_socket'[c] # "new"
  BY DEF Fresh
<1>3. \A h \in accepting' : h.at # "started" => cli_socket'[h.new] = "new"
  <2> SUFFICES ASSUME NEW h \in accepting, h.at # "started" PROVE cli_socket'[h.new] = "new"
    OBVIOUS
  <2>1. h.new \in Cli /\ cli_socket[h.new] = "new"
    BY DEF IInv, OneAccept, Types, Fresh
  <2> QED
    BY <2>1
<1>4. \A w \in writes' : w.of = 0 => cli_socket'[w.cli] # "new"
  BY DEF Fresh, IInv, Types, Write
<1>5. \A r \in Result : dest'[r] # 0 => cli_socket'[dest'[r]] # "new"
  BY ClientsAssumption DEF Fresh, Cli
<1> QED
  BY <1>1, <1>2, <1>3, <1>4, <1>5 DEF Fresh

LEMMA StepFresh == IInv /\ Served /\ Once /\ Fresh /\ [Next]_vars => Fresh'
<1> SUFFICES ASSUME IInv, Served, Once, Fresh, [Next]_vars PROVE Fresh'
  OBVIOUS
<1>0. dest \in [Result -> 0..MaxClients] /\ cli_socket \in [Cli -> {"new", "open", "closed"}]
  BY DEF Once, IInv, Types
<1>1. ASSUME NEW c \in Cli, AcceptHandler(c) PROVE Fresh'
  <2>1. /\ accept' = [accept EXCEPT ![c] = "none"] /\ accept[c] = "done" /\ cli_socket[c] # "new"
        /\ read' = read \/ read' = [read EXCEPT ![c] = "posted"]
        /\ UNCHANGED <<cli_socket, posting, timer_, dest, writes>>
    BY <1>1 DEF AcceptHandler, Fresh, writeVars
  <2>2. \A h \in accepting' : h \in accepting \/ h.at = "started"
    BY <1>1 DEF AcceptHandler
  <2>3. \A d \in Cli : /\ accept'[d] \in {"pending", "done"} => accept'[d] = accept[d]
                       /\ read'[d] # "none" => d = c \/ read[d] # "none"
    BY <2>1 DEF IInv, Types
  <2> QED
    BY <2>1, <2>2, <2>3 DEF Fresh
<1>2. ASSUME NEW c \in Cli, AcceptHandlerFailed(c) \/ AcceptFails(c) PROVE Fresh'
  <2>1. /\ UNCHANGED <<cli_socket, writes, read, posting, timer_, accepting, dest>>
        /\ \A d \in Cli : accept'[d] \in {"pending", "done"} => accept'[d] = accept[d]
    BY <1>2 DEF AcceptHandlerFailed, AcceptFails, readVars, writeVars, IInv, Types
  <2> QED
    BY <1>0, <2>1, FreshKept DEF Fresh
<1>3. ASSUME NEW c \in Cli, AcceptDone(c) PROVE Fresh'
  <2>1. /\ accept' = [accept EXCEPT ![c] = "done"] /\ cli_socket' = [cli_socket EXCEPT ![c] = "open"]
        /\ accept[c] = "pending" /\ UNCHANGED <<writes, read, posting, timer_, accepting, dest>>
    BY <1>3 DEF AcceptDone, readVars, writeVars
  <2>2. accepting = {}
    BY <2>1 DEF IInv, OneAccept
  <2>3. \A d \in Cli : /\ d # c => cli_socket'[d] = cli_socket[d] /\ accept'[d] = accept[d]
                       /\ d = c => cli_socket'[d] = "open" /\ accept'[d] = "done"
    BY <2>1 DEF IInv, Types
  <2>4. \A d \in Cli : cli_socket[d] # "new" => cli_socket'[d] # "new"
    BY <2>3
  <2>5. /\ \A w \in writes : w.cli \in Cli
        /\ \A r \in Result : dest[r] # 0 => dest[r] \in Cli
    BY <1>0, ClientsAssumption DEF IInv, Types, Write, Cli
  <2>6. /\ \A d \in Cli : accept'[d] = "pending" => cli_socket'[d] = "new"
        /\ \A d \in Cli : accept'[d] = "done" \/ read'[d] # "none" \/ d \in posting' \/ timer_'[d] # "unset"
                            => cli_socket'[d] # "new"
    BY <2>1, <2>3, <2>4 DEF Fresh
  <2>7. /\ \A w \in writes' : w.of = 0 => cli_socket'[w.cli] # "new"
        /\ \A r \in Result : dest'[r] # 0 => cli_socket'[dest'[r]] # "new"
    BY <2>1, <2>4, <2>5 DEF Fresh
  <2> QED
    BY <2>1, <2>2, <2>6, <2>7 DEF Fresh
<1>4. ASSUME NEW h \in accepting, CreateClient(h) PROVE Fresh'
  <2>1. /\ client_id' = client_id + 1 /\ client_id < MaxClients
        /\ UNCHANGED <<cli_socket, accept, writes, read, posting, timer_, dest>>
        /\ \A g \in accepting' : g \in accepting \/ g.new = client_id'
    <3>1. h \in [cli : Cli, at : {"started", "insert", "accept"}, new : Nat]
      BY DEF IInv, Types
    <3>2. [h EXCEPT !.at = "insert", !.new = client_id'].new = client_id'
      BY <3>1
    <3> QED
      BY <1>4, <3>2 DEF CreateClient, readVars, writeVars
  <2>2. client_id' \in Cli /\ cli_socket[client_id'] = "new"
    <3>1. client_id' \in Cli /\ client_id' \notin client_map
      BY <2>1, ClientsAssumption DEF IInv, Types, Served, Cli
    <3> QED
      BY <3>1 DEF IInv, Mapped
  <2> QED
    BY <2>1, <2>2 DEF Fresh
<1>5. ASSUME NEW h \in accepting, Insert(h) PROVE Fresh'
  <2>1. /\ UNCHANGED <<cli_socket, accept, writes, read, posting, timer_, dest>> /\ h.at = "insert"
        /\ \A g \in accepting' : g \in accepting \/ g.new = h.new
    <3>1. h \in [cli : Cli, at : {"started", "insert", "accept"}, new : Nat]
      BY DEF IInv, Types
    <3>2. [h EXCEPT !.at = "accept"].new = h.new
      BY <3>1
    <3> QED
      BY <1>5, <3>2 DEF Insert, readVars, writeVars
  <2> QED
    BY <2>1 DEF Fresh
<1>6. ASSUME NEW h \in accepting, StartAccept(h) PROVE Fresh'
  <2>1. /\ accept' = [accept EXCEPT ![h.new] = "pending"] /\ h.at = "accept" /\ accepting' = accepting \ {h}
        /\ UNCHANGED <<cli_socket, writes, read, posting, timer_, dest>>
    BY <1>6 DEF StartAccept, readVars, writeVars
  <2>2. \A d \in Cli : d # h.new => accept'[d] = accept[d]
    BY <2>1 DEF IInv, Types
  <2>3. \A d \in Cli : d = h.new => accept'[d] = "pending" /\ cli_socket[d] = "new"
    BY <2>1 DEF IInv, Types, Fresh
  <2>4. /\ \A d \in Cli : accept'[d] = "pending" => cli_socket'[d] = "new"
        /\ \A d \in Cli : accept'[d] = "done" => cli_socket'[d] # "new"
    BY <2>1, <2>2, <2>3 DEF Fresh
  <2> QED
    BY <2>1, <2>4 DEF Fresh
<1>7. ASSUME NEW c \in Cli, FileReceived(c) \/ PostImage(c) \/ ReadEnds(c) \/ TimerExpires(c)
                             \/ \E what \in {"file", "alive", "error"} : Arrives(c, what)
      PROVE  Fresh'
  <2>1. /\ UNCHANGED <<cli_socket, writes, accept, accepting, dest>>
        /\ read[c] # "none" \/ c \in posting \/ timer_[c] # "unset"
        /\ read' = read \/ \E x : read' = [read EXCEPT ![c] = x]
        /\ posting' \subseteq posting \union {c}
        /\ timer_' = timer_ \/ \E x : timer_' = [timer_ EXCEPT ![c] = x]
    BY <1>7 DEF FileReceived, PostImage, ReadEnds, TimerExpires, Arrives, acceptVars, readVars, writeVars
  <2>2. cli_socket[c] # "new"
    BY <2>1 DEF Fresh
  <2>3. \A d \in Cli : d # c => read'[d] = read[d] /\ timer_'[d] = timer_[d]
    BY <2>1 DEF IInv, Types
  <2>4. \A d \in Cli : read'[d] # "none" \/ d \in posting' \/ timer_'[d] # "unset" => cli_socket[d] # "new"
    BY <2>1, <2>2, <2>3 DEF Fresh
  <2> QED
    BY <1>0, <2>1, <2>4, FreshKept
<1>8. ASSUME NEW c \in Cli, AliveTimeout(c) PROVE Fresh'
  <2>1. /\ UNCHANGED <<cli_socket, accept, accepting, read, posting, dest>> /\ timer_[c] = "expired"
        /\ timer_' = [timer_ EXCEPT ![c] = "again"]
        /\ \E v : v.of = 0 /\ v.cli = c /\ writes' = writes \union {v}
    BY <1>8 DEF AliveTimeout, AsyncWrite, acceptVars, readVars
  <2>2. cli_socket[c] # "new"
    BY <2>1 DEF Fresh
  <2>3. \A d \in Cli : timer_'[d] # "unset" => d = c \/ timer_[d] # "unset"
    BY <2>1 DEF IInv, Types
  <2>4. \A w \in writes' : w.of = 0 => cli_socket[w.cli] # "new"
    BY <2>1, <2>2 DEF Fresh
  <2> QED
    BY <2>1, <2>2, <2>3, <2>4 DEF Fresh
<1>9. ASSUME NEW c \in Cli, WaitCheckAlive(c) PROVE Fresh'
  <2>1. /\ UNCHANGED <<accept, accepting, read, posting, dest>> /\ timer_[c] = "again"
        /\ timer_' = [timer_ EXCEPT ![c] = "done"] /\ Close(c, writes) /\ writes \in SUBSET writes
    BY <1>9 DEF WaitCheckAlive, acceptVars, readVars
  <2>2. cli_socket[c] # "new"
    BY <2>1 DEF Fresh
  <2>3. \A d \in Cli : timer_'[d] # "unset" => d = c \/ timer_[d] # "unset"
    BY <2>1 DEF IInv, Types
  <2>4. \A d \in Cli : read'[d] # "none" \/ d \in posting' \/ timer_'[d] # "unset" => cli_socket[d] # "new"
    BY <2>1, <2>2, <2>3 DEF Fresh
  <2> QED
    BY <1>0, <2>1, <2>2, <2>4, FreshClosed, FreshKept
<1>10. ASSUME NEW w \in writes, AliveWriteHandler(w) PROVE Fresh'
  <2>1. /\ UNCHANGED <<accept, accepting, read, posting, timer_, dest>> /\ w.of = 0 /\ w.cli \in Cli
        /\ writes \ {w} \in SUBSET writes
        /\ \/ Close(w.cli, writes \ {w})
           \/ writes' = writes \ {w} /\ UNCHANGED cli_socket
    BY <1>10 DEF AliveWriteHandler, acceptVars, readVars, IInv, Types, Write
  <2>2. cli_socket[w.cli] # "new"
    BY <2>1 DEF Fresh
  <2>3. \A d \in Cli : read'[d] # "none" \/ d \in posting' \/ timer_'[d] # "unset" => cli_socket[d] # "new"
    BY <2>1 DEF Fresh
  <2>4. CASE Close(w.cli, writes \ {w})
    BY <1>0, <2>1, <2>2, <2>3, <2>4, FreshClosed, FreshKept
  <2>5. CASE writes' = writes \ {w} /\ UNCHANGED cli_socket
    BY <1>0, <2>1, <2>3, <2>5, FreshKept
  <2> QED
    BY <2>1, <2>4, <2>5
<1>11. ASSUME NEW w \in writes, Continue(w) \/ SendHandler(w) \/ SystemSends(w) PROVE Fresh'
  <2>1. /\ UNCHANGED <<cli_socket, accept, accepting, read, posting, timer_, dest>>
    BY <1>11 DEF Continue, SendHandler, SystemSends, acceptVars, readVars
  <2>2. \A u \in writes' : \E v \in writes : u.cli = v.cli /\ u.of = v.of
    <3>1. w \in Write
      BY DEF IInv, Types
    <3>2. CASE SendHandler(w)
      BY <3>2 DEF SendHandler
    <3>3. CASE SystemSends(w)
      BY <3>1, <3>3 DEF SystemSends, Write
    <3>4. CASE Continue(w)
      <4>1. \E v : v.cli = w.cli /\ v.of = w.of /\ writes' = (writes \ {w}) \union {v}
        BY <3>1, <3>4 DEF Continue, Write
      <4> QED
        BY <4>1
    <3> QED
      BY <1>11, <3>2, <3>3, <3>4
  <2>3. \A d \in Cli : read'[d] # "none" \/ d \in posting' \/ timer_'[d] # "unset" => cli_socket[d] # "new"
    BY <2>1 DEF Fresh
  <2> QED
    BY <1>0, <2>1, <2>2, <2>3, FreshKept
<1>12. CASE CoreResult
  <2> DEFINE c == Head(coreQ).id  r == Head(coreQ).of
  <2>1. /\ UNCHANGED <<cli_socket, accept, accepting, read, posting, timer_>>
        /\ \/ SendResult(c, r)
           \/ UNCHANGED <<dest, writes>>
    BY <1>12 DEF CoreResult, acceptVars, readVars
  <2>2. c \in Cli /\ r # 0
    <3>1. Head(coreQ) \in Message /\ Head(coreQ).type = "WM_RESULT_DECTIVE"
      BY <1>12, QueueTypes DEF CoreResult, CoreHandles, IInv, Types
    <3> QED
      BY <3>1 DEF Message
  <2> HIDE DEF c, r
  <2>3. CASE SendResult(c, r)
    <3>1. /\ \E v : v.of = r /\ writes' = writes \union {v}
          /\ dest' = dest \/ (cli_socket[c] = "open" /\ dest' = [dest EXCEPT ![r] = c])
      BY <2>3 DEF SendResult, AsyncWrite
    <3>2. \A s \in Result : dest'[s] = dest[s] \/ (cli_socket[c] = "open" /\ dest'[s] = c)
      BY <1>0, <3>1
    <3>3. /\ \A w \in writes' : w.of = 0 => cli_socket[w.cli] # "new"
          /\ \A s \in Result : dest'[s] # 0 => cli_socket[dest'[s]] # "new"
      BY <2>2, <3>1, <3>2 DEF Fresh
    <3> QED
      BY <2>1, <3>3 DEF Fresh
  <2>4. CASE UNCHANGED <<dest, writes>>
    BY <2>1, <2>4 DEF Fresh
  <2> QED
    BY <2>1, <2>3, <2>4
<1>13. ASSUME \/ CoreImage \/ CoreDisconnect \/ CoreHandsOn \/ CoreFaults \/ RecSignals \/ Dial \/ RecLoses
              \/ (\E id \in Cli : RecResult(id)) \/ (\E c \in Cli : Leave(c)) \/ UNCHANGED vars
       PROVE  Fresh'
  <2>1. UNCHANGED <<cli_socket, accept, accepting, read, posting, timer_, dest, writes>>
    BY <1>13 DEF CoreImage, CoreDisconnect, CoreHandsOn, CoreFaults, RecSignals, Dial, RecLoses, RecResult, Leave,
       vars, acceptVars, readVars, writeVars
  <2> QED
    BY <2>1 DEF Fresh
<1> QED
  BY <1>1, <1>2, <1>3, <1>4, <1>5, <1>6, <1>7, <1>8, <1>9, <1>10, <1>11, <1>12, <1>13
  DEF Next, IoThreads, Core, System, Environment

LEMMA StepYounger == IInv /\ Once /\ Younger /\ [Next]_vars => Younger'
<1> SUFFICES ASSUME IInv, Once, Younger, [Next]_vars PROVE Younger'
  OBVIOUS
<1>0. Types /\ dest \in [Result -> 0..MaxClients] /\ coreQ \in Seq(Message)
  BY DEF IInv, Once, Types
<1>1. ASSUME NoNewResult, dest' = dest PROVE Younger'
  <2>1. PICK d \in {0, 1} : \A i \in ResultAt(coreQ') :
             i \in Nat /\ i + d \in ResultAt(coreQ) /\ coreQ'[i] = coreQ[i + d]
    BY <1>0, <1>1, ResultsKept
  <2> QED
    BY <1>1, <2>1 DEF Younger, ResultAt
<1>2. CASE CoreResult
  <2> DEFINE c == Head(coreQ).id  r == Head(coreQ).of
  <2>1. coreQ # <<>> /\ coreQ' = Tail(coreQ) /\ NoNewResult /\ 1 \in ResultAt(coreQ) /\ r = coreQ[1].of
    BY <1>0, <1>2, ResultAtTail DEF CoreResult, CoreHandles, NoNewResult
  <2>2. \A s \in Result : dest'[s] # 0 => dest[s] # 0 \/ s = r
    <3>1. dest' = dest \/ \E x : dest' = [dest EXCEPT ![r] = x]
      BY <1>2 DEF CoreResult, SendResult
    <3> HIDE DEF r
    <3> QED
      BY <1>0, <3>1
  <2>3. \A i \in ResultAt(coreQ') :
          i \in Nat \ {0} /\ i + 1 \in ResultAt(coreQ) /\ coreQ'[i] = coreQ[i + 1]
    BY <1>0, <2>1, ResultAtTail
  <2> HIDE DEF c, r
  <2>4. \A i \in ResultAt(coreQ') : r < coreQ'[i].of
    <3> SUFFICES ASSUME NEW i \in ResultAt(coreQ') PROVE r < coreQ'[i].of
      OBVIOUS
    <3>1. 1 < i + 1
      BY <2>3
    <3> QED
      BY <2>1, <2>3, <3>1 DEF Once
  <2> QED
    BY <2>2, <2>3, <2>4 DEF Younger, ResultAt
<1>3. ASSUME NEW id \in Cli, RecResult(id) PROVE Younger'
  <2> DEFINE m == Msg("WM_RESULT_DECTIVE", id, results + 1, 0)
  <2>1. results \in Nat /\ dest' = dest /\ (coreQ' = coreQ \/ coreQ' = Append(coreQ, m))
    BY <1>3, ClientsAssumption DEF RecResult, Once
  <2>2. m \in Message /\ m.type = "WM_RESULT_DECTIVE" /\ m.of = results + 1
    BY <2>1 DEF Msg, Message
  <2>3. \A r \in Result : dest[r] # 0 => r < results + 1
    BY <2>1 DEF Once, Untouched, Result
  <2> HIDE DEF m
  <2>4. CASE coreQ' = Append(coreQ, m)
    <3>1. /\ \A i \in ResultAt(coreQ') : i \in ResultAt(coreQ) \/ i = Len(coreQ) + 1
          /\ \A i \in ResultAt(coreQ) : coreQ'[i] = coreQ[i]
          /\ coreQ'[Len(coreQ) + 1] = m
      BY <1>0, <2>2, <2>4, ResultAtAppend
    <3> QED
      BY <2>1, <2>2, <2>3, <3>1 DEF Younger, ResultAt
  <2> QED
    BY <2>1, <2>4 DEF Younger, ResultAt
<1>4. ASSUME NEW c \in Cli, PostImage(c) PROVE Younger'
  <2>1. Msg("WM_IMAGE", c, 0, c) \in Message /\ Msg("WM_IMAGE", c, 0, c).type = "WM_IMAGE"
    BY DEF Msg, Message, Cli
  <2> QED
    BY <1>1, <1>4, <2>1 DEF PostImage, NoNewResult
<1>5. ASSUME NEW c \in Cli, WaitCheckAlive(c) PROVE Younger'
  BY <1>0, <1>1, <1>5, ReportPosts DEF WaitCheckAlive
<1>6. ASSUME NEW w \in writes, AliveWriteHandler(w) PROVE Younger'
  <2>1. w.cli \in Cli
    BY <1>0 DEF Types, Write
  <2>2. dest' = dest /\ (Report(w.cli) \/ coreQ' = coreQ)
    BY <1>6 DEF AliveWriteHandler
  <2> QED
    BY <1>0, <1>1, <2>1, <2>2, ReportPosts DEF NoNewResult
<1>7. ASSUME CoreImage \/ CoreDisconnect PROVE Younger'
  BY <1>1, <1>7 DEF CoreImage, CoreDisconnect, CoreHandles, NoNewResult
<1>8. ASSUME NEW c \in Cli, \/ AcceptHandler(c) \/ AcceptHandlerFailed(c) \/ FileReceived(c) \/ ReadEnds(c)
                            \/ AcceptDone(c) \/ TimerExpires(c) \/ AcceptFails(c) \/ Leave(c) \/ AliveTimeout(c)
                            \/ \E what \in {"file", "alive", "error"} : Arrives(c, what)
      PROVE  Younger'
  BY <1>1, <1>8 DEF AcceptHandler, AcceptHandlerFailed, FileReceived, ReadEnds, AcceptDone,
     TimerExpires, AcceptFails, Leave, AliveTimeout, Arrives, coreVars, NoNewResult
<1>9. ASSUME NEW h \in accepting, CreateClient(h) \/ Insert(h) \/ StartAccept(h) PROVE Younger'
  BY <1>1, <1>9 DEF CreateClient, Insert, StartAccept, coreVars, NoNewResult
<1>10. ASSUME NEW w \in writes, Continue(w) \/ SendHandler(w) \/ SystemSends(w) PROVE Younger'
  BY <1>1, <1>10 DEF Continue, SendHandler, SystemSends, coreVars, NoNewResult
<1>11. ASSUME CoreHandsOn \/ CoreFaults \/ RecSignals \/ Dial \/ RecLoses \/ UNCHANGED vars PROVE Younger'
  BY <1>1, <1>11 DEF CoreHandsOn, CoreFaults, RecSignals, Dial, RecLoses, vars, coreVars, NoNewResult
<1> QED
  BY <1>2, <1>3, <1>4, <1>5, <1>6, <1>7, <1>8, <1>9, <1>10, <1>11
  DEF Next, IoThreads, Core, System, Environment

(* Writes may end; more clients leave; a socket opens.  Nothing moves.         *)
LEMMA OrderlyIdle ==
  ASSUME IInv, Fresh, Orderly, writes' \subseteq writes, UNCHANGED <<sendQ, wire, dest, freed>>,
         \A c \in Cli : cli_socket'[c] = cli_socket[c] \/ cli_socket[c] = "new",
         peerGone \subseteq peerGone'
  PROVE  Orderly'
<1>1. Streams' /\ Handed' /\ Owned' /\ Waits'
  BY DEF Orderly, Streams, Handed, Owned, Waits
<1>2. Whole'
  <2> SUFFICES ASSUME NEW c \in Cli, NEW r \in Result, dest[r] = c, freed[r] > 0,
                      cli_socket'[c] = "open", c \notin peerGone'
               PROVE  \A k \in 1..Pieces : OnWire(c, <<r, k>>)
    BY DEF Whole, OnWire
  <2>1. dest[r] # 0
    BY DEF Cli
  <2>2. cli_socket[c] # "new"
    BY <2>1 DEF Fresh
  <2>3. cli_socket[c] = "open" /\ c \notin peerGone
    BY <2>2
  <2> QED
    BY <2>3 DEF Orderly, Whole
<1>3. Dests'
  BY DEF Orderly, Dests, Goes, IInv, Types, Write
<1>4. Progress'
  BY DEF Orderly, Progress, SoFar, OnWire
<1> QED
  BY <1>1, <1>2, <1>3, <1>4 DEF Orderly

(* send_handler: the result is on the wire in whole, or its socket has failed. *)
LEMMA OrderlyDeleted ==
  ASSUME IInv, Orderly, Once, PiecesFit, NEW w \in writes, SendHandler(w)
  PROVE  Orderly'
<1>0. /\ writes' = writes \ {w} /\ freed' = [freed EXCEPT ![w.of] = @ + 1] /\ w.of # 0 /\ Complete(w)
      /\ UNCHANGED <<sendQ, wire, dest, cli_socket, peerGone>>
  BY DEF SendHandler
<1>1. Streams' /\ Handed' /\ Owned' /\ Waits' /\ Dests'
  BY <1>0 DEF Orderly, Streams, Handed, Owned, Waits, Dests, Goes
<1>2. Progress'
  BY <1>0 DEF Orderly, Progress, SoFar, OnWire
<1>3. ASSUME NEW c \in Cli, dest[w.of] = c, cli_socket[c] = "open", c \notin peerGone
      PROVE  \A k \in 1..Pieces : OnWire(c, <<w.of, k>>)
  <2>1. dest[w.of] = w.cli /\ w.state # "failed"
    BY <1>0, <1>3 DEF Orderly, Dests, Goes, Cli
  <2>2. w.state = "sent" /\ w.piece = Pieces
    BY <1>0, <2>1 DEF Complete, Last
  <2> QED
    BY <1>0, <1>3, <2>1, <2>2 DEF Orderly, Progress, SoFar
<1>4. \A r \in Result : r # w.of => freed'[r] = freed[r]
  BY <1>0 DEF Once
<1>5. Whole'
  BY <1>0, <1>3, <1>4 DEF Orderly, Whole, OnWire
<1> QED
  BY <1>1, <1>2, <1>5 DEF Orderly

(* A socket is closed: what it was still to send is dropped. *)
LEMMA OrderlyClosed ==
  ASSUME IInv, Orderly, NEW c \in Cli, NEW ws \in SUBSET writes, Close(c, ws),
         UNCHANGED <<wire, dest, freed, peerGone>>
  PROVE  Orderly'
<1>0. /\ sendQ' = [sendQ EXCEPT ![c] = <<>>] /\ cli_socket' = [cli_socket EXCEPT ![c] = "closed"]
      /\ sendQ \in [Cli -> Seq(Piece)] /\ cli_socket \in [Cli -> {"new", "open", "closed"}]
  BY DEF Close, Orderly, Streams, IInv, Types
<1>1. /\ \A d \in Cli : d # c => sendQ'[d] = sendQ[d] /\ cli_socket'[d] = cli_socket[d]
      /\ sendQ'[c] = <<>> /\ cli_socket'[c] = "closed"
  BY <1>0
<1>2. ASSUME NEW u \in writes'
      PROVE  \/ u \in writes /\ (u.cli = c => u.state # "sending")
             \/ \E v \in writes : /\ u.cli = c /\ v.cli = c /\ u.of = v.of /\ u.piece = v.piece
                                  /\ u.state = "failed" /\ v.state = "sending"
  <2>1. PICK v \in ws : u = IF v.cli = c /\ v.state = "sending" THEN [v EXCEPT !.state = "failed"] ELSE v
    BY DEF Close
  <2>2. v \in writes /\ v \in Write
    BY DEF IInv, Types
  <2> QED
    BY <2>1, <2>2 DEF Write
<1>3. Streams'
  <2>1. <<>> \in Seq(Piece)
    OBVIOUS
  <2> QED
    BY <1>0, <2>1 DEF Orderly, Streams
<1>4. Handed'
  <2>1. Len(<<>>) = 0 /\ 1..0 = {}
    OBVIOUS
  <2>2. Ascending(<<>>) /\ \A s : Before(s, <<>>)
    BY <2>1 DEF Ascending, Before
  <2> QED
    BY <1>1, <2>2 DEF Orderly, Handed
<1>5. Owned'
  <2>1. Len(<<>>) = 0 /\ 1..0 = {}
    OBVIOUS
  <2> QED
    BY <1>1, <2>1 DEF Orderly, Owned
<1>6. Whole'
  BY <1>1 DEF Orderly, Whole, OnWire
<1>7. Waits'
  <2> SUFFICES ASSUME NEW u \in writes', u.state = "sending"
               PROVE  \E i \in 1..Len(sendQ'[u.cli]) : sendQ'[u.cli][i] = <<u.of, u.piece>>
    BY DEF Waits
  <2>1. u \in writes /\ u.cli # c /\ u.cli \in Cli
    BY <1>2 DEF IInv, Types, Write
  <2> QED
    BY <1>1, <2>1 DEF Orderly, Waits
<1>8. Dests'
  <2> SUFFICES ASSUME NEW u \in writes', u.of # 0 PROVE Goes(u)'
    BY DEF Dests
  <2>1. CASE u \in writes
    <3>1. u.cli \in Cli
      BY <2>1 DEF IInv, Types, Write
    <3> QED
      BY <1>1, <2>1, <3>1 DEF Orderly, Dests, Goes
  <2>2. CASE u \notin writes
    BY <1>1, <1>2, <2>2 DEF Orderly, Dests, Goes
  <2> QED
    BY <2>1, <2>2
<1>9. Progress'
  <2> SUFFICES ASSUME NEW u \in writes', u.of # 0
               PROVE  /\ u.state # "failed" => \A k \in 1..SoFar(u) : OnWire(u.cli, <<u.of, k>>)
                      /\ \A i \in 1..Len(wire[u.cli]) :
                           wire[u.cli][i][1] = u.of => wire[u.cli][i][2] <= SoFar(u)
    BY DEF Progress, OnWire
  <2>1. CASE u \in writes
    BY <2>1 DEF Orderly, Progress
  <2>2. CASE u \notin writes
    BY <1>2, <2>2 DEF Orderly, Progress, SoFar
  <2> QED
    BY <2>1, <2>2
<1> QED
  BY <1>3, <1>4, <1>5, <1>6, <1>7, <1>8, <1>9 DEF Orderly

(* The beginning of a write: of IS_ALIVE, or of a result that is younger than  *)
(* all that went before.                                                       *)
LEMMA OrderlyStarted ==
  ASSUME IInv, Fresh, Orderly, NEW c \in Cli, NEW of \in Nat, AsyncWrite(c, of),
         of # 0 => /\ of \in Result /\ Untouched(of)
                   /\ \A r \in Result : dest[r] # 0 => r < of,
         dest \in [Result -> 0..MaxClients],
         dest' = IF of # 0 /\ cli_socket[c] = "open" THEN [dest EXCEPT ![of] = c] ELSE dest,
         UNCHANGED <<wire, freed, cli_socket, peerGone>>
  PROVE  Orderly'
<1> DEFINE p == <<of, 1>>
<1>1. /\ cli_socket[c] = "open" => sendQ' = [sendQ EXCEPT ![c] = Append(@, p)]
      /\ cli_socket[c] # "open" => sendQ' = sendQ
  BY DEF AsyncWrite
<1>2. PICK new : /\ writes' = writes \union {new}
                 /\ new.cli = c /\ new.of = of /\ new.piece = 1
                 /\ cli_socket[c] = "open" => new.state = "sending"
                 /\ cli_socket[c] # "open" => new.state = "failed"
  <2> DEFINE begun(st) == [cli |-> c, of |-> of, piece |-> 1, state |-> st]
  <2>1. \/ cli_socket[c] = "open" /\ writes' = writes \union {begun("sending")}
        \/ cli_socket[c] # "open" /\ writes' = writes \union {begun("failed")}
    BY DEF AsyncWrite
  <2>2. \A st : /\ begun(st).cli = c /\ begun(st).of = of
                /\ begun(st).piece = 1 /\ begun(st).state = st
    OBVIOUS
  <2> HIDE DEF begun
  <2> QED
    BY <2>1, <2>2
<1>3. p \in Piece /\ p[1] = of /\ p[2] = 1
  BY DEF Piece
<1> HIDE DEF p
<1>4. /\ sendQ \in [Cli -> Seq(Piece)] /\ wire \in [Cli -> Seq(Piece)]
      /\ \A d \in Cli : sendQ[d] \in Seq(Piece) /\ wire[d] \in Seq(Piece)
      /\ sendQ' = sendQ \/ sendQ' = [sendQ EXCEPT ![c] = Append(sendQ[c], p)]
  BY <1>1 DEF Orderly, Streams
<1>5. /\ \A d \in Cli : d # c => sendQ'[d] = sendQ[d]
      /\ sendQ'[c] = sendQ[c] \/ sendQ'[c] = Append(sendQ[c], p)
      /\ cli_socket[c] = "open" => sendQ'[c] = Append(sendQ[c], p)
  BY <1>1, <1>4
<1>6. /\ Len(Append(sendQ[c], p)) = Len(sendQ[c]) + 1 /\ Len(sendQ[c]) \in Nat
      /\ \A i \in 1..Len(sendQ[c]) : Append(sendQ[c], p)[i] = sendQ[c][i]
      /\ Append(sendQ[c], p)[Len(sendQ[c]) + 1] = p /\ Append(sendQ[c], p) \in Seq(Piece)
      /\ \A i \in 1..(Len(sendQ[c]) + 1) : i \in 1..Len(sendQ[c]) \/ i = Len(sendQ[c]) + 1
      /\ Len(sendQ[c]) + 1 \in 1..(Len(sendQ[c]) + 1)
      /\ \A i \in 1..Len(sendQ[c]) : i \in 1..(Len(sendQ[c]) + 1)
  <2>1. Len(sendQ[c]) \in Nat
    BY <1>4
  <2>2. /\ \A i \in 1..(Len(sendQ[c]) + 1) : i \in 1..Len(sendQ[c]) \/ i = Len(sendQ[c]) + 1
        /\ Len(sendQ[c]) + 1 \in 1..(Len(sendQ[c]) + 1)
        /\ \A i \in 1..Len(sendQ[c]) : i \in 1..(Len(sendQ[c]) + 1)
    BY <2>1
  <2> QED
    BY <1>3, <1>4, <2>1, <2>2
<1>7. \A d \in Cli, r \in Result : dest[r] = d => dest'[r] = d
  <2> SUFFICES ASSUME NEW d \in Cli, NEW r \in Result, dest[r] = d PROVE dest'[r] = d
    OBVIOUS
  <2>1. of # 0 => r # of
    BY DEF Untouched, Cli
  <2> QED
    BY <2>1
<1>8. /\ of # 0 /\ cli_socket[c] = "open" => dest'[of] = c
      /\ \A r \in Result : r # of \/ cli_socket[c] # "open" => dest'[r] = dest[r]
  OBVIOUS
<1>9. Streams'
  BY <1>4, <1>6 DEF Streams
<1>10. Handed'
  <2>1. ASSUME NEW s \in Seq(Piece), \A i \in 1..Len(s) : s[i][1] # 0 => s[i][1] \in Result /\ dest[s[i][1]] = c
        PROVE  \A i \in 1..Len(s) : StartsResult(s[i]) /\ StartsResult(p) => s[i][1] < p[1]
    BY <1>3, <2>1 DEF StartsResult, Cli
  <2>2. /\ \A i \in 1..Len(sendQ[c]) : StartsResult(sendQ[c][i]) /\ StartsResult(p) => sendQ[c][i][1] < p[1]
        /\ \A i \in 1..Len(wire[c]) : StartsResult(wire[c][i]) /\ StartsResult(p) => wire[c][i][1] < p[1]
    BY <1>4, <2>1 DEF Orderly, Owned
  <2>3. Ascending(sendQ[c]) /\ Before(wire[c], sendQ[c])
    BY DEF Orderly, Handed
  <2>4. Ascending(Append(sendQ[c], p)) /\ Before(wire[c], Append(sendQ[c], p))
    BY <1>3, <1>4, <2>2, <2>3, AscendingAppend, BeforeAppend
  <2> QED
    BY <1>5, <2>3, <2>4 DEF Orderly, Handed
<1>11. Owned'
  <2>1. ASSUME NEW d \in Cli, NEW i \in 1..Len(wire[d]), wire[d][i][1] # 0
        PROVE  wire[d][i][1] \in Result /\ dest'[wire[d][i][1]] = d
    BY <1>7, <2>1 DEF Orderly, Owned
  <2>2. ASSUME NEW d \in Cli, NEW i \in 1..Len(sendQ[d]), sendQ[d][i][1] # 0
        PROVE  sendQ[d][i][1] \in Result /\ dest'[sendQ[d][i][1]] = d
    BY <1>7, <2>2 DEF Orderly, Owned
  <2>3. ASSUME NEW i \in 1..Len(sendQ'[c]), sendQ'[c][i][1] # 0
        PROVE  sendQ'[c][i][1] \in Result /\ dest'[sendQ'[c][i][1]] = c
    <3>1. CASE cli_socket[c] = "open"
      <4>1. (i \in 1..Len(sendQ[c]) /\ sendQ'[c][i] = sendQ[c][i]) \/ sendQ'[c][i] = p
        BY <1>5, <1>6, <3>1
      <4> QED
        BY <1>3, <1>7, <1>8, <2>2, <2>3, <3>1, <4>1
    <3>2. CASE cli_socket[c] # "open"
      BY <1>1, <2>2, <2>3, <3>2
    <3> QED
      BY <3>1, <3>2
  <2>4. ASSUME NEW d \in Cli, NEW i \in 1..Len(sendQ'[d]), sendQ'[d][i][1] # 0
        PROVE  sendQ'[d][i][1] \in Result /\ dest'[sendQ'[d][i][1]] = d
    BY <1>5, <2>2, <2>3, <2>4
  <2> QED
    BY <2>1, <2>4 DEF Owned
<1>12. Whole'
  <2> SUFFICES ASSUME NEW d \in Cli, NEW r \in Result, dest'[r] = d, freed[r] > 0,
                      cli_socket[d] = "open", d \notin peerGone
               PROVE  \A k \in 1..Pieces : OnWire(d, <<r, k>>)
    BY DEF Whole, OnWire
  <2>1. r # of
    BY DEF Untouched, Result
  <2> QED
    BY <1>8, <2>1 DEF Orderly, Whole
<1>13. Waits'
  <2>1. ASSUME NEW w \in writes, w.state = "sending"
        PROVE  \E i \in 1..Len(sendQ'[w.cli]) : sendQ'[w.cli][i] = <<w.of, w.piece>>
    <3>1. w.cli \in Cli
      BY DEF IInv, Types, Write
    <3>2. PICK i \in 1..Len(sendQ[w.cli]) : sendQ[w.cli][i] = <<w.of, w.piece>>
      BY <2>1 DEF Orderly, Waits
    <3> QED
      BY <1>5, <1>6, <3>1, <3>2
  <2>2. cli_socket[c] = "open" => \E i \in 1..Len(sendQ'[c]) : sendQ'[c][i] = <<new.of, new.piece>>
    BY <1>2, <1>5, <1>6 DEF p
  <2> QED
    BY <1>2, <2>1, <2>2 DEF Waits
<1>14. Dests'
  <2>1. ASSUME NEW w \in writes, w.of # 0 PROVE Goes(w)'
    <3>1. Goes(w)
      BY <2>1 DEF Orderly, Dests
    <3>2. dest'[w.of] = dest[w.of]
      BY <2>1 DEF Untouched
    <3> QED
      BY <3>1, <3>2 DEF Goes
  <2>2. ASSUME of # 0 PROVE Goes(new)'
    <3>1. dest[of] = 0 /\ of \in Result
      BY <2>2 DEF Untouched
    <3> QED
      BY <1>2, <1>8, <2>2, <3>1 DEF Goes
  <2> QED
    BY <1>2, <2>1, <2>2 DEF Dests
<1>15. Progress'
  <2>1. ASSUME of # 0 PROVE \A i \in 1..Len(wire[c]) : wire[c][i][1] # of
    BY <2>1 DEF Orderly, Owned, Untouched, Cli
  <2>2. SoFar(new) = 0
    BY <1>2 DEF SoFar
  <2> SUFFICES ASSUME NEW u \in writes', u.of # 0
               PROVE  /\ u.state # "failed" => \A k \in 1..SoFar(u) : OnWire(u.cli, <<u.of, k>>)
                      /\ \A i \in 1..Len(wire[u.cli]) :
                           wire[u.cli][i][1] = u.of => wire[u.cli][i][2] <= SoFar(u)
    BY DEF Progress, OnWire
  <2>3. CASE u \in writes
    BY <2>3 DEF Orderly, Progress
  <2>4. CASE u = new
    <3>1. of # 0 /\ 1..SoFar(u) = {}
      BY <1>2, <2>2, <2>4
    <3> QED
      BY <1>2, <2>1, <2>4, <3>1
  <2> QED
    BY <1>2, <2>3, <2>4
<1> QED
  BY <1>9, <1>10, <1>11, <1>12, <1>13, <1>14, <1>15 DEF Orderly

(* The next piece of a write that has sent one.                                *)
LEMMA OrderlyContinued ==
  ASSUME IInv, Once, Orderly, Fresh, PiecesFit, NEW w \in writes, Continue(w)
  PROVE  Orderly'
<1>1. /\ w \in Write /\ w.cli \in Cli /\ w.of \in Nat /\ w.of # 0 /\ w.piece \in 1..Pieces
      /\ w.piece # Pieces /\ w.state = "sent" /\ Pieces \in Nat
      /\ UNCHANGED <<wire, dest, freed, cli_socket, peerGone>>
  BY ClientsAssumption DEF Continue, Last, PiecesFit, IInv, Types, Write
<1> DEFINE c == w.cli  p == <<w.of, w.piece + 1>>
<1>2. PICK next : /\ writes' = (writes \ {w}) \union {next}
                  /\ next.cli = c /\ next.of = w.of /\ next.piece = w.piece + 1
                  /\ \/ /\ cli_socket[c] = "open" /\ next.state = "sending"
                        /\ sendQ' = [sendQ EXCEPT ![c] = Append(@, p)]
                     \/ cli_socket[c] # "open" /\ next.state = "failed" /\ sendQ' = sendQ
  <2> DEFINE after(st) == [[w EXCEPT !.piece = @ + 1] EXCEPT !.state = st]
  <2>1. \A st : after(st).cli = c /\ after(st).of = w.of /\ after(st).piece = w.piece + 1
    BY <1>1 DEF Write
  <2>2. after("sending").state = "sending" /\ after("failed").state = "failed"
    BY <1>1 DEF Write
  <2>3. [w EXCEPT !.piece = @ + 1].piece = w.piece + 1
    BY <1>1 DEF Write
  <2>4. \/ /\ cli_socket[c] = "open" /\ writes' = (writes \ {w}) \union {after("sending")}
           /\ sendQ' = [sendQ EXCEPT ![c] = Append(@, p)]
        \/ /\ cli_socket[c] # "open" /\ writes' = (writes \ {w}) \union {after("failed")}
           /\ sendQ' = sendQ
    BY <2>3, Zenon DEF Continue
  <2> HIDE DEF after, p
  <2> QED
    BY <2>1, <2>2, <2>4
<1>3. p \in Piece /\ p[1] = w.of /\ ~StartsResult(p)
  BY <1>1 DEF Piece, StartsResult
<1> HIDE DEF p
<1>4. /\ sendQ \in [Cli -> Seq(Piece)] /\ wire \in [Cli -> Seq(Piece)]
      /\ \A d \in Cli : sendQ[d] \in Seq(Piece) /\ wire[d] \in Seq(Piece)
  BY DEF Orderly, Streams
<1>5. /\ \A d \in Cli : d # c => sendQ'[d] = sendQ[d]
      /\ sendQ'[c] = sendQ[c] \/ sendQ'[c] = Append(sendQ[c], p)
      /\ cli_socket[c] = "open" => sendQ'[c] = Append(sendQ[c], p)
  BY <1>1, <1>2, <1>4
<1>6. /\ Len(Append(sendQ[c], p)) = Len(sendQ[c]) + 1 /\ Len(sendQ[c]) \in Nat
      /\ \A i \in 1..Len(sendQ[c]) : Append(sendQ[c], p)[i] = sendQ[c][i]
      /\ Append(sendQ[c], p)[Len(sendQ[c]) + 1] = p /\ Append(sendQ[c], p) \in Seq(Piece)
      /\ \A i \in 1..(Len(sendQ[c]) + 1) : i \in 1..Len(sendQ[c]) \/ i = Len(sendQ[c]) + 1
      /\ Len(sendQ[c]) + 1 \in 1..(Len(sendQ[c]) + 1)
      /\ \A i \in 1..Len(sendQ[c]) : i \in 1..(Len(sendQ[c]) + 1)
  <2>1. Len(sendQ[c]) \in Nat
    BY <1>1, <1>4
  <2>2. /\ \A i \in 1..(Len(sendQ[c]) + 1) : i \in 1..Len(sendQ[c]) \/ i = Len(sendQ[c]) + 1
        /\ Len(sendQ[c]) + 1 \in 1..(Len(sendQ[c]) + 1)
        /\ \A i \in 1..Len(sendQ[c]) : i \in 1..(Len(sendQ[c]) + 1)
    BY <2>1
  <2> QED
    BY <1>1, <1>3, <1>4, <2>1, <2>2
<1>7. dest[w.of] = c /\ w.of \in Result /\ cli_socket[c] # "new"
  <2>1. dest[w.of] = c /\ w.of <= results /\ results \in 0..MaxResults
    BY <1>1 DEF Orderly, Dests, Goes, Once
  <2>2. w.of \in Result
    BY <1>1, <2>1, ClientsAssumption DEF Result
  <2>3. dest[w.of] # 0
    BY <1>1, <2>1 DEF Cli
  <2> QED
    BY <2>1, <2>2, <2>3 DEF Fresh
<1>8. Streams'
  BY <1>1, <1>2, <1>4, <1>6 DEF Streams
<1>9. Handed'
  <2>1. Ascending(sendQ[c]) /\ Before(wire[c], sendQ[c])
    BY <1>1 DEF Orderly, Handed
  <2>2. Ascending(Append(sendQ[c], p)) /\ Before(wire[c], Append(sendQ[c], p))
    BY <1>1, <1>3, <1>4, <2>1, AscendingAppend, BeforeAppend
  <2> QED
    BY <1>1, <1>5, <2>1, <2>2 DEF Orderly, Handed
<1>10. Owned'
  <2>1. ASSUME NEW i \in 1..Len(sendQ'[c]), sendQ'[c][i][1] # 0
        PROVE  sendQ'[c][i][1] \in Result /\ dest[sendQ'[c][i][1]] = c
    <3>1. (i \in 1..Len(sendQ[c]) /\ sendQ'[c][i] = sendQ[c][i]) \/ sendQ'[c][i] = p
      BY <1>5, <1>6
    <3> QED
      BY <1>1, <1>3, <1>7, <2>1, <3>1 DEF Orderly, Owned
  <2> QED
    BY <1>1, <1>5, <2>1 DEF Orderly, Owned
<1>11. Whole'
  BY <1>1 DEF Orderly, Whole, OnWire
<1>12. Waits'
  <2> SUFFICES ASSUME NEW u \in writes', u.state = "sending"
               PROVE  \E i \in 1..Len(sendQ'[u.cli]) : sendQ'[u.cli][i] = <<u.of, u.piece>>
    BY DEF Waits
  <2>1. CASE u = next
    <3>1. u.cli = c /\ cli_socket[c] = "open" /\ u.of = w.of /\ u.piece = w.piece + 1
      BY <1>2, <2>1
    <3>2. /\ Len(sendQ[c]) + 1 \in 1..Len(sendQ'[u.cli])
          /\ sendQ'[u.cli][Len(sendQ[c]) + 1] = p
      BY <1>5, <1>6, <3>1, Zenon
    <3>3. p = <<u.of, u.piece>>
      BY <3>1, Zenon DEF p
    <3> QED
      BY <3>2, <3>3, Zenon
  <2>2. CASE u \in writes
    <3>1. u.cli \in Cli
      BY <2>2 DEF IInv, Types, Write
    <3>2. PICK i \in 1..Len(sendQ[u.cli]) : sendQ[u.cli][i] = <<u.of, u.piece>>
      BY <2>2 DEF Orderly, Waits
    <3> QED
      BY <1>5, <1>6, <3>1, <3>2
  <2> QED
    BY <1>2, <2>1, <2>2
<1>13. Dests'
  <2>1. ASSUME NEW u \in writes, u.of # 0 PROVE Goes(u)'
    BY <1>1, <2>1 DEF Orderly, Dests, Goes
  <2>2. Goes(next)'
    <3>1. cli_socket[c] # "open" => cli_socket[c] = "closed"
      BY <1>1, <1>7 DEF IInv, Types
    <3> QED
      BY <1>1, <1>2, <1>7, <3>1 DEF Goes
  <2> QED
    BY <1>2, <2>1, <2>2 DEF Dests
<1>14. Progress'
  <2>1. SoFar(next) = w.piece /\ SoFar(w) = w.piece
    BY <1>1, <1>2 DEF SoFar
  <2> SUFFICES ASSUME NEW u \in writes', u.of # 0
               PROVE  /\ u.state # "failed" => \A k \in 1..SoFar(u) : OnWire(u.cli, <<u.of, k>>)
                      /\ \A i \in 1..Len(wire[u.cli]) :
                           wire[u.cli][i][1] = u.of => wire[u.cli][i][2] <= SoFar(u)
    BY <1>1 DEF Progress, OnWire
  <2>2. CASE u \in writes
    BY <2>2 DEF Orderly, Progress
  <2>3. CASE u = next
    BY <1>1, <1>2, <2>1, <2>3 DEF Orderly, Progress
  <2> QED
    BY <1>2, <2>2, <2>3
<1> QED
  BY <1>8, <1>9, <1>10, <1>11, <1>12, <1>13, <1>14 DEF Orderly

(* The system sends the piece it was handed first, or drops it: the client has *)
(* left.                                                                       *)
LEMMA OrderlySent ==
  ASSUME IInv, Once, Orderly, PiecesFit, NEW w \in writes, SystemSends(w)
  PROVE  Orderly'
<1>1. /\ w \in Write /\ w.cli \in Cli /\ w.of \in Nat /\ w.piece \in 1..Pieces /\ w.piece \in Nat
      /\ w.state = "sending" /\ Pieces \in Nat
      /\ UNCHANGED <<dest, freed, cli_socket, peerGone>>
  BY ClientsAssumption DEF SystemSends, PiecesFit, IInv, Types, Write
<1> DEFINE c == w.cli  p == <<w.of, w.piece>>
<1>2. PICK after : /\ writes' = (writes \ {w}) \union {after}
                   /\ after.cli = c /\ after.of = w.of /\ after.piece = w.piece
                   /\ \/ /\ after.state = "sent" /\ c \notin peerGone
                         /\ wire' = [wire EXCEPT ![c] = Append(@, p)]
                      \/ after.state = "failed" /\ c \in peerGone /\ wire' = wire
  <2> DEFINE x(st) == [w EXCEPT !.state = st]
  <2>1. /\ \A st : x(st).cli = c /\ x(st).of = w.of /\ x(st).piece = w.piece
        /\ x("sent").state = "sent" /\ x("failed").state = "failed"
    BY <1>1 DEF Write
  <2>2. \/ /\ c \notin peerGone /\ writes' = (writes \ {w}) \union {x("sent")}
           /\ wire' = [wire EXCEPT ![c] = Append(@, p)]
        \/ c \in peerGone /\ writes' = (writes \ {w}) \union {x("failed")} /\ wire' = wire
    BY DEF SystemSends
  <2> HIDE DEF x, p
  <2> QED
    BY <2>1, <2>2
<1>3. Head(sendQ[c]) = p /\ sendQ' = [sendQ EXCEPT ![c] = Tail(@)]
  BY DEF SystemSends
<1>4. p \in Piece /\ p[1] = w.of /\ p[2] = w.piece
  BY <1>1 DEF Piece
<1>5. /\ sendQ \in [Cli -> Seq(Piece)] /\ wire \in [Cli -> Seq(Piece)]
      /\ \A d \in Cli : sendQ[d] \in Seq(Piece) /\ wire[d] \in Seq(Piece)
  BY DEF Orderly, Streams
<1>6. sendQ[c] # <<>>
  <2>1. PICK i \in 1..Len(sendQ[c]) : sendQ[c][i] = p
    BY <1>1 DEF Orderly, Waits
  <2>2. Len(<<>>) = 0 /\ 1..0 = {}
    OBVIOUS
  <2> QED
    BY <2>1, <2>2
<1> HIDE DEF p
<1>7. /\ Tail(sendQ[c]) \in Seq(Piece) /\ p = sendQ[c][1] /\ Len(sendQ[c]) \in Nat \ {0}
      /\ Len(Tail(sendQ[c])) = Len(sendQ[c]) - 1
      /\ \A i \in 1..Len(Tail(sendQ[c])) : Tail(sendQ[c])[i] = sendQ[c][i + 1]
  BY <1>1, <1>3, <1>5, <1>6
<1>8. /\ 1 \in 1..Len(sendQ[c])
      /\ \A i \in 1..Len(Tail(sendQ[c])) : i + 1 \in 1..Len(sendQ[c])
      /\ \A i \in 1..Len(sendQ[c]) : i = 1 \/ (i - 1 \in 1..Len(Tail(sendQ[c])) /\ (i - 1) + 1 = i)
  BY <1>7
<1>9. /\ \A d \in Cli : d # c => sendQ'[d] = sendQ[d] /\ wire'[d] = wire[d]
      /\ sendQ'[c] = Tail(sendQ[c])
      /\ wire'[c] = wire[c] \/ wire'[c] = Append(wire[c], p)
      /\ after.state = "sent" => wire'[c] = Append(wire[c], p)
      /\ after.state = "failed" => wire' = wire
  BY <1>1, <1>2, <1>3, <1>5
<1>10. /\ Len(Append(wire[c], p)) = Len(wire[c]) + 1 /\ Len(wire[c]) \in Nat
       /\ \A i \in 1..Len(wire[c]) : Append(wire[c], p)[i] = wire[c][i]
       /\ Append(wire[c], p)[Len(wire[c]) + 1] = p /\ Append(wire[c], p) \in Seq(Piece)
       /\ \A i \in 1..(Len(wire[c]) + 1) : i \in 1..Len(wire[c]) \/ i = Len(wire[c]) + 1
       /\ Len(wire[c]) + 1 \in 1..(Len(wire[c]) + 1)
       /\ \A i \in 1..Len(wire[c]) : i \in 1..(Len(wire[c]) + 1)
  <2>1. Len(wire[c]) \in Nat
    BY <1>1, <1>5
  <2>2. /\ \A i \in 1..(Len(wire[c]) + 1) : i \in 1..Len(wire[c]) \/ i = Len(wire[c]) + 1
        /\ Len(wire[c]) + 1 \in 1..(Len(wire[c]) + 1)
        /\ \A i \in 1..Len(wire[c]) : i \in 1..(Len(wire[c]) + 1)
    BY <2>1
  <2> QED
    BY <1>1, <1>4, <1>5, <2>1, <2>2
<1>11. /\ \A d \in Cli : \A i \in 1..Len(wire'[d]) :
            (i \in 1..Len(wire[d]) /\ wire'[d][i] = wire[d][i]) \/ (d = c /\ wire'[d][i] = p)
       /\ \A d \in Cli : \A q : OnWire(d, q) => OnWire(d, q)'
       /\ after.state = "sent" => OnWire(c, p)'
  BY <1>1, <1>9, <1>10 DEF OnWire
<1>12. w.of # 0 => /\ dest[w.of] = c /\ w.of \in Result
                   /\ \A k \in 1..(w.piece - 1) : OnWire(c, <<w.of, k>>)
                   /\ \A i \in 1..Len(wire[c]) : wire[c][i][1] = w.of => wire[c][i][2] <= w.piece - 1
  <2> SUFFICES ASSUME w.of # 0
               PROVE  /\ dest[w.of] = c /\ w.of \in Result
                      /\ \A k \in 1..(w.piece - 1) : OnWire(c, <<w.of, k>>)
                      /\ \A i \in 1..Len(wire[c]) : wire[c][i][1] = w.of => wire[c][i][2] <= w.piece - 1
    OBVIOUS
  <2>1. SoFar(w) = w.piece - 1
    BY <1>1 DEF SoFar
  <2>2. w.of <= results /\ results \in 0..MaxResults /\ dest[w.of] = c
    BY <1>1 DEF Once, Orderly, Dests, Goes
  <2>3. w.of \in Result
    BY <1>1, <2>2, ClientsAssumption DEF Result
  <2> QED
    BY <1>1, <2>1, <2>2, <2>3 DEF Orderly, Progress
<1>13. Streams'
  <2>1. sendQ' \in [Cli -> Seq(Piece)]
    BY <1>1, <1>3, <1>5, <1>7
  <2>2. wire' \in [Cli -> Seq(Piece)]
    BY <1>1, <1>2, <1>5, <1>10
  <2> QED
    BY <2>1, <2>2 DEF Streams
<1>14. Handed'
  <2>1. Ascending(wire[c]) /\ Ascending(sendQ[c]) /\ Before(wire[c], sendQ[c]) /\ Gapless(wire[c])
    BY <1>1 DEF Orderly, Handed
  <2>2. /\ Ascending(Append(wire[c], p)) /\ Ascending(Tail(sendQ[c]))
        /\ Before(Append(wire[c], p), Tail(sendQ[c])) /\ Before(wire[c], Tail(sendQ[c]))
    <3>1. wire[c] \in Seq(Piece) /\ sendQ[c] \in Seq(Piece) /\ p = Head(sendQ[c])
      BY <1>1, <1>3, <1>5
    <3> QED
      BY <1>6, <2>1, <3>1, FirstMoves
  <2>3. Gapless(Append(wire[c], p))
    <3>1. p[1] # 0 => /\ p[2] \in 1..Pieces
                      /\ \A k \in 1..(p[2] - 1) : \E j \in 1..Len(wire[c]) : wire[c][j] = <<p[1], k>>
      BY <1>1, <1>4, <1>12 DEF OnWire
    <3>2. p[1] # 0 => \A j \in 1..Len(wire[c]) : wire[c][j] # p
      <4> SUFFICES ASSUME w.of # 0, NEW j \in 1..Len(wire[c]), wire[c][j] = p PROVE FALSE
        BY <1>4
      <4>1. w.piece <= w.piece - 1
        BY <1>4, <1>12
      <4> QED
        BY <1>1, <4>1
    <3> QED
      BY <1>1, <1>4, <1>5, <2>1, <3>1, <3>2, GaplessAppend
  <2> QED
    BY <1>9, <2>1, <2>2, <2>3 DEF Orderly, Handed
<1>15. Owned'
  <2>1. ASSUME NEW d \in Cli, NEW i \in 1..Len(wire'[d]), wire'[d][i][1] # 0
        PROVE  wire'[d][i][1] \in Result /\ dest[wire'[d][i][1]] = d
    BY <1>4, <1>11, <1>12, <2>1 DEF Orderly, Owned
  <2>2. ASSUME NEW d \in Cli, NEW i \in 1..Len(sendQ'[d]), sendQ'[d][i][1] # 0
        PROVE  sendQ'[d][i][1] \in Result /\ dest[sendQ'[d][i][1]] = d
    <3>1. \E j \in 1..Len(sendQ[d]) : sendQ'[d][i] = sendQ[d][j]
      <4>1. CASE d = c
        <5>1. sendQ'[d] = Tail(sendQ[c]) /\ i \in 1..Len(Tail(sendQ[c]))
          BY <1>1, <1>9, <4>1
        <5>2. i + 1 \in 1..Len(sendQ[d]) /\ sendQ'[d][i] = sendQ[d][i + 1]
          BY <1>7, <1>8, <4>1, <5>1
        <5> QED
          BY <5>2, Zenon
      <4>2. CASE d # c
        BY <1>9, <4>2
      <4> QED
        BY <4>1, <4>2
    <3> QED
      BY <2>2, <3>1 DEF Orderly, Owned
  <2> QED
    BY <1>1, <2>1, <2>2 DEF Owned
<1>16. Whole'
  BY <1>1, <1>11 DEF Orderly, Whole
<1>17. Waits'
  <2> SUFFICES ASSUME NEW u \in writes', u.state = "sending"
               PROVE  \E i \in 1..Len(sendQ'[u.cli]) : sendQ'[u.cli][i] = <<u.of, u.piece>>
    BY DEF Waits
  <2>1. u \in writes /\ u # w /\ u \in Write /\ u.cli \in Cli
    BY <1>2 DEF IInv, Types, Write
  <2>2. PICK i \in 1..Len(sendQ[u.cli]) : sendQ[u.cli][i] = <<u.of, u.piece>>
    BY <2>1 DEF Orderly, Waits
  <2>3. CASE u.cli # c
    BY <1>9, <2>1, <2>2, <2>3
  <2>4. CASE u.cli = c
    <3>1. u.of # w.of
      <4> SUFFICES ASSUME u.of = w.of PROVE FALSE
        OBVIOUS
      <4>1. u.of = 0 /\ u.piece = 1 /\ w.piece = 1
        BY <2>1 DEF Once, PiecesFit
      <4>2. u.cli = w.cli /\ u.of = w.of /\ u.piece = w.piece /\ u.state = w.state
        BY <1>1, <2>4, <4>1
      <4>3. u = w
        BY <1>1, <2>1, <4>2 DEF Write
      <4> QED
        BY <2>1, <4>3
    <3>2. <<u.of, u.piece>> # p
      BY <3>1 DEF p
    <3>3. i # 1
      BY <1>7, <2>2, <2>4, <3>2
    <3> QED
      <4>1. i - 1 \in 1..Len(Tail(sendQ[c])) /\ (i - 1) + 1 = i
        BY <1>8, <2>2, <2>4, <3>3
      <4>2. Tail(sendQ[c])[i - 1] = sendQ[c][i]
        BY <1>7, <4>1
      <4> QED
        BY <1>9, <2>2, <2>4, <4>1, <4>2, Zenon
  <2> QED
    BY <2>3, <2>4
<1>18. Dests'
  <2>1. ASSUME NEW u \in writes, u.of # 0 PROVE Goes(u)'
    BY <1>1, <2>1 DEF Orderly, Dests, Goes
  <2>2. after.of # 0 => Goes(after)'
    BY <1>1, <1>2, <1>12 DEF Goes
  <2> QED
    BY <1>2, <2>1, <2>2 DEF Dests
<1>19. Progress'
  <2>1. /\ after.state = "sent" => SoFar(after) = w.piece
        /\ after.state # "sent" => SoFar(after) = w.piece - 1
    BY <1>2 DEF SoFar
  <2> SUFFICES ASSUME NEW u \in writes', u.of # 0
               PROVE  /\ u.state # "failed" => \A k \in 1..SoFar(u) : OnWire(u.cli, <<u.of, k>>)'
                      /\ \A i \in 1..Len(wire'[u.cli]) :
                           wire'[u.cli][i][1] = u.of => wire'[u.cli][i][2] <= SoFar(u)
    BY DEF Progress
  <2>2. CASE u \in writes /\ u # w
    <3>1. u.cli \in Cli /\ u.of # w.of
      BY <2>2 DEF IInv, Types, Write, Once
    <3>2. /\ u.state # "failed" => \A k \in 1..SoFar(u) : OnWire(u.cli, <<u.of, k>>)
          /\ \A i \in 1..Len(wire[u.cli]) : wire[u.cli][i][1] = u.of => wire[u.cli][i][2] <= SoFar(u)
      BY <2>2 DEF Orderly, Progress
    <3> QED
      BY <1>4, <1>11, <3>1, <3>2
  <2>3. CASE u = after
    <3>1. w.of # 0 /\ u.cli = c /\ u.of = w.of
      BY <1>2, <2>3
    <3>2. u.state # "failed" => \A k \in 1..SoFar(u) : OnWire(c, <<w.of, k>>)'
      <4> SUFFICES ASSUME u.state # "failed", NEW k \in 1..SoFar(u) PROVE OnWire(c, <<w.of, k>>)'
        OBVIOUS
      <4>1. u.state = "sent" /\ k \in 1..w.piece
        BY <1>2, <2>1, <2>3
      <4>2. CASE k = w.piece
        BY <1>11, <2>3, <4>1, <4>2 DEF p
      <4>3. CASE k \in 1..(w.piece - 1)
        BY <1>1, <1>11, <1>12, <3>1, <4>3
      <4>4. k = w.piece \/ k \in 1..(w.piece - 1)
        BY <1>1, <4>1
      <4> QED
        BY <4>2, <4>3, <4>4
    <3>3. ASSUME NEW i \in 1..Len(wire'[c]), wire'[c][i][1] = w.of PROVE wire'[c][i][2] <= SoFar(u)
      <4>1. CASE i \in 1..Len(wire[c]) /\ wire'[c][i] = wire[c][i]
        <5>1. wire[c][i][2] <= w.piece - 1 /\ wire[c][i][2] \in Nat
          BY <1>1, <1>5, <1>12, <3>1, <3>3, <4>1 DEF Piece
        <5> QED
          BY <1>1, <2>1, <2>3, <4>1, <5>1
      <4>2. CASE ~(i \in 1..Len(wire[c]) /\ wire'[c][i] = wire[c][i])
        <5>1. wire'[c][i] = p /\ after.state = "sent"
          BY <1>1, <1>2, <1>9, <1>11, <4>2
        <5> QED
          BY <1>1, <1>4, <2>1, <2>3, <5>1
      <4> QED
        BY <4>1, <4>2
    <3> QED
      BY <3>1, <3>2, <3>3
  <2> QED
    BY <1>2, <2>2, <2>3
<1> QED
  BY <1>13, <1>14, <1>15, <1>16, <1>17, <1>18, <1>19 DEF Orderly

LEMMA StepOrderly ==
  IInv /\ Fresh /\ Once /\ PiecesFit /\ Younger /\ Orderly /\ [Next]_vars => Orderly'
<1> SUFFICES ASSUME IInv, Fresh, Once, PiecesFit, Younger, Orderly, [Next]_vars PROVE Orderly'
  OBVIOUS
<1>0. dest \in [Result -> 0..MaxClients] /\ Types
  BY DEF Once, IInv
<1>1. ASSUME UNCHANGED <<writes, sendQ, wire, dest, freed, cli_socket, peerGone>> PROVE Orderly'
  BY <1>1, OrderlyIdle
<1>2. ASSUME NEW w \in writes, Continue(w) PROVE Orderly'
  BY <1>2, OrderlyContinued
<1>3. ASSUME NEW w \in writes, SendHandler(w) PROVE Orderly'
  BY <1>3, OrderlyDeleted
<1>4. ASSUME NEW w \in writes, SystemSends(w) PROVE Orderly'
  BY <1>4, OrderlySent
<1>5. ASSUME NEW w \in writes, AliveWriteHandler(w) PROVE Orderly'
  <2>1. /\ w.cli \in Cli /\ writes \ {w} \in SUBSET writes /\ UNCHANGED <<wire, dest, freed, peerGone>>
        /\ \/ Close(w.cli, writes \ {w})
           \/ writes' \subseteq writes /\ UNCHANGED <<cli_socket, sendQ>>
    BY <1>0, <1>5 DEF AliveWriteHandler, Types, Write
  <2> QED
    BY <2>1, OrderlyClosed, OrderlyIdle
<1>6. ASSUME NEW c \in Cli, AliveTimeout(c) PROVE Orderly'
  <2>1. AsyncWrite(c, 0) /\ UNCHANGED <<wire, dest, freed, cli_socket, peerGone>> /\ 0 \in Nat
    BY <1>6 DEF AliveTimeout
  <2> QED
    BY <1>0, <2>1, OrderlyStarted
<1>7. ASSUME NEW c \in Cli, WaitCheckAlive(c) PROVE Orderly'
  <2>1. Close(c, writes) /\ writes \in SUBSET writes /\ UNCHANGED <<wire, dest, freed, peerGone>>
    BY <1>7 DEF WaitCheckAlive
  <2> QED
    BY <2>1, OrderlyClosed
<1>8. CASE CoreResult
  <2> DEFINE c == Head(coreQ).id  r == Head(coreQ).of
  <2>1. /\ SendResult(c, r) \/ UNCHANGED <<dest, writes, sendQ>>
        /\ UNCHANGED <<wire, freed, cli_socket, peerGone>>
    BY <1>8 DEF CoreResult
  <2>2. /\ c \in Cli /\ coreQ \in Seq(Message) /\ 1 \in ResultAt(coreQ) /\ Head(coreQ) = coreQ[1]
    <3>1. coreQ # <<>> /\ coreQ \in Seq(Message) /\ Head(coreQ).type = "WM_RESULT_DECTIVE"
      BY <1>0, <1>8 DEF CoreResult, CoreHandles, Types
    <3>2. Head(coreQ) \in Message
      BY <3>1, QueueTypes
    <3> QED
      BY <3>1, <3>2, ResultAtTail DEF Message
  <2>3. r \in 1..results /\ Untouched(r) /\ \A s \in Result : dest[s] # 0 => s < r
    BY <2>2 DEF Once, Younger
  <2>4. r \in Result /\ r \in Nat /\ r # 0
    BY <2>3, ClientsAssumption DEF Once, Result
  <2> HIDE DEF c, r
  <2>5. CASE SendResult(c, r)
    <3>1. /\ AsyncWrite(c, r)
          /\ dest' = IF r # 0 /\ cli_socket[c] = "open" THEN [dest EXCEPT ![r] = c] ELSE dest
      BY <2>4, <2>5 DEF SendResult
    <3> QED
      BY <1>0, <2>1, <2>2, <2>3, <2>4, <3>1, OrderlyStarted
  <2>6. CASE UNCHANGED <<dest, writes, sendQ>>
    BY <1>1, <2>1, <2>6
  <2> QED
    BY <2>1, <2>5, <2>6
<1>9. ASSUME NEW c \in Cli, AcceptDone(c) PROVE Orderly'
  <2>1. /\ UNCHANGED <<writes, sendQ, wire, dest, freed, peerGone>> /\ cli_socket[c] = "new"
        /\ cli_socket' = [cli_socket EXCEPT ![c] = "open"]
    BY <1>9 DEF AcceptDone, writeVars, Fresh
  <2>2. \A d \in Cli : cli_socket'[d] = cli_socket[d] \/ cli_socket[d] = "new"
    BY <1>0, <2>1 DEF Types
  <2> QED
    BY <2>1, <2>2, OrderlyIdle
<1>10. ASSUME NEW c \in Cli, Leave(c) PROVE Orderly'
  <2>1. UNCHANGED <<writes, sendQ, wire, dest, freed, cli_socket>> /\ peerGone \subseteq peerGone'
    BY <1>10 DEF Leave, writeVars
  <2> QED
    BY <2>1, OrderlyIdle
<1>11. ASSUME NEW c \in Cli, \/ AcceptHandler(c) \/ AcceptHandlerFailed(c) \/ FileReceived(c) \/ PostImage(c)
                             \/ ReadEnds(c) \/ TimerExpires(c) \/ AcceptFails(c)
                             \/ \E what \in {"file", "alive", "error"} : Arrives(c, what)
      PROVE  Orderly'
  BY <1>1, <1>11 DEF AcceptHandler, AcceptHandlerFailed, FileReceived, PostImage, ReadEnds, TimerExpires,
     AcceptFails, Arrives, writeVars
<1>12. ASSUME NEW h \in accepting, CreateClient(h) \/ Insert(h) \/ StartAccept(h) PROVE Orderly'
  BY <1>1, <1>12 DEF CreateClient, Insert, StartAccept, writeVars
<1>13. ASSUME \/ CoreImage \/ CoreDisconnect \/ CoreHandsOn \/ CoreFaults \/ RecSignals \/ Dial \/ RecLoses
              \/ (\E id \in Cli : RecResult(id)) \/ UNCHANGED vars
       PROVE  Orderly'
  BY <1>1, <1>13 DEF CoreImage, CoreDisconnect, CoreHandsOn, CoreFaults, RecSignals, Dial, RecLoses, RecResult, vars,
     writeVars
<1> QED
  BY <1>2, <1>3, <1>4, <1>5, <1>6, <1>7, <1>8, <1>9, <1>10, <1>11, <1>12, <1>13
  DEF Next, IoThreads, Core, System, Environment

LEMMA StreamsAlways == Spec => [](Fresh /\ Younger /\ Orderly)
<1>1. Init => Fresh /\ Younger /\ Orderly
  <2> SUFFICES ASSUME Init PROVE Fresh /\ Younger /\ Orderly
    OBVIOUS
  <2>1. /\ accepting = {} /\ writes = {} /\ coreQ = <<>> /\ posting = {}
        /\ \A c \in Cli : /\ wire[c] = <<>> /\ sendQ[c] = <<>> /\ cli_socket[c] = "new"
                          /\ accept[c] # "done" /\ read[c] = "none" /\ timer_[c] = "unset"
        /\ \A r \in Result : dest[r] = 0 /\ freed[r] = 0
        /\ sendQ \in [Cli -> Seq(Piece)] /\ wire \in [Cli -> Seq(Piece)]
    BY DEF Init, InitWith
  <2>2. Len(<<>>) = 0 /\ 1..0 = {}
    OBVIOUS
  <2>3. Fresh
    BY <2>1 DEF Fresh
  <2>4. Younger
    BY <2>1, <2>2 DEF Younger, ResultAt
  <2>5. Streams /\ Waits /\ Dests /\ Progress
    BY <2>1 DEF Streams, Waits, Dests, Progress
  <2>6. Handed /\ Owned
    BY <2>1, <2>2 DEF Handed, Owned, Ascending, Before, Gapless
  <2>7. Whole
    BY <2>1 DEF Whole
  <2> QED
    BY <2>3, <2>4, <2>5, <2>6, <2>7 DEF Orderly
<1> QED
  BY <1>1, StepFresh, StepYounger, StepOrderly, Inductive, ServedAlways, OnceAlways, FitsAlways, PTL
  DEF Spec, Fits

(* The results of a client are on the wire piece by piece, in the order Core  *)
(* handled them, and whole when deleted, for any number of writes under way.  *)
THEOREM WireCorrect == Spec => []WireOrdered
<1>1. Orderly => WireOrdered
  <2> SUFFICES ASSUME Orderly, NEW c \in Cli
               PROVE  /\ \A i, j \in 1..Len(wire[c]) :
                           i < j /\ StartsResult(wire[c][i]) /\ StartsResult(wire[c][j])
                             => wire[c][i][1] < wire[c][j][1]
                      /\ \A i \in 1..Len(wire[c]) : wire[c][i][1] # 0 =>
                           /\ dest[wire[c][i][1]] = c /\ wire[c][i][2] \in 1..Pieces
                           /\ \A k \in 1..(wire[c][i][2] - 1) :
                                \E j \in 1..(i - 1) : wire[c][j] = <<wire[c][i][1], k>>
                           /\ \A j \in 1..(i - 1) : wire[c][j] # wire[c][i]
                      /\ \A r \in Result :
                           dest[r] = c /\ freed[r] > 0 /\ cli_socket[c] = "open" /\ c \notin peerGone =>
                             \A k \in 1..Pieces : OnWire(c, <<r, k>>)
    BY Zenon DEF WireOrdered
  <2>1. Ascending(wire[c]) /\ Gapless(wire[c])
    BY DEF Orderly, Handed
  <2>2. \A i \in 1..Len(wire[c]) : wire[c][i][1] # 0 => dest[wire[c][i][1]] = c
    BY DEF Orderly, Owned
  <2>3. \A r \in Result :
          dest[r] = c /\ freed[r] > 0 /\ cli_socket[c] = "open" /\ c \notin peerGone =>
            \A k \in 1..Pieces : OnWire(c, <<r, k>>)
    BY DEF Orderly, Whole
  <2> QED
    BY <2>1, <2>2, <2>3, Zenon DEF Ascending, Gapless
<1> QED
  BY <1>1, StreamsAlways, PTL
-------------------------------------------------------------------------------
(* All connections implement ResultStream.                                     *)

(* What is handed to the system is handed over on an open socket. *)
Flowing == \A c \in Cli : sendQ[c] # <<>> => cli_socket[c] = "open"

LEMMA FlowingIdle ==
  ASSUME Flowing, UNCHANGED sendQ,
         \A c \in Cli : cli_socket'[c] = cli_socket[c] \/ cli_socket[c] = "new"
  PROVE  Flowing'
<1> SUFFICES ASSUME NEW c \in Cli, sendQ'[c] # <<>> PROVE cli_socket'[c] = "open"
  BY DEF Flowing
<1>1. cli_socket[c] = "open"
  BY DEF Flowing
<1> QED
  BY <1>1

LEMMA FlowingClosed ==
  ASSUME IInv, Orderly, Flowing, NEW c \in Cli, NEW ws, Close(c, ws)
  PROVE  Flowing'
<1>1. /\ sendQ' = [sendQ EXCEPT ![c] = <<>>] /\ cli_socket' = [cli_socket EXCEPT ![c] = "closed"]
      /\ sendQ \in [Cli -> Seq(Piece)] /\ cli_socket \in [Cli -> {"new", "open", "closed"}]
  BY DEF Close, Orderly, Streams, IInv, Types
<1>2. sendQ'[c] = <<>>
  BY <1>1
<1>3. \A d \in Cli : d # c => sendQ'[d] = sendQ[d] /\ cli_socket'[d] = cli_socket[d]
  BY <1>1
<1> QED
  BY <1>2, <1>3 DEF Flowing

(* A piece is appended to the queue of an open socket. *)
LEMMA FlowingHanded ==
  ASSUME Orderly, Flowing, NEW c \in Cli, NEW q, cli_socket[c] = "open",
         sendQ' = [sendQ EXCEPT ![c] = q], UNCHANGED cli_socket
  PROVE  Flowing'
<1>1. sendQ \in [Cli -> Seq(Piece)]
  BY DEF Orderly, Streams
<1>2. \A d \in Cli : d # c => sendQ'[d] = sendQ[d]
  BY <1>1
<1> QED
  BY <1>2 DEF Flowing

LEMMA FlowingStarted ==
  ASSUME Orderly, Flowing, NEW c \in Cli, NEW of, AsyncWrite(c, of), UNCHANGED cli_socket
  PROVE  Flowing'
<1>1. CASE cli_socket[c] = "open"
  BY <1>1, FlowingHanded DEF AsyncWrite
<1>2. CASE cli_socket[c] # "open"
  BY <1>2, FlowingIdle DEF AsyncWrite
<1> QED
  BY <1>1, <1>2

LEMMA StepFlowing == IInv /\ Fresh /\ Orderly /\ Flowing /\ [Next]_vars => Flowing'
<1> SUFFICES ASSUME IInv, Fresh, Orderly, Flowing, [Next]_vars PROVE Flowing'
  OBVIOUS
<1>0. \A w \in writes : w.cli \in Cli
  BY DEF IInv, Types, Write
<1>1. ASSUME UNCHANGED <<sendQ, cli_socket>> PROVE Flowing'
  BY <1>1, FlowingIdle
<1>2. ASSUME NEW w \in writes, Continue(w) PROVE Flowing'
  <2>1. UNCHANGED cli_socket
    BY <1>2 DEF Continue
  <2>2. CASE cli_socket[w.cli] = "open"
    <3>1. \E q : sendQ' = [sendQ EXCEPT ![w.cli] = q]
      BY <1>2, <2>2 DEF Continue
    <3> QED
      BY <1>0, <2>1, <2>2, <3>1, FlowingHanded
  <2>3. CASE cli_socket[w.cli] # "open"
    BY <1>1, <1>2, <2>1, <2>3 DEF Continue
  <2> QED
    BY <2>2, <2>3
<1>3. ASSUME NEW w \in writes, SystemSends(w) PROVE Flowing'
  <2>1. /\ UNCHANGED cli_socket /\ sendQ' = [sendQ EXCEPT ![w.cli] = Tail(@)] /\ w.state = "sending"
    BY <1>3 DEF SystemSends
  <2>2. sendQ[w.cli] # <<>>
    <3>1. PICK i \in 1..Len(sendQ[w.cli]) : TRUE
      BY <2>1 DEF Orderly, Waits
    <3>2. Len(<<>>) = 0 /\ 1..0 = {}
      OBVIOUS
    <3> QED
      BY <3>1, <3>2
  <2>3. cli_socket[w.cli] = "open"
    BY <1>0, <2>2 DEF Flowing
  <2>4. sendQ' = [sendQ EXCEPT ![w.cli] = Tail(sendQ[w.cli])]
    BY <2>1
  <2> QED
    BY <1>0, <2>1, <2>3, <2>4, FlowingHanded
<1>4. ASSUME NEW w \in writes, SendHandler(w) PROVE Flowing'
  BY <1>1, <1>4 DEF SendHandler
<1>5. ASSUME NEW w \in writes, AliveWriteHandler(w) PROVE Flowing'
  <2>1. Close(w.cli, writes \ {w}) \/ UNCHANGED <<cli_socket, sendQ>>
    BY <1>5 DEF AliveWriteHandler
  <2> QED
    BY <1>0, <1>1, <2>1, FlowingClosed
<1>6. ASSUME NEW c \in Cli, AliveTimeout(c) PROVE Flowing'
  BY <1>6, FlowingStarted DEF AliveTimeout
<1>7. ASSUME NEW c \in Cli, WaitCheckAlive(c) PROVE Flowing'
  BY <1>7, FlowingClosed DEF WaitCheckAlive
<1>8. CASE CoreResult
  <2> DEFINE c == Head(coreQ).id  r == Head(coreQ).of
  <2>1. (SendResult(c, r) \/ UNCHANGED sendQ) /\ UNCHANGED cli_socket
    BY <1>8 DEF CoreResult
  <2>2. c \in Cli
    <3>1. coreQ # <<>> /\ coreQ \in Seq(Message) /\ Head(coreQ).type = "WM_RESULT_DECTIVE"
      BY <1>8 DEF CoreResult, CoreHandles, IInv, Types
    <3>2. Head(coreQ) \in Message
      BY <3>1, QueueTypes
    <3> QED
      BY <3>1, <3>2 DEF Message
  <2> HIDE DEF c, r
  <2> QED
    BY <1>1, <2>1, <2>2, FlowingStarted DEF SendResult
<1>9. ASSUME NEW c \in Cli, AcceptDone(c) PROVE Flowing'
  <2>1. /\ UNCHANGED sendQ /\ cli_socket[c] = "new" /\ cli_socket' = [cli_socket EXCEPT ![c] = "open"]
    BY <1>9 DEF AcceptDone, writeVars, Fresh
  <2>2. \A d \in Cli : cli_socket'[d] = cli_socket[d] \/ cli_socket[d] = "new"
    BY <2>1 DEF IInv, Types
  <2> QED
    BY <2>1, <2>2, FlowingIdle
<1>10. ASSUME NEW c \in Cli, \/ AcceptHandler(c) \/ AcceptHandlerFailed(c) \/ FileReceived(c) \/ PostImage(c)
                             \/ ReadEnds(c) \/ TimerExpires(c) \/ AcceptFails(c) \/ Leave(c)
                             \/ \E what \in {"file", "alive", "error"} : Arrives(c, what)
      PROVE  Flowing'
  BY <1>1, <1>10 DEF AcceptHandler, AcceptHandlerFailed, FileReceived, PostImage, ReadEnds, TimerExpires,
     AcceptFails, Leave, Arrives, writeVars
<1>11. ASSUME NEW h \in accepting, CreateClient(h) \/ Insert(h) \/ StartAccept(h) PROVE Flowing'
  BY <1>1, <1>11 DEF CreateClient, Insert, StartAccept, writeVars
<1>12. ASSUME \/ CoreImage \/ CoreDisconnect \/ CoreHandsOn \/ CoreFaults \/ RecSignals \/ Dial \/ RecLoses
              \/ (\E id \in Cli : RecResult(id)) \/ UNCHANGED vars
       PROVE  Flowing'
  BY <1>1, <1>12 DEF CoreImage, CoreDisconnect, CoreHandsOn, CoreFaults, RecSignals, Dial, RecLoses, RecResult, vars,
     writeVars
<1> QED
  BY <1>2, <1>3, <1>4, <1>5, <1>6, <1>7, <1>8, <1>9, <1>10, <1>11, <1>12
  DEF Next, IoThreads, Core, System, Environment

(* Nothing sent, given or deleted: a connection breaks at most. *)
LEMMA StreamIdle ==
  ASSUME UNCHANGED <<dest, wire, freed>>, Down' = Down \/ \E c \in Cli : Down' = Down \union {c}
  PROVE  [Stream!Next]_(Stream!vars)
<1>1. CASE Down' = Down
  BY <1>1, Zenon DEF Stream!vars
<1>2. ASSUME NEW c \in Cli, c \notin Down, Down' = Down \union {c}
      PROVE  [Stream!Next]_(Stream!vars)
  BY <1>2, Zenon DEF Stream!Next, Stream!Break
<1>3. ASSUME NEW c \in Cli, c \in Down, Down' = Down \union {c}
      PROVE  Down' = Down
  BY <1>3
<1> QED
  BY <1>1, <1>2, <1>3

(* Core gives a result to an open connection, later ones have not been given. *)
LEMMA StreamGiven ==
  ASSUME IInv, Once, Younger, CoreResult
  PROVE  [Stream!Next]_(Stream!vars)
<1> DEFINE c == Head(coreQ).id  r == Head(coreQ).of
<1>1. /\ UNCHANGED <<wire, freed, cli_socket, peerGone>>
      /\ dest' = dest \/ dest' = [dest EXCEPT ![r] = c]
  BY DEF CoreResult, SendResult
<1>2. Down' = Down
  BY <1>1 DEF Down
<1>3. /\ c \in Cli /\ 1 \in ResultAt(coreQ) /\ Head(coreQ) = coreQ[1]
  <2>1. coreQ # <<>> /\ coreQ \in Seq(Message) /\ Head(coreQ).type = "WM_RESULT_DECTIVE"
    BY DEF CoreResult, CoreHandles, IInv, Types
  <2>2. Head(coreQ) \in Message
    BY <2>1, QueueTypes
  <2> QED
    BY <2>1, <2>2, ResultAtTail DEF Message
<1>4. r \in 1..results /\ freed[r] = 0 /\ \A s \in Result : dest[s] # 0 => s < r
  BY <1>3 DEF Once, Younger, Untouched
<1>5. r \in Result
  BY <1>4, ClientsAssumption DEF Once, Result
<1> HIDE DEF c, r
<1>6. CASE dest' = [dest EXCEPT ![r] = c]
  <2>1. Stream!Give(r, c)
    BY <1>1, <1>2, <1>4, <1>6, Zenon DEF Stream!Give
  <2> QED
    BY <1>3, <1>5, <2>1, Zenon DEF Stream!Next
<1>7. CASE dest' = dest
  BY <1>1, <1>2, <1>7, StreamIdle
<1> QED
  BY <1>1, <1>6, <1>7

(* The system sends the next piece of a result, or IS_ALIVE. *)
LEMMA StreamSent ==
  ASSUME IInv, Once, Orderly, PiecesFit, Flowing, NEW w \in writes, SystemSends(w)
  PROVE  [Stream!Next]_(Stream!vars)
<1> DEFINE c == w.cli  r == w.of  k == w.piece  p == <<w.of, w.piece>>
<1>1. /\ c \in Cli /\ r \in Nat /\ k \in 1..Pieces /\ w.state = "sending"
      /\ UNCHANGED <<dest, freed, cli_socket, peerGone>>
      /\ wire' = wire \/ (c \notin peerGone /\ wire' = [wire EXCEPT ![c] = Append(@, p)])
  BY DEF SystemSends, PiecesFit, IInv, Types, Write
<1>2. Down' = Down
  BY <1>1 DEF Down
<1>3. sendQ[c] \in Seq(Piece) /\ wire[c] \in Seq(Piece)
  BY <1>1 DEF Orderly, Streams
<1>4. sendQ[c] # <<>> /\ Head(sendQ[c]) = p
  <2>1. PICK i \in 1..Len(sendQ[c]) : TRUE
    BY <1>1 DEF Orderly, Waits
  <2>2. Len(<<>>) = 0 /\ 1..0 = {}
    OBVIOUS
  <2>3. sendQ[c] # <<>>
    BY <2>1, <2>2
  <2> QED
    BY <2>3 DEF SystemSends
<1>5. 1 \in 1..Len(sendQ[c]) /\ sendQ[c][1] = p
  BY <1>3, <1>4
<1>6. cli_socket[c] = "open"
  BY <1>1, <1>4 DEF Flowing
<1>7. CASE wire' = wire
  BY <1>1, <1>2, <1>7, StreamIdle
<1>8. CASE c \notin peerGone /\ wire' = [wire EXCEPT ![c] = Append(@, p)]
  <2>1. c \notin Down
    BY <1>6, <1>8 DEF Down
  <2>2. Stream!Put(c, p)
    BY <1>1, <1>2, <1>8, <2>1, Zenon DEF Stream!Put
  <2>3. CASE r = 0
    <3>1. p = <<0, 1>>
      BY <2>3 DEF PiecesFit
    <3>2. Stream!SendOther(c)
      BY <2>2, <3>1, Zenon DEF Stream!SendOther
    <3> QED
      BY <1>1, <3>2, Zenon DEF Stream!Next
  <2>4. CASE r # 0
    <3>1. r \in Result /\ freed[r] = 0
      BY <1>1, <2>4, ClientsAssumption DEF Once, Result
    <3>2. dest[r] = c
      BY <1>1, <2>4 DEF Orderly, Dests, Goes
    <3>3. \A h \in 1..(k - 1) : OnWire(c, <<r, h>>)
      BY <1>1, <2>4 DEF Orderly, Progress, SoFar
    <3>4. ~OnWire(c, <<r, k>>)
      <4> SUFFICES ASSUME NEW i \in 1..Len(wire[c]), wire[c][i] = <<r, k>> PROVE FALSE
        BY DEF OnWire
      <4>1. wire[c][i][1] = r /\ wire[c][i][2] = k
        OBVIOUS
      <4>2. k <= k - 1
        BY <1>1, <2>4, <4>1 DEF Orderly, Progress, SoFar
      <4> QED
        BY <1>1, <4>2, ClientsAssumption
    <3>5. ASSUME k = 1, NEW i \in 1..Len(wire[c]) PROVE wire[c][i][1] < r
      <4>1. StartsResult(p)
        BY <2>4, <3>5 DEF StartsResult
      <4>2. ASSUME NEW j \in 1..Len(wire[c]), StartsResult(wire[c][j]) PROVE wire[c][j][1] < r
        <5>1. wire[c][j][1] < sendQ[c][1][1]
          BY <1>1, <1>5, <4>1, <4>2 DEF Orderly, Handed, Before
        <5> QED
          BY <1>5, <5>1
      <4>3. wire[c][i] \in Piece /\ wire[c][i][1] \in Nat
        BY <1>3 DEF Piece
      <4>4. CASE wire[c][i][1] = 0
        BY <1>1, <2>4, <4>4
      <4>5. CASE wire[c][i][1] # 0 /\ wire[c][i][2] = 1
        BY <4>2, <4>5 DEF StartsResult
      <4>6. CASE wire[c][i][1] # 0 /\ wire[c][i][2] # 1
        <5>1. /\ wire[c][i][2] \in 1..Pieces
              /\ \A h \in 1..(wire[c][i][2] - 1) : \E j \in 1..(i - 1) : wire[c][j] = <<wire[c][i][1], h>>
          BY <1>1, <4>6 DEF Orderly, Handed, Gapless
        <5>2. 1 \in 1..(wire[c][i][2] - 1)
          BY <4>6, <5>1, ClientsAssumption
        <5>3. PICK j \in 1..(i - 1) : wire[c][j] = <<wire[c][i][1], 1>>
          BY <5>1, <5>2
        <5>4. j \in 1..Len(wire[c])
          BY <1>3
        <5>5. wire[c][j][1] = wire[c][i][1] /\ StartsResult(wire[c][j])
          BY <4>6, <5>3 DEF StartsResult
        <5> QED
          BY <4>2, <5>4, <5>5
      <4> QED
        BY <4>4, <4>5, <4>6
    <3> HIDE DEF c, r, k, p
    <3>6. p = <<r, k>>
      BY DEF p, r, k
    <3>7. Stream!SendPiece(r, k, c)
      BY <2>2, <3>1, <3>2, <3>3, <3>4, <3>5, <3>6, Zenon DEF Stream!SendPiece, Stream!Sent, OnWire
    <3> QED
      BY <1>1, <3>1, <3>7, Zenon DEF Stream!Next
  <2> QED
    BY <2>3, <2>4
<1> QED
  BY <1>1, <1>7, <1>8

(* send_handler deletes the array of a result that is sent, or can not be. *)
LEMMA StreamDeleted ==
  ASSUME IInv, Once, Orderly, PiecesFit, NEW w \in writes, SendHandler(w)
  PROVE  [Stream!Next]_(Stream!vars)
<1> DEFINE r == w.of
<1>1. /\ w.cli \in Cli /\ r \in Nat /\ r # 0 /\ Complete(w)
      /\ freed' = [freed EXCEPT ![r] = @ + 1] /\ UNCHANGED <<wire, dest, cli_socket, peerGone>>
  BY DEF SendHandler, IInv, Types, Write
<1>2. r \in Result /\ freed[r] = 0 /\ freed \in [Result -> {0, 1}]
  BY <1>1, ClientsAssumption DEF Once, Result
<1>3. freed' = [freed EXCEPT ![r] = 1]
  BY <1>1, <1>2
<1>4. Down' = Down
  BY <1>1 DEF Down
<1>5. ASSUME dest[r] \in Cli \ Down PROVE \A k \in 1..Pieces : OnWire(dest[r], <<r, k>>)
  <2>1. dest[r] = w.cli /\ w.state # "failed"
    BY <1>1, <1>5 DEF Orderly, Dests, Goes, Cli, Down
  <2>2. w.state = "sent" /\ w.piece = Pieces
    BY <1>1, <2>1 DEF Complete, Last
  <2> QED
    BY <1>1, <2>1, <2>2 DEF Orderly, Progress, SoFar
<1> HIDE DEF r
<1>6. Stream!Delete(r)
  BY <1>1, <1>2, <1>3, <1>4, <1>5, Zenon DEF Stream!Delete, Stream!Sent, OnWire
<1> QED
  BY <1>2, <1>6, Zenon DEF Stream!Next

LEMMA StepStream ==
  IInv /\ Fresh /\ Once /\ PiecesFit /\ Younger /\ Orderly /\ Flowing /\ [Next]_vars
    => [Stream!Next]_(Stream!vars)
<1> SUFFICES ASSUME IInv, Fresh, Once, PiecesFit, Younger, Orderly, Flowing, [Next]_vars
             PROVE  [Stream!Next]_(Stream!vars)
  OBVIOUS
<1>0. /\ \A w \in writes : w.cli \in Cli
      /\ cli_socket \in [Cli -> {"new", "open", "closed"}]
  BY DEF IInv, Types, Write
<1>1. ASSUME UNCHANGED <<dest, wire, freed, cli_socket, peerGone>> PROVE [Stream!Next]_(Stream!vars)
  <2>1. Down' = Down
    BY <1>1 DEF Down
  <2> QED
    BY <1>1, <2>1, StreamIdle
<1>2. ASSUME NEW c \in Cli, cli_socket' = [cli_socket EXCEPT ![c] = "closed"],
             UNCHANGED <<dest, wire, freed, peerGone>>
      PROVE  [Stream!Next]_(Stream!vars)
  <2>1. Down' = Down \union {c}
    BY <1>0, <1>2 DEF Down
  <2> QED
    BY <1>2, <2>1, StreamIdle
<1>3. ASSUME NEW w \in writes, SystemSends(w) PROVE [Stream!Next]_(Stream!vars)
  BY <1>3, StreamSent
<1>4. ASSUME NEW w \in writes, SendHandler(w) PROVE [Stream!Next]_(Stream!vars)
  BY <1>4, StreamDeleted
<1>5. ASSUME NEW w \in writes, AliveWriteHandler(w) PROVE [Stream!Next]_(Stream!vars)
  <2>1. \/ cli_socket' = [cli_socket EXCEPT ![w.cli] = "closed"]
        \/ UNCHANGED cli_socket
    BY <1>5 DEF AliveWriteHandler, Close
  <2>2. UNCHANGED <<dest, wire, freed, peerGone>>
    BY <1>5 DEF AliveWriteHandler
  <2> QED
    BY <1>0, <1>1, <1>2, <2>1, <2>2
<1>6. ASSUME NEW c \in Cli, WaitCheckAlive(c) PROVE [Stream!Next]_(Stream!vars)
  BY <1>2, <1>6 DEF WaitCheckAlive, Close
<1>7. CASE CoreResult
  BY <1>7, StreamGiven
<1>8. ASSUME NEW c \in Cli, AcceptDone(c) PROVE [Stream!Next]_(Stream!vars)
  <2>1. /\ UNCHANGED <<dest, wire, freed, peerGone>> /\ cli_socket[c] = "new"
        /\ cli_socket' = [cli_socket EXCEPT ![c] = "open"]
    BY <1>8 DEF AcceptDone, writeVars, Fresh
  <2>2. \A d \in Cli : cli_socket'[d] = "closed" <=> cli_socket[d] = "closed"
    BY <1>0, <2>1
  <2>3. Down' = Down
    BY <2>1, <2>2 DEF Down
  <2> QED
    BY <2>1, <2>3, StreamIdle
<1>9. ASSUME NEW c \in Cli, Leave(c) PROVE [Stream!Next]_(Stream!vars)
  <2>1. UNCHANGED <<dest, wire, freed, cli_socket>> /\ peerGone' = peerGone \union {c}
    BY <1>9 DEF Leave, writeVars
  <2>2. Down' = Down \union {c}
    BY <2>1 DEF Down
  <2> QED
    BY <2>1, <2>2, StreamIdle
<1>10. ASSUME NEW c \in Cli, \/ AcceptHandler(c) \/ AcceptHandlerFailed(c) \/ FileReceived(c) \/ PostImage(c)
                             \/ ReadEnds(c) \/ TimerExpires(c) \/ AcceptFails(c)
                             \/ \E what \in {"file", "alive", "error"} : Arrives(c, what)
      PROVE  [Stream!Next]_(Stream!vars)
  BY <1>1, <1>10 DEF AcceptHandler, AcceptHandlerFailed, FileReceived, PostImage, ReadEnds, TimerExpires,
     AcceptFails, Arrives, writeVars
<1>11. ASSUME NEW c \in Cli, AliveTimeout(c) PROVE [Stream!Next]_(Stream!vars)
  BY <1>1, <1>11 DEF AliveTimeout
<1>12. ASSUME NEW h \in accepting, CreateClient(h) \/ Insert(h) \/ StartAccept(h)
       PROVE  [Stream!Next]_(Stream!vars)
  BY <1>1, <1>12 DEF CreateClient, Insert, StartAccept, writeVars
<1>13. ASSUME NEW w \in writes, Continue(w) PROVE [Stream!Next]_(Stream!vars)
  BY <1>1, <1>13 DEF Continue
<1>14. ASSUME \/ CoreImage \/ CoreDisconnect \/ CoreHandsOn \/ CoreFaults \/ RecSignals \/ Dial \/ RecLoses
              \/ (\E id \in Cli : RecResult(id)) \/ UNCHANGED vars
       PROVE  [Stream!Next]_(Stream!vars)
  BY <1>1, <1>14 DEF CoreImage, CoreDisconnect, CoreHandsOn, CoreFaults, RecSignals, Dial, RecLoses, RecResult, vars,
     writeVars
<1> QED
  BY <1>3, <1>4, <1>5, <1>6, <1>7, <1>8, <1>9, <1>10, <1>11, <1>12, <1>13, <1>14
  DEF Next, IoThreads, Core, System, Environment

(* Client.cpp:260: for any number of connections, threads and writes under    *)
(* way, the results given to connections are sent as ResultStream promises,   *)
(* each piece by piece and in order on an open connection, its array deleted  *)
(* once, when it is sent in whole or its connection is down.                  *)
THEOREM StreamImplemented == Spec => StreamSpec
<1>1. Init => Stream!Init /\ Flowing
  <2> SUFFICES ASSUME Init PROVE Stream!Init /\ Flowing
    OBVIOUS
  <2>1. /\ dest = [r \in Result |-> 0] /\ wire = [c \in Cli |-> <<>>] /\ freed = [r \in Result |-> 0]
        /\ peerGone = {} /\ \A c \in Cli : cli_socket[c] = "new" /\ sendQ[c] = <<>>
    BY DEF Init, InitWith
  <2>2. Down = {}
    BY <2>1 DEF Down
  <2> QED
    BY <2>1, <2>2 DEF Stream!Init, Flowing
<1>2. Spec => []Flowing
  BY <1>1, StepFlowing, Inductive, StreamsAlways, PTL DEF Spec
<1>3. Spec => Stream!Init /\ [][Stream!Next]_(Stream!vars)
  BY <1>1, <1>2, StepStream, Inductive, OnceAlways, FitsAlways, StreamsAlways, PTL DEF Spec, Fits
<1> QED
  BY <1>3, PTL DEF StreamSpec, Stream!Spec
=============================================================================
