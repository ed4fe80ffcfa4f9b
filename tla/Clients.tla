------------------------------ MODULE Clients ------------------------------
(***************************************************************************)
(* The connections of the server: the accept loop, client_map, the threads *)
(* of the io_service that run the handlers of all connections, and         *)
(* Server::Core, which looks clients up in client_map and starts the       *)
(* writes of their results.                                                *)
(*                                                                         *)
(* A handler runs when its operation has completed and a thread is free.   *)
(* The handlers that can keep a thread have a state of their own:          *)
(* accept_handler, until the next accept is started, and recv_file_handler,*)
(* which posts WM_IMAGE until it succeeds.  All others are one step.       *)
(* A file is one completed read here (ClientSession has the frames), the   *)
(* recognition process takes an image and signals (Pipeline has the path). *)
(***************************************************************************)
EXTENDS Naturals, FiniteSets, Sequences

CONSTANTS MaxClients,     \* bound: Clients made; the last one is not dialled
          async_run_num,  \* threads of the io_service
          QueueLimit,     \* messages the queue of Core holds
          Pieces,         \* pieces a result is sent in
          MaxResults,     \* bound: results of the recognition process
          Load            \* bounds that go together: [dials, files, alives, results, faults]

ASSUME ClientsAssumption ==
    /\ MaxClients \in Nat \ {0} /\ async_run_num \in Nat \ {0} /\ QueueLimit \in Nat \ {0}
    /\ Pieces \in Nat \ {0} /\ MaxResults \in Nat
    /\ \A l \in Load : /\ l.dials \in 0..(MaxClients - 1) /\ l.results \in 0..MaxResults
                       /\ l.files \in Nat /\ l.alives \in Nat /\ l.faults \in Nat

VARIABLES
  load,               \* the bounds of this behaviour
  up,                 \* FALSE after an exception
  client_id,          \* Clients made so far
  client_map,         \* ids that have been inserted
  accept,             \* [Cli -> state of the async_accept into cli_socket]
  accepting,          \* accept_handlers that run: [cli, at, new]
  faults,
  dialled,            \* connections clients have asked for
  cli_socket,         \* "new", "open", "closed"
  peerGone,           \* clients that have left
  read,               \* [Cli -> the read of a connection, or what it has brought]
  files, alives,      \* files and ALIVEs received
  posting, handed,    \* connections whose handler posts WM_IMAGE; how many are posted
  timer_,             \* "unset", "set", "expired", "again", "done"
  coreQ, coreWaits,   \* queue of Core; it waits for file_mapping_op_finish
  event,              \* "set", "reset", "lost": nobody will signal it
  results,            \* results the recognition process has posted or dropped
  dest, freed,        \* of result r: the open socket it is written to; how often its array was deleted
  writes,             \* async_writes: [cli, of, piece, state]; of = 0: IS_ALIVE
  sendQ, wire         \* pieces handed to the system; pieces sent

acceptVars == <<client_id, client_map, accept, accepting, faults, dialled>>
readVars == <<read, files, alives, posting, handed>>
coreVars == <<coreQ, coreWaits, event>>
writeVars == <<writes, sendQ, wire, freed>>
vars == <<load, up, acceptVars, cli_socket, peerGone, readVars, timer_, coreVars, results, dest, writeVars>>

Cli == 1..MaxClients
Result == 1..MaxResults
Msg(type, id, of, by) == [type |-> type, id |-> id, of |-> of, by |-> by]
HasRoom == up /\ Len(coreQ) < QueueLimit
FreeThread == up /\ Cardinality(posting) + Cardinality(accepting) < async_run_num
Fault == faults < load.faults /\ faults' = faults + 1

\* What init leaves: one Client, inserted, and an accept into its socket.
InitWith(n) ==
  /\ load \in Load /\ up = TRUE /\ client_id = n /\ client_map = 1..n /\ accepting = {} /\ faults = 0 /\ dialled = 0
  /\ accept = [c \in Cli |-> IF c <= n THEN "pending" ELSE "none"]
  /\ cli_socket = [c \in Cli |-> "new"] /\ peerGone = {}
  /\ read = [c \in Cli |-> "none"] /\ files = 0 /\ alives = 0 /\ posting = {} /\ handed = 0
  /\ timer_ = [c \in Cli |-> "unset"]
  /\ coreQ = <<>> /\ coreWaits = FALSE /\ event = "set" /\ results = 0
  /\ dest = [r \in Result |-> 0] /\ freed = [r \in Result |-> 0]
  /\ writes = {} /\ sendQ = [c \in Cli |-> <<>>] /\ wire = [c \in Cli |-> <<>>]

\* Variant: DEFAULT_ASYNC_ACCEPT is two.
InitTwo == InitWith(2)

Init == InitWith(1)

------------------------------------------------------------------------------
(* Clients and their network *)

Dial ==
  /\ dialled < load.dials /\ dialled' = dialled + 1
  /\ UNCHANGED <<load, up, client_id, client_map, accept, accepting, faults, cli_socket, peerGone,
                 readVars, timer_, coreVars, results, dest, writeVars>>

Accepted == Cardinality({c \in Cli : cli_socket[c] # "new"})

AcceptDone(c) ==
  /\ accept[c] = "pending" /\ Accepted < dialled
  /\ accept' = [accept EXCEPT ![c] = "done"] /\ cli_socket' = [cli_socket EXCEPT ![c] = "open"]
  /\ UNCHANGED <<load, up, client_id, client_map, accepting, faults, dialled, peerGone,
                 readVars, timer_, coreVars, results, dest, writeVars>>

AcceptFails(c) ==
  /\ accept[c] = "pending" /\ Fault /\ accept' = [accept EXCEPT ![c] = "failed"]
  /\ UNCHANGED <<load, up, client_id, client_map, accepting, dialled, cli_socket, peerGone,
                 readVars, timer_, coreVars, results, dest, writeVars>>

Leave(c) ==
  /\ cli_socket[c] # "new" /\ c \notin peerGone /\ peerGone' = peerGone \union {c}
  /\ UNCHANGED <<load, up, acceptVars, cli_socket, readVars, timer_, coreVars, results, dest, writeVars>>

\* A file has arrived, or ALIVE, or the end of the connection.
Arrives(c, what) ==
  /\ read[c] = "posted" /\ (what = "error") = (c \in peerGone)
  /\ what = "file" => files < load.files
  /\ what = "alive" => alives < load.alives
  /\ read' = [read EXCEPT ![c] = what]
  /\ files' = files + (IF what = "file" THEN 1 ELSE 0)
  /\ alives' = alives + (IF what = "alive" THEN 1 ELSE 0)
  /\ UNCHANGED <<load, up, acceptVars, cli_socket, peerGone, posting, handed, timer_, coreVars,
                 results, dest, writeVars>>

TimerExpires(c) ==
  /\ timer_[c] = "set" /\ timer_' = [timer_ EXCEPT ![c] = "expired"]
  /\ UNCHANGED <<load, up, acceptVars, cli_socket, peerGone, readVars, coreVars, results, dest, writeVars>>

------------------------------------------------------------------------------
(* Writing to a socket.  async_write hands over the first piece at once and  *)
(* each further one when the piece before is sent, from a thread of the      *)
(* io_service; the system sends what it was handed in that order.            *)

Last(w) == w.piece = IF w.of = 0 THEN 1 ELSE Pieces

AsyncWrite(c, of) ==
  IF cli_socket[c] = "open"
  THEN /\ writes' = writes \union {[cli |-> c, of |-> of, piece |-> 1, state |-> "sending"]}
       /\ sendQ' = [sendQ EXCEPT ![c] = Append(@, <<of, 1>>)]
  ELSE /\ writes' = writes \union {[cli |-> c, of |-> of, piece |-> 1, state |-> "failed"]}
       /\ UNCHANGED sendQ

SystemSends(w) ==
  /\ up /\ w.state = "sending" /\ Head(sendQ[w.cli]) = <<w.of, w.piece>>
  /\ sendQ' = [sendQ EXCEPT ![w.cli] = Tail(@)]
  /\ \/ /\ w.cli \notin peerGone
        /\ wire' = [wire EXCEPT ![w.cli] = Append(@, <<w.of, w.piece>>)]
        /\ writes' = (writes \ {w}) \union {[w EXCEPT !.state = "sent"]}
     \/ /\ w.cli \in peerGone /\ UNCHANGED wire
        /\ writes' = (writes \ {w}) \union {[w EXCEPT !.state = "failed"]}
  /\ UNCHANGED <<load, up, acceptVars, cli_socket, peerGone, readVars, timer_, coreVars, results, dest,
                 freed>>

\* The next piece of a write.
Continue(w) ==
  /\ FreeThread /\ w.state = "sent" /\ ~Last(w)
  /\ LET next == [w EXCEPT !.piece = @ + 1]
     IN  IF cli_socket[w.cli] = "open"
         THEN /\ sendQ' = [sendQ EXCEPT ![w.cli] = Append(@, <<w.of, next.piece>>)]
              /\ writes' = (writes \ {w}) \union {[next EXCEPT !.state = "sending"]}
         ELSE /\ writes' = (writes \ {w}) \union {[next EXCEPT !.state = "failed"]}
              /\ UNCHANGED sendQ
  /\ UNCHANGED <<load, up, acceptVars, cli_socket, peerGone, readVars, timer_, coreVars, results, dest,
                 wire, freed>>

Complete(w) == w.state = "failed" \/ (w.state = "sent" /\ Last(w))

\* Variant: async_write_some, which completes when a piece is sent.
SendHandlerSome(w) ==
  /\ FreeThread /\ w.of # 0 /\ w.state \in {"failed", "sent"}
  /\ writes' = writes \ {w} /\ freed' = [freed EXCEPT ![w.of] = @ + 1]
  /\ UNCHANGED <<load, up, acceptVars, cli_socket, peerGone, readVars, timer_, coreVars, results, dest,
                 sendQ, wire>>

\* send_handler deletes the array of the result.
SendHandler(w) ==
  /\ FreeThread /\ w.of # 0 /\ Complete(w)
  /\ writes' = writes \ {w} /\ freed' = [freed EXCEPT ![w.of] = @ + 1]
  /\ UNCHANGED <<load, up, acceptVars, cli_socket, peerGone, readVars, timer_, coreVars, results, dest,
                 sendQ, wire>>

\* cli_socket.close() fails the writes of ws on it.
Close(c, ws) ==
  /\ cli_socket' = [cli_socket EXCEPT ![c] = "closed"] /\ sendQ' = [sendQ EXCEPT ![c] = <<>>]
  /\ writes' = {IF w.cli = c /\ w.state = "sending" THEN [w EXCEPT !.state = "failed"] ELSE w : w \in ws}

\* Variant: the counter is read before the Client made last.
ReportOlder(c) ==
  coreQ' = IF HasRoom THEN Append(coreQ, Msg("WM_CLIENT_DISCONNECT", client_id - 1, 0, c)) ELSE coreQ

\* One try; the id is the counter client_id, not the id of this Client.
Report(c) ==
  coreQ' = IF HasRoom THEN Append(coreQ, Msg("WM_CLIENT_DISCONNECT", client_id, 0, c)) ELSE coreQ

AliveWriteHandler(w) ==
  /\ FreeThread /\ w.of = 0 /\ Complete(w)
  /\ IF w.state = "failed"
     THEN Close(w.cli, writes \ {w}) /\ Report(w.cli)
     ELSE writes' = writes \ {w} /\ UNCHANGED <<cli_socket, sendQ, coreQ>>
  /\ UNCHANGED <<load, up, acceptVars, peerGone, readVars, timer_, coreWaits, event, results, dest,
                 wire, freed>>

------------------------------------------------------------------------------
(* accept_handler and create_client *)

\* Variant: the next accept is left out.
AcceptHandlerLast(c) ==
  /\ FreeThread /\ accept[c] = "done" /\ accept' = [accept EXCEPT ![c] = "none"]
  /\ read' = [read EXCEPT ![c] = "posted"]
  /\ UNCHANGED <<load, up, client_id, client_map, accepting, faults, dialled, cli_socket, peerGone,
                 files, alives, posting, handed, timer_, coreVars, results, dest, writeVars>>

\* remote_endpoint() throws for a client that has reset the connection already.
AcceptHandler(c) ==
  /\ FreeThread /\ accept[c] = "done" /\ accept' = [accept EXCEPT ![c] = "none"]
  /\ \/ /\ read' = [read EXCEPT ![c] = "posted"] /\ UNCHANGED up
        /\ accepting' = accepting \union {[cli |-> c, at |-> "started", new |-> 0]}
     \/ /\ c \in peerGone /\ up' = FALSE /\ UNCHANGED <<read, accepting>>
  /\ UNCHANGED <<load, client_id, client_map, faults, dialled, cli_socket, peerGone, files, alives,
                 posting, handed, timer_, coreVars, results, dest, writeVars>>

\* A failed accept is printed, and nothing else.
AcceptHandlerFailed(c) ==
  /\ FreeThread /\ accept[c] = "failed" /\ accept' = [accept EXCEPT ![c] = "none"]
  /\ UNCHANGED <<load, up, client_id, client_map, accepting, faults, dialled, cli_socket, peerGone,
                 readVars, timer_, coreVars, results, dest, writeVars>>

\* Variant: the accept is started before the Client is inserted.
CreateClientArmed(h) ==
  /\ up /\ h.at = "started" /\ client_id < MaxClients
  /\ client_id' = client_id + 1 /\ accept' = [accept EXCEPT ![client_id'] = "pending"]
  /\ accepting' = (accepting \ {h}) \union {[h EXCEPT !.at = "insert", !.new = client_id']}
  /\ UNCHANGED <<load, up, client_map, faults, dialled, cli_socket, peerGone, readVars, timer_, coreVars,
                 results, dest, writeVars>>

\* The map is in flux from here to Insert, and no lock is held.
CreateClient(h) ==
  /\ up /\ h.at = "started" /\ client_id < MaxClients
  /\ client_id' = client_id + 1
  /\ accepting' = (accepting \ {h}) \union {[h EXCEPT !.at = "insert", !.new = client_id']}
  /\ UNCHANGED <<load, up, client_map, accept, faults, dialled, cli_socket, peerGone, readVars, timer_,
                 coreVars, results, dest, writeVars>>

Insert(h) ==
  /\ up /\ h.at = "insert"
  /\ client_map' = client_map \union {h.new}
  /\ accepting' = (accepting \ {h}) \union {[h EXCEPT !.at = "accept"]}
  /\ UNCHANGED <<load, up, client_id, accept, faults, dialled, cli_socket, peerGone, readVars, timer_,
                 coreVars, results, dest, writeVars>>

StartAccept(h) ==
  /\ up /\ h.at = "accept"
  /\ accept' = [accept EXCEPT ![h.new] = "pending"] /\ accepting' = accepting \ {h}
  /\ UNCHANGED <<load, up, client_id, client_map, faults, dialled, cli_socket, peerGone, readVars,
                 timer_, coreVars, results, dest, writeVars>>

------------------------------------------------------------------------------
(* recv_file_handler, recv_handler and the alive timer *)

\* Variant: the handler runs though no thread is free.
FileReceivedAlways(c) ==
  /\ up /\ read[c] = "file" /\ read' = [read EXCEPT ![c] = "none"]
  /\ posting' = posting \union {c}
  /\ UNCHANGED <<load, up, acceptVars, cli_socket, peerGone, files, alives, handed, timer_, coreVars, results,
                 dest, writeVars>>

FileReceived(c) ==
  /\ FreeThread /\ read[c] = "file" /\ read' = [read EXCEPT ![c] = "none"]
  /\ posting' = posting \union {c}
  /\ UNCHANGED <<load, up, acceptVars, cli_socket, peerGone, files, alives, handed, timer_, coreVars, results,
                 dest, writeVars>>

\* Variant: the tries are counted, and the image dropped after the last.
PostImageCounted(c) ==
  /\ up /\ c \in posting /\ posting' = posting \ {c}
  /\ coreQ' = IF HasRoom THEN Append(coreQ, Msg("WM_IMAGE", c, 0, c)) ELSE coreQ
  /\ handed' = IF HasRoom THEN handed + 1 ELSE handed
  /\ read' = [read EXCEPT ![c] = "posted"]
  /\ UNCHANGED <<load, up, acceptVars, cli_socket, peerGone, files, alives, timer_, coreWaits, event, results,
                 dest, writeVars>>

\* The thread is kept until there is room: "count" never grows.
PostImage(c) ==
  /\ c \in posting /\ HasRoom /\ posting' = posting \ {c}
  /\ coreQ' = Append(coreQ, Msg("WM_IMAGE", c, 0, c)) /\ handed' = handed + 1
  /\ read' = [read EXCEPT ![c] = "posted"]
  /\ UNCHANGED <<load, up, acceptVars, cli_socket, peerGone, files, alives, timer_, coreWaits, event, results,
                 dest, writeVars>>

\* After ALIVE no read is posted, after an error neither.
ReadEnds(c) ==
  /\ FreeThread /\ read[c] \in {"alive", "error"} /\ read' = [read EXCEPT ![c] = "none"]
  /\ timer_' = IF read[c] = "alive" THEN [timer_ EXCEPT ![c] = "set"] ELSE timer_
  /\ UNCHANGED <<load, up, acceptVars, cli_socket, peerGone, files, alives, posting, handed, coreVars, results,
                 dest, writeVars>>

\* IS_ALIVE is written, and the wait on the expired timer completes at once.
AliveTimeout(c) ==
  /\ FreeThread /\ timer_[c] = "expired" /\ timer_' = [timer_ EXCEPT ![c] = "again"]
  /\ AsyncWrite(c, 0)
  /\ UNCHANGED <<load, up, acceptVars, cli_socket, peerGone, readVars, coreVars, results, dest, wire,
                 freed>>

WaitCheckAlive(c) ==
  /\ FreeThread /\ timer_[c] = "again" /\ timer_' = [timer_ EXCEPT ![c] = "done"]
  /\ Close(c, writes) /\ Report(c)
  /\ UNCHANGED <<load, up, acceptVars, peerGone, readVars, coreWaits, event, results, dest, wire, freed>>

------------------------------------------------------------------------------
(* Server::Core and the recognition process *)

CoreHandles(type) == up /\ ~coreWaits /\ coreQ # <<>> /\ Head(coreQ).type = type

CoreImage ==
  /\ CoreHandles("WM_IMAGE") /\ coreQ' = Tail(coreQ) /\ coreWaits' = TRUE
  /\ UNCHANGED <<load, up, acceptVars, cli_socket, peerGone, readVars, timer_, event, results, dest,
                 writeVars>>

\* The image is copied and posted on; the event comes back, or it is lost.
CoreHandsOn ==
  /\ up /\ coreWaits /\ event = "set"
  /\ coreWaits' = FALSE /\ event' = "reset"
  /\ UNCHANGED <<load, up, acceptVars, cli_socket, peerGone, readVars, timer_, coreQ, results, dest,
                 writeVars>>

\* WM_CLIENT_DISCONNECT: client_map is looked at, nothing is erased.
CoreDisconnect ==
  /\ CoreHandles("WM_CLIENT_DISCONNECT") /\ coreQ' = Tail(coreQ)
  /\ UNCHANGED <<load, up, acceptVars, cli_socket, peerGone, readVars, timer_, coreWaits, event, results,
                 dest, writeVars>>

\* find while another thread inserts may miss what is there, and may find what
\* is being inserted.
InFlux == \E h \in accepting : h.at = "insert"
Found(id) == id \in client_map \union {h.new : h \in {h \in accepting : h.at = "insert"}}
Missed(id) == id \notin client_map \/ InFlux

\* send_dective_result
SendResult(c, r) ==
  /\ AsyncWrite(c, r)
  /\ dest' = IF cli_socket[c] = "open" THEN [dest EXCEPT ![r] = c] ELSE dest

\* Variant: Core deletes the array when it has called send_dective_result.
CoreResultDeletes ==
  /\ CoreHandles("WM_RESULT_DECTIVE") /\ coreQ' = Tail(coreQ)
  /\ LET m == Head(coreQ)
     IN  \/ /\ Found(m.id) /\ SendResult(m.id, m.of)
            /\ freed' = [freed EXCEPT ![m.of] = @ + 1]
         \/ Missed(m.id) /\ UNCHANGED <<dest, writes, sendQ, freed>>
  /\ UNCHANGED <<load, up, acceptVars, cli_socket, peerGone, readVars, timer_, coreWaits, event, results,
                 wire>>

CoreResult ==
  /\ CoreHandles("WM_RESULT_DECTIVE") /\ coreQ' = Tail(coreQ)
  /\ LET m == Head(coreQ)
     IN  \/ Found(m.id) /\ SendResult(m.id, m.of)
         \/ Missed(m.id) /\ UNCHANGED <<dest, writes, sendQ>>
  /\ UNCHANGED <<load, up, acceptVars, cli_socket, peerGone, readVars, timer_, coreWaits, event, results,
                 wire, freed>>

\* Or it may follow a pointer of the tree that is being changed, and fault.
CoreFaults ==
  /\ CoreHandles("WM_RESULT_DECTIVE") \/ CoreHandles("WM_CLIENT_DISCONNECT")
  /\ InFlux /\ up' = FALSE
  /\ UNCHANGED <<load, acceptVars, cli_socket, peerGone, readVars, timer_, coreVars, results, dest,
                 writeVars>>

RecSignals ==
  /\ event = "reset" /\ event' = "set"
  /\ UNCHANGED <<load, up, acceptVars, cli_socket, peerGone, readVars, timer_, coreQ, coreWaits, results,
                 dest, writeVars>>

\* The post of an image failed, or the recognition process is gone.
RecLoses ==
  /\ event = "reset" /\ event' = "lost" /\ Fault
  /\ UNCHANGED <<load, up, client_id, client_map, accept, accepting, dialled, cli_socket, peerGone,
                 readVars, timer_, coreQ, coreWaits, results, dest, writeVars>>

\* The id of a result is arbitrary (its cli_id was never assigned).
RecResult(id) ==
  /\ up /\ results < load.results /\ results' = results + 1
  /\ coreQ' = IF HasRoom THEN Append(coreQ, Msg("WM_RESULT_DECTIVE", id, results', 0)) ELSE coreQ
  /\ UNCHANGED <<load, up, acceptVars, cli_socket, peerGone, readVars, timer_, coreWaits, event, dest,
                 writeVars>>

------------------------------------------------------------------------------
IoThreads ==
  \/ \E c \in Cli : AcceptHandler(c) \/ AcceptHandlerFailed(c) \/ FileReceived(c) \/ PostImage(c)
                    \/ ReadEnds(c) \/ AliveTimeout(c) \/ WaitCheckAlive(c)
  \/ \E h \in accepting : CreateClient(h) \/ Insert(h) \/ StartAccept(h)
  \/ \E w \in writes : Continue(w) \/ SendHandler(w) \/ AliveWriteHandler(w)
Core == CoreImage \/ CoreHandsOn \/ CoreDisconnect \/ CoreResult \/ CoreFaults
System == \/ \E c \in Cli : AcceptDone(c) \/ TimerExpires(c)
          \/ \E w \in writes : SystemSends(w)
Environment ==
  \/ Dial \/ RecLoses \/ \E id \in Cli : RecResult(id)
  \/ \E c \in Cli : AcceptFails(c) \/ Leave(c) \/ \E what \in {"file", "alive", "error"} : Arrives(c, what)

Next == IoThreads \/ Core \/ System \/ RecSignals \/ Environment

\* Threads and system are scheduled, the recognition process signals what it
\* does not lose.  Nothing is asked of clients, faults and results.
Spec == /\ Init /\ [][Next]_vars
        /\ WF_vars(IoThreads) /\ WF_vars(Core) /\ WF_vars(System) /\ WF_vars(RecSignals)

------------------------------------------------------------------------------
(* Properties *)

\* Type invariant.  No more handlers run than there are threads.
TypeOK ==
  /\ up \in BOOLEAN /\ client_id \in Cli /\ client_map \subseteq 1..client_id
  /\ accept \in [Cli -> {"none", "pending", "done", "failed"}]
  /\ accepting \subseteq [cli : Cli, at : {"started", "insert", "accept"}, new : 0..MaxClients]
  /\ load \in Load /\ faults \in 0..load.faults /\ dialled \in 0..MaxClients
  /\ cli_socket \in [Cli -> {"new", "open", "closed"}] /\ peerGone \subseteq Cli
  /\ read \in [Cli -> {"none", "posted", "file", "alive", "error"}]
  /\ files \in 0..load.files /\ alives \in 0..load.alives /\ posting \subseteq Cli /\ handed \in 0..files
  /\ timer_ \in [Cli -> {"unset", "set", "expired", "again", "done"}]
  /\ coreQ \in Seq([type : {"WM_IMAGE", "WM_CLIENT_DISCONNECT", "WM_RESULT_DECTIVE"},
                    id : 0..MaxClients, of : 0..MaxResults, by : 0..MaxClients])
  /\ Len(coreQ) <= QueueLimit /\ coreWaits \in BOOLEAN /\ event \in {"set", "reset", "lost"}
  /\ results \in 0..MaxResults /\ dest \in [Result -> 0..MaxClients]
  /\ writes \subseteq [cli : Cli, of : 0..MaxResults, piece : 1..Pieces,
                       state : {"sending", "sent", "failed"}]
  /\ Cardinality(posting) + Cardinality(accepting) <= async_run_num

\* create_client takes no lock: what keeps two threads from inserting at once is
\* that one accept is under way at any time, and its Client is the newest.
OneAccept ==
  /\ \A c \in Cli : accept[c] # "none" => c = client_id /\ accepting = {}
  /\ \A g, h \in accepting : g = h
  /\ \A h \in accepting : client_id = IF h.at = "started" THEN h.cli ELSE h.new

\* Everyone connected is in client_map, so that a result sent by the right id can
\* miss its client only by a lookup during an insertion.
ConnectedMapped == \A c \in Cli : cli_socket[c] # "new" => c \in client_map

\* A disconnect is reported under the id of the Client made last, which is never
\* older than the one that has gone, and never one that is being served, unless
\* its accept_handler has not made the next Client yet.
ReportsNewest ==
  [][LET m == coreQ'[Len(coreQ')]
     IN  Len(coreQ') > Len(coreQ) /\ m.type = "WM_CLIENT_DISCONNECT" =>
           /\ m.id >= m.by
           /\ read[m.id] # "none" \/ m.id \in posting \/ timer_[m.id] # "unset" =>
                \E h \in accepting : h.cli = m.id /\ h.at = "started"]_vars

\* An entry of wire is a piece of a result, or of IS_ALIVE (result 0).
StartsResult(p) == p[1] # 0 /\ p[2] = 1
OnWire(c, p) == \E i \in 1..Len(wire[c]) : wire[c][i] = p

\* What Core writes while other writes are under way reaches its client piece by
\* piece in order, the results in the order Core handled them, each whole when
\* its array is deleted (the pieces of two can alternate all the same).
WireOrdered ==
  \A c \in Cli :
    /\ \A i, j \in 1..Len(wire[c]) :
         i < j /\ StartsResult(wire[c][i]) /\ StartsResult(wire[c][j]) => wire[c][i][1] < wire[c][j][1]
    /\ \A i \in 1..Len(wire[c]) : wire[c][i][1] # 0 =>
         /\ dest[wire[c][i][1]] = c /\ wire[c][i][2] \in 1..Pieces
         /\ \A k \in 1..(wire[c][i][2] - 1) : \E j \in 1..(i - 1) : wire[c][j] = <<wire[c][i][1], k>>
         /\ \A j \in 1..(i - 1) : wire[c][j] # wire[c][i]
    /\ \A r \in Result : dest[r] = c /\ freed[r] > 0 /\ cli_socket[c] = "open" /\ c \notin peerGone =>
         \A k \in 1..Pieces : OnWire(c, <<r, k>>)

\* The array of a result is deleted once, and not while a piece is to be sent.
DeletedOnce ==
  \A r \in Result :
    /\ freed[r] <= 1
    /\ freed[r] = 1 => \A w \in writes : w.of # r

\* All connections together keep the promise of ResultStream, step by step.
Down == peerGone \union {c \in Cli : cli_socket[c] = "closed"}
Stream == INSTANCE ResultStream WITH
            Conn <- Cli, owner <- dest, sent <- wire, deleted <- freed, down <- Down
StreamSpec == Stream!Spec

\* Core waits for an event nobody will signal, and its queue is full: every
\* thread that posts an image is kept for ever.
Stuck == coreWaits /\ event = "lost" /\ Len(coreQ) = QueueLimit

\* However many threads are kept by a full queue, a file received is posted in
\* the end, unless the event is lost or the process ends.
FilesPosted == []<>(handed = files \/ ~up \/ Stuck)

\* A connection asked for is accepted, unless an accept has failed before.
DialsAccepted ==
  []<>(Accepted = dialled \/ ~up \/ Stuck \/ (faults > 0 /\ \A c \in Cli : accept[c] = "none"))
=============================================================================
