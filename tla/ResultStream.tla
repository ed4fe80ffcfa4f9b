---------------------------- MODULE ResultStream ----------------------------
(***************************************************************************)
(* What a client gets of the results given to its connection: the pieces   *)
(* of each one in order and once, of a later result none before the first  *)
(* of an earlier one, nothing when the connection is down, nothing of a    *)
(* result whose array is deleted; and an array is deleted once, when the   *)
(* result has been sent in whole or its connection is down.                *)
(***************************************************************************)
EXTENDS Naturals, Sequences

CONSTANTS Conn, Result,   \* numbered from 1
          Pieces          \* pieces of a result

VARIABLES owner,          \* [Result -> the connection it was given to, or 0]
          sent,           \* [Conn -> sequence of <<result, piece>>], 0 for what is no result
          deleted,        \* [Result -> how often its array was deleted]
          down            \* connections that are closed, or whose client has left

vars == <<owner, sent, deleted, down>>

Sent(c, p) == \E i \in 1..Len(sent[c]) : sent[c][i] = p

Init == /\ owner = [r \in Result |-> 0] /\ sent = [c \in Conn |-> <<>>]
        /\ deleted = [r \in Result |-> 0] /\ down = {}

\* Results are given in their order.
Give(r, c) == /\ deleted[r] = 0 /\ \A s \in Result : owner[s] # 0 => s < r
              /\ owner' = [owner EXCEPT ![r] = c]
              /\ UNCHANGED <<sent, deleted, down>>

Put(c, p) == /\ c \notin down
             /\ sent' = [sent EXCEPT ![c] = Append(@, p)]
             /\ UNCHANGED <<owner, deleted, down>>

\* Piece k of result r, the next one.
SendPiece(r, k, c) == /\ owner[r] = c /\ deleted[r] = 0
                      /\ \A h \in 1..(k - 1) : Sent(c, <<r, h>>)
                      /\ ~Sent(c, <<r, k>>)
                      /\ k = 1 => \A i \in 1..Len(sent[c]) : sent[c][i][1] < r
                      /\ Put(c, <<r, k>>)

SendOther(c) == Put(c, <<0, 1>>)

Delete(r) == /\ deleted[r] = 0 /\ deleted' = [deleted EXCEPT ![r] = 1]
             /\ owner[r] \in Conn \ down => \A k \in 1..Pieces : Sent(owner[r], <<r, k>>)
             /\ UNCHANGED <<owner, sent, down>>

Break(c) == /\ c \notin down /\ down' = down \union {c}
            /\ UNCHANGED <<owner, sent, deleted>>

Next == \/ \E r \in Result, c \in Conn : Give(r, c) \/ \E k \in 1..Pieces : SendPiece(r, k, c)
        \/ \E c \in Conn : SendOther(c) \/ Break(c)
        \/ \E r \in Result : Delete(r)

Spec == Init /\ [][Next]_vars
=============================================================================
