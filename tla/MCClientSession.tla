-------------------------- MODULE MCClientSession --------------------------
(***************************************************************************)
(* Instances of ClientSession for TLC: packages of 16 bytes.               *)
(***************************************************************************)
EXTENDS ClientSession

\* A file of two frames, the last one padded, and one that fills its frame.
\* Of the first, what begins with the last byte is the header of a frame it has,
\* what begins with the byte before has a negative number.
Files == {[bytes |-> [i \in 1..14 |-> IF i = 14 THEN 1 ELSE 187 + i], frame |-> 12],
          [bytes |-> [i \in 1..12 |-> i], frame |-> 12]}
=============================================================================
