----------------------------- MODULE MCAddFace -----------------------------
(***************************************************************************)
(* Instances of AddFace for TLC.                                           *)
(***************************************************************************)
EXTENDS AddFace

\* A package of one rectangle takes 16 bytes of text in the first read.  With the
\* cuts it brings all, a third or nothing of the short text: a rest of six, fewer than
\* the eight bytes the code forgets, and of nine, which is read as one byte; of the
\* long one it leaves those eight, or twelve, 21 or all.
Faces == {[nRects |-> 1, text |-> 9], [nRects |-> 1, text |-> 24]}
Cuts == {0, 3, 12}
=============================================================================
