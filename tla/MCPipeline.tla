----------------------------- MODULE MCPipeline -----------------------------
(***************************************************************************)
(* Instances of Pipeline for TLC.  The shared section is 1024 bytes here.  *)
(***************************************************************************)
EXTENDS Pipeline

Pic(size, decodes, faces) == [size |-> size, decodes |-> decodes, faces |-> faces]

OneFace == {Pic(5, TRUE, 1)}

\* Read back: with a face, without one, not decoded.  Misread by Core: 128 (a
\* negative count), 252 (no byte copied), 253 (one byte: after 773 = 0x305 the
\* section says 0x3fd, more than it holds).  1025 is read back and too big.
OddImages == {Pic(773, TRUE, 1), Pic(6, TRUE, 0), Pic(7, FALSE, 0), Pic(128, TRUE, 1), Pic(252, TRUE, 1),
              Pic(253, TRUE, 1), Pic(1025, TRUE, 1)}
=============================================================================
