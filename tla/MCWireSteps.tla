----------------------------- MODULE MCWireSteps -----------------------------
(***************************************************************************)
(* The bytes next to every boundary of the conversion, in all positions.   *)
(***************************************************************************)
EXTENDS WireSteps

Edge == {0, 1, 127, 128, 251, 252, 253, 255}
EdgeSizes == {Deserialze(<<a, b, c, d>>) : a \in Edge, b \in Edge, c \in Edge, d \in {0, 1, 126}}
=============================================================================
