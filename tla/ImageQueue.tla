----------------------------- MODULE ImageQueue -----------------------------
(***************************************************************************)
(* What the path from the clients to the recognition process promises: the *)
(* images its clients hand in arrive there once each, in the order they    *)
(* were handed in, under the right client's id and with their own bytes if *)
(* their size is one the path can carry.  It may break for good, and then  *)
(* promises nothing but that it invents nothing and reorders nothing.      *)
(* A connection promises the same of the files its client sends.           *)
(***************************************************************************)
EXTENDS Integers, Sequences

CONSTANTS Client,         \* ids an image can carry
          Image,          \* what a client can hand in
          Carried(_),     \* the images the path carries byte for byte
          MaxPosted       \* how many images Live speaks of

VARIABLES posted,         \* everything handed in, oldest first: [cli, img]
          arrived,        \* everything delivered, oldest first: [cli, img]
          open            \* FALSE once the path is broken

vars == <<posted, arrived, open>>

Init == posted = <<>> /\ arrived = <<>> /\ open = TRUE

Post == /\ \E c \in Client, i \in Image : posted' = Append(posted, [cli |-> c, img |-> i])
        /\ UNCHANGED <<arrived, open>>

\* The next item, under its own id; its bytes are its own if it is carried.
Faithful(item, d) == d.cli = item.cli /\ (Carried(item.img) => d.img = item.img)

Deliver == /\ Len(arrived) < Len(posted)
           /\ Len(arrived') = Len(arrived) + 1
           /\ \A k \in 1..Len(arrived) : arrived'[k] = arrived[k]
           /\ Faithful(posted[Len(arrived')], arrived'[Len(arrived')])
           /\ UNCHANGED <<posted, open>>

Break == open /\ open' = FALSE /\ UNCHANGED <<posted, arrived>>

Next == Post \/ Deliver \/ Break

Spec == Init /\ [][Next]_vars

\* What was handed in is delivered some day, unless the path breaks.
Live == \A n \in 1..MaxPosted : Len(posted) >= n ~> (Len(arrived) >= n \/ ~open)
=============================================================================
