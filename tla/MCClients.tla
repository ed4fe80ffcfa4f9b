----------------------------- MODULE MCClients -----------------------------
(***************************************************************************)
(* Instance of Clients for TLC: two connections under four loads.         *)
(***************************************************************************)
EXTENDS Clients

\* Files until no thread is left; results and timers; two connections and a
\* timer; results and files.
Loads == {[dials |-> 2, files |-> 5, alives |-> 0, results |-> 0, faults |-> 1],
          [dials |-> 1, files |-> 0, alives |-> 1, results |-> 2, faults |-> 0],
          [dials |-> 2, files |-> 1, alives |-> 1, results |-> 0, faults |-> 1],
          [dials |-> 1, files |-> 2, alives |-> 0, results |-> 1, faults |-> 1]}
=============================================================================
