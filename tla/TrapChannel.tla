----------------------------- MODULE TrapChannel -----------------------------
(***************************************************************************)
(* What the agent may rely on when the clock application sends it traps:   *)
(* a channel that keeps the order, invents and repeats nothing, but may    *)
(* lose any trap that has not been received yet.  Traps are numbered in    *)
(* the order in which they are emitted.                                    *)
(***************************************************************************)
EXTENDS Naturals, Sequences

VARIABLES
  emitted,    \* how many traps were emitted
  pending,    \* the traps on their way
  received    \* the traps the agent received, in its order

vars == <<emitted, pending, received>>

Init == emitted = 0 /\ pending = {} /\ received = <<>>

\* A new trap may push an older one out.
Emit == /\ emitted' = emitted + 1
        /\ \E gone \in {{}} \cup {{i} : i \in pending} :
             pending' = (pending \ gone) \cup {emitted'}
        /\ UNCHANGED received

Lose == /\ \E i \in pending : pending' = pending \ {i}
        /\ UNCHANGED <<emitted, received>>

Receive == \E i \in pending :
             /\ \A j \in pending : i <= j
             /\ pending' = pending \ {i}
             /\ received' = Append(received, i)
             /\ UNCHANGED emitted

Next == Emit \/ Lose \/ Receive

Spec == Init /\ [][Next]_vars
==============================================================================
