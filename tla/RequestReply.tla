---------------------------- MODULE RequestReply ----------------------------
(***************************************************************************)
(* What an agent that asks with care may rely on: every request that has a *)
(* reply is replied to once, and the replies come in the order of the      *)
(* requests.  Requests are numbered in the order in which they are sent.   *)
(***************************************************************************)
EXTENDS Naturals, Sequences

CONSTANT Requests    \* the numbers of requests

VARIABLES
  open,      \* the requests not replied to yet
  replied    \* the requests replied to, in the order of the replies

vars == <<open, replied>>

Init == open = {} /\ replied = <<>>

\* A request is newer than all that were asked before.
Ask == /\ \E r \in Requests :
            /\ \A o \in open : o < r
            /\ \A k \in 1 .. Len(replied) : replied[k] < r
            /\ open' = open \cup {r}
       /\ UNCHANGED replied

\* The oldest request is replied to.
Reply == \E r \in open :
           /\ \A o \in open : r <= o
           /\ open' = open \ {r}
           /\ replied' = Append(replied, r)

Next == Ask \/ Reply

Spec == Init /\ [][Next]_vars
=============================================================================
