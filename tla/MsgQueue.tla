------------------------------ MODULE MsgQueue ------------------------------
(***************************************************************************)
(* The bounded message queue of freeLockQ.c, on sequences.                 *)
(*                                                                         *)
(* The queue itself is a queue_t of the C library libcstl, which is not    *)
(* part of the sources: queue_size, queue_front, queue_push and queue_pop  *)
(* are Len, Head, Append and Tail.                                         *)
(***************************************************************************)
EXTENDS Naturals, Sequences

CONSTANT QUEUE_MAX_SIZE

ASSUME QueueAssumption == QUEUE_MAX_SIZE \in Nat \ {0}

\* Faulty variants of the next operator: off by one, either way.
IsFullLate(q)  == Len(q) > QUEUE_MAX_SIZE
IsFullEarly(q) == Len(q) + 1 >= QUEUE_MAX_SIZE

\* SN_Free_Lock_Queue_full
IsFull(q) == Len(q) >= QUEUE_MAX_SIZE

\* Faulty variants of the operators that follow: off by one; the newest
\* message (queue_back) is copied; the message stays in the queue.
IsAlmostEmpty(q) == Len(q) <= 1
GetNewest(q)     == q[Len(q)]
PopForgotten(q)  == q

\* SN_Free_Lock_Queue_Get and SN_Free_Lock_Queue_Pop fail (-1) on an empty
\* queue; otherwise they copy, and remove, the oldest message.
IsEmpty(q) == Len(q) = 0
Get(q)     == Head(q)
Pop(q)     == Tail(q)

\* Faulty variants of Push: the message that arrives at a full queue is
\* rejected; the queue grows past its limit.
PushRejecting(q, m) == IF IsFull(q) THEN q ELSE Append(q, m)
PushUnbounded(q, m) == Append(q, m)

\* SN_Free_Lock_Queue_Push: a full queue first loses its oldest message.
Push(q, m) == Append(IF IsFull(q) THEN Pop(q) ELSE q, m)
=============================================================================
