------------------------- MODULE TrapPipeline_proofs -------------------------
(***************************************************************************)
(* Proofs about TrapPipeline: for every size of the queue, of a round and  *)
(* of the System V queue, with and without failing calls.                  *)
(***************************************************************************)
EXTENDS TrapPipeline, Integers, TLAPS

\* What a push returns: a queue within its limit whose last message is the
\* new one, and whose other messages are the newest of the old ones.
LEMMA PushResult ==
  ASSUME NEW q \in Seq(Nat), NEW m \in Nat, Len(q) <= QUEUE_MAX_SIZE
  PROVE  /\ Push(q, m) \in Seq(Nat)
         /\ Len(Push(q, m)) = IF IsFull(q) THEN Len(q) ELSE Len(q) + 1
         /\ Len(Push(q, m)) <= QUEUE_MAX_SIZE
         /\ \A k \in 1 .. Len(Push(q, m)) :
              Push(q, m)[k] = IF k = Len(Push(q, m)) THEN m
                              ELSE IF IsFull(q) THEN q[k + 1] ELSE q[k]
<1>1. CASE IsFull(q)
  <2>1. Len(q) > 0 /\ Tail(q) \in Seq(Nat) /\ Len(Tail(q)) = Len(q) - 1
        /\ \A k \in 1 .. Len(Tail(q)) : Tail(q)[k] = q[k + 1]
    BY <1>1, QueueAssumption DEF IsFull
  <2>2. Push(q, m) = Append(Tail(q), m)
    BY <1>1 DEF Push, Pop
  <2>3. /\ Push(q, m) \in Seq(Nat)
        /\ Len(Push(q, m)) = Len(q)
        /\ Push(q, m)[Len(q)] = m
        /\ \A k \in 1 .. Len(q) - 1 : Push(q, m)[k] = Tail(q)[k]
    <3> DEFINE t == Tail(q)
    <3>1. t \in Seq(Nat) /\ Len(t) = Len(q) - 1 /\ Len(q) \in Nat /\ Len(q) > 0
      BY <2>1
    <3> HIDE DEF t
    <3>2. /\ Append(t, m) \in Seq(Nat) /\ Len(Append(t, m)) = Len(t) + 1
          /\ Append(t, m)[Len(t) + 1] = m
          /\ \A k \in 1 .. Len(t) : Append(t, m)[k] = t[k]
      BY <3>1
    <3> QED BY <2>2, <3>1, <3>2 DEF t
  <2>4. ASSUME NEW k \in 1 .. Len(q)
        PROVE  Push(q, m)[k] = IF k = Len(q) THEN m ELSE q[k + 1]
    <3>1. Len(q) \in Nat /\ k \in Nat
      OBVIOUS
    <3>2. CASE k = Len(q)
      BY <2>3, <3>2
    <3>3. CASE k # Len(q)
      <4>1. k \in 1 .. Len(q) - 1
        BY <3>1, <3>3
      <4>2. k \in 1 .. Len(Tail(q))
        BY <2>1, <4>1
      <4>3. Push(q, m)[k] = Tail(q)[k] /\ Tail(q)[k] = q[k + 1]
        BY <2>1, <2>3, <4>1, <4>2
      <4> QED BY <3>3, <4>3
    <3> QED BY <3>2, <3>3
  <2> QED BY <1>1, <2>3, <2>4
<1>2. CASE ~IsFull(q)
  <2>1. Push(q, m) = Append(q, m)
    BY <1>2 DEF Push
  <2> QED BY <1>2, <2>1, QueueAssumption DEF IsFull
<1> QED BY <1>1, <1>2

\* The counter of a round is positive inside the round.
LeftPositive == taskPc # "wait" => left > 0

\* The inductive invariant.  The type of the mutex needs MutexHandedOver, the
\* end of the sender needs the announcements.
IInv == /\ TypeOK /\ LeftPositive
        /\ MutexHandedOver
        /\ AnnouncementsMatch
        /\ GivesUpOnlyAfterOverwrite
        /\ NewestKept

USE QueueAssumption, TrapAssumption

\* The initial state satisfies the invariant.
LEMMA Initially == Init => IInv
<1> SUFFICES ASSUME Init PROVE IInv
  OBVIOUS
<1> USE DEF Init
<1>1. /\ sendq \in Seq(Nat) /\ Len(sendq) = 0
      /\ agentq \in Seq(Nat) /\ Len(agentq) = 0
      /\ received \in Seq(Nat)
  OBVIOUS
<1>2. TypeOK
  <2>1. /\ ticks \in 0 .. MaxTicks /\ trapsignal \in 0 .. ticks
        /\ left \in 0 .. Round
    BY TrapAssumption
  <2>2. flag_trap \in BOOLEAN /\ taskPc \in TaskSteps /\ sendPc \in SendSteps
    BY DEF TaskSteps, SendSteps
  <2>3. Len(sendq) <= QUEUE_MAX_SIZE /\ Len(agentq) <= AgentRoom
    BY <1>1, QueueAssumption, TrapAssumption
  <2>4. /\ mutex \in {0, 1} /\ full \in Nat /\ held \in Nat
        /\ emitted \in Nat /\ overwritten \in Nat /\ lost \subseteq Nat
    OBVIOUS
  <2> QED BY <1>1, <2>1, <2>2, <2>3, <2>4 DEF TypeOK
<1>3. LeftPositive /\ MutexHandedOver /\ GivesUpOnlyAfterOverwrite
  BY DEF LeftPositive, MutexHandedOver, GivesUpOnlyAfterOverwrite, One,
         TaskInside, SenderInside
<1>4. AnnouncementsMatch /\ NewestKept
  BY <1>1 DEF AnnouncementsMatch, NewestKept, One
<1> QED BY <1>2, <1>3, <1>4 DEF IInv

\* The three steps that change a queue come first, each on its own.  The push:
\* announcements and messages stay matched because a full queue counts one
\* overwritten message, and the queue ends with the trap just emitted.
LEMMA PushStep == IInv /\ TaskPush => IInv'
<1> SUFFICES ASSUME IInv, TaskPush PROVE IInv'
  OBVIOUS
<1>1. /\ taskPc = "push" /\ taskPc' = "unlock"
      /\ emitted' = emitted + 1
      /\ sendq' = Push(sendq, emitted')
      /\ overwritten' = IF IsFull(sendq) THEN overwritten + 1 ELSE overwritten
  BY DEF TaskPush
<1>2. /\ ticks' = ticks /\ trapsignal' = trapsignal /\ flag_trap' = flag_trap
      /\ left' = left /\ mutex' = mutex /\ full' = full
      /\ sendPc' = sendPc /\ held' = held /\ agentq' = agentq
      /\ lost' = lost /\ received' = received
  BY DEF TaskPush, sendVars
<1>3. /\ sendq \in Seq(Nat) /\ Len(sendq) \in Nat
      /\ Len(sendq) <= QUEUE_MAX_SIZE
      /\ emitted \in Nat /\ overwritten \in Nat /\ full \in Nat
  BY DEF IInv, TypeOK
<1>4. emitted' \in Nat /\ overwritten' \in Nat
  BY <1>1, <1>3
<1>5. /\ sendq' \in Seq(Nat)
      /\ Len(sendq') = IF IsFull(sendq) THEN Len(sendq) ELSE Len(sendq) + 1
      /\ Len(sendq') <= QUEUE_MAX_SIZE
      /\ \A k \in 1 .. Len(sendq') :
           sendq'[k] = IF k = Len(sendq') THEN emitted'
                       ELSE IF IsFull(sendq) THEN sendq[k + 1] ELSE sendq[k]
  BY <1>1, <1>3, <1>4, PushResult
<1>6. Len(sendq') \in Nat
  BY <1>3, <1>5
<1>7. TypeOK'
  <2>1. taskPc' \in TaskSteps
    BY <1>1 DEF TaskSteps
  <2> QED BY <1>2, <1>4, <1>5, <2>1, Zenon DEF IInv, TypeOK
<1>8. LeftPositive'
  BY <1>1, <1>2 DEF IInv, LeftPositive
<1>9. MutexHandedOver'
  BY <1>1, <1>2 DEF IInv, MutexHandedOver, One, TaskInside, SenderInside
<1>10. AnnouncementsMatch'
  <2>1. Len(sendq') + overwritten' = Len(sendq) + overwritten + 1
    <3>1. CASE IsFull(sendq)
      <4>1. Len(sendq') = Len(sendq) /\ overwritten' = overwritten + 1
        BY <1>1, <1>5, <3>1
      <4> QED BY <1>3, <4>1
    <3>2. CASE ~IsFull(sendq)
      <4>1. Len(sendq') = Len(sendq) + 1 /\ overwritten' = overwritten
        BY <1>1, <1>5, <3>2
      <4> QED BY <1>3, <4>1
    <3> QED BY <3>1, <3>2
  <2> DEFINE announced == One(sendPc \in {"lock", "take", "abandon", "dead"})
  <2>2. announced \in Nat /\ announced' = announced
    BY <1>2 DEF One
  <2>3. full + 0 + announced = Len(sendq) + overwritten
    BY <1>1 DEF IInv, AnnouncementsMatch, One
  <2> SUFFICES full' + 1 + announced' = Len(sendq') + overwritten'
    BY <1>1 DEF AnnouncementsMatch, One
  <2> HIDE DEF announced
  <2> QED BY <1>2, <1>3, <1>4, <1>6, <2>1, <2>2, <2>3
<1>11. GivesUpOnlyAfterOverwrite'
  <2>1. overwritten' >= overwritten
    BY <1>1, <1>3
  <2>2. sendPc \in {"abandon", "dead"} => overwritten > 0
    BY DEF IInv, GivesUpOnlyAfterOverwrite
  <2> QED BY <1>2, <1>3, <1>4, <2>1, <2>2 DEF GivesUpOnlyAfterOverwrite
<1>12. NewestKept'
  <2>1. \A k \in 1 .. Len(sendq) : sendq[k] = emitted - Len(sendq) + k
    BY DEF IInv, NewestKept
  <2>2. SUFFICES ASSUME NEW k \in 1 .. Len(sendq')
                 PROVE  sendq'[k] = emitted' - Len(sendq') + k
    BY DEF NewestKept
  <2>3. k \in Nat /\ 1 <= k /\ k <= Len(sendq')
    BY <1>6
  <2>4. CASE k = Len(sendq')
    <3>1. sendq'[k] = emitted'
      BY <1>5, <2>4
    <3> QED BY <1>4, <1>6, <2>4, <3>1
  <2>5. CASE k # Len(sendq') /\ IsFull(sendq)
    <3>1. sendq'[k] = sendq[k + 1] /\ Len(sendq') = Len(sendq)
      BY <1>5, <2>5
    <3>2. k + 1 \in 1 .. Len(sendq)
      BY <1>3, <2>3, <2>5, <3>1
    <3>3. sendq[k + 1] = emitted - Len(sendq) + (k + 1)
      BY <2>1, <3>2
    <3> QED BY <1>1, <1>3, <2>3, <3>1, <3>3
  <2>6. CASE k # Len(sendq') /\ ~IsFull(sendq)
    <3>1. sendq'[k] = sendq[k] /\ Len(sendq') = Len(sendq) + 1
      BY <1>5, <2>6
    <3>2. k \in 1 .. Len(sendq)
      BY <1>3, <2>3, <2>6, <3>1
    <3>3. sendq[k] = emitted - Len(sendq) + k
      BY <2>1, <3>2
    <3> QED BY <1>1, <1>3, <2>3, <3>1, <3>3
  <2> QED BY <2>4, <2>5, <2>6
<1> QED BY <1>7, <1>8, <1>9, <1>10, <1>11, <1>12 DEF IInv

\* The sender at the queue: an empty queue is found only after an overflow,
\* otherwise the oldest message leaves and the announcement with it.
LEMMA TakeStep == IInv /\ SendTake => IInv'
<1> SUFFICES ASSUME IInv, SendTake PROVE IInv'
  OBVIOUS
<1>1. /\ sendPc = "take"
      /\ ticks' = ticks /\ trapsignal' = trapsignal /\ flag_trap' = flag_trap
      /\ taskPc' = taskPc /\ left' = left /\ mutex' = mutex /\ full' = full
      /\ agentq' = agentq /\ emitted' = emitted
      /\ overwritten' = overwritten /\ lost' = lost /\ received' = received
  BY DEF SendTake, taskVars, history
<1>2. /\ sendq \in Seq(Nat) /\ Len(sendq) \in Nat
      /\ Len(sendq) <= QUEUE_MAX_SIZE
      /\ emitted \in Nat /\ overwritten \in Nat /\ full \in Nat
  BY DEF IInv, TypeOK
<1>3. \/ /\ Len(sendq) = 0 /\ sendPc' = "abandon"
         /\ sendq' = sendq /\ held' = held
      \/ /\ Len(sendq) > 0 /\ sendPc' = "unlock"
         /\ held' = Head(sendq) /\ sendq' = Tail(sendq)
  BY <1>2 DEF SendTake, IsEmpty, Get, Pop
<1>4. LeftPositive' /\ MutexHandedOver'
  BY <1>1, <1>3 DEF IInv, LeftPositive, MutexHandedOver, One, TaskInside,
                    SenderInside
<1>5. sendPc' \in SendSteps
  BY <1>3 DEF SendSteps
<1> DEFINE pushed == One(taskPc \in {"unlock", "post"})
<1>6. pushed \in Nat /\ pushed' = pushed
  BY <1>1 DEF One
<1>7. full + pushed + 1 = Len(sendq) + overwritten
  BY <1>1 DEF IInv, AnnouncementsMatch, One
<1>8. CASE Len(sendq) = 0 /\ sendPc' = "abandon"
           /\ sendq' = sendq /\ held' = held
  <2>1. TypeOK'
    BY <1>1, <1>5, <1>8, Zenon DEF IInv, TypeOK
  <2>2. overwritten > 0
    <3> HIDE DEF pushed
    <3> QED BY <1>2, <1>6, <1>7, <1>8
  <2>3. AnnouncementsMatch' /\ GivesUpOnlyAfterOverwrite'
    BY <1>1, <1>7, <1>8, <2>2
       DEF AnnouncementsMatch, GivesUpOnlyAfterOverwrite, One
  <2>4. NewestKept'
    BY <1>1, <1>8 DEF IInv, NewestKept
  <2> QED BY <1>4, <2>1, <2>3, <2>4 DEF IInv
<1>9. CASE Len(sendq) > 0 /\ sendPc' = "unlock"
           /\ held' = Head(sendq) /\ sendq' = Tail(sendq)
  <2>1. /\ sendq' \in Seq(Nat) /\ held' \in Nat
        /\ Len(sendq') = Len(sendq) - 1 /\ Len(sendq') \in Nat
        /\ \A k \in 1 .. Len(sendq') : sendq'[k] = sendq[k + 1]
    BY <1>2, <1>9
  <2>2. TypeOK'
    <3>1. Len(sendq') <= QUEUE_MAX_SIZE
      BY <1>2, <2>1
    <3> QED BY <1>1, <1>5, <2>1, <3>1, Zenon DEF IInv, TypeOK
  <2>3. AnnouncementsMatch'
    <3>1. full' + pushed' + 0 = Len(sendq') + overwritten'
      <4> HIDE DEF pushed
      <4> QED BY <1>1, <1>2, <1>6, <1>7, <2>1
    <3> QED BY <1>9, <3>1 DEF AnnouncementsMatch, One
  <2>4. GivesUpOnlyAfterOverwrite'
    BY <1>9 DEF GivesUpOnlyAfterOverwrite
  <2>5. NewestKept'
    <3>1. SUFFICES ASSUME NEW k \in 1 .. Len(sendq')
                   PROVE  sendq'[k] = emitted' - Len(sendq') + k
      BY DEF NewestKept
    <3>2. k \in Nat /\ k + 1 \in 1 .. Len(sendq)
      BY <1>2, <2>1
    <3>3. sendq[k + 1] = emitted - Len(sendq) + (k + 1)
      BY <3>2 DEF IInv, NewestKept
    <3> QED BY <1>1, <1>2, <2>1, <3>2, <3>3
  <2> QED BY <1>4, <2>2, <2>3, <2>4, <2>5 DEF IInv
<1> QED BY <1>3, <1>8, <1>9

\* The hand-over to the System V queue leaves the queue of the application
\* and its semaphores alone.
LEMMA MsgsndStep == IInv /\ SendMsgsnd => IInv'
<1> SUFFICES ASSUME IInv, SendMsgsnd PROVE IInv'
  OBVIOUS
<1>1. /\ sendPc = "msgsnd" /\ sendPc' = "msgget" /\ held' = 0
      /\ ticks' = ticks /\ trapsignal' = trapsignal /\ flag_trap' = flag_trap
      /\ taskPc' = taskPc /\ left' = left /\ mutex' = mutex /\ full' = full
      /\ sendq' = sendq /\ emitted' = emitted
      /\ overwritten' = overwritten /\ received' = received
  BY DEF SendMsgsnd, taskVars
<1>2. /\ agentq \in Seq(Nat) /\ Len(agentq) \in Nat /\ held \in Nat
      /\ Len(agentq) <= AgentRoom /\ lost \subseteq Nat
  BY DEF IInv, TypeOK
<1>3. agentq' \in Seq(Nat) /\ Len(agentq') <= AgentRoom /\ lost' \subseteq Nat
  <2>1. CASE Len(agentq) < AgentRoom /\ agentq' = Append(agentq, held)
             /\ lost' = lost
    <3>1. agentq' \in Seq(Nat) /\ Len(agentq') = Len(agentq) + 1
      BY <1>2, <2>1
    <3> QED BY <1>2, <2>1, <3>1
  <2>2. CASE lost' = lost \cup {held} /\ agentq' = agentq
    BY <1>2, <2>2
  <2> QED BY <2>1, <2>2 DEF SendMsgsnd
<1>4. sendPc' \in SendSteps /\ held' \in Nat
  BY <1>1 DEF SendSteps
<1>5. TypeOK'
  BY <1>1, <1>3, <1>4, Zenon DEF IInv, TypeOK
<1>6. LeftPositive' /\ GivesUpOnlyAfterOverwrite' /\ NewestKept'
  BY <1>1 DEF IInv, LeftPositive, GivesUpOnlyAfterOverwrite, NewestKept
<1>7. MutexHandedOver' /\ AnnouncementsMatch'
  BY <1>1 DEF IInv, MutexHandedOver, AnnouncementsMatch, One, TaskInside,
              SenderInside
<1> QED BY <1>5, <1>6, <1>7 DEF IInv

\* Every step preserves the invariant.
LEMMA Inductive == IInv /\ [Next]_vars => IInv'
<1> SUFFICES ASSUME IInv, [Next]_vars PROVE IInv'
  OBVIOUS
<1>1. CASE TaskPush
  BY <1>1, PushStep
<1>2. CASE SendTake
  BY <1>2, TakeStep
<1>3. CASE SendMsgsnd
  BY <1>3, MsgsndStep
<1> USE DEF IInv, TypeOK, LeftPositive, MutexHandedOver, AnnouncementsMatch,
            GivesUpOnlyAfterOverwrite, NewestKept, TaskSteps, SendSteps, One,
            TaskInside, SenderInside, taskVars, sendVars, history
<1>4. CASE Tick
  BY <1>4 DEF Tick
<1>5. CASE Request
  BY <1>5 DEF Request
<1>6. CASE TaskWait
  BY <1>6 DEF TaskWait
<1>7. CASE TaskLock
  BY <1>7 DEF TaskLock
<1>8. CASE TaskUnlock
  BY <1>8 DEF TaskUnlock
<1>9. CASE TaskPost
  BY <1>9 DEF TaskPost
<1>10. CASE SendMsgget
  BY <1>10 DEF SendMsgget
<1>11. CASE SendWaitFull
  BY <1>11 DEF SendWaitFull
<1>12. CASE SendLock
  BY <1>12 DEF SendLock
<1>13. CASE SendAbandon
  BY <1>13 DEF SendAbandon
<1>14. CASE SendUnlock
  BY <1>14 DEF SendUnlock
<1>15. CASE AgentReceive
  BY <1>15 DEF AgentReceive
<1>16. CASE UNCHANGED vars
  BY <1>16 DEF vars
<1> HIDE DEF IInv
<1> QED
  BY <1>1, <1>2, <1>3, <1>4, <1>5, <1>6, <1>7, <1>8, <1>9, <1>10, <1>11,
     <1>12, <1>13, <1>14, <1>15, <1>16 DEF Next, SecondTask, Sender

\* Type correctness.
THEOREM TypeCorrect == Spec => []TypeOK
<1>1. IInv => TypeOK
  BY DEF IInv
<1> QED BY <1>1, Initially, Inductive, PTL DEF Spec

\* The mutex semaphore is handed over exactly, on every path.
THEOREM MutexCorrect == Spec => []MutexHandedOver
<1>1. IInv => MutexHandedOver
  BY DEF IInv
<1> QED BY <1>1, Initially, Inductive, PTL DEF Spec

\* Announcements and messages differ by the overwritten messages.
THEOREM AnnouncementsCorrect == Spec => []AnnouncementsMatch
<1>1. IInv => AnnouncementsMatch
  BY DEF IInv
<1> QED BY <1>1, Initially, Inductive, PTL DEF Spec

\* The sender thread ends on an empty queue only after an overflow.
THEOREM SenderLives == Spec => []GivesUpOnlyAfterOverwrite
<1>1. IInv => GivesUpOnlyAfterOverwrite
  BY DEF IInv
<1> QED BY <1>1, Initially, Inductive, PTL DEF Spec

\* The queue holds the newest traps, in order and without a gap.
THEOREM NewestInQueue == Spec => []NewestKept
<1>1. IInv => NewestKept
  BY DEF IInv
<1> QED BY <1>1, Initially, Inductive, PTL DEF Spec
-----------------------------------------------------------------------------
(* The refinement of TrapChannel.                                          *)

\* Every trap numbered Behind or less has left the queue; the sender holds a
\* message between the queue and msgsnd.
Behind       == emitted - Len(sendq)
Holding      == sendPc \in {"unlock", "msgsnd"}
Ascending(q) == \A i, j \in 1 .. Len(q) : i < j => q[i] < q[j]

\* The traps along their way: what was received is older than what waits in
\* the System V queue, that is older than what the sender holds, and all of
\* it has left the queue of the application.
ReceivedFirst == /\ Ascending(received)
                 /\ \A i \in 1 .. Len(received) :
                      /\ received[i] <= Behind
                      /\ Holding => received[i] < held
                      /\ \A j \in 1 .. Len(agentq) : received[i] < agentq[j]
AgentNext     == /\ Ascending(agentq)
                 /\ \A j \in 1 .. Len(agentq) :
                      /\ agentq[j] <= Behind
                      /\ Holding => agentq[j] < held
HeldLast      == Holding => held <= Behind
Ordered       == ReceivedFirst /\ AgentNext /\ HeldLast

\* An ascending sequence stays so when it loses its first element or gets a
\* larger last one.
LEMMA AscendingTail ==
  ASSUME NEW q \in Seq(Nat), q # <<>>, Ascending(q)
  PROVE  /\ Tail(q) \in Seq(Nat) /\ Len(Tail(q)) = Len(q) - 1
         /\ \A i \in 1 .. Len(Tail(q)) : Tail(q)[i] = q[i + 1]
         /\ Ascending(Tail(q))
         /\ Head(q) = q[1] /\ Head(q) \in Nat /\ Len(q) > 0
         /\ \A i \in 1 .. Len(Tail(q)) : Head(q) < Tail(q)[i]
<1>1. /\ Tail(q) \in Seq(Nat) /\ Len(Tail(q)) = Len(q) - 1
      /\ Len(q) \in Nat /\ Len(q) > 0
      /\ \A i \in 1 .. Len(Tail(q)) : Tail(q)[i] = q[i + 1]
      /\ Head(q) = q[1] /\ q[1] \in Nat
  OBVIOUS
<1>2. ASSUME NEW i \in 1 .. Len(Tail(q)), NEW j \in 1 .. Len(Tail(q)), i < j
      PROVE  Tail(q)[i] < Tail(q)[j]
  <2>1. i + 1 \in 1 .. Len(q) /\ j + 1 \in 1 .. Len(q) /\ i + 1 < j + 1
    BY <1>1, <1>2
  <2>2. q[i + 1] < q[j + 1]
    BY <2>1 DEF Ascending
  <2> QED BY <1>1, <2>2
<1>3. ASSUME NEW i \in 1 .. Len(Tail(q))
      PROVE  q[1] < Tail(q)[i]
  <2>1. 1 \in 1 .. Len(q) /\ i + 1 \in 1 .. Len(q) /\ 1 < i + 1
    BY <1>1
  <2>2. q[1] < q[i + 1]
    BY <2>1 DEF Ascending
  <2> QED BY <1>1, <2>2
<1> QED BY <1>1, <1>2, <1>3 DEF Ascending

LEMMA AscendingAppend ==
  ASSUME NEW q \in Seq(Nat), NEW m \in Nat, Ascending(q),
         \A i \in 1 .. Len(q) : q[i] < m
  PROVE  /\ Append(q, m) \in Seq(Nat) /\ Len(Append(q, m)) = Len(q) + 1
         /\ \A i \in 1 .. Len(q) : Append(q, m)[i] = q[i]
         /\ Append(q, m)[Len(q) + 1] = m
         /\ Ascending(Append(q, m))
<1>1. /\ Append(q, m) \in Seq(Nat) /\ Len(Append(q, m)) = Len(q) + 1
      /\ \A i \in 1 .. Len(q) : Append(q, m)[i] = q[i]
      /\ Append(q, m)[Len(q) + 1] = m
      /\ Len(q) \in Nat
  OBVIOUS
<1>2. ASSUME NEW i \in 1 .. Len(q) + 1, NEW j \in 1 .. Len(q) + 1, i < j
      PROVE  Append(q, m)[i] < Append(q, m)[j]
  <2>1. i \in 1 .. Len(q)
    BY <1>1, <1>2
  <2>2. CASE j = Len(q) + 1
    <3>1. q[i] < m
      BY <2>1
    <3> QED BY <1>1, <2>1, <2>2, <3>1
  <2>3. CASE j \in 1 .. Len(q)
    <3>1. q[i] < q[j]
      BY <1>2, <2>1, <2>3 DEF Ascending
    <3> QED BY <1>1, <2>1, <2>3, <3>1
  <2> QED BY <1>1, <2>2, <2>3
<1> QED BY <1>1, <1>2 DEF Ascending

\* The types that the proofs about the order need.
LEMMA OrderTypes ==
  IInv => /\ emitted \in Nat /\ held \in Nat
          /\ sendq \in Seq(Nat) /\ Len(sendq) \in Nat
          /\ agentq \in Seq(Nat) /\ Len(agentq) \in Nat
          /\ received \in Seq(Nat) /\ Len(received) \in Nat
          /\ \A i \in 1 .. Len(agentq) : agentq[i] \in Nat
          /\ \A i \in 1 .. Len(received) : received[i] \in Nat
          /\ Behind \in Int
  BY DEF IInv, TypeOK, Behind

\* What a push does to the bound: it never falls.
LEMMA PushKeepsBehind ==
  ASSUME IInv, TaskPush
  PROVE  /\ emitted' = emitted + 1
         /\ Behind' = IF IsFull(sendq) THEN Behind + 1 ELSE Behind
<1>1. sendq' = Push(sendq, emitted') /\ emitted' = emitted + 1
  BY DEF TaskPush
<1>2. /\ sendq \in Seq(Nat) /\ Len(sendq) \in Nat
      /\ Len(sendq) <= QUEUE_MAX_SIZE
      /\ emitted \in Nat /\ emitted' \in Nat
  BY <1>1 DEF IInv, TypeOK
<1>3. Len(sendq') = IF IsFull(sendq) THEN Len(sendq) ELSE Len(sendq) + 1
  BY <1>1, <1>2, PushResult
<1>4. CASE IsFull(sendq)
  <2>1. Len(sendq') = Len(sendq)
    BY <1>3, <1>4
  <2> QED BY <1>1, <1>2, <1>4, <2>1 DEF Behind
<1>5. CASE ~IsFull(sendq)
  <2>1. Len(sendq') = Len(sendq) + 1
    BY <1>3, <1>5
  <2> QED BY <1>1, <1>2, <1>5, <2>1 DEF Behind
<1> QED BY <1>1, <1>4, <1>5

\* What the sender takes is the next trap after all that left the queue.
LEMMA TakesNext ==
  ASSUME IInv, SendTake, sendPc' = "unlock"
  PROVE  /\ Len(sendq) > 0 /\ held' = Behind + 1 /\ Behind' = Behind + 1
         /\ emitted' = emitted
<1>1. sendq \in Seq(Nat) /\ Len(sendq) \in Nat /\ emitted \in Nat
  BY DEF IInv, TypeOK
<1>2. /\ Len(sendq) > 0 /\ held' = Head(sendq) /\ sendq' = Tail(sendq)
      /\ emitted' = emitted
  BY <1>1 DEF SendTake, IsEmpty, Get, Pop, history
<1>3. held' = sendq[1] /\ Len(sendq') = Len(sendq) - 1
  BY <1>1, <1>2
<1>4. sendq[1] = emitted - Len(sendq) + 1
  <2>1. 1 \in 1 .. Len(sendq)
    BY <1>1, <1>2
  <2> QED BY <2>1 DEF IInv, NewestKept
<1>5. Len(sendq) > 0 /\ emitted' = emitted /\ held' = emitted - Len(sendq) + 1
  BY <1>2, <1>3, <1>4
<1>6. Behind' = Behind + 1
  BY <1>1, <1>3, <1>5 DEF Behind
<1> QED BY <1>5, <1>6 DEF Behind

\* The order along the way holds initially and is preserved.
LEMMA OrderedInitially == Init => Ordered
  BY DEF Init, Ordered, ReceivedFirst, AgentNext, HeldLast, Ascending,
         Holding

\* The order is kept by every step that leaves the System V queue alone,
\* lets the bound not fall, and either has the sender hold what it held, or
\* drop it, or take the next trap.
LEMMA OrderKept ==
  ASSUME IInv, IInv', Ordered, agentq' = agentq, received' = received,
         Behind <= Behind',
         \/ ~Holding'
         \/ Holding /\ held' = held
         \/ Behind < held' /\ held' <= Behind'
  PROVE  Ordered'
<1>1. /\ Behind \in Int /\ held \in Nat
      /\ \A i \in 1 .. Len(agentq) : agentq[i] \in Nat
      /\ \A i \in 1 .. Len(received) : received[i] \in Nat
  BY OrderTypes
<1>2. Behind' \in Int /\ held' \in Nat
  <2>1. (emitted \in Nat /\ held \in Nat /\ Len(sendq) \in Nat)'
    BY DEF IInv, TypeOK
  <2> QED BY <2>1 DEF Behind
<1>3. ASSUME NEW i \in 1 .. Len(received)
      PROVE  received[i] <= Behind' /\ (Holding' => received[i] < held')
  <2>1. received[i] <= Behind /\ (Holding => received[i] < held)
    BY DEF Ordered, ReceivedFirst
  <2> QED BY <1>1, <1>2, <2>1
<1>4. ASSUME NEW i \in 1 .. Len(agentq)
      PROVE  agentq[i] <= Behind' /\ (Holding' => agentq[i] < held')
  <2>1. agentq[i] <= Behind /\ (Holding => agentq[i] < held)
    BY DEF Ordered, AgentNext
  <2> QED BY <1>1, <1>2, <2>1
<1>5. HeldLast'
  <2>1. Holding => held <= Behind
    BY DEF Ordered, HeldLast
  <2> QED BY <1>1, <1>2, <2>1 DEF HeldLast
<1>6. ReceivedFirst'
  BY <1>3 DEF Ordered, ReceivedFirst, Ascending
<1>7. AgentNext'
  BY <1>4 DEF Ordered, AgentNext, Ascending
<1> QED BY <1>5, <1>6, <1>7 DEF Ordered

\* msgsnd appends what the sender held, which is newer than all before it.
LEMMA OrderSent ==
  ASSUME IInv, Ordered, SendMsgsnd, agentq' = Append(agentq, held)
  PROVE  Ordered'
<1>1. /\ received' = received /\ emitted' = emitted /\ sendq' = sendq
      /\ sendPc = "msgsnd" /\ sendPc' = "msgget"
  BY DEF SendMsgsnd
<1>2. Holding /\ ~Holding' /\ Behind' = Behind
  BY <1>1 DEF Holding, Behind
<1>3. /\ agentq \in Seq(Nat) /\ Len(agentq) \in Nat /\ held \in Nat
      /\ \A i \in 1 .. Len(agentq) : agentq[i] \in Nat
  BY OrderTypes
<1>4. /\ \A i \in 1 .. Len(agentq) : agentq[i] < held /\ agentq[i] <= Behind
      /\ Ascending(agentq) /\ held <= Behind
  BY <1>2 DEF Ordered, AgentNext, HeldLast
<1>5. /\ Ascending(Append(agentq, held))
      /\ Len(Append(agentq, held)) = Len(agentq) + 1
      /\ \A i \in 1 .. Len(agentq) : Append(agentq, held)[i] = agentq[i]
      /\ Append(agentq, held)[Len(agentq) + 1] = held
  BY <1>3, <1>4, AscendingAppend
<1>6. Ascending(agentq')
  BY <1>5
<1>7. ASSUME NEW j \in 1 .. Len(agentq')
      PROVE  \/ j \in 1 .. Len(agentq) /\ agentq'[j] = agentq[j]
             \/ agentq'[j] = held
  BY <1>3, <1>5
<1>8. AgentNext'
  BY <1>2, <1>4, <1>6, <1>7 DEF AgentNext
<1>9. ReceivedFirst'
  <2>1. ASSUME NEW i \in 1 .. Len(received), NEW j \in 1 .. Len(agentq')
        PROVE  received[i] < agentq'[j]
    <3>1. received[i] < held /\ \A k \in 1 .. Len(agentq) : received[i] < agentq[k]
      BY <1>2 DEF Ordered, ReceivedFirst
    <3> QED BY <1>7, <3>1
  <2>2. Ascending(received) /\ \A i \in 1 .. Len(received) : received[i] <= Behind
    BY DEF Ordered, ReceivedFirst
  <2> QED BY <1>1, <1>2, <2>1, <2>2 DEF ReceivedFirst, Ascending
<1> QED BY <1>2, <1>8, <1>9 DEF Ordered, HeldLast

\* The agent receives the first message of its queue, the smallest of all.
LEMMA OrderReceived == IInv /\ Ordered /\ AgentReceive => Ordered'
<1> SUFFICES ASSUME IInv, Ordered, AgentReceive PROVE Ordered'
  OBVIOUS
<1>1. /\ agentq # <<>> /\ agentq' = Tail(agentq)
      /\ received' = Append(received, Head(agentq))
      /\ emitted' = emitted /\ sendq' = sendq /\ held' = held
      /\ sendPc' = sendPc
  BY DEF AgentReceive, sendVars
<1>2. Holding' = Holding /\ Behind' = Behind
  BY <1>1 DEF Holding, Behind
<1>3. /\ agentq \in Seq(Nat) /\ Len(agentq) \in Nat /\ held \in Nat
      /\ received \in Seq(Nat) /\ Len(received) \in Nat
      /\ \A i \in 1 .. Len(agentq) : agentq[i] \in Nat
      /\ \A i \in 1 .. Len(received) : received[i] \in Nat
  BY OrderTypes
<1>4. /\ Ascending(agentq) /\ Ascending(received)
      /\ \A i \in 1 .. Len(agentq) :
           agentq[i] <= Behind /\ (Holding => agentq[i] < held)
      /\ \A i \in 1 .. Len(received) :
           /\ received[i] <= Behind /\ (Holding => received[i] < held)
           /\ \A j \in 1 .. Len(agentq) : received[i] < agentq[j]
  BY DEF Ordered, AgentNext, ReceivedFirst
<1> DEFINE h == Head(agentq)
<1>5. /\ Len(agentq') = Len(agentq) - 1
      /\ \A i \in 1 .. Len(agentq') : agentq'[i] = agentq[i + 1]
      /\ Ascending(agentq')
      /\ h = agentq[1] /\ h \in Nat /\ Len(agentq) > 0
      /\ \A i \in 1 .. Len(agentq') : h < agentq'[i]
  BY <1>1, <1>3, <1>4, AscendingTail
<1>6. 1 \in 1 .. Len(agentq) /\ \A i \in 1 .. Len(agentq') : i + 1 \in 1 .. Len(agentq)
  BY <1>3, <1>5
<1>7. /\ h <= Behind /\ (Holding => h < held)
      /\ \A i \in 1 .. Len(received) : received[i] < h
  BY <1>4, <1>5, <1>6
<1> HIDE DEF h
<1>8. /\ Len(received') = Len(received) + 1
      /\ \A i \in 1 .. Len(received) : received'[i] = received[i]
      /\ received'[Len(received) + 1] = h
      /\ Ascending(received')
  <2>1. /\ received \in Seq(Nat) /\ h \in Nat /\ Ascending(received)
        /\ \A i \in 1 .. Len(received) : received[i] < h
        /\ received' = Append(received, h)
    BY <1>1, <1>3, <1>4, <1>5, <1>7 DEF h
  <2> QED BY <2>1, AscendingAppend
<1>9. AgentNext'
  BY <1>2, <1>1, <1>4, <1>5, <1>6 DEF AgentNext
<1>10. ReceivedFirst'
  <2>1. ASSUME NEW i \in 1 .. Len(received')
        PROVE  \/ i \in 1 .. Len(received) /\ received'[i] = received[i]
               \/ received'[i] = h
    BY <1>3, <1>8
  <2>2. ASSUME NEW i \in 1 .. Len(received'), NEW j \in 1 .. Len(agentq')
        PROVE  received'[i] < agentq'[j]
    <3>1. agentq'[j] = agentq[j + 1] /\ j + 1 \in 1 .. Len(agentq)
      BY <1>5, <1>6
    <3>2. CASE i \in 1 .. Len(received) /\ received'[i] = received[i]
      BY <1>4, <3>1, <3>2
    <3>3. CASE received'[i] = h
      BY <1>5, <3>3
    <3> QED BY <2>1, <3>2, <3>3
  <2>3. ASSUME NEW i \in 1 .. Len(received')
        PROVE  received'[i] <= Behind /\ (Holding => received'[i] < held)
    BY <1>4, <1>7, <2>1
  <2> QED BY <1>1, <1>2, <1>8, <2>2, <2>3 DEF ReceivedFirst
<1>11. HeldLast'
  BY <1>1, <1>2 DEF Ordered, HeldLast
<1> QED BY <1>9, <1>10, <1>11 DEF Ordered

\* The other steps leave the way of the traps alone.
LEMMA OtherSteps ==
  ASSUME [Next]_vars
  PROVE  \/ TaskPush
         \/ SendTake
         \/ SendMsgsnd
         \/ AgentReceive
         \/ /\ UNCHANGED <<agentq, received, emitted, sendq>>
            /\ \/ ~Holding' /\ ~Holding
               \/ Holding' /\ Holding /\ held' = held
<1> USE DEF Holding, taskVars, sendVars, history
<1>1. CASE Tick \/ Request \/ AgentReceive
  BY <1>1 DEF Tick, Request
<1>2. CASE SecondTask
  BY <1>2 DEF SecondTask, TaskWait, TaskLock, TaskUnlock, TaskPost
<1>3. CASE SendMsgget \/ SendWaitFull \/ SendLock
  BY <1>3 DEF SendMsgget, SendWaitFull, SendLock
<1>4. CASE SendAbandon \/ SendUnlock
  BY <1>4 DEF SendAbandon, SendUnlock
<1>5. CASE UNCHANGED vars
  BY <1>5 DEF vars
<1> QED BY <1>1, <1>2, <1>3, <1>4, <1>5 DEF Next, Sender

\* The order along the way of the traps is preserved.
LEMMA OrderedInductive == IInv /\ IInv' /\ Ordered /\ [Next]_vars => Ordered'
<1> SUFFICES ASSUME IInv, IInv', Ordered, [Next]_vars PROVE Ordered'
  OBVIOUS
<1>1. Behind \in Int
  BY OrderTypes
<1>2. CASE TaskPush
  <2>1. Behind <= Behind'
    BY <1>1, <1>2, PushKeepsBehind
  <2>2. /\ agentq' = agentq /\ received' = received
        /\ sendPc' = sendPc /\ held' = held
    BY <1>2 DEF TaskPush, sendVars
  <2>3. Holding' = Holding
    BY <2>2 DEF Holding
  <2> QED BY <2>1, <2>2, <2>3, OrderKept
<1>3. CASE SendTake
  <2>1. agentq' = agentq /\ received' = received /\ emitted' = emitted
    BY <1>3 DEF SendTake, history
  <2>2. CASE sendPc' = "unlock"
    <3>1. held' = Behind + 1 /\ Behind' = Behind + 1
      BY <1>3, <2>2, TakesNext
    <3>2. Behind < held' /\ held' <= Behind' /\ Behind <= Behind'
      BY <1>1, <3>1
    <3> QED BY <2>1, <3>2, OrderKept
  <2>3. CASE sendPc' = "abandon" /\ sendq' = sendq
    <3>1. Behind' = Behind /\ ~Holding'
      BY <2>1, <2>3 DEF Behind, Holding
    <3> QED BY <1>1, <2>1, <3>1, OrderKept
  <2> QED BY <1>3, <2>2, <2>3 DEF SendTake
<1>4. CASE SendMsgsnd
  <2>1. CASE agentq' = Append(agentq, held)
    BY <1>4, <2>1, OrderSent
  <2>2. CASE agentq' = agentq
    <3>1. /\ received' = received /\ emitted' = emitted /\ sendq' = sendq
          /\ sendPc' = "msgget"
      BY <1>4 DEF SendMsgsnd
    <3>2. Behind' = Behind /\ ~Holding'
      BY <3>1 DEF Behind, Holding
    <3> QED BY <1>1, <2>2, <3>1, <3>2, OrderKept
  <2> QED BY <1>4, <2>1, <2>2 DEF SendMsgsnd
<1>5. CASE AgentReceive
  BY <1>5, OrderReceived
<1>6. CASE /\ UNCHANGED <<agentq, received, emitted, sendq>>
           /\ ~Holding' \/ (Holding /\ held' = held)
  <2>1. Behind' = Behind
    BY <1>6 DEF Behind
  <2> QED BY <1>1, <1>6, <2>1, OrderKept
<1> QED BY <1>2, <1>3, <1>4, <1>5, <1>6, OtherSteps

\* The three parts of InFlight.
AgentPart == {agentq[k] : k \in 1 .. Len(agentq)}
QueuePart == {sendq[k] : k \in 1 .. Len(sendq)}
HeldPart  == IF Holding THEN {held} ELSE {}

\* The traps in flight, as numbers.
PartsInFlight ==
  /\ InFlight = AgentPart \cup QueuePart \cup HeldPart
  /\ QueuePart = (Behind + 1) .. emitted
  /\ \A i \in AgentPart : i \in Nat /\ i <= Behind
  /\ \A i \in HeldPart : i \in Nat /\ i <= Behind
  /\ \A i \in AgentPart, j \in HeldPart : i < j

\* The queue holds exactly the traps after Behind, and everything else in
\* flight is not after it.
LEMMA Parts == IInv /\ Ordered => PartsInFlight
<1> SUFFICES ASSUME IInv, Ordered PROVE PartsInFlight
  OBVIOUS
<1>1. InFlight = AgentPart \cup QueuePart \cup HeldPart
  BY DEF InFlight, AgentPart, QueuePart, HeldPart, Holding
<1>2. /\ Behind \in Int /\ emitted \in Nat /\ held \in Nat
      /\ Len(sendq) \in Nat
      /\ \A i \in 1 .. Len(agentq) : agentq[i] \in Nat
  BY OrderTypes
<1>3. \A k \in 1 .. Len(sendq) : sendq[k] = Behind + k
  BY <1>2 DEF IInv, NewestKept, Behind
<1>4. emitted = Behind + Len(sendq)
  BY <1>2 DEF Behind
<1>5. ASSUME NEW i \in (Behind + 1) .. emitted PROVE i \in QueuePart
  <2>1. i - Behind \in 1 .. Len(sendq) /\ Behind + (i - Behind) = i
    BY <1>2, <1>4
  <2>2. sendq[i - Behind] = i
    BY <1>3, <2>1
  <2> QED BY <2>1, <2>2 DEF QueuePart
<1>6. ASSUME NEW k \in 1 .. Len(sendq)
      PROVE  sendq[k] \in (Behind + 1) .. emitted
  <2>1. sendq[k] = Behind + k
    BY <1>3
  <2> QED BY <1>2, <1>4, <2>1
<1>7. QueuePart = (Behind + 1) .. emitted
  BY <1>5, <1>6 DEF QueuePart
<1>8. \A i \in AgentPart : i \in Nat /\ i <= Behind
  BY <1>2 DEF AgentPart, Ordered, AgentNext
<1>9. \A i \in HeldPart : i \in Nat /\ i <= Behind
  BY <1>2 DEF HeldPart, Ordered, HeldLast
<1>10. \A i \in AgentPart, j \in HeldPart : i < j
  BY DEF AgentPart, HeldPart, Ordered, AgentNext
<1> QED BY <1>1, <1>7, <1>8, <1>9, <1>10 DEF PartsInFlight

\* The same after a step.
LEMMA PartsAfter == IInv' /\ Ordered' => PartsInFlight'
  BY Parts, PTL

\* A push emits a trap, and pushes out the oldest of a full queue.
LEMMA PushEmits ==
  ASSUME IInv, IInv', Ordered, Ordered', TaskPush
  PROVE  Channel!Emit
<1>1. /\ agentq' = agentq /\ received' = received
      /\ sendPc' = sendPc /\ held' = held
  BY DEF TaskPush, sendVars
<1>2. AgentPart' = AgentPart /\ HeldPart' = HeldPart
  BY <1>1 DEF AgentPart, HeldPart, Holding
<1>3. /\ emitted' = emitted + 1
      /\ Behind' = IF IsFull(sendq) THEN Behind + 1 ELSE Behind
  BY PushKeepsBehind
<1>4. Behind \in Int /\ emitted \in Nat /\ Len(sendq) \in Nat
  BY OrderTypes
<1>5. /\ InFlight = AgentPart \cup QueuePart \cup HeldPart
      /\ QueuePart = (Behind + 1) .. emitted
      /\ \A i \in AgentPart \cup HeldPart : i \in Nat /\ i <= Behind
  BY Parts DEF PartsInFlight
<1>6. /\ InFlight' = AgentPart' \cup QueuePart' \cup HeldPart'
      /\ QueuePart' = (Behind' + 1) .. emitted'
  BY PartsAfter DEF PartsInFlight
<1>7. CASE IsFull(sendq)
  <2>1. Len(sendq) > 0 /\ Behind' = Behind + 1
    BY <1>3, <1>4, <1>7, QueueAssumption DEF IsFull
  <2>2. Behind + 1 <= emitted
    BY <1>4, <2>1 DEF Behind
  <2>3. Behind + 1 \in QueuePart /\ Behind + 1 \notin AgentPart \cup HeldPart
    BY <1>4, <1>5, <2>2
  <2>4. QueuePart' = (QueuePart \ {Behind + 1}) \cup {emitted'}
    BY <1>3, <1>4, <1>5, <1>6, <2>1, <2>2
  <2>5. InFlight' = (InFlight \ {Behind + 1}) \cup {emitted'}
    BY <1>2, <1>5, <1>6, <2>3, <2>4
  <2>6. Behind + 1 \in InFlight
    BY <1>5, <2>3
  <2> QED BY <1>1, <1>3, <2>5, <2>6 DEF Channel!Emit
<1>8. CASE ~IsFull(sendq)
  <2>1. Behind' = Behind
    BY <1>3, <1>8
  <2>2. Behind <= emitted
    BY <1>4 DEF Behind
  <2>3. QueuePart' = QueuePart \cup {emitted'}
    BY <1>3, <1>4, <1>5, <1>6, <2>1, <2>2
  <2>4. InFlight' = (InFlight \ {}) \cup {emitted'}
    BY <1>2, <1>5, <1>6, <2>3
  <2> QED BY <1>1, <1>3, <2>4 DEF Channel!Emit
<1> QED BY <1>7, <1>8

\* What the sender takes from the queue stays in flight.
LEMMA TakeKeepsInFlight ==
  ASSUME IInv, IInv', Ordered, Ordered', SendTake
  PROVE  UNCHANGED Channel!vars
<1>1. agentq' = agentq /\ received' = received /\ emitted' = emitted
  BY DEF SendTake, history
<1>2. AgentPart' = AgentPart
  BY <1>1 DEF AgentPart
<1>3. ~Holding
  BY DEF SendTake, Holding
<1>4. CASE sendPc' = "abandon" /\ sendq' = sendq
  <2>1. InFlight' = InFlight
    BY <1>1, <1>3, <1>4 DEF InFlight, Holding
  <2> QED BY <1>1, <2>1 DEF Channel!vars
<1>5. CASE sendPc' = "unlock"
  <2>1. /\ Len(sendq) > 0 /\ held' = Behind + 1 /\ Behind' = Behind + 1
    BY <1>5, TakesNext
  <2>2. Behind \in Int /\ emitted \in Nat /\ Len(sendq) \in Nat
    BY OrderTypes
  <2>3. /\ InFlight = AgentPart \cup QueuePart \cup HeldPart
        /\ QueuePart = (Behind + 1) .. emitted
    BY Parts DEF PartsInFlight
  <2>4. /\ InFlight' = AgentPart' \cup QueuePart' \cup HeldPart'
        /\ QueuePart' = (Behind' + 1) .. emitted'
    BY PartsAfter DEF PartsInFlight
  <2>5. HeldPart = {} /\ HeldPart' = {Behind + 1}
    BY <1>3, <1>5, <2>1 DEF HeldPart, Holding
  <2>6. Behind + 1 <= emitted
    BY <2>1, <2>2 DEF Behind
  <2>7. QueuePart = QueuePart' \cup {Behind + 1}
    BY <1>1, <2>1, <2>2, <2>3, <2>4, <2>6
  <2>8. InFlight' = InFlight
    BY <1>2, <2>3, <2>4, <2>5, <2>7
  <2> QED BY <1>1, <2>8 DEF Channel!vars
<1> QED BY <1>4, <1>5 DEF SendTake

\* msgsnd passes the message on, or loses it.
LEMMA MsgsndLosesOrKeeps ==
  ASSUME IInv, Ordered, SendMsgsnd
  PROVE  Channel!Lose \/ UNCHANGED Channel!vars
<1>1. /\ received' = received /\ emitted' = emitted /\ sendq' = sendq
      /\ sendPc = "msgsnd" /\ sendPc' = "msgget"
  BY DEF SendMsgsnd
<1>2. /\ HeldPart = {held} /\ HeldPart' = {} /\ QueuePart' = QueuePart
  BY <1>1 DEF HeldPart, Holding, QueuePart
<1>3. /\ InFlight = AgentPart \cup QueuePart \cup {held}
      /\ InFlight' = AgentPart' \cup QueuePart'
  BY <1>1, <1>2 DEF InFlight, AgentPart, QueuePart
<1>4. CASE agentq' = Append(agentq, held)
  <2>1. /\ agentq \in Seq(Nat) /\ Len(agentq) \in Nat /\ held \in Nat
    BY OrderTypes
  <2>2. /\ Len(agentq') = Len(agentq) + 1
        /\ \A k \in 1 .. Len(agentq) : agentq'[k] = agentq[k]
        /\ agentq'[Len(agentq) + 1] = held
    BY <1>4, <2>1
  <2>3. \A k \in 1 .. Len(agentq') :
          k \in 1 .. Len(agentq) \/ k = Len(agentq) + 1
    BY <2>1, <2>2
  <2>4. \A k \in 1 .. Len(agentq) : k \in 1 .. Len(agentq')
    BY <2>1, <2>2
  <2>5. Len(agentq) + 1 \in 1 .. Len(agentq')
    BY <2>1, <2>2
  <2>6. AgentPart' = AgentPart \cup {held}
    BY <2>2, <2>3, <2>4, <2>5 DEF AgentPart
  <2>7. InFlight' = InFlight
    BY <1>2, <1>3, <2>6
  <2> QED BY <1>1, <2>7 DEF Channel!vars
<1>5. CASE agentq' = agentq
  <2>1. AgentPart' = AgentPart
    BY <1>5 DEF AgentPart
  <2>2. held \notin AgentPart
    <3>1. \A i \in AgentPart, j \in HeldPart : i \in Nat /\ i < j
      BY Parts DEF PartsInFlight
    <3>2. held \in Nat
      BY OrderTypes
    <3> QED BY <1>2, <3>1, <3>2
  <2>3. held \notin QueuePart
    <3>1. /\ QueuePart = (Behind + 1) .. emitted
          /\ held \in Nat /\ held <= Behind
      BY <1>2, Parts DEF PartsInFlight
    <3>2. Behind \in Int /\ emitted \in Nat
      BY OrderTypes
    <3> QED BY <3>1, <3>2
  <2>4. held \in InFlight /\ InFlight' = InFlight \ {held}
    BY <1>2, <1>3, <2>1, <2>2, <2>3
  <2> QED BY <1>1, <2>4 DEF Channel!Lose
<1> QED BY <1>4, <1>5 DEF SendMsgsnd

\* The agent receives the oldest trap in flight.
LEMMA AgentReceivesOldest ==
  ASSUME IInv, Ordered, AgentReceive
  PROVE  Channel!Receive
<1>1. /\ agentq # <<>> /\ agentq' = Tail(agentq)
      /\ received' = Append(received, Head(agentq))
      /\ emitted' = emitted /\ sendq' = sendq /\ held' = held
      /\ sendPc' = sendPc
  BY DEF AgentReceive, sendVars
<1>2. agentq \in Seq(Nat) /\ Len(agentq) \in Nat
  BY OrderTypes
<1>3. Ascending(agentq)
  BY DEF Ordered, AgentNext
<1> DEFINE h == Head(agentq)
<1>4. /\ Len(agentq') = Len(agentq) - 1
      /\ \A i \in 1 .. Len(agentq') : agentq'[i] = agentq[i + 1]
      /\ h = agentq[1] /\ h \in Nat /\ Len(agentq) > 0
      /\ \A i \in 1 .. Len(agentq') : h < agentq'[i]
  BY <1>1, <1>2, <1>3, AscendingTail
<1> HIDE DEF h
<1>5. /\ \A k \in 1 .. Len(agentq) : k = 1 \/ k - 1 \in 1 .. Len(agentq')
      /\ \A k \in 1 .. Len(agentq) : (k - 1) + 1 = k
      /\ \A k \in 1 .. Len(agentq') : k + 1 \in 1 .. Len(agentq)
      /\ 1 \in 1 .. Len(agentq)
  BY <1>2, <1>4
<1>6. AgentPart = AgentPart' \cup {h}
  <2>1. \A k \in 1 .. Len(agentq) : agentq[k] \in AgentPart' \cup {h}
    <3> TAKE k \in 1 .. Len(agentq)
    <3>1. CASE k = 1
      BY <1>4, <3>1
    <3>2. CASE k - 1 \in 1 .. Len(agentq')
      <4>1. agentq'[k - 1] = agentq[k]
        BY <1>4, <1>5, <3>2
      <4> QED BY <3>2, <4>1 DEF AgentPart
    <3> QED BY <1>5, <3>1, <3>2
  <2>2. \A k \in 1 .. Len(agentq') : agentq'[k] \in AgentPart
    BY <1>4, <1>5 DEF AgentPart
  <2>3. h \in AgentPart
    BY <1>4, <1>5 DEF AgentPart
  <2> QED BY <2>1, <2>2, <2>3 DEF AgentPart
<1>7. h \in AgentPart /\ h \notin AgentPart'
  <2>1. \A i \in AgentPart' : h < i
    BY <1>4 DEF AgentPart
  <2> QED BY <1>4, <1>6, <2>1
<1>8. HeldPart' = HeldPart /\ QueuePart' = QueuePart
  BY <1>1 DEF HeldPart, Holding, QueuePart
<1>9. /\ InFlight = AgentPart \cup QueuePart \cup HeldPart
      /\ InFlight' = AgentPart' \cup QueuePart' \cup HeldPart'
  BY DEF InFlight, AgentPart, QueuePart, HeldPart, Holding
<1>10. /\ \A j \in AgentPart : h <= j
       /\ \A j \in HeldPart : h < j
       /\ \A j \in QueuePart : h < j
  <2>1. /\ \A i \in AgentPart : i \in Nat /\ i <= Behind
        /\ \A i \in AgentPart, j \in HeldPart : i < j
        /\ QueuePart = (Behind + 1) .. emitted
    BY Parts DEF PartsInFlight
  <2>2. Behind \in Int /\ emitted \in Nat
    BY OrderTypes
  <2>3. \A j \in QueuePart : h < j
    BY <1>4, <1>7, <2>1, <2>2
  <2>4. \A j \in AgentPart' : h < j
    BY <1>4 DEF AgentPart
  <2>5. \A j \in AgentPart : h <= j
    BY <1>4, <1>6, <2>1, <2>4
  <2> QED BY <1>7, <2>1, <2>3, <2>5
<1>11. h \notin HeldPart /\ h \notin QueuePart
  BY <1>4, <1>10
<1>12. InFlight' = InFlight \ {h} /\ h \in InFlight
  BY <1>6, <1>7, <1>8, <1>9, <1>11
<1>13. \A j \in InFlight : h <= j
  <2>1. \A j \in QueuePart \cup HeldPart : j \in Int
    <3>1. /\ QueuePart = (Behind + 1) .. emitted
          /\ \A i \in HeldPart : i \in Nat
      BY Parts DEF PartsInFlight
    <3> QED BY <3>1
  <2> QED BY <1>4, <1>9, <1>10, <2>1
<1> QED BY <1>1, <1>12, <1>13 DEF Channel!Receive, h

\* Every step of the pipeline is a step of the channel, or none.
LEMMA ChannelStep ==
  ASSUME IInv, IInv', Ordered, Ordered', [Next]_vars
  PROVE  [Channel!Next]_Channel!vars
<1>1. CASE TaskPush
  BY <1>1, PushEmits DEF Channel!Next
<1>2. CASE SendTake
  BY <1>2, TakeKeepsInFlight
<1>3. CASE SendMsgsnd
  BY <1>3, MsgsndLosesOrKeeps DEF Channel!Next
<1>4. CASE AgentReceive
  BY <1>4, AgentReceivesOldest DEF Channel!Next
<1>5. CASE /\ UNCHANGED <<agentq, received, emitted, sendq>>
           /\ \/ ~Holding' /\ ~Holding
              \/ Holding' /\ Holding /\ held' = held
  <2>1. InFlight' = InFlight
    BY <1>5 DEF InFlight, Holding
  <2> QED BY <1>5, <2>1 DEF Channel!vars
<1> QED BY <1>1, <1>2, <1>3, <1>4, <1>5, OtherSteps

\* The order along the whole way, for any sizes of the queues: what the agent
\* has received is ascending and older than anything still on its way.
THEOREM DeliveredInOrder == Spec => []Ordered
<1> QED BY Initially, Inductive, OrderedInitially, OrderedInductive, PTL
        DEF Spec

\* The pipeline implements the lossy channel: the agent receives traps in
\* their order, none twice and none that was not emitted, whatever
\* overwriting, failing calls and interleavings do.
THEOREM ChannelRefined == Spec => RefinesChannel
<1>1. Init => Channel!Init
  BY DEF Init, Channel!Init, InFlight
<1>2. IInv /\ IInv' /\ Ordered /\ Ordered' /\ [Next]_vars
        => [Channel!Next]_Channel!vars
  BY ChannelStep
<1> QED
  BY <1>1, <1>2, Initially, Inductive, OrderedInitially, OrderedInductive, PTL
     DEF Spec, RefinesChannel, Channel!Spec
==============================================================================
