------------------------- MODULE AckPipeline_proofs -------------------------
(***************************************************************************)
(* Proofs about AckPipeline: for every size of the three queues, any       *)
(* number of open requests, with and without failing calls.                *)
(***************************************************************************)
EXTENDS AckPipeline, FiniteSetTheorems, SequenceTheorems, TLAPS

\* The receiver appends only after it saw, or made, room; nobody else
\* appends, so the room is still there.
RoomToPush == recvPc = "push" => Len(queue) < QUEUE_MAX_SIZE

\* The inductive invariant.  That the sender finds what it was woken for
\* needs the announcements; the type of the queue needs RoomToPush.
IInv == TypeOK /\ RoomToPush /\ AnnouncementsMatch /\ RemovesWhatItSent

\* Facts about sequences, stated once for the element types used here.
LEMMA SeqFacts ==
  ASSUME NEW S, NEW q \in Seq(S)
  PROVE  /\ Len(q) \in Nat
         /\ Len(q) # 0 => /\ Head(q) \in S /\ Tail(q) \in Seq(S)
                          /\ Len(Tail(q)) = Len(q) - 1
         /\ \A x \in S : /\ Append(q, x) \in Seq(S)
                         /\ Len(Append(q, x)) = Len(q) + 1
                         /\ Len(q) # 0 => Head(Append(q, x)) = Head(q)
                         /\ Append(q, x) # <<>>
         /\ q = <<>> <=> Len(q) = 0
<1>1. Len(q) \in Nat /\ (q = <<>> <=> Len(q) = 0)
  OBVIOUS
<1>2. ASSUME Len(q) # 0
      PROVE  Head(q) \in S /\ Tail(q) \in Seq(S) /\ Len(Tail(q)) = Len(q) - 1
  BY <1>1, <1>2
<1>3. ASSUME NEW x \in S
      PROVE  /\ Append(q, x) \in Seq(S) /\ Len(Append(q, x)) = Len(q) + 1
             /\ Len(q) # 0 => Head(Append(q, x)) = Head(q)
             /\ Append(q, x) # <<>>
  <2>1. Append(q, x) \in Seq(S) /\ Len(Append(q, x)) = Len(q) + 1
    OBVIOUS
  <2>2. Append(q, x) # <<>>
    BY <1>1, <2>1
  <2>3. ASSUME Len(q) # 0 PROVE Head(Append(q, x)) = Head(q)
    <3>1. Append(q, x)[1] = q[1]
      BY <1>1, <2>3
    <3> QED BY <1>1, <2>1, <2>2, <2>3, <3>1
  <2> QED BY <2>1, <2>2, <2>3
<1> QED BY <1>1, <1>2, <1>3

\* The empty reply is a reply.
LEMMA NoAckType == NoAck \in Ack
BY DEF NoAck, Ack, Cmds

\* What a handler pushes is a reply.
LEMMA ReplyType ==
  ASSUME NEW r \in Request, NEW failed \in BOOLEAN
  PROVE  ReplyTo(r, failed) \in Ack
BY DEF ReplyTo, Request, Ack, Cmds

USE QueueAssumption, AckAssumption

\* The initial state satisfies the invariant.
LEMMA Initially == Init => IInv
<1> SUFFICES ASSUME Init PROVE IInv
  OBVIOUS
<1> USE DEF Init
<1>1. /\ recvq \in Seq(Request) /\ Len(recvq) = 0
      /\ queue \in Seq(Ack) /\ Len(queue) = 0
      /\ ackq \in Seq(Ack) /\ Len(ackq) = 0
      /\ replies \in Seq(Ack)
  OBVIOUS
<1>2. TypeOK
  <2>1. Len(recvq) <= RecvRoom /\ Len(ackq) <= AckRoom
        /\ Len(queue) <= QUEUE_MAX_SIZE /\ sent \in 0 .. MaxRequests
    BY <1>1
  <2>2. /\ flag_trap \in BOOLEAN /\ sem \in Nat /\ overwritten \in Nat
        /\ recvPc \in {"msgget", "msgrcv", "full", "pop", "push", "post", "ended"}
        /\ ackPc \in {"msgget", "wait", "get", "msgsnd", "pop", "discard",
                     "dead", "ended"}
        /\ cur \in Ack /\ held \in Ack
    BY NoAckType
  <2> QED BY <1>1, <2>1, <2>2 DEF TypeOK
<1>3. RoomToPush /\ RemovesWhatItSent
  BY DEF RoomToPush, RemovesWhatItSent
<1>4. AnnouncementsMatch
  BY <1>1 DEF AnnouncementsMatch, One
<1> QED BY <1>2, <1>3, <1>4 DEF IInv

\* Without its oldest reply the queue is still of its type.
LEMMA ShorterQueue ==
  ASSUME TypeOK, Len(queue) # 0
  PROVE  Tail(queue) \in Seq(Ack) /\ Len(Tail(queue)) <= QUEUE_MAX_SIZE
<1>1. queue \in Seq(Ack) /\ Len(queue) <= QUEUE_MAX_SIZE
  BY DEF TypeOK
<1>2. Len(queue) \in Nat /\ Len(Tail(queue)) = Len(queue) - 1
      /\ Tail(queue) \in Seq(Ack)
  BY <1>1, SeqFacts
<1> QED BY <1>1, <1>2

\* What the steps do to the variables that the three invariants beside the
\* type are about.
Counted == <<recvPc, queue, sem, ackPc, held, overwritten>>

\* Every step keeps the types; an append needs the room that was seen.
LEMMA TypeStep == TypeOK /\ RoomToPush /\ [Next]_vars => TypeOK'
<1> SUFFICES ASSUME TypeOK, RoomToPush, [Next]_vars PROVE TypeOK'
  OBVIOUS
<1> USE DEF TypeOK, recvVars, ackVars
<1>1. CASE AgentSend
  <2>1. sent' \in 0 .. MaxRequests
    BY <1>1 DEF AgentSend
  <2>2. PICK cmd \in Cmds, oper \in Opers :
          recvq' = Append(recvq, [id |-> sent', cmd |-> cmd, oper |-> oper])
    BY <1>1 DEF AgentSend
  <2>3. [id |-> sent', cmd |-> cmd, oper |-> oper] \in Request
    BY <2>1 DEF Request
  <2>4. recvq' \in Seq(Request) /\ Len(recvq') = Len(recvq) + 1
    BY <2>2, <2>3, SeqFacts
  <2>5. Len(recvq') <= RecvRoom
    BY <1>1, <2>4, SeqFacts DEF AgentSend
  <2> QED BY <1>1, <2>1, <2>4, <2>5 DEF AgentSend
<1>2. CASE AgentReceive
  <2>1. Len(ackq) # 0
    BY <1>2, SeqFacts DEF AgentReceive
  <2>2. /\ ackq' \in Seq(Ack) /\ Len(ackq') = Len(ackq) - 1
        /\ replies' \in Seq(Ack)
    BY <1>2, <2>1, SeqFacts DEF AgentReceive
  <2>3. Len(ackq') <= AckRoom
    BY <2>2, SeqFacts
  <2> QED BY <1>2, <2>2, <2>3 DEF AgentReceive
<1>3. CASE Receive
  <2>1. Len(recvq) # 0
    BY <1>3, SeqFacts DEF Receive
  <2>2. /\ Head(recvq) \in Request
        /\ recvq' \in Seq(Request) /\ Len(recvq') = Len(recvq) - 1
    BY <1>3, <2>1, SeqFacts DEF Receive
  <2>3. Len(recvq') <= RecvRoom
    BY <2>2, SeqFacts
  <2>4. cur' \in Ack /\ recvPc' \in {"full", "msgrcv"}
    BY <1>3, <2>2, ReplyType DEF Receive, Failures
  <2> QED BY <1>3, <2>2, <2>3, <2>4 DEF Receive
<1>4. CASE PushFull
  BY <1>4 DEF PushFull
<1>5. CASE PushPop
  <2>1. CASE IsEmpty(queue)
    BY <1>5, <2>1, NoAckType DEF PushPop
  <2>2. CASE ~IsEmpty(queue)
    <3>1. queue' = Tail(queue) /\ Len(queue) # 0
      BY <1>5, <2>2 DEF PushPop, IsEmpty, Pop
    <3>2. queue' \in Seq(Ack) /\ Len(queue') <= QUEUE_MAX_SIZE
      BY <3>1, ShorterQueue
    <3> QED BY <1>5, <2>2, <3>2 DEF PushPop
  <2> QED BY <2>1, <2>2
<1>6. CASE PushAppend
  <2>1. queue' \in Seq(Ack) /\ Len(queue') <= QUEUE_MAX_SIZE
    BY <1>6, SeqFacts DEF PushAppend, RoomToPush
  <2> QED BY <1>6, <2>1, NoAckType DEF PushAppend
<1>7. CASE PushPost \/ RecvMsgget
  BY <1>7 DEF PushPost, RecvMsgget
<1>8. CASE AckMsgget
  BY <1>8 DEF AckMsgget
<1>9. CASE AckWait
  BY <1>9 DEF AckWait
<1>10. CASE AckGet
  <2>1. held' \in Ack /\ ackPc' \in {"msgsnd", "discard"}
    BY <1>10, SeqFacts DEF AckGet, IsEmpty, Get
  <2> QED BY <1>10, <2>1 DEF AckGet
<1>11. CASE AckMsgsnd
  <2>1. CASE Len(ackq) < AckRoom /\ ackq' = Append(ackq, held)
    <3>1. ackq' \in Seq(Ack) /\ Len(ackq') = Len(ackq) + 1 /\ Len(ackq) \in Nat
      BY <2>1, SeqFacts
    <3>2. Len(ackq') <= AckRoom
      BY <2>1, <3>1
    <3> QED BY <1>11, <3>1, <3>2 DEF AckMsgsnd
  <2>2. CASE UNCHANGED ackq
    BY <1>11, <2>2 DEF AckMsgsnd
  <2> QED BY <1>11, <2>1, <2>2 DEF AckMsgsnd
<1>12. CASE AckPop
  <2>1. /\ ackPc' \in {"dead", "wait"}
        /\ queue' = queue \/ (queue' = Tail(queue) /\ Len(queue) # 0)
    BY <1>12 DEF AckPop, IsEmpty, Pop
  <2>2. queue' \in Seq(Ack) /\ Len(queue') <= QUEUE_MAX_SIZE
    BY <2>1, ShorterQueue
  <2> QED BY <1>12, <2>1, <2>2, NoAckType DEF AckPop
<1>13. CASE UNCHANGED vars
  BY <1>13 DEF vars
<1> QED
  BY <1>1, <1>2, <1>3, <1>4, <1>5, <1>6, <1>7, <1>8, <1>9, <1>10, <1>11,
     <1>12, <1>13 DEF Next, RecvThread, AckThread

\* Every step preserves the invariant.
LEMMA Inductive == IInv /\ [Next]_vars => IInv'
<1> SUFFICES ASSUME IInv, [Next]_vars
             PROVE  RoomToPush' /\ AnnouncementsMatch' /\ RemovesWhatItSent'
  BY TypeStep DEF IInv
<1>t. /\ queue \in Seq(Ack) /\ Len(queue) \in Nat /\ sem \in Nat
      /\ overwritten \in Nat /\ cur \in Ack
      /\ Len(queue) <= QUEUE_MAX_SIZE
  BY SeqFacts DEF IInv, TypeOK
<1>i. RoomToPush /\ AnnouncementsMatch /\ RemovesWhatItSent
  BY DEF IInv
<1> USE DEF RoomToPush, AnnouncementsMatch, RemovesWhatItSent, One
<1>1. CASE UNCHANGED Counted
  BY <1>i, <1>1 DEF Counted
<1>2. CASE Receive
  BY <1>i, <1>2 DEF Receive, ackVars
<1>3. CASE PushFull
  BY <1>i, <1>t, <1>3 DEF PushFull, IsFull, ackVars
<1>4. CASE PushPop
  <2>1. CASE IsEmpty(queue)
    BY <1>i, <1>4, <2>1 DEF PushPop, ackVars
  <2>2. CASE ~IsEmpty(queue)
    <3>1. Len(queue') = Len(queue) - 1 /\ Len(queue) # 0
      BY <1>t, <1>4, <2>2, SeqFacts DEF PushPop, IsEmpty, Pop
    <3> QED BY <1>i, <1>t, <1>4, <2>2, <3>1 DEF PushPop, ackVars
  <2> QED BY <2>1, <2>2
<1>5. CASE PushAppend
  <2>1. /\ Len(queue') = Len(queue) + 1 /\ queue' # <<>>
        /\ queue # <<>> => Head(queue') = Head(queue)
    BY <1>t, <1>5, SeqFacts DEF PushAppend
  <2> QED BY <1>i, <1>t, <1>5, <2>1 DEF PushAppend, ackVars
<1>6. CASE PushPost \/ RecvMsgget
  BY <1>i, <1>t, <1>6 DEF PushPost, RecvMsgget, ackVars
<1>7. CASE AckMsgget
  BY <1>i, <1>7 DEF AckMsgget, recvVars
<1>8. CASE AckWait
  BY <1>i, <1>t, <1>8 DEF AckWait, recvVars
<1>9. CASE AckGet
  <2>1. CASE IsEmpty(queue)
    BY <1>i, <1>t, <1>9, <2>1 DEF AckGet, IsEmpty, recvVars
  <2>2. CASE ~IsEmpty(queue)
    <3>1. queue # <<>>
      BY <1>t, <2>2, SeqFacts DEF IsEmpty
    <3> QED BY <1>i, <1>9, <2>2, <3>1 DEF AckGet, Get, recvVars
  <2> QED BY <2>1, <2>2
<1>10. CASE AckMsgsnd
  BY <1>i, <1>10 DEF AckMsgsnd, recvVars
<1>11. CASE AckPop
  <2>1. CASE IsEmpty(queue)
    BY <1>i, <1>t, <1>11, <2>1, SeqFacts DEF AckPop, IsEmpty, recvVars
  <2>2. CASE ~IsEmpty(queue)
    <3>1. Len(queue') = Len(queue) - 1 /\ Len(queue) # 0
      BY <1>t, <1>11, <2>2, SeqFacts DEF AckPop, IsEmpty, Pop
    <3> QED BY <1>i, <1>t, <1>11, <2>2, <3>1 DEF AckPop, recvVars
  <2> QED BY <2>1, <2>2
<1>12. AgentSend \/ AgentReceive \/ UNCHANGED vars => UNCHANGED Counted
  BY DEF AgentSend, AgentReceive, vars, Counted, recvVars, ackVars
<1> QED
  BY <1>1, <1>2, <1>3, <1>4, <1>5, <1>6, <1>7, <1>8, <1>9, <1>10, <1>11,
     <1>12 DEF Next, RecvThread, AckThread

\* Type correctness; in particular the queue stays within its limit although
\* its test and its push are separate steps.
THEOREM TypeCorrect == Spec => []TypeOK
<1>1. IInv => TypeOK
  BY DEF IInv
<1> QED BY <1>1, Initially, Inductive, PTL DEF Spec

\* Announcements and replies differ by the overwritten replies, for every
\* interleaving of the unlocked operations.
THEOREM AnnouncementsCorrect == Spec => []AnnouncementsMatch
<1>1. IInv => AnnouncementsMatch
  BY DEF IInv
<1> QED BY <1>1, Initially, Inductive, PTL DEF Spec

\* As long as nothing was overwritten, the sender removes what it has sent
\* and never finds an empty queue.
THEOREM RemovalCorrect == Spec => []RemovesWhatItSent
<1>1. IInv => RemovesWhatItSent
  BY DEF IInv
<1> QED BY <1>1, Initially, Inductive, PTL DEF Spec
-----------------------------------------------------------------------------
(* A careful agent: nothing is ever overwritten.                           *)

\* Requests are numbered without a gap, so those up to Taken have left the
\* System V queue of the requests.
Taken    == sent - Len(recvq)
Numbered == \A k \in 1 .. Len(recvq) : recvq[k].id = Taken + k

\* The receiver holds a reply that is not in the queue yet.
HasCur == recvPc \in {"full", "pop", "push"}

\* The window bounds the open requests, and the queue is never found full.
Careful == /\ overwritten = 0 /\ recvPc # "pop"
           /\ OpenReplies <= Window

\* The elements of a sequence that was appended to, and of a tail.
LEMMA AppendAt ==
  ASSUME NEW S, NEW q \in Seq(S), NEW x \in S
  PROVE  /\ \A k \in 1 .. Len(q) : /\ Append(q, x)[k] = q[k]
                                   /\ k \in 1 .. Len(Append(q, x))
         /\ Append(q, x)[Len(q) + 1] = x
         /\ Len(q) + 1 \in 1 .. Len(Append(q, x))
         /\ \A k \in 1 .. Len(Append(q, x)) :
              k \in 1 .. Len(q) \/ k = Len(q) + 1
<1>1. /\ Len(q) \in Nat /\ Len(Append(q, x)) = Len(q) + 1
      /\ \A k \in 1 .. Len(q) : Append(q, x)[k] = q[k]
      /\ Append(q, x)[Len(q) + 1] = x
  OBVIOUS
<1> QED BY <1>1

LEMMA TailAt ==
  ASSUME NEW S, NEW q \in Seq(S), Len(q) # 0
  PROVE  /\ Head(q) = q[1] /\ 1 \in 1 .. Len(q)
         /\ \A k \in 1 .. Len(Tail(q)) : /\ Tail(q)[k] = q[k + 1]
                                         /\ k + 1 \in 1 .. Len(q)
         /\ \A k \in 1 .. Len(q) :
              \/ k = 1
              \/ k - 1 \in 1 .. Len(Tail(q)) /\ Tail(q)[k - 1] = q[k]
<1>1. /\ Len(q) \in Nat /\ Len(Tail(q)) = Len(q) - 1
      /\ \A k \in 1 .. Len(Tail(q)) : Tail(q)[k] = q[k + 1]
      /\ Head(q) = q[1]
  OBVIOUS
<1>2. \A k \in 1 .. Len(Tail(q)) : k + 1 \in 1 .. Len(q)
  BY <1>1
<1>3. ASSUME NEW k \in 1 .. Len(q), k # 1
      PROVE  k - 1 \in 1 .. Len(Tail(q)) /\ Tail(q)[k - 1] = q[k]
  <2>1. k - 1 \in 1 .. Len(Tail(q)) /\ (k - 1) + 1 = k
    BY <1>1, <1>3
  <2>2. Tail(q)[k - 1] = q[(k - 1) + 1]
    BY <1>1, <2>1
  <2> QED BY <2>1, <2>2
<1> QED BY <1>1, <1>2, <1>3

\* What Expecting is of a longer and of a shorter sequence of requests.
LEMMA ExpectingAppend ==
  ASSUME NEW q \in Seq(Request), NEW r \in Request
  PROVE  Expecting(Append(q, r))
           = Expecting(q) \cup IF HasReply(r) THEN {r.id} ELSE {}
<1> DEFINE p == Append(q, r)
<1>1. /\ \A k \in 1 .. Len(q) : p[k] = q[k] /\ k \in 1 .. Len(p)
      /\ p[Len(q) + 1] = r
      /\ Len(q) + 1 \in 1 .. Len(p)
      /\ \A k \in 1 .. Len(p) : k \in 1 .. Len(q) \/ k = Len(q) + 1
  BY AppendAt
<1> HIDE DEF p
<1>2. Expecting(p) = Expecting(q) \cup IF HasReply(r) THEN {r.id} ELSE {}
  BY <1>1 DEF Expecting
<1> QED BY <1>2 DEF p

LEMMA ExpectingTail ==
  ASSUME NEW q \in Seq(Request), Len(q) # 0
  PROVE  Expecting(q) = Expecting(Tail(q))
                          \cup IF HasReply(Head(q)) THEN {Head(q).id} ELSE {}
<1> DEFINE t == Tail(q)
<1>1. /\ Head(q) = q[1] /\ 1 \in 1 .. Len(q)
      /\ \A k \in 1 .. Len(t) : t[k] = q[k + 1] /\ k + 1 \in 1 .. Len(q)
      /\ \A k \in 1 .. Len(q) :
           k = 1 \/ (k - 1 \in 1 .. Len(t) /\ t[k - 1] = q[k])
  BY TailAt
<1> HIDE DEF t
<1> DEFINE first == IF HasReply(Head(q)) THEN {Head(q).id} ELSE {}
<1>2. ASSUME NEW n \in Expecting(q) PROVE n \in Expecting(t) \cup first
  <2>1. PICK k \in 1 .. Len(q) : HasReply(q[k]) /\ n = q[k].id
    BY DEF Expecting
  <2>2. CASE k = 1
    BY <1>1, <2>1, <2>2
  <2>3. CASE k - 1 \in 1 .. Len(t) /\ t[k - 1] = q[k]
    BY <2>1, <2>3 DEF Expecting
  <2> QED BY <1>1, <2>2, <2>3
<1>3. ASSUME NEW n \in Expecting(t) PROVE n \in Expecting(q)
  <2>1. PICK k \in 1 .. Len(t) : HasReply(t[k]) /\ n = t[k].id
    BY DEF Expecting
  <2> QED BY <1>1, <2>1 DEF Expecting
<1>4. first \subseteq Expecting(q)
  BY <1>1 DEF Expecting
<1> QED BY <1>2, <1>3, <1>4 DEF t

\* The requests in the System V queue are numbered on from Taken.
LEMMA NumberedInitially == Init => Numbered
  BY DEF Init, Numbered

LEMMA NumberedStep == TypeOK /\ Numbered /\ [Next]_vars => Numbered'
<1> SUFFICES ASSUME TypeOK, Numbered, [Next]_vars PROVE Numbered'
  OBVIOUS
<1>1. recvq \in Seq(Request) /\ Len(recvq) \in Nat /\ sent \in Nat
  BY DEF TypeOK
<1>2. CASE AgentSend
  <2>1. PICK r : /\ r.id = sent' /\ r \in Request
                 /\ sent' = sent + 1 /\ recvq' = Append(recvq, r)
    <3>1. PICK cmd \in Cmds, oper \in Opers :
            recvq' = Append(recvq, [id |-> sent', cmd |-> cmd, oper |-> oper])
      BY <1>2 DEF AgentSend
    <3>2. sent' = sent + 1 /\ sent' \in Nat
      BY <1>1, <1>2 DEF AgentSend
    <3> QED BY <3>1, <3>2 DEF Request
  <2>2. /\ \A k \in 1 .. Len(recvq) : recvq'[k] = recvq[k]
        /\ recvq'[Len(recvq) + 1] = r
        /\ \A k \in 1 .. Len(recvq') :
             k \in 1 .. Len(recvq) \/ k = Len(recvq) + 1
    BY <1>1, <2>1, AppendAt
  <2>3. Len(recvq') = Len(recvq) + 1
    BY <1>1, <2>1, SeqFacts
  <2>4. Taken' = Taken
    BY <1>1, <2>1, <2>3 DEF Taken
  <2>5. Taken + (Len(recvq) + 1) = sent'
    BY <1>1, <2>1 DEF Taken
  <2> QED BY <2>1, <2>2, <2>4, <2>5 DEF Numbered
<1>3. CASE Receive
  <2>1. /\ Len(recvq) # 0 /\ recvq' = Tail(recvq) /\ sent' = sent
    BY <1>1, <1>3, SeqFacts DEF Receive
  <2>2. \A k \in 1 .. Len(recvq') : /\ recvq'[k] = recvq[k + 1]
                                    /\ k + 1 \in 1 .. Len(recvq)
    BY <1>1, <2>1, TailAt
  <2>3. Len(recvq') = Len(recvq) - 1
    BY <1>1, <2>1, SeqFacts
  <2>4. Taken' = Taken + 1 /\ Taken \in Int
    BY <1>1, <2>1, <2>3 DEF Taken
  <2>5. ASSUME NEW k \in 1 .. Len(recvq')
        PROVE  recvq'[k].id = Taken' + k
    <3>1. recvq'[k].id = Taken + (k + 1)
      BY <2>2 DEF Numbered
    <3> QED BY <2>4, <3>1
  <2> QED BY <2>5 DEF Numbered
<1>4. CASE UNCHANGED <<sent, recvq>>
  BY <1>4 DEF Numbered, Taken
<1>5. AgentReceive => UNCHANGED <<sent, recvq>>
  BY DEF AgentReceive
<1>6. RecvMsgget \/ PushFull \/ PushPop \/ PushAppend \/ PushPost
        => UNCHANGED <<sent, recvq>>
  BY DEF RecvMsgget, PushFull, PushPop, PushAppend, PushPost
<1>7. AckThread => UNCHANGED <<sent, recvq>>
  BY DEF AckThread, AckMsgget, AckWait, AckGet, AckMsgsnd, AckPop
<1>8. UNCHANGED vars => UNCHANGED <<sent, recvq>>
  BY DEF vars
<1> QED
  BY <1>2, <1>3, <1>4, <1>5, <1>6, <1>7, <1>8 DEF Next, RecvThread

\* The requests with a reply are finitely many, none newer than the last.
LEMMA ExpectingFinite ==
  TypeOK /\ Numbered =>
    /\ IsFiniteSet(Expecting(recvq)) /\ Cardinality(Expecting(recvq)) \in Nat
    /\ \A n \in Expecting(recvq) : n \in Nat /\ Taken < n /\ n <= sent
<1> SUFFICES ASSUME TypeOK, Numbered
             PROVE  /\ IsFiniteSet(Expecting(recvq))
                    /\ Cardinality(Expecting(recvq)) \in Nat
                    /\ \A n \in Expecting(recvq) :
                         n \in Nat /\ Taken < n /\ n <= sent
  OBVIOUS
<1>1. recvq \in Seq(Request) /\ Len(recvq) \in Nat /\ sent \in Nat
  BY DEF TypeOK
<1>2. ASSUME NEW k \in 1 .. Len(recvq)
      PROVE  /\ recvq[k].id \in Nat
             /\ Taken < recvq[k].id /\ recvq[k].id <= sent
  <2>1. recvq[k] \in Request
    BY <1>1, ElementOfSeq
  <2>2. recvq[k].id \in Nat
    BY <2>1 DEF Request
  <2>3. recvq[k].id = Taken + k
    BY DEF Numbered
  <2> QED BY <1>1, <2>2, <2>3 DEF Taken
<1>3. \A n \in Expecting(recvq) : n \in Nat /\ Taken < n /\ n <= sent
  BY <1>2 DEF Expecting
<1>4. IsFiniteSet(Expecting(recvq))
  <2>1. Expecting(recvq) \in SUBSET Nat /\ \A n \in Expecting(recvq) : n <= sent
    BY <1>3
  <2> QED BY <1>1, <2>1, FS_BoundedSetOfNaturals
<1> QED BY <1>3, <1>4, FS_CardinalityType

\* OpenReplies as a sum of four numbers.
Asked   == Cardinality(Expecting(recvq))
Pushing == One(recvPc \in {"full", "pop", "push"})
Leaving == One(ackPc = "pop")

LEMMA OpenSum ==
  /\ OpenReplies = Asked + Pushing + Len(queue) - Leaving + Len(ackq)
  /\ OpenReplies' = Asked' + Pushing' + Len(queue') - Leaving' + Len(ackq')
  /\ Pushing \in {0, 1} /\ Leaving \in {0, 1}
  BY DEF OpenReplies, Asked, Pushing, Leaving, One

\* The types that the next lemmas need, before and after a step.
CountTypes == /\ Asked \in Nat /\ Len(queue) \in Nat /\ Len(ackq) \in Nat
              /\ recvq \in Seq(Request) /\ queue \in Seq(Ack)
              /\ ackq \in Seq(Ack) /\ Len(queue) <= QUEUE_MAX_SIZE
              /\ IsFiniteSet(Expecting(recvq))

LEMMA CountsAreNumbers == IInv /\ Numbered => CountTypes
<1> SUFFICES ASSUME IInv, Numbered PROVE CountTypes
  OBVIOUS
<1>1. TypeOK
  BY DEF IInv
<1>2. Asked \in Nat /\ IsFiniteSet(Expecting(recvq))
  BY <1>1, ExpectingFinite DEF Asked
<1>3. /\ queue \in Seq(Ack) /\ ackq \in Seq(Ack) /\ recvq \in Seq(Request)
      /\ Len(queue) <= QUEUE_MAX_SIZE
  BY <1>1 DEF TypeOK
<1> QED BY <1>2, <1>3, SeqFacts DEF CountTypes

\* The agent asks only within its window; a request without a reply does not
\* count.
LEMMA AskWithinWindow ==
  ASSUME IInv, Numbered, OpenReplies <= Window, AgentSend
  PROVE  OpenReplies' <= Window
<1>1. /\ CountTypes
      /\ sent \in Nat
  BY CountsAreNumbers DEF IInv, TypeOK
<1>2. PICK cmd \in Cmds, oper \in Opers :
        LET r == [id |-> sent', cmd |-> cmd, oper |-> oper] IN
          /\ HasReply(r) => OpenReplies < Window
          /\ recvq' = Append(recvq, r)
  BY DEF AgentSend
<1> DEFINE r == [id |-> sent', cmd |-> cmd, oper |-> oper]
<1>3. sent' = sent + 1 /\ r.id = sent' /\ r \in Request
  BY <1>1 DEF AgentSend, Request
<1>4. /\ HasReply(r) => OpenReplies < Window
      /\ recvq' = Append(recvq, r)
  BY <1>2
<1> HIDE DEF r
<1>5. Expecting(recvq') = Expecting(recvq) \cup IF HasReply(r) THEN {r.id} ELSE {}
  BY <1>1, <1>3, <1>4, ExpectingAppend DEF CountTypes
<1>6. Pushing' = Pushing /\ Leaving' = Leaving /\ queue' = queue /\ ackq' = ackq
  BY DEF AgentSend, Pushing, Leaving, recvVars, ackVars
<1>7. CASE HasReply(r)
  <2>1. Expecting(recvq') = Expecting(recvq) \cup {r.id}
    BY <1>5, <1>7
  <2>2. Cardinality(Expecting(recvq')) \in {Asked, Asked + 1}
    BY <1>1, <2>1, FS_AddElement DEF Asked, CountTypes
  <2>3. Asked' = Asked \/ Asked' = Asked + 1
    BY <2>2 DEF Asked
  <2>4. /\ OpenReplies = Asked + Pushing + Len(queue) - Leaving + Len(ackq)
        /\ Pushing \in {0, 1} /\ Leaving \in {0, 1}
    BY OpenSum
  <2>5. OpenReplies' = Asked' + Pushing' + Len(queue') - Leaving' + Len(ackq')
    BY OpenSum
  <2>6. OpenReplies < Window
    BY <1>4, <1>7
  <2>7. Asked \in Nat /\ Len(queue) \in Nat /\ Len(ackq) \in Nat
    BY <1>1 DEF CountTypes
  <2>8. Window \in Nat
    BY AckAssumption
  <2>9. OpenReplies' <= OpenReplies + 1
    BY <1>6, <2>3, <2>4, <2>5, <2>7
  <2>10. OpenReplies \in Int /\ OpenReplies' \in Int
    BY <1>6, <2>3, <2>4, <2>5, <2>7
  <2> QED BY <2>6, <2>8, <2>9, <2>10
<1>8. CASE ~HasReply(r)
  <2>1. Expecting(recvq') = Expecting(recvq)
    BY <1>5, <1>8
  <2>2. OpenReplies' = OpenReplies
    BY <1>6, <2>1 DEF OpenReplies, Pushing, Leaving, One
  <2> QED BY <2>2
<1> QED BY <1>7, <1>8

\* The request that the receiver takes is no longer asked for.
LEMMA TakenFromAsked ==
  ASSUME IInv, IInv', Numbered, Numbered', Receive
  PROVE  LET r == Head(recvq) IN
         /\ r \in Request /\ r.id = Taken + 1 /\ Taken' = Taken + 1
         /\ HasReply(r) => /\ Expecting(recvq) = Expecting(recvq') \cup {r.id}
                           /\ r.id \notin Expecting(recvq')
                           /\ Asked' = Asked - 1
         /\ ~HasReply(r) => /\ Expecting(recvq) = Expecting(recvq')
                            /\ Asked' = Asked
<1> DEFINE r == Head(recvq)
<1>1. /\ recvq \in Seq(Request) /\ Len(recvq) \in Nat /\ sent \in Nat
      /\ IsFiniteSet(Expecting(recvq)) /\ Asked \in Nat
  BY CountsAreNumbers DEF IInv, TypeOK, CountTypes
<1>2. Len(recvq) # 0 /\ recvq' = Tail(recvq) /\ sent' = sent
  BY <1>1, SeqFacts DEF Receive
<1>3. r \in Request /\ Len(recvq') = Len(recvq) - 1
  BY <1>1, <1>2, SeqFacts
<1>4. r = recvq[1] /\ 1 \in 1 .. Len(recvq)
  BY <1>1, <1>2, TailAt
<1>5. r.id = Taken + 1
  BY <1>4 DEF Numbered
<1>6. Taken' = Taken + 1 /\ Taken \in Int
  BY <1>1, <1>2, <1>3 DEF Taken
<1>7. Expecting(recvq) = Expecting(recvq') \cup IF HasReply(r) THEN {r.id} ELSE {}
  BY <1>1, <1>2, ExpectingTail
<1>8. \A n \in Expecting(recvq') : n \in Nat /\ Taken' < n
  <2>1. TypeOK' /\ Numbered'
    BY DEF IInv
  <2>2. TypeOK' /\ Numbered' => \A n \in Expecting(recvq') : n \in Nat /\ Taken' < n
    <3>1. recvq' \in Seq(Request) /\ Len(recvq') \in Nat
      BY <1>1, <1>2, <1>3, SeqFacts
    <3>2. ASSUME NEW k \in 1 .. Len(recvq')
          PROVE  recvq'[k].id \in Nat /\ Taken' < recvq'[k].id
      <4>1. recvq'[k] \in Request
        BY <3>1, ElementOfSeq
      <4>2. recvq'[k].id \in Nat
        BY <4>1 DEF Request
      <4>3. recvq'[k].id = Taken' + k
        BY DEF Numbered
      <4> QED BY <1>6, <3>1, <4>2, <4>3
    <3> QED BY <3>2 DEF Expecting
  <2> QED BY <2>1, <2>2
<1>9. r.id \notin Expecting(recvq')
  BY <1>5, <1>6, <1>8
<1> HIDE DEF r
<1>10. CASE HasReply(r)
  <2>1. Expecting(recvq) = Expecting(recvq') \cup {r.id}
    BY <1>7, <1>10
  <2>2. Expecting(recvq') = Expecting(recvq) \ {r.id} /\ r.id \in Expecting(recvq)
    BY <1>9, <2>1
  <2>3. Asked' = Asked - 1
    <3> DEFINE e == Expecting(recvq)
    <3>1. Cardinality(e \ {r.id}) = Cardinality(e) - 1
      <4>1. IsFiniteSet(e) /\ r.id \in e
        BY <1>1, <2>2
      <4> HIDE DEF e
      <4> QED BY <4>1, FS_RemoveElement
    <3> QED BY <2>2, <3>1 DEF Asked
  <2> QED BY <1>3, <1>5, <1>6, <1>9, <1>10, <2>1, <2>3 DEF r
<1>11. CASE ~HasReply(r)
  <2>1. Expecting(recvq) = Expecting(recvq')
    BY <1>7, <1>11
  <2> QED BY <1>3, <1>5, <1>6, <1>11, <2>1 DEF r, Asked
<1> QED BY <1>10, <1>11

\* With a window smaller than the queue no step finds the queue full, and no
\* step opens more requests than the window has.
LEMMA CarefulStep ==
  ASSUME Window < QUEUE_MAX_SIZE, IInv, IInv', Numbered, Numbered', Careful,
         [Next]_vars
  PROVE  Careful'
<1>1. /\ Asked \in Nat /\ Len(queue) \in Nat /\ Len(ackq) \in Nat
      /\ recvq \in Seq(Request) /\ queue \in Seq(Ack)
      /\ ackq \in Seq(Ack)
  BY CountsAreNumbers DEF CountTypes
<1>2. /\ OpenReplies = Asked + Pushing + Len(queue) - Leaving + Len(ackq)
      /\ OpenReplies' = Asked' + Pushing' + Len(queue') - Leaving' + Len(ackq')
      /\ Pushing \in {0, 1} /\ Leaving \in {0, 1}
  BY OpenSum
<1>3. /\ overwritten = 0 /\ recvPc # "pop" /\ OpenReplies <= Window
      /\ Window \in Nat
  BY AckAssumption DEF Careful
<1>4. /\ ackPc \notin {"discard", "dead"}
      /\ ackPc = "pop" => Len(queue) # 0
  BY <1>1, <1>3, SeqFacts DEF IInv, RemovesWhatItSent
<1>5. CASE AgentSend
  <2>1. recvPc' = recvPc /\ overwritten' = overwritten
    BY <1>5 DEF AgentSend, recvVars
  <2> QED BY <1>3, <1>5, <2>1, AskWithinWindow DEF Careful
<1>6. CASE AgentReceive
  <2>1. /\ recvPc' = recvPc /\ overwritten' = overwritten /\ queue' = queue
        /\ recvq' = recvq /\ ackPc' = ackPc
        /\ ackq # <<>> /\ ackq' = Tail(ackq)
    BY <1>6 DEF AgentReceive, recvVars, ackVars
  <2>2. Len(ackq') = Len(ackq) - 1
    BY <1>1, <2>1, SeqFacts
  <2>3. Asked' = Asked /\ Pushing' = Pushing /\ Leaving' = Leaving
    BY <2>1 DEF Asked, Pushing, Leaving
  <2>4. OpenReplies' <= Window
    BY <1>1, <1>2, <1>3, <2>1, <2>2, <2>3
  <2> QED BY <1>3, <2>1, <2>4 DEF Careful
<1>7. CASE Receive
  <2>1. /\ overwritten' = overwritten /\ queue' = queue /\ ackq' = ackq
        /\ ackPc' = ackPc /\ recvPc = "msgrcv"
    BY <1>7 DEF Receive, ackVars
  <2>2. Leaving' = Leaving /\ Pushing = 0
    BY <2>1 DEF Leaving, Pushing, One
  <2>3. CASE HasReply(Head(recvq))
    <3>1. recvPc' = "full"
      BY <1>7, <2>3 DEF Receive
    <3>2. Pushing' = 1
      BY <3>1 DEF Pushing, One
    <3>3. Asked' = Asked - 1
      BY <1>7, <2>3, TakenFromAsked
    <3>4. OpenReplies' <= Window
      BY <1>1, <1>2, <1>3, <2>1, <2>2, <3>2, <3>3
    <3> QED BY <1>3, <2>1, <3>1, <3>4 DEF Careful
  <2>4. CASE ~HasReply(Head(recvq))
    <3>1. recvPc' = recvPc
      BY <1>7, <2>4 DEF Receive
    <3>2. Pushing' = Pushing
      BY <3>1 DEF Pushing
    <3>3. Asked' = Asked
      BY <1>7, <2>4, TakenFromAsked
    <3>4. OpenReplies' <= Window
      BY <1>1, <1>2, <1>3, <2>1, <2>2, <3>2, <3>3
    <3> QED BY <1>3, <2>1, <3>1, <3>4 DEF Careful
  <2> QED BY <2>3, <2>4
<1>8. CASE PushFull
  <2>1. /\ overwritten' = overwritten /\ queue' = queue /\ ackq' = ackq
        /\ ackPc' = ackPc /\ recvq' = recvq /\ recvPc = "full"
        /\ recvPc' = IF IsFull(queue) THEN "pop" ELSE "push"
    BY <1>8 DEF PushFull, ackVars
  <2>2. Pushing = 1 /\ Pushing' = 1 /\ Leaving' = Leaving /\ Asked' = Asked
    BY <2>1 DEF Pushing, Leaving, Asked, One
  <2>3. ~IsFull(queue)
    <3>1. Len(queue) < QUEUE_MAX_SIZE
      BY <1>1, <1>2, <1>3, <2>2, QueueAssumption
    <3> QED BY <1>1, <3>1, QueueAssumption DEF IsFull
  <2>4. OpenReplies' <= Window
    BY <1>1, <1>2, <1>3, <2>1, <2>2
  <2> QED BY <1>3, <2>1, <2>3, <2>4 DEF Careful
<1>9. CASE PushPop
  BY <1>3, <1>9 DEF PushPop
<1>10. CASE PushAppend
  <2>1. /\ overwritten' = overwritten /\ queue' = Append(queue, cur)
        /\ ackq' = ackq /\ ackPc' = ackPc /\ recvq' = recvq
        /\ recvPc = "push" /\ recvPc' = "post"
    BY <1>10 DEF PushAppend, ackVars
  <2>2. /\ Pushing = 1 /\ Pushing' = 0
        /\ Leaving' = Leaving /\ Asked' = Asked
    BY <2>1 DEF Pushing, Leaving, Asked, One
  <2>3. Len(queue') = Len(queue) + 1
    BY <1>1, <2>1, SeqFacts DEF IInv, TypeOK
  <2>4. OpenReplies' <= Window
    BY <1>1, <1>2, <1>3, <2>1, <2>2, <2>3
  <2> QED BY <1>3, <2>1, <2>4 DEF Careful
<1>11. CASE AckMsgsnd
  <2>1. /\ overwritten' = overwritten /\ queue' = queue
        /\ recvq' = recvq /\ recvPc' = recvPc
        /\ ackPc = "msgsnd" /\ ackPc' = "pop"
    BY <1>11 DEF AckMsgsnd, recvVars
  <2>2. /\ Pushing' = Pushing /\ Leaving = 0 /\ Leaving' = 1 /\ Asked' = Asked
    BY <2>1 DEF Pushing, Leaving, Asked, One
  <2>3. Len(ackq') = Len(ackq) \/ Len(ackq') = Len(ackq) + 1
    <3>1. held \in Ack
      BY DEF IInv, TypeOK
    <3>2. ackq' = ackq \/ ackq' = Append(ackq, held)
      BY <1>11 DEF AckMsgsnd
    <3> QED BY <1>1, <3>1, <3>2, SeqFacts
  <2>4. OpenReplies' <= Window
    BY <1>1, <1>2, <1>3, <2>1, <2>2, <2>3
  <2> QED BY <1>3, <2>1, <2>4 DEF Careful
<1>12. CASE AckPop
  <2>1. /\ overwritten' = overwritten /\ ackq' = ackq
        /\ recvq' = recvq /\ recvPc' = recvPc /\ ackPc = "pop"
    BY <1>4, <1>12 DEF AckPop, recvVars
  <2>2. Len(queue) # 0
    BY <1>4, <2>1
  <2>3. queue' = Tail(queue) /\ ackPc' = "wait"
    BY <1>12, <2>2 DEF AckPop, IsEmpty, Pop
  <2>4. Len(queue') = Len(queue) - 1
    BY <1>1, <2>2, <2>3, SeqFacts
  <2>5. /\ Pushing' = Pushing /\ Leaving = 1 /\ Leaving' = 0 /\ Asked' = Asked
    BY <2>1, <2>3 DEF Pushing, Leaving, Asked, One
  <2>6. OpenReplies' <= Window
    BY <1>1, <1>2, <1>3, <2>1, <2>4, <2>5
  <2> QED BY <1>3, <2>1, <2>6 DEF Careful
<1>13. CASE /\ UNCHANGED <<overwritten, queue, ackq, recvq>>
            /\ HasCur' = HasCur /\ recvPc' # "pop"
            /\ \/ ackPc # "pop" /\ ackPc' # "pop"
               \/ ackPc' = ackPc
  <2>1. Pushing' = Pushing /\ Leaving' = Leaving /\ Asked' = Asked
    BY <1>13 DEF Pushing, Leaving, Asked, One, HasCur
  <2>2. OpenReplies' <= Window
    BY <1>2, <1>3, <1>13, <2>1
  <2> QED BY <1>3, <1>13, <2>2 DEF Careful
<1>14. RecvMsgget \/ PushPost \/ AckMsgget \/ AckWait \/ AckGet \/ UNCHANGED vars
         => /\ UNCHANGED <<overwritten, queue, ackq, recvq>>
            /\ HasCur' = HasCur /\ recvPc' # "pop"
            /\ \/ ackPc # "pop" /\ ackPc' # "pop"
               \/ ackPc' = ackPc
  <2> USE <1>3 DEF recvVars, ackVars, HasCur
  <2>1. ASSUME RecvMsgget \/ PushPost
        PROVE  /\ UNCHANGED <<overwritten, queue, ackq, recvq>>
               /\ HasCur' = HasCur /\ recvPc' # "pop" /\ ackPc' = ackPc
    BY <2>1 DEF RecvMsgget, PushPost
  <2>2. ASSUME AckMsgget \/ AckWait \/ AckGet
        PROVE  /\ UNCHANGED <<overwritten, queue, ackq, recvq>>
               /\ HasCur' = HasCur /\ recvPc' # "pop"
               /\ ackPc # "pop" /\ ackPc' # "pop"
    BY <2>2 DEF AckMsgget, AckWait, AckGet
  <2>3. ASSUME UNCHANGED vars
        PROVE  /\ UNCHANGED <<overwritten, queue, ackq, recvq>>
               /\ HasCur' = HasCur /\ recvPc' # "pop" /\ ackPc' = ackPc
    BY <2>3 DEF vars
  <2> QED BY <2>1, <2>2, <2>3
<1> QED
  BY <1>5, <1>6, <1>7, <1>8, <1>9, <1>10, <1>11, <1>12, <1>13, <1>14
     DEF Next, RecvThread, AckThread

\* Initially nothing is open.
LEMMA CarefulInitially == Init => Careful
<1> SUFFICES ASSUME Init PROVE Careful
  OBVIOUS
<1>1. Expecting(recvq) = {}
  <2>1. Len(recvq) = 0
    BY DEF Init
  <2> QED BY <2>1 DEF Expecting
<1>2. Asked = 0
  BY <1>1, FS_EmptySet DEF Asked
<1>3. OpenReplies = 0
  BY <1>2, OpenSum DEF Init, Pushing, Leaving, One
<1> QED BY <1>3, AckAssumption DEF Init, Careful

\* A careful agent, with a window smaller than the queue, never makes it
\* overflow, although nobody holds a lock between the test for room and the
\* push.
THEOREM CarefulAgentNeverOverwrites == Spec => []NeverOverwritten
<1>1. CASE Window < QUEUE_MAX_SIZE
  <2>1. Careful => NeverOverwritten
    BY DEF Careful, NeverOverwritten
  <2>2. /\ IInv /\ IInv' /\ Numbered /\ Numbered' /\ Careful /\ [Next]_vars
           => Careful'
    BY <1>1, CarefulStep
  <2>3. IInv /\ Numbered /\ [Next]_vars => Numbered'
    BY NumberedStep DEF IInv
  <2> QED BY <2>1, <2>2, <2>3, Initially, Inductive, NumberedInitially,
             CarefulInitially, PTL DEF Spec
<1>2. CASE ~(Window < QUEUE_MAX_SIZE)
  <2>1. NeverOverwritten
    BY <1>2 DEF NeverOverwritten
  <2> QED BY <2>1, PTL
<1> QED BY <1>1, <1>2

\* With a careful agent, pthread_snmp_send_ack finds a reply each time the
\* semaphore lets it pass, and never returns for the lack of one.
THEOREM CarefulAgentKeepsSender ==
  ASSUME Window < QUEUE_MAX_SIZE
  PROVE  Spec => [](ackPc \notin {"discard", "dead"})
<1>1. NeverOverwritten /\ RemovesWhatItSent
        => ackPc \notin {"discard", "dead"}
  BY DEF NeverOverwritten, RemovesWhatItSent
<1> QED BY <1>1, CarefulAgentNeverOverwrites, RemovalCorrect, PTL
-----------------------------------------------------------------------------
(* The refinement of RequestReply.                                         *)

IdSet(q)        == {q[k].id : k \in 1 .. Len(q)}
AscendingIds(q) == \A i, j \in 1 .. Len(q) : i < j => q[i].id < q[j].id
Before(S, T)    == \A s \in S, t \in T : s < t

\* The places of a request that was received: its reply is about to be
\* pushed, waits in the queue, is on its way, has arrived.
Pushed   == IF HasCur THEN {cur.id} ELSE {}
Waiting  == {queue[k].id : k \in Unsent}
OnItsWay == IdSet(ackq)
Answered == IdSet(replies)

\* The replies are in the order of the requests at each place, and from each
\* place to the next.
InOrder ==
  /\ AscendingIds(queue) /\ AscendingIds(ackq)
  /\ Before(Answered, OnItsWay \cup Waiting \cup Pushed)
  /\ Before(OnItsWay, Waiting \cup Pushed)
  /\ Before(IdSet(queue), Pushed)
  /\ \A i \in Answered \cup OnItsWay \cup IdSet(queue) \cup Pushed :
       i \in Nat /\ i <= Taken

\* The requests that are open, by place.
LEMMA OpenParts ==
  /\ Open = OnItsWay \cup Waiting \cup Pushed \cup Expecting(recvq)
  /\ Open' = OnItsWay' \cup Waiting' \cup Pushed' \cup Expecting(recvq')
  BY DEF Open, OnItsWay, Waiting, Pushed, IdSet, HasCur

\* The numbers in a longer, and in a shorter, sequence of replies.
LEMMA IdsOfAppend ==
  ASSUME NEW q \in Seq(Ack), NEW x \in Ack
  PROVE  /\ IdSet(Append(q, x)) = IdSet(q) \cup {x.id}
         /\ AscendingIds(q) /\ (\A i \in IdSet(q) : i < x.id)
              => AscendingIds(Append(q, x))
<1> DEFINE p == Append(q, x)
<1>1. /\ \A k \in 1 .. Len(q) : p[k] = q[k] /\ k \in 1 .. Len(p)
      /\ p[Len(q) + 1] = x
      /\ Len(q) + 1 \in 1 .. Len(p)
      /\ \A k \in 1 .. Len(p) : k \in 1 .. Len(q) \/ k = Len(q) + 1
      /\ Len(q) \in Nat
  BY AppendAt, SeqFacts
<1> HIDE DEF p
<1>2. IdSet(p) = IdSet(q) \cup {x.id}
  BY <1>1 DEF IdSet
<1>3. ASSUME AscendingIds(q), \A i \in IdSet(q) : i < x.id
      PROVE  AscendingIds(p)
  <2> SUFFICES ASSUME NEW i \in 1 .. Len(p), NEW j \in 1 .. Len(p), i < j
               PROVE  p[i].id < p[j].id
    BY DEF AscendingIds
  <2>1. i \in 1 .. Len(q)
    BY <1>1
  <2>2. CASE j = Len(q) + 1
    <3>1. q[i].id < x.id
      BY <1>3, <2>1 DEF IdSet
    <3> QED BY <1>1, <2>1, <2>2, <3>1
  <2>3. CASE j \in 1 .. Len(q)
    <3>1. q[i].id < q[j].id
      BY <1>3, <2>1, <2>3 DEF AscendingIds
    <3> QED BY <1>1, <2>1, <2>3, <3>1
  <2> QED BY <1>1, <2>2, <2>3
<1> QED BY <1>2, <1>3 DEF p

LEMMA IdsOfTail ==
  ASSUME NEW q \in Seq(Ack), Len(q) # 0, AscendingIds(q)
  PROVE  /\ IdSet(q) = IdSet(Tail(q)) \cup {Head(q).id}
         /\ AscendingIds(Tail(q))
         /\ \A i \in IdSet(Tail(q)) : Head(q).id < i
         /\ Head(q) \in Ack /\ Head(q).id \in Nat
<1> DEFINE t == Tail(q)
<1>1. /\ Head(q) = q[1] /\ 1 \in 1 .. Len(q)
      /\ \A k \in 1 .. Len(t) : t[k] = q[k + 1] /\ k + 1 \in 1 .. Len(q)
      /\ \A k \in 1 .. Len(q) :
           k = 1 \/ (k - 1 \in 1 .. Len(t) /\ t[k - 1] = q[k])
  BY TailAt
<1>2. Head(q) \in Ack /\ Len(t) \in Nat
  BY SeqFacts
<1> HIDE DEF t
<1>3. IdSet(q) = IdSet(t) \cup {Head(q).id}
  <2>1. ASSUME NEW k \in 1 .. Len(q) PROVE q[k].id \in IdSet(t) \cup {q[1].id}
    <3>1. CASE k = 1
      BY <3>1
    <3>2. CASE k - 1 \in 1 .. Len(t) /\ t[k - 1] = q[k]
      BY <3>2 DEF IdSet
    <3> QED BY <1>1, <3>1, <3>2
  <2>2. ASSUME NEW n \in IdSet(q) PROVE n \in IdSet(t) \cup {q[1].id}
    <3>1. PICK k \in 1 .. Len(q) : n = q[k].id
      BY DEF IdSet
    <3> QED BY <2>1, <3>1
  <2>3. ASSUME NEW n \in IdSet(t) PROVE n \in IdSet(q)
    <3>1. PICK k \in 1 .. Len(t) : n = t[k].id
      BY DEF IdSet
    <3> QED BY <1>1, <3>1 DEF IdSet
  <2>4. q[1].id \in IdSet(q)
    BY <1>1 DEF IdSet
  <2> QED BY <1>1, <2>2, <2>3, <2>4
<1>4. AscendingIds(t)
  <2> SUFFICES ASSUME NEW i \in 1 .. Len(t), NEW j \in 1 .. Len(t), i < j
               PROVE  t[i].id < t[j].id
    BY DEF AscendingIds
  <2>1. i + 1 \in 1 .. Len(q) /\ j + 1 \in 1 .. Len(q) /\ i + 1 < j + 1
    BY <1>1, <1>2
  <2>2. q[i + 1].id < q[j + 1].id
    BY <2>1 DEF AscendingIds
  <2> QED BY <1>1, <2>2
<1>5. \A k \in 1 .. Len(t) : q[1].id < t[k].id
  <2> TAKE k \in 1 .. Len(t)
  <2>1. k + 1 \in 1 .. Len(q) /\ 1 < k + 1
    BY <1>1, <1>2
  <2>2. q[1].id < q[k + 1].id
    BY <1>1, <2>1 DEF AscendingIds
  <2> QED BY <1>1, <2>2
<1>6. \A i \in IdSet(t) : Head(q).id < i
  BY <1>1, <1>5 DEF IdSet
<1>7. Head(q).id \in Nat
  BY <1>2 DEF Ack
<1> QED BY <1>2, <1>3, <1>4, <1>6, <1>7 DEF t

\* What waits in the queue: all of it, but for the reply that was sent and is
\* about to be removed.
WaitingInQueue ==
  Waiting = IF ackPc = "pop" THEN IdSet(Tail(queue)) ELSE IdSet(queue)

LEMMA WaitingIs ==
  TypeOK /\ (ackPc = "pop" => queue # <<>>) => WaitingInQueue
<1> SUFFICES ASSUME TypeOK, ackPc = "pop" => queue # <<>>
             PROVE  WaitingInQueue
  OBVIOUS
<1>1. queue \in Seq(Ack) /\ Len(queue) \in Nat
  BY SeqFacts DEF TypeOK
<1>2. CASE ackPc = "pop"
  <2> DEFINE t == Tail(queue)
  <2>1. Len(queue) # 0
    BY <1>1, <1>2, SeqFacts
  <2>2. /\ \A k \in 1 .. Len(t) : t[k] = queue[k + 1] /\ k + 1 \in 1 .. Len(queue)
        /\ \A k \in 1 .. Len(queue) :
             k = 1 \/ (k - 1 \in 1 .. Len(t) /\ t[k - 1] = queue[k])
    BY <1>1, <2>1, TailAt
  <2>3. Unsent = {k \in 1 .. Len(queue) : k > 1}
    BY <1>2 DEF Unsent
  <2> HIDE DEF t
  <2>4. ASSUME NEW k \in Unsent PROVE queue[k].id \in IdSet(t)
    <3>1. k \in 1 .. Len(queue) /\ k # 1
      BY <1>1, <2>3
    <3>2. k - 1 \in 1 .. Len(t) /\ t[k - 1] = queue[k]
      BY <2>2, <3>1
    <3> QED BY <3>2 DEF IdSet
  <2>5. ASSUME NEW k \in 1 .. Len(t) PROVE t[k].id \in Waiting
    <3>1. k + 1 \in Unsent
      BY <1>1, <2>2, <2>3
    <3> QED BY <2>2, <3>1 DEF Waiting
  <2>6. Waiting = IdSet(t)
    BY <2>4, <2>5 DEF Waiting, IdSet
  <2> QED BY <1>2, <2>6 DEF WaitingInQueue, t
<1>3. CASE ackPc # "pop"
  <2>1. Unsent = 1 .. Len(queue)
    BY <1>3 DEF Unsent
  <2> QED BY <1>3, <2>1 DEF WaitingInQueue, Waiting, IdSet
<1> QED BY <1>2, <1>3

\* The same after a step.
LEMMA WaitingIsAfter ==
  TypeOK' /\ (ackPc = "pop" => queue # <<>>)' => WaitingInQueue'
  BY WaitingIs, PTL

\* What a state of the invariants gives to the proofs below.
Sound == IInv /\ Numbered /\ Careful

LEMMA SoundFacts ==
  Sound => /\ queue \in Seq(Ack) /\ ackq \in Seq(Ack)
           /\ recvq \in Seq(Request) /\ replies \in Seq(Ack)
           /\ Len(queue) \in Nat /\ Len(ackq) \in Nat /\ Len(recvq) \in Nat
           /\ cur \in Ack /\ held \in Ack /\ cur.id \in Nat /\ held.id \in Nat
           /\ sent \in Nat /\ Taken \in Int /\ Taken <= sent
           /\ WaitingInQueue
           /\ ackPc \in {"msgsnd", "pop"} => Len(queue) # 0 /\ Head(queue) = held
           /\ ackPc \notin {"discard", "dead"} /\ recvPc # "pop"
           /\ \A n \in Expecting(recvq) : n \in Nat /\ Taken < n /\ n <= sent
<1> SUFFICES ASSUME Sound
             PROVE  /\ queue \in Seq(Ack) /\ ackq \in Seq(Ack)
                    /\ recvq \in Seq(Request) /\ replies \in Seq(Ack)
                    /\ Len(queue) \in Nat /\ Len(ackq) \in Nat
                    /\ Len(recvq) \in Nat
                    /\ cur \in Ack /\ held \in Ack
                    /\ cur.id \in Nat /\ held.id \in Nat
                    /\ sent \in Nat /\ Taken \in Int /\ Taken <= sent
                    /\ WaitingInQueue
                    /\ ackPc \in {"msgsnd", "pop"}
                         => Len(queue) # 0 /\ Head(queue) = held
                    /\ ackPc \notin {"discard", "dead"} /\ recvPc # "pop"
                    /\ \A n \in Expecting(recvq) :
                         n \in Nat /\ Taken < n /\ n <= sent
  OBVIOUS
<1>1. TypeOK /\ Numbered
  BY DEF Sound, IInv
<1>2. /\ queue \in Seq(Ack) /\ ackq \in Seq(Ack)
      /\ recvq \in Seq(Request) /\ replies \in Seq(Ack)
      /\ cur \in Ack /\ held \in Ack /\ sent \in Nat
  BY <1>1 DEF TypeOK
<1>3. Len(queue) \in Nat /\ Len(ackq) \in Nat /\ Len(recvq) \in Nat
  BY <1>2, SeqFacts
<1>4. cur.id \in Nat /\ held.id \in Nat
  BY <1>2 DEF Ack
<1>5. Taken \in Int /\ Taken <= sent
  BY <1>2, <1>3 DEF Taken
<1>6. /\ ackPc \in {"msgsnd", "pop"} => queue # <<>> /\ Head(queue) = held
      /\ ackPc \notin {"discard", "dead"} /\ recvPc # "pop"
  BY DEF Sound, IInv, Careful, RemovesWhatItSent
<1>7. queue # <<>> => Len(queue) # 0
  BY <1>2, SeqFacts
<1>8. WaitingInQueue
  BY <1>1, <1>6, WaitingIs
<1>9. \A n \in Expecting(recvq) : n \in Nat /\ Taken < n /\ n <= sent
  BY <1>1, ExpectingFinite
<1> QED BY <1>2, <1>3, <1>4, <1>5, <1>6, <1>7, <1>8, <1>9

\* The numbers of a sequence of replies, as a sequence.
LEMMA IdsLength ==
  ASSUME NEW q \in Seq(Ack)
  PROVE  /\ Ids(q) \in Seq(Nat) /\ Len(Ids(q)) = Len(q)
         /\ \A k \in 1 .. Len(q) : Ids(q)[k] = q[k].id
<1>1. Len(q) \in Nat
  OBVIOUS
<1>2. \A k \in 1 .. Len(q) : q[k].id \in Nat
  <2>1. \A k \in 1 .. Len(q) : q[k] \in Ack
    BY ElementOfSeq
  <2> QED BY <2>1 DEF Ack
<1>3. Ids(q) \in Seq(Nat) /\ Len(Ids(q)) = Len(q)
  BY <1>1, <1>2 DEF Ids
<1> QED BY <1>3 DEF Ids

LEMMA IdsAppend ==
  ASSUME NEW q \in Seq(Ack), NEW x \in Ack
  PROVE  Ids(Append(q, x)) = Append(Ids(q), x.id)
<1>1. Append(q, x) \in Seq(Ack) /\ Len(Append(q, x)) = Len(q) + 1
  BY SeqFacts
<1>2. x.id \in Nat /\ Len(q) \in Nat
  BY SeqFacts DEF Ack
<1> DEFINE s == Ids(Append(q, x))
           t == Append(Ids(q), x.id)
<1>3. /\ s \in Seq(Nat) /\ Len(s) = Len(q) + 1
      /\ \A k \in 1 .. Len(q) + 1 : s[k] = Append(q, x)[k].id
  BY <1>1, IdsLength
<1>4. /\ Ids(q) \in Seq(Nat) /\ Len(Ids(q)) = Len(q)
      /\ \A k \in 1 .. Len(q) : Ids(q)[k] = q[k].id
  BY IdsLength
<1>5. /\ t \in Seq(Nat) /\ Len(t) = Len(q) + 1
      /\ \A k \in 1 .. Len(q) : t[k] = q[k].id
      /\ t[Len(q) + 1] = x.id
  BY <1>2, <1>4, AppendProperties
<1>6. /\ \A k \in 1 .. Len(q) : Append(q, x)[k] = q[k]
      /\ Append(q, x)[Len(q) + 1] = x
  BY AppendAt
<1> HIDE DEF s, t
<1>7. ASSUME NEW k \in 1 .. Len(s) PROVE s[k] = t[k]
  <2>1. k \in 1 .. Len(q) \/ k = Len(q) + 1
    BY <1>2, <1>3
  <2>2. CASE k \in 1 .. Len(q)
    BY <1>2, <1>3, <1>5, <1>6, <2>2
  <2>3. CASE k = Len(q) + 1
    BY <1>2, <1>3, <1>5, <1>6, <2>3
  <2> QED BY <2>1, <2>2, <2>3
<1>8. s = t
  BY <1>3, <1>5, <1>7, SeqEqual
<1> QED BY <1>8 DEF s, t

\* A step that leaves every reply at its place.
LEMMA AtRest ==
  ASSUME UNCHANGED <<ackq, replies, queue>>, Waiting' = Waiting,
         Pushed' = Pushed, Taken' = Taken, InOrder
  PROVE  InOrder'
<1>1. /\ OnItsWay' = OnItsWay /\ Answered' = Answered
      /\ IdSet(queue') = IdSet(queue)
      /\ AscendingIds(queue') = AscendingIds(queue)
      /\ AscendingIds(ackq') = AscendingIds(ackq)
  BY DEF OnItsWay, Answered
<1> QED BY <1>1 DEF InOrder

\* The agent asks: the request is newer than all before it.
LEMMA AskStep ==
  ASSUME Sound, InOrder, AgentSend
  PROVE  InOrder' /\ (Service!Ask \/ UNCHANGED Service!vars)
<1>1. /\ UNCHANGED <<ackq, replies, queue>> /\ ackPc' = ackPc
      /\ recvPc' = recvPc /\ cur' = cur
      /\ sent' = sent + 1 /\ sent < MaxRequests
  BY DEF AgentSend, recvVars, ackVars
<1>2. /\ recvq \in Seq(Request) /\ Len(recvq) \in Nat
      /\ sent \in Nat /\ Taken \in Int /\ Taken <= sent
      /\ \A n \in Expecting(recvq) : n \in Nat /\ Taken < n /\ n <= sent
  BY SoundFacts
<1>3. PICK cmd \in Cmds, oper \in Opers :
        recvq' = Append(recvq, [id |-> sent', cmd |-> cmd, oper |-> oper])
  BY DEF AgentSend
<1> DEFINE r == [id |-> sent', cmd |-> cmd, oper |-> oper]
<1>4. r.id = sent' /\ r \in Request /\ recvq' = Append(recvq, r)
  BY <1>1, <1>2, <1>3 DEF Request
<1> HIDE DEF r
<1>5. Expecting(recvq') = Expecting(recvq) \cup IF HasReply(r) THEN {r.id} ELSE {}
  BY <1>2, <1>4, ExpectingAppend
<1>6. Len(recvq') = Len(recvq) + 1
  BY <1>2, <1>4, SeqFacts
<1>7. Taken' = Taken
  BY <1>1, <1>2, <1>6 DEF Taken
<1>8. /\ Waiting' = Waiting /\ Pushed' = Pushed /\ OnItsWay' = OnItsWay
      /\ Answered' = Answered
  BY <1>1 DEF Waiting, Unsent, Pushed, HasCur, OnItsWay, Answered
<1>9. InOrder'
  BY <1>1, <1>7, <1>8, AtRest
<1>10. Ids(replies') = Ids(replies)
  BY <1>1
<1>11. CASE HasReply(r)
  <2>1. Open' = Open \cup {sent'}
    BY <1>4, <1>5, <1>8, <1>11, OpenParts
  <2>2. sent' \in 1 .. MaxRequests
    BY <1>1, <1>2, AckAssumption
  <2>3. /\ \A i \in OnItsWay \cup IdSet(queue) \cup Pushed : i < sent'
        /\ \A i \in Answered : i < sent'
    <3>1. \A i \in Answered \cup OnItsWay \cup IdSet(queue) \cup Pushed :
            i \in Nat /\ i <= Taken
      BY DEF InOrder
    <3>2. \A i \in Nat : i <= Taken => i < sent'
      BY <1>1, <1>2
    <3> QED BY <3>1, <3>2
  <2>4. Waiting \subseteq IdSet(queue)
    BY DEF Waiting, Unsent, IdSet
  <2>5. \A o \in Expecting(recvq) : o < sent'
    BY <1>1, <1>2
  <2>6. \A o \in Open : o < sent'
    BY <2>3, <2>4, <2>5, OpenParts
  <2>7. \A k \in 1 .. Len(Ids(replies)) : Ids(replies)[k] < sent'
    <3>1. replies \in Seq(Ack)
      BY SoundFacts
    <3>2. \A k \in 1 .. Len(replies) : replies[k].id < sent'
      BY <2>3 DEF Answered, IdSet
    <3> QED BY <3>1, <3>2, IdsLength
  <2>8. Service!Ask
    BY <1>10, <2>1, <2>2, <2>6, <2>7 DEF Service!Ask
  <2> QED BY <1>9, <2>8
<1>12. CASE ~HasReply(r)
  <2>1. Open' = Open
    BY <1>5, <1>8, <1>12, OpenParts
  <2> QED BY <1>9, <1>10, <2>1 DEF Service!vars
<1> QED BY <1>11, <1>12

\* The receiver takes a request; its reply is newer than all before it.
LEMMA ReceiveStep ==
  ASSUME Sound, Sound', InOrder, Receive
  PROVE  InOrder' /\ UNCHANGED Service!vars
<1>1. /\ UNCHANGED <<ackq, replies, queue>> /\ ackPc' = ackPc
      /\ recvPc = "msgrcv"
  BY DEF Receive, ackVars
<1>2. /\ Taken \in Int /\ queue \in Seq(Ack) /\ replies \in Seq(Ack)
  BY SoundFacts
<1> DEFINE r == Head(recvq)
<1>3. /\ r \in Request /\ r.id = Taken + 1 /\ Taken' = Taken + 1
      /\ HasReply(r) => Expecting(recvq) = Expecting(recvq') \cup {r.id}
      /\ ~HasReply(r) => Expecting(recvq) = Expecting(recvq')
  BY TakenFromAsked DEF Sound
<1>4. r.id \in Nat
  BY <1>3 DEF Request
<1>5. /\ Waiting' = Waiting /\ OnItsWay' = OnItsWay /\ Answered' = Answered
      /\ Pushed = {} /\ IdSet(queue') = IdSet(queue)
  BY <1>1 DEF Waiting, Unsent, Pushed, HasCur, OnItsWay, Answered
<1>6. /\ HasReply(r) => Pushed' = {r.id}
      /\ ~HasReply(r) => Pushed' = {}
  <2>1. HasReply(r) => cur'.id = r.id /\ recvPc' = "full"
    BY DEF Receive, ReplyTo
  <2>2. ~HasReply(r) => recvPc' = "msgrcv"
    BY <1>1 DEF Receive
  <2> QED BY <2>1, <2>2 DEF Pushed, HasCur
<1> HIDE DEF r
<1>7. Open' = Open
  BY <1>3, <1>5, <1>6, OpenParts
<1>8. /\ \A i \in Answered \cup OnItsWay \cup IdSet(queue) :
           i \in Nat /\ i <= Taken
      /\ AscendingIds(queue) /\ AscendingIds(ackq)
      /\ Before(Answered, OnItsWay \cup Waiting)
      /\ Before(OnItsWay, Waiting)
  BY <1>5 DEF InOrder
<1>9. Waiting \subseteq IdSet(queue)
  BY DEF Waiting, Unsent, IdSet
<1>10. \A i \in Answered \cup OnItsWay \cup IdSet(queue) :
         i \in Nat /\ i < r.id /\ i <= Taken'
  BY <1>2, <1>3, <1>8
<1>11. \A i \in Pushed' : i = r.id
  BY <1>6
<1>12. \A i \in Pushed' : i \in Nat /\ i <= Taken'
  BY <1>3, <1>4, <1>11
<1>13. /\ Before(Answered, OnItsWay \cup Waiting \cup Pushed')
       /\ Before(OnItsWay, Waiting \cup Pushed')
       /\ Before(IdSet(queue), Pushed')
  BY <1>8, <1>10, <1>11 DEF Before
<1>14. AscendingIds(queue') /\ AscendingIds(ackq')
  BY <1>1, <1>8
<1>15. InOrder'
  BY <1>5, <1>10, <1>12, <1>13, <1>14 DEF InOrder
<1> QED BY <1>1, <1>7, <1>15 DEF Service!vars

\* What InOrder says of the members of the places.
LEMMA OrderFacts ==
  InOrder =>
    /\ AscendingIds(queue) /\ AscendingIds(ackq)
    /\ \A i \in Answered, j \in OnItsWay \cup Waiting \cup Pushed : i < j
    /\ \A i \in OnItsWay, j \in Waiting \cup Pushed : i < j
    /\ \A i \in IdSet(queue), j \in Pushed : i < j
    /\ \A i \in Answered \cup OnItsWay \cup IdSet(queue) \cup Pushed :
         i \in Nat /\ i <= Taken
    /\ Waiting \subseteq IdSet(queue)
  BY DEF InOrder, Before, Waiting, Unsent, IdSet

\* A push: the reply in hand becomes the newest in the queue.
LEMMA AppendStep ==
  ASSUME Sound, Sound', InOrder, PushAppend
  PROVE  InOrder' /\ UNCHANGED Service!vars
<1>1. /\ ackq' = ackq /\ replies' = replies /\ recvq' = recvq /\ sent' = sent
      /\ ackPc' = ackPc /\ queue' = Append(queue, cur)
      /\ recvPc = "push" /\ recvPc' = "post"
  BY DEF PushAppend, ackVars
<1>2. /\ queue \in Seq(Ack) /\ Len(queue) \in Nat /\ cur \in Ack
      /\ WaitingInQueue
      /\ ackPc = "pop" => Len(queue) # 0
  BY SoundFacts
<1>3. Pushed = {cur.id} /\ Pushed' = {}
  BY <1>1 DEF Pushed, HasCur
<1>4. /\ OnItsWay' = OnItsWay /\ Answered' = Answered /\ Taken' = Taken
      /\ Expecting(recvq') = Expecting(recvq)
  BY <1>1 DEF OnItsWay, Answered, Taken
<1>5. IdSet(queue') = IdSet(queue) \cup {cur.id}
  BY <1>1, <1>2, IdsOfAppend
<1>6. AscendingIds(queue')
  <2>1. AscendingIds(queue) /\ \A i \in IdSet(queue) : i < cur.id
    BY <1>3, OrderFacts
  <2> QED BY <1>1, <1>2, <2>1, IdsOfAppend
<1>7. Waiting' = Waiting \cup {cur.id}
  <2>1. /\ \A k \in 1 .. Len(queue) : /\ queue'[k] = queue[k]
                                      /\ k \in 1 .. Len(queue')
        /\ queue'[Len(queue) + 1] = cur
        /\ Len(queue) + 1 \in 1 .. Len(queue')
        /\ \A k \in 1 .. Len(queue') :
             k \in 1 .. Len(queue) \/ k = Len(queue) + 1
    BY <1>1, <1>2, AppendAt
  <2>2. ackPc = "pop" => Len(queue) + 1 > 1
    BY <1>2
  <2>3. Unsent' = Unsent \cup {Len(queue) + 1}
    BY <1>1, <2>1, <2>2 DEF Unsent
  <2>4. \A k \in Unsent : queue'[k] = queue[k]
    BY <2>1 DEF Unsent
  <2>5. Waiting' = {queue'[k].id : k \in Unsent'}
    BY DEF Waiting
  <2> QED BY <2>1, <2>3, <2>4, <2>5 DEF Waiting
<1>8. Waiting' \cup Pushed' = Waiting \cup Pushed
  BY <1>3, <1>7
<1>9. Open' = Open
  <2>1. Open' = OnItsWay \cup (Waiting' \cup Pushed') \cup Expecting(recvq)
    BY <1>4, OpenParts
  <2> QED BY <1>8, <2>1, OpenParts
<1>10. InOrder'
  <2>1. /\ AscendingIds(ackq)
        /\ Before(Answered, OnItsWay \cup (Waiting \cup Pushed))
        /\ Before(OnItsWay, Waiting \cup Pushed)
        /\ \A i \in Answered \cup OnItsWay \cup IdSet(queue) \cup Pushed :
             i \in Nat /\ i <= Taken
    BY OrderFacts DEF Before
  <2>2. /\ Before(Answered', OnItsWay' \cup Waiting' \cup Pushed')
        /\ Before(OnItsWay', Waiting' \cup Pushed')
    BY <1>4, <1>8, <2>1 DEF Before
  <2>3. Before(IdSet(queue'), Pushed')
    BY <1>3 DEF Before
  <2>4. \A i \in Answered' \cup OnItsWay' \cup IdSet(queue') \cup Pushed' :
          i \in Nat /\ i <= Taken'
    BY <1>3, <1>4, <1>5, <2>1
  <2> QED BY <1>1, <1>6, <2>1, <2>2, <2>3, <2>4 DEF InOrder
<1> QED BY <1>1, <1>9, <1>10 DEF Service!vars

\* After a step, too, the places in the queue are as WaitingIs says.
LEMMA SoundAfter == Sound' => TypeOK' /\ (ackPc = "pop" => queue # <<>>)'
  BY DEF Sound, IInv, Careful, RemovesWhatItSent

\* msgsnd: the oldest reply in the queue goes to the agent; its copy in the
\* queue no longer counts.
LEMMA MsgsndStep ==
  ASSUME Sound, Sound', InOrder, AckMsgsnd, ~IpcFaults
  PROVE  InOrder' /\ UNCHANGED Service!vars
<1>1. /\ ackq' = Append(ackq, held) /\ replies' = replies /\ recvq' = recvq
      /\ sent' = sent /\ queue' = queue /\ recvPc' = recvPc /\ cur' = cur
      /\ ackPc = "msgsnd" /\ ackPc' = "pop"
  BY DEF AckMsgsnd, recvVars
<1>2. /\ queue \in Seq(Ack) /\ ackq \in Seq(Ack) /\ held \in Ack
      /\ Len(queue) # 0 /\ Head(queue) = held /\ held.id \in Nat
      /\ WaitingInQueue
  BY <1>1, SoundFacts
<1>3. Waiting = IdSet(queue) /\ Waiting' = IdSet(Tail(queue))
  <2>1. WaitingInQueue'
    BY WaitingIsAfter, SoundAfter
  <2> QED BY <1>1, <1>2, <2>1 DEF WaitingInQueue
<1>4. /\ IdSet(queue) = IdSet(Tail(queue)) \cup {held.id}
      /\ \A i \in IdSet(Tail(queue)) : held.id < i
  BY <1>2, OrderFacts, IdsOfTail
<1>5. Waiting = Waiting' \cup {held.id} /\ \A i \in Waiting' : held.id < i
  BY <1>3, <1>4
<1>6. OnItsWay' = OnItsWay \cup {held.id}
  BY <1>1, <1>2, IdsOfAppend DEF OnItsWay
<1>7. AscendingIds(ackq')
  <2>1. AscendingIds(ackq) /\ \A i \in IdSet(ackq) : i < held.id
    BY <1>5, OrderFacts DEF OnItsWay
  <2> QED BY <1>1, <1>2, <2>1, IdsOfAppend
<1>8. /\ Pushed' = Pushed /\ Answered' = Answered /\ Taken' = Taken
      /\ Expecting(recvq') = Expecting(recvq)
      /\ IdSet(queue') = IdSet(queue)
  BY <1>1 DEF Pushed, HasCur, Answered, Taken
<1>9. OnItsWay' \cup Waiting' = OnItsWay \cup Waiting
  BY <1>5, <1>6
<1>10. Open' = Open
  <2>1. Open' = (OnItsWay' \cup Waiting') \cup Pushed \cup Expecting(recvq)
    BY <1>8, OpenParts
  <2> QED BY <1>9, <2>1, OpenParts
<1>11. held.id \in IdSet(queue) /\ held.id \in Waiting
  BY <1>4, <1>5
<1>12. Before(Answered, (OnItsWay \cup Waiting) \cup Pushed)
  BY OrderFacts DEF Before
<1>13. Before(OnItsWay', Waiting' \cup Pushed')
  <2>1. \A j \in Waiting' \cup Pushed' : held.id < j
    BY <1>5, <1>8, <1>11, OrderFacts
  <2>2. \A i \in OnItsWay, j \in Waiting' \cup Pushed' : i < j
    BY <1>5, <1>8, OrderFacts
  <2> QED BY <1>6, <2>1, <2>2 DEF Before
<1>14. \A i \in Answered \cup OnItsWay \cup IdSet(queue) \cup Pushed :
         i \in Nat /\ i <= Taken
  BY OrderFacts
<1>15. \A i \in Answered' \cup OnItsWay' \cup IdSet(queue') \cup Pushed' :
         i \in Nat /\ i <= Taken'
  BY <1>6, <1>8, <1>11, <1>14
<1>16. Before(IdSet(queue), Pushed) /\ AscendingIds(queue)
  BY DEF InOrder
<1>17. InOrder'
  BY <1>1, <1>7, <1>8, <1>9, <1>12, <1>13, <1>15, <1>16 DEF InOrder
<1> QED BY <1>1, <1>10, <1>17 DEF Service!vars

\* The reply that was sent leaves the queue.
LEMMA PopStep ==
  ASSUME Sound, Sound', InOrder, AckPop
  PROVE  InOrder' /\ UNCHANGED Service!vars
<1>1. /\ queue \in Seq(Ack) /\ Len(queue) \in Nat /\ WaitingInQueue
      /\ ackPc = "pop" /\ Len(queue) # 0
  BY SoundFacts DEF AckPop
<1>2. /\ ackq' = ackq /\ replies' = replies /\ recvq' = recvq
      /\ sent' = sent /\ recvPc' = recvPc /\ cur' = cur
      /\ queue' = Tail(queue) /\ ackPc' = "wait"
  BY <1>1 DEF AckPop, IsEmpty, Pop, recvVars
<1>3. Waiting = IdSet(Tail(queue)) /\ Waiting' = IdSet(queue')
  <2>1. WaitingInQueue'
    BY WaitingIsAfter, SoundAfter
  <2> QED BY <1>1, <1>2, <2>1 DEF WaitingInQueue
<1>4. /\ IdSet(queue) = IdSet(queue') \cup {Head(queue).id}
      /\ AscendingIds(queue')
  BY <1>1, <1>2, OrderFacts, IdsOfTail
<1>5. /\ Waiting' = Waiting /\ OnItsWay' = OnItsWay /\ Pushed' = Pushed
      /\ Answered' = Answered /\ Taken' = Taken
      /\ Expecting(recvq') = Expecting(recvq)
  BY <1>2, <1>3 DEF OnItsWay, Pushed, HasCur, Answered, Taken
<1>6. Open' = Open
  BY <1>5, OpenParts
<1>7. IdSet(queue') \subseteq IdSet(queue)
  BY <1>4
<1>8. /\ Before(Answered', OnItsWay' \cup Waiting' \cup Pushed')
      /\ Before(OnItsWay', Waiting' \cup Pushed')
      /\ AscendingIds(ackq')
  BY <1>2, <1>5 DEF InOrder
<1>9. Before(IdSet(queue'), Pushed')
  BY <1>5, <1>7 DEF InOrder, Before
<1>10. \A i \in Answered' \cup OnItsWay' \cup IdSet(queue') \cup Pushed' :
         i \in Nat /\ i <= Taken'
  BY <1>5, <1>7 DEF InOrder
<1>11. InOrder'
  BY <1>4, <1>8, <1>9, <1>10 DEF InOrder
<1> QED BY <1>2, <1>6, <1>11 DEF Service!vars

\* The agent receives a reply: to the oldest of its open requests.
LEMMA ReplyStep ==
  ASSUME Sound, InOrder, AgentReceive
  PROVE  InOrder' /\ Service!Reply
<1>1. /\ queue' = queue /\ recvq' = recvq /\ ackPc' = ackPc
      /\ sent' = sent /\ recvPc' = recvPc /\ cur' = cur
      /\ ackq # <<>> /\ ackq' = Tail(ackq)
      /\ replies' = Append(replies, Head(ackq))
  BY DEF AgentReceive, recvVars, ackVars
<1>2. /\ ackq \in Seq(Ack) /\ replies \in Seq(Ack) /\ Len(ackq) # 0
      /\ Taken \in Int
      /\ \A n \in Expecting(recvq) : n \in Nat /\ Taken < n
  BY <1>1, SoundFacts, SeqFacts
<1> DEFINE h == Head(ackq)
<1>3. /\ IdSet(ackq) = IdSet(Tail(ackq)) \cup {h.id}
      /\ AscendingIds(Tail(ackq))
      /\ \A i \in IdSet(Tail(ackq)) : h.id < i
      /\ h \in Ack /\ h.id \in Nat
  BY <1>2, OrderFacts, IdsOfTail
<1> HIDE DEF h
<1>4. /\ OnItsWay = OnItsWay' \cup {h.id}
      /\ \A i \in OnItsWay' : h.id < i
      /\ AscendingIds(ackq')
  BY <1>1, <1>3 DEF OnItsWay
<1>5. Answered' = Answered \cup {h.id}
  BY <1>1, <1>2, <1>3, IdsOfAppend DEF Answered, h
<1>6. /\ Waiting' = Waiting /\ Pushed' = Pushed /\ Taken' = Taken
      /\ Expecting(recvq') = Expecting(recvq)
      /\ IdSet(queue') = IdSet(queue)
  BY <1>1 DEF Waiting, Unsent, Pushed, HasCur, Taken
<1>7. /\ \A i \in Answered, j \in OnItsWay \cup Waiting \cup Pushed : i < j
      /\ \A i \in OnItsWay, j \in Waiting \cup Pushed : i < j
      /\ \A i \in Answered \cup OnItsWay \cup IdSet(queue) \cup Pushed :
           i \in Nat /\ i <= Taken
      /\ h.id \in OnItsWay
  BY <1>4, OrderFacts
<1>8. /\ \A j \in OnItsWay' \cup Waiting \cup Pushed : h.id < j
      /\ \A j \in Expecting(recvq) : h.id < j
  <2>1. \A j \in OnItsWay' : h.id < j
    BY <1>4
  <2>2. \A j \in Waiting \cup Pushed : h.id < j
    BY <1>7
  <2>3. h.id \in Int /\ h.id <= Taken
    BY <1>3, <1>7
  <2>4. ASSUME NEW j \in Expecting(recvq) PROVE h.id < j
    <3>1. j \in Int /\ Taken \in Int /\ Taken < j
      BY <1>2, <2>4
    <3> QED BY <2>3, <3>1
  <2> QED BY <2>1, <2>2, <2>4
<1>9. InOrder'
  <2>1. Before(Answered', OnItsWay' \cup Waiting' \cup Pushed')
    BY <1>4, <1>5, <1>6, <1>7, <1>8 DEF Before
  <2>2. Before(OnItsWay', Waiting' \cup Pushed')
    BY <1>4, <1>6, <1>7 DEF Before
  <2>3. \A i \in Answered' \cup OnItsWay' \cup IdSet(queue') \cup Pushed' :
          i \in Nat /\ i <= Taken'
    BY <1>4, <1>5, <1>6, <1>7
  <2>4. AscendingIds(queue') /\ Before(IdSet(queue'), Pushed')
    BY <1>1, <1>6 DEF InOrder
  <2> QED BY <1>4, <2>1, <2>2, <2>3, <2>4 DEF InOrder
<1>10. /\ Open = {h.id} \cup Open'
       /\ \A j \in Open' : h.id < j
  BY <1>4, <1>6, <1>8, OpenParts
<1>11. h.id \notin Open'
  BY <1>3, <1>10
<1>12. Open' = Open \ {h.id} /\ h.id \in Open
  BY <1>10, <1>11
<1>13. \A j \in Open : h.id <= j
  <2>1. \A j \in Open' : j \in Int
    <3>1. \A j \in OnItsWay \cup IdSet(queue) \cup Pushed : j \in Nat
      BY <1>7
    <3>2. \A j \in Open : j \in Nat
      BY <1>2, <3>1, OpenParts, OrderFacts
    <3> QED BY <1>12, <3>2
  <2> QED BY <1>3, <1>10, <2>1
<1>14. Ids(replies') = Append(Ids(replies), h.id)
  BY <1>1, <1>2, <1>3, IdsAppend DEF h
<1>15. Service!Reply
  BY <1>12, <1>13, <1>14 DEF Service!Reply
<1> QED BY <1>9, <1>15

\* The other steps move no reply.
LEMMA QuietStep ==
  ASSUME Sound, InOrder,
         \/ PushFull
         \/ RecvMsgget
         \/ PushPost
         \/ AckMsgget
         \/ AckWait
         \/ AckGet
         \/ UNCHANGED vars
  PROVE  InOrder' /\ UNCHANGED Service!vars
<1>1. UNCHANGED <<ackq, replies, queue, recvq, sent, cur>>
  BY DEF PushFull, PushPost, RecvMsgget, AckMsgget, AckWait, AckGet, vars, recvVars,
         ackVars
<1>2. HasCur' = HasCur
  BY DEF PushFull, PushPost, RecvMsgget, AckMsgget, AckWait, AckGet, vars, recvVars,
         ackVars, HasCur
<1>3. \/ ackPc # "pop" /\ ackPc' # "pop"
      \/ ackPc' = ackPc
  BY DEF PushFull, PushPost, RecvMsgget, AckMsgget, AckWait, AckGet, vars, ackVars
<1>4. Unsent' = Unsent
  BY <1>1, <1>3 DEF Unsent
<1>5. Waiting' = Waiting /\ Pushed' = Pushed /\ Taken' = Taken
  BY <1>1, <1>2, <1>4 DEF Waiting, Pushed, Taken
<1>6. InOrder'
  BY <1>1, <1>5, AtRest
<1>7. Open' = Open
  BY <1>1, <1>5, OpenParts DEF OnItsWay
<1> QED BY <1>1, <1>6, <1>7 DEF Service!vars

\* Every step of the pipeline keeps the order, and is a step of the service or
\* none.
LEMMA ServiceStep ==
  ASSUME Sound, Sound', InOrder, [Next]_vars, ~IpcFaults
  PROVE  InOrder' /\ [Service!Next]_Service!vars
<1>1. CASE AgentSend
  BY <1>1, AskStep DEF Service!Next
<1>2. CASE AgentReceive
  BY <1>2, ReplyStep DEF Service!Next
<1>3. CASE Receive
  BY <1>3, ReceiveStep
<1>4. CASE PushPop
  BY <1>4, SoundFacts DEF PushPop
<1>5. CASE PushAppend
  BY <1>5, AppendStep
<1>6. CASE AckMsgsnd
  BY <1>6, MsgsndStep
<1>7. CASE AckPop
  BY <1>7, PopStep
<1>8. CASE \/ PushFull
           \/ RecvMsgget
           \/ PushPost
           \/ AckMsgget
           \/ AckWait
           \/ AckGet
           \/ UNCHANGED vars
  BY <1>8, QuietStep
<1>9. RecvThread => \/ Receive \/ PushPop \/ PushAppend
                    \/ RecvMsgget \/ PushFull \/ PushPost
  BY DEF RecvThread
<1>10. AckThread => \/ AckMsgsnd \/ AckPop
                    \/ AckMsgget \/ AckWait \/ AckGet
  BY DEF AckThread
<1> QED
  BY <1>1, <1>2, <1>3, <1>4, <1>5, <1>6, <1>7, <1>8, <1>9, <1>10 DEF Next

\* The initial states correspond.
LEMMA ServiceInitially == Init => InOrder /\ Service!Init
<1> SUFFICES ASSUME Init PROVE InOrder /\ Service!Init
  OBVIOUS
<1>1. Len(recvq) = 0 /\ Len(queue) = 0 /\ Len(ackq) = 0 /\ Len(replies) = 0
      /\ recvPc = "msgget"
  BY DEF Init
<1>2. /\ OnItsWay = {} /\ Waiting = {} /\ Pushed = {} /\ Answered = {}
      /\ IdSet(queue) = {} /\ Expecting(recvq) = {}
  BY <1>1 DEF OnItsWay, Waiting, Unsent, Pushed, HasCur, Answered, IdSet,
              Expecting
<1>3. InOrder
  BY <1>1, <1>2 DEF InOrder, AscendingIds, Before
<1>4. Open = {}
  BY <1>2, OpenParts
<1>5. Ids(replies) = <<>>
  <2>1. replies \in Seq(Ack)
    BY EmptySeq DEF Init
  <2>2. Ids(replies) \in Seq(Nat) /\ Len(Ids(replies)) = 0
    BY <1>1, <2>1, IdsLength
  <2> QED BY <2>2, SeqFacts
<1> QED BY <1>3, <1>4, <1>5 DEF Service!Init

\* The application answers a careful agent as RequestReply says, whatever the
\* sizes of the three queues: every reply is to the oldest open request, none
\* is lost, repeated or overtaken.
THEOREM CarefulAgentIsServed ==
  ASSUME Window < QUEUE_MAX_SIZE, ~IpcFaults
  PROVE  Spec => RefinesService
<1>1. IInv /\ IInv' /\ Numbered /\ Numbered' /\ Careful /\ [Next]_vars
        => Careful'
  BY CarefulStep
<1>2. IInv /\ Numbered /\ [Next]_vars => Numbered'
  BY NumberedStep DEF IInv
<1>3. IInv /\ Numbered /\ Careful <=> Sound
  BY DEF Sound
<1>4. Sound /\ Sound' /\ InOrder /\ [Next]_vars
        => InOrder' /\ [Service!Next]_Service!vars
  BY ServiceStep
<1> QED
  BY <1>1, <1>2, <1>3, <1>4, Initially, Inductive, NumberedInitially,
     CarefulInitially, ServiceInitially, PTL
     DEF Spec, RefinesService, Service!Spec
-----------------------------------------------------------------------------
(* An agent of any kind.  When the queue overflows or a call fails, replies*)
(* are lost, and the sender may remove a reply that it has not sent.  But  *)
(* it never sends one twice, nor an older one after a newer one.           *)

\* The replies that the sender has sent, received by the agent or not.
SentOff == Answered \cup OnItsWay

\* The sender holds a copy that it has not sent yet, or has just sent.
InHand == ackPc \in {"msgsnd", "pop"}

\* What was sent is older than all that may still be sent: the copy in hand
\* before it is sent, the queue, but for the reply that the copy is of, and
\* the reply that is about to be pushed.
Delivered ==
  /\ AscendingIds(replies) /\ AscendingIds(ackq) /\ AscendingIds(queue)
  /\ Before(Answered, OnItsWay)
  /\ Before(SentOff \cup IdSet(queue), Pushed)
  /\ ~InHand => Before(SentOff, IdSet(queue))
  /\ ackPc = "msgsnd" => Before(SentOff, {held.id})
  /\ InHand => /\ \A i \in SentOff : i <= held.id
               /\ \A i \in IdSet(queue) : held.id <= i
               /\ Before({held.id}, Pushed)
               /\ held.id <= Taken
  /\ \A i \in SentOff \cup IdSet(queue) \cup Pushed : i \in Nat /\ i <= Taken

\* Types in a state of the invariants.
LEMMA StreamTypes ==
  IInv => /\ queue \in Seq(Ack) /\ ackq \in Seq(Ack) /\ replies \in Seq(Ack)
          /\ recvq \in Seq(Request) /\ Len(recvq) \in Nat
          /\ cur \in Ack /\ held \in Ack /\ cur.id \in Nat /\ held.id \in Nat
          /\ sent \in Nat /\ Taken \in Int
<1> SUFFICES ASSUME IInv
             PROVE  /\ queue \in Seq(Ack) /\ ackq \in Seq(Ack)
                    /\ replies \in Seq(Ack)
                    /\ recvq \in Seq(Request) /\ Len(recvq) \in Nat
                    /\ cur \in Ack /\ held \in Ack
                    /\ cur.id \in Nat /\ held.id \in Nat
                    /\ sent \in Nat /\ Taken \in Int
  OBVIOUS
<1>1. /\ queue \in Seq(Ack) /\ ackq \in Seq(Ack) /\ replies \in Seq(Ack)
      /\ recvq \in Seq(Request) /\ cur \in Ack /\ held \in Ack /\ sent \in Nat
  BY DEF IInv, TypeOK
<1>2. Len(recvq) \in Nat
  BY <1>1, SeqFacts
<1> QED BY <1>1, <1>2 DEF Ack, Taken

\* The clauses of the invariant, with Before expanded.
LEMMA StreamFacts ==
  Delivered =>
    /\ AscendingIds(replies) /\ AscendingIds(ackq) /\ AscendingIds(queue)
    /\ \A i \in Answered, j \in OnItsWay : i < j
    /\ \A i \in SentOff \cup IdSet(queue), j \in Pushed : i < j
    /\ ~InHand => \A i \in SentOff, j \in IdSet(queue) : i < j
    /\ ackPc = "msgsnd" => \A i \in SentOff : i < held.id
    /\ InHand => /\ \A i \in SentOff : i <= held.id
                 /\ \A i \in IdSet(queue) : held.id <= i
                 /\ \A j \in Pushed : held.id < j
                 /\ held.id <= Taken
    /\ \A i \in SentOff \cup IdSet(queue) \cup Pushed :
         i \in Nat /\ i <= Taken
  BY DEF Delivered, Before

\* Steps that touch neither what was sent nor the queue: the receiver may
\* take a request without a reply, or give up what it was about to push.
LEMMA StreamKept ==
  ASSUME IInv, IInv', Delivered,
         UNCHANGED <<replies, ackq, queue, held>>,
         ackPc' = ackPc \/ (~InHand /\ ~InHand'),
         Pushed' \subseteq Pushed, Taken <= Taken'
  PROVE  Delivered'
<1>1. Taken \in Int /\ Taken' \in Int
  BY StreamTypes DEF Taken, IInv, TypeOK
<1>2. /\ Answered' = Answered /\ OnItsWay' = OnItsWay /\ SentOff' = SentOff
      /\ IdSet(queue') = IdSet(queue)
  BY DEF Answered, OnItsWay, SentOff
<1>3. \A i \in SentOff' \cup IdSet(queue') \cup Pushed' :
        i \in Nat /\ i <= Taken'
  <2> SUFFICES ASSUME NEW i \in SentOff \cup IdSet(queue) \cup Pushed
               PROVE  i \in Nat /\ i <= Taken'
    BY <1>2
  <2>1. i \in Nat /\ i <= Taken
    BY StreamFacts
  <2> QED BY <1>1, <2>1
<1>4. Before(SentOff' \cup IdSet(queue'), Pushed')
  BY <1>2, StreamFacts DEF Before
<1>5. /\ InHand' => InHand /\ ackPc' = ackPc
      /\ ~InHand' => ~InHand
      /\ ackPc' = "msgsnd" => ackPc = "msgsnd"
  BY DEF InHand
<1>6. InHand' => /\ \A i \in SentOff' : i <= held'.id
                 /\ \A i \in IdSet(queue') : held'.id <= i
                 /\ Before({held'.id}, Pushed')
  BY <1>2, <1>5, StreamFacts DEF Before
<1>7. InHand' => held'.id <= Taken'
  <2> SUFFICES ASSUME InHand' PROVE held.id <= Taken'
    OBVIOUS
  <2>1. held.id \in Nat /\ held.id <= Taken
    BY <1>5, StreamFacts, StreamTypes
  <2> QED BY <1>1, <2>1
<1>8. /\ ~InHand' => Before(SentOff', IdSet(queue'))
      /\ ackPc' = "msgsnd" => Before(SentOff', {held'.id})
  BY <1>2, <1>5, StreamFacts DEF Before
<1>9. /\ AscendingIds(replies') /\ AscendingIds(ackq') /\ AscendingIds(queue')
      /\ Before(Answered', OnItsWay')
  BY <1>2, StreamFacts DEF Before
<1> QED BY <1>3, <1>4, <1>6, <1>7, <1>8, <1>9 DEF Delivered

\* A request is received: its reply is newer than all others.
LEMMA StreamReceive ==
  ASSUME IInv, IInv', Numbered, Numbered', Delivered, Receive
  PROVE  Delivered'
<1>1. /\ UNCHANGED <<replies, ackq, queue, held>> /\ ackPc' = ackPc
      /\ recvPc = "msgrcv"
  BY DEF Receive, ackVars
<1> DEFINE r == Head(recvq)
<1>2. /\ r.id = Taken + 1 /\ Taken' = Taken + 1 /\ Taken \in Int
  BY TakenFromAsked, StreamTypes
<1>3. /\ HasReply(r) => Pushed' = {r.id}
      /\ ~HasReply(r) => Pushed' = {}
  <2>1. HasReply(r) => cur'.id = r.id /\ recvPc' = "full"
    BY DEF Receive, ReplyTo
  <2>2. ~HasReply(r) => recvPc' = "msgrcv"
    BY <1>1 DEF Receive
  <2> QED BY <2>1, <2>2 DEF Pushed, HasCur
<1> HIDE DEF r
<1>4. CASE ~HasReply(r)
  <2>1. Pushed' \subseteq Pushed /\ Taken <= Taken'
    BY <1>2, <1>3, <1>4
  <2> QED BY <1>1, <2>1, StreamKept
<1>5. CASE HasReply(r)
  <2>1. Pushed' = {Taken'}
    BY <1>2, <1>3, <1>5
  <2>2. /\ Answered' = Answered /\ OnItsWay' = OnItsWay /\ SentOff' = SentOff
        /\ IdSet(queue') = IdSet(queue) /\ (InHand' <=> InHand)
    BY <1>1 DEF Answered, OnItsWay, SentOff, InHand
  <2>3. \A i \in SentOff \cup IdSet(queue) :
          i \in Nat /\ i < Taken' /\ i <= Taken'
    <3> TAKE i \in SentOff \cup IdSet(queue)
    <3>1. i \in Nat /\ i <= Taken
      BY StreamFacts
    <3> QED BY <1>2, <3>1
  <2>4. InHand => held.id < Taken' /\ held.id <= Taken'
    <3> HAVE InHand
    <3>1. held.id \in Nat /\ held.id <= Taken
      BY StreamFacts, StreamTypes
    <3> QED BY <1>2, <3>1
  <2>5. Taken' \in Nat /\ Taken' <= Taken'
    <3>1. cur'.id = r.id
      BY <1>5 DEF Receive, ReplyTo, r
    <3>2. cur'.id \in Nat
      BY StreamTypes DEF IInv, TypeOK, Ack
    <3> QED BY <1>2, <3>1, <3>2
  <2>6. Before(SentOff' \cup IdSet(queue'), Pushed')
    BY <2>1, <2>2, <2>3 DEF Before
  <2>7. \A i \in SentOff' \cup IdSet(queue') \cup Pushed' :
          i \in Nat /\ i <= Taken'
    BY <2>1, <2>2, <2>3, <2>5
  <2>8. InHand' => /\ \A i \in SentOff' : i <= held'.id
                   /\ \A i \in IdSet(queue') : held'.id <= i
                   /\ Before({held'.id}, Pushed')
                   /\ held'.id <= Taken'
    BY <1>1, <2>1, <2>2, <2>4, StreamFacts DEF Before
  <2>9. /\ ~InHand' => Before(SentOff', IdSet(queue'))
        /\ ackPc' = "msgsnd" => Before(SentOff', {held'.id})
        /\ AscendingIds(replies') /\ AscendingIds(ackq')
        /\ AscendingIds(queue') /\ Before(Answered', OnItsWay')
    BY <1>1, <2>2, StreamFacts DEF Before
  <2> QED BY <2>6, <2>7, <2>8, <2>9 DEF Delivered
<1> QED BY <1>4, <1>5

\* Steps that change the queue only: a push appends the newest reply, a pop
\* by either thread removes the oldest one, sent or not.
LEMMA StreamPush ==
  ASSUME IInv, IInv', Delivered, PushAppend
  PROVE  Delivered'
<1>1. /\ UNCHANGED <<replies, ackq, held, sent, recvq>> /\ ackPc' = ackPc
      /\ queue' = Append(queue, cur) /\ recvPc = "push" /\ recvPc' = "post"
  BY DEF PushAppend, ackVars
<1>2. Pushed = {cur.id} /\ Pushed' = {} /\ Taken' = Taken
  BY <1>1 DEF Pushed, HasCur, Taken
<1>3. /\ Answered' = Answered /\ OnItsWay' = OnItsWay /\ SentOff' = SentOff
      /\ (InHand' <=> InHand)
  BY <1>1 DEF Answered, OnItsWay, SentOff, InHand
<1>4. queue \in Seq(Ack) /\ cur \in Ack /\ cur.id \in Nat /\ held.id \in Nat
  BY StreamTypes
<1>5. /\ IdSet(queue') = IdSet(queue) \cup {cur.id}
      /\ AscendingIds(queue')
  <2>1. AscendingIds(queue) /\ \A i \in IdSet(queue) : i < cur.id
    BY <1>2, StreamFacts
  <2> QED BY <1>1, <1>4, <2>1, IdsOfAppend
<1>6. \A i \in SentOff' \cup IdSet(queue') \cup Pushed' :
        i \in Nat /\ i <= Taken'
  BY <1>2, <1>3, <1>5, StreamFacts
<1>7. ~InHand' => Before(SentOff', IdSet(queue'))
  BY <1>2, <1>3, <1>5, StreamFacts DEF Before
<1>8. InHand => held.id <= cur.id
  <2> HAVE InHand
  <2>1. held.id < cur.id
    BY <1>2, StreamFacts
  <2> QED BY <1>4, <2>1
<1>9. InHand' => /\ \A i \in SentOff' : i <= held'.id
                 /\ \A i \in IdSet(queue') : held'.id <= i
                 /\ held'.id <= Taken'
  BY <1>1, <1>2, <1>3, <1>5, <1>8, StreamFacts
<1>10. /\ AscendingIds(replies') /\ AscendingIds(ackq')
       /\ Before(Answered', OnItsWay')
       /\ ackPc' = "msgsnd" => Before(SentOff', {held'.id})
  BY <1>1, <1>3, StreamFacts DEF Before
<1>11. Before(SentOff' \cup IdSet(queue'), Pushed') /\ Before({held'.id}, Pushed')
  BY <1>2 DEF Before
<1> QED BY <1>5, <1>6, <1>7, <1>9, <1>10, <1>11 DEF Delivered

LEMMA StreamPop ==
  ASSUME IInv, IInv', Delivered,
         UNCHANGED <<replies, ackq, sent, recvq>>, Pushed' = Pushed,
         Len(queue) # 0, queue' = Tail(queue),
         \/ ackPc' = ackPc /\ held' = held
         \/ ~InHand' /\ ackPc # "msgsnd"
  PROVE  Delivered'
<1>1. /\ Answered' = Answered /\ OnItsWay' = OnItsWay /\ SentOff' = SentOff
      /\ Taken' = Taken
  BY DEF Answered, OnItsWay, SentOff, Taken
<1>2. queue \in Seq(Ack) /\ held.id \in Nat
  BY StreamTypes
<1> DEFINE h == Head(queue)
<1>3. /\ IdSet(queue) = IdSet(queue') \cup {h.id}
      /\ AscendingIds(queue')
      /\ \A i \in IdSet(queue') : h.id < i
      /\ h.id \in Nat
  BY <1>2, StreamFacts, IdsOfTail
<1> HIDE DEF h
<1>4. \A i \in SentOff, j \in IdSet(queue') : i < j
  <2> TAKE i \in SentOff, j \in IdSet(queue')
  <2>1. i \in Nat /\ j \in Nat /\ h.id < j
    BY <1>3, StreamFacts
  <2>2. CASE InHand
    <3>1. i <= held.id /\ held.id <= h.id
      BY <1>3, <2>2, StreamFacts
    <3> QED BY <1>2, <1>3, <2>1, <3>1
  <2>3. CASE ~InHand
    BY <1>3, <2>3, StreamFacts
  <2> QED BY <2>2, <2>3
<1>5. \A i \in SentOff' \cup IdSet(queue') \cup Pushed' :
        i \in Nat /\ i <= Taken'
  BY <1>1, <1>3, StreamFacts
<1>6. Before(SentOff', IdSet(queue'))
  BY <1>1, <1>4 DEF Before
<1>7. Before(SentOff' \cup IdSet(queue'), Pushed')
  BY <1>1, <1>3, StreamFacts DEF Before
<1>8. InHand' => InHand /\ held' = held /\ ackPc' = ackPc
  BY DEF InHand
<1>9. InHand' => /\ \A i \in SentOff' : i <= held'.id
                 /\ \A i \in IdSet(queue') : held'.id <= i
                 /\ Before({held'.id}, Pushed')
                 /\ held'.id <= Taken'
  BY <1>1, <1>3, <1>8, StreamFacts DEF Before
<1>10. ackPc' = "msgsnd" => Before(SentOff', {held'.id})
  BY <1>1, <1>8, StreamFacts DEF Before, InHand
<1>11. /\ AscendingIds(replies') /\ AscendingIds(ackq')
       /\ Before(Answered', OnItsWay')
  BY <1>1, StreamFacts DEF Before
<1> QED BY <1>3, <1>5, <1>6, <1>7, <1>9, <1>10, <1>11 DEF Delivered

\* The sender copies the oldest reply in the queue, or finds none.
LEMMA StreamGet ==
  ASSUME IInv, IInv', Delivered, AckGet
  PROVE  Delivered'
<1>1. /\ UNCHANGED <<replies, ackq, queue, sent, recvq, recvPc, cur>>
      /\ ackPc = "get"
  BY DEF AckGet, recvVars
<1>2. /\ Answered' = Answered /\ OnItsWay' = OnItsWay /\ SentOff' = SentOff
      /\ Pushed' = Pushed /\ Taken' = Taken /\ IdSet(queue') = IdSet(queue)
  BY <1>1 DEF Answered, OnItsWay, SentOff, Pushed, HasCur, Taken
<1>3. CASE queue = <<>>
  <2>1. held' = held /\ ackPc' = "discard"
    BY <1>3 DEF AckGet, IsEmpty
  <2>2. ~InHand /\ ~InHand' /\ Taken <= Taken'
    BY <1>1, <1>2, <2>1, StreamTypes DEF InHand
  <2> QED BY <1>1, <1>2, <2>1, <2>2, StreamKept
<1>4. CASE queue # <<>>
  <2>1. held' = Head(queue) /\ ackPc' = "msgsnd"
    BY <1>4 DEF AckGet, IsEmpty, Get
  <2>2. queue \in Seq(Ack) /\ Len(queue) # 0
    BY <1>4, StreamTypes, SeqFacts
  <2>3. /\ IdSet(queue) = IdSet(Tail(queue)) \cup {held'.id}
        /\ \A i \in IdSet(Tail(queue)) : held'.id < i
        /\ held'.id \in Nat
    BY <2>1, <2>2, StreamFacts, IdsOfTail
  <2>4. /\ \A i \in SentOff : i < held'.id
        /\ \A j \in Pushed : held'.id < j
        /\ held'.id <= Taken
    BY <1>1, <2>3, StreamFacts DEF InHand
  <2>5. \A i \in SentOff : i <= held'.id
    <3> TAKE i \in SentOff
    <3>1. i \in Nat /\ i < held'.id
      BY <2>4, StreamFacts
    <3> QED BY <2>3, <3>1
  <2>6. \A i \in IdSet(queue) : held'.id <= i
    <3> TAKE i \in IdSet(queue)
    <3>1. i \in Nat /\ (i = held'.id \/ held'.id < i)
      BY <2>3, StreamFacts
    <3> QED BY <2>3, <3>1
  <2>7. InHand'
    BY <2>1 DEF InHand
  <2>8. /\ AscendingIds(replies') /\ AscendingIds(ackq')
        /\ AscendingIds(queue') /\ Before(Answered', OnItsWay')
        /\ Before(SentOff' \cup IdSet(queue'), Pushed')
        /\ \A i \in SentOff' \cup IdSet(queue') \cup Pushed' :
             i \in Nat /\ i <= Taken'
    BY <1>1, <1>2, StreamFacts DEF Before
  <2>9. Before(SentOff', {held'.id}) /\ Before({held'.id}, Pushed')
    BY <1>2, <2>4 DEF Before
  <2> QED BY <1>2, <2>4, <2>5, <2>6, <2>7, <2>8, <2>9 DEF Delivered
<1> QED BY <1>3, <1>4

\* The copy goes to the agent, or is given up when msgsnd fails.
LEMMA StreamMsgsnd ==
  ASSUME IInv, IInv', Delivered, AckMsgsnd
  PROVE  Delivered'
<1>1. /\ UNCHANGED <<replies, queue, held, sent, recvq, recvPc, cur>>
      /\ ackPc = "msgsnd" /\ ackPc' = "pop"
      /\ ackq' = Append(ackq, held) \/ ackq' = ackq
  BY DEF AckMsgsnd, recvVars
<1>2. /\ Answered' = Answered /\ Pushed' = Pushed /\ Taken' = Taken
      /\ IdSet(queue') = IdSet(queue) /\ InHand /\ InHand'
  BY <1>1 DEF Answered, Pushed, HasCur, Taken, InHand
<1>3. /\ ackq \in Seq(Ack) /\ held \in Ack /\ held.id \in Nat
  BY StreamTypes
<1>4. /\ \A i \in SentOff : i < held.id
      /\ \A i \in Answered : i < held.id
      /\ \A i \in OnItsWay : i < held.id
  BY <1>1, StreamFacts DEF SentOff
<1>5. /\ OnItsWay' \subseteq OnItsWay \cup {held.id}
      /\ AscendingIds(ackq')
  <2>1. CASE ackq' = Append(ackq, held)
    <3>1. AscendingIds(ackq) /\ \A i \in IdSet(ackq) : i < held.id
      BY <1>4, StreamFacts DEF OnItsWay
    <3> QED BY <1>3, <2>1, <3>1, IdsOfAppend DEF OnItsWay
  <2>2. CASE ackq' = ackq
    BY <2>2, StreamFacts DEF OnItsWay
  <2> QED BY <1>1, <2>1, <2>2
<1>6. SentOff' \subseteq SentOff \cup {held.id}
  BY <1>2, <1>5 DEF SentOff
<1>7. /\ \A j \in Pushed : held.id < j
      /\ held.id <= Taken /\ held.id <= held.id
  BY <1>2, <1>3, StreamFacts
<1>8. \A i \in SentOff' \cup IdSet(queue') \cup Pushed' :
        i \in Nat /\ i <= Taken'
  BY <1>2, <1>3, <1>6, <1>7, StreamFacts
<1>9. Before(SentOff' \cup IdSet(queue'), Pushed')
  BY <1>2, <1>6, <1>7, StreamFacts DEF Before
<1>10. Before(Answered', OnItsWay')
  BY <1>2, <1>4, <1>5, StreamFacts DEF Before
<1>11. /\ \A i \in SentOff' : i <= held'.id
       /\ \A i \in IdSet(queue') : held'.id <= i
       /\ Before({held'.id}, Pushed')
       /\ held'.id <= Taken'
  BY <1>1, <1>2, <1>6, <1>7, StreamFacts DEF Before
<1>12. AscendingIds(replies') /\ AscendingIds(queue')
  BY <1>1, StreamFacts
<1> QED BY <1>1, <1>2, <1>5, <1>8, <1>9, <1>10, <1>11, <1>12 DEF Delivered

\* The agent receives the oldest reply on its way.
LEMMA StreamArrive ==
  ASSUME IInv, IInv', Delivered, AgentReceive
  PROVE  Delivered'
<1>1. /\ UNCHANGED <<queue, held, ackPc, sent, recvq, recvPc, cur>>
      /\ ackq # <<>> /\ ackq' = Tail(ackq)
      /\ replies' = Append(replies, Head(ackq))
  BY DEF AgentReceive, recvVars, ackVars
<1>2. ackq \in Seq(Ack) /\ replies \in Seq(Ack) /\ Len(ackq) # 0
  BY <1>1, StreamTypes, SeqFacts
<1> DEFINE h == Head(ackq)
<1>3. /\ OnItsWay = OnItsWay' \cup {h.id}
      /\ AscendingIds(ackq')
      /\ \A i \in OnItsWay' : h.id < i
      /\ h \in Ack /\ h.id \in Nat
  BY <1>1, <1>2, StreamFacts, IdsOfTail DEF OnItsWay
<1>4. Answered' = Answered \cup {h.id} /\ AscendingIds(replies')
  <2>1. AscendingIds(replies) /\ \A i \in IdSet(replies) : i < h.id
    BY <1>3, StreamFacts DEF Answered
  <2>2. h \in Ack /\ replies' = Append(replies, h)
    BY <1>1, <1>3
  <2> HIDE DEF h
  <2> QED BY <1>2, <2>1, <2>2, IdsOfAppend DEF Answered
<1> HIDE DEF h
<1>5. /\ SentOff' = SentOff /\ Pushed' = Pushed /\ Taken' = Taken
      /\ IdSet(queue') = IdSet(queue) /\ (InHand' <=> InHand)
  BY <1>1, <1>3, <1>4 DEF SentOff, Pushed, HasCur, Taken, InHand
<1>6. Before(Answered', OnItsWay')
  <2>1. \A i \in Answered, j \in OnItsWay' : i < j
    BY <1>3, StreamFacts
  <2> QED BY <1>3, <1>4, <2>1 DEF Before
<1>7. /\ Before(SentOff' \cup IdSet(queue'), Pushed')
      /\ ~InHand' => Before(SentOff', IdSet(queue'))
      /\ ackPc' = "msgsnd" => Before(SentOff', {held'.id})
      /\ InHand' => /\ \A i \in SentOff' : i <= held'.id
                    /\ \A i \in IdSet(queue') : held'.id <= i
                    /\ Before({held'.id}, Pushed')
                    /\ held'.id <= Taken'
      /\ \A i \in SentOff' \cup IdSet(queue') \cup Pushed' :
           i \in Nat /\ i <= Taken'
      /\ AscendingIds(queue')
  BY <1>1, <1>5, Zenon DEF Delivered
<1> QED BY <1>3, <1>4, <1>6, <1>7 DEF Delivered

LEMMA StreamStep ==
  IInv /\ IInv' /\ Numbered /\ Numbered' /\ Delivered /\ [Next]_vars
    => Delivered'
<1> SUFFICES ASSUME IInv, IInv', Numbered, Numbered', Delivered, [Next]_vars
             PROVE  Delivered'
  OBVIOUS
<1>1. Taken \in Int /\ sent \in Nat /\ Len(recvq) \in Nat
  BY StreamTypes
<1>2. CASE AgentSend
  <2>1. /\ UNCHANGED <<replies, ackq, queue, held, ackPc, recvPc, cur>>
        /\ sent' = sent + 1
        /\ \E cmd \in Cmds, oper \in Opers :
             recvq' = Append(recvq, [id |-> sent', cmd |-> cmd, oper |-> oper])
    BY <1>2 DEF AgentSend, recvVars, ackVars
  <2>2. Len(recvq') = Len(recvq) + 1
    <3>1. PICK r : recvq' = Append(recvq, r)
      BY <2>1
    <3>2. recvq \in Seq(Request)
      BY StreamTypes
    <3> QED BY <3>1, <3>2
  <2>3. Taken <= Taken'
    BY <1>1, <2>1, <2>2 DEF Taken
  <2>4. Pushed' = Pushed
    BY <2>1 DEF Pushed, HasCur
  <2> QED BY <2>1, <2>3, <2>4, StreamKept
<1>3. CASE PushPop
  <2>1. /\ UNCHANGED <<replies, ackq, held, sent, recvq>> /\ ackPc' = ackPc
        /\ recvPc = "pop"
    BY <1>3 DEF PushPop, ackVars
  <2>2. CASE queue = <<>>
    <3>1. queue' = queue /\ Pushed' = {}
      BY <1>3, <2>2 DEF PushPop, IsEmpty, Pushed, HasCur
    <3>2. Taken <= Taken'
      BY <1>1, <2>1 DEF Taken
    <3> QED BY <2>1, <3>1, <3>2, StreamKept
  <2>3. CASE queue # <<>>
    <3>1. queue' = Tail(queue) /\ recvPc' = "push" /\ cur' = cur
      BY <1>3, <2>3 DEF PushPop, IsEmpty, Pop
    <3>2. Pushed' = Pushed
      BY <2>1, <3>1 DEF Pushed, HasCur
    <3>3. Len(queue) # 0
      BY <2>3, StreamTypes, SeqFacts
    <3> QED BY <2>1, <3>1, <3>2, <3>3, StreamPop
  <2> QED BY <2>2, <2>3
<1>4. CASE AckPop
  <2>1. /\ UNCHANGED <<replies, ackq, sent, recvq, recvPc, cur>>
        /\ ackPc \in {"pop", "discard"} /\ ackPc' \in {"dead", "wait"}
    BY <1>4 DEF AckPop, recvVars
  <2>2. Pushed' = Pushed /\ ~InHand' /\ ackPc # "msgsnd"
    BY <2>1 DEF Pushed, HasCur, InHand
  <2>3. CASE queue = <<>>
    <3>1. queue' = queue
      BY <1>4, <2>3 DEF AckPop, IsEmpty
    <3>2. IdSet(queue') = {}
      BY <2>3, <3>1 DEF IdSet
    <3>3. /\ SentOff' = SentOff /\ Answered' = Answered
          /\ OnItsWay' = OnItsWay /\ Taken' = Taken
      BY <2>1 DEF SentOff, Answered, OnItsWay, Taken
    <3>4. /\ Before(SentOff', IdSet(queue'))
          /\ Before(SentOff' \cup IdSet(queue'), Pushed')
          /\ Before(Answered', OnItsWay')
          /\ \A i \in SentOff' \cup IdSet(queue') \cup Pushed' :
               i \in Nat /\ i <= Taken'
          /\ AscendingIds(replies') /\ AscendingIds(ackq')
          /\ AscendingIds(queue')
      BY <2>1, <2>2, <3>1, <3>2, <3>3, StreamFacts DEF Before
    <3> QED BY <2>1, <2>2, <3>4 DEF Delivered
  <2>4. CASE queue # <<>>
    <3>1. queue' = Tail(queue)
      BY <1>4, <2>4 DEF AckPop, IsEmpty, Pop
    <3>2. Len(queue) # 0
      BY <2>4, StreamTypes, SeqFacts
    <3> QED BY <2>1, <2>2, <3>1, <3>2, StreamPop
  <2> QED BY <2>3, <2>4
<1>5. CASE \/ PushFull \/ PushPost \/ RecvMsgget \/ AckMsgget \/ AckWait
           \/ UNCHANGED vars
  <2>1. /\ UNCHANGED <<replies, ackq, queue, held, sent, recvq>>
        /\ ackPc' = ackPc \/ (~InHand /\ ~InHand')
        /\ Pushed' = Pushed
    BY <1>5 DEF PushFull, PushPost, RecvMsgget, AckMsgget, AckWait, vars, recvVars,
                ackVars, InHand, Pushed, HasCur
  <2>2. Taken <= Taken'
    BY <1>1, <2>1 DEF Taken
  <2> QED BY <2>1, <2>2, StreamKept
<1> QED
  BY <1>2, <1>3, <1>4, <1>5, StreamReceive, StreamPush, StreamGet,
     StreamMsgsnd, StreamArrive DEF Next, RecvThread, AckThread

LEMMA StreamInitially == Init => Delivered
<1> SUFFICES ASSUME Init PROVE Delivered
  OBVIOUS
<1>1. /\ IdSet(<<>>) = {} /\ AscendingIds(<<>>)
  BY DEF IdSet, AscendingIds
<1>2. /\ SentOff = {} /\ Answered = {} /\ IdSet(queue) = {} /\ Pushed = {}
      /\ ~InHand /\ ackPc # "msgsnd"
  BY <1>1 DEF Init, SentOff, Answered, OnItsWay, Pushed, HasCur, InHand
<1> QED BY <1>1, <1>2 DEF Init, Delivered, Before

\* Whatever the agent does, and also when the unlocked queue overflows, when
\* the receiver removes the reply that is being sent or a System V call fails:
\* pthread_snmp_send_ack never sends a reply twice or out of order.
THEOREM RepliesAscend == Spec => []AscendingIds(replies)
<1>1. Delivered => AscendingIds(replies)
  BY DEF Delivered
<1>2. IInv /\ Numbered /\ [Next]_vars => Numbered'
  BY NumberedStep DEF IInv
<1> QED
  BY <1>1, <1>2, Initially, Inductive, NumberedInitially, StreamInitially,
     StreamStep, PTL DEF Spec
=============================================================================
