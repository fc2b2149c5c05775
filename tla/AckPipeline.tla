----------------------------- MODULE AckPipeline -----------------------------
(***************************************************************************)
(* Requests of the SNMP agent and their replies (snmp.c).                  *)
(*                                                                         *)
(* pthread_snmp_recv takes a request from the System V queue KEY_ID_RECV   *)
(* and runs its handler, which may put a reply on objSnmp.send_ack.queue   *)
(* and post the semaphore objSnmp.send_ack.sem.  pthread_snmp_send_ack     *)
(* waits for the semaphore, copies the oldest reply, hands it to the agent *)
(* through the System V queue KEY_ID_ACK and then removes it.              *)
(*                                                                         *)
(* No lock protects this queue, unlike that of the traps: each of its      *)
(* operations is a step of its own.  (Two operations of libcstl that       *)
(* really overlap are a data race; that is left out.)                      *)
(***************************************************************************)
EXTENDS MsgQueue, Integers, FiniteSets

CONSTANTS
  Opers,        \* the groups of operation codes that the agent uses
  RecvRoom,     \* messages that the System V queue KEY_ID_RECV holds
  AckRoom,      \* messages that the System V queue KEY_ID_ACK holds
  Window,       \* requests with a reply that the agent has open at a time
  MaxRequests,  \* bound: requests of the agent
  IpcFaults     \* may msgget or msgsnd fail?

(* "net": 0x01 ... 0x03, address, netmask and gateway; "mac": 0x04; "db":  *)
(* 0x05; "source": 0x36, the address again; "info": 0x32, 0x60 ... 0x66.   *)
OperGroups == {"net", "mac", "db", "source", "info"}

ASSUME AckAssumption ==
  /\ Opers \subseteq OperGroups
  /\ {RecvRoom, AckRoom, Window} \subseteq Nat \ {0} /\ MaxRequests \in Nat
  /\ IpcFaults \in BOOLEAN

Cmds     == {"CMD_GET", "CMD_SET"}
Request  == [id : Nat, cmd : Cmds, oper : OperGroups]
Ack      == [id : Nat, cmd : Cmds, error_code : {0, -1}]

NoRequest == [id |-> 0, cmd |-> "CMD_GET", oper |-> "db"]
NoAck     == [id |-> 0, cmd |-> "CMD_GET", error_code |-> 0]

VARIABLES
  sent,         \* requests sent by the agent so far
  recvq,        \* the System V queue KEY_ID_RECV
  flag_trap,    \* some request was received: traps make sense
  recvPc, cur,  \* pthread_snmp_recv, and the reply it is about to push
  queue, sem,   \* objSnmp.send_ack
  ackPc, held,  \* pthread_snmp_send_ack, and the reply it copied
  ackq,         \* the System V queue KEY_ID_ACK
  overwritten,  \* history: replies removed by a push on a full queue
  replies       \* history: the replies the agent received

recvVars == <<flag_trap, recvPc, cur>>
ackVars  == <<ackPc, held>>
vars == <<sent, recvq, recvVars, queue, sem, ackVars, ackq, overwritten,
          replies>>

Init ==
  /\ sent = 0 /\ recvq = <<>>
  /\ flag_trap = FALSE /\ recvPc = "msgget" /\ cur = NoAck
  /\ queue = <<>> /\ sem = 0
  /\ ackPc = "msgget" /\ held = NoAck
  /\ ackq = <<>>
  /\ overwritten = 0 /\ replies = <<>>
-----------------------------------------------------------------------------
(* Which requests the handlers reply to, and with which error code.        *)

\* Queries and settings of the network parameters; queries of the rest.  The
\* handlers of "mac" and "db" push nothing.
NetReply(r)  == r.oper = "net"
InfoReply(r) == r.oper \in {"source", "info"} /\ r.cmd = "CMD_GET"
HasReply(r)  == NetReply(r) \/ InfoReply(r)
CanFail(r)   == r.oper \in {"net", "source"}

\* snmp_data_ack always reports success, snmp_data_set_ack the result; failed
\* means that what the request asked for could not be read or written.
ReplyTo(r, failed) ==
  [id |-> r.id, cmd |-> r.cmd,
   error_code |-> IF r.cmd = "CMD_SET" /\ failed THEN -1 ELSE 0]

Failures(r) == IF CanFail(r) THEN BOOLEAN ELSE {FALSE}

\* The numbers of the requests with a reply in a sequence of requests.
Expecting(q) == {q[k].id : k \in {j \in 1 .. Len(q) : HasReply(q[j])}}
-----------------------------------------------------------------------------
(* The agent, an external process.  It never has more than Window requests *)
(* with a reply open; they are counted where they are, which is what the   *)
(* agent counts as long as no reply is lost.                               *)

OpenReplies == Cardinality(Expecting(recvq))
               + (IF recvPc \in {"full", "pop", "push"} THEN 1 ELSE 0)
               + Len(queue) - (IF ackPc = "pop" THEN 1 ELSE 0)
               + Len(ackq)

AgentSend ==
  /\ sent < MaxRequests
  /\ Len(recvq) < RecvRoom
  /\ sent' = sent + 1
  /\ \E cmd \in Cmds, oper \in Opers :
       LET r == [id |-> sent', cmd |-> cmd, oper |-> oper] IN
         /\ HasReply(r) => OpenReplies < Window
         /\ recvq' = Append(recvq, r)
  /\ UNCHANGED <<recvVars, queue, sem, ackVars, ackq, overwritten, replies>>

AgentReceive ==
  /\ ackq # <<>>
  /\ ackq' = Tail(ackq)
  /\ replies' = Append(replies, Head(ackq))
  /\ UNCHANGED <<sent, recvq, recvVars, queue, sem, ackVars, overwritten>>
-----------------------------------------------------------------------------
(* pthread_snmp_recv.  When msgrcv fails it is tried again; without its    *)
(* System V queue the thread returns.                                      *)

RecvMsgget ==
  /\ recvPc = "msgget"
  /\ recvPc' \in {"msgrcv"} \cup IF IpcFaults THEN {"ended"} ELSE {}
  /\ UNCHANGED <<sent, recvq, flag_trap, cur, queue, sem, ackVars, ackq,
                 overwritten, replies>>

Receive ==
  /\ recvPc = "msgrcv"
  /\ recvq # <<>>
  /\ recvq' = Tail(recvq)
  /\ flag_trap' = TRUE
  /\ IF HasReply(Head(recvq))
     THEN /\ \E failed \in Failures(Head(recvq)) :
               cur' = ReplyTo(Head(recvq), failed)
          /\ recvPc' = "full"
     ELSE UNCHANGED <<cur, recvPc>>
  /\ UNCHANGED <<sent, queue, sem, ackVars, ackq, overwritten, replies>>

\* SN_Free_Lock_Queue_Push in three steps, then sem_post.
PushFull ==
  /\ recvPc = "full"
  /\ recvPc' = IF IsFull(queue) THEN "pop" ELSE "push"
  /\ UNCHANGED <<sent, recvq, flag_trap, cur, queue, sem, ackVars, ackq,
                 overwritten, replies>>

\* When the sender has emptied the queue since, nothing is pushed or posted.
PushPop ==
  /\ recvPc = "pop"
  /\ IF IsEmpty(queue)
     THEN /\ recvPc' = "msgrcv"
          /\ cur' = NoAck
          /\ UNCHANGED <<queue, overwritten>>
     ELSE /\ recvPc' = "push"
          /\ queue' = Pop(queue)
          /\ overwritten' = overwritten + 1
          /\ UNCHANGED cur
  /\ UNCHANGED <<sent, recvq, flag_trap, sem, ackVars, ackq, replies>>

PushAppend ==
  /\ recvPc = "push"
  /\ recvPc' = "post"
  /\ queue' = Append(queue, cur)
  /\ cur' = NoAck
  /\ UNCHANGED <<sent, recvq, flag_trap, sem, ackVars, ackq, overwritten,
                 replies>>

PushPost ==
  /\ recvPc = "post"
  /\ recvPc' = "msgrcv"
  /\ sem' = sem + 1
  /\ UNCHANGED <<sent, recvq, flag_trap, cur, queue, ackVars, ackq,
                 overwritten, replies>>

RecvThread ==
  RecvMsgget \/ Receive \/ PushFull \/ PushPop \/ PushAppend \/ PushPost
-----------------------------------------------------------------------------
(* pthread_snmp_send_ack                                                   *)

AckMsgget ==
  /\ ackPc = "msgget"
  /\ ackPc' \in {"wait"} \cup IF IpcFaults THEN {"ended"} ELSE {}
  /\ UNCHANGED <<sent, recvq, recvVars, queue, sem, held, ackq, overwritten,
                 replies>>

AckWait ==
  /\ ackPc = "wait"
  /\ sem > 0
  /\ sem' = sem - 1
  /\ ackPc' = "get"
  /\ UNCHANGED <<sent, recvq, recvVars, queue, held, ackq, overwritten,
                 replies>>

AckGet ==
  /\ ackPc = "get"
  /\ IF IsEmpty(queue) THEN ackPc' = "discard" /\ UNCHANGED held
                       ELSE ackPc' = "msgsnd" /\ held' = Get(queue)
  /\ UNCHANGED <<sent, recvq, recvVars, queue, sem, ackq, overwritten,
                 replies>>

\* msgsnd waits for room.  When it fails, the reply is given up.
AckMsgsnd ==
  /\ ackPc = "msgsnd"
  /\ ackPc' = "pop"
  /\ \/ /\ Len(ackq) < AckRoom
        /\ ackq' = Append(ackq, held)
     \/ /\ IpcFaults
        /\ UNCHANGED ackq
  /\ UNCHANGED <<sent, recvq, recvVars, queue, sem, held, overwritten,
                 replies>>

\* A faulty variant of the next action: the reply stays in the queue.
AckKeep ==
  /\ ackPc \in {"pop", "discard"}
  /\ ackPc' = "wait"
  /\ UNCHANGED <<sent, recvq, recvVars, queue, sem, held, ackq, overwritten,
                 replies>>

\* Pop, after the reply was sent, was given up, or was not found ("discard");
\* the thread returns when it fails.
AckPop ==
  /\ ackPc \in {"pop", "discard"}
  /\ held' = NoAck
  /\ IF IsEmpty(queue) THEN ackPc' = "dead" /\ UNCHANGED queue
                       ELSE ackPc' = "wait" /\ queue' = Pop(queue)
  /\ UNCHANGED <<sent, recvq, recvVars, sem, ackq, overwritten, replies>>

AckThread == AckMsgget \/ AckWait \/ AckGet \/ AckMsgsnd \/ AckPop

Next == AgentSend \/ AgentReceive \/ RecvThread \/ AckThread

Spec == Init /\ [][Next]_vars

\* Both threads are scheduled and the agent reads its replies; whether it
\* asks is its own business.
FairSpec == Spec /\ WF_vars(RecvThread) /\ WF_vars(AckThread)
                 /\ WF_vars(AgentReceive)
-----------------------------------------------------------------------------
(* Properties.                                                             *)

TypeOK ==
  /\ sent \in 0 .. MaxRequests
  /\ recvq \in Seq(Request) /\ Len(recvq) <= RecvRoom
  /\ flag_trap \in BOOLEAN
  /\ recvPc \in {"msgget", "msgrcv", "full", "pop", "push", "post", "ended"}
  /\ cur \in Ack
  /\ queue \in Seq(Ack) /\ Len(queue) <= QUEUE_MAX_SIZE
  /\ sem \in Nat
  /\ ackPc \in {"msgget", "wait", "get", "msgsnd", "pop", "discard", "dead",
                "ended"}
  /\ held \in Ack
  /\ ackq \in Seq(Ack) /\ Len(ackq) <= AckRoom
  /\ overwritten \in Nat /\ replies \in Seq(Ack)

One(condition) == IF condition THEN 1 ELSE 0

\* The semaphore of the replies against the queue it counts.  It holds for
\* every interleaving of the unlocked operations: an announcement without a
\* message stems from an overwritten reply.
AnnouncementsMatch ==
  sem + One(recvPc = "post")
      + One(ackPc \in {"get", "msgsnd", "pop", "discard", "dead"})
    = Len(queue) + overwritten

\* While no reply is overwritten, the sender finds a reply whenever it is
\* woken, and the one it removes is the one it has sent.
RemovesWhatItSent ==
  overwritten = 0 =>
    /\ ackPc \in {"msgsnd", "pop"} => queue # <<>> /\ Head(queue) = held
    /\ ackPc \notin {"discard", "dead"}

\* A careful agent never makes the queue overflow.  It must have fewer open
\* requests than the queue holds: a reply that it has already received takes
\* up a place until the sender removes it.
NeverOverwritten == Window < QUEUE_MAX_SIZE => overwritten = 0

Ids(q) == [k \in 1 .. Len(q) |-> q[k].id]

\* The requests that have not been replied to: replies on their way, in the
\* queue and not yet sent, about to be pushed, and requests not yet received.
Unsent == {k \in 1 .. Len(queue) : ackPc = "pop" => k > 1}
Open   == {ackq[k].id : k \in 1 .. Len(ackq)}
            \cup {queue[k].id : k \in Unsent}
            \cup (IF recvPc \in {"full", "pop", "push"} THEN {cur.id} ELSE {})
            \cup Expecting(recvq)

\* The application answers a careful agent as RequestReply says: no reply is
\* lost, repeated or out of order.
Service == INSTANCE RequestReply WITH
  Requests <- 1 .. MaxRequests, open <- Open, replied <- Ids(replies)
RefinesService == Service!Spec

\* Every request that the handlers reply to is eventually replied to.
EveryReplyArrives ==
  \A n \in 1 .. MaxRequests :
    (\E k \in 1 .. Len(recvq) : recvq[k].id = n /\ HasReply(recvq[k]))
      ~> (\E k \in 1 .. Len(replies) : replies[k].id = n)
==============================================================================
