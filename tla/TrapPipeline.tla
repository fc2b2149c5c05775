---------------------------- MODULE TrapPipeline ----------------------------
(***************************************************************************)
(* The way of a trap to the SNMP agent (snmp.c).                           *)
(*                                                                         *)
(* Every SIGALRM of the interval timer posts the semaphore trapsignal.     *)
(* pthread_second_task takes it and, once the agent has asked for          *)
(* something (flag_trap), emits one round of traps: each is pushed on the  *)
(* queue objSnmp.send under the semaphore sem_var.mutex and announced with *)
(* sem_var.full.  pthread_snmp_send takes the announcements, removes the   *)
(* messages under the same mutex and hands them to the agent through the   *)
(* System V message queue KEY_ID_SEND, which blocks while it has no room.  *)
(*                                                                         *)
(* A trap is its number in the order of emission; what it reports is left  *)
(* out.                                                                    *)
(***************************************************************************)
EXTENDS MsgQueue

CONSTANTS
  Round,       \* 6: traps in a round (0x70 ... 0x75)
  AgentRoom,   \* messages that the System V queue holds
  MaxTicks,    \* bound: timer signals
  IpcFaults    \* may msgget or msgsnd fail?

ASSUME TrapAssumption ==
  /\ Round \in Nat \ {0} /\ AgentRoom \in Nat \ {0} /\ MaxTicks \in Nat
  /\ IpcFaults \in BOOLEAN

VARIABLES
  ticks,        \* timer signals so far
  trapsignal,   \* semaphore: signals not served
  flag_trap,    \* the agent has sent a request
  taskPc,       \* where pthread_second_task is
  left,         \* traps of this round still to be pushed
  sendq,        \* objSnmp.send.queue
  mutex, full,  \* the semaphores of sem_var
  sendPc,       \* where pthread_snmp_send is
  held,         \* the message that pthread_snmp_send took from the queue
  agentq,       \* the System V queue KEY_ID_SEND
  emitted,      \* traps pushed so far
  overwritten,  \* history: messages that a push removed from a full queue
  lost,         \* history: messages that msgsnd did not accept
  received      \* history: the messages the agent received

taskVars == <<taskPc, left>>
sendVars == <<sendPc, held>>
history  == <<emitted, overwritten, lost, received>>
vars == <<ticks, trapsignal, flag_trap, taskVars, sendq, mutex, full,
          sendVars, agentq, history>>

Init ==
  /\ ticks = 0 /\ trapsignal = 0 /\ flag_trap = FALSE
  /\ taskPc = "wait" /\ left = 0
  /\ sendq = <<>> /\ mutex = 1 /\ full = 0
  /\ sendPc = "msgget" /\ held = 0
  /\ agentq = <<>>
  /\ emitted = 0 /\ overwritten = 0 /\ lost = {} /\ received = <<>>
-----------------------------------------------------------------------------
\* signal_handler
Tick ==
  /\ ticks < MaxTicks
  /\ ticks' = ticks + 1
  /\ trapsignal' = trapsignal + 1
  /\ UNCHANGED <<flag_trap, taskVars, sendq, mutex, full, sendVars, agentq,
                 history>>

\* pthread_snmp_recv has received a request of the agent.
Request ==
  /\ ~flag_trap
  /\ flag_trap' = TRUE
  /\ UNCHANGED <<ticks, trapsignal, taskVars, sendq, mutex, full, sendVars,
                 agentq, history>>

(* pthread_second_task, with Trap_msg_to_snmpd and snmp_data_trap          *)

TaskWait ==
  /\ taskPc = "wait"
  /\ trapsignal > 0
  /\ trapsignal' = trapsignal - 1
  /\ IF flag_trap THEN taskPc' = "lock" /\ left' = Round
                  ELSE UNCHANGED taskVars
  /\ UNCHANGED <<ticks, flag_trap, sendq, mutex, full, sendVars, agentq,
                 history>>

TaskLock ==
  /\ taskPc = "lock"
  /\ mutex > 0
  /\ mutex' = mutex - 1
  /\ taskPc' = "push"
  /\ UNCHANGED <<ticks, trapsignal, flag_trap, left, sendq, full, sendVars,
                 agentq, history>>

TaskPush ==
  /\ taskPc = "push"
  /\ taskPc' = "unlock"
  /\ emitted' = emitted + 1
  /\ sendq' = Push(sendq, emitted')
  /\ overwritten' = IF IsFull(sendq) THEN overwritten + 1 ELSE overwritten
  /\ UNCHANGED <<ticks, trapsignal, flag_trap, left, mutex, full, sendVars,
                 agentq, lost, received>>

TaskUnlock ==
  /\ taskPc = "unlock"
  /\ taskPc' = "post"
  /\ mutex' = mutex + 1
  /\ UNCHANGED <<ticks, trapsignal, flag_trap, left, sendq, full, sendVars,
                 agentq, history>>

TaskPost ==
  /\ taskPc = "post"
  /\ full' = full + 1
  /\ left' = left - 1
  /\ taskPc' = IF left' = 0 THEN "wait" ELSE "lock"
  /\ UNCHANGED <<ticks, trapsignal, flag_trap, sendq, mutex, sendVars, agentq,
                 history>>

SecondTask == TaskWait \/ TaskLock \/ TaskPush \/ TaskUnlock \/ TaskPost
-----------------------------------------------------------------------------
(* pthread_snmp_send                                                       *)

\* The System V queue is looked up before every message, and the thread ends
\* when it is not there.
SendMsgget ==
  /\ sendPc = "msgget"
  /\ sendPc' \in {"full"} \cup IF IpcFaults THEN {"ended"} ELSE {}
  /\ UNCHANGED <<ticks, trapsignal, flag_trap, taskVars, sendq, mutex, full,
                 held, agentq, history>>

SendWaitFull ==
  /\ sendPc = "full"
  /\ full > 0
  /\ full' = full - 1
  /\ sendPc' = "lock"
  /\ UNCHANGED <<ticks, trapsignal, flag_trap, taskVars, sendq, mutex, held,
                 agentq, history>>

SendLock ==
  /\ sendPc = "lock"
  /\ mutex > 0
  /\ mutex' = mutex - 1
  /\ sendPc' = "take"
  /\ UNCHANGED <<ticks, trapsignal, flag_trap, taskVars, sendq, full, held,
                 agentq, history>>

\* Get and Pop.  Nobody else touches the queue between the two, so Pop fails
\* exactly when Get does.
SendTake ==
  /\ sendPc = "take"
  /\ IF IsEmpty(sendq)
     THEN /\ sendPc' = "abandon"
          /\ UNCHANGED <<sendq, held>>
     ELSE /\ sendPc' = "unlock"
          /\ held' = Get(sendq)
          /\ sendq' = Pop(sendq)
  /\ UNCHANGED <<ticks, trapsignal, flag_trap, taskVars, mutex, full, agentq,
                 history>>

\* A faulty variant of the next action: the error path keeps the mutex.
SendAbandonLocked ==
  /\ sendPc = "abandon"
  /\ sendPc' = "dead"
  /\ UNCHANGED <<ticks, trapsignal, flag_trap, taskVars, sendq, mutex, full,
                 held, agentq, history>>

\* Nothing was found: the mutex is released and the thread returns.
SendAbandon ==
  /\ sendPc = "abandon"
  /\ sendPc' = "dead"
  /\ mutex' = mutex + 1
  /\ UNCHANGED <<ticks, trapsignal, flag_trap, taskVars, sendq, full, held,
                 agentq, history>>

SendUnlock ==
  /\ sendPc = "unlock"
  /\ sendPc' = "msgsnd"
  /\ mutex' = mutex + 1
  /\ UNCHANGED <<ticks, trapsignal, flag_trap, taskVars, sendq, full, held,
                 agentq, history>>

\* msgsnd waits for room.  When it fails, the message has already left the
\* queue and is not tried again.
SendMsgsnd ==
  /\ sendPc = "msgsnd"
  /\ sendPc' = "msgget"
  /\ held' = 0
  /\ \/ /\ Len(agentq) < AgentRoom
        /\ agentq' = Append(agentq, held)
        /\ UNCHANGED lost
     \/ /\ IpcFaults
        /\ lost' = lost \cup {held}
        /\ UNCHANGED agentq
  /\ UNCHANGED <<ticks, trapsignal, flag_trap, taskVars, sendq, mutex, full,
                 emitted, overwritten, received>>

Sender == \/ SendMsgget \/ SendWaitFull \/ SendLock \/ SendTake
          \/ SendAbandon \/ SendUnlock \/ SendMsgsnd

\* The agent, an external process.
AgentReceive ==
  /\ agentq # <<>>
  /\ agentq' = Tail(agentq)
  /\ received' = Append(received, Head(agentq))
  /\ UNCHANGED <<ticks, trapsignal, flag_trap, taskVars, sendq, mutex, full,
                 sendVars, emitted, overwritten, lost>>

Next == Tick \/ Request \/ SecondTask \/ Sender \/ AgentReceive

Spec == Init /\ [][Next]_vars

\* The threads are scheduled and the agent reads its queue.  After its last
\* round the task leaves the mutex alone, so weak fairness is enough for the
\* sender to get it.
FairSpec == Spec /\ WF_vars(SecondTask) /\ WF_vars(Sender)
                 /\ WF_vars(AgentReceive)
-----------------------------------------------------------------------------
(* Properties.                                                             *)

TaskSteps == {"wait", "lock", "push", "unlock", "post"}
SendSteps == {"msgget", "full", "lock", "take", "abandon", "unlock", "msgsnd",
              "dead", "ended"}

TypeOK ==
  /\ ticks \in 0 .. MaxTicks /\ trapsignal \in 0 .. ticks
  /\ flag_trap \in BOOLEAN
  /\ taskPc \in TaskSteps /\ left \in 0 .. Round
  /\ sendq \in Seq(Nat) /\ Len(sendq) <= QUEUE_MAX_SIZE
  /\ mutex \in {0, 1} /\ full \in Nat
  /\ sendPc \in SendSteps /\ held \in Nat
  /\ agentq \in Seq(Nat) /\ Len(agentq) <= AgentRoom
  /\ emitted \in Nat /\ overwritten \in Nat
  /\ lost \subseteq Nat /\ received \in Seq(Nat)

One(condition) == IF condition THEN 1 ELSE 0
TaskInside     == taskPc \in {"push", "unlock"}
SenderInside   == sendPc \in {"take", "abandon", "unlock"}

\* The mutex semaphore is handed over exactly: the two threads are never
\* both at the queue, and on no path, the error path of the sender
\* included, is the mutex kept or posted twice.
MutexHandedOver == mutex + One(TaskInside) + One(SenderInside) = 1

\* The semaphore full against the queue it counts: announcements made, about
\* to be made, and taken but not yet used, are as many as the messages in
\* the queue and the messages overwritten.  An overwritten message leaves
\* its announcement behind.
AnnouncementsMatch ==
  full + One(taskPc \in {"unlock", "post"})
       + One(sendPc \in {"lock", "take", "abandon", "dead"})
    = Len(sendq) + overwritten

\* The sender gives up on an empty queue only after a message was overwritten:
\* as long as the queue never overflows, its error path is dead code.
GivesUpOnlyAfterOverwrite ==
  sendPc \in {"abandon", "dead"} => overwritten > 0

\* The queue always holds the newest traps, without a gap and in order: what
\* a push drops, or the sender takes, is the oldest.
NewestKept ==
  \A k \in 1 .. Len(sendq) : sendq[k] = emitted - Len(sendq) + k

\* Every trap that was emitted reaches the agent, if none is overwritten and
\* no call for the System V queue fails.
AllArrive ==
  [](overwritten = 0 /\ lost = {} /\ sendPc # "ended") =>
    \A n \in 1 .. Round * MaxTicks :
      emitted >= n ~> \E k \in 1 .. Len(received) : received[k] = n

\* A queue that overflowed does not cost the sender its life: Push reports
\* the overflow as handled ("queue is full,pop success").
SenderSurvivesOverflow == overwritten > 0 => sendPc # "dead"

\* The traps of the agent are those of a lossy channel: in order, none twice,
\* none that was not emitted.
InFlight == {agentq[k] : k \in 1 .. Len(agentq)}
              \cup {sendq[k] : k \in 1 .. Len(sendq)}
              \cup IF sendPc \in {"unlock", "msgsnd"} THEN {held} ELSE {}
Channel == INSTANCE TrapChannel WITH pending <- InFlight
RefinesChannel == Channel!Spec
=============================================================================
