------------------------------ MODULE Lifecycle ------------------------------
(***************************************************************************)
(* Start and stop of the process (main, snmp_init, my_func) around the     *)
(* three System V queues that it shares with the agent.                    *)
(*                                                                         *)
(* The queues belong to the kernel: they and what is in them outlive the   *)
(* process until it removes them or the device is rebooted.  Nothing keeps *)
(* a second process of the program from being started, for instance while  *)
(* the first one is still stopping.  The agent only uses queues that it    *)
(* finds.                                                                  *)
(***************************************************************************)
EXTENDS Naturals, Sequences

CONSTANTS
  Procs,       \* processes that may be alive at a time
  RecvRoom,    \* messages that the queue KEY_ID_RECV holds
  MaxStarts    \* bound: starts of the program

ASSUME LifeAssumption ==
  /\ RecvRoom \in Nat \ {0}
  /\ MaxStarts \in Nat

Keys == {"SEND", "RECV", "ACK"}

VARIABLES
  live,           \* per key: is there a queue?
  requests,       \* in the queue RECV: each with the starts before it
  starts,         \* starts of the program so far
  proc,           \* the processes
  abnormal        \* history: what happened since the last boot

queues == <<live, requests>>
vars   == <<queues, starts, proc, abnormal>>

(* A process:                                                              *)
(*   main       the queue that snmp_init creates next, "running" after it  *)
(*   handler    the queue that my_func removes next, "none" outside it     *)
(*   msgid      per key, the queue that the thread for it uses: it has not *)
(*              looked it up yet ("unset"), it is the one that is there    *)
(*              ("live"), or it has been removed since ("removed")         *)
(*   since      its number among the starts                                *)
(*   flag_trap  was a request received?  If so, was the first one "new" or *)
(*              "old", from before the start?  (In C it is set or not.)    *)
Started(n) == [main |-> "SEND", handler |-> "none",
               msgid |-> [key \in Keys |-> "unset"],
               since |-> n, flag_trap |-> "unset"]
Off == [Started(0) EXCEPT !.main = "off"]

Alive(p) == proc[p].main # "off"

Init ==
  /\ live = [key \in Keys |-> FALSE]
  /\ requests = <<>>
  /\ starts = 0
  /\ proc = [p \in Procs |-> Off]
  /\ abnormal = {}
-----------------------------------------------------------------------------
(* Start.  What main does before it has installed the handler touches no   *)
(* queue, and a signal then just ends the process.                         *)

Start(p) ==
  /\ ~Alive(p)
  /\ starts < MaxStarts
  /\ starts' = starts + 1
  /\ proc' = [proc EXCEPT ![p] = Started(starts')]
  /\ abnormal' = abnormal
       \cup {what \in {"overlap"} : \E q \in Procs \ {p} : Alive(q)}
  /\ UNCHANGED queues

CreateOrder(key) == CASE key = "SEND" -> "RECV"
                      [] key = "RECV" -> "ACK"
                      [] key = "ACK"  -> "running"

\* snmp_init: a queue that is there already is used as it is.
Create(p) == LET key == proc[p].main IN
  /\ key \in Keys /\ proc[p].handler = "none"
  /\ proc' = [proc EXCEPT ![p].main = CreateOrder(key)]
  /\ IF live[key]
     THEN UNCHANGED queues
     ELSE /\ live' = [live EXCEPT ![key] = TRUE]
          /\ UNCHANGED requests
  /\ UNCHANGED <<starts, abnormal>>

\* A faulty variant of the next action: the threads are started before
\* snmp_init.
ThreadMsggetEarly(p, key) ==
  /\ Alive(p)
  /\ proc[p].msgid[key] = "unset" \/ key = "SEND"
  /\ live[key]
  /\ proc' = [proc EXCEPT ![p].msgid[key] = "live"]
  /\ UNCHANGED <<queues, starts, abnormal>>

\* The threads look up their queues once, the sender of traps in every turn.
\* A thread that finds none returns.
ThreadMsgget(p, key) ==
  /\ proc[p].main = "running"
  /\ proc[p].msgid[key] = "unset" \/ key = "SEND"
  /\ live[key]
  /\ proc' = [proc EXCEPT ![p].msgid[key] = "live"]
  /\ UNCHANGED <<queues, starts, abnormal>>
-----------------------------------------------------------------------------
(* Requests.                                                               *)

AgentSend ==
  /\ live["RECV"] /\ Len(requests) < RecvRoom
  /\ requests' = Append(requests, starts)
  /\ UNCHANGED <<live, starts, proc, abnormal>>

\* msgrcv, and flag_trap = TRUE unless it is set.  On a queue that was removed
\* msgrcv fails and is tried again for ever.
Serve(p) ==
  /\ proc[p].main = "running"
  /\ proc[p].msgid["RECV"] = "live"
  /\ requests # <<>>
  /\ requests' = Tail(requests)
  /\ IF proc[p].flag_trap # "unset" THEN UNCHANGED proc
     ELSE proc' = [proc EXCEPT ![p].flag_trap =
                     IF Head(requests) < proc[p].since THEN "old" ELSE "new"]
  /\ UNCHANGED <<live, starts, abnormal>>
-----------------------------------------------------------------------------
(* Stop.                                                                   *)

\* A faulty variant of the next operator: the queue of the requests is
\* forgotten.
SecondQueue == "SEND"

FirstQueue == "RECV"

\* SIGINT, SIGQUIT or SIGTERM.  The handler masks no other signal, and the
\* threads can take the same one: while it runs, it may be entered again.
Signal(p) ==
  /\ Alive(p)
  /\ proc' = [proc EXCEPT ![p].handler = FirstQueue]
  /\ abnormal' = abnormal
       \cup {what \in {"bad signal"} : \/ proc[p].main # "running"
                                      \/ proc[p].handler # "none"}
  /\ UNCHANGED <<queues, starts>>

\* Faulty variants of the next operator: the queue of the replies is forgotten,
\* or the handler returns instead of leaving the process.
RemoveTwoOnly(key) == IF key = "RECV" THEN "SEND" ELSE "exit"
ReturnAfterwards(key) == CASE key = "RECV" -> "SEND"
                           [] key = "SEND" -> "ACK"
                           [] key = "ACK"  -> "none"

RemoveOrder(key) == CASE key = "RECV" -> "SEND"
                      [] key = "SEND" -> "ACK"
                      [] key = "ACK"  -> "exit"

\* The kernel removes a queue: who uses it finds out at the next call.
RemoveQueue(processes, key) ==
  [p \in Procs |-> IF processes[p].msgid[key] = "live"
                   THEN [processes[p] EXCEPT !.msgid[key] = "removed"]
                   ELSE processes[p]]

Exit(p, processes) == [processes EXCEPT ![p] = Off]

\* my_func: at the first queue that it does not find, the process exits.
Remove(p) == LET key == proc[p].handler
                 removed == RemoveQueue(proc, key) IN
  /\ Alive(p) /\ key \in Keys
  /\ IF live[key]
     THEN /\ live' = [live EXCEPT ![key] = FALSE]
          /\ requests' = IF key = "RECV" THEN <<>> ELSE requests
          /\ proc' = IF RemoveOrder(key) = "exit" THEN Exit(p, removed)
                     ELSE [removed EXCEPT ![p].handler = RemoveOrder(key)]
     ELSE /\ proc' = Exit(p, proc)
          /\ UNCHANGED queues
  /\ UNCHANGED <<starts, abnormal>>

\* The process ends without its handler: it is killed, it crashes, main
\* returns as a thread cannot be created, or snmp_init fails.
Abort(p) ==
  /\ Alive(p)
  /\ proc' = Exit(p, proc)
  /\ abnormal' = abnormal \cup {"abort"}
  /\ UNCHANGED <<queues, starts>>

\* The device is rebooted, by the pulse thread or from outside.
Reboot ==
  /\ live' = [key \in Keys |-> FALSE] /\ requests' = <<>>
  /\ proc' = [p \in Procs |-> Off]
  /\ abnormal' = {}
  /\ UNCHANGED starts

Process(p) ==
  \/ Create(p) \/ \E key \in Keys : ThreadMsgget(p, key)
  \/ Serve(p) \/ Remove(p)

Next ==
  \/ AgentSend \/ Reboot
  \/ \E p \in Procs : Start(p) \/ Process(p) \/ Signal(p) \/ Abort(p)

Spec == Init /\ [][Next]_vars

\* The handler runs on; its System V calls do not wait, and what
\* printf and free do inside the C library is left out.
FairSpec == Spec /\ \A p \in Procs : WF_vars(Remove(p))
-----------------------------------------------------------------------------
(* Properties.                                                             *)

Causes == {"abort", "overlap", "bad signal"}

ProcStates ==
  [main : Keys \cup {"off", "running"}, handler : Keys \cup {"none"},
   msgid : [Keys -> {"unset", "live", "removed"}], since : 0 .. MaxStarts,
   flag_trap : {"unset", "new", "old"}]

\* Only a process that is through with snmp_init uses queues and receives.
TypeOK ==
  /\ live \in [Keys -> BOOLEAN]
  /\ requests \in Seq(0 .. MaxStarts) /\ Len(requests) <= RecvRoom
  /\ live["RECV"] \/ requests = <<>>
  /\ starts \in 0 .. MaxStarts
  /\ proc \in [Procs -> ProcStates]
  /\ abnormal \in SUBSET Causes
  /\ \A p \in Procs : proc[p].main # "running" =>
       /\ proc[p].msgid = [key \in Keys |-> "unset"]
       /\ proc[p].flag_trap = "unset"

\* After the process was stopped by a signal no queue is left behind, unless
\* something abnormal happened since the device was booted: a process ended
\* without its handler, ran beside another one, or got a signal while it was
\* starting or a second one while it was stopping.
CleanStopLeavesNothing ==
  (\A p \in Procs : ~Alive(p)) /\ abnormal = {} => \A key \in Keys : ~live[key]

\* A process receives a request from before its start, and with that a reason
\* to send traps, only after another one ended without its handler or beside
\* another one.  Signals at a bad moment are not enough: the handler removes
\* the queue of the requests first.
OldRequestsNeedAbort ==
  \A p \in Procs :
    proc[p].flag_trap = "old" => abnormal \cap {"abort", "overlap"} # {}

\* The threads of a process that is alone and is not stopping use the queues
\* that the agent finds.
ThreadsUseLiveQueues ==
  \A p \in Procs, key \in Keys :
    /\ proc[p].main = "running" /\ proc[p].handler = "none"
    /\ "overlap" \notin abnormal
    /\ proc[p].msgid[key] # "unset"
    => live[key] /\ proc[p].msgid[key] = "live"

\* A process that got a signal ends.
SignalEnds ==
  \A p \in Procs : (Alive(p) /\ proc[p].handler # "none") ~> ~Alive(p)
==============================================================================
