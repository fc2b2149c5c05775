------------------------------ MODULE NetConfig ------------------------------
(***************************************************************************)
(* Queries and settings of the address, the netmask and the gateway        *)
(* (snmp.c, snmp_data_0x01 ... 0x03), and the file descriptors they use.   *)
(*                                                                         *)
(* The receiver thread runs the handlers.  For every trap the second task  *)
(* looks up the address too, and the pulse thread of main.c opens the      *)
(* carrier file in every turn: the three share the descriptors of the      *)
(* process.                                                                *)
(*                                                                         *)
(* The kernel is external.  It refuses a mask that is no mask; with a new  *)
(* address it falls back to a default mask, and with a new address or mask *)
(* it may drop the routes of the interface, the default route included.    *)
(***************************************************************************)
EXTENDS Netmask

CONSTANTS
  AddrTexts, MaskTexts,  \* what the agent sends in a setting
  FirstAddress,          \* the address at the start
  FdLimit,               \* descriptors that the process can still open
  Faults                 \* may an ioctl, or the command "ip route", fail
                         \* without a reason that is named here?

ASSUME NetAssumption ==
  /\ AddrTexts \subseteq Texts /\ MaskTexts \subseteq Texts
  /\ FirstAddress \in Words
  /\ FdLimit \in Nat
  /\ Faults \in BOOLEAN

VARIABLES
  ip, mask, route,    \* the interface, and the gateway of the default route
  open,               \* descriptors in use
  recvPc, cur, reply, \* the receiver: its step, request and last reply
  taskPc, pulsePc,    \* the two other threads that open files
  before,             \* history: <<ip, mask, route>> when cur was received
  outcome,            \* history: how the query cur got its value
  leaked              \* history: descriptors that nobody will close

net    == <<ip, mask, route>>
others == <<taskPc, pulsePc>>
vars   == <<net, open, recvPc, cur, reply, others, before, outcome, leaked>>

(* Values that are no addresses: no default route, the empty text, and the *)
(* name of the device.  AnyText is what can be found in a buffer that      *)
(* nothing was read into.                                                  *)
None   == -1
Empty  == -2
Device == -3

AnyText == {Empty, Device} \cup Words

(* How a query gets its value: from a lookup that worked ("value"), from   *)
(* the zeroed buffer since a call failed ("failed"), or from an output of  *)
(* "ip route" that does not name a gateway ("unread").                     *)
Outcomes == {"value", "failed", "unread"}

Opers    == {"ip", "mask", "gateway"}
Requests == [cmd : {"CMD_GET", "CMD_SET"}, oper : Opers, text : Texts]

TextsOf(oper) == IF oper = "mask" THEN MaskTexts ELSE AddrTexts
SomeText      == <<0, 0, 0, 0>>

(* What the agent gets: for a setting, whether it worked; for a query, a   *)
(* value.                                                                  *)
Success   == [error_code |-> 0, value |-> Empty]
Refusal   == [error_code |-> -1, value |-> Empty]
Found(v)  == [error_code |-> 0, value |-> v]

Init ==
  /\ ip = FirstAddress /\ mask \in Masks
  /\ route \in {None} \cup {Address(t) : t \in {u \in AddrTexts : Fits(u)}}
  /\ open = 0
  /\ recvPc = "idle" /\ reply = Found(ip) /\ outcome = "value"
  /\ cur = [cmd |-> "CMD_GET", oper |-> "ip", text |-> SomeText]
  /\ taskPc = "idle" /\ pulsePc = "idle"
  /\ before = net
  /\ leaked = 0

Free(n) == open + n <= FdLimit

Answer(r) == reply' = r /\ recvPc' = "idle"

\* In the kernel: are two addresses in one network, and is there a route to
\* the network of the interface?
SameNetwork(a, b) == a \div (2 ^ Width - mask) = b \div (2 ^ Width - mask)
HasNetwork        == mask \notin {PrefixMask(0), PrefixMask(Width)}
-----------------------------------------------------------------------------
(* Dispatch on the operation code and the command, with the checks of the  *)
(* text that set_ipaddress, set_netmask and set_gateway start with.        *)

Receive ==
  /\ recvPc = "idle"
  /\ \E oper \in Opers :
       \/ /\ cur' = [cmd |-> "CMD_GET", oper |-> oper, text |-> SomeText]
          /\ recvPc' = IF oper = "gateway" THEN "popen" ELSE "lookup"
       \/ \E text \in TextsOf(oper) :
            /\ cur' = [cmd |-> "CMD_SET", oper |-> oper, text |-> text]
            /\ \E valid \in IF oper = "mask" THEN is_valid_netmask(text)
                            ELSE {is_valid_ip(text)} :
                 recvPc' = IF valid THEN "socket" ELSE "refuse"
  /\ before' = net
  /\ outcome' = "value"
  /\ UNCHANGED <<net, open, reply, others, leaked>>

Refuse ==
  /\ recvPc = "refuse"
  /\ Answer(Refusal)
  /\ UNCHANGED <<net, open, cur, others, before, outcome, leaked>>

\* socket(), at the start of set_net_parameter and set_gateway
SetSocket ==
  /\ recvPc = "socket"
  /\ IF Free(1)
     THEN /\ open' = open + 1
          /\ recvPc' = IF cur.oper = "gateway" THEN "delrt" ELSE "setif"
          /\ UNCHANGED reply
     ELSE Answer(Refusal) /\ UNCHANGED open
  /\ UNCHANGED <<net, cur, others, before, outcome, leaked>>
-----------------------------------------------------------------------------
(* set_net_parameter: SIOCGIFFLAGS, then SIOCSIFADDR or SIOCSIFNETMASK.    *)

\* The kernel.
ApplyAddress(a) ==
  IF a = ip THEN UNCHANGED net
  ELSE /\ ip' = a
       /\ mask' \in {PrefixMask(k * PartBits) : k \in 1 .. 3}
       /\ route' \in {None, route}

ApplyMask(m) ==
  IF m = mask THEN UNCHANGED net
  ELSE /\ m \in Masks
       /\ mask' = m
       /\ route' \in {None, route}
       /\ UNCHANGED ip

Apply == LET word == Address(cur.text) IN
  IF cur.oper = "ip" THEN ApplyAddress(word) ELSE ApplyMask(word)

MayFail == Faults \/ (cur.oper = "mask" /\ Address(cur.text) \notin Masks)

\* A faulty variant of the next action: the flags are read after the change.
SetInterfaceFlagsLast ==
  /\ recvPc = "setif"
  /\ \/ Apply /\ Answer(Success)
     \/ Apply /\ Faults /\ Answer(Refusal)
     \/ MayFail /\ Answer(Refusal) /\ UNCHANGED net
  /\ open' = open - 1
  /\ UNCHANGED <<cur, others, before, outcome, leaked>>

\* A faulty variant of the next action: after a failing ioctl the handler
\* goes on, to the second close.
SetInterfaceClosedTwice ==
  /\ recvPc = "setif"
  /\ \/ Apply /\ Answer(Success) /\ open' = open - 1
     \/ MayFail /\ Answer(Refusal) /\ UNCHANGED net /\ open' = open - 2
  /\ UNCHANGED <<cur, others, before, outcome, leaked>>

\* A faulty variant of the next action: a failing ioctl leaves the socket.
SetInterfaceUnclosed ==
  /\ recvPc = "setif"
  /\ \/ Apply /\ Answer(Success) /\ open' = open - 1
     \/ MayFail /\ Answer(Refusal) /\ UNCHANGED <<net, open>>
  /\ UNCHANGED <<cur, others, before, outcome, leaked>>

\* The socket is closed on every path.
SetInterface ==
  /\ recvPc = "setif"
  /\ \/ Apply /\ Answer(Success)
     \/ MayFail /\ Answer(Refusal) /\ UNCHANGED net
  /\ open' = open - 1
  /\ UNCHANGED <<cur, others, before, outcome, leaked>>
-----------------------------------------------------------------------------
(* set_gateway: SIOCDELRT, which needs a default route to delete, then     *)
(* SIOCADDRT, which needs a gateway in the network of the interface.  When *)
(* both succeed the socket stays open.                                     *)

DeleteRoute ==
  /\ recvPc = "delrt"
  /\ \/ /\ route # None
        /\ route' = None
        /\ recvPc' = "addrt"
        /\ UNCHANGED <<open, reply>>
     \/ /\ route = None \/ Faults
        /\ Answer(Refusal)
        /\ open' = open - 1
        /\ UNCHANGED route
  /\ UNCHANGED <<ip, mask, cur, others, before, outcome, leaked>>

AddRoute == LET gateway == Address(cur.text) IN
  /\ recvPc = "addrt"
  /\ \/ /\ SameNetwork(gateway, ip) /\ gateway # 0
        /\ route' = gateway
        /\ Answer(Success)
        /\ leaked' = leaked + 1
        /\ UNCHANGED open
     \/ /\ ~SameNetwork(gateway, ip) \/ gateway = 0 \/ Faults
        /\ Answer(Refusal)
        /\ open' = open - 1
        /\ UNCHANGED <<route, leaked>>
  /\ UNCHANGED <<ip, mask, cur, others, before, outcome>>
-----------------------------------------------------------------------------
(* get_net_parameter, in the receiver and in the second task.  When its    *)
(* ioctl fails, the socket stays open.  In the receiver the text that it   *)
(* was to fill in is then sent as it is: empty, and with error_code 0.     *)

\* A faulty variant of the next operator: the buffer is not cleared, and still
\* holds what was answered last.
UnfilledKept == Found(reply.value)

\* char buffer[256] = { 0 }
Unfilled == Found(Empty)

LookupFails == Answer(Unfilled) /\ outcome' = "failed"

Lookup ==
  /\ recvPc = "lookup"
  /\ IF Free(1)
     THEN open' = open + 1 /\ recvPc' = "getif" /\ UNCHANGED <<reply, outcome>>
     ELSE LookupFails /\ UNCHANGED open
  /\ UNCHANGED <<net, cur, others, before, leaked>>

\* A faulty variant of the next operator: each query asks for the address.
AlwaysTheAddress(oper) == ip

ValueOf(oper) == IF oper = "ip" THEN ip ELSE mask

GetInterface ==
  /\ recvPc = "getif"
  /\ \/ /\ Answer(Found(ValueOf(cur.oper)))
        /\ open' = open - 1
        /\ UNCHANGED <<outcome, leaked>>
     \/ /\ Faults
        /\ LookupFails
        /\ leaked' = leaked + 1
        /\ UNCHANGED open
  /\ UNCHANGED <<net, cur, others, before>>

TaskLookup ==
  /\ taskPc = "idle"
  /\ Free(1)
  /\ open' = open + 1
  /\ taskPc' = "getif"
  /\ UNCHANGED <<net, recvPc, cur, reply, pulsePc, before, outcome, leaked>>

TaskGetInterface ==
  /\ taskPc = "getif"
  /\ taskPc' = "idle"
  /\ \/ open' = open - 1 /\ UNCHANGED leaked
     \/ Faults /\ leaked' = leaked + 1 /\ UNCHANGED open
  /\ UNCHANGED <<net, recvPc, cur, reply, pulsePc, before, outcome>>
-----------------------------------------------------------------------------
(* get_gateway reads the output of "ip route" through a pipe, of which it  *)
(* has both ends until the child runs.  It takes the third word of the     *)
(* line "default via ..."; without one, of the last line that was read,    *)
(* which is that of the interface's own network: "... dev eth0 ...".  If   *)
(* there was no line at all, buf was never written, and the word is taken  *)
(* from what the stack held before.                                        *)

Popen ==
  /\ recvPc = "popen"
  /\ IF Free(2)
     THEN open' = open + 2 /\ recvPc' = "fork" /\ UNCHANGED <<reply, outcome>>
     ELSE LookupFails /\ UNCHANGED open
  /\ UNCHANGED <<net, cur, others, before, leaked>>

Fork ==
  /\ recvPc = "fork"
  /\ open' = open - 1
  /\ recvPc' = "routes"
  /\ UNCHANGED <<net, cur, reply, others, before, outcome, leaked>>

ReadRoutes ==
  /\ recvPc = "routes"
  /\ \/ /\ route # None
        /\ Answer(Found(route))
        /\ UNCHANGED outcome
     \/ /\ route = None /\ HasNetwork
        /\ Answer(Found(Device))
        /\ outcome' = "unread"
     \/ /\ (route = None /\ ~HasNetwork) \/ Faults
        /\ \E text \in AnyText : Answer(Found(text))
        /\ outcome' = "unread"
  /\ open' = open - 1
  /\ UNCHANGED <<net, cur, others, before, leaked>>
-----------------------------------------------------------------------------
(* The pulse thread ends when it cannot open the carrier file.             *)

PulseOpen ==
  /\ pulsePc = "idle"
  /\ IF Free(1) THEN open' = open + 1 /\ pulsePc' = "read"
                ELSE pulsePc' = "ended" /\ UNCHANGED open
  /\ UNCHANGED <<net, recvPc, cur, reply, taskPc, before, outcome, leaked>>

\* A faulty variant of the next action: the carrier file stays open.
PulseForgetsClose ==
  /\ pulsePc = "read"
  /\ pulsePc' = "idle"
  /\ UNCHANGED <<net, open, recvPc, cur, reply, taskPc, before, outcome, leaked>>

PulseClose ==
  /\ pulsePc = "read"
  /\ open' = open - 1
  /\ pulsePc' = "idle"
  /\ UNCHANGED <<net, recvPc, cur, reply, taskPc, before, outcome, leaked>>

RecvThread ==
  \/ Receive \/ Refuse \/ SetSocket \/ SetInterface
  \/ DeleteRoute \/ AddRoute
  \/ Lookup \/ GetInterface
  \/ Popen \/ Fork \/ ReadRoutes

SecondTask  == TaskLookup \/ TaskGetInterface
PulseThread == PulseOpen \/ PulseClose

Next == RecvThread \/ SecondTask \/ PulseThread

Spec == Init /\ [][Next]_vars
-----------------------------------------------------------------------------
(* Properties.                                                             *)

\* The mask of the interface is a mask, and no more descriptors are open than
\* the process can have.
TypeOK ==
  /\ ip \in Words /\ mask \in Masks /\ route \in {None} \cup Words
  /\ open \in 0 .. FdLimit
  /\ recvPc \in {"idle", "refuse", "socket", "setif", "delrt", "addrt",
                 "lookup", "getif", "popen", "fork", "routes"}
  /\ cur.cmd \in {"CMD_GET", "CMD_SET"} /\ cur.oper \in Opers
  /\ cur.text \in TextsOf(cur.oper) \cup {SomeText}
  /\ reply.error_code \in {0, -1} /\ reply.value \in AnyText
  /\ outcome \in Outcomes
  /\ taskPc \in {"idle", "getif"} /\ pulsePc \in {"idle", "read", "ended"}
  /\ before \in Words \X Masks \X ({None} \cup Words)
  /\ leaked \in Nat

\* The complement-and-shift test of is_valid_netmask lets a text of four
\* parts through to the kernel exactly if it is a legal mask.
ExactlyTheMasks ==
  /\ cur.cmd = "CMD_SET" /\ cur.oper = "mask" /\ Len(cur.text) = 4
  /\ recvPc \in {"refuse", "socket"}
  => (recvPc = "socket") = (Fits(cur.text) /\ Address(cur.text) \in Masks)

InForce(oper) == CASE oper = "ip"      -> ip
                   [] oper = "mask"    -> mask
                   [] oper = "gateway" -> route

\* When the agent is told that a setting worked, what it asked for is in
\* force; when the lookup of a query worked, the agent is told the value in
\* force, and no other.
RepliesAreTrue ==
  recvPc = "idle" /\ reply # Refusal =>
    IF cur.cmd = "CMD_SET" THEN InForce(cur.oper) = Address(cur.text)
    ELSE outcome = "value" => reply.value = InForce(cur.oper)

\* When a call of the lookup fails, whichever it is, nothing is passed off as
\* a value: neither an earlier answer nor the value of another query.
FailedLookupIsEmpty ==
  recvPc = "idle" /\ outcome = "failed" => reply.value = Empty

\* The handlers of the three queries say of a lookup without a result that it
\* needs a failure as its reply (snmp.c:305, 362 and 413).
FailedLookupIsRefused ==
  recvPc = "idle" /\ cur.cmd = "CMD_GET" /\ outcome # "value"
    => reply.error_code # 0

\* A setting that is refused has changed nothing, with one exception: a
\* gateway may be refused after the default route was deleted.
RefusedChangesNothing ==
  recvPc = "idle" /\ reply = Refusal =>
    \/ net = before
    \/ /\ cur.oper = "gateway"
       /\ net = [before EXCEPT ![3] = None]

HeldByReceiver == CASE recvPc \in {"setif", "delrt", "addrt", "getif",
                                   "routes"} -> 1
                    [] recvPc = "fork" -> 2
                    [] OTHER -> 0
HeldByTask  == IF taskPc = "getif" THEN 1 ELSE 0
HeldByPulse == IF pulsePc = "read" THEN 1 ELSE 0

\* The only descriptors that are not closed are those of successful settings
\* of the gateway and of failed lookups.
OnlyTheseLeak ==
  open = HeldByReceiver + HeldByTask + HeldByPulse + leaked

\* The pulse thread does not end for lack of descriptors before all but the
\* three that the other threads may hold for a moment have leaked.
PulseOutlivesRequests == pulsePc = "ended" => leaked + 3 >= FdLimit
==============================================================================
