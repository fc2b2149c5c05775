--------------------------- MODULE NetConfig_proofs ---------------------------
(***************************************************************************)
(* Theorems of NetConfig for any texts, any limit of the descriptors and   *)
(* any width of the parts of an address.  Only the last two need to know   *)
(* which word a text stands for and which texts pass is_valid_netmask; the *)
(* facts are those of Netmask_proofs.                                      *)
(***************************************************************************)
EXTENDS NetConfig, Netmask_proofs

(* The steps of the threads, and the requests they belong to.              *)
Steps ==
  /\ recvPc \in {"idle", "refuse", "socket", "setif", "delrt", "addrt",
                 "lookup", "getif", "popen", "fork", "routes"}
  /\ taskPc \in {"idle", "getif"}
  /\ pulsePc \in {"idle", "read", "ended"}
  /\ cur.oper \in Opers

StepsOfRequest ==
  /\ recvPc \in {"refuse", "socket", "setif", "delrt", "addrt"}
       => cur.cmd = "CMD_SET"
  /\ recvPc \in {"lookup", "getif", "popen", "fork", "routes"}
       => cur.cmd = "CMD_GET"
  /\ recvPc \in {"setif", "lookup", "getif"} => cur.oper # "gateway"
  /\ recvPc \in {"delrt", "addrt", "popen", "fork", "routes"}
       => cur.oper = "gateway"

(* What a request has changed before its last step: nothing, but for the   *)
(* default route that a setting of the gateway has found and deleted.      *)
ChangedSoFar ==
  /\ recvPc \notin {"idle", "addrt"} => net = before
  /\ recvPc = "addrt" => /\ before[3] # None
                         /\ net = [before EXCEPT ![3] = None]

(* A query that goes on has not failed so far.                             *)
NothingFailedYet == recvPc # "idle" => outcome = "value"

Counts == open \in 0 .. FdLimit /\ leaked \in Nat

Files   == Counts /\ OnlyTheseLeak /\ PulseOutlivesRequests
Content == /\ StepsOfRequest /\ ChangedSoFar /\ NothingFailedYet
           /\ RepliesAreTrue /\ FailedLookupIsEmpty /\ RefusedChangesNothing

IInv == Steps /\ Files /\ Content

LEMMA Replies ==
  /\ Success # Refusal /\ Success.value = Empty
  /\ \A v : Found(v) # Refusal /\ Found(v).value = v
BY DEF Success, Refusal, Found, Empty

LEMMA FailedReply ==
  LookupFails => /\ reply' # Refusal /\ reply'.value = Empty
                 /\ recvPc' = "idle" /\ outcome' = "failed"
BY Replies DEF LookupFails, Answer, Unfilled

LEMMA InitInv == Init => IInv
<1> SUFFICES ASSUME Init PROVE IInv
  OBVIOUS
<1>1. /\ recvPc = "idle" /\ taskPc = "idle" /\ pulsePc = "idle" /\ open = 0
      /\ leaked = 0 /\ before = net
      /\ reply = Found(ip) /\ outcome = "value"
      /\ cur.cmd = "CMD_GET" /\ cur.oper = "ip"
  BY DEF Init
<1>2. Steps
  BY <1>1 DEF Steps, Opers
<1>3. Files
  BY <1>1, NetAssumption
     DEF NetAssumption, Files, Counts, OnlyTheseLeak, PulseOutlivesRequests,
         HeldByReceiver, HeldByTask, HeldByPulse
<1>4. Content
  BY <1>1, Replies
     DEF Content, StepsOfRequest, ChangedSoFar, NothingFailedYet,
         RepliesAreTrue, FailedLookupIsEmpty, RefusedChangesNothing, InForce,
         net
<1> QED
  BY <1>2, <1>3, <1>4 DEF IInv

LEMMA StepsStep == IInv /\ [Next]_vars => Steps'
<1> SUFFICES ASSUME IInv, [Next]_vars PROVE Steps'
  OBVIOUS
<1> USE DEF IInv, Steps
<1>1. CASE Receive
  <2>1. cur'.oper \in Opers
    BY <1>1 DEF Receive
  <2>2. recvPc' \in {"popen", "lookup", "socket", "refuse"}
    BY <1>1 DEF Receive
  <2> QED
    BY <1>1, <2>1, <2>2 DEF Receive, others
<1>2. CASE Refuse \/ SetSocket \/ SetInterface
  BY <1>2 DEF Refuse, SetSocket, SetInterface, Answer, others
<1>3. CASE DeleteRoute \/ AddRoute
  BY <1>3 DEF DeleteRoute, AddRoute, Answer, others
<1>4. CASE Lookup \/ GetInterface
  BY <1>4 DEF Lookup, GetInterface, LookupFails, Answer, others
<1>5. CASE Popen \/ Fork \/ ReadRoutes
  BY <1>5 DEF Popen, Fork, ReadRoutes, LookupFails, Answer, others
<1>6. CASE SecondTask
  BY <1>6 DEF SecondTask, TaskLookup, TaskGetInterface
<1>7. CASE PulseThread
  BY <1>7 DEF PulseThread, PulseOpen, PulseClose
<1>8. CASE UNCHANGED vars
  BY <1>8 DEF vars, others
<1> QED
  BY <1>1, <1>2, <1>3, <1>4, <1>5, <1>6, <1>7, <1>8 DEF Next, RecvThread

\* Each thread gives back what it holds or adds it to what is leaked.
LEMMA FilesStep == IInv /\ [Next]_vars => Files'
<1> SUFFICES ASSUME IInv, [Next]_vars PROVE Files'
  OBVIOUS
<1> USE NetAssumption
    DEF NetAssumption, IInv, Steps, Files, Counts, OnlyTheseLeak,
        PulseOutlivesRequests, HeldByReceiver, HeldByTask, HeldByPulse, Free
<1>1. CASE Receive
  <2>1. recvPc' \in {"popen", "lookup", "socket", "refuse"}
    BY <1>1 DEF Receive
  <2> QED
    BY <1>1, <2>1 DEF Receive, others
<1>2. CASE Refuse
  BY <1>2 DEF Refuse, Answer, others
<1>3. CASE SetSocket
  BY <1>3 DEF SetSocket, Answer, others
<1>4. CASE SetInterface
  BY <1>4 DEF SetInterface, Answer, others
<1>5. CASE DeleteRoute
  BY <1>5 DEF DeleteRoute, Answer, others
<1>6. CASE AddRoute
  BY <1>6 DEF AddRoute, Answer, others
<1>7. CASE Lookup
  BY <1>7 DEF Lookup, LookupFails, Answer, others
<1>8. CASE GetInterface
  BY <1>8 DEF GetInterface, LookupFails, Answer, others
<1>9. CASE Popen
  BY <1>9 DEF Popen, LookupFails, Answer, others
<1>10. CASE Fork
  BY <1>10 DEF Fork, others
<1>11. CASE ReadRoutes
  BY <1>11 DEF ReadRoutes, Answer, others
<1>12. CASE TaskLookup
  BY <1>12 DEF TaskLookup
<1>13. CASE TaskGetInterface
  BY <1>13 DEF TaskGetInterface
<1>14. CASE PulseOpen
  BY <1>14 DEF PulseOpen
<1>15. CASE PulseClose
  BY <1>15 DEF PulseClose
<1>16. CASE UNCHANGED vars
  BY <1>16 DEF vars, others
<1> QED
  BY <1>1, <1>2, <1>3, <1>4, <1>5, <1>6, <1>7, <1>8, <1>9, <1>10, <1>11, <1>12,
     <1>13, <1>14, <1>15, <1>16 DEF Next, RecvThread, SecondTask, PulseThread

\* A query changes nothing, a refused setting at most deletes the route.
LEMMA ContentStep == IInv /\ [Next]_vars => Content'
<1> SUFFICES ASSUME IInv, [Next]_vars PROVE Content'
  OBVIOUS
<1> USE Replies
    DEF IInv, Steps, Content, StepsOfRequest, ChangedSoFar,
        NothingFailedYet, RepliesAreTrue, FailedLookupIsEmpty,
        RefusedChangesNothing, InForce, net, Opers
<1>1. CASE Receive
  <2>1. /\ UNCHANGED <<ip, mask, route>> /\ before' = <<ip, mask, route>>
        /\ recvPc' \in {"popen", "lookup", "socket", "refuse"}
        /\ recvPc' \in {"popen", "lookup"} => cur'.cmd = "CMD_GET"
        /\ recvPc' \in {"socket", "refuse"} => cur'.cmd = "CMD_SET"
        /\ recvPc' = "popen" => cur'.oper = "gateway"
        /\ recvPc' = "lookup" => cur'.oper # "gateway"
        /\ outcome' = "value"
    BY <1>1 DEF Receive
  <2> QED
    BY <2>1
<1>2. CASE Refuse
  BY <1>2 DEF Refuse, Answer
<1>3. CASE SetSocket
  BY <1>3 DEF SetSocket, Answer
<1>4. CASE SetInterface
  <2>1. /\ recvPc = "setif" /\ recvPc' = "idle"
        /\ UNCHANGED <<cur, before>> /\ outcome' = "value"
        /\ cur.cmd = "CMD_SET" /\ cur.oper \in {"ip", "mask"}
        /\ before = <<ip, mask, route>>
    BY <1>4 DEF SetInterface, Answer
  <2>2. CASE Apply /\ Answer(Success)
    <3>1. InForce(cur.oper)' = Address(cur.text) /\ route' \in {None, route}
      BY <2>1, <2>2 DEF Apply, ApplyAddress, ApplyMask
    <3> QED
      BY <2>1, <2>2, <3>1 DEF Answer
  <2>3. CASE Answer(Refusal) /\ UNCHANGED net
    BY <2>1, <2>3 DEF Answer
  <2> QED
    BY <1>4, <2>2, <2>3 DEF SetInterface
<1>5. CASE DeleteRoute
  <2>1. CASE route' = None /\ recvPc' = "addrt" /\ route # None
    <3>1. /\ before = <<ip, mask, route>> /\ cur.oper = "gateway"
          /\ cur.cmd = "CMD_SET" /\ UNCHANGED <<ip, mask, cur, before>>
          /\ outcome' = "value"
      BY <1>5 DEF DeleteRoute
    <3>2. /\ before[3] = route
          /\ [before EXCEPT ![3] = None] = <<ip, mask, None>>
      BY <3>1
    <3> QED
      BY <2>1, <3>1, <3>2
  <2>2. CASE Answer(Refusal) /\ UNCHANGED route
    BY <1>5, <2>2 DEF DeleteRoute, Answer
  <2> QED
    BY <1>5, <2>1, <2>2 DEF DeleteRoute
<1>6. CASE AddRoute
  BY <1>6 DEF AddRoute, Answer
<1>7. CASE Lookup \/ GetInterface
  BY <1>7, FailedReply DEF Lookup, GetInterface, Answer, ValueOf
<1>8. CASE Popen \/ Fork
  BY <1>8, FailedReply DEF Popen, Fork
<1>9. CASE ReadRoutes
  <2>1. /\ recvPc' = "idle" /\ UNCHANGED <<ip, mask, route, cur, before>>
        /\ reply' # Refusal /\ cur.cmd = "CMD_GET" /\ cur.oper = "gateway"
        /\ \/ outcome' = "value" /\ reply'.value = route
           \/ outcome' = "unread"
    BY <1>9 DEF ReadRoutes, Answer
  <2> QED
    BY <2>1
<1>10. CASE SecondTask
  BY <1>10 DEF SecondTask, TaskLookup, TaskGetInterface
<1>11. CASE PulseThread
  BY <1>11 DEF PulseThread, PulseOpen, PulseClose
<1>12. CASE UNCHANGED vars
  BY <1>12 DEF vars
<1> QED
  BY <1>1, <1>2, <1>3, <1>4, <1>5, <1>6, <1>7, <1>8, <1>9, <1>10, <1>11, <1>12
     DEF Next, RecvThread

LEMMA Invariance == Spec => []IInv
<1>1. IInv /\ [Next]_vars => IInv'
  BY StepsStep, FilesStep, ContentStep DEF IInv
<1> QED
  BY <1>1, InitInv, PTL DEF Spec

(***************************************************************************)
(* set_net_parameter, set_gateway, get_net_parameter and get_gateway: the  *)
(* agent is told of a success only when its setting is in force, and a     *)
(* query whose lookup worked is answered with the value in force.          *)
(***************************************************************************)
THEOREM RepliesCorrect == Spec => []RepliesAreTrue
<1>1. IInv => RepliesAreTrue
  BY DEF IInv, Content
<1> QED
  BY <1>1, Invariance, PTL

(***************************************************************************)
(* The handlers of the three queries: whichever call of a lookup fails,    *)
(* the reply has no value in it.                                           *)
(***************************************************************************)
THEOREM FailedLookupCorrect == Spec => []FailedLookupIsEmpty
<1>1. IInv => FailedLookupIsEmpty
  BY DEF IInv, Content
<1> QED
  BY <1>1, Invariance, PTL

(***************************************************************************)
(* A refused setting changed nothing, whichever of its calls failed, but   *)
(* that set_gateway may already have deleted the default route.            *)
(***************************************************************************)
THEOREM RefusedCorrect == Spec => []RefusedChangesNothing
<1>1. IInv => RefusedChangesNothing
  BY DEF IInv, Content
<1> QED
  BY <1>1, Invariance, PTL

(***************************************************************************)
(* Every descriptor is held by one of the three threads, or was left open  *)
(* by set_gateway when it succeeded or by get_net_parameter when it failed.*)
(***************************************************************************)
THEOREM LeakCorrect == Spec => []OnlyTheseLeak
<1>1. IInv => OnlyTheseLeak
  BY DEF IInv, Files
<1> QED
  BY <1>1, Invariance, PTL

(***************************************************************************)
(* The pulse thread ends for lack of descriptors only when all but three   *)
(* have leaked.                                                            *)
(***************************************************************************)
THEOREM PulseCorrect == Spec => []PulseOutlivesRequests
<1>1. IInv => PulseOutlivesRequests
  BY DEF IInv, Files
<1> QED
  BY <1>1, Invariance, PTL
-----------------------------------------------------------------------------
(* The values behind the steps.                                            *)
Values ==
  /\ ip \in Words /\ mask \in Masks /\ route \in {None} \cup Words
  /\ cur.cmd \in {"CMD_GET", "CMD_SET"}
  /\ cur.text \in TextsOf(cur.oper) \cup {SomeText}
  /\ reply.error_code \in {0, -1}
  /\ reply.value \in AnyText
  /\ outcome \in Outcomes
  /\ before \in Words \X Masks \X ({None} \cup Words)

(* A setting gets past the checks only with a text that inet_aton accepts. *)
TextChecked ==
  recvPc \in {"socket", "setif", "delrt", "addrt"} => Fits(cur.text)

ValueInv == Steps /\ StepsOfRequest /\ Values /\ TextChecked /\ ExactlyTheMasks

LEMMA TextFacts ==
  /\ SomeText \in Texts
  /\ \A oper \in Opers : TextsOf(oper) \subseteq Texts
  /\ \A t \in Texts : Fits(t) => Address(t) \in Words
<1>1. SomeText \in Texts
  BY DEF SomeText, Texts
<1>2. \A oper \in Opers : TextsOf(oper) \subseteq Texts
  BY NetAssumption DEF NetAssumption, TextsOf
<1> QED
  BY <1>1, <1>2, AddressIsWord

LEMMA MaskFacts ==
  /\ \A m \in Masks : m \in Words
  /\ \A k \in 1 .. 3 : PrefixMask(k * PartBits) \in Masks
<1>1. \A k \in 1 .. 3 : k * PartBits \in 0 .. Width
  BY PartAssumption DEF Width
<1> QED
  BY <1>1, MasksAreWords DEF Masks

LEMMA ReplyValues ==
  /\ Success.error_code \in {0, -1} /\ Success.value \in {Empty}
  /\ Refusal.error_code \in {0, -1} /\ Refusal.value \in {Empty}
  /\ \A v : Found(v).error_code \in {0, -1} /\ Found(v).value = v
BY DEF Success, Refusal, Found

LEMMA InitValues == Init => ValueInv
<1> SUFFICES ASSUME Init PROVE ValueInv
  OBVIOUS
<1>1. /\ ip \in Words /\ mask \in Masks
      /\ recvPc = "idle" /\ taskPc = "idle" /\ pulsePc = "idle"
      /\ reply = Found(ip) /\ outcome = "value"
      /\ before = <<ip, mask, route>>
      /\ cur.cmd = "CMD_GET" /\ cur.oper = "ip" /\ cur.text = SomeText
  BY NetAssumption DEF Init, NetAssumption, net
<1>2. route \in {None} \cup Words
  <2>1. \A t \in AddrTexts : Fits(t) => Address(t) \in Words
    BY NetAssumption, TextFacts DEF NetAssumption
  <2> QED
    BY <2>1 DEF Init
<1>3. Steps /\ StepsOfRequest
  BY <1>1 DEF Steps, StepsOfRequest, Opers
<1>4. Values
  <2>1. reply.error_code \in {0, -1} /\ reply.value \in AnyText
    BY <1>1, ReplyValues DEF AnyText
  <2> QED
    BY <1>1, <1>2, <2>1 DEF Values, Outcomes
<1>5. TextChecked /\ ExactlyTheMasks
  BY <1>1 DEF TextChecked, ExactlyTheMasks
<1> QED
  BY <1>3, <1>4, <1>5 DEF ValueInv

\* What Receive does with a text, for each kind of request.
LEMMA ReceiveChecks ==
  ASSUME ValueInv, Receive
  PROVE  /\ cur'.cmd \in {"CMD_GET", "CMD_SET"}
         /\ cur'.text \in TextsOf(cur'.oper) \cup {SomeText}
         /\ TextChecked' /\ ExactlyTheMasks'
<1>1. PICK oper \in Opers :
        \/ /\ cur' = [cmd |-> "CMD_GET", oper |-> oper, text |-> SomeText]
           /\ recvPc' = IF oper = "gateway" THEN "popen" ELSE "lookup"
        \/ \E text \in TextsOf(oper) :
             /\ cur' = [cmd |-> "CMD_SET", oper |-> oper, text |-> text]
             /\ \E valid \in IF oper = "mask" THEN is_valid_netmask(text)
                             ELSE {is_valid_ip(text)} :
                  recvPc' = IF valid THEN "socket" ELSE "refuse"
  BY DEF Receive
<1>2. CASE /\ cur' = [cmd |-> "CMD_GET", oper |-> oper, text |-> SomeText]
           /\ recvPc' = IF oper = "gateway" THEN "popen" ELSE "lookup"
  BY <1>2 DEF TextChecked, ExactlyTheMasks
<1>3. ASSUME NEW text \in TextsOf(oper),
             cur' = [cmd |-> "CMD_SET", oper |-> oper, text |-> text],
             NEW valid \in IF oper = "mask" THEN is_valid_netmask(text)
                           ELSE {is_valid_ip(text)},
             recvPc' = IF valid THEN "socket" ELSE "refuse"
      PROVE  /\ cur'.cmd \in {"CMD_GET", "CMD_SET"}
             /\ cur'.text \in TextsOf(cur'.oper) \cup {SomeText}
             /\ TextChecked' /\ ExactlyTheMasks'
  <2>1. text \in Texts /\ cur'.text = text /\ cur'.oper = oper
        /\ cur'.cmd = "CMD_SET"
    BY <1>3, TextFacts
  <2>2. valid => Fits(text)
    BY <1>3 DEF is_valid_netmask, is_valid_ip
  <2>3. TextChecked'
    BY <1>3, <2>1, <2>2 DEF TextChecked
  <2>4. ASSUME oper = "mask", Len(text) = 4
        PROVE  valid = (Fits(text) /\ Address(text) \in Masks)
    BY <1>3, <2>1, <2>4, MaskTest
  <2>5. ExactlyTheMasks'
    BY <1>3, <2>1, <2>4 DEF ExactlyTheMasks
  <2> QED
    BY <2>1, <2>3, <2>5
<1> QED
  BY <1>1, <1>2, <1>3

\* The change that the kernel makes keeps the interface well-formed.
LEMMA ApplyValues ==
  ASSUME ValueInv, recvPc = "setif", Apply
  PROVE  /\ ip' \in Words /\ mask' \in Masks
         /\ route' \in {None} \cup Words
<1>1. /\ ip \in Words /\ mask \in Masks /\ route \in {None} \cup Words
      /\ cur.oper \in Opers
      /\ cur.text \in TextsOf(cur.oper) \cup {SomeText}
  BY DEF ValueInv, Values, Steps
<1>2. Address(cur.text) \in Words
  <2>1. cur.text \in Texts /\ Fits(cur.text)
    BY <1>1, TextFacts DEF ValueInv, TextChecked
  <2> QED
    BY <2>1, TextFacts
<1>3. CASE cur.oper = "ip"
  <2>1. ApplyAddress(Address(cur.text))
    BY <1>3 DEF Apply
  <2> QED
    BY <1>1, <1>2, <2>1, MaskFacts DEF ApplyAddress, net
<1>4. CASE cur.oper # "ip"
  <2>1. ApplyMask(Address(cur.text))
    BY <1>4 DEF Apply
  <2> QED
    BY <1>1, <2>1 DEF ApplyMask, net
<1> QED
  BY <1>3, <1>4

\* The parts of Values that an action can disturb: the interface, the request
\* and the copy of the interface, and the reply.
NetValues   == ip \in Words /\ mask \in Masks /\ route \in {None} \cup Words
CurValues   == /\ cur.cmd \in {"CMD_GET", "CMD_SET"}
               /\ cur.text \in TextsOf(cur.oper) \cup {SomeText}
               /\ before \in Words \X Masks \X ({None} \cup Words)
ReplyValue  == /\ reply.error_code \in {0, -1}
               /\ reply.value \in AnyText
               /\ outcome \in Outcomes

LEMMA ValueParts == Values <=> NetValues /\ CurValues /\ ReplyValue
BY DEF Values, NetValues, CurValues, ReplyValue

\* An action that starts no request keeps the request, and what was checked
\* about it, as long as it does not enter one of the first steps of a setting.
LEMMA ChecksKept ==
  ASSUME ValueInv, UNCHANGED <<cur, before>>,
         \/ recvPc' = recvPc
         \/ recvPc' = "idle"
         \/ recvPc' \in {"setif", "delrt"} /\ recvPc = "socket"
         \/ recvPc' = "addrt" /\ recvPc = "delrt"
         \/ recvPc' \in {"getif", "fork", "routes"}
  PROVE  CurValues' /\ TextChecked' /\ ExactlyTheMasks'
<1>1. CurValues'
  BY DEF ValueInv, Values, CurValues, TextsOf
<1>2. TextChecked'
  BY DEF ValueInv, TextChecked
<1>3. ExactlyTheMasks'
  BY DEF ValueInv, ExactlyTheMasks
<1> QED
  BY <1>1, <1>2, <1>3

LEMMA ValuesStep ==
  ValueInv /\ [Next]_vars => Values' /\ TextChecked' /\ ExactlyTheMasks'
<1> SUFFICES ASSUME ValueInv, [Next]_vars
             PROVE  /\ NetValues' /\ CurValues' /\ ReplyValue'
                    /\ TextChecked' /\ ExactlyTheMasks'
  BY DEF Values, NetValues, CurValues, ReplyValue
<1>1. /\ NetValues /\ CurValues /\ ReplyValue
      /\ cur.oper \in Opers
      /\ recvPc \in {"setif", "delrt", "addrt"} =>
           cur.text \in Texts /\ Fits(cur.text)
      /\ recvPc = "getif" => cur.oper \in {"ip", "mask"}
  BY ValueParts, TextFacts
     DEF ValueInv, CurValues, TextChecked, Steps, StepsOfRequest, Opers
<1>2. /\ UNCHANGED net => NetValues'
      /\ UNCHANGED <<reply, outcome>> => ReplyValue'
      /\ reply' \in {Success, Refusal} /\ outcome' \in Outcomes
           => ReplyValue'
      /\ \A v \in AnyText :
           reply' = Found(v) /\ outcome' \in Outcomes => ReplyValue'
      /\ outcome \in Outcomes /\ "value" \in Outcomes
      /\ "failed" \in Outcomes /\ "unread" \in Outcomes
      /\ Empty \in AnyText /\ Device \in AnyText
      /\ \A v \in Words : v \in AnyText
  BY <1>1, ReplyValues DEF NetValues, ReplyValue, net, AnyText, Outcomes
<1>3. CASE Receive
  <2>1. /\ UNCHANGED <<net, reply>> /\ before' = <<ip, mask, route>>
        /\ outcome' = "value"
    BY <1>3 DEF Receive, net
  <2>3. ReplyValue'
    BY <1>1, <1>2, <2>1 DEF ReplyValue
  <2>2. CurValues'
    BY <1>1, <1>3, <2>1, ReceiveChecks DEF NetValues, CurValues
  <2> QED
    BY <1>2, <1>3, <2>1, <2>2, <2>3, ReceiveChecks
<1>4. CASE Refuse \/ SetSocket
  <2>1. /\ UNCHANGED <<net, cur, before, outcome>>
        /\ reply' \in {Refusal, reply}
        /\ \/ recvPc' = "idle"
           \/ recvPc' \in {"setif", "delrt"} /\ recvPc = "socket"
    BY <1>4 DEF Refuse, SetSocket, Answer
  <2> QED
    BY <1>2, <2>1, ChecksKept
<1>5. CASE SetInterface
  <2>1. /\ UNCHANGED <<cur, before, outcome>> /\ recvPc' = "idle"
        /\ reply' \in {Success, Refusal}
        /\ Apply \/ UNCHANGED net
        /\ recvPc = "setif"
    BY <1>5 DEF SetInterface, Answer
  <2>2. NetValues'
    BY <1>2, <2>1, ApplyValues DEF NetValues
  <2> QED
    BY <1>2, <2>1, <2>2, ChecksKept
<1>6. CASE DeleteRoute
  <2>1. /\ UNCHANGED <<ip, mask, cur, before, outcome>>
        /\ route' \in {None, route}
        /\ reply' \in {Refusal, reply}
        /\ recvPc' = "idle" \/ (recvPc' = "addrt" /\ recvPc = "delrt")
    BY <1>6 DEF DeleteRoute, Answer
  <2>2. NetValues'
    BY <1>1, <2>1 DEF NetValues
  <2> QED
    BY <1>2, <2>1, <2>2, ChecksKept
<1>7. CASE AddRoute
  <2>1. /\ UNCHANGED <<ip, mask, cur, before, outcome>>
        /\ route' \in {Address(cur.text), route}
        /\ reply' \in {Success, Refusal}
        /\ recvPc' = "idle" /\ recvPc = "addrt"
    BY <1>7 DEF AddRoute, Answer
  <2>2. NetValues'
    BY <1>1, <2>1, TextFacts DEF NetValues
  <2> QED
    BY <1>2, <2>1, <2>2, ChecksKept
<1>8. CASE Lookup \/ Popen \/ Fork
  <2>1. /\ UNCHANGED <<net, cur, before>>
        /\ \/ UNCHANGED <<reply, outcome>>
           \/ reply' = Found(Empty) /\ outcome' = "failed"
        /\ recvPc' \in {"idle", "getif", "fork", "routes"}
    BY <1>8 DEF Lookup, Popen, Fork, LookupFails, Unfilled, Answer
  <2> QED
    BY <1>2, <2>1, ChecksKept
<1>9. CASE GetInterface
  <2>1. /\ UNCHANGED <<net, cur, before>> /\ recvPc' = "idle"
        /\ reply' \in {Found(Empty), Found(ValueOf(cur.oper))}
        /\ outcome' \in {outcome, "failed"}
    BY <1>9 DEF GetInterface, LookupFails, Unfilled, Answer
  <2>2. ValueOf(cur.oper) \in Words
    BY <1>1, MaskFacts DEF ValueOf, NetValues
  <2> QED
    BY <1>2, <2>1, <2>2, ChecksKept
<1>10. CASE ReadRoutes
  <2>1. /\ UNCHANGED <<net, cur, before>> /\ recvPc' = "idle"
        /\ outcome' \in {outcome, "unread"}
    BY <1>10 DEF ReadRoutes, Answer
  <2>2. \E v \in AnyText : reply' = Found(v)
    BY <1>1, <1>2, <1>10 DEF ReadRoutes, Answer, NetValues
  <2> QED
    BY <1>2, <2>1, <2>2, ChecksKept
<1>11. CASE SecondTask \/ PulseThread \/ UNCHANGED vars
  <2>1. UNCHANGED <<net, cur, before, reply, outcome, recvPc>>
    BY <1>11 DEF SecondTask, TaskLookup, TaskGetInterface, PulseThread,
                 PulseOpen, PulseClose, vars
  <2> QED
    BY <1>2, <2>1, ChecksKept
<1> QED
  BY <1>3, <1>4, <1>5, <1>6, <1>7, <1>8, <1>9, <1>10, <1>11
     DEF Next, RecvThread

LEMMA ValueInvariance == Spec => [](IInv /\ ValueInv)
<1>1. IInv /\ ValueInv /\ [Next]_vars => (IInv /\ ValueInv)'
  BY StepsStep, FilesStep, ContentStep, ValuesStep
     DEF IInv, ValueInv, Content
<1> QED
  BY <1>1, InitInv, InitValues, PTL DEF Spec

(***************************************************************************)
(* Type correctness of NetConfig: the interface always has a mask that is  *)
(* one, and never more descriptors are open than the process can have.     *)
(***************************************************************************)
THEOREM TypeCorrect == Spec => []TypeOK
<1>1. IInv /\ ValueInv => TypeOK
  BY DEF IInv, ValueInv, Steps, Files, Counts, Values, TypeOK
<1> QED
  BY <1>1, ValueInvariance, PTL

(***************************************************************************)
(* is_valid_netmask lets a text of four parts through to the kernel        *)
(* exactly if it is a legal mask, for parts of any width.                  *)
(***************************************************************************)
THEOREM MasksCorrect == Spec => []ExactlyTheMasks
<1>1. ValueInv => ExactlyTheMasks
  BY DEF ValueInv
<1> QED
  BY <1>1, ValueInvariance, PTL
===============================================================================
