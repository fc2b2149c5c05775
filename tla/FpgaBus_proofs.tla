---------------------------- MODULE FpgaBus_proofs ----------------------------
(* Theorems about FpgaBus: for every set of words, the accesses of the two   *)
(* threads have the results that ClockControl assumes, and no others.        *)
EXTENDS FpgaBus, TLAPS

\* A call belongs to its thread; while the other thread has not used the bus,
\* the buffer is the call's own.  Only the pulse thread fills tx_val.
OwnCall(t) ==
  LET c == call[t] IN
    pc[t] # "idle" =>
      /\ c \in Calls(t)
      /\ ~overlap[t] => ~Busy(Other(t)) /\ fpga_msg.addr = c.addr
      /\ pc[t] = "ioctl" /\ c.cmd = "EMIFA_WRITE" => fpga_msg.tx_val = c.val
      /\ pc[t] = "return" => c.cmd = "EMIFA_READ"

\* Inside a call of the pulse thread the buffer has its address or that of the
\* logic status, whoever has filled it.
AddrOfPulse ==
  Busy("pulse") => fpga_msg.addr \in {call["pulse"].addr, "LOGIC"}

BusInv ==
  /\ TypeOK /\ AddrOfPulse
  /\ OwnCall("pulse") /\ OwnCall("gps")
  /\ ConfigReadAsAssumed /\ LogicReadAsAssumed

\* The calls of each thread.
LEMMA CallKinds ==
  /\ \A c \in Calls("gps") : c = Read("LOGIC")
  /\ \A c \in Calls("pulse") :
       \/ c = Read("STATUS") \/ c = Read("CONFIG")
       \/ \E word \in Words : c = Write("TIME", word) \/ c = Write("CONFIG", word)
  /\ \A t \in Threads : Calls(t) \subseteq
       [cmd : {"EMIFA_READ", "EMIFA_WRITE"}, addr : Addrs, val : Words]
  /\ NoCall \in Calls("pulse")
BY BusAssumption
   DEF BusAssumption, Calls, Read, Write, Threads, Addrs, NoCall

LEMMA InitInv == Init => BusInv
BY CallKinds, BusAssumption
   DEF Init, BusInv, BusAssumption, TypeOK, AddrOfPulse, OwnCall, Busy,
       Threads, Addrs, Other, ConfigReadAsAssumed, LogicReadAsAssumed

\* Every statement of either thread, and the hardware, keep the invariant.
LEMMA StepInv == BusInv /\ [Next]_vars => BusInv'
<1> SUFFICES ASSUME BusInv, [Next]_vars
             PROVE  BusInv'
  OBVIOUS
<1> USE CallKinds, BusAssumption DEF BusInv, BusAssumption
<1>1. CASE HardwareChange
  BY <1>1 DEF HardwareChange, TypeOK, AddrOfPulse, OwnCall, Busy, Threads,
       Addrs, Other, ConfigReadAsAssumed, LogicReadAsAssumed, ReadResults
<1>2. ASSUME NEW t \in Threads, Begin(t)
      PROVE  BusInv'
  <2>1. PICK c \in Calls(t) : /\ call' = [call EXCEPT ![t] = c]
                              /\ fpga_msg' = [fpga_msg EXCEPT !.addr = c.addr]
    BY <1>2 DEF Begin
  <2>2. TypeOK'
    <3>1. call' \in [Threads -> Calls("pulse") \cup Calls("gps")]
      BY <2>1 DEF TypeOK, Threads
    <3>2. fpga_msg' \in [addr : Addrs, tx_val : Words, rx_val : Words]
      BY <2>1 DEF TypeOK
    <3>3. pc' \in [Threads -> {"idle", "fill", "ioctl", "return"}]
      BY <1>2 DEF Begin, TypeOK
    <3>4. overlap' \in [Threads -> BOOLEAN]
      <4> DEFINE seen(u) == IF u = t THEN Busy(Other(t))
                                     ELSE overlap[u] \/ Busy(u)
      <4>1. \A u \in Threads : seen(u) \in BOOLEAN
        BY Zenon DEF Busy
      <4>2. overlap' = [u \in Threads |-> seen(u)]
        BY <1>2 DEF Begin
      <4> HIDE DEF seen
      <4> QED
        BY <4>1, <4>2
    <3> QED
      BY <1>2, <3>1, <3>2, <3>3, <3>4 DEF Begin, TypeOK
  <2>3. AddrOfPulse'
    BY <1>2, <2>1 DEF Begin, TypeOK, AddrOfPulse, Busy, Threads, Read
  <2>5. ASSUME NEW u \in Threads
        PROVE  OwnCall(u)'
    <3>1. CASE u = t
      BY <1>2, <2>1, <3>1 DEF Begin, TypeOK, OwnCall, Busy, Threads, Other
    <3>2. CASE u # t
      BY <1>2, <2>1, <3>2 DEF Begin, TypeOK, OwnCall, Busy, Threads, Other
    <3> QED
      BY <3>1, <3>2
  <2>4. ConfigReadAsAssumed' /\ LogicReadAsAssumed'
    BY <1>2, <2>1 DEF Begin, TypeOK, Busy, Threads, Other,
         ConfigReadAsAssumed, LogicReadAsAssumed, ReadResults
  <2> QED
    BY <2>2, <2>3, <2>4, <2>5 DEF Threads
<1>3. ASSUME NEW t \in Threads, Fill(t)
      PROVE  BusInv'
  <2>1. TypeOK'
    BY <1>3 DEF Fill, TypeOK, Threads, Addrs
  <2>2. AddrOfPulse' /\ OwnCall("pulse")' /\ OwnCall("gps")'
    BY <1>3 DEF Fill, TypeOK, AddrOfPulse, OwnCall, Busy, Threads, Other, Read
  <2>3. ConfigReadAsAssumed' /\ LogicReadAsAssumed'
    BY <1>3 DEF Fill, TypeOK, OwnCall, Busy, Threads, Other, Read,
         ConfigReadAsAssumed, LogicReadAsAssumed, ReadResults
  <2> QED
    BY <2>1, <2>2, <2>3
<1>4. ASSUME NEW t \in Threads, EmifaRead(t)
      PROVE  BusInv'
  <2>1. TypeOK'
    BY <1>4 DEF EmifaRead, TypeOK, Threads, Addrs
  <2>2. AddrOfPulse' /\ OwnCall("pulse")' /\ OwnCall("gps")'
    BY <1>4 DEF EmifaRead, TypeOK, AddrOfPulse, OwnCall, Busy, Threads, Other
  <2>3. ConfigReadAsAssumed' /\ LogicReadAsAssumed'
    BY <1>4 DEF EmifaRead, TypeOK, AddrOfPulse, OwnCall, Busy, Threads,
         Other, Addrs, Read, ConfigReadAsAssumed, LogicReadAsAssumed,
         ReadResults
  <2> QED
    BY <2>1, <2>2, <2>3
<1>5. ASSUME NEW t \in Threads, EmifaWrite(t)
      PROVE  BusInv'
  <2>1. TypeOK'
    BY <1>5 DEF EmifaWrite, TypeOK, Threads, Addrs
  <2>2. AddrOfPulse' /\ OwnCall("pulse")' /\ OwnCall("gps")'
    BY <1>5 DEF EmifaWrite, TypeOK, AddrOfPulse, OwnCall, Busy, Threads, Other
  <2>3. ConfigReadAsAssumed' /\ LogicReadAsAssumed'
    BY <1>5 DEF EmifaWrite, TypeOK, OwnCall, Busy, Threads, Other, Addrs,
         Read, ConfigReadAsAssumed, LogicReadAsAssumed, ReadResults
  <2> QED
    BY <2>1, <2>2, <2>3
<1>6. ASSUME NEW t \in Threads, Return(t)
      PROVE  BusInv'
  BY <1>6 DEF Return, TypeOK, AddrOfPulse, OwnCall, Busy, Threads, Other,
       ConfigReadAsAssumed, LogicReadAsAssumed, ReadResults
<1>7. CASE UNCHANGED vars
  BY <1>7 DEF vars, TypeOK, AddrOfPulse, OwnCall, Busy, ConfigReadAsAssumed,
       LogicReadAsAssumed, ReadResults, Threads, Other
<1> QED
  BY <1>1, <1>2, <1>3, <1>4, <1>5, <1>6, <1>7 DEF Next, Access

\* A write of the configuration has the results that ClockControl assumes;
\* nothing else changes the configuration.
LEMMA StepWrite ==
  ASSUME BusInv, [Next]_vars
  PROVE  LET writes == /\ pc["pulse"] = "ioctl" /\ pc'["pulse"] = "idle"
                       /\ call["pulse"].addr = "CONFIG"
         IN reg'["CONFIG"] \in
              IF writes THEN WriteResults(call["pulse"].val, reg["CONFIG"],
                                          overlap["pulse"])
                        ELSE {reg["CONFIG"]}
<1> USE CallKinds DEF BusInv
<1>1. CASE HardwareChange
  BY <1>1 DEF HardwareChange, TypeOK, Addrs, WriteResults
<1>2. ASSUME NEW t \in Threads, EmifaWrite(t)
      PROVE  LET writes == /\ pc["pulse"] = "ioctl" /\ pc'["pulse"] = "idle"
                           /\ call["pulse"].addr = "CONFIG"
             IN reg'["CONFIG"] \in
                  IF writes THEN WriteResults(call["pulse"].val, reg["CONFIG"],
                                              overlap["pulse"])
                            ELSE {reg["CONFIG"]}
  <2>1. t = "pulse"
    BY <1>2 DEF EmifaWrite, OwnCall, Threads, Read
  <2>2. /\ pc'["pulse"] = "idle" /\ pc["pulse"] = "ioctl"
        /\ fpga_msg.tx_val = call["pulse"].val
        /\ fpga_msg.addr \in {call["pulse"].addr, "LOGIC"}
        /\ ~overlap["pulse"] => fpga_msg.addr = call["pulse"].addr
        /\ call["pulse"].addr \in {"TIME", "CONFIG"}
    BY <1>2, <2>1 DEF EmifaWrite, TypeOK, OwnCall, AddrOfPulse, Busy, Threads,
         Read, Write
  <2> QED
    BY <1>2, <2>1, <2>2 DEF EmifaWrite, TypeOK, Addrs, WriteResults
<1>3. ASSUME NEW t \in Threads, Begin(t) \/ Fill(t) \/ EmifaRead(t) \/ Return(t)
      PROVE  /\ UNCHANGED reg
             /\ ~(pc["pulse"] = "ioctl" /\ pc'["pulse"] = "idle")
  BY <1>3 DEF Begin, Fill, EmifaRead, Return, TypeOK, Threads
<1>4. CASE UNCHANGED vars
  BY <1>4 DEF vars
<1> QED
  BY <1>1, <1>2, <1>3, <1>4 DEF Next, Access

\* The invariant holds in every state.
LEMMA BusInvariant == Spec => []BusInv
<1>1. Init => BusInv
  BY InitInv
<1>2. BusInv /\ [Next]_vars => BusInv'
  BY StepInv
<1> QED
  BY <1>1, <1>2, PTL DEF Spec

\* The buffer, the registers and the calls keep their types.
THEOREM TypeCorrect == Spec => []TypeOK
<1>1. BusInv => TypeOK
  BY DEF BusInv
<1> QED
  BY <1>1, BusInvariant, PTL

\* fpga_read_config returns the configuration, or what a collision with the
\* GPS thread leaves in the buffer, for every set of words.
THEOREM ConfigReadCorrect == Spec => []ConfigReadAsAssumed
<1>1. BusInv => ConfigReadAsAssumed
  BY DEF BusInv
<1> QED
  BY <1>1, BusInvariant, PTL

\* fpga_read_logic_status is right unless the pulse thread used the bus.
THEOREM LogicReadCorrect == Spec => []LogicReadAsAssumed
<1>1. BusInv => LogicReadAsAssumed
  BY DEF BusInv
<1> QED
  BY <1>1, BusInvariant, PTL

\* fpga_write_config writes its argument or, in a collision, nothing, and no
\* other access touches the configuration.
THEOREM ConfigWriteCorrect == Spec => ConfigWriteAsAssumed
<1>1. BusInv /\ [Next]_vars =>
        LET writes == /\ pc["pulse"] = "ioctl" /\ pc'["pulse"] = "idle"
                      /\ call["pulse"].addr = "CONFIG"
        IN reg'["CONFIG"] \in
             IF writes THEN WriteResults(call["pulse"].val, reg["CONFIG"],
                                         overlap["pulse"])
                       ELSE {reg["CONFIG"]}
  BY StepWrite
<1> QED
  BY <1>1, BusInvariant, PTL DEF Spec, ConfigWriteAsAssumed
===============================================================================
