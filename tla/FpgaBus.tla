------------------------------- MODULE FpgaBus -------------------------------
(***************************************************************************)
(* The functions of fpga_ctl.c, one step per assignment.  The pulse thread *)
(* and the GPS thread fill the global fpga_msg, call the EMIFA driver with *)
(* it and use what it holds afterwards, without a lock.                    *)
(*                                                                         *)
(* The driver is external: it reads the address and, for a write, tx_val   *)
(* from the buffer, and for a read it stores rx_val only.                  *)
(***************************************************************************)
EXTENDS Naturals, FpgaAccess

CONSTANTS
  Words,        \* contents of the registers
  Zero,         \* the word 0
  LogicWords    \* what ADDR_LOGIC_STATUS may show

ASSUME BusAssumption == Zero \in Words /\ LogicWords \subseteq Words

Threads == {"pulse", "gps"}
Other(t) == IF t = "pulse" THEN "gps" ELSE "pulse"

\* "STATUS" stands for ADDR_WORK_STATUS and ADDR_FPGA_TIME, which the program
\* only reads, "TIME" for the words of ADDR_PTP_TIME, which it only writes.
Addrs == {"CONFIG", "LOGIC", "STATUS", "TIME"}

VARIABLES
  reg,          \* the registers of the FPGA
  fpga_msg,     \* the shared buffer
  pc, call,     \* per thread: the next statement, and the call it is in
  overlap       \* history, per thread: did the other use the bus meanwhile?

vars == <<reg, fpga_msg, pc, call, overlap>>

Read(addr)        == [cmd |-> "EMIFA_READ",  addr |-> addr, val |-> Zero]
Write(addr, word) == [cmd |-> "EMIFA_WRITE", addr |-> addr, val |-> word]

\* The accesses of the two loops of main.c.
Calls(t) ==
  IF t = "gps"
  THEN {Read("LOGIC")}
  ELSE {Read("STATUS"), Read("CONFIG")}
         \cup {Write(addr, word) : addr \in {"TIME", "CONFIG"}, word \in Words}

NoCall == Read("STATUS")

Init ==
  /\ reg \in [Addrs -> Words] /\ reg["LOGIC"] \in LogicWords
  /\ fpga_msg = [addr |-> "CONFIG", tx_val |-> Zero, rx_val |-> Zero]
  /\ pc = [t \in Threads |-> "idle"]
  /\ call = [t \in Threads |-> NoCall]
  /\ overlap = [t \in Threads |-> FALSE]

Busy(t) == pc[t] # "idle"
-----------------------------------------------------------------------------
\* A faulty variant of the next action: all reads go to one address, as if the
\* function had been copied and its address left as it was.
BeginSameAddr(t) ==
  /\ pc[t] = "idle"
  /\ \E c \in Calls(t) :
       /\ call' = [call EXCEPT ![t] = c]
       /\ fpga_msg' = [fpga_msg EXCEPT
            !.addr = IF c.cmd = "EMIFA_READ" THEN "STATUS" ELSE c.addr]
  /\ pc' = [pc EXCEPT ![t] = "fill"]
  /\ overlap' = [u \in Threads |-> IF u = t THEN Busy(Other(t))
                                            ELSE overlap[u] \/ Busy(u)]
  /\ UNCHANGED reg

\* A faulty variant of the next action: the address of fpga_write_ptp_time is
\* that of the read function it was copied from.
BeginTimeToLogic(t) ==
  /\ pc[t] = "idle"
  /\ \E c \in Calls(t) :
       LET addr == IF c.addr = "TIME" THEN "LOGIC" ELSE c.addr IN
         /\ call' = [call EXCEPT ![t] = [c EXCEPT !.addr = addr]]
         /\ fpga_msg' = [fpga_msg EXCEPT !.addr = addr]
  /\ pc' = [pc EXCEPT ![t] = "fill"]
  /\ overlap' = [u \in Threads |-> IF u = t THEN Busy(Other(t))
                                            ELSE overlap[u] \/ Busy(u)]
  /\ UNCHANGED reg

\* fpga_msg.addr = ...
Begin(t) ==
  /\ pc[t] = "idle"
  /\ \E c \in Calls(t) :
       /\ call' = [call EXCEPT ![t] = c]
       /\ fpga_msg' = [fpga_msg EXCEPT !.addr = c.addr]
  /\ pc' = [pc EXCEPT ![t] = "fill"]
  /\ overlap' = [u \in Threads |-> IF u = t THEN Busy(Other(t))
                                            ELSE overlap[u] \/ Busy(u)]
  /\ UNCHANGED reg

\* A faulty variant of the next action: what is sent is combined with what
\* was received, as the unused fpga_rdwr_config does.
FillFromRead(t) ==
  /\ pc[t] = "fill"
  /\ fpga_msg' = IF call[t].cmd = "EMIFA_READ"
                 THEN [fpga_msg EXCEPT !.rx_val = Zero]
                 ELSE [fpga_msg EXCEPT !.tx_val = fpga_msg.rx_val]
  /\ pc' = [pc EXCEPT ![t] = "ioctl"]
  /\ UNCHANGED <<reg, call, overlap>>

\* fpga_msg.rx_val = 0, or fpga_msg.tx_val = ...
Fill(t) ==
  /\ pc[t] = "fill"
  /\ fpga_msg' = IF call[t].cmd = "EMIFA_READ"
                 THEN [fpga_msg EXCEPT !.rx_val = Zero]
                 ELSE [fpga_msg EXCEPT !.tx_val = call[t].val]
  /\ pc' = [pc EXCEPT ![t] = "ioctl"]
  /\ UNCHANGED <<reg, call, overlap>>

EmifaRead(t) ==
  /\ pc[t] = "ioctl" /\ call[t].cmd = "EMIFA_READ"
  /\ fpga_msg' = [fpga_msg EXCEPT !.rx_val = reg[fpga_msg.addr]]
  /\ pc' = [pc EXCEPT ![t] = "return"]
  /\ UNCHANGED <<reg, call, overlap>>

\* The logic status is an input of the FPGA: writing to it has no effect.
EmifaWrite(t) ==
  /\ pc[t] = "ioctl" /\ call[t].cmd = "EMIFA_WRITE"
  /\ reg' = IF fpga_msg.addr = "LOGIC" THEN reg
            ELSE [reg EXCEPT ![fpga_msg.addr] = fpga_msg.tx_val]
  /\ pc' = [pc EXCEPT ![t] = "idle"]
  /\ UNCHANGED <<fpga_msg, call, overlap>>

\* return fpga_msg.rx_val
Return(t) ==
  /\ pc[t] = "return"
  /\ pc' = [pc EXCEPT ![t] = "idle"]
  /\ UNCHANGED <<reg, fpga_msg, call, overlap>>

\* The FPGA: its inputs change at any time.
HardwareChange ==
  /\ \E word \in Words, addr \in {"LOGIC", "STATUS"} :
       /\ addr = "LOGIC" => word \in LogicWords
       /\ reg' = [reg EXCEPT ![addr] = word]
  /\ UNCHANGED <<fpga_msg, pc, call, overlap>>

Access(t) == Begin(t) \/ Fill(t) \/ EmifaRead(t) \/ EmifaWrite(t) \/ Return(t)

Next == HardwareChange \/ \E t \in Threads : Access(t)

Spec == Init /\ [][Next]_vars
-----------------------------------------------------------------------------
TypeOK ==
  /\ reg \in [Addrs -> Words] /\ reg["LOGIC"] \in LogicWords
  /\ fpga_msg \in [addr : Addrs, tx_val : Words, rx_val : Words]
  /\ pc \in [Threads -> {"idle", "fill", "ioctl", "return"}]
  /\ call \in [Threads -> Calls("pulse") \cup Calls("gps")]
  /\ overlap \in [Threads -> BOOLEAN]

\* What fpga_read_config is about to return, at every moment in which it may:
\* the register, or if the GPS thread used the bus meanwhile, 0 or a logic
\* status.  In particular the register "STATUS" or an older configuration is
\* never taken for the configuration.
ConfigReadAsAssumed ==
  pc["pulse"] = "return" /\ call["pulse"].addr = "CONFIG" =>
    fpga_msg.rx_val \in
      ReadResults(reg["CONFIG"], Zero, LogicWords, overlap["pulse"])

\* The configuration changes only by fpga_write_config, and then to its
\* argument; the call misses the register only if the GPS thread used the bus
\* meanwhile.  A write of the PTP time that collides never hits it.
ConfigWriteAsAssumed ==
  [][ LET writes == /\ pc["pulse"] = "ioctl" /\ pc'["pulse"] = "idle"
                    /\ call["pulse"].addr = "CONFIG"
      IN reg'["CONFIG"] \in
           IF writes THEN WriteResults(call["pulse"].val, reg["CONFIG"],
                                       overlap["pulse"])
                     ELSE {reg["CONFIG"]} ]_vars

\* The GPS thread takes what another register shows for the lock of the
\* receiver only if the pulse thread used the bus meanwhile; the status that
\* it returns otherwise is one that the FPGA has shown.
LogicReadAsAssumed ==
  pc["gps"] = "return" /\ ~overlap["gps"] => fpga_msg.rx_val \in LogicWords
===============================================================================
