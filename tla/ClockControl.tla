---------------------------- MODULE ClockControl ----------------------------
(***************************************************************************)
(* The clock control of main.c: the thread that runs once per PTP pulse    *)
(* (thread_send_ptp_time_handle), the thread that watches the GPS receiver *)
(* (thread_check_gps_status_handle, started on a master only), and the     *)
(* FPGA configuration register that they steer the clock with.             *)
(*                                                                         *)
(* The two threads share one unprotected message buffer for every FPGA     *)
(* access (fpga_msg).  A register access is one step here; BusRaces says   *)
(* whether an access that overlaps a read of the GPS thread may have the   *)
(* outcomes that the shared buffer gives it.                               *)
(***************************************************************************)
EXTENDS Naturals, FpgaAccess

CONSTANTS
  ResetConfig,   \* ADDR_CONFIG after the FPGA reset of main()
  LogicNoise,    \* what ADDR_LOGIC_STATUS may show in the configuration bits
  SyncFirst,     \* 60:   first counted PHY synchronisation of a master
  SyncJump,      \* 100:  the counter continues from here after it
  SyncAgain,     \* 3700: second counted synchronisation
  SyncWrap,      \* 3800: the counter is set back to SyncAgain
  RebootCount,   \* 3:    link-down pulses that make a slave reboot
  BusRaces,      \* may accesses of the two threads collide?
  ThreadFaults   \* may opening the carrier file or reading the trigger fail?

Bits == {"SRC1", "SRC0", "VALID", "LED", "SLAVE"}    \* 0x8000 ... 0x0800

ASSUME ConfigAssumption ==
  /\ ResetConfig \subseteq Bits
  /\ "SRC1" \notin ResetConfig /\ "SRC0" \notin ResetConfig
  /\ LogicNoise \subseteq SUBSET Bits

ASSUME CounterAssumption ==
  /\ {SyncFirst, SyncJump, SyncAgain, SyncWrap, RebootCount} \subseteq Nat \ {0}
  /\ SyncFirst < SyncJump /\ SyncJump < SyncAgain /\ SyncAgain < SyncWrap

ASSUME SwitchAssumption == BusRaces \in BOOLEAN /\ ThreadFaults \in BOOLEAN

PTP_VALID == {"VALID"}
CLK_GPS   == {"SRC0"}
CLK_PTP   == {"SRC0", "SRC1"}
CLK_SLAVE == {"SLAVE"}
STOP_LED  == {"LED"}          \* the bit that the mask OMAP_RUN_LED clears

CLOCK_MASTER == 1
CLOCK_SLAVE  == 2
CLOCK_ERROR  == 255           \* get_conf's -1 kept in an unsigned char
Modes        == {CLOCK_MASTER, CLOCK_SLAVE, CLOCK_ERROR}

NET_UP   == 49                \* the carrier file reads '1'
NET_DOWN == 48                \* the carrier file reads '0'

VARIABLES
  gpsLock,       \* hardware: the receiver is locked
  carrier,       \* hardware: "up", "down", or "off" (the file cannot be read)
  cfg,           \* FPGA register ADDR_CONFIG, the set of its bits that are 1
  mach_type, cur_status, gps_status, wait_ptp_flag,
  ClockParameter,
  pc,            \* where the pulse thread is
  sync,          \* ts.tv_sec = tv.tv_sec, as sampled before the pulse
  buffnet,       \* the carrier character, as sampled before the pulse
  ptp_num, net_flag, net_count, fpga_status, fpga_config,
  gpc,           \* where the GPS thread is
  clash,         \* the pulse thread used fpga_msg during this GPS read
  rebooting,     \* system("reboot") was called
  counterSyncs   \* history: synchronisations that the counter triggered

hardware == <<gpsLock, carrier>>
gpsVars  == <<gps_status, gpc>>
counts   == <<ptp_num, net_flag, net_count, counterSyncs>>
sampled  == <<sync, buffnet>>
vars == <<hardware, cfg, mach_type, cur_status, gpsVars, wait_ptp_flag,
          ClockParameter, pc, sampled, counts, fpga_status, fpga_config,
          clash, rebooting>>
-----------------------------------------------------------------------------
(* The values that the code computes for ADDR_CONFIG.                      *)

\* main(): the master/slave bit follows the configured type.
BootConfig(type) ==
  IF type = CLOCK_SLAVE THEN ResetConfig \cup CLK_SLAVE
                        ELSE ResetConfig \ CLK_SLAVE

\* Faulty variants of the operators that follow, used by no action.
NoSourceChange(c) == (c \cup CLK_GPS) \ STOP_LED      \* CLK_GPS for CLK_PTP
NoWithdrawal(c)   == c                                \* mask forgotten
NoSourceClear(c)  == c \cup CLK_GPS                   \* mask forgotten
WrapTooFar(n)     == CASE n = SyncFirst -> SyncJump   \* off by one
                       [] n = SyncWrap  -> SyncAgain - 1
                       [] OTHER         -> n

SlaveConfig(c)    == (c \cup CLK_PTP) \ STOP_LED
OutageConfig(c)   == c \ PTP_VALID
RunConfig(c)      == c \ STOP_LED
MasterConfig(c)   == (c \cup CLK_GPS) \ STOP_LED
PromotedConfig(c) == (c \ CLK_PTP) \cup CLK_GPS

(* Access to ADDR_CONFIG through fpga_msg.  While the GPS thread is inside *)
(* its own read, the address may be replaced by that of the logic status   *)
(* (the read returns that register, the write misses ADDR_CONFIG), and the *)
(* received value may be cleared before it is returned.  FpgaBus shows     *)
(* that this is all that can happen.                                       *)
Racing          == BusRaces /\ gpc = "reading"
ReadOutcomes(c) == ReadResults(c, {}, LogicNoise, Racing)
WriteConfig(c)  == cfg' \in WriteResults(c, cfg, Racing)
UsesBus         == clash' = (clash \/ Racing)

(* ptp_num: thresholds are tested for equality only, so all values above   *)
(* SyncWrap are one value here.                                            *)
Pulse(n)       == IF n > SyncWrap THEN n ELSE n + 1
CountsAsSync(n) == n \in {SyncFirst, SyncAgain}
CountAfter(n)  == CASE n = SyncFirst -> SyncJump
                    [] n = SyncWrap  -> SyncAgain
                    [] OTHER         -> n

\* net_count++.  The count is compared with RebootCount only, so all values
\* from there on are one value here.
Outages(n)     == IF n >= RebootCount THEN n ELSE n + 1

\* A faulty variant of the next operator: the mask of the source is forgotten.
PublishUnmasked(word, mask) ==
  [ClockParameter EXCEPT !.clock_source  = word,
                         !.ptp_lockstate = "VALID" \in word,
                         !.arm_runstate  = "LED" \in word]

\* What the branches publish of the register that they have read back.
Publish(word, mask) ==
  [ClockParameter EXCEPT !.clock_source  = word \cap mask,
                         !.ptp_lockstate = "VALID" \in word,
                         !.arm_runstate  = "LED" \in word]
-----------------------------------------------------------------------------
\* The state in which main() starts the threads.
StartParameter(type) ==
  [device_mode |-> type, gps_lockstate |-> FALSE, net_connectstate |-> 0,
   clock_source |-> {}, ptp_lockstate |-> FALSE, arm_runstate |-> FALSE]
GpsThreadStart(type) == IF type = CLOCK_MASTER THEN "sleeping" ELSE "none"

Init ==
  /\ gpsLock \in BOOLEAN
  /\ carrier \in {"up", "down", "off"}
  /\ mach_type \in Modes
  /\ cur_status = mach_type
  /\ cfg = BootConfig(mach_type)
  /\ gps_status = "unconnect"
  /\ wait_ptp_flag = FALSE
  /\ ClockParameter = StartParameter(mach_type)
  /\ pc = "sample" /\ sync = FALSE /\ buffnet = 0
  /\ ptp_num = 0 /\ net_flag = FALSE /\ net_count = 0 /\ counterSyncs = 0
  /\ fpga_status = {} /\ fpga_config = {}
  /\ gpc = GpsThreadStart(mach_type)
  /\ clash = FALSE /\ rebooting = FALSE
-----------------------------------------------------------------------------
(* The hardware.                                                           *)

GpsChange ==
  /\ gpsLock' = ~gpsLock
  /\ UNCHANGED <<carrier, cfg, mach_type, cur_status, gpsVars, wait_ptp_flag,
                 ClockParameter, pc, sampled, counts, fpga_status,
                 fpga_config, clash, rebooting>>

CarrierChange ==
  /\ carrier' \in {"up", "down", "off"} \ {carrier}
  /\ UNCHANGED <<gpsLock, cfg, mach_type, cur_status, gpsVars, wait_ptp_flag,
                 ClockParameter, pc, sampled, counts, fpga_status,
                 fpga_config, clash, rebooting>>

\* The reboot that the pulse thread asked for; the configured type is read
\* again from the same file.
Restart ==
  /\ rebooting
  /\ cur_status' = mach_type
  /\ cfg' = BootConfig(mach_type)
  /\ gps_status' = "unconnect"
  /\ wait_ptp_flag' = FALSE
  /\ ClockParameter' = StartParameter(mach_type)
  /\ pc' = "sample" /\ sync' = FALSE /\ buffnet' = 0
  /\ ptp_num' = 0 /\ net_flag' = FALSE /\ net_count' = 0
  /\ counterSyncs' = 0
  /\ fpga_status' = {} /\ fpga_config' = {}
  /\ gpc' = GpsThreadStart(mach_type)
  /\ clash' = FALSE /\ rebooting' = FALSE
  /\ UNCHANGED <<hardware, mach_type>>
-----------------------------------------------------------------------------
(* thread_check_gps_status_handle                                          *)

GpsReadBegin ==
  /\ gpc = "sleeping"
  /\ gpc' = "reading"
  /\ clash' = FALSE
  /\ UNCHANGED <<hardware, cfg, mach_type, cur_status, gps_status,
                 wait_ptp_flag, ClockParameter, pc, sampled, counts,
                 fpga_status, fpga_config, rebooting>>

GpsReadEnd ==
  /\ gpc = "reading"
  /\ gpc' = "sleeping"
  /\ \E locked \in {gpsLock} \cup IF clash THEN BOOLEAN ELSE {} :
       /\ gps_status' = IF locked THEN "connect" ELSE "unconnect"
       /\ ClockParameter' = [ClockParameter EXCEPT !.gps_lockstate = locked]
  /\ UNCHANGED <<hardware, cfg, mach_type, cur_status, wait_ptp_flag, pc,
                 sampled, counts, fpga_status, fpga_config, clash, rebooting>>

GpsThread == GpsReadBegin \/ GpsReadEnd
-----------------------------------------------------------------------------
(* thread_send_ptp_time_handle                                             *)

\* The two clocks and the carrier are sampled; then the thread waits for a
\* pulse.  When the carrier file cannot be read, buffnet keeps its old value.
Sample ==
  /\ pc = "sample"
  /\ pc' = "trigger"
  /\ sync' \in BOOLEAN
  /\ buffnet' = CASE carrier = "up"   -> NET_UP
                  [] carrier = "down" -> NET_DOWN
                  [] carrier = "off"  -> buffnet
  /\ ClockParameter' = [ClockParameter EXCEPT !.net_connectstate = buffnet']
  /\ UsesBus
  /\ UNCHANGED <<hardware, cfg, mach_type, cur_status, gpsVars, wait_ptp_flag,
                 counts, fpga_status, fpga_config, rebooting>>

\* Opening the carrier file or reading the trigger failed: pthread_exit.
ThreadExit ==
  /\ ThreadFaults
  /\ pc \in {"sample", "trigger"}
  /\ pc' = "exit"
  /\ UNCHANGED <<hardware, cfg, mach_type, cur_status, gpsVars, wait_ptp_flag,
                 ClockParameter, sampled, counts, fpga_status, fpga_config,
                 clash, rebooting>>

\* The trigger read returned, and its value is not 1.
NoPulse ==
  /\ pc = "trigger"
  /\ pc' = "switch"
  /\ UNCHANGED <<hardware, cfg, mach_type, cur_status, gpsVars, wait_ptp_flag,
                 ClockParameter, sampled, counts, fpga_status, fpga_config,
                 clash, rebooting>>

\* A pulse: it is counted, and the branch is chosen by the role and the
\* sampled carrier.
TakePulse ==
  /\ pc = "trigger"
  /\ ptp_num' = Pulse(ptp_num)
  /\ \E c \in ReadOutcomes(cfg) : fpga_status' = c \cup PTP_VALID
  /\ pc' = CASE cur_status = CLOCK_SLAVE  /\ buffnet = NET_UP   -> "slaveUp"
             [] cur_status = CLOCK_SLAVE  /\ buffnet = NET_DOWN -> "slaveDown"
             [] cur_status = CLOCK_MASTER /\ buffnet = NET_UP   -> "masterUp"
             [] OTHER -> "switch"
  /\ UsesBus
  /\ UNCHANGED <<hardware, cfg, mach_type, cur_status, gpsVars, wait_ptp_flag,
                 ClockParameter, sampled, net_flag, net_count, counterSyncs,
                 fpga_config, rebooting>>

\* Slave, link up: the PTP source is selected and published if the two clocks
\* showed the same second.
SlaveSelectPtp ==
  /\ pc = "slaveUp"
  /\ pc' = "slaveTime"
  /\ IF sync
     THEN /\ WriteConfig(SlaveConfig(fpga_status))
          /\ fpga_config' \in ReadOutcomes(cfg')
          /\ ClockParameter' = Publish(fpga_config', CLK_PTP)
          /\ UsesBus
     ELSE UNCHANGED <<cfg, fpga_config, ClockParameter, clash>>
  /\ UNCHANGED <<hardware, mach_type, cur_status, gpsVars, wait_ptp_flag,
                 sampled, counts, fpga_status, rebooting>>

\* send_system_time: the flag is set when the FPGA shows 9:00:00.  A slave
\* whose link was down for RebootCount pulses then reboots the device.
SlaveTime ==
  /\ pc = "slaveTime"
  /\ pc' = "switch"
  /\ wait_ptp_flag' \in {wait_ptp_flag, TRUE}
  /\ IF net_flag /\ net_count >= RebootCount
     THEN /\ net_flag' = FALSE /\ net_count' = 0
          /\ rebooting' = TRUE
     ELSE UNCHANGED <<net_flag, net_count, rebooting>>
  /\ UsesBus
  /\ UNCHANGED <<hardware, cfg, mach_type, cur_status, gpsVars,
                 ClockParameter, sampled, ptp_num, counterSyncs, fpga_status,
                 fpga_config>>

\* Slave, link down: the PTP-valid bit is withdrawn and the outage is counted.
SlaveOutage ==
  /\ pc = "slaveDown"
  /\ pc' = "switch"
  /\ WriteConfig(OutageConfig(fpga_status))
  /\ fpga_config' \in ReadOutcomes(cfg')
  /\ net_flag' = TRUE
  /\ net_count' = Outages(net_count)
  /\ UsesBus
  /\ UNCHANGED <<hardware, mach_type, cur_status, gpsVars, wait_ptp_flag,
                 ClockParameter, sampled, ptp_num, counterSyncs, fpga_status,
                 rebooting>>

\* Master, link up, part 1: the pulse counter decides on a synchronisation
\* of the PHY; the first one also writes the configuration.
MasterCount ==
  /\ pc = "masterUp"
  /\ pc' = "masterSelect"
  /\ counterSyncs' = IF CountsAsSync(ptp_num) THEN counterSyncs + 1
                                              ELSE counterSyncs
  /\ ptp_num' = CountAfter(ptp_num)
  /\ IF ptp_num = SyncFirst
     THEN /\ WriteConfig(RunConfig(fpga_status))
          /\ fpga_config' \in ReadOutcomes(cfg')
          /\ UsesBus
     ELSE UNCHANGED <<cfg, fpga_config, clash>>
  /\ UNCHANGED <<hardware, mach_type, cur_status, gpsVars, wait_ptp_flag,
                 ClockParameter, sampled, net_flag, net_count, fpga_status,
                 rebooting>>

\* Part 2: the GPS source is selected if the clocks agreed; what is published
\* comes from fpga_config, which keeps an older value if they did not.
MasterSelectGps ==
  /\ pc = "masterSelect"
  /\ pc' = "masterTime"
  /\ IF sync
     THEN /\ WriteConfig(MasterConfig(fpga_status))
          /\ fpga_config' \in ReadOutcomes(cfg')
          /\ UsesBus
     ELSE UNCHANGED <<cfg, fpga_config, clash>>
  /\ ClockParameter' = Publish(fpga_config', CLK_GPS)
  /\ UNCHANGED <<hardware, mach_type, cur_status, gpsVars, wait_ptp_flag,
                 sampled, counts, fpga_status, rebooting>>

\* Part 3: send_system_time, and the daily synchronisation it may ask for,
\* which is served at once and clears the flag.
MasterTime ==
  /\ pc = "masterTime"
  /\ pc' = "switch"
  /\ wait_ptp_flag' = FALSE
  /\ UsesBus
  /\ UNCHANGED <<hardware, cfg, mach_type, cur_status, gpsVars,
                 ClockParameter, sampled, counts, fpga_status, fpga_config,
                 rebooting>>

\* Faulty variants: the role is looked at only while the link is up; the
\* receiver is not asked before the device becomes master again.
DemoteIfLinkUp  == /\ cur_status = CLOCK_MASTER
                   /\ gps_status = "unconnect"
                   /\ buffnet = NET_UP
PromoteIfLinkUp == /\ cur_status = CLOCK_SLAVE
                   /\ mach_type = CLOCK_MASTER
                   /\ gps_status = "connect"
                   /\ buffnet = NET_UP
PromoteUnasked  == cur_status = CLOCK_SLAVE /\ mach_type = CLOCK_MASTER

MustDemote  == cur_status = CLOCK_MASTER /\ gps_status = "unconnect"
MayPromote  == /\ cur_status = CLOCK_SLAVE
               /\ mach_type = CLOCK_MASTER
               /\ gps_status = "connect"

\* The role switch at the end of every turn of the loop.
SwitchRole ==
  /\ pc = "switch"
  /\ \/ /\ MustDemote
        /\ cur_status' = CLOCK_SLAVE
        /\ pc' = "sample"
     \/ /\ MayPromote
        /\ cur_status' = CLOCK_MASTER
        /\ pc' = "promote"
     \/ /\ ~MustDemote /\ ~MayPromote
        /\ pc' = "sample"
        /\ UNCHANGED cur_status
  /\ UNCHANGED <<hardware, cfg, mach_type, gpsVars, wait_ptp_flag,
                 ClockParameter, sampled, counts, fpga_status, fpga_config,
                 clash, rebooting>>

\* After ntpd has set the system time, the source is moved from PTP to GPS.
Promote ==
  /\ pc = "promote"
  /\ pc' = "sample"
  /\ fpga_status' \in ReadOutcomes(cfg)
  /\ WriteConfig(PromotedConfig(fpga_status'))
  /\ UsesBus
  /\ UNCHANGED <<hardware, mach_type, cur_status, gpsVars, wait_ptp_flag,
                 ClockParameter, sampled, counts, fpga_config, rebooting>>

PulseThread ==
  \/ Sample \/ NoPulse \/ TakePulse
  \/ SlaveSelectPtp \/ SlaveTime \/ SlaveOutage
  \/ MasterCount \/ MasterSelectGps \/ MasterTime
  \/ SwitchRole \/ Promote

Next ==
  \/ GpsChange \/ CarrierChange \/ Restart
  \/ GpsThread
  \/ PulseThread \/ ThreadExit

Spec == Init /\ [][Next]_vars

\* Both threads are scheduled, and the trigger device delivers: it is a
\* hardware pulse, and neither sleep() nor system() blocks for ever.
FairSpec == Spec /\ WF_vars(GpsThread) /\ WF_vars(PulseThread)
-----------------------------------------------------------------------------
(* Properties.                                                             *)

MasterSteps == {"masterUp", "masterSelect", "masterTime"}
SlaveSteps  == {"slaveUp", "slaveDown", "slaveTime"}

TypeOK ==
  /\ gpsLock \in BOOLEAN /\ carrier \in {"up", "down", "off"}
  /\ cfg \subseteq Bits /\ fpga_status \subseteq Bits
  /\ fpga_config \subseteq Bits
  /\ mach_type \in Modes /\ cur_status \in Modes
  /\ gps_status \in {"connect", "unconnect"}
  /\ wait_ptp_flag \in BOOLEAN
  /\ ClockParameter \in [device_mode : Modes, gps_lockstate : BOOLEAN,
                          net_connectstate : {0, NET_UP, NET_DOWN},
                          clock_source : SUBSET CLK_PTP,
                          ptp_lockstate : BOOLEAN, arm_runstate : BOOLEAN]
  /\ pc \in MasterSteps \cup SlaveSteps
              \cup {"sample", "trigger", "switch", "promote", "exit"}
  /\ sync \in BOOLEAN /\ buffnet \in {0, NET_UP, NET_DOWN}
  /\ ptp_num \in 0 .. SyncWrap + 1
  /\ net_flag \in BOOLEAN /\ net_count \in 0 .. RebootCount
  /\ gpc \in {"none", "sleeping", "reading"}
  /\ clash \in BOOLEAN /\ rebooting \in BOOLEAN
  /\ counterSyncs \in Nat

\* A device that is not configured as master (mach_type) keeps its role,
\* whatever the loop and the GPS variable do, is never inside the master's
\* branch, and its register never selects the GPS source alone.
RoleAuthority ==
  mach_type # CLOCK_MASTER =>
    /\ cur_status = mach_type
    /\ pc \notin MasterSteps \cup {"promote"}
    /\ cfg \cap CLK_PTP # CLK_GPS

\* Between the promotion and the next demotion the FPGA of a master is off
\* the PTP source, and so is every value that the master's branch is about to
\* write back (fpga_status is read before the branch and written after it).
MasterOffPtp ==
  cur_status = CLOCK_MASTER /\ pc # "promote" =>
    /\ "SRC1" \notin cfg
    /\ pc \in MasterSteps => "SRC1" \notin fpga_status

\* The counter of pulses asks for at most two synchronisations of the PHY in
\* the life of the process, however often the device changes its role and
\* however often the counter is set back: after those a master depends on
\* the daily flag of send_system_time.
CounterSyncsAtMostTwice == counterSyncs <= 2

\* The PTP-valid bit comes back only with the link up, and then only if the
\* clocks agreed or in a master; no write with an old copy of the register,
\* and no change of role, brings back a bit withdrawn in an outage.
ValidOnlyWhenServed ==
  [][ "VALID" \notin cfg /\ "VALID" \in cfg' =>
        \/ rebooting
        \/ buffnet = NET_UP /\ (sync \/ cur_status = CLOCK_MASTER) ]_vars

\* A device that has lost the GPS signal for good, is not rebooting for good,
\* and whose pulse thread has not ended, ends up out of the master role,
\* whatever its network link does.
LostGpsEndsMastership ==
  <>[](~gpsLock /\ ~rebooting /\ pc # "exit")
    => <>[](cur_status # CLOCK_MASTER)

\* A device configured as master whose receiver is locked for good ends up
\* in the master role again, under the same conditions.
FoundGpsRestoresMaster ==
  mach_type = CLOCK_MASTER /\ <>[](gpsLock /\ ~rebooting /\ pc # "exit")
    => <>[](cur_status = CLOCK_MASTER)

\* What the device reports to the network management as the PTP lock
\* (data_trap.h: ptp_lockstate) is what the register shows when a turn of
\* the loop is over.
ReportedLockIsReal ==
  pc = "sample" /\ ClockParameter.ptp_lockstate => "VALID" \in cfg

Role == INSTANCE ClockRole WITH
  Master <- CLOCK_MASTER, Slave <- CLOCK_SLAVE, Modes <- Modes,
  home <- mach_type, role <- cur_status, seen <- (gps_status = "connect"),
  source <- IF "SRC1" \in cfg THEN "ptp"
            ELSE IF "SRC0" \in cfg THEN "gps" ELSE "auto"

\* The two threads together keep the promise of ClockRole: no step of theirs
\* changes the role or the source in a way, or in an order, not listed there.
RefinesRole == Role!Spec
=============================================================================
