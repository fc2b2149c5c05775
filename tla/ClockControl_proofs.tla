------------------------ MODULE ClockControl_proofs ------------------------
(***************************************************************************)
(* Proofs about ClockControl, for every reset value and every noise of the *)
(* registers and all thresholds of the counters.                           *)
(***************************************************************************)
EXTENDS ClockControl, TLAPS

\* The configuration words stay within the five bits that are modelled.
LEMMA ConfigBits ==
  /\ \A type \in Modes : BootConfig(type) \subseteq Bits
  /\ \A c \in SUBSET Bits :
       /\ SlaveConfig(c) \subseteq Bits
       /\ OutageConfig(c) \subseteq Bits
       /\ RunConfig(c) \subseteq Bits
       /\ MasterConfig(c) \subseteq Bits
       /\ PromotedConfig(c) \subseteq Bits
       /\ ReadOutcomes(c) \subseteq SUBSET Bits
<1> USE ConfigAssumption
             DEF Bits, PTP_VALID, CLK_GPS, CLK_PTP, CLK_SLAVE, STOP_LED
<1>1. ASSUME NEW type \in Modes PROVE BootConfig(type) \subseteq Bits
  BY DEF BootConfig
<1>2. ASSUME NEW c \in SUBSET Bits
      PROVE  /\ SlaveConfig(c) \subseteq Bits
             /\ OutageConfig(c) \subseteq Bits
             /\ RunConfig(c) \subseteq Bits
             /\ MasterConfig(c) \subseteq Bits
             /\ PromotedConfig(c) \subseteq Bits
  BY DEF SlaveConfig, OutageConfig, RunConfig, MasterConfig, PromotedConfig
<1>3. ASSUME NEW c \in SUBSET Bits
      PROVE  ReadOutcomes(c) \subseteq SUBSET Bits
  BY DEF ReadOutcomes, ReadResults
<1> QED BY <1>1, <1>2, <1>3

\* The parameters that the threads publish, and the types that TypeOK gives
\* to the rest of the state.
Parameters == [device_mode : Modes, gps_lockstate : BOOLEAN,
               net_connectstate : {0, NET_UP, NET_DOWN},
               clock_source : SUBSET CLK_PTP,
               ptp_lockstate : BOOLEAN, arm_runstate : BOOLEAN]

\* What the two threads assign to ClockParameter is of its type.
LEMMA ParameterType ==
  /\ \A type \in Modes : StartParameter(type) \in Parameters
  /\ \A p \in Parameters :
       /\ \A b \in BOOLEAN : [p EXCEPT !.gps_lockstate = b] \in Parameters
       /\ \A n \in {0, NET_UP, NET_DOWN} :
            [p EXCEPT !.net_connectstate = n] \in Parameters
       /\ \A s \in SUBSET CLK_PTP, v \in BOOLEAN, l \in BOOLEAN :
            [p EXCEPT !.clock_source = s, !.ptp_lockstate = v,
                      !.arm_runstate = l] \in Parameters
BY DEF Parameters, StartParameter

\* What the pulse counter can become.
LEMMA CounterType ==
  ASSUME NEW n \in 0 .. SyncWrap + 1
  PROVE  Pulse(n) \in 0 .. SyncWrap + 1 /\ CountAfter(n) \in 0 .. SyncWrap + 1
BY CounterAssumption DEF Pulse, CountAfter

\* The count of outages stays within its limit.
LEMMA OutagesType ==
  ASSUME NEW n \in 0 .. RebootCount
  PROVE  Outages(n) \in 0 .. RebootCount
BY CounterAssumption DEF Outages

\* The initial state is of its type.
LEMMA TypeInitially == Init => TypeOK
<1> SUFFICES ASSUME Init PROVE TypeOK
  OBVIOUS
<1>1. cfg \subseteq Bits
  BY ConfigBits DEF Init
<1>2. ClockParameter \in Parameters
  BY ParameterType DEF Init
<1>3. ptp_num \in 0 .. SyncWrap + 1 /\ net_count \in 0 .. RebootCount
  BY CounterAssumption DEF Init
<1>4. gpc \in {"none", "sleeping", "reading"}
  BY DEF Init, GpsThreadStart
<1> QED BY <1>1, <1>2, <1>3, <1>4 DEF Init, TypeOK, Parameters

\* Every step keeps the types.
LEMMA TypeStep == TypeOK /\ [Next]_vars => TypeOK'
<1> SUFFICES ASSUME TypeOK, [Next]_vars PROVE TypeOK'
  OBVIOUS
<1> USE DEF hardware, gpsVars, counts, sampled, UsesBus, Racing
<1>p. ClockParameter \in Parameters
  BY DEF TypeOK, Parameters
<1>1. CASE GpsChange
  BY <1>1 DEF GpsChange, TypeOK
<1>2. CASE CarrierChange
  BY <1>2 DEF CarrierChange, TypeOK
<1>3. CASE Restart
  <2>1. cfg' \subseteq Bits
    BY <1>3, ConfigBits DEF Restart, TypeOK
  <2>2. ClockParameter' \in Parameters
    BY <1>3, ParameterType DEF Restart, TypeOK
  <2>3. ptp_num' \in 0 .. SyncWrap + 1 /\ net_count' \in 0 .. RebootCount
    BY <1>3, CounterAssumption DEF Restart
  <2>4. gpc' \in {"none", "sleeping", "reading"}
    BY <1>3 DEF Restart, GpsThreadStart
  <2> QED BY <1>3, <2>1, <2>2, <2>3, <2>4 DEF Restart, TypeOK, Parameters
<1>4. CASE GpsReadBegin
  <2>1. gpc' \in {"none", "sleeping", "reading"} /\ clash' \in BOOLEAN
    BY <1>4 DEF GpsReadBegin
  <2>2. pc' = pc
    BY <1>4 DEF GpsReadBegin
  <2> QED BY <1>4, <2>1, <2>2 DEF GpsReadBegin, TypeOK
<1>5. CASE GpsReadEnd
  <2>1. PICK locked \in {gpsLock} \cup IF clash THEN BOOLEAN ELSE {} :
             /\ gps_status' = IF locked THEN "connect" ELSE "unconnect"
             /\ ClockParameter'
                  = [ClockParameter EXCEPT !.gps_lockstate = locked]
    BY <1>5 DEF GpsReadEnd
  <2>2. locked \in BOOLEAN
    BY DEF TypeOK
  <2>3. gps_status' \in {"connect", "unconnect"}
    BY <2>1
  <2>4. ClockParameter' \in Parameters
    BY <1>p, <2>1, <2>2, ParameterType
  <2>5. gpc' \in {"none", "sleeping", "reading"}
    BY <1>5 DEF GpsReadEnd
  <2>6. /\ gpsLock' = gpsLock /\ carrier' = carrier /\ cfg' = cfg
        /\ fpga_status' = fpga_status /\ fpga_config' = fpga_config
        /\ mach_type' = mach_type /\ cur_status' = cur_status
        /\ wait_ptp_flag' = wait_ptp_flag /\ pc' = pc /\ sync' = sync
        /\ buffnet' = buffnet /\ ptp_num' = ptp_num
        /\ net_flag' = net_flag /\ net_count' = net_count
        /\ clash' = clash /\ rebooting' = rebooting
        /\ counterSyncs' = counterSyncs
    BY <1>5 DEF GpsReadEnd
  <2> QED BY <2>3, <2>4, <2>5, <2>6 DEF TypeOK, Parameters
<1>6. CASE Sample
  <2>1. buffnet' \in {0, NET_UP, NET_DOWN}
    BY <1>6 DEF Sample, TypeOK
  <2>2. ClockParameter' \in Parameters
    BY <1>6, <1>p, <2>1, ParameterType DEF Sample
  <2> QED BY <1>6, <2>1, <2>2 DEF Sample, TypeOK, Parameters
<1>7. CASE ThreadExit
  BY <1>7 DEF ThreadExit, TypeOK
<1>8. CASE NoPulse
  BY <1>8 DEF NoPulse, TypeOK
<1>9. CASE TakePulse
  <2>1. ptp_num' \in 0 .. SyncWrap + 1
    BY <1>9, CounterType DEF TakePulse, TypeOK
  <2>2. fpga_status' \subseteq Bits
    BY <1>9, ConfigBits DEF TakePulse, TypeOK, PTP_VALID, Bits
  <2>3. pc' \in {"slaveUp", "slaveDown", "masterUp", "switch"}
    BY <1>9 DEF TakePulse
  <2> QED BY <1>9, <2>1, <2>2, <2>3
          DEF TakePulse, TypeOK, MasterSteps, SlaveSteps
<1>10. CASE SlaveSelectPtp
  <2>1. CASE ~sync
    BY <1>10, <2>1 DEF SlaveSelectPtp, TypeOK, MasterSteps, SlaveSteps
  <2>2. CASE sync
    <3>1. cfg' \subseteq Bits
      BY <1>10, <2>2, ConfigBits DEF SlaveSelectPtp, TypeOK, WriteConfig, WriteResults
    <3>2. fpga_config' \subseteq Bits
      BY <1>10, <2>2, <3>1, ConfigBits DEF SlaveSelectPtp
    <3>3. ClockParameter' \in Parameters
      <4>1. /\ fpga_config' \cap CLK_PTP \in SUBSET CLK_PTP
            /\ ("VALID" \in fpga_config') \in BOOLEAN
            /\ ("LED" \in fpga_config') \in BOOLEAN
        OBVIOUS
      <4>2. ClockParameter' = [ClockParameter EXCEPT
                !.clock_source  = fpga_config' \cap CLK_PTP,
                !.ptp_lockstate = "VALID" \in fpga_config',
                !.arm_runstate  = "LED" \in fpga_config']
        BY <1>10, <2>2, Zenon DEF SlaveSelectPtp, Publish
      <4> QED BY <1>p, <4>1, <4>2, ParameterType, Zenon
    <3> QED BY <1>10, <2>2, <3>1, <3>2, <3>3
            DEF SlaveSelectPtp, TypeOK, Parameters, MasterSteps, SlaveSteps
  <2> QED BY <2>1, <2>2
<1>11. CASE SlaveTime
  <2>1. /\ wait_ptp_flag' \in BOOLEAN /\ net_flag' \in BOOLEAN
        /\ rebooting' \in BOOLEAN
    BY <1>11 DEF SlaveTime, TypeOK
  <2>2. net_count' \in 0 .. RebootCount
    BY <1>11, CounterAssumption DEF SlaveTime, TypeOK
  <2>3. clash' \in BOOLEAN
    BY <1>11, SwitchAssumption DEF SlaveTime, TypeOK
  <2> QED BY <1>11, <2>1, <2>2, <2>3 DEF SlaveTime, TypeOK
<1>12. CASE SlaveOutage
  <2>1. cfg' \subseteq Bits
    BY <1>12, ConfigBits DEF SlaveOutage, TypeOK, WriteConfig, WriteResults
  <2>2. fpga_config' \subseteq Bits
    BY <1>12, <2>1, ConfigBits DEF SlaveOutage
  <2>3. net_count' \in 0 .. RebootCount
    BY <1>12, OutagesType DEF SlaveOutage, TypeOK
  <2> QED BY <1>12, <2>1, <2>2, <2>3 DEF SlaveOutage, TypeOK
<1>13. CASE MasterCount
  <2>1. ptp_num' \in 0 .. SyncWrap + 1
    BY <1>13, CounterType DEF MasterCount, TypeOK
  <2>2. counterSyncs' \in Nat
    BY <1>13 DEF MasterCount, TypeOK
  <2>3. cfg' \subseteq Bits
    BY <1>13, ConfigBits DEF MasterCount, TypeOK, WriteConfig, WriteResults
  <2>4. fpga_config' \subseteq Bits
    BY <1>13, <2>3, ConfigBits DEF MasterCount, TypeOK
  <2>5. clash' \in BOOLEAN
    BY <1>13, SwitchAssumption DEF MasterCount, TypeOK
  <2> QED BY <1>13, <2>1, <2>2, <2>3, <2>4, <2>5
          DEF MasterCount, TypeOK, MasterSteps, SlaveSteps
<1>14. CASE MasterSelectGps
  <2>1. cfg' \subseteq Bits
    BY <1>14, ConfigBits DEF MasterSelectGps, TypeOK, WriteConfig, WriteResults
  <2>2. fpga_config' \subseteq Bits
    BY <1>14, <2>1, ConfigBits DEF MasterSelectGps, TypeOK
  <2>3. ClockParameter' \in Parameters
    <3>1. /\ fpga_config' \cap CLK_GPS \in SUBSET CLK_PTP
          /\ ("VALID" \in fpga_config') \in BOOLEAN
          /\ ("LED" \in fpga_config') \in BOOLEAN
      BY DEF CLK_GPS, CLK_PTP
    <3> QED BY <1>14, <1>p, <3>1, ParameterType, Zenon DEF MasterSelectGps, Publish
  <2>4. clash' \in BOOLEAN
    BY <1>14, SwitchAssumption DEF MasterSelectGps, TypeOK
  <2> QED BY <1>14, <2>1, <2>2, <2>3, <2>4
          DEF MasterSelectGps, TypeOK, Parameters, MasterSteps, SlaveSteps
<1>15. CASE MasterTime
  <2>1. wait_ptp_flag' \in BOOLEAN /\ clash' \in BOOLEAN
    BY <1>15, SwitchAssumption DEF MasterTime, TypeOK
  <2> QED BY <1>15, <2>1 DEF MasterTime, TypeOK
<1>16. CASE SwitchRole
  BY <1>16 DEF SwitchRole, TypeOK, Modes
<1>17. CASE Promote
  <2>1. fpga_status' \subseteq Bits
    BY <1>17, ConfigBits DEF Promote, TypeOK
  <2>2. cfg' \subseteq Bits
    BY <1>17, <2>1, ConfigBits DEF Promote, TypeOK, WriteConfig, WriteResults
  <2> QED BY <1>17, <2>1, <2>2 DEF Promote, TypeOK
<1>18. CASE UNCHANGED vars
  BY <1>18 DEF vars, TypeOK
<1> QED
  BY <1>1, <1>2, <1>3, <1>4, <1>5, <1>6, <1>7, <1>8, <1>9, <1>10, <1>11,
     <1>12, <1>13, <1>14, <1>15, <1>16, <1>17, <1>18
  DEF Next, GpsThread, PulseThread

\* Type correctness.
THEOREM TypeCorrect == Spec => []TypeOK
BY TypeInitially, TypeStep, PTL DEF Spec
-----------------------------------------------------------------------------
(* The role.                                                               *)

\* The branches of the loop belong to a role; a device that is not configured
\* as master has no GPS thread, so nothing of its bus accesses collides, and
\* neither the register nor the copy that the loop writes back is on GPS alone.
StepsOfRole ==
  /\ pc \in SlaveSteps => cur_status = CLOCK_SLAVE
  /\ pc \in MasterSteps \cup {"promote"} => cur_status = CLOCK_MASTER
NoGpsThread == mach_type # CLOCK_MASTER => gpc = "none"
OffGps(c)   == c \cap CLK_PTP # CLK_GPS
CopyOffGps  == mach_type # CLOCK_MASTER => OffGps(fpga_status)

RoleInv == StepsOfRole /\ NoGpsThread /\ RoleAuthority /\ CopyOffGps

\* How the words that are written relate to the source bits.
LEMMA SourceBits ==
  /\ \A type : BootConfig(type) \cap CLK_PTP = {}
  /\ \A c : /\ SlaveConfig(c) \cap CLK_PTP = CLK_PTP
            /\ OutageConfig(c) \cap CLK_PTP = c \cap CLK_PTP
            /\ RunConfig(c) \cap CLK_PTP = c \cap CLK_PTP
            /\ MasterConfig(c) \cap CLK_PTP = (c \cap CLK_PTP) \cup CLK_GPS
            /\ PromotedConfig(c) \cap CLK_PTP = CLK_GPS
            /\ (c \cup PTP_VALID) \cap CLK_PTP = c \cap CLK_PTP
<1> USE DEF PTP_VALID, CLK_GPS, CLK_PTP, CLK_SLAVE, STOP_LED
<1>1. ASSUME NEW type PROVE BootConfig(type) \cap CLK_PTP = {}
  BY ConfigAssumption DEF BootConfig
<1>2. ASSUME NEW c
      PROVE  /\ SlaveConfig(c) \cap CLK_PTP = CLK_PTP
             /\ OutageConfig(c) \cap CLK_PTP = c \cap CLK_PTP
             /\ RunConfig(c) \cap CLK_PTP = c \cap CLK_PTP
             /\ MasterConfig(c) \cap CLK_PTP = (c \cap CLK_PTP) \cup CLK_GPS
             /\ PromotedConfig(c) \cap CLK_PTP = CLK_GPS
             /\ (c \cup PTP_VALID) \cap CLK_PTP = c \cap CLK_PTP
  BY DEF SlaveConfig, OutageConfig, RunConfig, MasterConfig, PromotedConfig
<1> QED BY <1>1, <1>2

\* The reset and the full PTP selection are off GPS.
LEMMA NotGpsAlone ==
  /\ \A type : OffGps(BootConfig(type))
  /\ \A c : OffGps(SlaveConfig(c))
  /\ \A c : OffGps(c) => OffGps(OutageConfig(c)) /\ OffGps(c \cup PTP_VALID)
<1>1. {} # CLK_GPS /\ CLK_PTP # CLK_GPS
  BY DEF CLK_GPS, CLK_PTP
<1> QED BY <1>1, SourceBits DEF OffGps

\* Nothing is on GPS and no branch is entered at the start.
LEMMA RoleInitially == Init => RoleInv
<1> SUFFICES ASSUME Init PROVE RoleInv
  OBVIOUS
<1>1. OffGps(cfg)
  BY NotGpsAlone DEF Init
<1>2. OffGps(fpga_status)
  BY DEF Init, OffGps, CLK_GPS
<1> QED BY <1>1, <1>2 DEF Init, RoleInv, StepsOfRole, NoGpsThread,
           RoleAuthority, CopyOffGps, OffGps, SlaveSteps, MasterSteps,
           GpsThreadStart

\* Every step keeps the steps and the roles together.
LEMMA StepsOfRoleStep ==
  TypeOK /\ StepsOfRole /\ [Next]_vars => StepsOfRole'
<1> SUFFICES ASSUME TypeOK, StepsOfRole, [Next]_vars PROVE StepsOfRole'
  OBVIOUS
<1> USE DEF StepsOfRole, SlaveSteps, MasterSteps
<1>1. CASE UNCHANGED <<pc, cur_status>>
  BY <1>1
<1>2. CASE pc' \in {"sample", "trigger", "switch", "exit"}
  BY <1>2
<1>3. CASE TakePulse
  BY <1>3 DEF TakePulse
<1>4. CASE SlaveSelectPtp
  BY <1>4 DEF SlaveSelectPtp
<1>5. CASE MasterCount
  BY <1>5 DEF MasterCount
<1>6. CASE MasterSelectGps
  BY <1>6 DEF MasterSelectGps
<1>7. CASE SwitchRole
  BY <1>7, <1>2 DEF SwitchRole
<1>8. GpsChange \/ CarrierChange \/ GpsReadBegin \/ GpsReadEnd
        \/ UNCHANGED vars => UNCHANGED <<pc, cur_status>>
  BY DEF GpsChange, CarrierChange, GpsReadBegin, GpsReadEnd, vars
<1>9. Restart \/ Sample \/ ThreadExit \/ NoPulse \/ SlaveTime \/ SlaveOutage
        \/ MasterTime \/ Promote => pc' \in {"sample", "trigger", "switch", "exit"}
  BY DEF Restart, Sample, ThreadExit, NoPulse, SlaveTime, SlaveOutage,
         MasterTime, Promote
<1> QED BY <1>1, <1>2, <1>3, <1>4, <1>5, <1>6, <1>7, <1>8, <1>9
        DEF Next, GpsThread, PulseThread

\* Only a device configured as master has a GPS thread.
LEMMA NoGpsThreadStep ==
  NoGpsThread /\ [Next]_vars => NoGpsThread'
<1> SUFFICES ASSUME NoGpsThread, [Next]_vars PROVE NoGpsThread'
  OBVIOUS
<1> USE DEF NoGpsThread
<1>1. CASE GpsThread
  BY <1>1 DEF GpsThread, GpsReadBegin, GpsReadEnd
<1>2. CASE Restart
  BY <1>2 DEF Restart, GpsThreadStart
<1>3. ASSUME GpsChange \/ CarrierChange \/ ThreadExit \/ UNCHANGED vars
      PROVE  UNCHANGED <<gpc, mach_type>>
  BY <1>3 DEF GpsChange, CarrierChange, ThreadExit, vars, gpsVars
<1>4. ASSUME PulseThread PROVE UNCHANGED <<gpc, mach_type>>
  BY <1>4 DEF PulseThread, Sample, NoPulse, TakePulse, SlaveSelectPtp,
     SlaveTime, SlaveOutage, MasterCount, MasterSelectGps, MasterTime,
     SwitchRole, Promote, gpsVars
<1> QED BY <1>1, <1>2, <1>3, <1>4 DEF Next

\* Without a GPS thread a register access has its one outcome.
LEMMA NoRaceNoOutcome ==
  ASSUME ~Racing, NEW c
  PROVE  ReadOutcomes(c) = {c} /\ (WriteConfig(c) => cfg' = c)
BY DEF ReadOutcomes, WriteConfig, ReadResults, WriteResults

\* Every step preserves the authority over the role.
LEMMA RoleStep == TypeOK /\ RoleInv /\ [Next]_vars => RoleInv'
<1> SUFFICES ASSUME TypeOK, RoleInv, [Next]_vars PROVE RoleInv'
  OBVIOUS
<1>1. StepsOfRole' /\ NoGpsThread'
  BY StepsOfRoleStep, NoGpsThreadStep DEF RoleInv
<1>2. SUFFICES ASSUME mach_type' # CLOCK_MASTER
               PROVE  /\ cur_status' = mach_type'
                      /\ pc' \notin MasterSteps \cup {"promote"}
                      /\ OffGps(cfg') /\ OffGps(fpga_status')
  BY <1>1 DEF RoleInv, RoleAuthority, CopyOffGps, OffGps
<1>3. mach_type' = mach_type
  BY DEF Next, GpsChange, CarrierChange, Restart, GpsThread, GpsReadBegin,
     GpsReadEnd, ThreadExit, PulseThread, Sample, NoPulse, TakePulse,
     SlaveSelectPtp, SlaveTime, SlaveOutage, MasterCount, MasterSelectGps,
     MasterTime, SwitchRole, Promote, vars
<1>4. /\ cur_status = mach_type /\ mach_type # CLOCK_MASTER
      /\ pc \notin MasterSteps \cup {"promote"}
      /\ OffGps(cfg) /\ OffGps(fpga_status) /\ ~Racing
  BY <1>2, <1>3 DEF RoleInv, RoleAuthority, NoGpsThread, CopyOffGps, OffGps,
                   Racing
<1>5. cur_status' = mach_type'
  <2>1. CASE SwitchRole
    BY <1>3, <1>4, <2>1 DEF SwitchRole, MustDemote, MayPromote
  <2>2. CASE Restart
    BY <2>2 DEF Restart
  <2>3. CASE ~SwitchRole /\ ~Restart
    BY <1>3, <1>4, <2>3
    DEF Next, GpsChange, CarrierChange, GpsThread, GpsReadBegin,
     GpsReadEnd, ThreadExit, PulseThread, Sample, NoPulse, TakePulse,
     SlaveSelectPtp, SlaveTime, SlaveOutage, MasterCount, MasterSelectGps,
     MasterTime, Promote, vars
  <2> QED BY <2>1, <2>2, <2>3
<1>6. pc' \notin MasterSteps \cup {"promote"}
  BY <1>1, <1>2, <1>5 DEF StepsOfRole
<1>7. OffGps(cfg') /\ OffGps(fpga_status')
  <2>1. CASE Restart
    <3>1. OffGps({})
      BY DEF OffGps, CLK_GPS
    <3> QED BY <2>1, <3>1, NotGpsAlone DEF Restart
  <2>2. CASE TakePulse
    <3>1. fpga_status' = cfg \cup PTP_VALID /\ cfg' = cfg
      BY <1>4, <2>2, NoRaceNoOutcome DEF TakePulse
    <3> QED BY <1>4, <3>1, NotGpsAlone
  <2>3. CASE SlaveSelectPtp
    <3>1. fpga_status' = fpga_status
          /\ (cfg' = cfg \/ cfg' = SlaveConfig(fpga_status))
      BY <1>4, <2>3, NoRaceNoOutcome DEF SlaveSelectPtp
    <3> QED BY <1>4, <3>1, NotGpsAlone
  <2>4. CASE SlaveOutage
    <3>1. fpga_status' = fpga_status /\ cfg' = OutageConfig(fpga_status)
      BY <1>4, <2>4, NoRaceNoOutcome DEF SlaveOutage
    <3> QED BY <1>4, <3>1, NotGpsAlone
  <2>5. ~MasterCount /\ ~MasterSelectGps /\ ~MasterTime /\ ~Promote
    BY <1>4 DEF MasterCount, MasterSelectGps, MasterTime, Promote, MasterSteps
  <2>6. CASE ~Restart /\ ~TakePulse /\ ~SlaveSelectPtp /\ ~SlaveOutage
    <3>1. UNCHANGED <<cfg, fpga_status>>
      BY <2>5, <2>6
      DEF Next, GpsChange, CarrierChange, GpsThread, GpsReadBegin,
       GpsReadEnd, ThreadExit, PulseThread, Sample, NoPulse, SlaveTime,
       SwitchRole, vars
    <3> QED BY <1>4, <3>1
  <2> QED BY <2>1, <2>2, <2>3, <2>4, <2>6
<1> QED BY <1>5, <1>6, <1>7

\* A device that is not configured as master never acts as one.
THEOREM RoleCorrect == Spec => []RoleAuthority
<1>1. RoleInv => RoleAuthority
  BY DEF RoleInv
<1> QED BY <1>1, TypeInitially, TypeStep, RoleInitially, RoleStep, PTL DEF Spec
-----------------------------------------------------------------------------
(* The synchronisations that the pulse counter triggers.                   *)

\* The counter is at a threshold that this pulse still has to act on only
\* at the start of the master's branch.
Passed(limit) == ptp_num > limit \/ (ptp_num = limit /\ pc # "masterUp")
Due(limit)    == IF Passed(limit) THEN 1 ELSE 0

\* Each of the two thresholds accounts for one synchronisation, once it is
\* passed; the wrap goes back to the second threshold, not before it.
CounterInv == counterSyncs <= Due(SyncFirst) + Due(SyncAgain)

\* No threshold is passed at the start.
LEMMA CounterInitially == Init => CounterInv
BY CounterAssumption DEF Init, CounterInv, Due, Passed

\* Every step preserves the account of the thresholds; only a pulse and the
\* master's branch move the counter.
LEMMA CounterStep ==
  TypeOK /\ CounterInv /\ [Next]_vars => CounterInv'
<1> SUFFICES ASSUME TypeOK, CounterInv, [Next]_vars PROVE CounterInv'
  OBVIOUS
<1>1. /\ ptp_num \in Nat /\ counterSyncs \in Nat
      /\ {SyncFirst, SyncJump, SyncAgain, SyncWrap} \subseteq Nat
      /\ SyncFirst > 0 /\ SyncFirst < SyncJump /\ SyncJump < SyncAgain
      /\ SyncAgain < SyncWrap
  BY CounterAssumption DEF TypeOK
<1> USE DEF CounterInv, Due, Passed
<1>2. ASSUME UNCHANGED <<ptp_num, counterSyncs>>, pc' # "masterUp"
      PROVE  CounterInv'
  BY <1>1, <1>2
<1>3. ASSUME UNCHANGED <<ptp_num, counterSyncs, pc>>
      PROVE  CounterInv'
  BY <1>3
<1>4. CASE Restart
  BY <1>1, <1>4 DEF Restart
<1>5. CASE TakePulse
  <2>1. ptp_num' = Pulse(ptp_num) /\ counterSyncs' = counterSyncs
        /\ pc = "trigger"
    BY <1>5 DEF TakePulse
  <2>2. ASSUME NEW limit \in {SyncFirst, SyncAgain}
        PROVE  Due(limit)' >= Due(limit)
    BY <1>1, <2>1 DEF Pulse
  <2> QED BY <2>1, <2>2, <1>1
<1>6. CASE MasterCount
  <2>1. /\ pc = "masterUp" /\ pc' = "masterSelect"
        /\ ptp_num' = CountAfter(ptp_num)
        /\ counterSyncs' = IF CountsAsSync(ptp_num) THEN counterSyncs + 1
                                                    ELSE counterSyncs
    BY <1>6 DEF MasterCount
  <2>2. CASE ptp_num = SyncFirst
    BY <1>1, <2>1, <2>2 DEF CountAfter, CountsAsSync
  <2>3. CASE ptp_num = SyncAgain
    BY <1>1, <2>1, <2>3 DEF CountAfter, CountsAsSync
  <2>4. CASE ptp_num = SyncWrap
    BY <1>1, <2>1, <2>4 DEF CountAfter, CountsAsSync
  <2>5. CASE ptp_num \notin {SyncFirst, SyncAgain, SyncWrap}
    BY <1>1, <2>1, <2>5 DEF CountAfter, CountsAsSync
  <2> QED BY <2>2, <2>3, <2>4, <2>5
<1>7. ASSUME ~Restart, ~TakePulse, ~MasterCount
      PROVE  /\ UNCHANGED <<ptp_num, counterSyncs>>
             /\ pc' = pc \/ pc' # "masterUp"
  BY <1>7
  DEF Next, GpsChange, CarrierChange, GpsThread, GpsReadBegin,
     GpsReadEnd, ThreadExit, PulseThread, Sample, NoPulse, SlaveSelectPtp,
     SlaveTime, SlaveOutage, MasterSelectGps, MasterTime, SwitchRole, Promote,
     vars, counts
<1> QED BY <1>2, <1>3, <1>4, <1>5, <1>6, <1>7

\* The counter triggers at most two synchronisations between two reboots.
THEOREM CounterCorrect == Spec => []CounterSyncsAtMostTwice
<1>1. TypeOK /\ CounterInv => CounterSyncsAtMostTwice
  BY DEF TypeOK, CounterInv, Due, CounterSyncsAtMostTwice
<1> QED BY <1>1, TypeInitially, TypeStep, CounterInitially, CounterStep, PTL
        DEF Spec
-----------------------------------------------------------------------------
(* Without collisions on the bus: the source, the PTP-valid bit, and what  *)
(* the two threads promise together.                                       *)

\* A branch that is entered with the link up keeps the sampled carrier.
LinkOfStep == pc \in {"slaveUp", "slaveTime"} \cup MasterSteps
                => buffnet = NET_UP

\* Until the branch writes the register, the copy that the loop took shows
\* the source that the register selects; a master's first write keeps it.
CopyAgrees ==
  pc \in {"slaveUp", "slaveDown", "masterUp", "masterSelect"} =>
    fpga_status \cap CLK_PTP = cfg \cap CLK_PTP

QuietInv == LinkOfStep /\ CopyAgrees /\ MasterOffPtp

\* SRC1 is one of the two source bits.
LEMMA OffPtpBits ==
  \A c : "SRC1" \notin c <=> "SRC1" \notin c \cap CLK_PTP
BY DEF CLK_PTP

\* The reset selects no source.
LEMMA QuietInitially == Init => QuietInv
<1> SUFFICES ASSUME Init PROVE QuietInv
  OBVIOUS
<1>1. "SRC1" \notin cfg
  BY OffPtpBits, SourceBits DEF Init
<1> QED BY <1>1 DEF Init, QuietInv, LinkOfStep, CopyAgrees, MasterOffPtp,
           MasterSteps

\* The carrier is sampled at the top of the loop only.
LEMMA LinkOfStepStep == LinkOfStep /\ [Next]_vars => LinkOfStep'
<1> SUFFICES ASSUME LinkOfStep, [Next]_vars PROVE LinkOfStep'
  OBVIOUS
<1> USE DEF LinkOfStep, MasterSteps, sampled
<1>1. CASE TakePulse
  BY <1>1 DEF TakePulse
<1>2. CASE SlaveSelectPtp
  BY <1>2 DEF SlaveSelectPtp
<1>3. CASE MasterCount
  BY <1>3 DEF MasterCount
<1>4. CASE MasterSelectGps
  BY <1>4 DEF MasterSelectGps
<1>5. ASSUME ~TakePulse, ~SlaveSelectPtp, ~MasterCount, ~MasterSelectGps
      PROVE  \/ UNCHANGED <<pc, buffnet>>
             \/ pc' \in {"sample", "trigger", "switch", "promote", "exit"}
  BY <1>5
  DEF Next, GpsChange, CarrierChange, Restart, GpsThread, GpsReadBegin,
     GpsReadEnd, ThreadExit, PulseThread, Sample, NoPulse, SlaveTime,
     SlaveOutage, MasterTime, SwitchRole, Promote, vars
<1> QED BY <1>1, <1>2, <1>3, <1>4, <1>5

\* What the writers of the register do when nothing collides.
LEMMA QuietWrites ==
  ASSUME ~BusRaces
  PROVE  /\ TakePulse => fpga_status' = cfg \cup PTP_VALID
         /\ SlaveSelectPtp => cfg' = IF sync THEN SlaveConfig(fpga_status)
                                             ELSE cfg
         /\ SlaveOutage => cfg' = OutageConfig(fpga_status)
         /\ MasterCount => cfg' = IF ptp_num = SyncFirst
                                  THEN RunConfig(fpga_status) ELSE cfg
         /\ MasterSelectGps => cfg' = IF sync THEN MasterConfig(fpga_status)
                                              ELSE cfg
         /\ Promote => cfg' = PromotedConfig(cfg) /\ fpga_status' = cfg
<1>1. ~Racing
  BY DEF Racing
<1> QED BY <1>1, NoRaceNoOutcome DEF TakePulse, SlaveSelectPtp, SlaveOutage,
           MasterCount, MasterSelectGps, Promote

\* The other steps leave the register and the copy alone.
LEMMA NonWriters ==
  ASSUME [Next]_vars, ~TakePulse, ~SlaveSelectPtp, ~SlaveOutage,
         ~MasterCount, ~MasterSelectGps, ~Promote, ~Restart
  PROVE  UNCHANGED <<cfg, fpga_status>>
BY DEF Next, GpsChange, CarrierChange, GpsThread, GpsReadBegin, GpsReadEnd,
     ThreadExit, PulseThread, Sample, NoPulse, SlaveTime, MasterTime,
     SwitchRole, vars

\* The copy is taken by the pulse and used by the branch that follows it.
LEMMA CopyAgreesStep ==
  ASSUME ~BusRaces, CopyAgrees, [Next]_vars
  PROVE  CopyAgrees'
<1> USE DEF CopyAgrees
<1>1. CASE TakePulse
  BY <1>1, QuietWrites, SourceBits DEF TakePulse
<1>2. CASE MasterCount
  <2>1. pc = "masterUp" /\ fpga_status' = fpga_status
    BY <1>2 DEF MasterCount
  <2> QED BY <1>2, <2>1, QuietWrites, SourceBits
<1>3. ASSUME ~TakePulse, ~MasterCount
      PROVE  \/ UNCHANGED <<pc, cfg, fpga_status>>
             \/ pc' \in {"sample", "trigger", "switch", "promote", "exit",
                         "slaveTime", "masterTime"}
  BY <1>3
  DEF Next, GpsChange, CarrierChange, Restart, GpsThread, GpsReadBegin,
     GpsReadEnd, ThreadExit, PulseThread, Sample, NoPulse, SlaveSelectPtp,
     SlaveTime, SlaveOutage, MasterSelectGps, MasterTime, SwitchRole, Promote,
     vars
<1> QED BY <1>1, <1>2, <1>3

\* Every step keeps a master off the PTP source.
LEMMA MasterOffPtpStep ==
  ASSUME ~BusRaces, TypeOK, StepsOfRole, CopyAgrees, MasterOffPtp, [Next]_vars
  PROVE  MasterOffPtp'
<1> USE DEF MasterOffPtp
<1>1. CASE Restart
  BY <1>1, SourceBits, OffPtpBits DEF Restart, MasterSteps
<1>2. CASE TakePulse
  <2>1. cfg' = cfg /\ cur_status' = cur_status /\ pc = "trigger"
    BY <1>2 DEF TakePulse
  <2>2. fpga_status' = cfg \cup PTP_VALID
    BY <1>2, QuietWrites
  <2> QED BY <2>1, <2>2 DEF PTP_VALID
<1>3. CASE SlaveSelectPtp
  BY <1>3 DEF SlaveSelectPtp, StepsOfRole, SlaveSteps, CLOCK_SLAVE,
              CLOCK_MASTER
<1>4. CASE SlaveOutage
  BY <1>4 DEF SlaveOutage, StepsOfRole, SlaveSteps, CLOCK_SLAVE, CLOCK_MASTER
<1>5. CASE MasterCount \/ MasterSelectGps
  <2>1. /\ cur_status' = cur_status /\ fpga_status' = fpga_status
        /\ pc \in MasterSteps /\ pc # "promote"
    BY <1>5 DEF MasterCount, MasterSelectGps, MasterSteps
  <2>2. cfg' \in {cfg, RunConfig(fpga_status), MasterConfig(fpga_status)}
    BY <1>5, QuietWrites
  <2>3. "SRC1" \notin fpga_status => "SRC1" \notin RunConfig(fpga_status)
                                /\ "SRC1" \notin MasterConfig(fpga_status)
    BY DEF RunConfig, MasterConfig, CLK_GPS
  <2> QED BY <2>1, <2>2, <2>3
<1>6. CASE Promote
  <2>1. cfg' = PromotedConfig(cfg)
    BY <1>6, QuietWrites
  <2>2. "SRC1" \notin cfg'
    BY <2>1 DEF PromotedConfig, CLK_GPS, CLK_PTP
  <2> QED BY <1>6, <2>2 DEF Promote, MasterSteps
<1>7. CASE SwitchRole
  BY <1>7 DEF SwitchRole, MasterSteps, CLOCK_MASTER, CLOCK_SLAVE
<1>8. ASSUME ~Restart, ~TakePulse, ~SlaveSelectPtp, ~SlaveOutage,
             ~MasterCount, ~MasterSelectGps, ~Promote, ~SwitchRole
      PROVE  MasterOffPtp'
  <2>1. UNCHANGED <<cfg, fpga_status, cur_status>>
    BY <1>8
    DEF Next, GpsChange, CarrierChange, GpsThread, GpsReadBegin,
     GpsReadEnd, ThreadExit, PulseThread, Sample, NoPulse, SlaveTime,
     MasterTime, vars
  <2>2. pc' = pc \/ pc' \in {"sample", "trigger", "switch", "exit"}
    BY <1>8
    DEF Next, GpsChange, CarrierChange, GpsThread, GpsReadBegin,
     GpsReadEnd, ThreadExit, PulseThread, Sample, NoPulse, SlaveTime,
     MasterTime, vars
  <2>3. pc = "promote" => pc' = "promote"
    BY <1>8
    DEF Next, GpsChange, CarrierChange, GpsThread, GpsReadBegin,
     GpsReadEnd, ThreadExit, PulseThread, Sample, NoPulse, SlaveTime,
     MasterTime, vars
  <2> QED BY <2>1, <2>2, <2>3 DEF MasterSteps
<1> QED BY <1>1, <1>2, <1>3, <1>4, <1>5, <1>6, <1>7, <1>8

\* Every step without collisions preserves the three together.
LEMMA QuietStep ==
  ASSUME ~BusRaces
  PROVE  TypeOK /\ StepsOfRole /\ QuietInv /\ [Next]_vars => QuietInv'
BY LinkOfStepStep, CopyAgreesStep, MasterOffPtpStep DEF QuietInv

\* Without collisions a master is off the PTP source from its promotion on.
THEOREM MasterOffPtpCorrect ==
  ASSUME ~BusRaces PROVE Spec => []MasterOffPtp
<1>1. RoleInv => StepsOfRole
  BY DEF RoleInv
<1>2. QuietInv => MasterOffPtp
  BY DEF QuietInv
<1>3. TypeOK /\ StepsOfRole /\ QuietInv /\ [Next]_vars => QuietInv'
  BY QuietStep
<1> QED BY <1>1, <1>2, <1>3, TypeInitially, TypeStep, RoleInitially, RoleStep,
           QuietInitially, PTL DEF Spec

\* Which steps may set the PTP-valid bit of the register.
LEMMA ValidStep ==
  ASSUME ~BusRaces, TypeOK, StepsOfRole, LinkOfStep, CopyAgrees, [Next]_vars,
         "VALID" \notin cfg, "VALID" \in cfg'
  PROVE  \/ rebooting
         \/ buffnet = NET_UP /\ (sync \/ cur_status = CLOCK_MASTER)
<1>1. CASE Restart
  BY <1>1 DEF Restart
<1>2. CASE SlaveSelectPtp
  <2>1. pc = "slaveUp"
    BY <1>2 DEF SlaveSelectPtp
  <2>2. sync
    BY <1>2, QuietWrites
  <2> QED BY <2>1, <2>2 DEF LinkOfStep
<1>3. CASE MasterCount \/ MasterSelectGps
  <2>1. pc \in MasterSteps
    BY <1>3 DEF MasterCount, MasterSelectGps, MasterSteps
  <2> QED BY <2>1 DEF LinkOfStep, StepsOfRole
<1>4. CASE SlaveOutage
  BY <1>4, QuietWrites DEF OutageConfig, PTP_VALID
<1>5. CASE Promote
  BY <1>5, QuietWrites DEF PromotedConfig, CLK_GPS
<1>6. CASE TakePulse
  BY <1>6 DEF TakePulse
<1> QED BY <1>1, <1>2, <1>3, <1>4, <1>5, <1>6, NonWriters

\* Without collisions a withdrawn PTP-valid bit comes back only with the link
\* up and the clocks agreeing, or in a master.
THEOREM ValidCorrect ==
  ASSUME ~BusRaces PROVE Spec => ValidOnlyWhenServed
<1>1. RoleInv => StepsOfRole
  BY DEF RoleInv
<1>2. QuietInv => LinkOfStep /\ CopyAgrees
  BY DEF QuietInv
<1>3. TypeOK /\ StepsOfRole /\ QuietInv /\ [Next]_vars => QuietInv'
  BY QuietStep
<1>4. TypeOK /\ StepsOfRole /\ LinkOfStep /\ CopyAgrees /\ [Next]_vars =>
        [ "VALID" \notin cfg /\ "VALID" \in cfg' =>
            \/ rebooting
            \/ buffnet = NET_UP /\ (sync \/ cur_status = CLOCK_MASTER) ]_vars
  BY ValidStep
<1> QED BY <1>1, <1>2, <1>3, <1>4, TypeInitially, TypeStep, RoleInitially,
           RoleStep, QuietInitially, PTL DEF Spec, ValidOnlyWhenServed
-----------------------------------------------------------------------------
(* The two threads implement ClockRole.                                    *)

\* The source of ClockRole is decided by the two source bits.
Source(c) == IF "SRC1" \in c THEN "ptp"
             ELSE IF "SRC0" \in c THEN "gps" ELSE "auto"

\* The source that the written words select.
LEMMA SourceOf ==
  /\ \A c, d : c \cap CLK_PTP = d \cap CLK_PTP => Source(c) = Source(d)
  /\ \A type : Source(BootConfig(type)) = "auto"
  /\ \A c : Source(SlaveConfig(c)) = "ptp" /\ Source(PromotedConfig(c)) = "gps"
  /\ \A c : "SRC1" \notin c => Source(MasterConfig(c)) = "gps"
<1>1. ASSUME NEW c, NEW d, c \cap CLK_PTP = d \cap CLK_PTP
      PROVE  Source(c) = Source(d)
  <2>1. ("SRC1" \in c <=> "SRC1" \in d) /\ ("SRC0" \in c <=> "SRC0" \in d)
    BY <1>1 DEF CLK_PTP
  <2> QED BY <2>1 DEF Source
<1>2. ASSUME NEW type PROVE Source(BootConfig(type)) = "auto"
  <2>1. "SRC0" \notin BootConfig(type) /\ "SRC1" \notin BootConfig(type)
    BY SourceBits DEF CLK_PTP
  <2> QED BY <2>1 DEF Source
<1>3. ASSUME NEW c
      PROVE  /\ Source(SlaveConfig(c)) = "ptp"
             /\ Source(PromotedConfig(c)) = "gps"
             /\ "SRC1" \notin c => Source(MasterConfig(c)) = "gps"
  BY DEF Source, SlaveConfig, PromotedConfig, MasterConfig, CLK_PTP, CLK_GPS,
         STOP_LED
<1> QED BY <1>1, <1>2, <1>3

\* The initial state is one of ClockRole.
LEMMA RoleRefinedInitially == Init => Role!Init
BY SourceOf DEF Init, Role!Init, Source, CLOCK_MASTER

\* Every step of the two threads is a step of ClockRole or changes nothing
\* there.
LEMMA RoleRefinedStep ==
  ASSUME ~BusRaces, TypeOK, RoleInv, QuietInv, [Next]_vars
  PROVE  [Role!Next]_(Role!vars)
<1> USE DEF Role!Next, Role!vars
<1>i. StepsOfRole /\ NoGpsThread /\ CopyAgrees /\ MasterOffPtp
  BY DEF RoleInv, QuietInv
<1>1. CASE Restart
  BY <1>1, SourceOf DEF Restart, Role!Restart, Source
<1>2. CASE GpsReadEnd
  <2>1. mach_type = CLOCK_MASTER
    BY <1>i, <1>2 DEF GpsReadEnd, NoGpsThread
  <2>2. UNCHANGED <<mach_type, cur_status, cfg>>
    BY <1>2 DEF GpsReadEnd
  <2> QED BY <2>1, <2>2 DEF Role!Observe
<1>3. CASE SlaveSelectPtp
  <2>1. cur_status = CLOCK_SLAVE
    BY <1>i, <1>3 DEF SlaveSelectPtp, StepsOfRole, SlaveSteps
  <2>2. UNCHANGED <<mach_type, cur_status, gps_status>>
    BY <1>3 DEF SlaveSelectPtp, gpsVars
  <2>3. cfg' = cfg \/ Source(cfg') = "ptp"
    BY <1>3, QuietWrites, SourceOf
  <2> QED BY <2>1, <2>2, <2>3 DEF Role!SelectPtp, Source
<1>4. CASE SlaveOutage
  <2>1. UNCHANGED <<mach_type, cur_status, gps_status>>
    BY <1>4 DEF SlaveOutage, gpsVars
  <2>2. cfg' \cap CLK_PTP = cfg \cap CLK_PTP
    BY <1>i, <1>4, QuietWrites, SourceBits DEF SlaveOutage, CopyAgrees
  <2>3. Source(cfg') = Source(cfg)
    BY <2>2, SourceOf
  <2> QED BY <2>1, <2>3 DEF Source
<1>5. CASE MasterCount
  <2>1. UNCHANGED <<mach_type, cur_status, gps_status>>
    BY <1>5 DEF MasterCount, gpsVars
  <2>2. cfg' \cap CLK_PTP = cfg \cap CLK_PTP
    BY <1>i, <1>5, QuietWrites, SourceBits DEF MasterCount, CopyAgrees
  <2>3. Source(cfg') = Source(cfg)
    BY <2>2, SourceOf
  <2> QED BY <2>1, <2>3 DEF Source
<1>6. CASE MasterSelectGps
  <2>1. /\ pc = "masterSelect" /\ pc \in MasterSteps /\ pc # "promote"
        /\ UNCHANGED <<mach_type, cur_status, gps_status>>
    BY <1>6 DEF MasterSelectGps, MasterSteps, gpsVars
  <2>2. cur_status = CLOCK_MASTER /\ "SRC1" \notin fpga_status
    BY <1>i, <2>1 DEF StepsOfRole, MasterOffPtp
  <2>3. cfg' = cfg \/ Source(cfg') = "gps"
    BY <1>6, <2>2, QuietWrites, SourceOf
  <2> QED BY <2>1, <2>2, <2>3 DEF Role!SelectGps, Source
<1>7. CASE Promote
  <2>1. cur_status = CLOCK_MASTER
    BY <1>i, <1>7 DEF Promote, StepsOfRole
  <2>2. UNCHANGED <<mach_type, cur_status, gps_status>>
    BY <1>7 DEF Promote, gpsVars
  <2>3. Source(cfg') = "gps"
    BY <1>7, QuietWrites, SourceOf
  <2> QED BY <2>1, <2>2, <2>3 DEF Role!SelectGps, Source
<1>8. CASE SwitchRole
  <2>1. UNCHANGED <<mach_type, gps_status, cfg>>
    BY <1>8 DEF SwitchRole, gpsVars
  <2>2. CASE MustDemote /\ cur_status' = CLOCK_SLAVE
    <3>1. "SRC1" \notin cfg
      BY <1>i, <1>8, <2>2 DEF SwitchRole, MustDemote, MasterOffPtp
    <3> QED BY <2>1, <2>2, <3>1 DEF MustDemote, Role!StepDown
  <2>3. CASE MayPromote /\ cur_status' = CLOCK_MASTER
    BY <2>1, <2>3 DEF MayPromote, Role!StepUp
  <2>4. CASE UNCHANGED cur_status
    BY <2>1, <2>4
  <2> QED BY <1>8, <2>2, <2>3, <2>4 DEF SwitchRole
<1>9. ASSUME ~Restart, ~GpsReadEnd, ~SlaveSelectPtp, ~SlaveOutage,
             ~MasterCount, ~MasterSelectGps, ~Promote, ~SwitchRole
      PROVE  UNCHANGED <<mach_type, cur_status, gps_status, cfg>>
  BY <1>9 DEF Next, GpsChange, CarrierChange, GpsThread, GpsReadBegin,
     ThreadExit, PulseThread, Sample, NoPulse, TakePulse, SlaveTime,
     MasterTime, vars, gpsVars
<1> QED BY <1>1, <1>2, <1>3, <1>4, <1>5, <1>6, <1>7, <1>8, <1>9

\* Without collisions the two threads implement the abstract role control.
THEOREM RoleRefined ==
  ASSUME ~BusRaces PROVE Spec => RefinesRole
<1>1. TypeOK /\ RoleInv /\ QuietInv /\ [Next]_vars => [Role!Next]_(Role!vars)
  BY RoleRefinedStep
<1>2. RoleInv => StepsOfRole
  BY DEF RoleInv
<1>3. TypeOK /\ StepsOfRole /\ QuietInv /\ [Next]_vars => QuietInv'
  BY QuietStep
<1> QED BY <1>1, <1>2, <1>3, RoleRefinedInitially, TypeInitially, TypeStep,
           RoleInitially, RoleStep, QuietInitially, PTL
        DEF Spec, RefinesRole, Role!Spec
=============================================================================
