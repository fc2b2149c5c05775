------------------------------ MODULE ClockRole ------------------------------
(***************************************************************************)
(* What the clock control promises about the role of a device and the time *)
(* source that its FPGA is set to, without the threads, the registers and  *)
(* the pulses that bring it about.                                         *)
(*                                                                         *)
(* A device configured as master may step down when it saw the GPS signal  *)
(* lost and step up again when it saw it back.  It never steps down while  *)
(* the change of source that belongs to an earlier step up is outstanding, *)
(* and the PTP source is selected only by a device that acts as slave.     *)
(***************************************************************************)
CONSTANTS Master, Slave,   \* the two roles a device can be configured for
          Modes            \* these, and the mode of a device with no role

VARIABLES
  home,     \* the configured role
  role,     \* the role the device acts in
  seen,     \* the GPS signal, when it was last looked at
  source    \* "auto" after a reset, then "gps" or "ptp"

vars == <<home, role, seen, source>>

Init == /\ home \in Modes
        /\ role = home
        /\ seen = FALSE
        /\ source = "auto"

\* Only a device configured as master looks at the GPS receiver.
Observe == /\ home = Master
           /\ seen' = ~seen
           /\ UNCHANGED <<home, role, source>>

StepDown == /\ role = Master
            /\ ~seen
            /\ source # "ptp"
            /\ role' = Slave
            /\ UNCHANGED <<home, seen, source>>

StepUp == /\ role = Slave
          /\ home = Master
          /\ seen
          /\ role' = Master
          /\ UNCHANGED <<home, seen, source>>

SelectPtp == /\ role = Slave
             /\ source' = "ptp"
             /\ UNCHANGED <<home, role, seen>>

SelectGps == /\ role = Master
             /\ source' = "gps"
             /\ UNCHANGED <<home, role, seen>>

Restart == /\ role' = home
           /\ seen' = FALSE
           /\ source' = "auto"
           /\ UNCHANGED home

Next == \/ Observe \/ StepDown \/ StepUp
        \/ SelectPtp \/ SelectGps \/ Restart

Spec == Init /\ [][Next]_vars
==============================================================================
