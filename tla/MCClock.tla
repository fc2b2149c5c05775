------------------------------- MODULE MCClock -------------------------------
(* Values for the model-checking runs of ClockControl.                      *)
EXTENDS ClockControl

MCResetConfig == {"LED"}

\* The logic status register shows nothing, or bits that look like a
\* configuration of a slave on PTP.
MCLogicNoise  == {{}, {"SRC1", "VALID"}}

\* With collisions the register takes many more values: nothing is set at
\* reset, and the noise is the empty register.
MCRaceReset == {}
MCRaceNoise == {{}}
==============================================================================
