------------------------------ MODULE FpgaAccess ------------------------------
(***************************************************************************)
(* What an access to ADDR_CONFIG through the shared message buffer of      *)
(* fpga_ctl.c may result in.  ClockControl takes a register access as one  *)
(* step with these results; FpgaBus has the single assignments and shows   *)
(* that there are no others.                                               *)
(*                                                                         *)
(* none is the cleared word, logic the words that ADDR_LOGIC_STATUS may    *)
(* show, overlap whether the access of the other thread overlaps.          *)
(***************************************************************************)

\* The buffer's value may be cleared, or be that of the logic status.
ReadResults(word, none, logic, overlap) ==
  {word} \cup IF overlap THEN {none} \cup logic ELSE {}

\* The write may go to the address of the logic status and leave old.
WriteResults(word, old, overlap) ==
  {word} \cup IF overlap THEN {old} ELSE {}
===============================================================================
