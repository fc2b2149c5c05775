------------------------------- MODULE Netmask -------------------------------
(***************************************************************************)
(* The texts in which the agent names addresses and masks, what inet_aton  *)
(* makes of them, and the check of is_valid_netmask (snmp.c).              *)
(*                                                                         *)
(* A text is the sequence of its decimal parts, "255.255.0.0" being        *)
(* <<255, 255, 0, 0>>.  Texts with letters, and the octal and hexadecimal  *)
(* parts that inet_aton understands too, are left out.  A part of an       *)
(* address has PartBits bits, 8 in the program.                            *)
(***************************************************************************)
EXTENDS Integers, Sequences

CONSTANT PartBits

ASSUME PartAssumption == PartBits \in Nat \ {0}

Width     == 4 * PartBits
Shift(k)  == 2 ^ (k * PartBits)            \* the factor of << (k * 8)
Words     == 0 .. 2 ^ Width - 1            \* unsigned int
Wrap(n)   == n % 2 ^ Width

Texts == {t \in Seq(Nat) : Len(t) \in 1 .. 4}

(* inet_aton: up to four parts, the last of which fills the rest.          *)
Fits(t) ==
  /\ \A k \in 1 .. Len(t) - 1 : t[k] < Shift(1)
  /\ t[Len(t)] < Shift(5 - Len(t))

Part(t, k) == IF k < Len(t) THEN t[k] * Shift(4 - k) ELSE 0

Address(t) == Part(t, 1) + Part(t, 2) + Part(t, 3) + t[Len(t)]

is_valid_ip(t) == Fits(t)
-----------------------------------------------------------------------------
(* is_valid_netmask reads the text a second time, with sscanf.  It finds   *)
(* four parts or leaves n[0] uninitialised, and then b can be any number.  *)
MaskNumbers(t) ==
  IF Len(t) < 4 THEN Words
  ELSE {Wrap(t[4] + t[3] * Shift(1) + t[2] * Shift(2) + t[1] * Shift(3))}

Bits(n) == {k \in 0 .. Width - 1 : (n \div 2 ^ k) % 2 = 1}

And(m, n) == Bits(m) \cap Bits(n)

\* A faulty variant of the next operator: the complement without the 1.
ComplementOnly(b) ==
  LET c == Wrap(-1 - b) IN And(c, Wrap(c - 1)) = {}

\* b = ~b + 1;  (b & (b - 1)) == 0
ComplementIsPower(b) ==
  LET c == Wrap(Wrap(-1 - b) + 1) IN And(c, Wrap(c - 1)) = {}

\* The answers that is_valid_netmask can give.
is_valid_netmask(t) ==
  IF is_valid_ip(t) THEN {ComplementIsPower(b) : b \in MaskNumbers(t)}
                    ELSE {FALSE}
-----------------------------------------------------------------------------
(* For reference: the masks are the words that start with some ones and go *)
(* on with zeros only.                                                     *)
PrefixMask(length) == 2 ^ Width - 2 ^ (Width - length)

Masks == {PrefixMask(length) : length \in 0 .. Width}
==============================================================================
