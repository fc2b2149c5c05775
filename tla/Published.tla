------------------------------ MODULE Published ------------------------------
(***************************************************************************)
(* A time in the published parameters: ptp_time or gps_time of             *)
(* ClockParameter (data_trap.h).  In every turn the pulse thread writes    *)
(* the time into it with sprintf (main.c); the handlers of a query copy it *)
(* into a reply with strcpy (snmp.c, snmp_data_0x65 and 0x66), in another  *)
(* thread and without a lock.                                              *)
(*                                                                         *)
(* All times that ctime writes have the same length, so only the number of *)
(* the publication that a character stems from is kept.  sprintf may write *)
(* the characters in any order; strcpy reads on until it finds a zero.     *)
(***************************************************************************)
EXTENDS Naturals, Sequences

CONSTANTS
  TimeLength,    \* characters of a time, 25 in the program
  MaxTimes       \* bound: times that are published

ASSUME TimeAssumption == TimeLength \in Nat \ {0} /\ MaxTimes \in Nat

Cells == 1 .. TimeLength + 1      \* the last one is for the final zero

VARIABLES
  text,          \* the publication that each cell stems from; 0 is none
  published,     \* publications begun so far
  unwritten,     \* cells that sprintf has yet to write
  copying,       \* is strcpy under way?
  copy,          \* what it has copied
  since          \* history: the last time that was complete when it began

vars == <<text, published, unwritten, copying, copy, since>>

\* A faulty variant of the next operator: the final zero is not written.
IsZeroAtFirst(cell) == text[cell] = 0

\* Global variables are zero at first.
IsZero(cell) == text[cell] = 0 \/ cell = TimeLength + 1

Init ==
  /\ text = [cell \in Cells |-> 0] /\ published = 0 /\ unwritten = {}
  /\ copying = FALSE /\ copy = <<>> /\ since = 0
-----------------------------------------------------------------------------
(* The pulse thread.                                                       *)

\* A faulty variant of the next action: a second thread publishes too.
PublishConcurrently ==
  /\ published < MaxTimes
  /\ published' = published + 1
  /\ unwritten' = Cells
  /\ UNCHANGED <<text, copying, copy, since>>

\* Another one: the old time is cleared first.
PublishCleared ==
  /\ unwritten = {} /\ published < MaxTimes
  /\ published' = published + 1
  /\ unwritten' = Cells
  /\ text' = [cell \in Cells |-> 0]
  /\ UNCHANGED <<copying, copy, since>>

Publish ==
  /\ unwritten = {} /\ published < MaxTimes
  /\ published' = published + 1
  /\ unwritten' = Cells
  /\ UNCHANGED <<text, copying, copy, since>>

WriteCell ==
  /\ \E cell \in unwritten :
       /\ text' = [text EXCEPT ![cell] = published]
       /\ unwritten' = unwritten \ {cell}
  /\ UNCHANGED <<published, copying, copy, since>>
-----------------------------------------------------------------------------
(* The receiver thread.                                                    *)

BeginCopy ==
  /\ ~copying
  /\ copying' = TRUE
  /\ copy' = <<>>
  /\ since' = IF unwritten = {} THEN published ELSE published - 1
  /\ UNCHANGED <<text, published, unwritten>>

CopyCell == LET cell == Len(copy) + 1 IN
  /\ copying
  /\ IF IsZero(cell) THEN copying' = FALSE /\ UNCHANGED copy
                     ELSE copy' = Append(copy, text[cell]) /\ UNCHANGED copying
  /\ UNCHANGED <<text, published, unwritten, since>>

Next == Publish \/ WriteCell \/ BeginCopy \/ CopyCell

Spec == Init /\ [][Next]_vars
-----------------------------------------------------------------------------
(* Properties.                                                             *)

TypeOK ==
  /\ text \in [Cells -> 0 .. MaxTimes]
  /\ published \in 0 .. MaxTimes
  /\ unwritten \in SUBSET Cells
  /\ copying \in BOOLEAN
  /\ copy \in Seq(1 .. MaxTimes) /\ Len(copy) <= TimeLength
  /\ since \in 0 .. MaxTimes

\* A reply to a query for a time, however many times are published while it
\* is copied, has the length of a time, and none of its characters is older
\* than the last time that was complete when the query was served; only while
\* the first time is being written may the reply be shorter.
CopyIsATime ==
  /\ ~copying /\ since > 0 => Len(copy) = TimeLength
  /\ \A j \in 1 .. Len(copy) : copy[j] \in since .. published

\* In a reply, what comes later may be newer by any number of publications,
\* but it is older by one at most.
OneTimeBackAtMost ==
  \A j, k \in 1 .. Len(copy) : j < k => copy[k] + 1 >= copy[j]
==============================================================================
