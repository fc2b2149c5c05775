--------------------------- MODULE Published_proofs ---------------------------
(***************************************************************************)
(* The theorems of Published, for every length of a time and any number    *)
(* of publications.                                                        *)
(***************************************************************************)
EXTENDS Published, SequenceTheorems, TLAPS

(* The text is made of the last two publications.  While a copy goes on,   *)
(* no character of the text is older than the time that was complete when  *)
(* it began.                                                               *)
TextIsRecent ==
  /\ published = 0 => unwritten = {}
  /\ \A cell \in Cells :
       /\ text[cell] <= published /\ published <= text[cell] + 1
       /\ cell \notin unwritten => text[cell] = published

CompleteStays == \A cell \in Cells : text[cell] >= since

IInv == /\ TypeOK /\ TextIsRecent /\ CompleteStays
        /\ CopyIsATime /\ OneTimeBackAtMost

\* Everything holds of the zeroed parameters.
LEMMA InitInv == Init => IInv
<1> USE TimeAssumption DEF TimeAssumption
<1> SUFFICES ASSUME Init PROVE IInv
  OBVIOUS
<1>1. TypeOK
  <2>1. copy \in Seq(1 .. MaxTimes) /\ Len(copy) = 0
    BY EmptySeq DEF Init
  <2>2. /\ text \in [Cells -> 0 .. MaxTimes] /\ published \in 0 .. MaxTimes
        /\ unwritten \in SUBSET Cells /\ since \in 0 .. MaxTimes
    BY DEF Init
  <2>3. copying \in BOOLEAN
    BY DEF Init
  <2> QED
    BY <2>1, <2>2, <2>3 DEF TypeOK
<1>2. TextIsRecent /\ CompleteStays
  BY DEF Init, TextIsRecent, CompleteStays, Cells
<1>3. CopyIsATime /\ OneTimeBackAtMost
  BY DEF Init, CopyIsATime, OneTimeBackAtMost
<1> QED
  BY <1>1, <1>2, <1>3 DEF IInv

\* The next character of a copy is not zero only inside a time, and it is at
\* most one publication older than those before it.
LEMMA CopyStep == IInv /\ CopyCell => IInv'
<1> USE TimeAssumption DEF TimeAssumption
<1> SUFFICES ASSUME IInv, CopyCell PROVE IInv'
  OBVIOUS
<1> DEFINE cell == Len(copy) + 1
<1>1. /\ TypeOK /\ TextIsRecent /\ CompleteStays /\ CopyIsATime
      /\ OneTimeBackAtMost /\ copying
      /\ UNCHANGED <<text, published, unwritten, since>>
  BY DEF IInv, CopyCell
<1>2. cell \in Cells /\ copy \in Seq(1 .. MaxTimes) /\ text[cell] \in 0 .. MaxTimes
  <2>1. copy \in Seq(1 .. MaxTimes) /\ Len(copy) \in Nat /\ Len(copy) <= TimeLength
    BY <1>1 DEF TypeOK
  <2> QED
    BY <2>1, <1>1 DEF TypeOK, Cells
<1>3. TextIsRecent' /\ CompleteStays'
  BY <1>1 DEF TextIsRecent, CompleteStays
<1>4. CASE IsZero(cell)
  <2>1. copying' = FALSE /\ copy' = copy
    BY <1>4 DEF CopyCell
  <2>2. TypeOK'
    BY <1>1, <2>1 DEF TypeOK
  <2>3. CopyIsATime'
    <3>1. since > 0 => text[cell] # 0
      BY <1>1, <1>2 DEF CompleteStays, TypeOK
    <3>2. since' > 0 => Len(copy') = TimeLength
      BY <3>1, <1>1, <1>2, <1>4, <2>1 DEF IsZero
    <3> QED
      BY <3>2, <1>1, <2>1 DEF CopyIsATime
  <2>4. OneTimeBackAtMost'
    BY <1>1, <2>1 DEF OneTimeBackAtMost
  <2> QED
    BY <1>3, <2>2, <2>3, <2>4 DEF IInv
<1>5. CASE ~IsZero(cell)
  <2>1. copying' = copying /\ copy' = Append(copy, text[cell])
    BY <1>5 DEF CopyCell
  <2>2. text[cell] \in 1 .. MaxTimes /\ cell <= TimeLength
    BY <1>2, <1>5 DEF IsZero, Cells
  <2>3. /\ copy' \in Seq(1 .. MaxTimes) /\ Len(copy') = cell
        /\ copy'[cell] = text[cell]
        /\ \A j \in 1 .. Len(copy) : copy'[j] = copy[j]
    BY <2>1, <2>2, <1>2
  <2>4. TypeOK'
    BY <1>1, <2>1, <2>2, <2>3 DEF TypeOK
  <2>5. \A j \in 1 .. cell : j # cell => j \in 1 .. Len(copy)
    BY <1>2
  <2>6. /\ text[cell] <= published /\ published <= text[cell] + 1
        /\ text[cell] >= since /\ published \in Nat /\ since \in Nat
    BY <1>1, <1>2 DEF TextIsRecent, CompleteStays, TypeOK
  <2>7. \A j \in 1 .. Len(copy) : copy[j] \in since .. published
    BY <1>1 DEF CopyIsATime
  <2>8. CopyIsATime'
    <3>1. text[cell] \in since .. published
      BY <2>2, <2>6
    <3>2. \A j \in 1 .. cell : copy'[j] \in since .. published
      BY <3>1, <2>3, <2>5, <2>7
    <3> QED
      BY <3>2, <1>1, <2>1, <2>3 DEF CopyIsATime
  <2>9. OneTimeBackAtMost'
    <3> SUFFICES ASSUME NEW j \in 1 .. cell, NEW k \in 1 .. cell, j < k
                 PROVE  copy'[k] + 1 >= copy'[j]
      BY <2>3 DEF OneTimeBackAtMost
    <3>1. j \in 1 .. Len(copy) /\ copy'[j] = copy[j] /\ copy[j] \in Nat
      BY <1>2, <2>3
    <3>2. CASE k = cell
      <4>1. copy'[k] = text[cell]
        BY <2>3, <3>2
      <4>2. copy[j] <= published
        BY <2>6, <2>7, <3>1
      <4>3. published \in Nat /\ text[cell] \in Nat
        BY <2>2, <2>6
      <4> QED
        BY <2>6, <3>1, <4>1, <4>2, <4>3
    <3>3. CASE k # cell
      BY <3>1, <3>3, <2>3, <2>5, <1>1 DEF OneTimeBackAtMost
    <3> QED
      BY <3>2, <3>3
  <2> QED
    BY <1>3, <2>4, <2>8, <2>9 DEF IInv
<1> QED
  BY <1>4, <1>5

\* One step per action of the pulse thread and of the receiver.
LEMMA StepInv == IInv /\ [Next]_vars => IInv'
<1> USE TimeAssumption DEF TimeAssumption
<1> SUFFICES ASSUME IInv, [Next]_vars PROVE IInv'
  OBVIOUS
<1>1. CASE Publish
  <2>1. /\ published' = published + 1 /\ unwritten' = Cells /\ unwritten = {}
        /\ published < MaxTimes
        /\ UNCHANGED <<text, copying, copy, since>>
    BY <1>1 DEF Publish
  <2>2. TypeOK'
    BY <2>1 DEF IInv, TypeOK
  <2>3. TextIsRecent'
    BY <2>1 DEF IInv, TypeOK, TextIsRecent
  <2>4. CompleteStays' /\ OneTimeBackAtMost'
    BY <2>1 DEF IInv, CompleteStays, OneTimeBackAtMost
  <2>5. CopyIsATime'
    BY <2>1 DEF IInv, TypeOK, CopyIsATime
  <2> QED
    BY <2>2, <2>3, <2>4, <2>5 DEF IInv
<1>2. CASE WriteCell
  <2>1. PICK c \in unwritten : /\ text' = [text EXCEPT ![c] = published]
                               /\ unwritten' = unwritten \ {c}
    BY <1>2 DEF WriteCell
  <2>2. UNCHANGED <<published, copying, copy, since>>
    BY <1>2 DEF WriteCell
  <2>3. c \in Cells /\ published \in 0 .. MaxTimes
    BY DEF IInv, TypeOK
  <2>4. TypeOK'
    BY <2>1, <2>2, <2>3 DEF IInv, TypeOK
  <2>5. TextIsRecent'
    BY <2>1, <2>2, <2>3 DEF IInv, TypeOK, TextIsRecent
  <2>6. CompleteStays'
    <3> SUFFICES ASSUME NEW cell \in Cells PROVE text'[cell] >= since
      BY <2>2 DEF CompleteStays
    <3>1. /\ text[cell] >= since /\ text[cell] <= published
          /\ text[cell] \in Nat /\ since \in Nat
      BY DEF IInv, TypeOK, CompleteStays, TextIsRecent
    <3> QED
      BY <3>1, <2>1, <2>3 DEF IInv, TypeOK
  <2>7. CopyIsATime' /\ OneTimeBackAtMost'
    BY <2>2 DEF IInv, CopyIsATime, OneTimeBackAtMost
  <2> QED
    BY <2>4, <2>5, <2>6, <2>7 DEF IInv
<1>3. CASE BeginCopy
  <2>1. /\ copying' /\ copy' = <<>> /\ Len(copy') = 0
        /\ since' = IF unwritten = {} THEN published ELSE published - 1
        /\ UNCHANGED <<text, published, unwritten>>
    BY <1>3 DEF BeginCopy
  <2>6. since' \in 0 .. MaxTimes
    <3>1. unwritten # {} => published > 0
      BY DEF IInv, TypeOK, TextIsRecent
    <3> QED
      BY <2>1, <3>1 DEF IInv, TypeOK
  <2>2. TypeOK'
    BY <2>1, <2>6, EmptySeq DEF IInv, TypeOK
  <2>3. TextIsRecent'
    BY <2>1 DEF IInv, TextIsRecent
  <2>4. CompleteStays'
    <3> SUFFICES ASSUME NEW cell \in Cells PROVE text[cell] >= since'
      BY <2>1 DEF CompleteStays
    <3>1. text[cell] \in Nat /\ published \in Nat /\ published <= text[cell] + 1
      BY DEF IInv, TypeOK, TextIsRecent
    <3>2. unwritten = {} => text[cell] = published
      BY DEF IInv, TextIsRecent
    <3> QED
      BY <2>1, <3>1, <3>2
  <2>5. CopyIsATime' /\ OneTimeBackAtMost'
    BY <2>1 DEF CopyIsATime, OneTimeBackAtMost
  <2> QED
    BY <2>2, <2>3, <2>4, <2>5 DEF IInv
<1>4. CASE CopyCell
  BY <1>4, CopyStep
<1>5. CASE UNCHANGED vars
  BY <1>5 DEF vars, IInv, TypeOK, TextIsRecent, CompleteStays,
              CopyIsATime, OneTimeBackAtMost
<1> QED
  BY <1>1, <1>2, <1>3, <1>4, <1>5 DEF Next

\* All of it is invariant.
LEMMA PublishedInvariant == Spec => []IInv
BY InitInv, StepInv, PTL DEF Spec

\* The published time and its copies keep their types: no copy runs past the
\* end of the time.
THEOREM TypeCorrect == Spec => []TypeOK
BY PublishedInvariant, PTL DEF IInv

\* A reply to a query for a time has the length of a time, unless the first
\* one was not complete when it was asked for, and each of its characters is
\* from that time that was complete, or from one published since.
THEOREM CopyCorrect == Spec => []CopyIsATime
BY PublishedInvariant, PTL DEF IInv

\* In a reply no character is older by more than one publication than one
\* before it.
THEOREM OrderCorrect == Spec => []OneTimeBackAtMost
BY PublishedInvariant, PTL DEF IInv
===============================================================================
