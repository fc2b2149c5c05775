--------------------------- MODULE Lifecycle_proofs ---------------------------
(***************************************************************************)
(* The theorems of Lifecycle, for any number of processes, starts and      *)
(* requests in the queue.                                                  *)
(***************************************************************************)
EXTENDS Lifecycle, SequenceTheorems, TLAPS

(* Without an overlap at most one process is alive.                        *)
AtMostOne ==
  "overlap" \notin abnormal =>
    \A p, q \in Procs : Alive(p) /\ Alive(q) => p = q

(* The queues that are there when nothing abnormal has happened.           *)
Expected(state) ==
  CASE state.main \in {"off", "SEND"} -> {}
    [] state.main = "RECV" -> {"SEND"}
    [] state.main = "ACK"  -> {"SEND", "RECV"}
    [] state.main = "running" /\ state.handler \in {"none", "RECV"} -> Keys
    [] state.main = "running" /\ state.handler = "SEND" -> {"SEND", "ACK"}
    [] state.main = "running" /\ state.handler = "ACK"  -> {"ACK"}

Live == {key \in Keys : live[key]}

Orderly ==
  abnormal = {} =>
    /\ \A p \in Procs : Alive(p) => Live = Expected(proc[p])
    /\ (\A p \in Procs : ~Alive(p)) => Live = {}
    /\ \A p \in Procs : proc[p].main # "running" => proc[p].handler = "none"

(* As long as every process ends by its handler and alone, the queue of    *)
(* the requests goes before the process does, so that what is in it was    *)
(* sent to the process that is alive.                                      *)
Tidy == abnormal \cap {"abort", "overlap"} = {}

RequestsAreNew ==
  Tidy =>
    /\ (\A p \in Procs : ~Alive(p)) => ~live["RECV"]
    /\ \A p \in Procs : Alive(p) =>
         /\ proc[p].handler \in {"SEND", "ACK"} => ~live["RECV"]
         /\ \A k \in 1 .. Len(requests) : requests[k] >= proc[p].since

SinceBounded == \A p \in Procs : proc[p].since <= starts

IInv == /\ TypeOK /\ AtMostOne /\ Orderly /\ RequestsAreNew /\ SinceBounded
        /\ OldRequestsNeedAbort /\ ThreadsUseLiveQueues

LEMMA KeyNames == Keys = {"SEND", "RECV", "ACK"} /\ "RECV" \in Keys
BY DEF Keys

LEMMA StateOff == /\ Off \in ProcStates /\ Off.main = "off"
                  /\ Off.handler = "none" /\ Off.since = 0
                  /\ Off.flag_trap = "unset"
                  /\ Off.msgid = [key \in Keys |-> "unset"]
BY LifeAssumption DEF LifeAssumption, Off, Started, ProcStates, Keys

LEMMA StateStarted ==
  ASSUME NEW n \in 0 .. MaxStarts
  PROVE  /\ Started(n) \in ProcStates /\ Started(n).main = "SEND"
         /\ Started(n).handler = "none" /\ Started(n).since = n
         /\ Started(n).flag_trap = "unset"
         /\ Started(n).msgid = [key \in Keys |-> "unset"]
BY LifeAssumption DEF LifeAssumption, Started, ProcStates, Keys

\* Nothing is alive at first.
LEMMA InitInv == Init => IInv
<1> USE LifeAssumption DEF LifeAssumption
<1> SUFFICES ASSUME Init PROVE IInv
  OBVIOUS
<1>1. \A p \in Procs : proc[p] = Off /\ ~Alive(p)
  BY StateOff DEF Init, Alive
<1>2. TypeOK
  <2>1. requests \in Seq(0 .. MaxStarts) /\ Len(requests) = 0
    BY EmptySeq DEF Init
  <2>2. proc \in [Procs -> ProcStates]
    BY StateOff DEF Init
  <2>3. live \in [Keys -> BOOLEAN]
    BY DEF Init
  <2> QED
    BY <1>1, <2>1, <2>2, <2>3, StateOff DEF Init, TypeOK, Causes
<1>3. AtMostOne /\ Orderly
  BY <1>1, StateOff DEF Init, AtMostOne, Orderly, Live
<1>4. RequestsAreNew /\ SinceBounded
  BY <1>1, StateOff, KeyNames DEF Init, RequestsAreNew, SinceBounded
<1>5. OldRequestsNeedAbort /\ ThreadsUseLiveQueues
  BY <1>1, StateOff DEF OldRequestsNeedAbort, ThreadsUseLiveQueues
<1> QED
  BY <1>2, <1>3, <1>4, <1>5 DEF IInv

LEMMA StartStep ==
  ASSUME IInv, NEW p \in Procs, Start(p)
  PROVE  IInv'
<1> USE LifeAssumption DEF LifeAssumption
<1>1. /\ starts' = starts + 1 /\ starts' \in 0 .. MaxStarts /\ ~Alive(p)
      /\ proc' = [proc EXCEPT ![p] = Started(starts')]
      /\ UNCHANGED <<live, requests>> /\ starts \in Nat
  BY DEF Start, queues, IInv, TypeOK
<1>2. /\ proc'[p] = Started(starts')
      /\ \A q \in Procs : q # p => proc'[q] = proc[q]
      /\ proc' \in [Procs -> ProcStates]
  BY <1>1, StateStarted DEF IInv, TypeOK
<1>3. /\ abnormal \subseteq abnormal' /\ abnormal' \in SUBSET Causes
      /\ "overlap" \notin abnormal' => \A q \in Procs : ~Alive(q)
  BY <1>1 DEF Start, IInv, TypeOK, Causes
<1>4. TypeOK'
  BY <1>1, <1>2, <1>3, StateStarted DEF IInv, TypeOK
<1>5. AtMostOne'
  BY <1>2, <1>3 DEF AtMostOne, Alive
<1>6. Orderly'
  <2> SUFFICES ASSUME abnormal' = {}
               PROVE  /\ \A q \in Procs : Alive(q)' => Live' = Expected(proc[q])'
                      /\ (\A q \in Procs : ~Alive(q)') => Live' = {}
                      /\ \A q \in Procs : (proc[q].main # "running")'
                                            => (proc[q].handler = "none")'
    BY DEF Orderly
  <2>1. /\ abnormal = {} /\ Live = {} /\ Live' = Live
        /\ \A q \in Procs : ~Alive(q)
    BY <1>1, <1>3 DEF IInv, Orderly, Live
  <2>2. Expected(proc'[p]) = {}
    BY <1>1, <1>2, StateStarted DEF Expected
  <2> QED
    BY <1>1, <1>2, <2>1, <2>2, StateStarted DEF IInv, Orderly, Alive
<1>7. RequestsAreNew'
  <2> SUFFICES ASSUME Tidy' PROVE RequestsAreNew'
    BY DEF RequestsAreNew
  <2>1. Tidy /\ (\A q \in Procs : ~Alive(q)) /\ ~live["RECV"]
    BY <1>3 DEF Tidy, IInv, RequestsAreNew
  <2>2. requests = <<>> /\ Len(requests) = 0
    BY <2>1 DEF IInv, TypeOK
  <2> QED
    BY <1>1, <1>2, <2>1, <2>2, StateStarted DEF RequestsAreNew, Alive
<1>8. SinceBounded'
  BY <1>1, <1>2, StateStarted DEF IInv, TypeOK, SinceBounded, ProcStates
<1>9. OldRequestsNeedAbort' /\ ThreadsUseLiveQueues'
  BY <1>1, <1>2, <1>3, StateStarted
     DEF IInv, OldRequestsNeedAbort, ThreadsUseLiveQueues
<1> QED
  BY <1>4, <1>5, <1>6, <1>7, <1>8, <1>9 DEF IInv

LEMMA CreateStep ==
  ASSUME IInv, NEW p \in Procs, Create(p)
  PROVE  IInv'
<1> USE LifeAssumption DEF LifeAssumption
<1> DEFINE key == proc[p].main
<1>1. /\ key \in Keys /\ proc[p].handler = "none" /\ Alive(p)
      /\ proc' = [proc EXCEPT ![p].main = CreateOrder(key)]
      /\ live' = [live EXCEPT ![key] = TRUE]
      /\ UNCHANGED <<requests, starts, abnormal>>
  BY DEF Create, queues, IInv, TypeOK, Alive, Keys
<1>2. CreateOrder(key) \in {"RECV", "ACK", "running"}
  BY <1>1 DEF CreateOrder, Keys
<1>3. /\ proc[p] \in ProcStates
      /\ proc'[p] = [proc[p] EXCEPT !.main = CreateOrder(key)]
      /\ \A q \in Procs : q # p => proc'[q] = proc[q]
  BY <1>1 DEF IInv, TypeOK
<1>4. /\ proc'[p] \in ProcStates /\ proc'[p].main = CreateOrder(key)
      /\ proc'[p].handler = "none" /\ proc'[p].since = proc[p].since
      /\ proc'[p].msgid = proc[p].msgid
      /\ proc'[p].flag_trap = proc[p].flag_trap
      /\ proc' \in [Procs -> ProcStates]
  BY <1>1, <1>2, <1>3 DEF ProcStates, Keys, IInv, TypeOK
<1>5. /\ proc[p].msgid = [k \in Keys |-> "unset"]
      /\ proc[p].flag_trap = "unset"
  BY <1>1 DEF IInv, TypeOK, Keys
<1>6. /\ live' \in [Keys -> BOOLEAN] /\ live'[key]
      /\ \A k \in Keys : (live[k] => live'[k]) /\ (k # key => live'[k] = live[k])
  BY <1>1 DEF IInv, TypeOK
<1>7. \A q \in Procs : Alive(q)' <=> Alive(q)
  BY <1>1, <1>2, <1>3, <1>4 DEF Alive
<1>8. TypeOK'
  BY <1>1, <1>3, <1>4, <1>5, <1>6, KeyNames DEF IInv, TypeOK
<1>9. AtMostOne'
  BY <1>1, <1>7 DEF IInv, AtMostOne
<1>10. Orderly'
  <2> SUFFICES ASSUME abnormal = {}
               PROVE  /\ \A q \in Procs : Alive(q) => Live' = Expected(proc'[q])
                      /\ \A q \in Procs : proc'[q].main # "running"
                                            => proc'[q].handler = "none"
    BY <1>1, <1>7 DEF Orderly
  <2>1. Live = Expected(proc[p]) /\ \A q \in Procs : Alive(q) => q = p
    BY <1>1 DEF IInv, Orderly, AtMostOne
  <2>2. Live' = Live \cup {key}
    BY <1>1, <1>6 DEF Live
  <2>3. Expected(proc'[p]) = Expected(proc[p]) \cup {key}
    <3>1. proc'[p].main = CreateOrder(proc[p].main)
          /\ proc'[p].handler = "none" /\ proc[p].handler = "none"
          /\ key = proc[p].main
      BY <1>1, <1>4
    <3>2. CASE key = "SEND"
      BY <3>1, <3>2 DEF Expected, CreateOrder
    <3>3. CASE key = "RECV"
      BY <3>1, <3>3 DEF Expected, CreateOrder
    <3>4. CASE key = "ACK"
      BY <3>1, <3>4 DEF Expected, CreateOrder, Keys
    <3> HIDE DEF key
    <3> QED
      BY <1>1, <3>2, <3>3, <3>4, KeyNames
  <2>4. \A q \in Procs : proc[q].main # "running" => proc[q].handler = "none"
    BY DEF IInv, Orderly
  <2>5. \A q \in Procs : Alive(q) => Live' = Expected(proc'[q])
    BY <2>1, <2>2, <2>3
  <2>6. \A q \in Procs : proc'[q].main # "running"
                           => proc'[q].handler = "none"
    <3> TAKE q \in Procs
    <3>1. CASE q = p
      BY <1>4, <2>4, <3>1
    <3>2. CASE q # p
      BY <1>3, <2>4, <3>2
    <3> QED
      BY <3>1, <3>2
  <2> QED
    BY <2>5, <2>6
<1>11. RequestsAreNew'
  BY <1>1, <1>3, <1>4, <1>7 DEF IInv, RequestsAreNew, Tidy, AtMostOne
<1>12. SinceBounded' /\ OldRequestsNeedAbort'
  BY <1>1, <1>3, <1>4 DEF IInv, SinceBounded, OldRequestsNeedAbort
<1>13. ThreadsUseLiveQueues'
  BY <1>1, <1>3, <1>4, <1>5, <1>6 DEF IInv, ThreadsUseLiveQueues
<1> QED
  BY <1>8, <1>9, <1>10, <1>11, <1>12, <1>13 DEF IInv

LEMMA ThreadMsggetStep ==
  ASSUME IInv, NEW p \in Procs, NEW key \in Keys, ThreadMsgget(p, key)
  PROVE  IInv'
<1> USE LifeAssumption DEF LifeAssumption
<1>1. /\ proc[p].main = "running" /\ live[key] /\ proc[p] \in ProcStates
      /\ proc' = [proc EXCEPT ![p].msgid[key] = "live"]
      /\ UNCHANGED <<live, requests, starts, abnormal>>
  BY DEF ThreadMsgget, queues, IInv, TypeOK
<1>2. /\ proc'[p] = [proc[p] EXCEPT !.msgid = [proc[p].msgid EXCEPT ![key] = "live"]]
      /\ \A q \in Procs : q # p => proc'[q] = proc[q]
  BY <1>1 DEF IInv, TypeOK
<1>3. /\ proc'[p] \in ProcStates /\ proc'[p].main = "running"
      /\ proc'[p].handler = proc[p].handler /\ proc'[p].since = proc[p].since
      /\ proc'[p].flag_trap = proc[p].flag_trap
      /\ proc'[p].msgid = [proc[p].msgid EXCEPT ![key] = "live"]
  BY <1>1, <1>2 DEF ProcStates
<1>4. proc' \in [Procs -> ProcStates]
  BY <1>1, <1>2, <1>3 DEF IInv, TypeOK
<1>5. \A q \in Procs : /\ Alive(q)' <=> Alive(q)
                       /\ proc'[q].main = proc[q].main
                       /\ proc'[q].handler = proc[q].handler
                       /\ proc'[q].since = proc[q].since
                       /\ proc'[q].flag_trap = proc[q].flag_trap
  BY <1>1, <1>2, <1>3 DEF Alive
<1>6. TypeOK'
  BY <1>1, <1>2, <1>3, <1>4 DEF IInv, TypeOK
<1>7. AtMostOne' /\ SinceBounded' /\ OldRequestsNeedAbort'
  BY <1>1, <1>5 DEF IInv, AtMostOne, SinceBounded, OldRequestsNeedAbort
<1>8. Orderly'
  <2>1. \A q \in Procs : Expected(proc'[q]) = Expected(proc[q])
    BY <1>5 DEF Expected
  <2> QED
    BY <1>1, <1>5, <2>1 DEF IInv, Orderly, Live
<1>9. RequestsAreNew'
  BY <1>1, <1>5 DEF IInv, RequestsAreNew, Tidy
<1>10. ThreadsUseLiveQueues'
  <2>1. \A k \in Keys : proc'[p].msgid[k] = IF k = key THEN "live" ELSE proc[p].msgid[k]
    BY <1>1, <1>3 DEF ProcStates
  <2> QED
    BY <1>1, <1>2, <1>3, <2>1 DEF IInv, ThreadsUseLiveQueues
<1> QED
  BY <1>6, <1>7, <1>8, <1>9, <1>10 DEF IInv

LEMMA AgentSendStep ==
  ASSUME IInv, AgentSend
  PROVE  IInv'
<1> USE LifeAssumption DEF LifeAssumption
<1>1. /\ live["RECV"] /\ Len(requests) < RecvRoom
      /\ requests' = Append(requests, starts)
      /\ UNCHANGED <<live, starts, proc, abnormal>>
      /\ requests \in Seq(0 .. MaxStarts) /\ starts \in 0 .. MaxStarts
  BY DEF AgentSend, IInv, TypeOK
<1>2. /\ requests' \in Seq(0 .. MaxStarts) /\ Len(requests') = Len(requests) + 1
      /\ \A k \in 1 .. Len(requests') :
           requests'[k] = IF k = Len(requests) + 1 THEN starts ELSE requests[k]
  BY <1>1
<1>3. Len(requests') <= RecvRoom
  BY <1>1, <1>2
<1>4. TypeOK'
  BY <1>1, <1>2, <1>3 DEF IInv, TypeOK
<1>5. AtMostOne' /\ Orderly' /\ SinceBounded' /\ OldRequestsNeedAbort'
      /\ ThreadsUseLiveQueues'
  BY <1>1 DEF IInv, AtMostOne, Orderly, SinceBounded, OldRequestsNeedAbort,
              ThreadsUseLiveQueues, Alive, Live
<1>6. RequestsAreNew'
  <2> SUFFICES ASSUME Tidy, NEW q \in Procs, Alive(q), NEW k \in 1 .. Len(requests')
               PROVE  requests'[k] >= proc[q].since
    BY <1>1 DEF IInv, RequestsAreNew, Tidy, Alive
  <2>1. proc[q].since <= starts /\ proc[q].since \in Nat
    BY DEF IInv, TypeOK, SinceBounded, ProcStates
  <2>2. k # Len(requests) + 1 => k \in 1 .. Len(requests)
    BY <1>1, <1>2
  <2> QED
    BY <1>1, <1>2, <2>1, <2>2 DEF IInv, RequestsAreNew
<1> QED
  BY <1>4, <1>5, <1>6 DEF IInv

LEMMA ServeStep ==
  ASSUME IInv, NEW p \in Procs, Serve(p)
  PROVE  IInv'
<1> USE LifeAssumption DEF LifeAssumption
<1> DEFINE seen == IF Head(requests) < proc[p].since THEN "old" ELSE "new"
<1>1. /\ proc[p].main = "running" /\ requests # <<>> /\ requests' = Tail(requests)
      /\ requests \in Seq(0 .. MaxStarts) /\ proc[p] \in ProcStates
      /\ UNCHANGED <<live, starts, abnormal>> /\ Alive(p)
      /\ \/ UNCHANGED proc
         \/ proc' = [proc EXCEPT ![p].flag_trap = seen]
  BY DEF Serve, queues, IInv, TypeOK, Alive
<1>2. /\ requests' \in Seq(0 .. MaxStarts) /\ Len(requests') = Len(requests) - 1
      /\ \A k \in 1 .. Len(requests') : requests'[k] = requests[k + 1]
      /\ Len(requests) \in Nat /\ Len(requests) >= 1
      /\ Head(requests) = requests[1] /\ Head(requests) \in Nat
  BY <1>1
<1>3. /\ proc' \in [Procs -> ProcStates]
      /\ \A q \in Procs : /\ Alive(q)' <=> Alive(q)
                          /\ proc'[q].main = proc[q].main
                          /\ proc'[q].handler = proc[q].handler
                          /\ proc'[q].since = proc[q].since
                          /\ proc'[q].msgid = proc[q].msgid
      /\ \A q \in Procs : q # p => proc'[q] = proc[q]
      /\ proc'[p].flag_trap \in {proc[p].flag_trap, seen}
  <2>1. CASE UNCHANGED proc
    BY <2>1 DEF IInv, TypeOK, Alive
  <2>2. CASE proc' = [proc EXCEPT ![p].flag_trap = seen]
    <3>1. /\ proc'[p] = [proc[p] EXCEPT !.flag_trap = seen]
          /\ \A q \in Procs : q # p => proc'[q] = proc[q]
      BY <2>2 DEF IInv, TypeOK
    <3>2. /\ proc'[p] \in ProcStates /\ proc'[p].flag_trap = seen
          /\ proc'[p].main = proc[p].main /\ proc'[p].handler = proc[p].handler
          /\ proc'[p].since = proc[p].since /\ proc'[p].msgid = proc[p].msgid
      BY <1>1, <3>1 DEF ProcStates
    <3> QED
      BY <2>2, <3>1, <3>2 DEF IInv, TypeOK, Alive
  <2> QED
    BY <1>1, <2>1, <2>2
<1>4. live["RECV"]
  BY <1>1 DEF IInv, TypeOK
<1>5. TypeOK'
  BY <1>1, <1>2, <1>3, <1>4 DEF IInv, TypeOK
<1>6. AtMostOne' /\ SinceBounded' /\ ThreadsUseLiveQueues'
  BY <1>1, <1>3 DEF IInv, AtMostOne, SinceBounded, ThreadsUseLiveQueues
<1>7. Orderly'
  <2>1. \A q \in Procs : Expected(proc'[q]) = Expected(proc[q])
    BY <1>3 DEF Expected
  <2> QED
    BY <1>1, <1>3, <2>1 DEF IInv, Orderly, Live
<1>8. RequestsAreNew'
  BY <1>1, <1>2, <1>3 DEF IInv, RequestsAreNew, Tidy
<1>9. OldRequestsNeedAbort'
  <2>1. Tidy => seen # "old"
    <3> SUFFICES ASSUME Tidy PROVE Head(requests) >= proc[p].since
      BY <1>1, <1>2 DEF ProcStates
    <3> QED
      BY <1>1, <1>2 DEF IInv, RequestsAreNew
  <2> QED
    BY <1>1, <1>3, <2>1 DEF IInv, OldRequestsNeedAbort, Tidy
<1> QED
  BY <1>5, <1>6, <1>7, <1>8, <1>9 DEF IInv

LEMMA SignalStep ==
  ASSUME IInv, NEW p \in Procs, Signal(p)
  PROVE  IInv'
<1> USE LifeAssumption DEF LifeAssumption
<1>1. /\ Alive(p) /\ proc[p] \in ProcStates
      /\ proc' = [proc EXCEPT ![p].handler = "RECV"]
      /\ UNCHANGED <<live, requests, starts>>
  BY DEF Signal, FirstQueue, queues, IInv, TypeOK
<1>2. /\ abnormal \subseteq abnormal' /\ abnormal' \in SUBSET Causes
      /\ abnormal' \subseteq abnormal \cup {"bad signal"}
      /\ abnormal' = {} => proc[p].main = "running" /\ proc[p].handler = "none"
  BY DEF Signal, IInv, TypeOK, Causes
<1>3. /\ proc'[p] = [proc[p] EXCEPT !.handler = "RECV"]
      /\ \A q \in Procs : q # p => proc'[q] = proc[q]
  BY <1>1 DEF IInv, TypeOK
<1>4. /\ proc'[p] \in ProcStates /\ proc'[p].handler = "RECV"
      /\ proc'[p].main = proc[p].main /\ proc'[p].since = proc[p].since
      /\ proc'[p].msgid = proc[p].msgid
      /\ proc'[p].flag_trap = proc[p].flag_trap
      /\ proc' \in [Procs -> ProcStates]
  BY <1>1, <1>3 DEF ProcStates, Keys, IInv, TypeOK
<1>5. \A q \in Procs : Alive(q)' <=> Alive(q)
  BY <1>3, <1>4 DEF Alive
<1>6. TypeOK'
  BY <1>1, <1>2, <1>3, <1>4 DEF IInv, TypeOK
<1>7. AtMostOne' /\ SinceBounded' /\ OldRequestsNeedAbort'
  <2>1. AtMostOne'
    BY <1>2, <1>5 DEF IInv, AtMostOne
  <2>2. SinceBounded' /\ OldRequestsNeedAbort'
    BY <1>1, <1>2, <1>3, <1>4 DEF IInv, SinceBounded, OldRequestsNeedAbort
  <2> QED
    BY <2>1, <2>2
<1>8. Orderly'
  <2> SUFFICES ASSUME abnormal' = {}
               PROVE  /\ \A q \in Procs : Alive(q) => Live' = Expected(proc'[q])
                      /\ \A q \in Procs : proc'[q].main # "running"
                                            => proc'[q].handler = "none"
    BY <1>1, <1>5 DEF Orderly
  <2>1. /\ abnormal = {} /\ Live' = Live
        /\ proc[p].main = "running" /\ proc[p].handler = "none"
    BY <1>1, <1>2 DEF Live
  <2>2. Expected(proc'[p]) = Expected(proc[p])
    BY <1>4, <2>1 DEF Expected
  <2>3. /\ \A q \in Procs : Alive(q) => Live = Expected(proc[q])
        /\ \A q \in Procs : proc[q].main # "running"
                              => proc[q].handler = "none"
    BY <2>1 DEF IInv, Orderly
  <2>4. \A q \in Procs : Expected(proc'[q]) = Expected(proc[q])
    BY <1>3, <2>2
  <2>5. \A q \in Procs : proc'[q].main # "running"
                           => proc'[q].handler = "none"
    <3> TAKE q \in Procs
    <3>1. CASE q = p
      <4>1. proc'[p].main = "running"
        BY <1>4, <2>1
      <4> QED
        BY <3>1, <4>1
    <3>2. CASE q # p
      BY <1>3, <2>3, <3>2
    <3> QED
      BY <3>1, <3>2
  <2> QED
    BY <2>1, <2>3, <2>4, <2>5
<1>9. RequestsAreNew'
  <2>1. Tidy' => Tidy
    BY <1>2 DEF Tidy
  <2>2. live' = live /\ requests' = requests
    BY <1>1
  <2>3. \A q \in Procs : /\ proc'[q].since = proc[q].since
                         /\ \/ proc'[q].handler = proc[q].handler
                            \/ proc'[q].handler = "RECV"
    BY <1>3, <1>4
  <2> SUFFICES ASSUME Tidy'
               PROVE  /\ (\A q \in Procs : ~Alive(q)') => ~live'["RECV"]
                      /\ \A q \in Procs : Alive(q)' =>
                           /\ proc'[q].handler \in {"SEND", "ACK"}
                                => ~live'["RECV"]
                           /\ \A k \in 1 .. Len(requests') :
                                requests'[k] >= proc'[q].since
    BY DEF RequestsAreNew
  <2>4. /\ (\A q \in Procs : ~Alive(q)) => ~live["RECV"]
        /\ \A q \in Procs : Alive(q) =>
             /\ proc[q].handler \in {"SEND", "ACK"} => ~live["RECV"]
             /\ \A k \in 1 .. Len(requests) : requests[k] >= proc[q].since
    BY <2>1 DEF IInv, RequestsAreNew
  <2>5. (\A q \in Procs : ~Alive(q)') => ~live'["RECV"]
    BY <1>5, <2>2, <2>4
  <2>6. ASSUME NEW q \in Procs, Alive(q)'
        PROVE  /\ proc'[q].handler \in {"SEND", "ACK"} => ~live'["RECV"]
               /\ \A k \in 1 .. Len(requests') : requests'[k] >= proc'[q].since
    <3>1. Alive(q)
      BY <1>5, <2>6
    <3> QED
      BY <2>2, <2>3, <2>4, <3>1
  <2> QED
    BY <2>5, <2>6
<1>10. ThreadsUseLiveQueues'
  <2> SUFFICES ASSUME NEW q \in Procs, NEW key \in Keys,
                      proc'[q].main = "running", proc'[q].handler = "none",
                      "overlap" \notin abnormal', proc'[q].msgid[key] # "unset"
               PROVE  live'[key] /\ proc'[q].msgid[key] = "live"
    BY DEF ThreadsUseLiveQueues
  <2>1. q # p
    BY <1>4
  <2>2. proc'[q] = proc[q]
    BY <1>3, <2>1
  <2>3. "overlap" \notin abnormal
    BY <1>2
  <2>4. live[key] /\ proc[q].msgid[key] = "live"
    BY <2>2, <2>3 DEF IInv, ThreadsUseLiveQueues
  <2> QED
    BY <1>1, <2>2, <2>4
<1> QED
  BY <1>6, <1>7, <1>8, <1>9, <1>10 DEF IInv

\* Removing a queue changes nothing of a process but what its threads know of it.
LEMMA Removed ==
  ASSUME proc \in [Procs -> ProcStates], NEW key \in Keys, NEW q \in Procs
  PROVE  LET after == RemoveQueue(proc, key)[q] IN
         /\ after \in ProcStates /\ after.main = proc[q].main
         /\ after.handler = proc[q].handler
         /\ after.since = proc[q].since
         /\ after.flag_trap = proc[q].flag_trap
         /\ \A k \in Keys : proc[q].msgid[k] = "unset" => after.msgid[k] = "unset"
<1> DEFINE after == RemoveQueue(proc, key)[q]
<1>1. proc[q] \in ProcStates
  OBVIOUS
<1>2. after = IF proc[q].msgid[key] = "live"
              THEN [proc[q] EXCEPT !.msgid =
                      [proc[q].msgid EXCEPT ![key] = "removed"]]
              ELSE proc[q]
  BY <1>1 DEF RemoveQueue, ProcStates
<1> QED
  BY <1>1, <1>2 DEF ProcStates

\* What a step leaves intact that ends process p and changes of the others at
\* most what they know of the queues.
LEMMA ExitKeeps ==
  ASSUME IInv, NEW p \in Procs, Alive(p), starts' = starts,
         abnormal \subseteq abnormal', abnormal' \in SUBSET Causes,
         proc' \in [Procs -> ProcStates], proc'[p] = Off,
         \A q \in Procs \ {p} :
           /\ proc'[q].main = proc[q].main
           /\ proc'[q].since = proc[q].since
           /\ proc'[q].flag_trap = proc[q].flag_trap
           /\ \A k \in Keys : proc[q].msgid[k] = "unset"
                                => proc'[q].msgid[k] = "unset",
         live' \in [Keys -> BOOLEAN], requests' \in Seq(0 .. MaxStarts),
         Len(requests') <= RecvRoom, live'["RECV"] \/ requests' = <<>>
  PROVE  /\ TypeOK' /\ AtMostOne' /\ SinceBounded' /\ OldRequestsNeedAbort'
         /\ ~Alive(p)' /\ \A q \in Procs : q # p => (Alive(q)' <=> Alive(q))
         /\ "overlap" \notin abnormal => \A q \in Procs : ~Alive(q)'
         /\ ThreadsUseLiveQueues'
<1> USE LifeAssumption DEF LifeAssumption
<1>1. ~Alive(p)' /\ \A q \in Procs : q # p => (Alive(q)' <=> Alive(q))
  BY StateOff DEF Alive
<1>2. \A q \in Procs : proc'[q].main # "running" =>
        /\ proc'[q].msgid = [key \in Keys |-> "unset"]
        /\ proc'[q].flag_trap = "unset"
  <2> SUFFICES ASSUME NEW q \in Procs, proc'[q].main # "running"
               PROVE  /\ proc'[q].msgid = [key \in Keys |-> "unset"]
                      /\ proc'[q].flag_trap = "unset"
    OBVIOUS
  <2>1. CASE q = p
    BY <2>1, StateOff
  <2>2. CASE q # p
    <3>1. proc[q].main # "running" /\ proc'[q] \in ProcStates
      BY <2>2
    <3>2. /\ proc[q].msgid = [key \in Keys |-> "unset"]
          /\ proc[q].flag_trap = "unset"
      BY <3>1 DEF IInv, TypeOK
    <3>3. \A k \in Keys : proc'[q].msgid[k] = "unset"
      BY <2>2, <3>2
    <3>4. proc'[q].msgid = [key \in Keys |-> "unset"]
      BY <3>1, <3>3 DEF ProcStates
    <3> QED
      BY <2>2, <3>2, <3>4
  <2> QED
    BY <2>1, <2>2
<1>3. TypeOK'
  BY <1>1, <1>2 DEF IInv, TypeOK
<1>4. AtMostOne'
  BY <1>1 DEF IInv, AtMostOne
<1>5. SinceBounded' /\ OldRequestsNeedAbort'
  <2>1. SinceBounded'
    <3>1. starts \in Nat /\ proc'[p].since <= starts
      BY StateOff DEF IInv, TypeOK
    <3>2. \A q \in Procs \ {p} : proc'[q].since <= starts
      BY DEF IInv, SinceBounded
    <3> QED
      BY <3>1, <3>2 DEF SinceBounded
  <2>2. OldRequestsNeedAbort'
    BY <1>1, StateOff DEF IInv, OldRequestsNeedAbort
  <2> QED
    BY <2>1, <2>2
<1>6. "overlap" \notin abnormal => \A q \in Procs : ~Alive(q)'
  BY <1>1 DEF IInv, AtMostOne
<1>7. ThreadsUseLiveQueues'
  BY <1>6 DEF ThreadsUseLiveQueues, Alive
<1> QED
  BY <1>1, <1>3, <1>4, <1>5, <1>6, <1>7

LEMMA AbortStep ==
  ASSUME IInv, NEW p \in Procs, Abort(p)
  PROVE  IInv'
<1>1. /\ Alive(p) /\ proc' = Exit(p, proc) /\ abnormal' = abnormal \cup {"abort"}
      /\ UNCHANGED <<live, requests, starts>>
  BY DEF Abort, queues
<1>2. /\ TypeOK' /\ AtMostOne' /\ SinceBounded' /\ OldRequestsNeedAbort'
      /\ ThreadsUseLiveQueues'
  <2>1. abnormal' \in SUBSET Causes /\ abnormal \subseteq abnormal'
    BY <1>1 DEF IInv, TypeOK, Causes
  <2>2. /\ live' \in [Keys -> BOOLEAN] /\ requests' \in Seq(0 .. MaxStarts)
        /\ Len(requests') <= RecvRoom
        /\ live'["RECV"] \/ requests' = <<>>
        /\ proc' \in [Procs -> ProcStates] /\ proc'[p] = Off
        /\ \A q \in Procs \ {p} : proc'[q] = proc[q]
    BY <1>1, StateOff DEF IInv, TypeOK, Exit
  <2> QED
    BY <1>1, <2>1, <2>2, ExitKeeps
<1>3. Orderly' /\ RequestsAreNew'
  BY <1>1 DEF Orderly, RequestsAreNew, Tidy
<1> QED
  BY <1>2, <1>3 DEF IInv

LEMMA RebootStep ==
  ASSUME IInv, Reboot
  PROVE  IInv'
<1>1. \A p \in Procs : proc'[p] = Off /\ ~Alive(p)'
  BY StateOff DEF Reboot, Alive
<1>2. /\ live' = [key \in Keys |-> FALSE] /\ requests' = <<>>
      /\ abnormal' = {} /\ starts' = starts
  BY DEF Reboot
<1>3. TypeOK'
  <2>1. requests' \in Seq(0 .. MaxStarts) /\ Len(requests') = 0
    BY <1>2, EmptySeq
  <2>2. proc' \in [Procs -> ProcStates] /\ live' \in [Keys -> BOOLEAN]
    BY <1>2, StateOff DEF Reboot
  <2>3. starts' \in 0 .. MaxStarts /\ Len(requests') <= RecvRoom
    BY <1>2, <2>1, LifeAssumption DEF IInv, TypeOK, LifeAssumption
  <2>4. abnormal' \in SUBSET Causes
    BY <1>2
  <2>5. \A p \in Procs : proc'[p].msgid = [key \in Keys |-> "unset"]
                           /\ proc'[p].flag_trap = "unset"
    BY <1>1, StateOff
  <2> QED
    BY <1>2, <2>1, <2>2, <2>3, <2>4, <2>5 DEF TypeOK
<1>4. AtMostOne' /\ Orderly'
  BY <1>1, <1>2, StateOff DEF AtMostOne, Orderly, Live
<1>5. RequestsAreNew' /\ SinceBounded'
  BY <1>1, <1>2, StateOff, KeyNames, LifeAssumption
     DEF IInv, TypeOK, RequestsAreNew, SinceBounded, LifeAssumption
<1>6. OldRequestsNeedAbort' /\ ThreadsUseLiveQueues'
  BY <1>1, StateOff DEF OldRequestsNeedAbort, ThreadsUseLiveQueues
<1> QED
  BY <1>3, <1>4, <1>5, <1>6 DEF IInv

\* The step of the handler: the next queue goes, or the process does.
LEMMA RemoveStep ==
  ASSUME IInv, NEW p \in Procs, Remove(p)
  PROVE  IInv'
<1> USE LifeAssumption DEF LifeAssumption
<1> DEFINE key == proc[p].handler
           removed == RemoveQueue(proc, key)
<1>1. /\ Alive(p) /\ key \in Keys
      /\ UNCHANGED <<starts, abnormal>>
      /\ abnormal' \in SUBSET Causes
      /\ proc \in [Procs -> ProcStates] /\ live \in [Keys -> BOOLEAN]
  BY DEF Remove, IInv, TypeOK
<1>2. /\ removed \in [Procs -> ProcStates]
      /\ \A q \in Procs : /\ removed[q].main = proc[q].main
                          /\ removed[q].handler = proc[q].handler
                          /\ removed[q].since = proc[q].since
                          /\ removed[q].flag_trap = proc[q].flag_trap
                          /\ \A k \in Keys : proc[q].msgid[k] = "unset"
                                               => removed[q].msgid[k] = "unset"
  <2>1. DOMAIN removed = Procs /\ removed = [q \in Procs |-> removed[q]]
    BY DEF RemoveQueue
  <2> QED
    BY <1>1, <2>1, Removed
<1>3. CASE ~live[key]
  <2>1. proc' = Exit(p, proc) /\ UNCHANGED <<live, requests>>
    BY <1>3 DEF Remove, queues
  <2>2. /\ proc' \in [Procs -> ProcStates] /\ proc'[p] = Off
        /\ \A q \in Procs \ {p} : proc'[q] = proc[q]
    BY <1>1, <2>1, StateOff DEF Exit
  <2>3. /\ live' \in [Keys -> BOOLEAN] /\ requests' \in Seq(0 .. MaxStarts)
        /\ Len(requests') <= RecvRoom
        /\ live'["RECV"] \/ requests' = <<>>
    BY <2>1 DEF IInv, TypeOK
  <2>4. /\ TypeOK' /\ AtMostOne' /\ SinceBounded' /\ OldRequestsNeedAbort'
        /\ ThreadsUseLiveQueues' /\ ~Alive(p)'
        /\ \A q \in Procs : q # p => (Alive(q)' <=> Alive(q))
        /\ "overlap" \notin abnormal => \A q \in Procs : ~Alive(q)'
    BY <1>1, <2>2, <2>3, ExitKeeps
  <2>5. Orderly'
    <3> SUFFICES ASSUME abnormal = {} PROVE FALSE
      BY <1>1 DEF Orderly
    <3>1. Live = Expected(proc[p]) /\ proc[p].main = "running"
      BY <1>1 DEF IInv, Orderly, Keys
    <3>2. key \in Live
      BY <1>1, <3>1 DEF Expected, Keys
    <3> QED
      BY <1>3, <3>2 DEF Live
  <2>6. RequestsAreNew'
    <3> SUFFICES ASSUME Tidy PROVE ~live'["RECV"] /\ \A q \in Procs : ~Alive(q)'
      BY <1>1, <2>4 DEF RequestsAreNew, Tidy
    <3>1. ~live["RECV"]
      BY <1>1, <1>3 DEF IInv, RequestsAreNew, Keys
    <3> QED
      BY <2>1, <2>4, <3>1 DEF Tidy
  <2> QED
    BY <2>4, <2>5, <2>6 DEF IInv
<1>4. CASE live[key] /\ RemoveOrder(key) = "exit"
  <2>1. /\ live' = [live EXCEPT ![key] = FALSE] /\ proc' = Exit(p, removed)
        /\ key = "ACK" /\ UNCHANGED requests
    BY <1>1, <1>4 DEF Remove, RemoveOrder, Keys
  <2>2. /\ proc' \in [Procs -> ProcStates] /\ proc'[p] = Off
        /\ \A q \in Procs \ {p} : proc'[q] = removed[q]
    BY <1>2, <2>1, StateOff DEF Exit
  <2>3. /\ live' \in [Keys -> BOOLEAN] /\ live'["RECV"] = live["RECV"]
        /\ Live' = Live \ {"ACK"}
    BY <1>1, <2>1, KeyNames DEF Live
  <2>4. /\ requests' \in Seq(0 .. MaxStarts)
        /\ Len(requests') <= RecvRoom
        /\ live'["RECV"] \/ requests' = <<>>
    BY <2>1, <2>3 DEF IInv, TypeOK
  <2>5. \A q \in Procs \ {p} :
          /\ proc'[q].main = proc[q].main /\ proc'[q].since = proc[q].since
          /\ proc'[q].flag_trap = proc[q].flag_trap
          /\ \A k \in Keys : proc[q].msgid[k] = "unset"
                               => proc'[q].msgid[k] = "unset"
    BY <1>2, <2>2
  <2>6. /\ TypeOK' /\ AtMostOne' /\ SinceBounded' /\ OldRequestsNeedAbort'
        /\ ThreadsUseLiveQueues' /\ ~Alive(p)'
        /\ "overlap" \notin abnormal => \A q \in Procs : ~Alive(q)'
    BY <1>1, <2>2, <2>3, <2>4, <2>5, ExitKeeps
  <2>7. Orderly'
    <3> SUFFICES ASSUME abnormal = {} PROVE Orderly'
      BY <1>1 DEF Orderly
    <3>1. Live = Expected(proc[p]) /\ proc[p].main = "running"
      BY <1>1 DEF IInv, Orderly, Keys
    <3>2. Live' = {}
      BY <2>1, <2>3, <3>1 DEF Expected
    <3>3. \A q \in Procs : ~Alive(q)'
      BY <2>6
    <3>4. \A q \in Procs : proc'[q].main # "running" => proc'[q].handler = "none"
      <4>1. \A q \in Procs \ {p} : proc'[q].handler = proc[q].handler
        BY <1>2, <2>2
      <4> QED
        BY <2>2, <2>5, <4>1, StateOff DEF IInv, Orderly
    <3> QED
      BY <3>2, <3>3, <3>4 DEF Orderly
  <2>8. RequestsAreNew'
    <3> SUFFICES ASSUME Tidy PROVE ~live'["RECV"] /\ \A q \in Procs : ~Alive(q)'
      BY <1>1, <2>6 DEF RequestsAreNew, Tidy
    <3> QED
      BY <1>1, <2>1, <2>3, <2>6 DEF IInv, RequestsAreNew, Tidy
  <2> QED
    BY <2>6, <2>7, <2>8 DEF IInv
<1> DEFINE next == RemoveOrder(key)
<1>5. CASE live[key] /\ next # "exit"
  <2>1. /\ live' = [live EXCEPT ![key] = FALSE]
        /\ requests' = IF key = "RECV" THEN <<>> ELSE requests
        /\ proc' = [removed EXCEPT ![p].handler = next]
        /\ \/ key = "RECV" /\ next = "SEND"
           \/ key = "SEND" /\ next = "ACK"
    BY <1>1, <1>5 DEF Remove, RemoveOrder, Keys
  <2>2. /\ proc'[p] = [removed[p] EXCEPT !.handler = next]
        /\ \A q \in Procs : q # p => proc'[q] = removed[q]
    BY <1>2, <2>1
  <2>3. /\ proc'[p] \in ProcStates /\ proc'[p].handler = next
        /\ proc'[p].main = removed[p].main /\ proc'[p].since = removed[p].since
        /\ proc'[p].msgid = removed[p].msgid
        /\ proc'[p].flag_trap = removed[p].flag_trap
    <3>1. removed[p] \in ProcStates /\ next \in Keys
      BY <1>2, <2>1 DEF Keys
    <3> QED
      BY <2>2, <3>1 DEF ProcStates
  <2>4. /\ proc' \in [Procs -> ProcStates]
        /\ \A q \in Procs : /\ Alive(q)' <=> Alive(q)
                            /\ proc'[q].main = proc[q].main
                            /\ proc'[q].since = proc[q].since
                            /\ proc'[q].flag_trap = proc[q].flag_trap
                            /\ \A k \in Keys : proc[q].msgid[k] = "unset"
                                                 => proc'[q].msgid[k] = "unset"
    <3>1. proc' \in [Procs -> ProcStates]
      BY <1>2, <2>1, <2>2, <2>3
    <3>2. \A q \in Procs : /\ proc'[q].main = proc[q].main
                           /\ proc'[q].since = proc[q].since
                           /\ proc'[q].flag_trap = proc[q].flag_trap
                           /\ \A k \in Keys : proc[q].msgid[k] = "unset"
                                                => proc'[q].msgid[k] = "unset"
      <4>1. \A q \in Procs : /\ proc'[q].main = removed[q].main
                             /\ proc'[q].since = removed[q].since
                             /\ proc'[q].flag_trap = removed[q].flag_trap
                             /\ proc'[q].msgid = removed[q].msgid
        BY <2>2, <2>3
      <4> HIDE DEF removed
      <4> QED
        BY <1>2, <4>1
    <3> QED
      BY <3>1, <3>2 DEF Alive
  <2>5. /\ live' \in [Keys -> BOOLEAN] /\ ~live'[key]
        /\ \A k \in Keys \ {key} : live'[k] = live[k]
    BY <1>1, <2>1
  <2>6. /\ requests' \in Seq(0 .. MaxStarts) /\ Len(requests') <= RecvRoom
        /\ requests' = <<>> \/ requests' = requests
    <3>1. /\ <<>> \in Seq(0 .. MaxStarts) /\ Len(<<>>) = 0
          /\ requests \in Seq(0 .. MaxStarts) /\ Len(requests) <= RecvRoom
      BY EmptySeq DEF IInv, TypeOK
    <3>2. requests' = <<>> \/ requests' = requests
      BY <2>1
    <3>3. CASE requests' = <<>>
      BY <3>1, <3>3
    <3>4. CASE requests' = requests
      BY <3>1, <3>4
    <3> QED
      BY <3>2, <3>3, <3>4
  <2>7. live'["RECV"] \/ requests' = <<>>
    BY <2>1, <2>5, KeyNames DEF IInv, TypeOK
  <2>8. TypeOK'
    <3>1. \A q \in Procs : proc'[q].main # "running" =>
            /\ proc'[q].msgid = [k \in Keys |-> "unset"]
            /\ proc'[q].flag_trap = "unset"
      <4> SUFFICES ASSUME NEW q \in Procs, proc'[q].main # "running"
                   PROVE  /\ proc'[q].msgid = [k \in Keys |-> "unset"]
                          /\ proc'[q].flag_trap = "unset"
        OBVIOUS
      <4>1. /\ proc[q].msgid = [k \in Keys |-> "unset"]
            /\ proc'[q].flag_trap = "unset"
        BY <2>4 DEF IInv, TypeOK
      <4>2. \A k \in Keys : proc'[q].msgid[k] = "unset"
        BY <2>4, <4>1
      <4>3. proc'[q].msgid = [k \in Keys |-> "unset"]
        BY <2>4, <4>2 DEF ProcStates
      <4> QED
        BY <4>1, <4>3
    <3> QED
      BY <1>1, <2>4, <2>5, <2>6, <2>7, <3>1 DEF IInv, TypeOK
  <2>9. AtMostOne' /\ SinceBounded' /\ OldRequestsNeedAbort'
    <3>1. AtMostOne'
      BY <1>1, <2>4 DEF IInv, AtMostOne
    <3> QED
      BY <1>1, <2>4, <3>1 DEF IInv, SinceBounded, OldRequestsNeedAbort
  <2>10. Orderly'
    <3> SUFFICES ASSUME abnormal = {} PROVE Orderly'
      BY <1>1 DEF Orderly
    <3>1. /\ Live = Expected(proc[p]) /\ proc[p].main = "running"
          /\ \A q \in Procs : Alive(q) => q = p
      BY <1>1 DEF IInv, Orderly, AtMostOne, Keys
    <3>2. Live' = Live \ {key}
      BY <1>1, <2>5 DEF Live
    <3>3. Expected(proc'[p]) = Expected(proc[p]) \ {key}
      BY <1>2, <2>1, <2>3, <3>1 DEF Expected, Keys
    <3>4. \A q \in Procs : proc'[q].main # "running" => proc'[q].handler = "none"
      <4>1. \A q \in Procs : q # p => proc'[q].handler = proc[q].handler
        BY <1>2, <2>2
      <4>2. proc'[p].main = "running"
        BY <2>4, <3>1
      <4> QED
        BY <2>4, <4>1, <4>2 DEF IInv, Orderly
    <3> QED
      BY <1>1, <2>4, <3>1, <3>2, <3>3, <3>4 DEF Orderly
  <2>11. RequestsAreNew'
    <3> SUFFICES ASSUME Tidy PROVE RequestsAreNew'
      BY <1>1 DEF RequestsAreNew, Tidy
    <3>1. ~live'["RECV"]
      <4>1. key = "SEND" => ~live["RECV"]
        BY <1>1 DEF IInv, RequestsAreNew
      <4> QED
        BY <2>1, <2>5, <4>1, KeyNames
    <3>2. requests' = <<>> /\ Len(requests') = 0
      BY <2>7, <3>1
    <3> QED
      BY <3>1, <3>2 DEF RequestsAreNew
  <2>12. ThreadsUseLiveQueues'
    <3> SUFFICES ASSUME "overlap" \notin abnormal, NEW q \in Procs,
                        proc'[q].main = "running", proc'[q].handler = "none"
                 PROVE  FALSE
      BY <1>1 DEF ThreadsUseLiveQueues
    <3>1. q = p
      BY <1>1, <2>4 DEF IInv, AtMostOne, Alive
    <3> QED
      BY <2>1, <2>3, <3>1
  <2> QED
    BY <2>8, <2>9, <2>10, <2>11, <2>12 DEF IInv
<1> QED
  BY <1>1, <1>3, <1>4, <1>5

LEMMA StepInv == IInv /\ [Next]_vars => IInv'
<1> SUFFICES ASSUME IInv, [Next]_vars PROVE IInv'
  OBVIOUS
<1>1. CASE AgentSend
  BY <1>1, AgentSendStep
<1>2. CASE Reboot
  BY <1>2, RebootStep
<1>3. ASSUME NEW p \in Procs, Start(p) PROVE IInv'
  BY <1>3, StartStep
<1>4. ASSUME NEW p \in Procs, Process(p) PROVE IInv'
  <2>1. CASE Create(p)
    BY <2>1, CreateStep
  <2>2. ASSUME NEW key \in Keys, ThreadMsgget(p, key) PROVE IInv'
    BY <2>2, ThreadMsggetStep
  <2>3. CASE Serve(p)
    BY <2>3, ServeStep
  <2>4. CASE Remove(p)
    BY <2>4, RemoveStep
  <2> QED
    BY <1>4, <2>1, <2>2, <2>3, <2>4 DEF Process
<1>5. ASSUME NEW p \in Procs, Signal(p) PROVE IInv'
  BY <1>5, SignalStep
<1>6. ASSUME NEW p \in Procs, Abort(p) PROVE IInv'
  BY <1>6, AbortStep
<1>7. CASE UNCHANGED vars
  BY <1>7 DEF vars, queues, IInv, TypeOK, AtMostOne, Orderly, RequestsAreNew, Tidy,
              SinceBounded, OldRequestsNeedAbort, ThreadsUseLiveQueues, Alive, Live
<1> QED
  BY <1>1, <1>2, <1>3, <1>4, <1>5, <1>6, <1>7 DEF Next

LEMMA Invariance == Spec => []IInv
BY InitInv, StepInv, PTL DEF Spec

(***************************************************************************)
(* The state keeps its type: only a process that is through with snmp_init *)
(* looks up queues and receives requests, and a removed queue is empty.    *)
(***************************************************************************)
THEOREM TypeCorrect == Spec => []TypeOK
<1>1. IInv => TypeOK
  BY DEF IInv
<1> QED
  BY <1>1, Invariance, PTL

(***************************************************************************)
(* my_func, at whatever point between its three msgctl calls the process   *)
(* is looked at, has removed exactly the queues it should have: when       *)
(* nothing abnormal happened, no queue is left behind.                     *)
(***************************************************************************)
THEOREM CleanStopCorrect == Spec => []CleanStopLeavesNothing
<1>1. IInv => CleanStopLeavesNothing
  BY DEF IInv, Orderly, CleanStopLeavesNothing, Live
<1> QED
  BY <1>1, Invariance, PTL

(***************************************************************************)
(* As my_func removes the queue of the requests first, an old request, and *)
(* the traps it would set off, reach a new process only after a process    *)
(* ended without its handler or beside another one.                        *)
(***************************************************************************)
THEOREM OldRequestsCorrect == Spec => []OldRequestsNeedAbort
<1>1. IInv => OldRequestsNeedAbort
  BY DEF IInv
<1> QED
  BY <1>1, Invariance, PTL

(***************************************************************************)
(* As main starts the threads after snmp_init, and a process that is alone *)
(* removes its queues only in its handler, its threads and the agent use   *)
(* the same queues.                                                        *)
(***************************************************************************)
THEOREM LiveQueuesCorrect == Spec => []ThreadsUseLiveQueues
<1>1. IInv => ThreadsUseLiveQueues
  BY DEF IInv
<1> QED
  BY <1>1, Invariance, PTL
===============================================================================
