# Verification of `clock_distribut_app`

`clock_distribut_app` is the user-space program of a clock distribution board: an OMAP
processor with an FPGA, a GPS receiver, a DP83640 PTP PHY and a network link. It decides
whether the board is a clock *master* (disciplined by GPS) or a *slave* (disciplined by PTP),
steers the FPGA accordingly, and answers an SNMP agent, a separate process, through three
System V message queues. This directory models it in TLA+, checks the models with TLC and
proves the main results with TLAPS.

All source paths are relative to `src/clock_distribut_app/`.

## 1. Inventory

### Components

| component | code | state it keeps | operations |
|---|---|---|---|
| Clock control, pulse thread | `main.c` `thread_send_ptp_time_handle`, `send_system_time` | `cur_status`, `wait_ptp_flag`; locals `fpga_status`, `fpga_config`, `buffnet`, `ptp_num`, `net_flag`, `net_count` | sample clocks and carrier, wait for the trigger, one of three branches (slave/up, slave/down, master/up), role switch |
| Clock control, GPS thread | `main.c` `thread_check_gps_status_handle` (master only) | `gps_status` | read the logic status register, sleep 8 s |
| FPGA access | `fpga_ctl.c` | the global message buffer `fpga_msg` | read or write one register: fill the buffer, `ioctl`, use the buffer |
| Published parameters | `data_trap.c/.h` | `ClockParameter` (`CLOCK_PARA`) | written by both clock threads (the times with `sprintf`), copied by the SNMP handlers and traps (`strcpy`) |
| Trap pipeline | `snmp.c` `signal_handler`, `pthread_second_task`, `Trap_msg_to_snmpd`, `snmp_data_trap`, `pthread_snmp_send` | `trapsignal`, `flag_trap`, `sem_var.mutex`, `sem_var.full`, `objSnmp.send.queue`, System V queue `KEY_ID_SEND` | a timer signal makes a round of six traps; each is queued, announced, taken, sent |
| Request pipeline | `snmp.c` `pthread_snmp_recv`, `snmp_data_0x..`, `snmp_data_ack`, `snmp_data_set_ack`, `pthread_snmp_send_ack` | `objSnmp.send_ack` (queue, semaphore), System V queues `KEY_ID_RECV`, `KEY_ID_ACK` | receive, dispatch on the operation code, queue a reply, announce, copy, send, remove |
| Message queue | `freeLockQ.c` | a `queue_t` of libcstl and its limit | full, get, push, pop |
| Network parameters | `snmp.c` `is_valid_ip`, `is_valid_netmask`, `set_*`, `get_net_parameter` | the kernel's address, mask and default route; file descriptors | check the text; `socket`, `ioctl`, `close`; `popen` of `ip route` |
| Start and stop | `main.c` `main`, `snmp.c` `snmp_init`, `my_func` | the three System V queues, which outlive the process | create, remove, start threads |

Build files, editor settings and the git hook samples have no behaviour of the program.

### Interaction

* The two clock threads share `gps_status` (GPS thread writes, pulse thread reads), the buffer
  `fpga_msg` and `ClockParameter`, all without a lock.  (`lock` in `main.c` is initialised and
  never used.)
* `SIGALRM` posts `trapsignal`; the second task waits for it.
* The first request that arrives (`pthread_snmp_recv`) sets `flag_trap`, which lets the second
  task emit traps.
* The second task and the trap sender share a queue under a semaphore used as mutex; the
  receiver and the reply sender share a queue under no lock at all.
* The agent is outside: it puts requests in one System V queue and reads two others.
* The handlers of the receiver, the address lookup of the second task and the carrier file of the
  pulse thread draw on one set of file descriptors.
* The handlers copy strings of `ClockParameter` while the pulse thread rewrites them.
* Two processes of the program meet in the System V queues: nothing keeps a second one from being
  started, and the queues outlive the process.

### What is hard

* *Interleaving*: two threads in `fpga_msg`; two threads in the unlocked reply queue.
* *Stale copies*: the pulse thread reads the configuration register, runs external programs,
  then writes the old copy back with some bits changed; the carrier is sampled before a
  blocking read; published values survive branches that do not publish.
* *Counting*: semaphores announce messages that a later push may remove; `ptp_num` is tested
  for equality with 60, 3700 and 3800 only, and moves in the slave role too.
* *Partial failure*: the pulse thread or a sender may end while the rest goes on; replies are
  sent whether or not the lookup worked.
* *Liveness*: the role has to follow the GPS receiver; traps and replies have to arrive.
* *Restart*: a slave reboots the board after an outage; the System V queues survive a restart
  of the process, and a signal may come while `snmp_init` or `my_func` is at work.
* *Limits*: every successful setting of the gateway leaves a socket open, and so does every failed
  lookup; the pulse thread ends when it cannot open its file.

### What makes each component correct

* Clock control: only a device configured as master ever acts as one; a master is not on the
  PTP source; the PTP-valid bit is not resurrected by a stale write; the role follows GPS.
* Trap pipeline: the mutex is handed over on every path; announcements match messages; traps
  arrive in order, at most once, and the newest survive; the sender lives.
* Request pipeline: each request that has a reply gets one, in order, exactly once.
* FPGA access: a collision has no outcomes but those the clock control is built to live with.
* Published parameters: a copied time has the right length, is not out of date, and mixes times in
  one way only.
* Network parameters: the check of a mask accepts exactly the masks; a reply is true, and one
  without a result is a failure; a refused setting changes nothing; descriptors are given back.
* Start and stop: a stop leaves no queue behind and no request for a later process, and it ends.

The complete list of hazards, each with its line and the properties that cover it, is in
`PROJECT.json`.

## 2. Modules

| module | what it is |
|---|---|
| `ClockControl` | pulse thread, GPS thread, register `ADDR_CONFIG`, role, restart |
| `ClockRole` | abstract: who may change the role and the source, and in which order |
| `FpgaAccess` | the results that an access to `ADDR_CONFIG` may have; used by `ClockControl` and `FpgaBus` |
| `MCClock` | register values for the runs of `ClockControl` |
| `ClockControl_proofs` | theorems about `ClockControl` |
| `MsgQueue` | `freeLockQ.c` as operators on sequences |
| `TrapPipeline` | second task, trap queue, trap sender, System V queue, agent |
| `TrapChannel` | abstract: an ordered channel that may lose but never repeats or invents |
| `TrapPipeline_proofs` | theorems about `TrapPipeline` and `MsgQueue!Push` |
| `AckPipeline` | receiver, handlers' replies, unlocked reply queue, reply sender, agent |
| `RequestReply` | abstract: every request is replied to once, in order |
| `AckPipeline_proofs` | theorems about `AckPipeline` |
| `FpgaBus` | `fpga_ctl.c`, one step per assignment, by two threads |
| `FpgaBus_proofs` | theorems about `FpgaBus` |
| `Netmask` | texts, `inet_aton`, `is_valid_netmask`, and the masks by prefix length |
| `NetConfig` | settings and queries of address, mask and gateway; descriptors |
| `MCNet` | texts for the run of `NetConfig` |
| `Netmask_proofs` | powers of two, addresses, and the check of a mask |
| `NetConfig_proofs` | theorems about `NetConfig` |
| `Lifecycle` | processes, System V queues, signals, restarts |
| `Lifecycle_proofs` | theorems about `Lifecycle` |
| `Published` | a time rewritten by one thread and copied by another |
| `Published_proofs` | theorems about `Published` |

### `ClockControl`

`pc` and `gpc` are the positions of the two threads. One turn of the pulse loop is
`Sample`, then `NoPulse` or `TakePulse`, then the branch (`SlaveSelectPtp`, `SlaveTime` |
`SlaveOutage` | `MasterCount`, `MasterSelectGps`, `MasterTime`), then `SwitchRole` and, after a
promotion, `Promote`. The cuts are where the code calls `system()`, accesses the FPGA after
another thread may have changed something, or leaves time for the GPS thread and the hardware.

* `cfg` is the register as the set of its named bits that are 1. Of the constants in `main.h`,
  `OMAP_RUN_LED` is a mask that clears a bit; the model names the bit.
* The time of day is abstracted to two questions: did the two clocks show the same second when
  sampled (`sync`), and does the FPGA show 9:00:00 (`SlaveTime`, `MasterTime`). `printf`, LEDs,
  `testptp` and `ntpd` have no effect on the state that the properties are about.
* `carrier = "off"` is the carrier file that opens but cannot be read: `read` fails and
  `buffnet` keeps its old value. `ThreadFaults` allows the failures that end the thread.
* `BusRaces` allows the outcomes of an access that overlaps the GPS thread's read of
  `fpga_msg`: the address was replaced (a read returns the logic status, a write misses
  `ADDR_CONFIG`), or the received value was cleared. The outcomes are those of `FpgaAccess`, which
  `FpgaBus` derives from the single assignments. `clash` lets the GPS thread's own read go wrong in
  the same way.
* The thresholds 60, 100, 3700, 3800 and 3 are constants with their order assumed, so that TLC
  can use 1, 2, 3, 4 and 1 or 2 and the proofs hold for all.
* `net_count` is compared with its limit only, so all values from there on are one (`Outages`).
* `Publish` is what two branches publish of the register they have read back.
* `counterSyncs` is a history variable.

### `TrapPipeline`

Each semaphore operation and each queue operation under the mutex is one step. A trap is its
number in the order of emission. `AgentRoom` is what the System V queue holds before `msgsnd`
blocks; `IpcFaults` allows `msgget` and `msgsnd` to fail. `lost`, `overwritten`, `emitted` and
`received` are history. The second `Pop` of the sender's error path runs under the mutex on a
queue just seen empty, so it always fails: the thread returns (`SendAbandon`).

### `AckPipeline`

The same queue without a mutex: the three parts of a push (`PushFull`, `PushPop`,
`PushAppend`) and the get and pop of the sender interleave freely. The operation codes are
grouped by what the handlers do with them; `HasReply` and `ReplyTo` say who gets which reply.
Each of the two threads first looks up its System V queue (`RecvMsgget`, `AckMsgget`) and returns
when there is none.
`Window` bounds the requests that the agent has open, which is a fact about the agent and not
about this program, so runs use a careful agent (`Window < QUEUE_MAX_SIZE`) and a careless one.
A request is its number in the order of sending. `RequestReply` knows the set of the open requests
(`Open`: those that have a reply, wherever they or their replies are) and the sequence of those
replied to; it answers the oldest one.
Two libcstl calls that physically overlap are a data race whose outcomes the C library decides;
they are left out. That the reply to a setting may be among those that an overflow drops, and that
the MAC handler (`snmp_data_0x04`) never pushes the reply it has prepared, is part of the model
(`HasReply`, `PushPop`).

### `FpgaBus`, `FpgaAccess`

A call of a thread is `Begin` (the address), `Fill` (`rx_val = 0` or `tx_val`), `EmifaRead` or
`EmifaWrite` (the `ioctl`), and for a read `Return`. Between any two of them the other thread may
do the same. `HardwareChange` changes what the FPGA shows. The driver is external; it is assumed
that one `ioctl` is atomic and that `EMIFA_READ` stores only `rx_val`. `overlap` remembers, per
thread, whether the other one used the bus during the call; with it the properties say that the
result is one of `ReadResults` and `WriteResults` of `FpgaAccess`, the operators with which
`ClockControl` models an access as one step. So `FpgaBus` is the reason why that abstraction is
sound.

### `Netmask`, `NetConfig`

A text is the sequence of its decimal parts; `Fits` and `Address` are what `inet_aton` makes of it,
with fewer than four parts as well. `is_valid_netmask` reads the text a second time with `sscanf`;
with fewer than four parts the array is not initialised, so the operator returns the *set* of
answers it can give. The shifts (`Shift`), the complement, the wrap and the `&` are those of the
code, over words of `4 * PartBits` bits.

`recvPc` is the position of the receiver in the handlers of operation codes 1 to 3: `Receive`
dispatches and checks the text; `SetSocket`, `SetInterface` are `set_net_parameter`;
`DeleteRoute`, `AddRoute` are `set_gateway`; `Lookup`, `GetInterface` are `get_net_parameter`;
`Popen`, `Fork`, `ReadRoutes` are `get_gateway`. `TaskLookup`, `TaskGetInterface` are the lookup
for a trap by the second task, `PulseOpen` and `PulseClose` the carrier file of the pulse thread. What
the kernel does is assumed: it refuses `SIOCSIFNETMASK` with a mask that is none, chooses a class mask for a new address, may
drop the default route when address or mask change, needs a default route for `SIOCDELRT` and a
gateway in the network of the interface for `SIOCADDRT`. `popen` holds both ends of the pipe until
the child runs. Operation codes 0x04 and 0x36 call `get_net_parameter` like the query of the address;
they are not told apart from it. `before`, `outcome` and `leaked` are history.

What a query is answered when its lookup has no result is part of the model. When a call fails
(`LookupFails`: no descriptor, or with `Faults` a failing `ioctl`), the answer is the zeroed buffer
of the handler (`Unfilled`). `ReadRoutes` is the parsing of `ip route`: with a default route its
gateway; without one the third word of the last line, the name of the device (`Device`); and when
there was no line at all (no default route and no route to a network of its own, `HasNetwork`, or
with `Faults` a command that failed) any text that an uninitialised `buf` may hold (`AnyText`).
`outcome` says which of the three it was.

Two ways to lose the default route are in the model and no property is about them, because the
repository does not say that it should be kept: `set_gateway` deletes it before it adds the new one,
and the kernel may drop it with a new address or mask. After either, every later setting of the
gateway fails at the deletion.

### `Lifecycle`

`proc[p]` is a process: `main` is how far `snmp_init` is with its three queues, `handler` how far
`my_func` is, `msgid` what each thread knows of its queue. `Create` is one `msgget` that creates the
queue or uses the one that is there; `ThreadMsgget` the `msgget` of a thread; `Remove` the `msgget`
and `msgctl` of one queue in `my_func`, where a missing queue ends the process at once. A signal
that interrupts `my_func` starts it from the first queue; what is left of the interrupted call would
only find queues missing. `Abort` is every end without the handler: `kill -9`, a crash (such as an
operation code without a handler), a `return` from `main`. `Reboot` takes the queues with it. A
request is the number of starts before it was sent, so that a process can tell old from new. The
agent creates no queue. `abnormal` is the history the properties need: which of the events happened
since the last boot that a clean stop excludes.

### `Published`

A cell of `text` holds the number of the publication its character stems from, since all times have
the same length and differ in nothing else that matters. `WriteCell` lets `sprintf` write the cells
in any order; `CopyCell` is `strcpy`, in order, up to a zero. The stop at a final zero that is never
overwritten by anything else is what bounds the copy. `since`, history, is the last time that was
complete when the copy began.

## 3. Runs

| run | asks | bounds | result |
|---|---|---|---|
| `clock_quiet` | role, source and PTP-valid bit, and `ClockRole`, over all interleavings, link flaps, exits and reboots; does the role follow the receiver? | thresholds 1, 2, 3, 4; two outages to a reboot; no collisions | holds under `FairSpec`, 1.5 million states |
| `trap` | semaphores, order, newest kept, everything arrives, `TrapChannel` | queue 3, rounds of 2, 3 ticks, System V room 1, failing calls | holds |
| `ack_careful` | a careful agent gets every reply, once, in order (`RequestReply`) | queue 3, window 2, 4 requests of all groups | holds under `FairSpec` |
| `ack_overflow` | what holds when the unlocked queue overflows and calls fail | queue 2, window unlimited, 4 requests | holds |
| `clock_race_source` | is a master off PTP when bus accesses collide? | | violated |
| `clock_reported_lock` | is the reported PTP lock what the register shows? | | violated |
| `trap_overflow` | does the sender survive an overflow? | queue 2 | violated |
| `bus` | has a collision any outcome that `ClockControl` does not allow? | four words, one logic status | holds |
| `net` | truth of replies, failed lookups, what a refused setting leaves, the check of masks, descriptors | parts of one bit, all words of four bits and texts with too few or too large parts as masks, five descriptors, failing calls | holds, 1.6 million states |
| `net_failed_lookup` | is a query without a result refused? | the same | violated |
| `life` | what is left in the queues over stops, crashes, overlaps, restarts | two processes, three starts, one request in the queue | holds under `FairSpec`, 0.6 million states |
| `published` | how mixed may a copied time be? | four characters, five times | holds |

Why the bounds are enough. The counter of pulses is only compared with its four thresholds, so
adjacent small thresholds keep every order of events and only shorten the waits; values above
the last are one value. `net_count` is only compared with its limit. In `trap`, three rounds of
two traps against a queue of three are enough to overflow the queue, to leave surplus
announcements and to end the sender; in `ack_overflow`, four requests against two places let a
push remove the reply that is being sent and the sender remove one that was not. In `bus` four
words tell apart 0, the logic status and two others. In `net` the check of a mask is compared with
the definition for all 16 words of four bits, both sides of the wrap included; five descriptors are
more than the four that the three threads hold at most at one moment, so that leaks, and only leaks,
use them up. In `life` two processes are enough for every overlap that matters to a process
(another one creates, removes or ends beside it), and three starts let a request survive one process
and meet a third. In `published` five times can all be in one copy of four characters and what was
before it. Deadlock is not
checked in the runs of the two pipelines: they stop when the ticks or requests are used up and the
threads wait.

Fairness. `clock_quiet` assumes weak fairness of each thread: the trigger is a hardware pulse,
`sleep` and the external programs return. Neither the hardware nor the restart is assumed to be
fair: the two properties assume instead that the receiver stays as it is, that no reboot is
pending for ever, and that the pulse thread has not ended on an error (`pc # "exit"`; the run lets
it end at every call that may fail). `trap` and `ack_careful` assume weak fairness of the two threads and of an
agent that reads its queue; the agent need not ask. Because the second task has a bounded number
of rounds in the model, the mutex stays free at the end and weak fairness is enough for the
sender; with an unbounded stream of rounds the code relies on the semaphore not to starve it.
`life` assumes weak fairness of the steps of `my_func` only: none of its System V calls waits. (Its
`printf` and the `free` of the libcstl queues may wait for a lock of the C library that the
interrupted code holds; the handler would then hang. That is left out, like all that is inside the
library.) That it ends
although signals may restart it again and again rests on the code, as every restart finds fewer
queues and the process exits at the first one that is missing.

Findings, i.e. what the violated runs show, with the line that says otherwise:

1. `clock_race_source`: the one write that takes a promoted master off PTP can be lost in a
   collision on `fpga_msg`; all later writes of a master only add the GPS bit.
2. `clock_reported_lock`: the link-down branch withdraws the PTP-valid bit but goes on
   publishing the lock.
3. `trap_overflow`: a push on the full queue drops a message but not its announcement; the
   surplus announcement later makes the sender thread return.
4. `net_failed_lookup`: a query whose lookup failed, or whose output of `ip route` names no gateway,
   is answered with `error_code` 0, where the comments of the handlers (`snmp.c:305`, 362, 413) say
   that a failure reply is needed.

Each property of a passing run has a faulty variant of a definition (kept next to it, e.g.
`PopForgotten`, `WrapTooFar`, `PromoteUnasked`) under which TLC finds it violated.

## 4. Proofs

`ClockControl_proofs`, for every reset value, every noise, all ordered thresholds:

* `TypeCorrect`, by one step per action, over lemmas on what each register word and each
  published record can be.
* `RoleCorrect`. `RoleAuthority` is not inductive: it needs that the branches belong to a role
  (`StepsOfRole`), that a device not configured as master has no GPS thread and hence no
  collisions (`NoGpsThread`), and that the copy which the loop writes back is off GPS too
  (`CopyOffGps`). It holds with and without collisions.
* `CounterCorrect`. The bound 2 is not inductive; `CounterInv` counts, for each of the two
  thresholds, whether the counter has passed it, where "passed" at the threshold itself depends
  on whether the pulse still has to be acted on. The wrap from 3800 lands on 3700 *after* that
  pulse was acted on, so the threshold counts as passed.
* `MasterOffPtpCorrect`, `ValidCorrect` and `RoleRefined` assume `~BusRaces`, as run
  `clock_race_source` shows that the first fails otherwise. The invariant adds that the sampled
  carrier belongs to the branch (`LinkOfStep`) and that the copy agrees with the register on the
  source until the branch writes (`CopyAgrees`). `RoleRefined` maps every step to a step of
  `ClockRole` or to a stutter.

`TrapPipeline_proofs`, for every size of the queue, a round and the System V queue, with and
without failing calls: `TypeCorrect`, `MutexCorrect`, `AnnouncementsCorrect`, `SenderLives`,
`NewestInQueue`, all from one inductive invariant that adds to them that the counter of a round
is positive inside it. `PushResult` is the lemma about `Push`. `ChannelRefined` maps every step to
a step of `TrapChannel` or to a stutter. It needs the order along the whole way (`Ordered`, itself
the theorem `DeliveredInOrder`): the System V queue and what the agent has received are ascending,
and what is ahead is older than the copy in the sender's hand, which is older than the queue and
than what the second task has yet to push; `NewestKept` alone says nothing of the copy and of the
part of the way behind it.

`AckPipeline_proofs`, for every size of the three queues and any number of open requests:
`TypeCorrect`, `AnnouncementsCorrect`, `RemovalCorrect`. The invariant adds that the room which
the receiver saw before a push is still there (`RoomToPush`): only the receiver appends. Why the
sender, unlocked, never finds an empty queue before the first overflow follows from the
announcements, so the three are proved together. On top of it:

* `CarefulAgentNeverOverwrites` (`NeverOverwritten`), for a window smaller than the queue, with and
  without failing calls. The window has to be known to bound the requests with a reply that are in
  the System V queue, so the invariant says how those are numbered (`Numbered`) and counts what is
  open place by place (`Careful`); the place that a reply takes up between `msgsnd` and its removal
  is the one that the window must leave free. `CarefulAgentKeepsSender` follows: the sender does
  not return for the lack of a reply.
* `CarefulAgentIsServed` (`RefinesService`), for such an agent and no failing call (`~IpcFaults`, as
  in run `ack_careful`: a failing `msgsnd` gives up the reply). Every step maps to a step of
  `RequestReply` or to a stutter, since the requests with a reply are in the order of their numbers
  at each place and from each place to the next (`InOrder`).
* `RepliesAscend`, for an agent of any kind, overflow and failing calls: no reply is sent twice or
  after a newer one. Here the receiver may remove the reply that is being sent and the sender one
  that it has not sent, so the invariant (`Delivered`) compares what was sent with the copy in hand
  and with what is still in the queue, for each step of the sender separately. TLC agreed on
  `Delivered` with the constants of both runs and with a queue of one place.

`FpgaBus_proofs`, for every set of words: `TypeCorrect`, `ConfigReadCorrect`, `LogicReadCorrect`,
`ConfigWriteCorrect`. The invariant adds that the buffer has the address of a call as long as the
other thread has not used the bus (`OwnCall`), that only the pulse thread fills `tx_val`, and that
inside a call of the pulse thread the address is its own or that of the logic status, whoever has
filled it (`AddrOfPulse`).

`Published_proofs`, for every length: `TypeCorrect`, `CopyCorrect` (the length of a copy, and no
character older than the time that was complete when the copy began, `since`), `OrderCorrect`. The
invariant adds that every cell stems from one of the last two publications, and from the last one once it is
written (`TextIsRecent`), that a time which was complete once has no zero inside (`CompleteStays`),
and that a copy holds nothing that is not published yet.

`Lifecycle_proofs`, for any number of processes and starts and any size of the queue:
`TypeCorrect`, `CleanStopCorrect`, `OldRequestsCorrect`, `LiveQueuesCorrect`. The invariant adds
that without an overlap at most one process is alive (`AtMostOne`); which queues are there at each
point of `snmp_init` and `my_func` when nothing abnormal happened (`Orderly`); that without an
abort or overlap the queue of the requests goes before the process does, so that every request in it
was sent to the process that is alive (`RequestsAreNew`).

`NetConfig_proofs`, for any texts, widths and limits: `RepliesCorrect`,
`FailedLookupCorrect`, `RefusedCorrect`, `LeakCorrect`, `PulseCorrect`. The invariant adds to which requests each step
belongs, and what a request has changed before its last step: nothing, but for a default route that
it found and deleted (`ChangedSoFar`). `RepliesCorrect` is about settings and about queries whose lookup
worked, `FailedLookupCorrect` about those in which a call failed. None of it depends on which word a text stands for.
`TypeCorrect` and `MasksCorrect` (`ExactlyTheMasks`) do; for them the invariant adds that a setting
gets past the checks only with a text that `inet_aton` accepts (`TextChecked`).

`Netmask_proofs`, for parts of any width: `AddressIsWord`, what `inet_aton` makes of an accepted text
is a word; `WordTest`, `~b + 1` passes `(b & (b - 1)) == 0` exactly if `b` is ones followed by zeros;
`MaskTest`, the same for texts of four parts. The provers know nothing of `2 ^ n` for a variable `n`,
and induction is out of reach, so the facts needed (`PowerOrder`, `PowerSum`, `PowerNext`) are
obtained by counting: `2 ^ n` is the number of subsets of `1 .. n`, and a subset of `1 .. m + n` is
one of the first `m` elements and one of the rest. The highest bit of a word (`HighestBit`) is the
last element of a finite initial segment of the exponents, found from its cardinality.

The assumptions used are the named `ASSUME`s of the modules (`ConfigAssumption`,
`CounterAssumption`, `SwitchAssumption`, `QueueAssumption`, `TrapAssumption`, `AckAssumption`,
`BusAssumption`, `TimeAssumption`, `LifeAssumption`, `NetAssumption`); TLC evaluates them in the runs.

Every safety property of the passing runs, invariant or refinement, is the property of one of the
theorems. Only model-checked are the liveness properties (`LostGpsEndsMastership`,
`FoundGpsRestoresMaster`, `AllArrive`, `EveryReplyArrives`, `SignalEnds`), as they rest on fairness
and `ENABLED`, which the prover cannot treat. `DeliveredInOrder`, `CarefulAgentKeepsSender` and
`RepliesAscend` are not properties of a run.

## 5. Plan

Done, in this order:

1. `ClockControl`, `ClockRole` — the core of the program — and their theorems.
2. `MsgQueue`, `TrapPipeline`, `TrapChannel`, with the safety of `TrapPipeline` and the refinement
   proved.
3. `AckPipeline`, `RequestReply`, with the safety under overflow, the safety of a careful agent and
   the refinement proved.
4. `FpgaBus`, `FpgaAccess`, with all properties proved.
5. `Netmask`, `NetConfig`, with all properties proved, the check of the mask for any width.
6. `Lifecycle`, with its safety proved.
7. `Published`, with all properties proved.

Left: what the role of a board may do when bus accesses collide, beyond `RoleAuthority` and the
counter (what exactly one lost write can break, and which later step mends it).

## 6. Not modelled

* The contents of traps and replies, version strings and the model name (they never change), the
  formatting of times, `recvport` (never read).
* PTP, `ntpd`, the kernel drivers and the FPGA logic: external, visible only as a pulse, a
  register and a restart.
* What an operation code without a handler does beyond ending the process (`Abort` of `Lifecycle`):
  the dispatch calls it as a null pointer.
* Texts with letters, octal or hexadecimal parts in settings.
* The data race inside libcstl when two calls on one queue physically overlap.
* Dead code: `snmp_data_deal`, `clean_MsgQueue`, `fpga_rdwr_config`,
  `fpga_read_ptp_time`, `fpga_read_gps_time`.
* Signals that interrupt System V calls of the sender threads otherwise than as a failing call.
