# Verification of the LoRaWAN interference model

TLA+ specifications of the LoRaWAN part of this repository (`src/src/lorawan`),
an ns-3 simulator extended with *interferers*: devices whose packets carry a
flag and travel on a second list of radios; and of the multi-threaded driver of
its tests (`src/test.py`).  The simulator is sequential, but
its components act through scheduled events whose order no test fixes: a
downlink may start in the middle of a reception, a postponed transmission may
fall into a receive window, two events may share an instant.  Those orders are
what the models explore.  The paths below are relative to
`src/src/lorawan/model` unless they say otherwise.

## The system

| part | state | operations | talks to |
|---|---|---|---|
| Gateway radio and MAC (`simple-gateway-lora-phy.cc`, `gateway-lora-phy.cc`, `gateway-lorawan-mac.cc`) | reception paths, the `EndReceive` event of each, the counter of occupied paths, `m_isTransmitting` | `StartReceive`, `StartReceiveI`, `EndReceive`, `Send`, `SendI`, `TxFinished` | channel below, forwarder above |
| Class A end device (`end-device-lorawan-mac.cc`, `class-a-end-device-lorawan-mac.cc`, `simple-end-device-lora-phy.cc`, `end-device-lora-phy.cc`) | radio state, event handles, retransmission parameters, duty cycle | `Send`, `DoSend`, the four window events, `Receive`, `FailedReception`, `TxFinished`, `StartReceive(I)`, `EndReceive(I)` | application above, channel below |
| Network server (`network-server.cc`, `network-scheduler.cc`, `network-status.cc`, `end-device-status.cc`, `gateway-status.cc`, `network-controller*.cc`) | per device the packets received and the reply in preparation; the scheduled receive-window opportunities | `Receive`, `OnReceivedPacket`, `InsertReceivedPacket`, `OnReceiveWindowOpportunity`, `GetBestGatewayForDevice`, `SendThroughGateway` | gateways, over point-to-point links |
| LoRa channel (`lora-channel.cc`) | two lists of radios | `Send`, `SendI`, `Receive`, `ReceiveI` | every radio |
| Channel plan: duty-cycle helper (`logical-lora-channel-helper.cc`, `sub-band.cc`) and the device's handlers of MAC commands | the logical channels, enabled or not; next transmission time of each sub-band; data rate, power, RX1 offset | `GetWaitingTime`, `AddEvent`, `GetChannelForTx`, `OnLinkAdrReq`, `OnNewChannelReq`, ... | both MACs |
| Class C end device (`class-c-end-device-lorawan-mac.cc`) | the handles of four kinds of window, which of them is open | continuous windows, `Receive`, `ResetReceiveWindows`, `ScheduleEvents` | the PHY and the common MAC |
| Interference helper (`lora-interference-helper.cc`) | events on the air | `Add`, `IsDestroyedByInterference`, `CleanOldEvents` | both radios |
| Forwarder (`forwarder.cc`) | - | relays packets both ways | gateway, server |
| Parallel test driver (`src/test.py`) | two queues, worker threads, `thread_exit`, the results document | `run_tests`, `worker_thread.run`, `sigint_hook` | one process per test |
| ADR component, applications, helpers, packet tracker, 802.11ah Wi-Fi, ns-3 itself | - | - | - |

An uplink goes from the application through the device's MAC and PHY to the
channel, to the PHY of every gateway, through the MAC and the forwarder over a
link to the server.  The server answers one second later, or two, through one
gateway.  An interferer's packet goes through `SendI` and `ReceiveI`: radios of
the ordinary list get it as `StartReceiveI`, radios of the second list as
`StartReceive`.

### What is hard, and what makes each part correct

* **Gateway.**  Demodulators, scheduled `EndReceive` events and a counter are
  three records of one fact, and `Send` rewrites the first two in the middle of
  anything.  Correct: they agree, no reception happens during a transmission,
  every reception has one outcome and gets it, the duty cycle is kept although
  the server's check is stale when the packet arrives.
* **End device.**  A MAC with one handle per kind of event, an application that
  may call at any time, a radio that may be receiving when any event runs, and
  (in this repository) interferer's packets that bypass the radio's state.
  Correct: no abort, no radio left awake, one procedure at a time, the attempts
  counted are those on the air, each packet is reported once and eventually.
* **Network server.**  Copies of one frame arrive in any order with events of
  the same second; the reply is built from the *last* packet when the
  opportunity comes; gateways compete.  Correct: one reply per uplink, to the
  latest, when its window is open, through the best gateway that can send, and
  none left over for a later uplink.
* **Channel plan.**  A packet is postponed for the shortest waiting time of the
  channels enabled *now*, and sent on whatever is enabled *then*; in between,
  MAC commands enable, disable, replace and move channels.  Correct: a channel
  is always enabled, the waiting time stays with the sub-band, and the transmission
  finds a free channel.
* **Class C device.**  Four kinds of window reschedule one another, with handles
  that a reception saves and restores.  Correct: the receiver is never deaf, and
  an acknowledgment that arrives is taken into account.
* **Test driver.**  Threads, queues and an interrupt at any moment.  Correct: no
  job is lost, nobody leaves early or waits for ever, and the exit code says what
  happened.

## Modules

| module | models |
|---|---|
| `DemodulatorPool` | abstract: what a gateway promises of the uplinks that reach it |
| `Gateway` | one gateway, its duty cycle and the link from the server; it implements `DemodulatorPool` |
| `Gateway_proofs` | its safety and that refinement, proved for every value of the constants |
| `EndDevice` | a class A device, the simulator's event queue, application and channel |
| `EndDevice_proofs` | its types, attempts and reports, proved for any delays and any environment |
| `EndDeviceRegular_proofs` | its procedures and its radio, proved for a device whose duty cycle outlasts the receive windows |
| `ClassCDevice` | a class C device, on top of `EndDevice`'s simulator, PHY and sending |
| `ChannelPlan` | logical channels, sub-bands, duty cycle and MAC commands of a device |
| `ChannelPlan_proofs` | its safety, proved for every value of the constants |
| `NetworkServer` | the server, with several devices as sources of uplinks and several gateways as senders |
| `NetworkServer_proofs` | its types and the safety of its replies, proved for any number of devices, gateways and uplinks |
| `TestRunner` | the main thread, the workers and the interrupt hook of `test.py` |
| `TestRunner_proofs` | its safety, proved for any number of jobs and workers |
| `MCGateway`, `MCEndDevice`, `MCClassCDevice`, `MCChannelPlan`, `MCNetworkServer`, `MCTestRunner` | instances for TLC |

Definitions whose comment begins with *Fault* are the code with one plausible
bug; they are used by nothing.  They show that a property can fail: putting one
in the place of the definition it varies makes TLC refute the property.

### Gateway

`path[p]` is `m_event` of reception path `p`, `occupied` is
`m_occupiedReceptionPaths`, `endReceive` the set of signals whose `EndReceive`
is scheduled, `fate` what the trace sources have reported, `stage` where each
downlink is (`idle`, on the `link`, `onAir`, `sent`, `aborted` by the duty
cycle, `silent`), `waiting` the sub-bands with a positive waiting time.  `list`
is the list of radios the gateway was registered on, chosen initially.

`StartReceive` has one disjunct per exit of the function (transmitting, no
demodulator, under sensitivity, lock).  `EndReceive(s, destroyed)` takes the
interference helper's verdict as an input.  `MacSend` is the whole way from the
forwarder to the PHY, with the duty-cycle check, `AddEvent`, and `PhySend`, which
frees the locked paths and cancels their events.  `MacSend(d, TRUE)` is the
branch to `SendI`, which an uninitialised flag makes possible (below).  Times on
air are arbitrary: an end is an event that may come after any others.

`ImplementsPool` says that the gateway is a `DemodulatorPool`: `fate` is the
pool's `outcome`, `isTransmitting` its `transmitting`, and an interferer's signal
is one that uses up no capacity.  The pool knows no paths, counters, handles,
links or duty cycles; a signal is refused for want of demodulators only when
`Capacity` others are being received, whatever the leaking counter says.

### EndDevice

`dev` is one record: the radio's state, the simulator's queue of this device's
events (kind, ticks left, argument, and whether the MAC's handle still refers
to the event), the duty cycle's waiting time, the retransmission parameters,
and, for the properties, what went on the air and what was reported.  Methods
are functions on such records, because they call one another several levels deep
within one event.  An action pops the first due event and applies its method;
`AppSend`, `StartReceive` and `StartReceiveI` are the environment; `Elapse`
is one tick, when nothing is due.  `fault` records the first abort: an assertion
(only with `Asserts`, since ns-3's optimized builds drop `NS_ASSERT`), the
`NS_ABORT` of a window that closes in `TX`, or the null channel that `SendToPhy`
dereferences when no sub-band is free.

The device is on the ordinary list: an interferer's packet reaches it as
`StartReceiveI`, which schedules `EndReceiveI` in any state of the radio.
Whether a copy of a packet is flagged is a choice among `CopyFlags`, because
`Packet`'s copy constructor (`src/src/network/model/packet.cc:147`) does not
initialise the flag.  Adaptation of the data rate is left out, MAC commands are
`ChannelPlan`'s; `retxLeft` is a byte (`% 256`), and the attempts are compared with
it modulo 256 too.

### ClassCDevice

It EXTENDS `EndDevice` and keeps its record `dev`, with the fields that class C
adds: `rw` is `m_deviceCurrentReceiveWindow`, `num` is
`m_numContinuousReceiveWindows`, `rx1Rem` and `rx2Rem` are the delays that
`ResetReceiveWindows` saves.  `cont1`, `cont2` and `cont3` are the events of
`OpenContinuousReceiveWindow`, `closeCont` those of its close; a tick is the
nanosecond by which the code separates a close from the next opening.
`Simulator::Schedule`'s assertion against the past is a `fault`.  `Resume` is what
`Receive` does with each kind of window.

### ChannelPlan

`channel` is `m_channelList`, each channel with its sub-band, its data rates and
whether it is enabled; `NoBand` is the sub-band of a frequency outside all of
them, for which `GetSubBandFromFrequency` returns a null pointer.  `wait` is
the time until each sub-band's `m_nextTransmissionTime`; `postponed` the time
until the event `m_nextTx`, with `Never` for `Time::Max ()`.  `sends`, `commands`
bound the inputs, and `starts`, `since`, `onAir`, `changed` exist for the properties.
`Send` computes the delay as `GetNextTransmissionDelay` does, asserts the power for
a random channel, and then sends or postpones; `DoSend` clears the answers, picks
the channel, and ends in `fault` where the code dereferences a null pointer or
throws `std::out_of_range`.  The five handlers have the conditions of the code,
its comparisons with `size ()` included, which let an index through to `at ()`.
What the receive windows leave of the delay is any of `Rests`; assertions are
compiled in; the packets are unconfirmed.

### TestRunner

`input` and `output` are the two queues, `worker[w]` what a thread does and the job
it holds, `threadExit` the global that `sigint_hook` sets, `status` what
`run_tests` has printed of each job, `wellFormed` whether the tags of the results
document match.  `Dispatch` and `DispatchBreak` queue the jobs and one break job
per worker; `Get`, `Check` and `Finish` are the three steps of a worker, between
which the interrupt may come; `SpawnFails` is an exception of `Popen`, which ends
the thread.  Suites that return 0, 1 or 2 are taken to have written their results
file.  Every process a job starts is assumed to end, with any code.

### NetworkServer

`received[d]` is `m_receivedPacketList`, each entry with its frame's number (from
which `FCnt` computes the counter), whether it asks for a link check, and the
powers of the gateways that heard it.  `needsReply[d]` is the reply in
preparation, whose ACK bit is set and cleared with it.  `opps` is the queue of
`OnReceiveWindowOpportunity` events.  `copies` and `downlinks` are on the links,
which take 2 ms, so they arrive within their tick, in any order with what else
happens in it.  A gateway has the flag `transmitting`, its pending `TxFinished`
events, and its waiting time in the sub-band of each window.  `age`, `heard` and
the fields `latest`, `age`, `heard` of a reply exist for the properties.

`Receive` keeps the code's order: the scheduler compares the counter with the
last entry *before* the status inserts the copy, then the controller sets the
acknowledgment, for every copy.  The four outcomes of an opportunity are
`TryOtherWindow`, `GiveUp`, `NoReplyNeeded` and `Answer`.
`GetPowerGatewayMap` drops a gateway whose power equals another's, as the map
keyed by power does.  Class C devices try the windows in the other order.

## Runs

| run | shows |
|---|---|
| `gateway` | The safety properties, `OneOutcome`, `ReceptionEnds` and `ImplementsPool`, for four signals (one an interferer's), two demodulators, three downlinks, two of them in one limited sub-band and one in an unlimited one. |
| `end_device` | A confirmed device, three packets of up to three attempts, downlinks that acknowledge, are lost, damaged or foreign, a duty cycle that outlasts the windows: MAC, radio and events stay consistent, nothing aborts, each packet is reported once and eventually. |
| `end_device_aloha` | No duty cycle: the retransmissions of a lone packet are still at least the shortest `ACK_TIMEOUT` apart, and never too many, also with downlinks that outlast the second window. |
| `end_device_noise` | Interferer's packets at any time, arrivals in the 10 ns after a transmission, no assertions: still never too many attempts, nor a second report. |
| `end_device_attempts` | **Refuted**: a packet is sent at most as often as allowed.  A retransmission asked for by a failed reception is sent at once while another is still postponed; both run, and `retxLeft` wraps to 255 (`end-device-lorawan-mac.cc:340`). |
| `end_device_postponed` | **Refuted**: a packet that cannot be sent yet is sent later.  The second window of the previous packet closes and cancels it (`end-device-lorawan-mac.cc:967`). |
| `end_device_windows` | **Refuted**: windows open after each transmission.  `Send` no longer schedules `TxFinished` (`simple-end-device-lora-phy.cc:96`); only `SendI` does. |
| `class_c_ack` | **Refuted**: a packet whose acknowledgment was received is not reported as failed.  Only class A leaves the retransmission procedure (`end-device-lorawan-mac.cc:479`). |
| `channel_plan` | Three channels in two sub-bands, three packets, two MAC commands of any kind, their values inside and at the ends of the tables: a channel stays enabled, no two transmissions of a sub-band overlap, a postponed packet is sent, and it lacks a free channel only when a command changed the plan while it was postponed. |
| `network_server` | A confirmed class A device with two uplinks and a class C device that asks for link checks share two gateways: the seven properties of replies. |
| `network_server_wrap` | **Refuted**: `GetLastPacketReceivedFromDevice` returns the last packet received.  When the 8-bit counter has wrapped, a new uplink is filed under an old entry (`end-device-status.cc:291`). |
| `test_runner` | Two workers, two suites (one skipped), two examples, any return codes, an interrupt at any moment, workers that may die: the loop over `range(jobs)` collects exactly what was queued, the workers stay while there is work, the exit code is 0 only when every job passed or was skipped, and the driver ends unless a worker died. |

Two consequences deserve a note.  Because of `end_device_windows`, the passing
runs of `EndDevice` take `CopyFlags = {TRUE}`, the value of the uninitialised
flag with which a device has its windows at all; with `{FALSE}` most of its
properties hold because nothing ever follows a transmission.  And the comment on
acknowledgments in `network-controller-components.cc` ("only snt in response to
the latest message received and are never retransmitted") relies on
`OnFailedReply`, which nobody calls; `ReplyResolved` and `RepliesAdvance` show
that the scheduler's own `InitializeReply` is enough, as long as the counter
does not wrap.

### Other values of the constants

The models refute more than the project spends runs on.  Where the refuted
statement is a property of its own it is defined beside the others, and adding
it to the named configuration shows the counterexample.

Gateway:

* `MCGateway` with `CounterIsOccupied`: fails.  `m_occupiedReceptionPaths` is "the
  number of occupied reception paths" (`gateway-lora-phy.h:191`, also
  `gateway-lora-phy.cc:117` and `lorawan.rst:453-454`), but `Send` frees the locked paths without
  decrementing it (`simple-gateway-lora-phy.cc:98`), so it stays too high from the first
  reception that a downlink interrupts.
* `MCGateway` with `FlagMeansOnAir`: fails.  `m_isTransmitting` tells "whether a
  transmission is going on" (`gateway-lora-phy.h:211`), but two downlinks in
  different sub-bands overlap and the end of the first clears the flag of both
  (`gateway-lora-phy.cc:156`).  `HalfDuplex` and `FlagNeverStuck` are what holds of it.

End device:

* `MCEndDevice` with `"data"` in `Contents`: `EventuallyReported` fails, since a
  downlink without the ACK bit cancels the second window and ends the procedure
  silently (`class-a-end-device-lorawan-mac.cc:106`).  This server's downlinks
  to a confirmed device carry the bit, which is why the run leaves `"data"` out.
* `MCEndDevice` with `EdgeSize = TRUE`: `EventuallyReported` fails, since a
  retransmission is measured with its headers and refused (`:193`).
* `MCEndDevice` with `NumNoise = 1`, or with `GapArrivals = TRUE`: `NoAbort`
  fails, since the radio is not in STANDBY, as `SwitchToSleep` asserts, when a
  window closes or `TxFinished` runs (`simple-end-device-lora-phy.cc:141-146`).
* `MCEndDevice` with two packets and a duty cycle that ends within the windows
  (`DutyWait = 0` or `3`): `NoAbort` fails, in `SwitchToTx`'s assertion that the
  radio is not receiving (`end-device-lora-phy.cc:152`), or in the
  abort of a first window that closes in `TX`
  (`end-device-lorawan-mac.cc:804`), and with `DutyWait = 3` also at the null
  channel of a postponed `DoSend` (`:386`); `AttemptsCounted` fails, since the PHY
  drops a packet while it is busy and the MAC counts it
  (`simple-end-device-lora-phy.cc:64`).
* `MCEndDevice` with three packets, `CopyFlags = {FALSE}` and `DutyWait = 0`:
  `ReportedOnce` fails for the same reason.  A packet handed over during the
  transmission of another is dropped, and reported as sent once, although the
  trace source gives the "Total number of transmissions required to deliver this
  packet" (`end-device-lorawan-mac.cc:46`).
* `MCEndDeviceAloha` with `NoAbort`: `SwitchToTx`'s assertion fails when a downlink
  outlasts the second window.

Class C device, besides `class_c_ack`: an event is scheduled in the past, two
windows are open at a time, the radio is set to STANDBY in the middle of its own
transmission by `OpenSecondReceiveWindow`, and there are more than the three
continuous openings the header promises
(`class-c-end-device-lorawan-mac.h:66`), all without any downlink; with two
receptions the receiver may stay deaf, with three the attempts exceed the maximum.

Channel plan (known limits of the code, which the model has as faults or simply
follows):

* A postponed packet meets a null channel when a command has changed the enabled
  channels meanwhile (`NullOnlyAfterCommand` is the exact condition).
* `MCChannelPlan` with `OffTimeKept`: fails.  After a transmission the device is to
  stay off its sub-band for `t_air / dc - t_air` (`lorawan.rst:281-287`), but the code counts
  that time from the start of the transmission (`logical-lora-channel-helper.cc:236`), so
  the sub-band is free one time on air too early; with a duty cycle above 1/2, before the
  transmission has ended.  `NoOverlap` is what holds, up to 1/2.
* The aggregated duty cycle is set by `OnDutyCycleReq` and computed by `AddEvent`,
  and nothing reads it.
* `index == size ()` passes the checks of the power (`lorawan-mac.cc:140`), of the
  data rate (`:127`) and of the channel mask, and then throws; `OnNewChannelReq`
  can replace a channel but not add one; `OnRxParamSetupReq` applies what its
  answer refuses, and an offset of 6 or 7 throws at the next transmission (`:407`).
* The power is asserted for a randomly chosen channel, which need not be the one used,
  and not at all for a postponed packet (`:229`).

This server's controller sends only `LinkCheckAns` and, with the ADR component, valid
`LinkAdrReq`s: the values at the ends of the tables come from other controllers.

Network server:

* `MCNetworkServer` with `MinGap = 1`: `RepliesInWindow` fails, since the
  opportunity of one uplink consumes the reply of the next.  The device can
  send that soon only in the ALOHA region.
* `MCNetworkServer` with `EqualPowers = TRUE`: `UsedWhenPossible` fails, although the
  first window is to be used "whenever possible" (`lorawan.rst:309`).  Of two gateways
  that hear a device equally well only the first is considered
  (`end-device-status.cc:391`), so a reply is put off while the other could send it.
* With both devices confirmed, two replies decided in one instant go to the same
  gateway, since no caller books it (`gateway-status.cc:99`), and one of
  them is dropped there: an accepted reply is not always sent.

Test driver:

* With `Translate = TRUE` the driver may end in `raised`: the entry faked for a
  suite that crashed closes `<Result>` with `</Suite>` (`test.py:1736`), and the
  XML parser that `--html` and `--text` use raises, after every test has run.
* When `Popen` raises in a worker, the main thread waits for that job for ever
  (`:1608`); `Terminates` therefore excepts a dead worker.
* The branch for suites that failed under valgrind (`:1740`) is inside the `else` of
  the test that their return code satisfies, so it never runs, contrary to the comment
  above it.

### Bounds

* Gateway: two demodulators let one be free while the other is locked, four
  signals fill them and find none free; three downlinks are two in one sub-band
  and one beside them.  Each is used once, so runs are finite.
* End device: three attempts are a first, a middle and a last one; three packets
  let one arrive during and one after a procedure.  A tick is half a receive
  delay.  Receptions last longer than a window, as real downlinks do.
  `DutyWait = 12` outlasts the windows, the longest downlink in one and `ACK_TIMEOUT`, as 1% of any uplink does;
  `AckTimeouts` are the ends of the random interval.
* Network server: one tick is the second between opportunities.  `MinGap = 3`
  keeps uplinks of a device farther apart than its opportunities: at 1% even the
  shortest frames, of some 40 ms, take longer than that.  A downlink lasts two ticks, so
  two instants' replies compete; the waiting times `<<3, 2>>` are scaled down from
  99 and 9 times the time on air so that a gateway becomes free again within a
  run.  `CounterSize = 2` in `network_server_wrap` stands for 256.
* Class C device: two packets of two attempts, one reception; enough for the
  refutation, and no property is claimed to hold.
* Channel plan: two channels share a sub-band and one has its own, so a packet may
  wait for the other channel of its sub-band or use the free one; duty cycles of
  1/3 and 1/2 stand for 1% and 10%, so that the waiting times (4 and 2 ticks)
  are longer than, equal to and shorter than what is left of the windows.  Three packets
  are two that make both sub-bands wait and one postponed, two commands are one
  before and one during the postponement, or one that prepares the other.  `since`
  stops at `Horizon`, the longest time on air and off together.  The sets of values have one member
  inside each table and one just past it.
* Test driver: two workers so that one can hold a job while the other leaves; four jobs
  so that there are more than workers, and of both kinds; codes 0, 1, 2 and one other.

### Fairness

The simulator runs every event it has scheduled, and time passes: weak fairness
on running events, on time, and on the links' deliveries.  No fairness is given
to applications, devices that send, arrivals, losses or MAC commands.  In the
test driver each thread is scheduled and each process ends; none is given to the
interrupt.  `CHECK_DEADLOCK` is off
for the gateway, the devices and the channel plan, which stop when the bounded
inputs are used up or the device has aborted, and for the test driver, which ends.

## Proofs

`Gateway_proofs` proves, for any number of demodulators, signals, downlinks and
sub-bands, from `GatewayAssumption` alone:

* `EachEventHasItsPath` (`PathsMatchEvents`), `RadioIsHalfDuplex` (`HalfDuplex`),
  `FlagIsReset` (`FlagNeverStuck`) and `OneDownlinkPerBand`
  (`OneTransmissionPerBand`), all from one invariant.  `PathsMatchEvents` is not inductive
  alone: that locking a path for a new signal cannot duplicate an event needs
  `EventsMatchFates` (an event is scheduled exactly when the signal's fate is
  "receiving"); that a second downlink does not enter a sub-band needs
  `OnAirWaits` (a limited sub-band on the air is still waiting).  `IInv` is
  their conjunction; there is one lemma for each kind of step.
* `GatewayTyped`: `TypeOK`.  That the counter never goes below zero is a lemma of its
  own (`OccupiedCounter`): since `Send` does not decrement it, it exceeds the locked
  paths by the receptions interrupted so far.  A step either leaves the
  paths alone, adds a locked path, frees one, or turns all locked paths into
  interrupted signals; the last case uses that paths and their signals are in
  bijection.  The counter is meant to be the locked paths alone (`CounterIsOccupied`,
  which TLC refutes).
* `OutcomeFinal`: `OneOutcome`, from the same invariant.
* `PoolRefined`: the safety half of `ImplementsPool`: initial states and steps
  of the gateway are the pool's, or stutter.  It needs `OrdinaryLocked` (only
  signals without the flag lock a path), and that the pool's receptions and the
  locked paths are in bijection: then "every path is locked" and "capacity is
  used up" are the same, which is `FullPool`.

`ChannelPlan_proofs` proves, for any plan, duty cycles, tables, packets and
commands, from `ChannelPlanAssumption`:

* `ChannelRemains`: `SomeChannelEnabled`.  A `LinkAdrReq` that is accepted leaves a
  channel of its mask with the data rate enabled, and a `NewChannelReq`
  replaces a channel by an enabled one.
* `NeverOverlaps`: `NoOverlap`, for sub-bands with a duty cycle of at most 1/2 (a
  condition of the property; in a sub-band without limit it is false).  The
  invariant is `WaitCoversDue`: a sub-band waits for `t_air / dc - t_air` from the
  start of its last transmission, which a limited duty cycle makes no shorter than the
  transmission (`OffTimeNat`); a transmission needs a waiting time of zero.  That it is no
  longer is why `OffTimeKept` fails.
* `NullExplained`: `NullOnlyAfterCommand`.  While a packet is postponed and no
  command has changed the plan, some enabled channel of a known sub-band will have
  stopped waiting when the delay is over (`Ready`).
* `PlanTyped`: `TypeOK`.  The transmission powers are a vector, so that an index is
  either inside it or refused or, in the one place that lets `size ()` pass, a fault
  that ends the run: the assumption on `Dbm` says so.

`TestRunner_proofs` proves, for any number of jobs and workers, any return codes
and an interrupt or dying worker at any moment, from `TestRunnerAssumption`:

* `JobsAccountedFor`: `NoJobLost`.  The invariant `JobInv` says that the jobs in
  the input queue, with the workers and in the output queue are disjoint and each
  there once; `FlightStep` that a step adds the next job to the jobs in flight, takes
  one away or leaves them alone, so that their number is always `jobs - collected`.
* `HonestExit`: `ExitCodeHonest`.  The loop ends only when all jobs are queued, and
  there are as many names as jobs, so as many passed or skipped as queued
  means all of them.
* `WorkersStay`: `WorkersStayForWork`.  The invariant `BreakInv`: some first entries
  of the input queue are jobs, all others break jobs; a worker has left only
  when no job is in front; the workers that stay are as many as the break jobs
  queued or still to be.
* `RunnerTyped`: `TypeOK`.  The counters need `JobInv` (no more results are waited for
  than jobs were queued) and that there is at least one worker, which the driver
  ensures (`test.py:1307`).

`NetworkServer_proofs` proves, for any number of devices, gateways and uplinks, any
links and airtimes, from `NetworkServerAssumption` and the hypotheses named in each
theorem:

* `ServerTyped`: `TypeOK`.  The invariant `TypeInv` adds that the opportunities are
  ordered by time, that a device with an opportunity has an entry, that a copy on
  a link is of the latest uplink of its device, sent in this instant, and that entries
  are of uplinks that were sent.
* `LastEntryIsLatest`: `LastIsLatest`, if `NoWrap` (no device sends more uplinks than
  its counter has values).  The invariant `Filed` says that every uplink that
  any gateway has forwarded is one entry, at its place.  `network_server_wrap`
  refutes the same property without `NoWrap`.
* `RepliesHitTheirWindow` (`RepliesInWindow`), `NoUplinkAnsweredTwice`
  (`RepliesAdvance`) and `EveryGatewayCounted` (`AllGatewaysCounted`), if `NoWrap` and
  `Spaced` (uplinks of a device are three seconds apart).  `OppsTimely` says that a
  device has one opportunity at a time, and that the age of its latest uplink and the
  time left add up to the delay of the window it is for; `RepliesBehind`, that the replies sent are to
  earlier uplinks than one still to be answered.  `Spaced` is what the
  duty cycle of 1% gives (see Bounds); with `MinGap = 1` TLC refutes it.
* `WindowUsedWhenPossible` (`UsedWhenPossible`) and `BestGatewaySends`
  (`BestGatewayUsed`), if `NoWrap` and no two gateways hear an uplink equally well.
  The server looks for a gateway in a map whose key is the power
  (`network-status.cc:155`), which forgets one of two equals; `PowersDistinct` says
  that no entry holds two.  A finite set of gateways has a best one by an argument on
  the number of better ones (`BestOf`).

`EndDevice_proofs` proves, for any packets, delays, timeouts, flags and arrivals, from
`EndDeviceAssumption`:

* `DeviceTyped`: `TypeOK`.  It needs the order of the queue (`Ordered`: the events
  not yet run are in the order of their times, so time never passes one), through
  insertions, cancellations and removals: `Enqueued`, `Dequeued` and
  `CancelDevice` say what each of these does to the events of every kind.
* `NeverReportedAgain` (`NoSecondReport`): the trace source never fires twice for a
  packet.  The invariant `Books` says that what may still be sent (the
  argument of the `DoSend` event) is the copy under retransmission or a packet
  newer than it, and that a reported packet is neither.  It also holds of runs that
  abort, and when interferer's packets reach the device.
* `AttemptsAreCounted` (`AttemptsCounted`) and `ReportedOnceTruly` (`ReportedOnce`), if
  `FlaggedCopies` (`CopyFlags = {TRUE}`).  `Ledger` adds to `Books` that the attempts
  counted are those on the air, modulo 256, until an abort.  The hypothesis is needed:
  a copy without the flag goes through `Send`, which a busy PHY drops after the
  MAC has counted it.

`EndDeviceRegular_proofs` proves what the run `end_device` checks of the radio and of
the windows, and the two properties of `end_device_aloha`, for a device that is
`Regular`: its transmissions carry the flag, no interferer's packet reaches it, no
downlink begins in the 10 ns after a transmission, the first window closes before
the second opens, and the duty cycle is longer than a transmission, the
windows and any reception that begins in them.  At 1% the waiting time is
99 transmissions: an uplink of 40 ms leaves 1.6 s to a reception in the second
window, and longer ones more.  `MCEndDevice.cfg` is `Regular` with nothing to spare.
Outside of it TLC refutes them: `NumNoise = 1`, `GapArrivals` and `DutyWait = 3` break `NoAbort`
(above), `DutyWait = 0` breaks `AttemptsBounded` (`end_device_attempts`).

* `NeverAborts` (`NoAbort`), `RadioSleeps` (`RadioWillSleep`), `WindowsAreUndisturbed`
  (`WindowsUndisturbed`), `OneProcedureAtATime` (`OneProcedure`).  None is inductive.
  Once there is at most one event of each kind, the queue can be read as a *clock*:
  the time left until the event of each kind, or -1.  `Rules` relates that
  clock, the state of the radio and the duty cycle: which events exclude which,
  in what state each finds the radio, and that the waiting time of the duty cycle is
  longer (`Slack`) than the time left to every event but `DoSend`, plus a
  reception.  A `DoSend` event that is due therefore finds the radio asleep
  and nothing else queued.  The lemmas `...Rules` are pure arithmetic on clocks, one per
  action; the lemmas `...Steady` bring the action to them.
* `AttemptsAreBounded` (`AttemptsBounded`): `Tried` says, without the modulus, that
  attempts made and left add up to `m_maxNumbTx`, and `Prospect` that a queued
  retransmission has one left.
* `TimeoutIsRespected` (`AckTimeoutRespected`): `Prospect` also says that a queued
  retransmission comes no earlier than the shortest timeout after the second
  window.  `Elapse` stops the age of that window at the longest timeout, which is at
  least the shortest (`TooOld`, for a finite set of timeouts).

For a lone packet without a duty cycle, and with interferer's packets, `AttemptsBounded`
and `AckTimeoutRespected` are only model-checked (`end_device_aloha`, `end_device_noise`).

Only model-checked besides: liveness (`ReceptionEnds`, the fairness half of
`ImplementsPool`, `EventuallyReported`, `ReplyResolved`, `PostponedEnds`,
`Terminates`), which is out of the prover's reach.

## Not modelled

* Signal powers, interference, propagation, shadowing and energy: real-valued sums
  and logarithms; the models take every verdict of them.
* The ADR component, a computation on measured powers, and the encoding and
  decoding of headers and commands.
* The adaptation of the data rate between retransmissions, and the second window's
  data rate and frequency.
* Set-up by the helpers (their results are the models' constants), the packet
  tracker and other statistics, the scenarios and scratch scripts.
* In `test.py`: the build, the choice of suites, and the wording of the results.
* The 802.11ah Wi-Fi and ns-3 itself, which are upstream code that this
  repository carries; `Schedule`, `Cancel` and `IsExpired` are external definitions
  of `EndDevice`.

Of the repository's Python, nearly all lines are generated bindings
(`bindings/modulegen__*.py`: one registration call per C++ symbol, without state),
the rest build scripts, plots, upstream tools such as the PyViz visualizer (which no
LoRa scenario uses) and the driver modelled here.  The system's own logic
is the C++ of `src/src/lorawan`, which is what the models follow; modelling more
of the Python would add nothing about this program.

## Plan

Done: the gateway, its abstract pool and their proofs; the class A and class C
devices, and the proofs of class A; the channel plan and its proofs; the network
server and its proofs; the test driver and its proofs.  Next, in this order:

1. Proofs about a lone packet without a duty cycle (`end_device_aloha`): how far
   `AttemptsBounded` and `AckTimeoutRespected` hold outside `Regular`.
2. `LoraWan`: device, gateway and server composed, for the question of whether an
   acknowledgment sent is received.
