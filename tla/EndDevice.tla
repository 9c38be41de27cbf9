------------------------------ MODULE EndDevice ------------------------------
(***************************************************************************)
(* A class A end device: ClassAEndDeviceLorawanMac over                    *)
(* SimpleEndDeviceLoraPhy, with the application above and the channel      *)
(* below as its environment.  The MAC and the PHY act only when called and *)
(* when the simulator runs an event they scheduled, so the model keeps the *)
(* simulator's event queue, in the order ns-3 runs it: by time, and first  *)
(* scheduled first among equals.  Time advances in ticks (Elapse) when no  *)
(* event is due.                                                           *)
(*                                                                         *)
(* The state of the device is one record, and each method of the code a    *)
(* function from such records to such records: methods call each other     *)
(* several levels deep within one event.                                   *)
(***************************************************************************)
EXTENDS Integers, FiniteSets, SequencesExt

CONSTANTS
  NumPackets,   \* the application sends packets 1 .. NumPackets
  Confirmed,    \* m_mType is CONFIRMED_DATA_UP
  AppFlag,      \* the application marks its packets as an interferer's
  CopyFlags,    \* what the uninitialised interferer flag of a copy may be
  EdgeSize,     \* payloads that fit, but no longer do once headers are added
  MaxNumbTx,    \* m_maxNumbTx
  TxTime,       \* time on air of an uplink
  DutyWait,     \* GetWaitingTime just after a transmission began
  Delay1,       \* m_receiveDelay1
  Delay2,       \* m_receiveDelay2
  Window,       \* duration of a receive window
  AckTimeouts,  \* values of the random ACK_TIMEOUT
  Contents,     \* what may be received: see AllContents
  Durations,    \* time on air of what the device may receive
  GapArrivals,  \* whether something may arrive in the 10 ns after a transmission
  Asserts,      \* NS_ASSERT is compiled in, as in ns-3's debug builds
  NumNoise      \* how many interferer's packets may reach the device

ASSUME EndDeviceAssumption ==
  /\ Confirmed \in BOOLEAN /\ AppFlag \in BOOLEAN /\ EdgeSize \in BOOLEAN
  /\ GapArrivals \in BOOLEAN /\ Asserts \in BOOLEAN
  /\ CopyFlags \subseteq BOOLEAN /\ CopyFlags # {}
  /\ {NumPackets, DutyWait, NumNoise} \subseteq Nat
  /\ {TxTime, Delay1, Delay2, Window, MaxNumbTx} \subseteq Nat \ {0}
  /\ AckTimeouts \subseteq Nat \ {0} /\ AckTimeouts # {} /\ IsFiniteSet(AckTimeouts)
  /\ Contents \subseteq {"ack", "data", "other"}
  /\ Durations \subseteq Nat \ {0}
  /\ Delay1 + Window <= Delay2 /\ MaxNumbTx < 256

VARIABLES
  dev,     \* the device and the events it has scheduled
  sent,    \* how many packets the application has handed to the MAC
  noise    \* how many interferer's packets have reached the device

vars == <<dev, sent, noise>>

\* A Ptr<Packet>: the application's object or the MAC's copy of it.
Pointers == [pkt : 0 .. NumPackets, copy : BOOLEAN, flag : BOOLEAN]
NoPacket == [pkt |-> 0, copy |-> FALSE, flag |-> FALSE]
AppPacket(n) == [pkt |-> n, copy |-> FALSE, flag |-> AppFlag]

Events == {"standby", "txFinished", "openFirst", "closeFirst", "openSecond",
           "closeSecond", "doSend", "endReceive", "endReceiveI"}

\* What a reception carries: an acknowledgment for this device, another
\* downlink for it, or a packet that is not for it.
AllContents == {"ack", "data", "other"}

Init ==
  /\ dev = [phy |-> "SLEEP", queue |-> <<>>, secondTs |-> 0, duty |-> 0,
            waitingAck |-> FALSE, retxLeft |-> MaxNumbTx, retxPkt |-> NoPacket,
            fault |-> "none",                       \* the abort that ended the run
            onAir |-> [n \in 1 .. NumPackets |-> 0],  \* transmissions of each packet
            reports |-> <<>>]                       \* m_requiredTxCallback
  /\ sent = 0
  /\ noise = 0

-----------------------------------------------------------------------------
(* The simulator.                                                          *)

\* Simulator::Schedule, the returned EventId replacing the MAC's handle on
\* the last event of this kind.
Schedule(d, kind, delay, arg) ==
  LET old == [i \in DOMAIN d.queue |->
                IF d.queue[i].kind = kind THEN [d.queue[i] EXCEPT !.handle = FALSE]
                                          ELSE d.queue[i]]
      before == Cardinality({i \in DOMAIN old : old[i].left <= delay})
  IN [d EXCEPT !.queue = InsertAt(old, before + 1,
        [kind |-> kind, left |-> delay, arg |-> arg, handle |-> TRUE])]

IsPending(d, kind) ==
  \E i \in DOMAIN d.queue : d.queue[i].kind = kind /\ d.queue[i].handle

\* Simulator::Cancel of the MAC's handle, which only the last event of its
\* kind has.
Cancel(d, kind) ==
  IF IsPending(d, kind)
    THEN [d EXCEPT !.queue = RemoveAt(@,
            CHOOSE i \in DOMAIN d.queue : d.queue[i].kind = kind /\ d.queue[i].handle)]
    ELSE d

Abort(d, why) == [d EXCEPT !.fault = why]

-----------------------------------------------------------------------------
(* EndDeviceLoraPhy and SimpleEndDeviceLoraPhy.                            *)

SwitchToStandby(d) == [d EXCEPT !.phy = "STANDBY"]

SwitchToSleep(d) ==
  IF Asserts /\ d.phy # "STANDBY" THEN Abort(d, "sleepAssert")
                                  ELSE [d EXCEPT !.phy = "SLEEP"]

SwitchToTx(d, p) ==
  Schedule([d EXCEPT !.phy = "TX", !.onAir[p.pkt] = @ + 1], "standby", TxTime, p)

\* Send leaves the callback commented out: TxFinished will not be called.
PhySend(d, p) == IF d.phy \in {"STANDBY", "SLEEP"} THEN SwitchToTx(d, p) ELSE d

PhySendI(d, p) ==
  IF Asserts /\ d.phy = "RX" THEN Abort(d, "txAssert")
                             ELSE Schedule(SwitchToTx(d, p), "txFinished", TxTime, p)

-----------------------------------------------------------------------------
(* EndDeviceLorawanMac: transmission and retransmission.                   *)

Report(d, success) ==
  [d EXCEPT !.reports = Append(@, [pkt |-> d.retxPkt.pkt, success |-> success,
                                   txs |-> (MaxNumbTx - d.retxLeft) % 256])]

resetRetransmissionParameters(d) ==
  Cancel([d EXCEPT !.waitingAck = FALSE, !.retxLeft = MaxNumbTx, !.retxPkt = NoPacket],
         "doSend")

\* Fault: the transmission is not recorded for the duty cycle.
SendToPhyNoEvent(d, p) ==
  IF d.duty # 0 THEN Abort(d, "nullChannel")
  ELSE IF p.flag THEN PhySendI(d, p) ELSE PhySend(d, p)

\* The channel is null when the only sub-band must still wait.
SendToPhy(d, p) ==
  IF d.duty # 0 THEN Abort(d, "nullChannel")
  ELSE [(IF p.flag THEN PhySendI(d, p) ELSE PhySend(d, p)) EXCEPT !.duty = DutyWait]

\* Fault: the first attempt is not counted.
DoSendUncounted(d, p, flag) ==
  IF p # d.retxPkt
    THEN LET ended == IF d.waitingAck THEN Report(d, FALSE) ELSE d
             fresh == resetRetransmissionParameters(ended)
             copy  == [p EXCEPT !.copy = TRUE, !.flag = flag]
         IN IF Confirmed
              THEN SendToPhy([fresh EXCEPT !.retxPkt = copy, !.waitingAck = TRUE], copy)
              ELSE SendToPhy(fresh, p)
    ELSE IF d.waitingAck THEN SendToPhy([d EXCEPT !.retxLeft = (@ - 1) % 256], p) ELSE d

\* A pointer other than that of the copy under retransmission is a new packet.
DoSend(d, p, flag) ==
  IF p # d.retxPkt
    THEN LET ended == IF d.waitingAck THEN Report(d, FALSE) ELSE d
             fresh == resetRetransmissionParameters(ended)
             copy  == [p EXCEPT !.copy = TRUE, !.flag = flag]
         IN IF Confirmed
              THEN SendToPhy([fresh EXCEPT !.retxPkt = copy, !.waitingAck = TRUE,
                                           !.retxLeft = @ - 1], copy)
              ELSE SendToPhy(fresh, p)
    ELSE IF d.waitingAck THEN SendToPhy([d EXCEPT !.retxLeft = (@ - 1) % 256], p) ELSE d

\* Faults: the duty cycle, or ACK_TIMEOUT, is ignored.
DelayWithoutDuty(d, timeout) ==
  IF d.waitingAck /\ d.secondTs + timeout > 0 THEN d.secondTs + timeout ELSE 0

DelayWithoutTimeout(d, timeout) == d.duty

GetNextTransmissionDelay(d, timeout) ==
  LET windows == IsPending(d, "closeFirst") \/ IsPending(d, "closeSecond")
                 \/ IsPending(d, "openSecond")
      wait == IF d.waitingAck THEN d.secondTs + timeout
              ELSE IF windows THEN d.secondTs + Window ELSE 0
  IN IF wait > d.duty THEN wait ELSE d.duty

postponeTransmission(d, delay, p) == Schedule(Cancel(d, "doSend"), "doSend", delay, p)

\* A retransmitted copy carries its headers when its size is checked again.
Send(d, p, timeout, flag) ==
  LET delay == GetNextTransmissionDelay(d, timeout) IN
  IF EdgeSize /\ p.copy THEN d
  ELSE IF delay # 0 THEN postponeTransmission(d, delay, p)
  ELSE IF d.retxLeft > 0 THEN DoSend(d, p, flag)
  ELSE d

\* Fault: the attempts left are not looked at.
RetryForever(d, timeout, flag) == Send(d, d.retxPkt, timeout, flag)

\* No acknowledgment came: try again, or give up.
Retry(d, timeout, flag) ==
  IF d.retxLeft > 0 THEN Send(d, d.retxPkt, timeout, flag)
                    ELSE resetRetransmissionParameters(Report(d, FALSE))

-----------------------------------------------------------------------------
(* Reception: the PHY's callbacks into the MAC.                            *)

\* Fault: a reception that fails in the second window is forgotten.
FailedReceptionNoRetry(d, timeout, flag) == SwitchToSleep(d)

FailedReception(d, timeout, flag) ==
  LET asleep == SwitchToSleep(d) IN
  IF asleep.waitingAck /\ ~IsPending(asleep, "openSecond")
    THEN Retry(asleep, timeout, flag) ELSE asleep

\* Fault: the acknowledgment is reported but the procedure goes on.
ParseAckNoReset(d) == IF d.waitingAck THEN Report(d, TRUE) ELSE d

\* ParseCommands, but for the MAC commands that follow the acknowledgment.
ParseAck(d) == IF d.waitingAck THEN resetRetransmissionParameters(Report(d, TRUE)) ELSE d

Receive(d, content, timeout, flag) ==
  LET forUs == Cancel(d, "openSecond")
      notForUs == IF d.waitingAck /\ ~IsPending(d, "openSecond")
                    THEN Retry(d, timeout, flag) ELSE d
  IN SwitchToSleep(IF content = "ack" THEN ParseAck(forUs)
                   ELSE IF content = "data" THEN forUs ELSE notForUs)

-----------------------------------------------------------------------------
(* Actions: the simulator runs the first event, when it is due.            *)

Running == dev.fault = "none"
Due(kind) == Running /\ dev.queue # <<>> /\ Head(dev.queue).left = 0
             /\ Head(dev.queue).kind = kind
Arg == Head(dev.queue).arg
Popped == [dev EXCEPT !.queue = Tail(@)]
Idle == UNCHANGED <<sent, noise>>

StandbyEvent == Due("standby") /\ dev' = SwitchToStandby(Popped) /\ Idle

\* The first window's event is kept by no handle: nothing can cancel it.
TxFinished ==
  /\ Due("txFinished")
  /\ LET rx1 == Schedule(Popped, "openFirst", Delay1, NoPacket)
         rx2 == Schedule(rx1, "openSecond", Delay2, NoPacket)
     IN dev' = SwitchToSleep([rx2 EXCEPT !.secondTs = Delay2])
  /\ Idle

OpenFirstReceiveWindow ==
  /\ Due("openFirst")
  /\ dev' = Schedule(SwitchToStandby(Popped), "closeFirst", Window, NoPacket)
  /\ Idle

CloseFirstReceiveWindow ==
  /\ Due("closeFirst")
  /\ dev' = CASE dev.phy = "TX" -> Abort(Popped, "closeInTx")
              [] dev.phy = "STANDBY" -> SwitchToSleep(Popped)
              [] OTHER -> Popped
  /\ Idle

\* Fault: nothing will close the second window.
OpenSecondNoClose ==
  /\ Due("openSecond")
  /\ dev' = IF dev.phy = "RX" THEN Popped ELSE SwitchToStandby(Popped)
  /\ Idle

OpenSecondReceiveWindow ==
  /\ Due("openSecond")
  /\ dev' = IF dev.phy = "RX" THEN Popped
            ELSE Schedule(SwitchToStandby(Popped), "closeSecond", Window, NoPacket)
  /\ Idle

CloseSecondReceiveWindow(timeout, flag) ==
  /\ Due("closeSecond")
  /\ LET closed == IF dev.phy = "STANDBY" THEN SwitchToSleep(Popped) ELSE Popped IN
     dev' = IF dev.phy = "RX" THEN Popped
            ELSE IF dev.waitingAck THEN Retry(closed, timeout, flag)
            ELSE resetRetransmissionParameters(Report(closed, TRUE))
  /\ Idle

DoSendEvent(flag) == Due("doSend") /\ dev' = DoSend(Popped, Arg, flag) /\ Idle

EndReceive(destroyed, timeout, flag) ==
  /\ Due("endReceive")
  /\ LET standby == SwitchToStandby(Popped) IN
     dev' = IF destroyed THEN FailedReception(standby, timeout, flag)
                         ELSE Receive(standby, Arg, timeout, flag)
  /\ Idle

\* The end of an interferer's packet: never destroyed, it goes to the MAC.
EndReceiveI(timeout, flag) ==
  /\ Due("endReceiveI")
  /\ dev' = Receive(SwitchToStandby(Popped), Arg, timeout, flag)
  /\ Idle

-----------------------------------------------------------------------------
(* Actions of the environment, and time.                                   *)

AppSend(timeout, flag) ==
  /\ Running
  /\ sent < NumPackets
  /\ sent' = sent + 1
  /\ dev' = Send(dev, AppPacket(sent + 1), timeout, flag)
  /\ UNCHANGED noise

\* The PHY locks in STANDBY, on the right frequency and spreading factor;
\* every other arrival only adds to the interference.  SendI schedules
\* TxFinished 10 ns after the switch to STANDBY.
StartReceive(content, duration) ==
  /\ Running
  /\ dev.phy = "STANDBY"
  /\ GapArrivals \/ ~Due("txFinished")
  /\ dev' = Schedule([dev EXCEPT !.phy = "RX"], "endReceive", duration, content)
  /\ Idle

\* An interferer's packet reaches a PHY of the ordinary list, whose state is
\* not looked at; it is always somebody's uplink.
StartReceiveI(duration) ==
  /\ Running
  /\ noise < NumNoise
  /\ noise' = noise + 1
  /\ dev' = Schedule(dev, "endReceiveI", duration, "other")
  /\ UNCHANGED sent

Longest(S) == CHOOSE x \in S : \A y \in S : y <= x

\* Fault: GetWaitingTime does not stop at zero.
ElapseNoClamp ==
  /\ Running
  /\ dev.queue # <<>> => Head(dev.queue).left > 0
  /\ dev' = [dev EXCEPT !.queue = [i \in DOMAIN dev.queue |-> [dev.queue[i] EXCEPT !.left = @ - 1]],
                        !.duty = @ - 1]
  /\ Idle

\* One tick.  Older than any timeout, the opening time of the second window
\* no longer matters.
Elapse ==
  /\ Running
  /\ dev.queue # <<>> => Head(dev.queue).left > 0
  /\ dev' = [dev EXCEPT !.queue = [i \in DOMAIN dev.queue |-> [dev.queue[i] EXCEPT !.left = @ - 1]],
                        !.duty = IF @ > 0 THEN @ - 1 ELSE 0,
                        !.secondTs = IF @ > - Longest(AckTimeouts \cup {Window})
                                       THEN @ - 1 ELSE @]
  /\ Idle

RunEvent ==
  \/ StandbyEvent
  \/ TxFinished
  \/ OpenFirstReceiveWindow
  \/ CloseFirstReceiveWindow
  \/ OpenSecondReceiveWindow
  \/ \E t \in AckTimeouts, f \in CopyFlags : CloseSecondReceiveWindow(t, f)
  \/ \E f \in CopyFlags : DoSendEvent(f)
  \/ \E b \in BOOLEAN, t \in AckTimeouts, f \in CopyFlags : EndReceive(b, t, f)
  \/ \E t \in AckTimeouts, f \in CopyFlags : EndReceiveI(t, f)

Next ==
  \/ RunEvent
  \/ \E t \in AckTimeouts, f \in CopyFlags : AppSend(t, f)
  \/ \E c \in Contents, r \in Durations : StartReceive(c, r)
  \/ \E r \in Durations : StartReceiveI(r)
  \/ Elapse

Spec == Init /\ [][Next]_vars

\* The simulator runs every event and time passes.
FairSpec == Spec /\ WF_vars(RunEvent) /\ WF_vars(Elapse)
-----------------------------------------------------------------------------
(* Properties.                                                             *)

Queued(kinds) == {i \in DOMAIN dev.queue : dev.queue[i].kind \in kinds}
Windows == {"openFirst", "closeFirst", "openSecond", "closeSecond"}
ReportsOf(n) == {i \in DOMAIN dev.reports : dev.reports[i].pkt = n}

TypeOK ==
  /\ dev.phy \in {"SLEEP", "STANDBY", "TX", "RX"}
  /\ \A i \in DOMAIN dev.queue :
       dev.queue[i].kind \in Events /\ dev.queue[i].left \in Nat /\ dev.queue[i].handle \in BOOLEAN
  /\ dev.secondTs \in Int /\ dev.duty \in Nat
  /\ dev.waitingAck \in BOOLEAN /\ dev.retxLeft \in 0 .. 255 /\ dev.retxPkt \in Pointers
  /\ sent \in 0 .. NumPackets /\ noise \in 0 .. NumNoise

\* The simulation never ends in an assertion, an abort or a null channel.
NoAbort == dev.fault = "none"

\* The radio never stays awake, transmitting or receiving for good: the event
\* that will end its state is in the queue.
RadioWillSleep ==
  /\ dev.phy = "TX" => Queued({"standby"}) # {}
  /\ dev.phy = "RX" => Queued({"endReceive"}) # {}
  /\ dev.phy = "STANDBY" => Queued({"txFinished", "closeFirst", "closeSecond"}) # {}

\* Class A: no uplink is on the air from the end of one until its receive
\* windows are over.
WindowsUndisturbed == dev.phy = "TX" => Queued(Windows) = {}

\* One procedure at a time: no two transmissions overlap, nor the windows of
\* two of them.
OneProcedure == \A k \in Events \ {"endReceiveI"} : Cardinality(Queued({k})) <= 1

\* The attempts the MAC counts, in a byte, are those that went on the air.
AttemptsCounted ==
  Running /\ dev.waitingAck =>
    (MaxNumbTx - dev.retxLeft) % 256 = dev.onAir[dev.retxPkt.pkt] % 256

\* end-device-lorawan-mac.h:440: m_maxNumbTx is the "Maximum number of
\* transmission allowed" of a packet.
AttemptsBounded == \A n \in 1 .. NumPackets : dev.onAir[n] <= MaxNumbTx

\* The trace source fires once for a packet, with the true number of attempts:
\* the "Total number of transmissions required to deliver this packet"
\* (end-device-lorawan-mac.cc:46).
ReportedOnce ==
  \A n \in 1 .. NumPackets :
    /\ Cardinality(ReportsOf(n)) <= 1
    /\ \A i \in ReportsOf(n) : dev.reports[i].txs = dev.onAir[n] % 256

\* The newest packet handed to the MAC has been transmitted or will be.
NewestPacketKept ==
  sent > 0 => \/ dev.onAir[sent] > 0
              \/ \E i \in Queued({"doSend"}) : dev.queue[i].arg.pkt = sent

\* A retransmission comes at least the shortest ACK_TIMEOUT after the second
\* window of the previous attempt was to open.
AckTimeoutRespected ==
  [][\A n \in 1 .. NumPackets : dev.onAir[n] > 0 /\ dev'.onAir[n] > dev.onAir[n]
       => dev.secondTs <= - (CHOOSE t \in AckTimeouts : \A u \in AckTimeouts : t <= u)]_vars

\* lorawan.rst:77: class A devices "open two receive windows of fixed duration
\* after each transmission".
TransmissionOpensWindows == dev.phy = "TX" ~> Queued({"closeFirst"}) # {}

\* Every confirmed packet whose procedure began is reported to the application.
EventuallyReported ==
  \A n \in 1 .. NumPackets : dev.onAir[n] > 0 ~> ReportsOf(n) # {}
=============================================================================
