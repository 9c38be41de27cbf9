----------------------------- MODULE ClassCDevice -----------------------------
(***************************************************************************)
(* A class C end device: ClassCEndDeviceLorawanMac and the class C         *)
(* branches of EndDeviceLorawanMac.  It shares with class A (EndDevice)    *)
(* the simulator, the PHY, the sending and the counting of attempts; its   *)
(* own are the four kinds of window, each with its handle, that together   *)
(* keep the receiver open: RXC until RX1, RXC2 from RX1 to RX2, RXC3 after *)
(* RX2.  One tick is the nanosecond by which the code separates the        *)
(* closing of a window from the opening of the next; the first window      *)
(* closes before the second opens (Delay1 + Window + 1 < Delay2).          *)
(***************************************************************************)
EXTENDS EndDevice

\* dev gains m_deviceCurrentReceiveWindow, m_numContinuousReceiveWindows (it
\* stops counting at NumCap), the remaining delays that ResetReceiveWindows
\* saves, and whether an acknowledgment of the packet under way was received.
NumCap == 4

ClassCInit ==
  /\ dev = [phy |-> "SLEEP", secondTs |-> 0, duty |-> 0,
            waitingAck |-> FALSE, retxLeft |-> MaxNumbTx, retxPkt |-> NoPacket,
            fault |-> "none", onAir |-> [n \in 1 .. NumPackets |-> 0], reports |-> <<>>,
            queue |-> << [kind |-> "cont1", left |-> 0, arg |-> NoPacket, handle |-> TRUE] >>,
            rw |-> "RXC", num |-> 0, rx1Rem |-> 0, rx2Rem |-> 0, acked |-> {}]
  /\ sent = 0
  /\ noise = 0

-----------------------------------------------------------------------------
(* The windows.                                                            *)

\* Simulator::Schedule asserts that the time is not in the past (builds
\* without assertions are not modelled).
ScheduleIn(d, kind, delay) ==
  IF delay < 0 THEN Abort(d, "past") ELSE Schedule(d, kind, delay, NoPacket)

GetDelayLeft(d, kind) ==
  IF IsPending(d, kind)
    THEN d.queue[CHOOSE i \in DOMAIN d.queue : d.queue[i].kind = kind /\ d.queue[i].handle].left
    ELSE 0

\* A negative delay schedules nothing, a zero one closes the window now.
ScheduleEvents(d, rxcClose, rx1Open, rx2Open) ==
  LET rxc == IF rxcClose >= 0 THEN ScheduleIn(d, "closeCont", rxcClose - 1) ELSE d
      rx1 == IF rx1Open > 0
               THEN ScheduleIn(ScheduleIn(rxc, "openFirst", rx1Open),
                               "cont2", rx1Open + Window + 1)
             ELSE IF rx1Open = 0 /\ rx2Open # 0
               THEN ScheduleIn(ScheduleIn(rxc, "closeFirst", 0), "cont2", 1)
             ELSE rxc
  IN IF rx2Open > 0
       THEN ScheduleIn(ScheduleIn([rx1 EXCEPT !.secondTs = rx2Open], "openSecond", rx2Open),
                       "cont3", rx2Open + Window + 1)
     ELSE IF rx2Open = 0
       THEN ScheduleIn(ScheduleIn(rx1, "closeSecond", 0), "cont3", 1)
     ELSE rx1

CancelReceiveWindows(d) ==
  Cancel(Cancel(Cancel(Cancel(Cancel(d, "closeCont"), "openFirst"), "cont2"),
                "openSecond"), "cont3")

ResetReceiveWindows(d) ==
  CancelReceiveWindows([d EXCEPT !.rx1Rem = GetDelayLeft(d, "openFirst"),
                                 !.rx2Rem = GetDelayLeft(d, "openSecond")])

OpenContinuous(d) ==
  LET named  == IF d.rw # "RXC" THEN [d EXCEPT !.rw = "RXC3"] ELSE d
      events == IF named.rw = "RXC" /\ ~IsPending(named, "openFirst")
                  THEN ScheduleEvents(named, -1, Delay1, Delay2) ELSE named
      listen == Schedule(events, "openSecondNow", 0, NoPacket)
      open   == [listen EXCEPT !.num = IF @ < NumCap THEN @ + 1 ELSE @]
      first  == GetDelayLeft(open, "openFirst")
  IN CASE open.num = 1 ->
            ScheduleIn(open, "closeCont", (IF first = 0 THEN Delay1 ELSE first) - 1)
       [] open.num = 2 ->
            ScheduleIn([open EXCEPT !.rw = "RXC2"], "closeCont",
                       GetDelayLeft(open, "openSecond") - 1)
       [] OTHER -> open

OpenFirst(d) ==
  Schedule(SwitchToStandby([d EXCEPT !.rw = "RX1"]), "closeFirst", Window, NoPacket)

CloseFirst(d) ==
  CASE d.phy = "TX" -> Abort(d, "closeInTx")
    [] d.phy = "RX" -> ResetReceiveWindows(d)
    [] d.phy = "STANDBY" -> SwitchToSleep([d EXCEPT !.rw = "NONE"])
    [] OTHER -> [d EXCEPT !.rw = "NONE"]

OpenSecond(d) ==
  LET named == IF d.rw = "NONE" THEN [d EXCEPT !.rw = "RX2"] ELSE d
      open  == SwitchToStandby(named)
  IN IF d.phy = "RX" THEN named
     ELSE IF ~IsPending(open, "openSecond") /\ open.rw \in {"RXC2", "RX2"}
       THEN Schedule(open, "closeSecond", Window, NoPacket)
     ELSE open

CloseSecond(d) ==
  LET closed == IF d.phy = "STANDBY" THEN SwitchToSleep(d) ELSE d IN
  IF d.phy = "RX" THEN ResetReceiveWindows(d)
  ELSE [closed EXCEPT !.rw = IF @ \in {"RXC", "RXC2"} THEN "NONE" ELSE @]

-----------------------------------------------------------------------------
(* Sending and receiving.                                                  *)

\* Send drops a packet while the radio transmits or receives.
ClassCSend(d, p, timeout, flag) ==
  CASE d.phy \in {"TX", "RX"} -> d
    [] d.phy = "SLEEP" -> Send(CancelReceiveWindows(SwitchToStandby(d)), p, timeout, flag)
    [] OTHER -> Send(d, p, timeout, flag)

ClassCRetry(d, timeout, flag) ==
  IF d.retxLeft > 0 THEN ClassCSend(d, d.retxPkt, timeout, flag)
                    ELSE resetRetransmissionParameters(Report(d, FALSE))

ClassCFailedReception(d, timeout, flag) ==
  IF d.waitingAck THEN ClassCRetry(d, timeout, flag) ELSE d

\* The windows of the reception's own and later ones are cancelled, and
\* scheduled again from what was left of their delays.
Resume(d) ==
  LET saved == d.rx1Rem # 0 \/ d.rx2Rem # 0
      rx1 == IF saved THEN d.rx1Rem ELSE GetDelayLeft(d, "openFirst")
      rx2 == IF saved THEN d.rx2Rem ELSE GetDelayLeft(d, "openSecond")
      later == Cancel(Cancel(d, "openSecond"), "cont3")
  IN CASE d.rw = "RXC" ->
            ScheduleEvents(Cancel(Cancel(Cancel(later, "closeCont"), "openFirst"), "cont2"),
                           rx1, rx1, rx2)
       [] d.rw = "RX1" ->
            ScheduleEvents(Cancel(Cancel(later, "closeFirst"), "cont2"), -1, rx1, rx2)
       [] d.rw = "RXC2" -> ScheduleEvents(Cancel(later, "closeCont"), rx2, -1, rx2)
       [] d.rw = "RX2" ->
            ScheduleEvents(Cancel(Cancel(d, "closeSecond"), "cont3"), -1, rx1, rx2)
       [] OTHER -> d

\* An acknowledgment changes nothing: ParseCommands acts on it in class A only.
ClassCReceive(d, content, timeout, flag) ==
  CASE content = "ack" -> [Resume(d) EXCEPT !.acked =
                             @ \cup (IF d.waitingAck THEN {d.retxPkt.pkt} ELSE {})]
    [] content = "data" -> Resume(d)
    [] OTHER -> IF d.waitingAck /\ ~IsPending(d, "openSecond")
                  THEN ClassCRetry(d, timeout, flag) ELSE d

-----------------------------------------------------------------------------
(* Actions.                                                                *)

Step(kind, f(_)) == Due(kind) /\ dev' = f(Popped) /\ Idle

ClassCTxFinished(d) ==
  Schedule([ScheduleEvents(d, -1, Delay1, Delay2) EXCEPT !.rw = "RXC", !.num = 0],
           "cont1", 0, NoPacket)

CloseContinuous(d) == Schedule(d, "closeSecondNow", 0, NoPacket)

ClassCAppSend(timeout, flag) ==
  /\ Running
  /\ sent < NumPackets
  /\ sent' = sent + 1
  /\ dev' = ClassCSend(dev, AppPacket(sent + 1), timeout, flag)
  /\ UNCHANGED noise

ClassCEndReceive(destroyed, timeout, flag) ==
  /\ Due("endReceive")
  /\ LET standby == SwitchToStandby(Popped) IN
     dev' = IF destroyed THEN ClassCFailedReception(standby, timeout, flag)
                         ELSE ClassCReceive(standby, Arg, timeout, flag)
  /\ Idle

ClassCStartReceive(content, duration) ==
  /\ Running
  /\ noise < NumNoise
  /\ noise' = noise + 1
  /\ dev.phy = "STANDBY"
  /\ GapArrivals \/ ~Due("txFinished")
  /\ dev' = Schedule([dev EXCEPT !.phy = "RX"], "endReceive", duration, content)
  /\ UNCHANGED sent

ClassCRunEvent ==
  \/ StandbyEvent
  \/ Step("txFinished", ClassCTxFinished)
  \/ \E k \in {"cont1", "cont2", "cont3"} : Step(k, OpenContinuous)
  \/ Step("closeCont", CloseContinuous)
  \/ Step("openFirst", OpenFirst)
  \/ Step("closeFirst", CloseFirst)
  \/ \E k \in {"openSecond", "openSecondNow"} : Step(k, OpenSecond)
  \/ \E k \in {"closeSecond", "closeSecondNow"} : Step(k, CloseSecond)
  \/ \E f \in CopyFlags : DoSendEvent(f)
  \/ \E b \in BOOLEAN, t \in AckTimeouts, f \in CopyFlags : ClassCEndReceive(b, t, f)

ClassCNext ==
  \/ ClassCRunEvent
  \/ \E t \in AckTimeouts, f \in CopyFlags : ClassCAppSend(t, f)
  \/ \E c \in Contents, r \in Durations : ClassCStartReceive(c, r)
  \/ Elapse

ClassCSpec == ClassCInit /\ [][ClassCNext]_vars
-----------------------------------------------------------------------------
(* Property.                                                               *)

\* end-device-lorawan-mac.cc:477: once the ACK has been received, the MAC is
\* "not waiting for it anymore": the packet is not reported failed later.
AcknowledgedNotFailed ==
  \A i \in DOMAIN dev.reports : dev.reports[i].pkt \in dev.acked => dev.reports[i].success
=============================================================================
