------------------------------- MODULE Gateway -------------------------------
(***************************************************************************)
(* One LoRaWAN gateway: the demodulators and the half-duplex radio of      *)
(* SimpleGatewayLoraPhy, the duty-cycle check of GatewayLorawanMac::Send,  *)
(* and the point-to-point link over which the network server, having asked *)
(* GatewayStatus whether the gateway is available, sends it a downlink.    *)
(*                                                                         *)
(* Time is abstracted to the order of events: a reception or a             *)
(* transmission lasts an arbitrary time on air, so its end is an event     *)
(* that may come after any number of others.  Whether a packet is          *)
(* destroyed by interference is arbitrary too (\E destroyed).              *)
(***************************************************************************)
EXTENDS Integers, FiniteSets

CONSTANTS
  NumPaths,        \* m_receptionPaths.size(): the number of demodulators
  Signals,         \* uplinks that reach the antenna, each of them once
  Interferers,     \* the signals whose packet carries the interferer flag
  Downlinks,       \* packets the network server wants to send, each once
  Bands,           \* the sub-bands of the region
  UnlimitedBands,  \* the sub-bands with a duty cycle of 1 (ALOHA region)
  BandOf,          \* the sub-band of each downlink's frequency
  NoEvent          \* m_event = 0: the reception path is available

ASSUME GatewayAssumption ==
  /\ NumPaths \in Nat
  /\ IsFiniteSet(Signals)
  /\ Interferers \subseteq Signals
  /\ UnlimitedBands \subseteq Bands
  /\ BandOf \in [Downlinks -> Bands]
  /\ NoEvent \notin Signals

VARIABLES
  list,            \* registered with LoraChannel::Add or AddI
  path,            \* per reception path, the signal it is locked on
  occupied,        \* m_occupiedReceptionPaths
  endReceive,      \* signals whose EndReceive event is scheduled
  fate,            \* what the trace sources have reported of each signal
  isTransmitting,  \* m_isTransmitting
  stage,           \* where each downlink is between server and air
  waiting          \* sub-bands whose GetWaitingTime is not zero

rxVars == <<path, occupied, endReceive, fate>>
txVars == <<isTransmitting, stage, waiting, list>>
vars   == <<list, path, occupied, endReceive, fate, isTransmitting, stage, waiting>>

Paths == 1 .. NumPaths

Locked == {p \in Paths : path[p] # NoEvent}

OnAir == {d \in Downlinks : stage[d] = "onAir"}

\* Outcomes are final; "receiving" is a signal whose EndReceive is to come.
Outcomes == {"received", "interfered", "noDemodulator", "underSensitivity",
             "droppedTx", "interrupted", "ignored"}

Shape ==
  /\ list \in {"Add", "AddI"}
  /\ path \in [Paths -> Signals \cup {NoEvent}]
  /\ occupied \in Int
  /\ endReceive \subseteq Signals
  /\ fate \in [Signals -> Outcomes \cup {"none", "receiving"}]
  /\ isTransmitting \in BOOLEAN
  /\ stage \in [Downlinks -> {"idle", "link", "onAir", "sent", "aborted", "silent"}]
  /\ waiting \subseteq Bands

TypeOK == Shape /\ occupied >= 0

Init ==
  /\ list \in {"Add", "AddI"}
  /\ path = [p \in Paths |-> NoEvent]
  /\ occupied = 0
  /\ endReceive = {}
  /\ fate = [s \in Signals |-> "none"]
  /\ isTransmitting = FALSE
  /\ stage = [d \in Downlinks |-> "idle"]
  /\ waiting = {}

-----------------------------------------------------------------------------
(* Reception: LoraChannel::Receive, ReceiveI and the PHY.                  *)

\* The first path, in list order, that is available.
FirstAvailable(p) ==
  /\ p \in Paths \ Locked
  /\ \A q \in Paths \ Locked : p <= q

\* StartReceive of a packet without the interferer flag.
Drop(s, why) ==
  /\ fate' = [fate EXCEPT ![s] = why]
  /\ UNCHANGED <<path, occupied, endReceive>>

\* Fault: the path is locked but the counter not incremented.
LockUncounted(p, s) ==
  /\ path' = [path EXCEPT ![p] = s]
  /\ endReceive' = endReceive \cup {s}
  /\ fate' = [fate EXCEPT ![s] = "receiving"]
  /\ UNCHANGED occupied

LockOnEvent(p, s) ==
  /\ path' = [path EXCEPT ![p] = s]
  /\ occupied' = occupied + 1
  /\ endReceive' = endReceive \cup {s}
  /\ fate' = [fate EXCEPT ![s] = "receiving"]

StartReceive(s, weak) ==
  /\ list = "Add"
  /\ s \notin Interferers
  /\ fate[s] = "none"
  /\ \/ isTransmitting /\ Drop(s, "droppedTx")
     \/ ~isTransmitting /\ Locked = Paths /\ Drop(s, "noDemodulator")
     \/ ~isTransmitting /\ Locked # Paths /\ weak /\ Drop(s, "underSensitivity")
     \/ /\ ~isTransmitting /\ ~weak
        /\ \E p \in Paths : FirstAvailable(p) /\ LockOnEvent(p, s)
  /\ UNCHANGED txVars

\* StartReceive of an interferer's packet, which only ReceiveI delivers: it
\* schedules EndReceive whatever the radio does, and no path is locked.
StartReceiveInterferer(s) ==
  /\ list = "AddI"
  /\ s \in Interferers
  /\ fate[s] = "none"
  /\ endReceive' = endReceive \cup {s}
  /\ fate' = [fate EXCEPT ![s] = "receiving"]
  /\ UNCHANGED <<path, occupied, txVars>>

\* An interferer's packet at a gateway of the ordinary list is interference.
StartReceiveI(s) ==
  /\ list = "Add"
  /\ s \in Interferers
  /\ fate[s] = "none"
  /\ fate' = [fate EXCEPT ![s] = "ignored"]
  /\ UNCHANGED <<path, occupied, endReceive, txVars>>

\* Fault: the scheduled event is not consumed, so it would run again.
EndReceiveTwice(s, destroyed) ==
  /\ s \in endReceive
  /\ fate' = [fate EXCEPT ![s] = IF destroyed THEN "interfered" ELSE "received"]
  /\ path' = [p \in Paths |-> IF path[p] = s THEN NoEvent ELSE path[p]]
  /\ occupied' = IF \E p \in Paths : path[p] = s THEN occupied - 1 ELSE occupied
  /\ UNCHANGED <<endReceive, txVars>>

\* The path locked on the event, if any, is freed and the counter decremented.
EndReceive(s, destroyed) ==
  /\ s \in endReceive
  /\ endReceive' = endReceive \ {s}
  /\ fate' = [fate EXCEPT ![s] = IF destroyed THEN "interfered" ELSE "received"]
  /\ path' = [p \in Paths |-> IF path[p] = s THEN NoEvent ELSE path[p]]
  /\ occupied' = IF \E p \in Paths : path[p] = s THEN occupied - 1 ELSE occupied
  /\ UNCHANGED txVars

-----------------------------------------------------------------------------
(* Transmission: the server's check, the link, the MAC and the PHY.        *)

IsAvailableForTransmission(band) == ~isTransmitting /\ band \notin waiting

\* NetworkScheduler found the gateway available: the packet is on the link.
NetworkServerSend(d) ==
  /\ stage[d] = "idle"
  /\ IsAvailableForTransmission(BandOf[d])
  /\ stage' = [stage EXCEPT ![d] = "link"]
  /\ UNCHANGED <<rxVars, isTransmitting, waiting, list>>

\* Fault: the transmission is not recorded in its sub-band.
AddNoEvent(band) == UNCHANGED waiting

\* AddEvent: the next transmission is allowed toa/dutyCycle - toa from now,
\* which is now when the duty cycle is 1.
AddEvent(band) == waiting' = waiting \cup ({band} \ UnlimitedBands)

\* Faults: the paths are freed but their EndReceive events not cancelled; the
\* receptions are reported lost but their paths stay locked; they are
\* cancelled, and nothing is ever reported of them.
PhySendNoCancel(d) ==
  LET interrupted == {path[p] : p \in Locked} IN
  /\ path' = [p \in Paths |-> NoEvent]
  /\ fate' = [s \in Signals |-> IF s \in interrupted THEN "interrupted" ELSE fate[s]]
  /\ isTransmitting' = TRUE
  /\ stage' = [stage EXCEPT ![d] = "onAir"]
  /\ UNCHANGED <<occupied, endReceive, list>>

PhySendNoFree(d) ==
  LET interrupted == {path[p] : p \in Locked} IN
  /\ endReceive' = endReceive \ interrupted
  /\ fate' = [s \in Signals |-> IF s \in interrupted THEN "interrupted" ELSE fate[s]]
  /\ isTransmitting' = TRUE
  /\ stage' = [stage EXCEPT ![d] = "onAir"]
  /\ UNCHANGED <<path, occupied, list>>

PhySendForget(d) ==
  /\ path' = [p \in Paths |-> NoEvent]
  /\ endReceive' = endReceive \ {path[p] : p \in Locked}
  /\ isTransmitting' = TRUE
  /\ stage' = [stage EXCEPT ![d] = "onAir"]
  /\ UNCHANGED <<occupied, fate, list>>

\* SimpleGatewayLoraPhy::Send: every locked path is freed, its EndReceive
\* cancelled; the counter of occupied paths is left alone.
PhySend(d) ==
  LET interrupted == {path[p] : p \in Locked} IN
  /\ path' = [p \in Paths |-> NoEvent]
  /\ endReceive' = endReceive \ interrupted
  /\ fate' = [s \in Signals |-> IF s \in interrupted THEN "interrupted" ELSE fate[s]]
  /\ isTransmitting' = TRUE
  /\ stage' = [stage EXCEPT ![d] = "onAir"]
  /\ UNCHANGED <<occupied, list>>

\* GatewayLorawanMac::Send, reached through Forwarder and LoraNetDevice.
\* They hand over a copy of the packet, whose interferer flag the copy
\* constructor leaves uninitialised: SendI (which sends nothing) is possible.
MacSend(d, flagged) ==
  /\ stage[d] = "link"
  /\ IF BandOf[d] \in waiting
       THEN /\ stage' = [stage EXCEPT ![d] = "aborted"]
            /\ UNCHANGED <<rxVars, isTransmitting, waiting, list>>
       ELSE /\ AddEvent(BandOf[d])
            /\ IF flagged
                 THEN /\ stage' = [stage EXCEPT ![d] = "silent"]
                      /\ UNCHANGED <<rxVars, isTransmitting, list>>
                 ELSE PhySend(d)

\* Fault: the end of a transmission leaves the flag set.
TxNotFinished(d) ==
  /\ stage[d] = "onAir"
  /\ stage' = [stage EXCEPT ![d] = "sent"]
  /\ UNCHANGED <<rxVars, isTransmitting, waiting, list>>

TxFinished(d) ==
  /\ stage[d] = "onAir"
  /\ stage' = [stage EXCEPT ![d] = "sent"]
  /\ isTransmitting' = FALSE
  /\ UNCHANGED <<rxVars, waiting, list>>

\* The clock reaches a sub-band's next transmission time.  A limited duty
\* cycle is at most 1/10, so this is no earlier than 9 times the time on air
\* after the start: the transmission that set it is over.
DutyCycleExpires(b) ==
  /\ b \in waiting
  /\ \A d \in OnAir : BandOf[d] # b
  /\ waiting' = waiting \ {b}
  /\ UNCHANGED <<rxVars, isTransmitting, stage, list>>

-----------------------------------------------------------------------------
Next ==
  \/ \E s \in Signals, weak \in BOOLEAN : StartReceive(s, weak)
  \/ \E s \in Signals : StartReceiveInterferer(s)
  \/ \E s \in Signals : StartReceiveI(s)
  \/ \E s \in Signals, destroyed \in BOOLEAN : EndReceive(s, destroyed)
  \/ \E d \in Downlinks : NetworkServerSend(d)
  \/ \E d \in Downlinks, flagged \in BOOLEAN : MacSend(d, flagged)
  \/ \E d \in Downlinks : TxFinished(d)
  \/ \E b \in Bands : DutyCycleExpires(b)

Spec == Init /\ [][Next]_vars

\* The simulator runs every scheduled event, and the link delivers.
Fairness ==
  /\ \A s \in Signals : WF_vars(\E destroyed \in BOOLEAN : EndReceive(s, destroyed))
  /\ \A d \in Downlinks : WF_vars(\E flagged \in BOOLEAN : MacSend(d, flagged))
  /\ \A d \in Downlinks : WF_vars(TxFinished(d))

FairSpec == Spec /\ Fairness

\* The abstract radio: the reports of the trace sources are the outcomes.
Pool == INSTANCE DemodulatorPool
          WITH Capacity <- NumPaths, Free <- Interferers,
               outcome <- fate, transmitting <- isTransmitting
-----------------------------------------------------------------------------
(* Properties.                                                             *)

\* The simulator's events and the demodulators agree: a locked path has its
\* EndReceive scheduled, two paths are never locked on the same signal, and
\* every scheduled EndReceive but an interferer's has its path.  Otherwise
\* Send would cancel the wrong event, or a demodulator be lost for good.
PathsMatchEvents ==
  /\ \A p \in Locked : path[p] \in endReceive
  /\ \A p, q \in Locked : path[p] = path[q] => p = q
  /\ \A s \in endReceive \ Interferers : \E p \in Locked : path[p] = s

\* While the gateway says it transmits, no demodulator is receiving.
HalfDuplex == isTransmitting => Locked = {}

\* The flag is never left set: some transmission will still reset it.
FlagNeverStuck == isTransmitting => OnAir # {}

\* Duty cycle: with the server's check stale by the link's delay, the MAC's
\* own check still keeps two downlinks of a limited sub-band off the air.
OneTransmissionPerBand ==
  \A d, e \in OnAir :
    BandOf[d] = BandOf[e] /\ BandOf[d] \notin UnlimitedBands => d = e

\* The trace sources report one outcome per signal: no reception is reported
\* again after it was dropped, interrupted by a downlink, or ended.
OneOutcome ==
  [][\A s \in Signals : fate[s] \in Outcomes => fate'[s] = fate[s]]_vars

\* Every reception that starts ends, by its EndReceive or by a downlink.
ReceptionEnds ==
  \A s \in Signals : fate[s] = "receiving" ~> fate[s] \in Outcomes

\* Whatever the counter, the handles and the order of events do, the gateway
\* is a pool of NumPaths demodulators behind a half-duplex radio.
ImplementsPool == Pool!Spec

(* Two claims of gateway-lora-phy.h that the code does not keep.           *)

\* Line 191: m_occupiedReceptionPaths is "The number of occupied reception
\* paths."  False once Send has freed locked paths, without decrementing it.
CounterIsOccupied == occupied = Cardinality(Locked)

\* Line 211: m_isTransmitting is the "Flag indicating whether a transmission
\* is going on".  False when of two overlapping ones the first has ended.
FlagMeansOnAir == isTransmitting <=> OnAir # {}
=============================================================================
