---------------------------- MODULE NetworkServer ----------------------------
(***************************************************************************)
(* The network server: NetworkServer::Receive with its scheduler, status   *)
(* and controller, and the gateways it answers through.  The gateways that *)
(* heard an uplink forward their copies over point-to-point links; one     *)
(* second after a new frame the scheduler asks for a gateway that may send *)
(* in the first receive window, and if there is none, one second later for *)
(* one that may send in the second.                                        *)
(*                                                                         *)
(* Time advances in ticks of one second, the delay between opportunities.  *)
(* The links take 2 ms: what is on a link arrives within the tick, in any  *)
(* order with the scheduler's events of that tick.                         *)
(***************************************************************************)
EXTENDS Integers, FiniteSets, Sequences

CONSTANTS
  Devices,
  Confirmed,    \* the devices whose m_mType is CONFIRMED_DATA_UP
  ClassC,       \* the class C devices
  LinkChecks,   \* the devices whose frames may hold a LinkCheckReq
  Gateways,     \* the addresses of the gateways
  Powers,       \* received powers
  EqualPowers,  \* whether two gateways may receive an uplink equally well
  NumUplinks,   \* uplinks of each device
  MinGap,       \* ticks between two uplinks of a device
  CounterSize,  \* frame counters are taken modulo this, 256 in the code
  AirTime,      \* ticks a downlink lasts
  DutyWait      \* ticks a gateway waits for the sub-band of each window

ASSUME NetworkServerAssumption ==
  /\ Confirmed \cup ClassC \cup LinkChecks \subseteq Devices
  /\ IsFiniteSet(Gateways) /\ Gateways \subseteq Nat /\ Powers \subseteq Nat
  /\ EqualPowers \in BOOLEAN
  /\ {MinGap, CounterSize, AirTime} \subseteq Nat \ {0}
  /\ NumUplinks \in [Devices -> Nat] /\ DutyWait \in [1 .. 2 -> Nat]

VARIABLES
  uplinks,      \* how many uplinks each device has sent
  age,          \* ticks since its latest one, up to MinGap
  heard,        \* the gateways that heard the latest one
  copies,       \* uplinks on their way from a gateway to the server
  received,     \* m_receivedPacketList of each EndDeviceStatus
  needsReply,   \* m_reply.needsReply, with the ACK bit of m_reply
  opps,         \* scheduled OnReceiveWindowOpportunity events, in order
  downlinks,    \* replies on their way from the server to a gateway
  transmitting, \* m_isTransmitting of each gateway
  ends,         \* ticks to the TxFinished events of each gateway
  wait,         \* GetWaitingTime of each gateway, for each window's sub-band
  replies       \* per device, the replies sent to it

deviceVars  == <<uplinks, age, heard>>
serverVars  == <<received, needsReply, opps, replies>>
gatewayVars == <<transmitting, ends, wait>>
vars == <<uplinks, age, heard, copies, received, needsReply, opps, downlinks,
          transmitting, ends, wait, replies>>

Windows == 1 .. 2
PowersOf(gws) == {power \in [gws -> Powers] :
  EqualPowers \/ \A g, h \in gws : power[g] = power[h] => g = h}

FCnt(n) == n % CounterSize
Last(d) == received[d][Len(received[d])]

\* Fault: the first window's parameters are tried first for class C only.
FirstTrySwapped(d) == IF d \in ClassC THEN 1 ELSE 2

\* Class C devices are answered with the parameters of the second window first.
FirstTry(d) == IF d \in ClassC THEN 2 ELSE 1
Retried(d) == 3 - FirstTry(d)

Init ==
  /\ uplinks = [d \in Devices |-> 0]
  /\ age = [d \in Devices |-> MinGap]
  /\ heard = [d \in Devices |-> {}]
  /\ copies = {}
  /\ received = [d \in Devices |-> <<>>]
  /\ needsReply = [d \in Devices |-> FALSE]
  /\ opps = <<>>
  /\ downlinks = {}
  /\ transmitting = [g \in Gateways |-> FALSE]
  /\ ends = [g \in Gateways |-> {}]
  /\ wait = [g \in Gateways |-> [w \in Windows |-> 0]]
  /\ replies = [d \in Devices |-> <<>>]

-----------------------------------------------------------------------------
(* The environment: an uplink is forwarded by the gateways that heard it.  *)

\* A gateway that transmits hears nothing.
Uplink(d) ==
  /\ uplinks[d] < NumUplinks[d] /\ age[d] >= MinGap
  /\ \E gws \in (SUBSET {g \in Gateways : ends[g] = {}}) \ {{}},
        link \in {b \in BOOLEAN : b => d \in LinkChecks} :
       \E power \in PowersOf(gws) :
         /\ heard' = [heard EXCEPT ![d] = gws]
         /\ copies' = copies \cup
              {[dev |-> d, n |-> uplinks[d] + 1, link |-> link, gw |-> g,
                power |-> power[g]] : g \in gws}
  /\ uplinks' = [uplinks EXCEPT ![d] = @ + 1]
  /\ age' = [age EXCEPT ![d] = 0]
  /\ UNCHANGED <<serverVars, gatewayVars, downlinks>>

-----------------------------------------------------------------------------
(* NetworkServer::Receive.                                                 *)

Opportunity(d, w) == [dev |-> d, window |-> w, left |-> 1]

\* Fault: the copies of a frame are taken for new frames.
IsNewAlways(c) == TRUE

\* NetworkScheduler::OnReceivedPacket compares with the last frame only.
IsNew(c) == received[c.dev] = <<>> \/ FCnt(Last(c.dev).n) # FCnt(c.n)

\* The latest entry of the list with the frame counter of c, or 0.
Known(c) ==
  LET same == {i \in DOMAIN received[c.dev] : FCnt(received[c.dev][i].n) = FCnt(c.n)}
  IN IF same = {} THEN 0 ELSE CHOOSE i \in same : \A j \in same : j <= i

\* Fault: only the first gateway of a frame is remembered.
InsertFirstOnly(c) ==
  IF Known(c) # 0 THEN received ELSE
  [received EXCEPT ![c.dev] = Append(@, [n |-> c.n, link |-> c.link,
     power |-> [g \in {c.gw} |-> c.power]])]

\* Fault: a new frame becomes the first of the list.
InsertAtFront(c) ==
  IF Known(c) = 0
    THEN [received EXCEPT ![c.dev] = <<[n |-> c.n, link |-> c.link,
            power |-> [g \in {c.gw} |-> c.power]]>> \o @]
    ELSE received

\* gwList.insert keeps what it has.
InsertReceivedPacket(c) ==
  LET i == Known(c) IN
  IF i = 0
    THEN [received EXCEPT ![c.dev] = Append(@, [n |-> c.n, link |-> c.link,
            power |-> [g \in {c.gw} |-> c.power]])]
    ELSE [received EXCEPT ![c.dev][i].power =
            [g \in DOMAIN @ \cup {c.gw} |-> IF g \in DOMAIN @ THEN @[g] ELSE c.power]]

\* The scheduler looks at the list before the status inserts the copy.
Receive(c) ==
  /\ c \in copies
  /\ copies' = copies \ {c}
  /\ opps' = IF IsNew(c) THEN Append(opps, Opportunity(c.dev, FirstTry(c.dev))) ELSE opps
  /\ received' = InsertReceivedPacket(c)
  /\ needsReply' = [needsReply EXCEPT ![c.dev] = @ \/ c.dev \in Confirmed]
  /\ UNCHANGED <<deviceVars, gatewayVars, downlinks, replies>>

-----------------------------------------------------------------------------
(* NetworkScheduler::OnReceiveWindowOpportunity.                           *)

\* m_nextTransmissionTime is never set: no gateway is ever booked.
IsAvailableForTransmission(g, w) == ~transmitting[g] /\ wait[g][w] = 0

\* Keyed by power: of gateways with equal powers, the first address is kept.
GetPowerGatewayMap(d) ==
  LET power == Last(d).power IN
  {g \in DOMAIN power : \A h \in DOMAIN power : power[h] = power[g] => g <= h}

Candidates(d, w) == {g \in GetPowerGatewayMap(d) : IsAvailableForTransmission(g, w)}

\* Faults: the worst gateway is taken, or the best whether it can send or not.
WorstGateway(d, w) ==
  {g \in Candidates(d, w) : \A h \in Candidates(d, w) : Last(d).power[g] <= Last(d).power[h]}

OnlyBestGateway(d, w) ==
  {g \in Candidates(d, w) :
     \A h \in GetPowerGatewayMap(d) : Last(d).power[h] <= Last(d).power[g]}

\* The gateway to answer through, if there is one.
GetBestGatewayForDevice(d, w) ==
  {g \in Candidates(d, w) : \A h \in Candidates(d, w) : Last(d).power[h] <= Last(d).power[g]}

Due == opps # <<>> /\ Head(opps).left = 0
Dev == Head(opps).dev
Window == Head(opps).window

\* Fault: the second window is not tried.
GiveUpAtOnce ==
  /\ Due /\ GetBestGatewayForDevice(Dev, Window) = {} /\ Window = FirstTry(Dev)
  /\ opps' = Tail(opps)
  /\ UNCHANGED <<deviceVars, gatewayVars, copies, downlinks, received, needsReply, replies>>

TryOtherWindow ==
  /\ Due /\ GetBestGatewayForDevice(Dev, Window) = {} /\ Window = FirstTry(Dev)
  /\ opps' = Append(Tail(opps), Opportunity(Dev, Retried(Dev)))
  /\ UNCHANGED <<deviceVars, gatewayVars, copies, downlinks, received, needsReply, replies>>

\* InitializeReply.
GiveUp ==
  /\ Due /\ GetBestGatewayForDevice(Dev, Window) = {} /\ Window = Retried(Dev)
  /\ opps' = Tail(opps)
  /\ needsReply' = [needsReply EXCEPT ![Dev] = FALSE]
  /\ UNCHANGED <<deviceVars, gatewayVars, copies, downlinks, received, replies>>

\* BeforeSendingReply: a LinkCheckReq in the last frame calls for a reply.
Needed(d) == needsReply[d] \/ Last(d).link

NoReplyNeeded ==
  /\ Due /\ GetBestGatewayForDevice(Dev, Window) # {} /\ ~Needed(Dev)
  /\ opps' = Tail(opps)
  /\ UNCHANGED <<deviceVars, gatewayVars, copies, downlinks, received, needsReply, replies>>

\* The reply carries the frame counter of the last frame, the acknowledgment
\* that was prepared, and the answer to that frame's LinkCheckReq.
Reply(d, w, g) ==
  [n |-> Last(d).n, window |-> w, gw |-> g, ack |-> needsReply[d],
   gwCnt |-> IF Last(d).link THEN Cardinality(DOMAIN Last(d).power) ELSE 0,
   \* for the properties: what the device had sent by then, and how long ago
   latest |-> uplinks[d], age |-> age[d], heard |-> Cardinality(heard[d])]

SendThroughGateway(d, w, g) ==
  /\ replies' = [replies EXCEPT ![d] = Append(@, Reply(d, w, g))]
  /\ downlinks' = downlinks \cup {[dev |-> d, window |-> w, gw |-> g]}
  /\ needsReply' = [needsReply EXCEPT ![d] = FALSE]

Answer ==
  /\ Due /\ Needed(Dev)
  /\ \E g \in GetBestGatewayForDevice(Dev, Window) : SendThroughGateway(Dev, Window, g)
  /\ opps' = Tail(opps)
  /\ UNCHANGED <<deviceVars, gatewayVars, copies, received>>

-----------------------------------------------------------------------------
(* The gateways.                                                           *)

\* Forwarder and GatewayLorawanMac::Send: the duty cycle is checked again.
GatewaySend(m) ==
  /\ m \in downlinks
  /\ downlinks' = downlinks \ {m}
  /\ IF wait[m.gw][m.window] # 0
       THEN UNCHANGED gatewayVars
       ELSE /\ transmitting' = [transmitting EXCEPT ![m.gw] = TRUE]
            /\ ends' = [ends EXCEPT ![m.gw] = @ \cup {AirTime}]
            /\ wait' = [wait EXCEPT ![m.gw][m.window] = DutyWait[m.window]]
  /\ UNCHANGED <<deviceVars, serverVars, copies>>

TxFinished(g) ==
  /\ 0 \in ends[g]
  /\ ends' = [ends EXCEPT ![g] = @ \ {0}]
  /\ transmitting' = [transmitting EXCEPT ![g] = FALSE]
  /\ UNCHANGED <<deviceVars, serverVars, copies, downlinks, wait>>

\* Fault: waiting times go on past zero.
ElapseNoClamp ==
  /\ copies = {} /\ downlinks = {} /\ ~Due /\ \A g \in Gateways : 0 \notin ends[g]
  /\ wait' = [g \in Gateways |-> [w \in Windows |-> wait[g][w] - 1]]
  /\ UNCHANGED <<deviceVars, copies, downlinks, serverVars, transmitting, ends>>

\* A second passes when nothing is left to do in this one.
Elapse ==
  /\ copies = {} /\ downlinks = {} /\ ~Due /\ \A g \in Gateways : 0 \notin ends[g]
  /\ age' = [d \in Devices |-> IF age[d] < MinGap THEN age[d] + 1 ELSE MinGap]
  /\ opps' = [i \in DOMAIN opps |-> [opps[i] EXCEPT !.left = @ - 1]]
  /\ ends' = [g \in Gateways |-> {t - 1 : t \in ends[g]}]
  /\ wait' = [g \in Gateways |-> [w \in Windows |->
                IF wait[g][w] > 0 THEN wait[g][w] - 1 ELSE 0]]
  /\ UNCHANGED <<uplinks, heard, copies, downlinks, received, needsReply, replies, transmitting>>

Next ==
  \/ \E d \in Devices : Uplink(d)
  \/ \E c \in copies : Receive(c)
  \/ TryOtherWindow \/ GiveUp \/ NoReplyNeeded \/ Answer
  \/ \E m \in downlinks : GatewaySend(m)
  \/ \E g \in Gateways : TxFinished(g)
  \/ Elapse

Spec == Init /\ [][Next]_vars

\* The simulator runs every event; devices may stay silent.
FairSpec ==
  /\ Spec
  /\ WF_vars(\E c \in copies : Receive(c))
  /\ WF_vars(TryOtherWindow \/ GiveUp \/ NoReplyNeeded \/ Answer)
  /\ WF_vars(\E m \in downlinks : GatewaySend(m))
  /\ WF_vars(\E g \in Gateways : TxFinished(g))
  /\ WF_vars(Elapse)

-----------------------------------------------------------------------------
(* Properties.                                                             *)

TypeOK ==
  /\ \A d \in Devices : uplinks[d] \in 0 .. NumUplinks[d]
  /\ age \in [Devices -> 0 .. MinGap]
  /\ heard \in [Devices -> SUBSET Gateways]
  /\ copies \subseteq [dev : Devices, n : Nat \ {0}, link : BOOLEAN,
                       gw : Gateways, power : Powers]
  /\ \A d \in Devices : \A i \in DOMAIN received[d] :
       /\ received[d][i].n \in 1 .. uplinks[d] /\ received[d][i].link \in BOOLEAN
       /\ DOMAIN received[d][i].power \in (SUBSET Gateways) \ {{}}
  /\ needsReply \in [Devices -> BOOLEAN]
  /\ opps \in Seq([dev : Devices, window : Windows, left : 0 .. 1])
  /\ downlinks \subseteq [dev : Devices, window : Windows, gw : Gateways]
  /\ transmitting \in [Gateways -> BOOLEAN]
  /\ ends \in [Gateways -> SUBSET (0 .. AirTime)]
  /\ wait \in [Gateways -> [Windows -> Nat]]

\* A device whose latest uplink has reached the server, if one of its uplinks has.
Arrived(d) == heard[d] # {g \in heard[d] : \E c \in copies :
                             c.dev = d /\ c.n = uplinks[d] /\ c.gw = g}

\* The last entry of the list, whose counter and gateways every reply uses,
\* is the device's latest uplink as soon as one gateway has forwarded it
\* (GetLastPacketReceivedFromDevice).
LastIsLatest ==
  \A d \in Devices : Arrived(d) => Last(d).n = uplinks[d]

\* A class A device is answered when the window whose parameters the reply
\* uses is open: that many seconds after its latest uplink, which is the one
\* the reply answers.
RepliesInWindow ==
  \A d \in Devices \ ClassC : \A i \in DOMAIN replies[d] :
    LET r == replies[d][i] IN r.n = r.latest /\ r.age = r.window

\* No uplink is answered twice, nor after a later one: acknowledgments are
\* "only sent in response to the latest message and never retransmitted".
RepliesAdvance ==
  \A d \in Devices : \A i, j \in DOMAIN replies[d] :
    i < j => replies[d][i].n < replies[d][j].n

\* A LinkCheckAns counts every gateway that heard the frame, since the reply
\* is built after all of them have forwarded it (LinkCheckComponent).
AllGatewaysCounted ==
  \A d \in Devices : \A i \in DOMAIN replies[d] :
    replies[d][i].gwCnt \in {0, replies[d][i].heard}

\* Gateways that heard the device's last frame and may send to it.
Able(d, w) == {g \in DOMAIN Last(d).power : IsAvailableForTransmission(g, w)}

\* An opportunity is put off to the other window, or a reply given up, only
\* when none of the gateways that heard the device can send in this one: the
\* first window is used "whenever possible" (lorawan.rst:309).
UsedWhenPossible ==
  [][Due /\ Able(Dev, Window) # {} =>
       /\ opps' # Append(Tail(opps), Opportunity(Dev, Retried(Dev)))
       /\ needsReply'[Dev] # needsReply[Dev] => needsReply'[Dev] \/ replies' # replies]_vars

\* A reply goes through the gateway that heard the device best among those
\* that may send.
BestGatewayUsed ==
  [][\A d \in Devices : replies'[d] # replies[d] =>
       LET r == replies'[d][Len(replies'[d])] IN
         \A g \in Able(d, r.window) : Last(d).power[g] <= Last(d).power[r.gw]]_vars

\* A reply that is due is sent or given up: no acknowledgment lingers for a
\* later uplink.
ReplyResolved ==
  \A d \in Devices : needsReply[d] ~> ~needsReply[d]
=============================================================================
