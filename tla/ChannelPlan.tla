----------------------------- MODULE ChannelPlan -----------------------------
(***************************************************************************)
(* The logical channels of an end device and their sub-bands: on which     *)
(* channel and when EndDeviceLorawanMac transmits a packet, how            *)
(* LogicalLoraChannelHelper enforces the duty cycle of each sub-band, and  *)
(* the MAC commands by which the network changes the plan meanwhile.       *)
(*                                                                         *)
(* Receive windows and radio are EndDevice's: what is left of the windows  *)
(* when a packet is sent is any member of Rests, and a downlink with a MAC *)
(* command may come at any time once the device has transmitted.  Every    *)
(* packet is unconfirmed.  C++ assertions are compiled in.                 *)
(***************************************************************************)
EXTENDS Integers, FiniteSets, Sequences

CONSTANTS
  NumChannels,   \* channels are numbered from 0
  Bands,         \* the sub-bands
  NoBand,        \* the sub-band of a frequency outside all of them
  DutyInverse,   \* one over the duty cycle of each sub-band
  MaxPower,      \* m_maxTxPowerDbm of each sub-band
  InitChannel,   \* the plan set up by LorawanMacHelper
  NumRates,      \* m_sfForDataRate.size ()
  Dbm,           \* m_txDbmForTxPower, a function on 0 .. size - 1
  NumOffsets,    \* columns of m_replyDataRateMatrix
  Airs,          \* times on air of a packet
  Rests,         \* how long the receive windows may still last
  Rates,         \* data rates in a LinkAdrReq
  TxPowers,      \* power indices in a LinkAdrReq
  Masks,         \* channel masks in a LinkAdrReq, as sets of indices
  NewIndices,    \* channel indices in a NewChannelReq
  NewChannels,   \* the channels it describes
  DutyCycles,    \* values of a DutyCycleReq, in percent
  Offsets,       \* RX1 offsets in a RxParamSetupReq
  NumSends,      \* how many packets the application sends
  NumCommands,   \* how many MAC commands the device receives
  Horizon        \* since stops counting here

Channels == 0 .. NumChannels - 1
Channel == [band : Bands \cup {NoBand}, min : Nat, max : Nat, on : BOOLEAN]

\* timeOnAir / dutyCycle - timeOnAir
OffTime(b, air) == air * (DutyInverse[b] - 1)

NumPowers == Cardinality(DOMAIN Dbm)

ASSUME ChannelPlanAssumption ==
  /\ NumChannels \in Nat /\ NoBand \notin Bands
  /\ DutyInverse \in [Bands -> Nat \ {0}] /\ MaxPower \in [Bands -> Int]
  /\ InitChannel \in [Channels -> Channel] /\ \E c \in Channels : InitChannel[c].on
  /\ {NumRates, NumOffsets, NumSends, NumCommands, Horizon} \subseteq Nat
  /\ NumPowers \in Nat \ {0, 1} /\ Dbm \in [0 .. NumPowers - 1 -> Int \ {0}]
  /\ Airs \subseteq Nat \ {0} /\ Rests \subseteq Nat /\ Rates \subseteq Nat
  /\ TxPowers \subseteq Nat /\ Masks \subseteq SUBSET Nat /\ NewIndices \subseteq Nat
  /\ NewChannels \subseteq {ch \in Channel : ch.on}
  /\ DutyCycles \subseteq 0 .. 100 /\ Offsets \subseteq Nat
  /\ \A b \in Bands, air \in Airs : air + OffTime(b, air) <= Horizon

VARIABLES
  channel,    \* m_channelList
  rate,       \* m_dataRate
  power,      \* m_txPower, in dBm
  offset,     \* m_rx1DrOffset
  aggregate,  \* m_aggregatedDutyCycle of the MAC, in percent
  answers,    \* m_macCommandList
  wait,       \* time until m_nextTransmissionTime of each sub-band
  postponed,  \* time until m_nextTx, NotPostponed or Never
  fault,      \* the abort or uncaught exception that ended the run
  sends,      \* packets the application has sent
  commands,   \* MAC commands received
  starts,     \* transmissions in each sub-band, and, of the last of them,
  since,      \* how long ago it began,
  onAir,      \* and its time on air
  changed     \* the enabled channels changed while a packet was postponed

settings == <<channel, rate, power, offset, aggregate>>
history  == <<starts, since, onAir>>
vars == <<settings, answers, wait, postponed, fault, sends, commands, history, changed>>

NotPostponed == -1
Never == -2

Init ==
  /\ channel = InitChannel
  /\ rate = 0 /\ power = Dbm[1] /\ offset = 0 /\ aggregate = 100
  /\ answers = <<>>
  /\ wait = [b \in Bands |-> 0]
  /\ postponed = NotPostponed
  /\ fault = "none"
  /\ sends = 0 /\ commands = 0
  /\ starts = [b \in Bands |-> 0]
  /\ since = [b \in Bands |-> Horizon]
  /\ onAir = [b \in Bands |-> 0]
  /\ changed = FALSE

Running == fault = "none"
Abort(why) == fault' = why

-----------------------------------------------------------------------------
(* LogicalLoraChannelHelper.                                               *)

Enabled == {c \in Channels : channel[c].on}
UnknownBand(c) == channel[c].band = NoBand
GetWaitingTime(c) == wait[channel[c].band]
Usable == {c \in Enabled : ~UnknownBand(c) /\ GetWaitingTime(c) = 0}

\* Fault: only the aggregated waiting time, which nobody reads, is set.
AddEventAggregated(b, air) ==
  /\ wait' = wait
  /\ starts' = [starts EXCEPT ![b] = @ + 1]
  /\ since' = [since EXCEPT ![b] = 0]
  /\ onAir' = [onAir EXCEPT ![b] = air]

\* The off time is counted from the beginning of the transmission.
AddEvent(b, air) ==
  /\ wait' = [wait EXCEPT ![b] = OffTime(b, air)]
  /\ starts' = [starts EXCEPT ![b] = @ + 1]
  /\ since' = [since EXCEPT ![b] = 0]
  /\ onAir' = [onAir EXCEPT ![b] = air]

-----------------------------------------------------------------------------
(* Transmission.                                                           *)

\* DoSend of a new packet, and SendToPhy.  The answers are attached and their
\* list cleared, any postponed packet cancelled; then a channel is picked at
\* random among the enabled: the search ends at the first that may be used,
\* at the first without a sub-band in a null pointer, or empty-handed, in one
\* too.  The data rate of the reply is looked up once the packet is on the air.
DoSend(air) ==
  /\ answers' = <<>>
  /\ postponed' = NotPostponed
  /\ \/ /\ Usable = {} /\ \A c \in Enabled : ~UnknownBand(c)
        /\ Abort("nullChannel") /\ UNCHANGED <<wait, history>>
     \/ /\ \E c \in Enabled : UnknownBand(c)
        /\ Abort("noSubBand") /\ UNCHANGED <<wait, history>>
     \/ \E c \in Usable :
          /\ AddEvent(channel[c].band, air)
          /\ fault' = IF offset >= NumOffsets THEN "outOfRange" ELSE "none"
  /\ UNCHANGED changed

\* Fault: the sub-bands of disabled channels count too.
ShortestWaitOfAll(rest, delay) ==
  \E b \in Bands : /\ \A e \in Bands : wait[b] <= wait[e]
                   /\ delay = IF rest > wait[b] THEN rest ELSE wait[b]

\* The shortest waiting time of the enabled channels, or what is left of the
\* receive windows if that is longer; no enabled channel makes it Time::Max.
GetNextTransmissionDelay(rest, delay) ==
  \/ Enabled = {} /\ delay = Never
  \/ \E c \in Enabled :
       /\ \A e \in Enabled : GetWaitingTime(c) <= GetWaitingTime(e)
       /\ delay = IF rest > GetWaitingTime(c) THEN rest ELSE GetWaitingTime(c)

postponeTransmission(delay) ==
  /\ postponed' = delay
  /\ changed' = FALSE
  /\ UNCHANGED <<answers, wait, fault, history>>

\* Send.  The power is asserted for a channel picked at random, which need
\* not be the one that SendToPhy will pick, and not when postponed.
Send(air, rest) ==
  /\ Running
  /\ sends < NumSends
  /\ sends' = sends + 1
  /\ IF \E c \in Enabled : UnknownBand(c)
       THEN Abort("noSubBand") /\ UNCHANGED <<answers, wait, postponed, history, changed>>
       ELSE \E delay \in Rests \cup (0 .. Horizon) \cup {Never} :
              /\ GetNextTransmissionDelay(rest, delay)
              /\ \/ delay # 0 /\ postponeTransmission(delay)
                 \/ /\ delay = 0
                    /\ \E c \in Usable :
                         \/ power <= MaxPower[channel[c].band] /\ DoSend(air)
                         \/ /\ power > MaxPower[channel[c].band] /\ Abort("powerAssert")
                            /\ UNCHANGED <<answers, wait, postponed, history, changed>>
  /\ UNCHANGED <<settings, commands>>

DoSendEvent(air) ==
  /\ Running
  /\ postponed = 0
  /\ DoSend(air)
  /\ UNCHANGED <<settings, sends, commands>>

-----------------------------------------------------------------------------
(* MAC commands: ParseCommands and the handlers.                           *)

Command ==
  /\ Running
  /\ \E b \in Bands : starts[b] > 0
  /\ commands < NumCommands
  /\ commands' = commands + 1
  /\ UNCHANGED <<wait, postponed, sends, history>>

Answer(ans) == answers' = Append(answers, ans) /\ UNCHANGED fault
Throw == Abort("outOfRange") /\ UNCHANGED <<settings, answers, changed>>
PlanChanges == changed' = (changed \/ postponed # NotPostponed)

\* Fault: the data rate is looked at, the channels for it are not.
LinkAdrReqAnyChannel(r, p, mask) ==
  LET maskOk == \A i \in mask : i <= NumChannels
      rateOk == r < NumRates
      powerOk == p < NumPowers
  IN /\ Command
     /\ IF r = NumRates \/ p = NumPowers THEN Throw
        ELSE /\ Answer(<<"LinkAdrAns", powerOk, rateOk, maskOk>>)
             /\ IF maskOk /\ rateOk /\ powerOk
                  THEN /\ channel' = [c \in Channels |-> [channel[c] EXCEPT !.on = c \in mask]]
                       /\ rate' = r /\ power' = Dbm[p]
                       /\ PlanChanges
                  ELSE UNCHANGED <<channel, rate, power, changed>>
             /\ UNCHANGED <<offset, aggregate>>

\* The vectors' sizes pass the range checks of the mask, of the bandwidth and
\* of the power, and then throw: the mask's only when no channel fits.
LinkAdrReq(r, p, mask) ==
  LET maskOk == \A i \in mask : i <= NumChannels
      fits == {c \in mask \cap Channels : channel[c].min <= r /\ r <= channel[c].max}
      rateOk == r < NumRates /\ (maskOk => fits # {})
      powerOk == p < NumPowers
      throws == \/ r = NumRates \/ p = NumPowers
                \/ r < NumRates /\ maskOk /\ fits = {} /\ NumChannels \in mask
  IN /\ Command
     /\ IF throws THEN Throw
        ELSE /\ Answer(<<"LinkAdrAns", powerOk, rateOk, maskOk>>)
             /\ IF maskOk /\ rateOk /\ powerOk
                  THEN /\ channel' = [c \in Channels |-> [channel[c] EXCEPT !.on = c \in mask]]
                       /\ rate' = r /\ power' = Dbm[p]
                       /\ PlanChanges
                  ELSE UNCHANGED <<channel, rate, power, changed>>
             /\ UNCHANGED <<offset, aggregate>>

\* The MAC's own aggregated duty cycle is set; the helper never looks at it.
DutyCycleReq(percent) ==
  /\ Command
  /\ IF percent = 100
       THEN Abort("dutyAssert") /\ UNCHANGED <<settings, answers>>
       ELSE /\ aggregate' = percent
            /\ Answer(<<"DutyCycleAns">>)
            /\ UNCHANGED <<channel, rate, power, offset>>
  /\ UNCHANGED changed

\* What the answer calls invalid is applied all the same.
RxParamSetupReq(o) ==
  /\ Command
  /\ offset' = o
  /\ Answer(<<"RxParamSetupAns", o <= 5>>)
  /\ UNCHANGED <<channel, rate, power, aggregate, changed>>

DevStatusReq ==
  /\ Command
  /\ Answer(<<"DevStatusAns">>)
  /\ UNCHANGED <<settings, changed>>

\* A channel can be replaced, not added: SetChannel throws.
NewChannelReq(i, ch) ==
  /\ Command
  /\ IF i \notin Channels THEN Throw
     ELSE /\ channel' = [channel EXCEPT ![i] = ch]
          /\ Answer(<<"NewChannelAns">>)
          /\ PlanChanges
          /\ UNCHANGED <<rate, power, offset, aggregate>>

-----------------------------------------------------------------------------
\* Fault: GetWaitingTime does not stop at zero.
ElapseNoClamp ==
  /\ Running
  /\ postponed # 0
  /\ wait' = [b \in Bands |-> wait[b] - 1]
  /\ since' = [b \in Bands |-> IF since[b] < Horizon THEN since[b] + 1 ELSE since[b]]
  /\ postponed' = IF postponed > 0 THEN postponed - 1 ELSE postponed
  /\ UNCHANGED <<settings, answers, fault, sends, commands, starts, onAir, changed>>

Elapse ==
  /\ Running
  /\ postponed # 0
  /\ wait' = [b \in Bands |-> IF wait[b] > 0 THEN wait[b] - 1 ELSE 0]
  /\ since' = [b \in Bands |-> IF since[b] < Horizon THEN since[b] + 1 ELSE since[b]]
  /\ postponed' = IF postponed > 0 THEN postponed - 1 ELSE postponed
  /\ UNCHANGED <<settings, answers, fault, sends, commands, starts, onAir, changed>>

Next ==
  \/ \E air \in Airs, rest \in Rests : Send(air, rest)
  \/ \E air \in Airs : DoSendEvent(air)
  \/ \E r \in Rates, p \in TxPowers, mask \in Masks : LinkAdrReq(r, p, mask)
  \/ \E percent \in DutyCycles : DutyCycleReq(percent)
  \/ \E o \in Offsets : RxParamSetupReq(o)
  \/ DevStatusReq
  \/ \E i \in NewIndices, ch \in NewChannels : NewChannelReq(i, ch)
  \/ Elapse

Spec == Init /\ [][Next]_vars

\* The simulator runs the postponed event when it is due, and time passes.
FairSpec == Spec /\ WF_vars(\E air \in Airs : DoSendEvent(air)) /\ WF_vars(Elapse)
-----------------------------------------------------------------------------
(* Properties.                                                             *)

TypeOK ==
  /\ channel \in [Channels -> Channel]
  /\ rate \in Nat /\ power \in Int /\ offset \in Nat /\ aggregate \in 0 .. 100
  /\ answers \in Seq({<<"DutyCycleAns">>, <<"DevStatusAns">>, <<"NewChannelAns">>}
                     \cup ({"RxParamSetupAns"} \X BOOLEAN)
                     \cup ({"LinkAdrAns"} \X BOOLEAN \X BOOLEAN \X BOOLEAN))
  /\ wait \in [Bands -> Nat]
  /\ postponed \in Nat \cup {NotPostponed, Never}
  /\ sends \in 0 .. NumSends /\ commands \in 0 .. NumCommands
  /\ starts \in [Bands -> Nat] /\ since \in [Bands -> 0 .. Horizon]
  /\ onAir \in [Bands -> Airs \cup {0}]
  /\ fault \in {"none", "nullChannel", "noSubBand", "powerAssert", "dutyAssert", "outOfRange"}
  /\ changed \in BOOLEAN

\* No MAC command leaves the device without an enabled channel:
\* GetNextTransmissionDelay would answer Time::Max, and it would fall silent.
SomeChannelEnabled == Enabled # {}

\* A device has one radio, which drops a packet while it transmits: under any
\* limited duty cycle (at most 1/2 here) no packet is sent in a sub-band whose
\* last packet is still on the air, whatever was postponed, enabled, disabled
\* or moved to another sub-band in between.
NoOverlap ==
  [][\A b \in Bands : DutyInverse[b] > 1 /\ starts'[b] > starts[b]
       => since[b] >= onAir[b]]_vars

\* The delay of a postponed packet is computed once, yet when it is sent some
\* channel is free (SendToPhy dereferences it unchecked), unless a command
\* changed the enabled channels meanwhile.
NullOnlyAfterCommand == fault = "nullChannel" => changed

\* A postponed packet does not wait for ever.
PostponedEnds ==
  postponed # NotPostponed ~> (postponed = NotPostponed \/ fault # "none")

\* A claim that the code does not keep (lorawan.rst:281-287): after a
\* transmission of duration t_air the device stays off its sub-band for
\* t_air / dc - t_air.  AddEvent counts that time from its start.
OffTimeKept ==
  [][\A b \in Bands : starts'[b] > starts[b]
       => since[b] >= onAir[b] + OffTime(b, onAir[b])]_vars
=============================================================================
