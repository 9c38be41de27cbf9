-------------------------- MODULE ChannelPlan_proofs --------------------------
(***************************************************************************)
(* For any plan of channels and sub-bands, any duty cycles and any         *)
(* sequence of packets and MAC commands, an enabled channel remains and    *)
(* no two transmissions of one limited sub-band overlap.                   *)
(***************************************************************************)
EXTENDS ChannelPlan, TLAPS

Shape ==
  /\ channel \in [Channels -> Channel]
  /\ wait \in [Bands -> Nat]
  /\ starts \in [Bands -> Nat]
  /\ since \in [Bands -> 0 .. Horizon]
  /\ onAir \in [Bands -> Airs \cup {0}]

\* What AddEvent computed from the last transmission in a sub-band.
Due(b) == OffTime(b, onAir[b])

\* The sub-band waits for that long from the start of the transmission.
WaitCoversDue == \A b \in Bands : wait[b] + since[b] >= Due(b)

PlanInv == Shape /\ SomeChannelEnabled /\ WaitCoversDue

\* The plan of channels is left alone by everything but two commands.
PlanFixed == channel' = channel

\* Sub-bands and their history are left alone by every MAC command.
BandsFixed == UNCHANGED <<wait, starts, since, onAir>>

-----------------------------------------------------------------------------

\* The off times that AddEvent registers are natural and within the horizon;
\* with a limited duty cycle they are no shorter than the transmission.
LEMMA OffTimeNat ==
  ASSUME NEW b \in Bands, NEW air \in Airs \cup {0}
  PROVE  /\ OffTime(b, air) \in 0 .. Horizon
         /\ air \in Nat
         /\ DutyInverse[b] > 1 => air <= OffTime(b, air)
<1>1. air \in Nat /\ DutyInverse[b] \in Nat \ {0} /\ Horizon \in Nat
  BY ChannelPlanAssumption
<1> DEFINE more == DutyInverse[b] - 1
<1>2. more \in Nat
  BY <1>1
<1>3. OffTime(b, air) = air * more
  BY DEF OffTime
<1> HIDE DEF more
<1>4. air * more \in Nat
  BY <1>1, <1>2
<1>5. OffTime(b, air) <= Horizon
  <2>1. CASE air = 0
    BY <1>1, <1>2, <1>3, <2>1
  <2>2. CASE air \in Airs
    <3>1. air + OffTime(b, air) <= Horizon
      BY <2>2, ChannelPlanAssumption
    <3> QED
      BY <1>1, <1>3, <1>4, <3>1
  <2> QED
    BY <2>1, <2>2
<1>6. ASSUME DutyInverse[b] > 1 PROVE air <= air * more
  <2>1. more - 1 \in Nat
    BY <1>1, <1>6 DEF more
  <2>2. air * (more - 1) \in Nat
    BY <1>1, <2>1
  <2>3. air * more = air * (more - 1) + air
    BY <1>1, <1>2
  <2> QED
    BY <1>1, <2>2, <2>3
<1> QED
  BY <1>1, <1>3, <1>4, <1>5, <1>6

LEMMA DueNat ==
  ASSUME Shape, NEW b \in Bands
  PROVE  /\ Due(b) \in 0 .. Horizon
         /\ onAir[b] \in Nat
         /\ DutyInverse[b] > 1 => onAir[b] <= Due(b)
  BY OffTimeNat DEF Shape, Due

LEMMA InitPlan == Init => PlanInv
<1> SUFFICES ASSUME Init PROVE PlanInv
  OBVIOUS
<1>1. Horizon \in Nat
  BY ChannelPlanAssumption
<1>2. Shape
  BY <1>1, ChannelPlanAssumption DEF Init, Shape
<1>3. SomeChannelEnabled
  BY ChannelPlanAssumption DEF Init, SomeChannelEnabled, Enabled
<1>4. WaitCoversDue
  <2> SUFFICES ASSUME NEW b \in Bands PROVE wait[b] + since[b] >= Due(b)
    BY DEF WaitCoversDue
  <2>1. wait[b] = 0 /\ since[b] = Horizon
    BY DEF Init
  <2>2. Due(b) \in 0 .. Horizon
    BY <1>2, DueNat
  <2> QED
    BY <1>1, <2>1, <2>2
<1> QED
  BY <1>2, <1>3, <1>4 DEF PlanInv

\* A transmission, at once or postponed, either ends the run or begins in a
\* sub-band whose waiting time is over.
LEMMA DoSendKeeps ==
  ASSUME PlanInv, NEW air \in Airs, DoSend(air), PlanFixed
  PROVE  PlanInv' /\ \A b \in Bands : starts'[b] > starts[b] => since[b] >= Due(b)
<1> USE DEF PlanInv
<1>1. SomeChannelEnabled'
  BY DEF SomeChannelEnabled, Enabled, PlanFixed
<1>2. CASE BandsFixed
  <2>1. Shape' /\ WaitCoversDue'
    BY <1>2 DEF Shape, WaitCoversDue, Due, BandsFixed, PlanFixed
  <2>2. \A b \in Bands : ~ starts'[b] > starts[b]
    BY <1>2 DEF Shape, BandsFixed
  <2> QED
    BY <1>1, <2>1, <2>2
<1>3. CASE \E c \in Usable : AddEvent(channel[c].band, air)
  <2>1. PICK c \in Usable : AddEvent(channel[c].band, air)
    BY <1>3
  <2> DEFINE b0 == channel[c].band
  <2>2. b0 \in Bands /\ wait[b0] = 0
    BY DEF Usable, Enabled, UnknownBand, GetWaitingTime, Shape, Channel
  <2>3. OffTime(b0, air) \in 0 .. Horizon
    BY <2>2, OffTimeNat
  <2>4. Horizon \in Nat
    BY ChannelPlanAssumption
  <2>5. Shape'
    BY <2>1, <2>2, <2>3, <2>4 DEF Shape, AddEvent, PlanFixed
  <2>6. WaitCoversDue'
    <3> SUFFICES ASSUME NEW b \in Bands PROVE wait'[b] + since'[b] >= Due(b)'
      BY DEF WaitCoversDue
    <3>1. CASE b = b0
      <4>1. onAir'[b] = air /\ wait'[b] = OffTime(b, air) /\ since'[b] = 0
        BY <2>1, <2>2, <3>1 DEF Shape, AddEvent
      <4>2. OffTime(b, air) \in Nat
        BY <2>3, <2>4, <3>1
      <4> QED
        BY <4>1, <4>2 DEF Due
    <3>2. CASE b # b0
      <4>1. onAir'[b] = onAir[b] /\ wait'[b] = wait[b] /\ since'[b] = since[b]
        BY <2>1, <3>2 DEF Shape, AddEvent
      <4> QED
        BY <4>1 DEF Due, WaitCoversDue
    <3> QED
      BY <3>1, <3>2
  <2>7. ASSUME NEW b \in Bands, starts'[b] > starts[b]
        PROVE  since[b] >= Due(b)
    <3>1. b = b0
      BY <2>1, <2>2, <2>7 DEF AddEvent, Shape
    <3> QED
      BY <3>1, <2>2 DEF WaitCoversDue, Shape
  <2> QED
    BY <1>1, <2>5, <2>6, <2>7
<1> QED
  BY <1>2, <1>3 DEF DoSend, BandsFixed, history

\* A command that leaves the plan alone keeps the invariant.
LEMMA FixedKeeps ==
  ASSUME PlanInv, PlanFixed, BandsFixed
  PROVE  PlanInv' /\ \A b \in Bands : ~ starts'[b] > starts[b]
  BY DEF PlanInv, PlanFixed, BandsFixed, Shape, SomeChannelEnabled, Enabled, WaitCoversDue, Due

\* Enabling exactly the channels of a mask one of which fits leaves one
\* enabled; so does replacing a channel by a new one.
LEMMA PlanChangeKeeps ==
  ASSUME PlanInv, BandsFixed, channel' \in [Channels -> Channel],
         \E c \in Channels : channel'[c].on
  PROVE  PlanInv' /\ \A b \in Bands : ~ starts'[b] > starts[b]
  BY DEF PlanInv, BandsFixed, Shape, SomeChannelEnabled, Enabled, WaitCoversDue, Due

LEMMA LinkAdrReqKeeps ==
  ASSUME PlanInv, NEW r \in Rates, NEW p \in TxPowers, NEW mask \in Masks,
         LinkAdrReq(r, p, mask)
  PROVE  PlanInv' /\ \A b \in Bands : ~ starts'[b] > starts[b]
<1> DEFINE fits == {c \in mask \cap Channels : channel[c].min <= r /\ r <= channel[c].max}
<1>1. BandsFixed
  BY DEF LinkAdrReq, Command, BandsFixed, history
<1>2. CASE PlanFixed
  BY <1>1, <1>2, FixedKeeps
<1>3. CASE /\ fits # {}
           /\ channel' = [c \in Channels |-> [channel[c] EXCEPT !.on = c \in mask]]
  <2>1. PICK c \in Channels : c \in mask
    BY <1>3
  <2>2. ASSUME NEW e \in Channels
        PROVE  [channel[e] EXCEPT !.on = e \in mask] \in Channel
    <3>1. channel[e] \in Channel
      BY DEF PlanInv, Shape
    <3>2. (e \in mask) \in BOOLEAN
      OBVIOUS
    <3>3. \A on \in BOOLEAN : [channel[e] EXCEPT !.on = on] \in Channel
      BY <3>1 DEF Channel
    <3> QED
      BY <3>2, <3>3
  <2>3. channel' \in [Channels -> Channel]
    BY <1>3, <2>2
  <2>4. channel'[c].on
    BY <1>3, <2>1 DEF PlanInv, Shape, Channel
  <2> QED
    BY <1>1, <2>1, <2>3, <2>4, PlanChangeKeeps
<1>4. PlanFixed \/ (/\ fits # {}
                    /\ channel' = [c \in Channels |-> [channel[c] EXCEPT !.on = c \in mask]])
  BY DEF LinkAdrReq, Throw, PlanFixed, settings
<1> QED
  BY <1>2, <1>3, <1>4

LEMMA NewChannelReqKeeps ==
  ASSUME PlanInv, NEW i \in NewIndices, NEW ch \in NewChannels, NewChannelReq(i, ch)
  PROVE  PlanInv' /\ \A b \in Bands : ~ starts'[b] > starts[b]
<1>1. BandsFixed
  BY DEF NewChannelReq, Command, BandsFixed, history
<1>2. CASE PlanFixed
  BY <1>1, <1>2, FixedKeeps
<1>3. CASE i \in Channels /\ channel' = [channel EXCEPT ![i] = ch]
  <2>1. ch \in Channel /\ ch.on
    BY ChannelPlanAssumption
  <2>2. channel' \in [Channels -> Channel] /\ channel'[i].on
    BY <1>3, <2>1 DEF PlanInv, Shape
  <2> QED
    BY <1>1, <1>3, <2>2, PlanChangeKeeps
<1> QED
  BY <1>2, <1>3 DEF NewChannelReq, Throw, PlanFixed, settings

LEMMA ElapseKeeps ==
  ASSUME PlanInv, Elapse
  PROVE  PlanInv' /\ \A b \in Bands : ~ starts'[b] > starts[b]
<1>1. Horizon \in Nat
  BY ChannelPlanAssumption
<1>2. PlanFixed /\ starts' = starts /\ onAir' = onAir
  BY DEF Elapse, PlanFixed, settings
<1>3. Shape'
  BY <1>1, <1>2 DEF Elapse, PlanInv, Shape, PlanFixed
<1>4. SomeChannelEnabled'
  BY <1>2 DEF PlanInv, SomeChannelEnabled, Enabled, PlanFixed
<1>5. ASSUME NEW b \in Bands PROVE (wait[b] + since[b] >= Due(b))'
  <2>1. wait[b] + since[b] >= Due(b) /\ wait[b] \in Nat /\ since[b] \in 0 .. Horizon
        /\ Due(b) \in 0 .. Horizon /\ Due(b)' = Due(b)
    BY <1>2, DueNat DEF PlanInv, Shape, WaitCoversDue, Due
  <2>2. wait'[b] = IF wait[b] > 0 THEN wait[b] - 1 ELSE 0
    BY DEF Elapse
  <2>3. since'[b] = IF since[b] < Horizon THEN since[b] + 1 ELSE since[b]
    BY DEF Elapse
  <2> QED
    BY <1>1, <1>2, <2>1, <2>2, <2>3
<1>6. \A b \in Bands : ~ starts'[b] > starts[b]
  BY <1>2 DEF PlanInv, Shape
<1> QED
  BY <1>3, <1>4, <1>5, <1>6 DEF PlanInv, WaitCoversDue

LEMMA NextKeeps ==
  ASSUME PlanInv, [Next]_vars
  PROVE  PlanInv' /\ \A b \in Bands : starts'[b] > starts[b] => since[b] >= Due(b)
<1>1. ASSUME NEW air \in Airs, NEW rest \in Rests, Send(air, rest)
      PROVE  PlanInv' /\ \A b \in Bands : starts'[b] > starts[b] => since[b] >= Due(b)
  <2>1. PlanFixed
    BY <1>1 DEF Send, PlanFixed, settings
  <2>2. DoSend(air) \/ BandsFixed
    BY <1>1 DEF Send, BandsFixed, history, postponeTransmission
  <2> QED
    BY <2>1, <2>2, DoSendKeeps, FixedKeeps
<1>2. ASSUME NEW air \in Airs, DoSendEvent(air)
      PROVE  PlanInv' /\ \A b \in Bands : starts'[b] > starts[b] => since[b] >= Due(b)
  <2>1. PlanFixed /\ DoSend(air)
    BY <1>2 DEF DoSendEvent, PlanFixed, settings
  <2> QED
    BY <2>1, DoSendKeeps
<1>3. ASSUME NEW r \in Rates, NEW p \in TxPowers, NEW mask \in Masks, LinkAdrReq(r, p, mask)
      PROVE  PlanInv' /\ \A b \in Bands : starts'[b] > starts[b] => since[b] >= Due(b)
  BY <1>3, LinkAdrReqKeeps
<1>4. ASSUME \/ \E percent \in DutyCycles : DutyCycleReq(percent)
             \/ \E o \in Offsets : RxParamSetupReq(o)
             \/ DevStatusReq
             \/ UNCHANGED vars
      PROVE  PlanInv' /\ \A b \in Bands : starts'[b] > starts[b] => since[b] >= Due(b)
  <2>1. PlanFixed
    BY <1>4 DEF DutyCycleReq, RxParamSetupReq, DevStatusReq, PlanFixed, settings, vars
  <2>2. BandsFixed
    BY <1>4 DEF DutyCycleReq, RxParamSetupReq, DevStatusReq, Command, BandsFixed, history, vars
  <2> QED
    BY <2>1, <2>2, FixedKeeps
<1>5. ASSUME NEW i \in NewIndices, NEW ch \in NewChannels, NewChannelReq(i, ch)
      PROVE  PlanInv' /\ \A b \in Bands : starts'[b] > starts[b] => since[b] >= Due(b)
  BY <1>5, NewChannelReqKeeps
<1>6. ASSUME Elapse
      PROVE  PlanInv' /\ \A b \in Bands : starts'[b] > starts[b] => since[b] >= Due(b)
  BY <1>6, ElapseKeeps
<1> QED
  BY <1>1, <1>2, <1>3, <1>4, <1>5, <1>6 DEF Next

-----------------------------------------------------------------------------

\* While a packet is postponed and no command has changed the enabled
\* channels, one of them will be free when its event runs.
Ready ==
  postponed \in Nat /\ ~changed =>
    \E c \in Enabled : ~UnknownBand(c) /\ GetWaitingTime(c) <= postponed

NullInv ==
  /\ postponed \in Nat \cup {NotPostponed, Never}
  /\ Ready
  /\ NullOnlyAfterCommand

\* DoSend finds a free channel if there is one.
LEMMA DoSendFindsChannel ==
  ASSUME NullInv, NEW air \in Airs, DoSend(air), Running, changed \/ Usable # {}
  PROVE  NullInv'
<1>1. postponed' = NotPostponed /\ changed' = changed
  BY DEF DoSend
<1>2. fault' = "nullChannel" => changed
  BY DEF DoSend, Abort
<1>3. NotPostponed \notin Nat
  BY DEF NotPostponed
<1> QED
  BY <1>1, <1>2, <1>3 DEF NullInv, Ready, NullOnlyAfterCommand

LEMMA SendNull ==
  ASSUME PlanInv, NullInv, NEW air \in Airs, NEW rest \in Rests, Send(air, rest)
  PROVE  NullInv'
<1>1. Running /\ PlanFixed
  BY DEF Send, PlanFixed, settings
<1>2. CASE /\ fault' \in {"noSubBand", "powerAssert"}
           /\ UNCHANGED <<wait, postponed, changed>>
  BY <1>1, <1>2 DEF NullInv, Ready, NullOnlyAfterCommand, Enabled, UnknownBand,
                    GetWaitingTime, PlanFixed
<1>3. CASE \E c \in Usable : DoSend(air)
  BY <1>1, <1>3, DoSendFindsChannel
<1>4. CASE \E delay \in Rests \cup (0 .. Horizon) \cup {Never} :
             /\ ~ \E c \in Enabled : UnknownBand(c)
             /\ GetNextTransmissionDelay(rest, delay)
             /\ postponeTransmission(delay)
  <2>1. PICK delay \in Rests \cup (0 .. Horizon) \cup {Never} :
             /\ ~ \E c \in Enabled : UnknownBand(c)
             /\ GetNextTransmissionDelay(rest, delay)
             /\ postponeTransmission(delay)
    BY <1>4
  <2>2. rest \in Nat /\ delay \in Nat \cup {Never}
    BY ChannelPlanAssumption
  <2>3. Never \notin Nat
    BY DEF Never
  <2>4. ASSUME delay \in Nat
        PROVE  \E c \in Enabled : ~UnknownBand(c) /\ GetWaitingTime(c) <= delay
    <3>1. PICK c \in Enabled :
            delay = IF rest > GetWaitingTime(c) THEN rest ELSE GetWaitingTime(c)
      BY <2>1, <2>3, <2>4 DEF GetNextTransmissionDelay
    <3>2. ~UnknownBand(c)
      BY <2>1
    <3>3. GetWaitingTime(c) \in Nat
      BY <3>2 DEF PlanInv, Shape, Enabled, UnknownBand, GetWaitingTime, Channel
    <3>4. GetWaitingTime(c) <= delay
      BY <2>2, <3>1, <3>3
    <3> QED
      BY <3>2, <3>4
  <2>5. postponed' = delay /\ ~changed' /\ wait' = wait /\ fault' = fault
    BY <2>1 DEF postponeTransmission
  <2>6. Ready'
    BY <1>1, <2>4, <2>5 DEF Ready, Enabled, UnknownBand, GetWaitingTime, PlanFixed
  <2>7. fault' # "nullChannel"
    BY <1>1, <2>5 DEF Running
  <2> QED
    BY <2>2, <2>5, <2>6, <2>7 DEF NullInv, NullOnlyAfterCommand
<1>5. \/ /\ fault' \in {"noSubBand", "powerAssert"} /\ UNCHANGED <<wait, postponed, changed>>
      \/ \E c \in Usable : DoSend(air)
      \/ \E delay \in Rests \cup (0 .. Horizon) \cup {Never} :
             /\ ~ \E c \in Enabled : UnknownBand(c)
             /\ GetNextTransmissionDelay(rest, delay)
             /\ postponeTransmission(delay)
  <2>1. CASE \E c \in Enabled : UnknownBand(c)
    BY <2>1 DEF Send, Abort
  <2>2. CASE ~ \E c \in Enabled : UnknownBand(c)
    BY <2>2 DEF Send, Abort
  <2> QED
    BY <2>1, <2>2
<1> QED
  BY <1>2, <1>3, <1>4, <1>5

LEMMA DoSendEventNull ==
  ASSUME PlanInv, NullInv, NEW air \in Airs, DoSendEvent(air)
  PROVE  NullInv'
<1>1. Running /\ DoSend(air) /\ postponed = 0
  BY DEF DoSendEvent
<1>2. ASSUME ~changed PROVE Usable # {}
  <2>1. PICK c \in Enabled : ~UnknownBand(c) /\ GetWaitingTime(c) <= 0
    BY <1>1, <1>2 DEF NullInv, Ready
  <2>2. GetWaitingTime(c) \in Nat
    BY <2>1 DEF PlanInv, Shape, Enabled, UnknownBand, GetWaitingTime, Channel
  <2>3. GetWaitingTime(c) = 0
    BY <2>1, <2>2
  <2> QED
    BY <2>1, <2>3 DEF Usable
<1> QED
  BY <1>1, <1>2, DoSendFindsChannel

\* A command leaves the plan and the flag alone, or raises the flag if a
\* packet is postponed.
LEMMA CommandNull ==
  ASSUME NullInv, Command, fault' = fault \/ fault' # "nullChannel",
         (PlanFixed /\ changed' = changed) \/ PlanChanges
  PROVE  NullInv'
<1>1. Running /\ UNCHANGED <<wait, postponed>>
  BY DEF Command
<1>2. fault' # "nullChannel"
  BY <1>1 DEF Running
<1>3. Ready'
  <2>1. CASE PlanFixed /\ changed' = changed
    BY <1>1, <2>1 DEF NullInv, Ready, Enabled, UnknownBand, GetWaitingTime, PlanFixed
  <2>2. CASE PlanChanges
    <3>1. ASSUME postponed \in Nat PROVE postponed # NotPostponed
      BY <3>1 DEF NotPostponed
    <3>2. postponed' \in Nat => changed'
      BY <1>1, <2>2, <3>1 DEF PlanChanges
    <3> QED
      BY <3>2 DEF Ready
  <2> QED
    BY <2>1, <2>2
<1> QED
  BY <1>1, <1>2, <1>3 DEF NullInv, NullOnlyAfterCommand

LEMMA ElapseNull ==
  ASSUME PlanInv, NullInv, Elapse
  PROVE  NullInv'
<1>1. PlanFixed /\ fault' = fault /\ changed' = changed /\ postponed # 0
  BY DEF Elapse, PlanFixed, settings
<1>2. postponed' = IF postponed > 0 THEN postponed - 1 ELSE postponed
  BY DEF Elapse
<1>3. postponed' \in Nat \cup {NotPostponed, Never}
  BY <1>2 DEF NullInv, NotPostponed, Never
<1>4. ASSUME postponed' \in Nat, ~changed'
      PROVE  \E c \in Enabled : ~UnknownBand(c) /\ GetWaitingTime(c)' <= postponed'
  <2>1. postponed \in Nat /\ postponed' = postponed - 1
    BY <1>1, <1>2, <1>4 DEF NullInv, NotPostponed, Never
  <2>2. PICK c \in Enabled : ~UnknownBand(c) /\ GetWaitingTime(c) <= postponed
    BY <1>1, <1>4, <2>1 DEF NullInv, Ready
  <2> DEFINE b == channel[c].band
  <2>3. b \in Bands /\ wait[b] \in Nat
    BY <2>2 DEF PlanInv, Shape, Enabled, UnknownBand, Channel
  <2>4. wait'[b] = IF wait[b] > 0 THEN wait[b] - 1 ELSE 0
    BY <2>3 DEF Elapse
  <2>5. wait[b] <= postponed
    BY <2>2 DEF GetWaitingTime
  <2>6. wait'[b] <= postponed'
    BY <1>1, <2>1, <2>3, <2>4, <2>5
  <2> QED
    BY <1>1, <2>2, <2>6 DEF GetWaitingTime, PlanFixed
<1>5. Ready'
  BY <1>1, <1>4 DEF Ready, Enabled, UnknownBand, PlanFixed
<1> QED
  BY <1>1, <1>3, <1>5 DEF NullInv, NullOnlyAfterCommand

LEMMA NextNull ==
  ASSUME PlanInv, NullInv, [Next]_vars
  PROVE  NullInv'
<1>1. ASSUME NEW r \in Rates, NEW p \in TxPowers, NEW mask \in Masks, LinkAdrReq(r, p, mask)
      PROVE  NullInv'
  BY <1>1, CommandNull DEF LinkAdrReq, Throw, Abort, Answer, PlanFixed, settings
<1>2. ASSUME NEW i \in NewIndices, NEW ch \in NewChannels, NewChannelReq(i, ch)
      PROVE  NullInv'
  BY <1>2, CommandNull DEF NewChannelReq, Throw, Abort, Answer, PlanFixed, settings
<1>3. ASSUME \/ \E percent \in DutyCycles : DutyCycleReq(percent)
             \/ \E o \in Offsets : RxParamSetupReq(o)
             \/ DevStatusReq
      PROVE  NullInv'
  BY <1>3, CommandNull
     DEF DutyCycleReq, RxParamSetupReq, DevStatusReq, Abort, Answer, PlanFixed, settings
<1>4. CASE UNCHANGED vars
  BY <1>4 DEF vars, settings, NullInv, Ready, NullOnlyAfterCommand, Enabled, UnknownBand,
              GetWaitingTime
<1> QED
  BY <1>1, <1>2, <1>3, <1>4, SendNull, DoSendEventNull, ElapseNull DEF Next

-----------------------------------------------------------------------------

\* Whatever LinkAdrReq and NewChannelReq carry, an enabled channel remains
\* (OnLinkAdrReq, end-device-lorawan-mac.cc:1154, asks for one that fits).
THEOREM ChannelRemains == Spec => []SomeChannelEnabled
<1>1. Init => PlanInv
  BY InitPlan
<1>2. PlanInv /\ [Next]_vars => PlanInv'
  BY NextKeeps
<1>3. PlanInv => SomeChannelEnabled
  BY DEF PlanInv
<1> QED
  BY <1>1, <1>2, <1>3, PTL DEF Spec

\* Under any limited duty cycle a transmission begins in a sub-band when the
\* last one there is over (LogicalLoraChannelHelper::AddEvent, GetWaitingTime).
THEOREM NeverOverlaps == Spec => NoOverlap
<1>1. Init => PlanInv
  BY InitPlan
<1>2. PlanInv /\ [Next]_vars => PlanInv'
  BY NextKeeps
<1>3. ASSUME PlanInv, [Next]_vars
      PROVE  [\A b \in Bands : DutyInverse[b] > 1 /\ starts'[b] > starts[b]
                => since[b] >= onAir[b]]_vars
  <2> SUFFICES ASSUME NEW b \in Bands, DutyInverse[b] > 1, starts'[b] > starts[b]
               PROVE  since[b] >= onAir[b]
    OBVIOUS
  <2>1. since[b] >= Due(b)
    BY <1>3, NextKeeps
  <2>2. Due(b) \in Nat /\ onAir[b] \in Nat /\ onAir[b] <= Due(b)
    BY <1>3, DueNat DEF PlanInv
  <2>3. since[b] \in Nat
    BY <1>3 DEF PlanInv, Shape
  <2> QED
    BY <2>1, <2>2, <2>3
<1> QED
  BY <1>1, <1>2, <1>3, PTL DEF Spec, NoOverlap

\* SendToPhy never dereferences a null channel unless a MAC command changed
\* the enabled channels while the packet was postponed.
THEOREM NullExplained == Spec => []NullOnlyAfterCommand
<1>1. Init => PlanInv /\ NullInv
  <2>1. Init => NullInv
    BY DEF Init, NullInv, Ready, NullOnlyAfterCommand, NotPostponed
  <2> QED
    BY <2>1, InitPlan
<1>2. (PlanInv /\ NullInv) /\ [Next]_vars => (PlanInv /\ NullInv)'
  BY NextKeeps, NextNull
<1>3. PlanInv /\ NullInv => NullOnlyAfterCommand
  BY DEF NullInv
<1> QED
  BY <1>1, <1>2, <1>3, PTL DEF Spec

-----------------------------------------------------------------------------
(* The types of the other variables.                                       *)

AnswerSet ==
  {<<"DutyCycleAns">>, <<"DevStatusAns">>, <<"NewChannelAns">>}
    \cup ({"RxParamSetupAns"} \X BOOLEAN)
    \cup ({"LinkAdrAns"} \X BOOLEAN \X BOOLEAN \X BOOLEAN)

Faults == {"none", "nullChannel", "noSubBand", "powerAssert", "dutyAssert", "outOfRange"}

SettingTypes ==
  /\ rate \in Nat /\ power \in Int /\ offset \in Nat /\ aggregate \in 0 .. 100
  /\ commands \in 0 .. NumCommands /\ answers \in Seq(AnswerSet)

SendTypes ==
  /\ postponed \in Nat \cup {NotPostponed, Never}
  /\ sends \in 0 .. NumSends /\ fault \in Faults /\ changed \in BOOLEAN

LEMMA InitOtherTypes == Init => SettingTypes /\ SendTypes
<1> USE ChannelPlanAssumption
<1> SUFFICES ASSUME Init PROVE SettingTypes /\ SendTypes
  OBVIOUS
<1>1. Dbm[1] \in Int
  OBVIOUS
<1>2. answers \in Seq(AnswerSet)
  BY DEF Init
<1>3. SettingTypes
  BY <1>1, <1>2 DEF Init, SettingTypes
<1>4. SendTypes
  <2>1. changed \in BOOLEAN
    BY Zenon DEF Init
  <2>2. 0 \in 0 .. NumSends
    OBVIOUS
  <2> QED
    BY <2>1, <2>2 DEF Init, SendTypes, Faults
<1> QED
  BY <1>3, <1>4

LEMMA AppendAnswer ==
  ASSUME SettingTypes, NEW ans \in AnswerSet, Answer(ans)
  PROVE  answers' \in Seq(AnswerSet)
  BY DEF SettingTypes, Answer

\* A command counts, and answers or ends the run.
LEMMA CommandTypes ==
  ASSUME SettingTypes, SendTypes, Command,
         answers' \in Seq(AnswerSet), fault' \in Faults, changed' \in BOOLEAN,
         rate' \in Nat, power' \in Int, offset' \in Nat, aggregate' \in 0 .. 100
  PROVE  SettingTypes' /\ SendTypes'
<1>1. NumCommands \in Nat
  BY ChannelPlanAssumption
<1>2. commands' \in 0 .. NumCommands /\ UNCHANGED <<postponed, sends>>
  BY <1>1 DEF Command, SettingTypes
<1> QED
  BY <1>2 DEF SettingTypes, SendTypes

LEMMA LinkAdrReqTypes ==
  ASSUME SettingTypes, SendTypes, NEW r \in Rates, NEW p \in TxPowers, NEW mask \in Masks,
         LinkAdrReq(r, p, mask)
  PROVE  SettingTypes' /\ SendTypes'
<1> USE ChannelPlanAssumption
<1> DEFINE maskOk == \A i \in mask : i <= NumChannels
           fits == {c \in mask \cap Channels : channel[c].min <= r /\ r <= channel[c].max}
           rateOk == r < NumRates /\ (maskOk => fits # {})
           powerOk == p < NumPowers
           ans == <<"LinkAdrAns", powerOk, rateOk, maskOk>>
<1>1. Command /\ offset' = offset /\ aggregate' = aggregate
      /\ changed' \in {changed, changed \/ postponed # NotPostponed}
  BY DEF LinkAdrReq, Throw, settings, PlanChanges
<1>2. rate' \in Nat /\ power' \in Int
  <2>1. CASE UNCHANGED <<rate, power>>
    BY <2>1 DEF SettingTypes
  <2>2. CASE rate' = r /\ power' = Dbm[p] /\ p < NumPowers
    <3>1. r \in Nat /\ p \in 0 .. NumPowers - 1
      BY <2>2
    <3> QED
      BY <2>2, <3>1
  <2> QED
    BY <2>1, <2>2 DEF LinkAdrReq, Throw, settings
<1>3. answers' \in Seq(AnswerSet) /\ fault' \in Faults
  <2>1. CASE Throw
    BY <2>1 DEF Throw, Abort, SettingTypes, Faults
  <2>2. CASE Answer(ans)
    <3>1. maskOk \in BOOLEAN /\ rateOk \in BOOLEAN /\ powerOk \in BOOLEAN
      OBVIOUS
    <3> HIDE DEF maskOk, rateOk, powerOk
    <3>2. ans \in AnswerSet
      BY <3>1 DEF AnswerSet
    <3> HIDE DEF ans
    <3>3. answers' \in Seq(AnswerSet)
      BY <2>2, <3>2, AppendAnswer
    <3> QED
      BY <2>2, <3>3 DEF Answer, SendTypes
  <2> QED
    BY <2>1, <2>2 DEF LinkAdrReq
<1>4. changed' \in BOOLEAN
  BY <1>1 DEF SendTypes
<1>5. offset' \in Nat /\ aggregate' \in 0 .. 100
  BY <1>1 DEF SettingTypes
<1> QED
  BY <1>1, <1>2, <1>3, <1>4, <1>5, CommandTypes

LEMMA OtherCommandTypes ==
  ASSUME SettingTypes, SendTypes,
         \/ \E percent \in DutyCycles : DutyCycleReq(percent)
         \/ \E o \in Offsets : RxParamSetupReq(o)
         \/ DevStatusReq
         \/ \E i \in NewIndices, ch \in NewChannels : NewChannelReq(i, ch)
  PROVE  SettingTypes' /\ SendTypes'
<1> USE ChannelPlanAssumption
<1>1. ASSUME NEW ans \in AnswerSet, Answer(ans)
      PROVE  answers' \in Seq(AnswerSet) /\ fault' \in Faults
  BY <1>1, AppendAnswer DEF Answer, SendTypes
<1>2. ASSUME NEW percent \in DutyCycles, DutyCycleReq(percent) PROVE SettingTypes' /\ SendTypes'
  <2>1. <<"DutyCycleAns">> \in AnswerSet
    BY DEF AnswerSet
  <2>2. answers' \in Seq(AnswerSet) /\ fault' \in Faults
    BY <1>1, <1>2, <2>1 DEF DutyCycleReq, Abort, Faults, SettingTypes
  <2>3. /\ Command /\ changed' = changed
        /\ rate' = rate /\ power' = power /\ offset' = offset /\ aggregate' \in {aggregate, percent}
    BY <1>2 DEF DutyCycleReq, settings
  <2> QED
    BY <2>2, <2>3, CommandTypes DEF SettingTypes, SendTypes
<1>3. ASSUME NEW o \in Offsets, RxParamSetupReq(o) PROVE SettingTypes' /\ SendTypes'
  <2>1. \A b \in BOOLEAN : <<"RxParamSetupAns", b>> \in AnswerSet
    BY DEF AnswerSet
  <2>2. (o <= 5) \in BOOLEAN
    OBVIOUS
  <2>3. answers' \in Seq(AnswerSet) /\ fault' \in Faults
    BY <1>1, <1>3, <2>1, <2>2 DEF RxParamSetupReq
  <2>4. /\ Command /\ changed' = changed
        /\ rate' = rate /\ power' = power /\ offset' = o /\ aggregate' = aggregate
    BY <1>3 DEF RxParamSetupReq
  <2> QED
    BY <2>3, <2>4, CommandTypes DEF SettingTypes, SendTypes
<1>4. CASE DevStatusReq
  <2>1. <<"DevStatusAns">> \in AnswerSet
    BY DEF AnswerSet
  <2>2. answers' \in Seq(AnswerSet) /\ fault' \in Faults /\ Command
        /\ UNCHANGED <<rate, power, offset, aggregate, changed>>
    BY <1>1, <1>4, <2>1 DEF DevStatusReq, settings
  <2> QED
    BY <2>2, CommandTypes DEF SettingTypes, SendTypes
<1>5. ASSUME NEW i \in NewIndices, NEW ch \in NewChannels, NewChannelReq(i, ch)
      PROVE  SettingTypes' /\ SendTypes'
  <2>1. <<"NewChannelAns">> \in AnswerSet
    BY DEF AnswerSet
  <2>2. answers' \in Seq(AnswerSet) /\ fault' \in Faults
    BY <1>1, <1>5, <2>1 DEF NewChannelReq, Throw, Abort, Faults, SettingTypes
  <2>3. /\ Command /\ UNCHANGED <<rate, power, offset, aggregate>>
        /\ changed' \in {changed, changed \/ postponed # NotPostponed}
    BY <1>5 DEF NewChannelReq, Throw, settings, PlanChanges
  <2> QED
    BY <2>2, <2>3, CommandTypes DEF SettingTypes, SendTypes
<1> QED
  BY <1>2, <1>3, <1>4, <1>5

LEMMA DoSendTypes ==
  ASSUME SettingTypes, SendTypes, NEW air \in Airs, DoSend(air)
  PROVE  /\ answers' \in Seq(AnswerSet) /\ postponed' = NotPostponed /\ changed' = changed
         /\ fault' \in Faults
  BY DEF DoSend, Abort, Faults

LEMMA TimeTypes ==
  ASSUME SettingTypes, SendTypes,
         \/ \E air \in Airs, rest \in Rests : Send(air, rest)
         \/ \E air \in Airs : DoSendEvent(air)
         \/ Elapse
         \/ UNCHANGED vars
  PROVE  SettingTypes' /\ SendTypes'
<1> USE ChannelPlanAssumption
<1>1. ASSUME NEW air \in Airs, NEW rest \in Rests, Send(air, rest) PROVE SettingTypes' /\ SendTypes'
  <2>1. UNCHANGED <<rate, power, offset, aggregate, commands>> /\ sends' \in 0 .. NumSends
    BY <1>1 DEF Send, settings, SendTypes
  <2>2. CASE DoSend(air)
    BY <2>1, <2>2, DoSendTypes DEF SettingTypes, SendTypes
  <2>3. CASE \E delay \in Rests \cup (0 .. Horizon) \cup {Never} : postponeTransmission(delay)
    <3>1. PICK delay \in Rests \cup (0 .. Horizon) \cup {Never} : postponeTransmission(delay)
      BY <2>3
    <3>2. postponed' \in Nat \cup {NotPostponed, Never}
      BY <3>1 DEF postponeTransmission
    <3>3. changed' \in BOOLEAN
      BY <3>1, Zenon DEF postponeTransmission
    <3>4. UNCHANGED <<answers, fault>>
      BY <3>1 DEF postponeTransmission
    <3> QED
      BY <2>1, <3>2, <3>3, <3>4 DEF SettingTypes, SendTypes
  <2>4. CASE fault' \in Faults /\ UNCHANGED <<answers, postponed, changed>>
    BY <2>1, <2>4 DEF SettingTypes, SendTypes
  <2>5. \A why \in {"noSubBand", "powerAssert"} : Abort(why) => fault' \in Faults
    BY DEF Abort, Faults
  <2> QED
    BY <1>1, <2>2, <2>3, <2>4, <2>5 DEF Send
<1>2. ASSUME NEW air \in Airs, DoSendEvent(air) PROVE SettingTypes' /\ SendTypes'
  BY <1>2, DoSendTypes DEF DoSendEvent, settings, SettingTypes, SendTypes
<1>3. CASE Elapse
  <2>1. postponed' \in Nat \cup {NotPostponed, Never}
    BY <1>3, SMTT(30) DEF Elapse, SendTypes, NotPostponed, Never
  <2> QED
    BY <1>3, <2>1 DEF Elapse, settings, SettingTypes, SendTypes
<1>4. CASE UNCHANGED vars
  BY <1>4 DEF vars, settings, SettingTypes, SendTypes
<1> QED
  BY <1>1, <1>2, <1>3, <1>4

\* Every variable of the device has its type: the vectors that a LinkAdrReq
\* indexes past its range checks are never read outside their bounds without
\* an exception that ends the run.
THEOREM PlanTyped == Spec => []TypeOK
<1>1. PlanInv /\ SettingTypes /\ SendTypes => TypeOK
  BY DEF PlanInv, Shape, SettingTypes, SendTypes, AnswerSet, Faults, TypeOK
<1>2. Init => PlanInv /\ SettingTypes /\ SendTypes
  BY InitPlan, InitOtherTypes
<1>3. PlanInv /\ SettingTypes /\ SendTypes /\ [Next]_vars => (PlanInv /\ SettingTypes /\ SendTypes)'
  BY NextKeeps, LinkAdrReqTypes, OtherCommandTypes, TimeTypes DEF Next
<1> QED
  BY <1>1, <1>2, <1>3, PTL DEF Spec
=============================================================================
