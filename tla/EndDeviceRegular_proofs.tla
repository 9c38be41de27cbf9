----------------------- MODULE EndDeviceRegular_proofs -----------------------
(***************************************************************************)
(* The class A end device under the duty cycle of a limited sub-band: when *)
(* the wait outlasts the receive windows and any reception in them, one    *)
(* procedure runs at a time, every switch of the radio finds it in the     *)
(* state the code asserts, and no packet is attempted too often or too     *)
(* soon.                                                                   *)
(***************************************************************************)
EXTENDS EndDevice_proofs

\* What limits the device: the PHY transmits what the MAC sends, no
\* interferer's packet reaches it, a downlink does not begin in the 10 ns
\* after a transmission, the first window closes before the second opens,
\* and the duty cycle outlasts both and what is received in them.
Regular ==
  /\ IF Confirmed THEN FlaggedCopies ELSE AppFlag
  /\ NumNoise = 0 /\ ~ GapArrivals
  /\ Delay1 + Window < Delay2
  /\ \A r \in Durations \cup {0} : TxTime + Delay2 + Window + r < DutyWait

-----------------------------------------------------------------------------
(* The clock of a device: how long until its event of each kind, or -1.    *)

When(q, k) == IF OfKind(q, k) = {} THEN -1 ELSE (CHOOSE e \in OfKind(q, k) : TRUE).left
Clock(d) == [k \in Events |-> When(d.queue, k)]

WellFormed(d) ==
  /\ Frame(d)
  /\ \A k \in Events : Single(d.queue, k)
  /\ Before(d.queue, "standby", "txFinished")

LEMMA WhenIs ==
  ASSUME NEW q \in Seq(Event), NEW k \in Events, Single(q, k)
  PROVE  /\ When(q, k) \in Int /\ When(q, k) >= -1
         /\ When(q, k) = -1 <=> OfKind(q, k) = {}
         /\ \A e \in OfKind(q, k) : e \in Event /\ e.left = When(q, k)
<1>1. \A e \in OfKind(q, k) : e \in Event /\ e.left \in Nat
  <2>1. \A i \in DOMAIN q : q[i] \in Event
    BY LenProperties, ElementOfSeq
  <2>2. \A e \in OfKind(q, k) : e \in Event
    BY <2>1 DEF OfKind
  <2> QED
    BY <2>2 DEF Event
<1>2. \A e, f \in OfKind(q, k) : e = f
  BY DEF OfKind, Single
<1>3. CASE OfKind(q, k) = {}
  BY <1>3 DEF When
<1>4. CASE OfKind(q, k) # {}
  <2>1. PICK e \in OfKind(q, k) : TRUE
    BY <1>4
  <2>2. (CHOOSE f \in OfKind(q, k) : TRUE) = e
    BY <1>2
  <2>3. When(q, k) = e.left
    BY <1>4, <2>2 DEF When
  <2> QED
    BY <1>1, <1>2, <1>4, <2>3
<1> QED
  BY <1>3, <1>4

LEMMA SameWhen ==
  ASSUME NEW q \in Seq(Event), NEW new \in Seq(Event), NEW k \in Events, Single(q, k), Single(new, k),
         OfKind(new, k) = OfKind(q, k)
  PROVE  When(new, k) = When(q, k)
<1>1. CASE OfKind(q, k) = {}
  BY <1>1, WhenIs
<1>2. CASE OfKind(q, k) # {}
  <2>1. PICK e \in OfKind(q, k) : e \in OfKind(new, k)
    BY <1>2
  <2>2. e.left = When(q, k) /\ e.left = When(new, k)
    BY <2>1, WhenIs
  <2> QED
    BY <2>2
<1> QED
  BY <1>1, <1>2

LEMMA ClockTyped ==
  ASSUME NEW d, WellFormed(d)
  PROVE  /\ Clock(d) \in [Events -> Int]
         /\ \A k \in Events :
              /\ Clock(d)[k] = When(d.queue, k) /\ Clock(d)[k] \in Int /\ Clock(d)[k] >= -1
              /\ Clock(d)[k] = -1 <=> OfKind(d.queue, k) = {}
              /\ \A e \in OfKind(d.queue, k) : e \in Event /\ e.left = Clock(d)[k]
<1>1. d.queue \in Seq(Event)
  BY DEF WellFormed, Frame, Device
<1>2. \A k \in Events : Single(d.queue, k)
  BY DEF WellFormed
<1>3. \A k \in Events : Clock(d)[k] = When(d.queue, k)
  BY DEF Clock
<1>4. \A k \in Events :
        /\ When(d.queue, k) \in Int /\ When(d.queue, k) >= -1
        /\ When(d.queue, k) = -1 <=> OfKind(d.queue, k) = {}
        /\ \A e \in OfKind(d.queue, k) : e \in Event /\ e.left = When(d.queue, k)
  BY <1>1, <1>2, WhenIs
<1>5. Clock(d) \in [Events -> Int]
  BY <1>4 DEF Clock
<1> QED
  BY <1>3, <1>4, <1>5

\* The clock U is T with kind k set to t.
SetTo(T, U, k, t) == U[k] = t /\ \A kk \in Events \ {k} : U[kk] = T[kk]

LEMMA ScheduleClock ==
  ASSUME NEW d, WellFormed(d), NEW k \in Events, Clock(d)[k] = -1, NEW delay \in Nat, NEW arg \in Args,
         k = "standby" => Clock(d)["txFinished"] = -1,
         k = "txFinished" => Clock(d)["standby"] <= delay
  PROVE  LET r == Schedule(d, k, delay, arg) IN
         /\ WellFormed(r) /\ OnlyQueue(d, r) /\ SetTo(Clock(d), Clock(r), k, delay)
         /\ k # "doSend" => OfKind(r.queue, "doSend") = OfKind(d.queue, "doSend")
         /\ k = "doSend" => OfKind(r.queue, "doSend") = {NewEvent(k, delay, arg)}
<1> DEFINE r == Schedule(d, k, delay, arg)
           x == NewEvent(k, delay, arg)
           q == d.queue
           new == r.queue
<1>1. Frame(d) /\ d \in Device /\ Ordered(q) /\ q \in Seq(Event) /\ \A kk \in Events : Single(q, kk)
  BY DEF WellFormed, Frame, Device
<1>2. OnlyQueue(d, r) /\ Enqueued(q, new, x)
  BY <1>1, ScheduleDevice
<1>3. x.kind = k /\ x.left = delay /\ x.handle
  BY DEF NewEvent
<1>4. OfKind(q, k) = {}
  BY ClockTyped
<1> HIDE DEF x, q, r
<1>5. /\ OfKind(new, k) = {x} /\ Ordered(new)
      /\ \A kk \in Events \ {k} : OfKind(new, kk) = OfKind(q, kk)
      /\ \A kk \in Events : Single(new, kk)
  BY <1>1, <1>2, <1>3, <1>4 DEF Enqueued
<1>6. \A kk \in Events \ {k} : When(new, kk) = When(q, kk)
  <2>1. new \in Seq(Event)
    BY <1>2 DEF OnlyQueue, Device
  <2> QED
    BY <1>1, <1>5, <2>1, SameWhen
<1>7. When(new, k) = delay
  BY <1>3, <1>5 DEF When
<1>8. {"standby", "txFinished", "doSend"} \subseteq Events
  BY DEF Events
<1>9. Before(new, "standby", "txFinished")
  <2>1. CASE k \notin {"standby", "txFinished"}
    <3>1. {"standby", "txFinished"} \subseteq Events \ {x.kind}
      BY <1>3, <1>8, <2>1
    <3> QED
      BY <1>2, <3>1 DEF Enqueued, WellFormed, q
  <2>2. CASE k = "standby"
    <3>1. OfKind(q, "txFinished") = {}
      BY <1>8, <2>2, ClockTyped DEF q
    <3>2. OfKind(new, "txFinished") = {}
      BY <1>5, <1>8, <2>2, <3>1
    <3> QED
      BY <3>2 DEF Before, OfKind
  <2>3. CASE k = "txFinished"
    <3>1. \A e \in OfKind(q, "standby") : e.left <= x.left
      BY <1>3, <1>8, <2>3, ClockTyped DEF q
    <3>2. "standby" \in Events \ {x.kind}
      BY <1>3, <1>8, <2>3
    <3> QED
      BY <1>2, <1>3, <1>4, <2>3, <3>1, <3>2 DEF Enqueued
  <2> QED
    BY <2>1, <2>2, <2>3
<1>10. WellFormed(r)
  BY <1>2, <1>5, <1>8, <1>9 DEF WellFormed, Frame, OnlyQueue
<1>11. SetTo(Clock(d), Clock(r), k, delay)
  BY <1>6, <1>7 DEF SetTo, Clock, q
<1>12. /\ k # "doSend" => OfKind(new, "doSend") = OfKind(q, "doSend")
       /\ k = "doSend" => OfKind(new, "doSend") = {x}
  BY <1>5, <1>8
<1> QED
  BY <1>2, <1>10, <1>11, <1>12 DEF r, x, q

LEMMA CancelClock ==
  ASSUME NEW d, WellFormed(d), NEW k \in Events
  PROVE  LET r == Cancel(d, k) IN
         /\ WellFormed(r) /\ OnlyQueue(d, r) /\ SetTo(Clock(d), Clock(r), k, -1)
         /\ k # "doSend" => OfKind(r.queue, "doSend") = OfKind(d.queue, "doSend")
         /\ k = "doSend" => OfKind(r.queue, "doSend") = {}
<1> DEFINE r == Cancel(d, k)
<1>1. d \in Device /\ Ordered(d.queue) /\ \A kk \in Events : Single(d.queue, kk)
  BY DEF WellFormed, Frame
<1>2. /\ OnlyQueue(d, r) /\ Ordered(r.queue)
      /\ \A kk, kkk \in Events : Before(d.queue, kk, kkk) => Before(r.queue, kk, kkk)
      /\ Single(d.queue, k) => OfKind(r.queue, k) = {}
      /\ \A kk \in Events :
           /\ Single(d.queue, kk) => Single(r.queue, kk)
           /\ OfKind(r.queue, kk) \subseteq OfKind(d.queue, kk)
           /\ kk # k => OfKind(r.queue, kk) = OfKind(d.queue, kk)
  BY <1>1, CancelDevice
<1> HIDE DEF r
<1>3. {"standby", "txFinished", "doSend"} \subseteq Events
  BY DEF Events
<1>4. WellFormed(r)
  BY <1>1, <1>2, <1>3 DEF WellFormed, Frame, OnlyQueue
<1>5. \A kk \in Events \ {k} : When(r.queue, kk) = When(d.queue, kk)
  <2>1. d.queue \in Seq(Event) /\ r.queue \in Seq(Event)
    BY <1>1, <1>2 DEF OnlyQueue, Device
  <2> QED
    BY <1>1, <1>2, <2>1, SameWhen
<1>6. When(r.queue, k) = -1 /\ OfKind(r.queue, k) = {}
  BY <1>1, <1>2 DEF When
<1>7. SetTo(Clock(d), Clock(r), k, -1)
  BY <1>5, <1>6 DEF SetTo, Clock
<1> QED
  BY <1>2, <1>3, <1>4, <1>6, <1>7 DEF r

LEMMA PopClock ==
  ASSUME NEW d, WellFormed(d), d.queue # <<>>, Head(d.queue).left = 0
  PROVE  LET r == [d EXCEPT !.queue = Tail(@)]
             k == Head(d.queue).kind
         IN /\ WellFormed(r) /\ OnlyQueue(d, r) /\ SetTo(Clock(d), Clock(r), k, -1)
            /\ k \in Events /\ Clock(d)[k] = 0
            /\ k = "txFinished" => Clock(d)["standby"] = -1
            /\ k # "doSend" => OfKind(r.queue, "doSend") = OfKind(d.queue, "doSend")
            /\ k = "doSend" => /\ OfKind(r.queue, "doSend") = {}
                               /\ Head(d.queue) \in OfKind(d.queue, "doSend")
<1> DEFINE r == [d EXCEPT !.queue = Tail(@)]
           h == Head(d.queue)
           k == h.kind
<1>1. d \in Device /\ Ordered(d.queue) /\ \A kk \in Events : Single(d.queue, kk)
  BY DEF WellFormed, Frame
<1>2. /\ OnlyQueue(d, r) /\ Dequeued(d.queue, r.queue, h) /\ h \in Event /\ h \in OfKind(d.queue, k)
      /\ h.left = 0
  BY <1>1, PopDevice
<1>3. "txFinished" = k => OfKind(d.queue, "standby") = {}
  <2> SUFFICES ASSUME k = "txFinished", NEW i \in DOMAIN d.queue, d.queue[i].kind = "standby"
               PROVE  FALSE
    BY DEF OfKind
  <2>1. d.queue \in Seq(Event)
    BY <1>1 DEF Device
  <2>2. 1 \in DOMAIN d.queue /\ h = d.queue[1] /\ i >= 1
    BY <2>1, TailAt
  <2> HIDE DEF h
  <2>3. i < 1
    BY <2>2 DEF WellFormed, Before
  <2>4. i \in Int
    BY <2>1, LenProperties
  <2> QED
    BY <2>2, <2>3, <2>4
<1> HIDE DEF r, h
<1>4. k \in Events /\ {"standby", "txFinished", "doSend"} \subseteq Events
  BY <1>2 DEF Event, Events
<1> HIDE DEF k
<1>5. /\ Ordered(r.queue) /\ Before(r.queue, "standby", "txFinished")
      /\ \A kk \in Events : Single(r.queue, kk)
      /\ \A kk \in Events \ {k} : OfKind(r.queue, kk) = OfKind(d.queue, kk)
      /\ OfKind(r.queue, k) = {}
  BY <1>1, <1>2, <1>4 DEF Dequeued, WellFormed, k
<1>6. WellFormed(r)
  BY <1>2, <1>5, <1>4 DEF WellFormed, Frame, OnlyQueue
<1>7. SetTo(Clock(d), Clock(r), k, -1)
  <2>1. \A kk \in Events \ {k} : When(r.queue, kk) = When(d.queue, kk)
    <3>1. d.queue \in Seq(Event) /\ r.queue \in Seq(Event)
      BY <1>1, <1>2 DEF OnlyQueue, Device
    <3> QED
      BY <1>1, <1>5, <3>1, SameWhen
  <2>2. When(r.queue, k) = -1
    BY <1>5 DEF When
  <2> QED
    BY <1>4, <2>1, <2>2 DEF SetTo, Clock
<1>8. Clock(d)[k] = 0 /\ (k = "txFinished" => Clock(d)["standby"] = -1)
  BY <1>2, <1>3, <1>4, ClockTyped
<1> QED
  BY <1>2, <1>4, <1>5, <1>6, <1>7, <1>8 DEF r, h, k

\* A tick.
Aged(t) == IF t = -1 THEN -1 ELSE t - 1

LEMMA ElapseClock ==
  ASSUME WellFormed(dev), Elapse
  PROVE  /\ WellFormed(dev')
         /\ \A k \in Events : Clock(dev')[k] = Aged(Clock(dev)[k]) /\ Clock(dev)[k] # 0
         /\ OfKind(dev'.queue, "doSend") = {[e EXCEPT !.left = @ - 1] : e \in OfKind(dev.queue, "doSend")}
         /\ dev'.phy = dev.phy /\ dev'.fault = dev.fault /\ dev'.onAir = dev.onAir
         /\ dev'.waitingAck = dev.waitingAck /\ dev'.retxLeft = dev.retxLeft /\ dev'.retxPkt = dev.retxPkt
         /\ dev'.duty = (IF dev.duty > 0 THEN dev.duty - 1 ELSE 0)
         /\ dev'.secondTs = (IF dev.secondTs > - Longest(AckTimeouts \cup {Window})
                               THEN dev.secondTs - 1 ELSE dev.secondTs)
<1> DEFINE q == dev.queue
           new == [i \in DOMAIN q |-> [q[i] EXCEPT !.left = @ - 1]]
           duty == IF dev.duty > 0 THEN dev.duty - 1 ELSE 0
           opens == IF dev.secondTs > - Longest(AckTimeouts \cup {Window})
                      THEN dev.secondTs - 1 ELSE dev.secondTs
<1>1. Frame(dev) /\ q \in Seq(Event) /\ Ordered(q) /\ (q # <<>> => Head(q).left > 0)
      /\ \A k \in Events : Single(q, k)
  BY DEF WellFormed, Frame, Device, Elapse
<1>2. /\ new \in Seq(Event) /\ Ordered(new)
      /\ \A k, kk \in Events : Before(q, k, kk) => Before(new, k, kk)
      /\ \A k \in Events : Single(q, k) => Single(new, k)
      /\ \A k \in Events : OfKind(new, k) = {[e EXCEPT !.left = @ - 1] : e \in OfKind(q, k)}
      /\ \A k \in Events : \A e \in OfKind(q, k) : e \in Event /\ e.left > 0
  <2> HIDE DEF q
  <2> QED
    BY <1>1, AgedQueue
<1>3. dev' = [dev EXCEPT !.queue = new, !.duty = duty, !.secondTs = opens]
  BY DEF Elapse, Idle
<1>4. KeepsBooks(dev, dev')
  BY <1>1, ElapseKeeps
<1> HIDE DEF new, duty, opens
<1>5. /\ dev'.queue = new /\ dev'.phy = dev.phy /\ dev'.fault = dev.fault
      /\ dev'.duty = duty /\ dev'.secondTs = opens
  BY <1>1, <1>3 DEF Frame, Device
<1>6. {"standby", "txFinished", "doSend"} \subseteq Events
  BY DEF Events
<1>7. WellFormed(dev')
  BY <1>1, <1>2, <1>4, <1>5, <1>6 DEF WellFormed, KeepsBooks
<1>8. ASSUME NEW k \in Events PROVE Clock(dev')[k] = Aged(Clock(dev)[k]) /\ Clock(dev)[k] # 0
  <2>1. CASE OfKind(q, k) = {}
    <3>1. OfKind(new, k) = {}
      BY <1>2, <2>1
    <3> QED
      BY <1>5, <1>7, <2>1, <3>1, ClockTyped DEF Aged
  <2>2. CASE OfKind(q, k) # {}
    <3>1. PICK e \in OfKind(q, k) : TRUE
      BY <2>2
    <3> DEFINE f == [e EXCEPT !.left = @ - 1]
    <3>2. f \in OfKind(new, k)
      BY <1>2, <3>1
    <3>3. f.left = e.left - 1 /\ e.left > 0 /\ e.left \in Nat
      BY <1>2, <3>1 DEF Event
    <3> HIDE DEF f
    <3>4. Clock(dev)[k] = e.left /\ Clock(dev')[k] = f.left
      BY <1>5, <1>7, <3>1, <3>2, ClockTyped
    <3> QED
      BY <3>3, <3>4 DEF Aged
  <2> QED
    BY <2>1, <2>2
<1> QED
  BY <1>2, <1>4, <1>5, <1>6, <1>7, <1>8 DEF KeepsBooks, duty, opens

-----------------------------------------------------------------------------
(* The rules of a procedure, as relations between the radio, the clock T   *)
(* and the duty cycle.                                                     *)

Clear(T, kinds) == \A k \in kinds : T[k] = -1

\* The duty cycle lasts longer than t and any reception that begins then.
Slack(duty, t) == \A r \in Durations \cup {0} : t + r < duty

Rules(phy, T, duty) ==
  /\ T["endReceiveI"] = -1
  /\ phy = "TX" => T["standby"] >= 0
  /\ T["standby"] >= 0 => phy = "TX" /\ T["txFinished"] = T["standby"]
  /\ T["txFinished"] >= 0 =>
       /\ phy \in {"TX", "STANDBY"} /\ Clear(T, Windows \cup {"endReceive"})
       /\ phy = "STANDBY" => T["txFinished"] = 0
  /\ phy = "RX" <=> T["endReceive"] >= 0
  /\ phy = "STANDBY" => T["txFinished"] >= 0 \/ T["closeFirst"] >= 0 \/ T["closeSecond"] >= 0
  /\ T["openFirst"] >= 0 =>
       phy = "SLEEP" /\ T["closeFirst"] = -1 /\ T["openSecond"] = T["openFirst"] + Delay2 - Delay1
  /\ T["closeFirst"] >= 0 /\ T["openSecond"] >= 0 => T["closeFirst"] < T["openSecond"]
  /\ T["closeSecond"] >= 0 => Clear(T, Windows \ {"closeSecond"})
  /\ T["doSend"] >= 0 => duty <= T["doSend"]
  /\ T["txFinished"] >= 0 => Slack(duty, T["txFinished"] + Delay2 + Window)
  /\ T["openFirst"] >= 0 => Slack(duty, T["openFirst"] + Delay2 - Delay1 + Window)
  /\ T["openSecond"] >= 0 => Slack(duty, T["openSecond"] + Window)
  /\ T["closeFirst"] >= 0 => Slack(duty, T["closeFirst"])
  /\ T["closeSecond"] >= 0 => Slack(duty, T["closeSecond"])
  /\ T["endReceive"] >= 0 => T["endReceive"] < duty

ClockFace == [Events -> {t \in Int : t >= -1}]

LEMMA SlackFacts ==
  ASSUME NEW duty \in Int, NEW t \in Int, Slack(duty, t)
  PROVE  /\ \A u \in Int : u <= t => Slack(duty, u)
         /\ Slack(duty - 1, t - 1)
         /\ t < duty /\ \A r \in Durations : t + r < duty
<1>1. Durations \subseteq Int /\ 0 \in Durations \cup {0}
  BY Constants
<1>2. \A r \in Durations \cup {0} : r \in Int /\ t + r < duty
  BY <1>1 DEF Slack
<1>3. \A u \in Int : u <= t => Slack(duty, u)
  BY <1>2 DEF Slack
<1>4. Slack(duty - 1, t - 1)
  BY <1>2 DEF Slack
<1> QED
  BY <1>1, <1>2, <1>3, <1>4

LEMMA Delays ==
  /\ TxTime \in Nat /\ TxTime > 0 /\ Delay1 \in Nat /\ Delay1 > 0 /\ Delay2 \in Nat /\ Delay2 > 0
  /\ Window \in Nat /\ Window > 0 /\ DutyWait \in Nat
BY EndDeviceAssumption

LEMMA ClockValues ==
  ASSUME NEW T \in ClockFace
  PROVE  \A k \in Events : T[k] \in Int /\ T[k] >= -1
BY DEF ClockFace

\* Every event but a postponed DoSend lies under the duty cycle.
LEMMA DutyCovers ==
  ASSUME NEW phy \in Radio, NEW T \in ClockFace, NEW duty \in Nat, Rules(phy, T, duty)
  PROVE  /\ \A k \in Events \ {"doSend"} : T[k] < duty
         /\ duty = 0 => phy = "SLEEP" /\ Clear(T, Events \ {"doSend"})
<1>1. \A k \in Events : T[k] \in Int /\ T[k] >= -1
  BY ClockValues
<1>2. ASSUME NEW k \in Events \ {"doSend"}, T[k] >= 0 PROVE T[k] < duty
  <2>1. \A t \in Int, u \in Int : Slack(duty, t) /\ u <= t => u < duty
    BY SlackFacts
  <2>2. \A kk \in {"standby", "txFinished", "openFirst", "openSecond", "closeFirst", "closeSecond"} :
          T[kk] \in Int
    BY <1>1 DEF Events
  <2>3. /\ T["txFinished"] >= 0 => T["txFinished"] < duty
        /\ T["standby"] >= 0 => T["standby"] < duty
    <3>1. T["txFinished"] >= 0 => Slack(duty, T["txFinished"] + Delay2 + Window)
      BY DEF Rules
    <3>2. T["txFinished"] + Delay2 + Window \in Int /\ T["txFinished"] <= T["txFinished"] + Delay2 + Window
      BY <2>2, Delays
    <3>3. T["standby"] >= 0 => T["txFinished"] = T["standby"]
      BY DEF Rules
    <3> QED
      BY <2>1, <2>2, <3>1, <3>2, <3>3
  <2>4. T["openFirst"] >= 0 => T["openFirst"] < duty
    <3>1. T["openFirst"] >= 0 => Slack(duty, T["openFirst"] + Delay2 - Delay1 + Window)
      BY DEF Rules
    <3>2. /\ T["openFirst"] + Delay2 - Delay1 + Window \in Int
          /\ T["openFirst"] <= T["openFirst"] + Delay2 - Delay1 + Window
      <4>1. {Delay1, Window, Delay2} \subseteq Nat /\ Delay1 + Window <= Delay2
        BY EndDeviceAssumption
      <4> QED
        BY <2>2, <4>1
    <3> QED
      BY <2>1, <2>2, <3>1, <3>2
  <2>5. T["openSecond"] >= 0 => T["openSecond"] < duty
    <3>1. T["openSecond"] >= 0 => Slack(duty, T["openSecond"] + Window)
      BY DEF Rules
    <3>2. T["openSecond"] + Window \in Int /\ T["openSecond"] <= T["openSecond"] + Window
      BY <2>2, Delays
    <3> QED
      BY <2>1, <2>2, <3>1, <3>2
  <2>6. /\ T["closeFirst"] >= 0 => T["closeFirst"] < duty
        /\ T["closeSecond"] >= 0 => T["closeSecond"] < duty
    <3>1. /\ T["closeFirst"] >= 0 => Slack(duty, T["closeFirst"])
          /\ T["closeSecond"] >= 0 => Slack(duty, T["closeSecond"])
      BY DEF Rules
    <3>2. T["closeFirst"] \in Int /\ T["closeSecond"] \in Int
      BY <2>2
    <3>3. T["closeFirst"] <= T["closeFirst"] /\ T["closeSecond"] <= T["closeSecond"]
      BY <3>2
    <3> QED
      BY <2>1, <3>1, <3>2, <3>3
  <2>7. T["endReceiveI"] = -1 /\ (T["endReceive"] >= 0 => T["endReceive"] < duty)
    BY DEF Rules
  <2>8. k \in {"standby", "txFinished", "openFirst", "openSecond", "closeFirst", "closeSecond",
                "endReceive", "endReceiveI"}
    BY DEF Events
  <2>9. k # "endReceiveI"
    BY <1>2, <2>7
  <2> QED
    BY <1>2, <2>3, <2>4, <2>5, <2>6, <2>7, <2>8, <2>9
<1>3. \A k \in Events \ {"doSend"} : T[k] < duty
  <2> SUFFICES ASSUME NEW k \in Events \ {"doSend"} PROVE T[k] < duty
    OBVIOUS
  <2>1. T[k] \in Int /\ (T[k] >= 0 \/ T[k] = -1)
    BY <1>1
  <2> QED
    BY <1>2, <2>1
<1>4. ASSUME duty = 0 PROVE phy = "SLEEP" /\ Clear(T, Events \ {"doSend"})
  <2>1. \A k \in Events \ {"doSend"} : T[k] = -1
    <3> SUFFICES ASSUME NEW k \in Events \ {"doSend"} PROVE T[k] = -1
      OBVIOUS
    <3>1. T[k] < 0 /\ T[k] \in Int /\ T[k] >= -1
      BY <1>1, <1>3, <1>4
    <3> QED
      BY <3>1
  <2>2. phy = "SLEEP"
    BY <2>1 DEF Rules, Radio, Events
  <2> QED
    BY <2>1, <2>2 DEF Clear
<1> QED
  BY <1>3, <1>4

LEMMA CalmRules ==
  ASSUME NEW phy \in Radio, NEW T \in ClockFace, NEW U \in ClockFace, NEW duty \in Nat,
         Rules(phy, T, duty),
         \A k \in Events \ {"doSend"} : U[k] = T[k],
         U["doSend"] = -1 \/ U["doSend"] >= duty
  PROVE  Rules(phy, U, duty)
<1>1. \A k \in Windows \cup {"endReceive"} : k \in Events \ {"doSend"}
  BY DEF Windows, Events
<1>2. /\ \A k \in {"standby", "txFinished", "openFirst", "closeFirst", "openSecond", "closeSecond",
                   "endReceive", "endReceiveI"} : U[k] = T[k]
      /\ Clear(T, Windows \cup {"endReceive"}) => Clear(U, Windows \cup {"endReceive"})
      /\ Clear(T, Windows \ {"closeSecond"}) => Clear(U, Windows \ {"closeSecond"})
  BY <1>1 DEF Events, Clear
<1> QED
  BY <1>2, ClockValues DEF Rules, Events

LEMMA StandbyRules ==
  ASSUME NEW phy \in Radio, NEW T \in ClockFace, NEW U \in ClockFace, NEW duty \in Nat,
         Rules(phy, T, duty), T["standby"] = 0, SetTo(T, U, "standby", -1)
  PROVE  Rules("STANDBY", U, duty)
<1>1. /\ \A k \in Events \ {"standby"} : U[k] = T[k] /\ T[k] \in Int
      /\ U["standby"] = -1
  BY ClockValues DEF SetTo
<1>2. phy = "TX" /\ T["txFinished"] = 0 /\ Clear(T, Windows \cup {"endReceive"})
  BY DEF Rules
<1>3. Clear(U, Windows \cup {"endReceive"})
  BY <1>1, <1>2 DEF Clear, Windows, Events
<1> QED
  BY <1>1, <1>2, <1>3 DEF Rules, Events, Windows, Clear

LEMMA TxFinishedRules ==
  ASSUME Regular, NEW phy \in Radio, NEW T \in ClockFace, NEW duty \in Nat,
         Rules(phy, T, duty), T["txFinished"] = 0, T["standby"] = -1
  PROVE  /\ phy = "STANDBY" /\ T["openFirst"] = -1 /\ T["openSecond"] = -1
         /\ \A U \in ClockFace :
              /\ U["txFinished"] = -1 /\ U["openFirst"] = Delay1 /\ U["openSecond"] = Delay2
              /\ \A k \in Events \ {"txFinished", "openFirst", "openSecond"} : U[k] = T[k]
              => Rules("SLEEP", U, duty)
<1>1. phy = "STANDBY" /\ Clear(T, Windows \cup {"endReceive"}) /\ Slack(duty, 0 + Delay2 + Window)
  BY DEF Rules, Radio
<1>2. T["openFirst"] = -1 /\ T["openSecond"] = -1 /\ T["closeFirst"] = -1 /\ T["closeSecond"] = -1
      /\ T["endReceive"] = -1
  BY <1>1 DEF Clear, Windows
<1>3. Slack(duty, Delay2 + Window) /\ Slack(duty, Delay1 + Delay2 - Delay1 + Window)
  <2>1. 0 + Delay2 + Window = Delay2 + Window /\ Delay1 + Delay2 - Delay1 + Window = Delay2 + Window
    BY Delays
  <2> QED
    BY <1>1, <2>1
<1>4. ASSUME NEW U \in ClockFace,
             U["txFinished"] = -1, U["openFirst"] = Delay1, U["openSecond"] = Delay2,
             \A k \in Events \ {"txFinished", "openFirst", "openSecond"} : U[k] = T[k]
      PROVE  Rules("SLEEP", U, duty)
  <2>1. /\ U["standby"] = -1 /\ U["closeFirst"] = -1 /\ U["closeSecond"] = -1
        /\ U["endReceive"] = -1 /\ U["endReceiveI"] = -1 /\ U["doSend"] = T["doSend"]
    BY <1>2, <1>4 DEF Events, Rules
  <2>2. Delay2 = Delay1 + Delay2 - Delay1
    BY Delays
  <2> QED
    BY <1>3, <1>4, <2>1, <2>2, Delays DEF Rules
<1> QED
  BY <1>1, <1>2, <1>4

LEMMA OpenFirstRules ==
  ASSUME Regular, NEW phy \in Radio, NEW T \in ClockFace, NEW duty \in Nat,
         Rules(phy, T, duty), T["openFirst"] = 0
  PROVE  /\ T["closeFirst"] = -1 /\ T["txFinished"] = -1
         /\ \A U \in ClockFace :
              /\ U["openFirst"] = -1 /\ U["closeFirst"] = Window
              /\ \A k \in Events \ {"openFirst", "closeFirst"} : U[k] = T[k]
              => Rules("STANDBY", U, duty)
<1>1. /\ phy = "SLEEP" /\ T["closeFirst"] = -1 /\ T["openSecond"] = 0 + Delay2 - Delay1
      /\ Slack(duty, 0 + Delay2 - Delay1 + Window)
  BY DEF Rules
<1>2. /\ T["txFinished"] = -1 /\ T["closeSecond"] = -1 /\ T["standby"] = -1 /\ T["endReceive"] = -1
      /\ T["endReceiveI"] = -1
  <2>1. \A k \in {"txFinished", "closeSecond", "standby", "endReceive"} : T[k] \in Int /\ T[k] >= -1
    BY ClockValues DEF Events
  <2>2. "openFirst" \in Windows \ {"closeSecond"}
    BY DEF Windows
  <2> QED
    BY <1>1, <2>1, <2>2 DEF Rules, Radio, Clear
<1>3. /\ {Delay1, Delay2, Window} \subseteq Nat /\ Window < Delay2 - Delay1 /\ duty \in Int
      /\ 0 + Delay2 - Delay1 \in Int /\ 0 + Delay2 - Delay1 + Window \in Int
  BY Delays DEF Regular
<1>4. Slack(duty, Window) /\ Slack(duty, T["openSecond"] + Window)
  <2>1. Window <= 0 + Delay2 - Delay1 + Window
    BY <1>3
  <2> QED
    BY <1>1, <1>3, <2>1, SlackFacts
<1>5. ASSUME NEW U \in ClockFace, U["openFirst"] = -1, U["closeFirst"] = Window,
             \A k \in Events \ {"openFirst", "closeFirst"} : U[k] = T[k]
      PROVE  Rules("STANDBY", U, duty)
  <2>1. /\ U["standby"] = -1 /\ U["txFinished"] = -1 /\ U["closeSecond"] = -1
        /\ U["endReceive"] = -1 /\ U["endReceiveI"] = -1
        /\ U["doSend"] = T["doSend"] /\ U["openSecond"] = T["openSecond"]
    BY <1>2, <1>5 DEF Events
  <2>2. U["closeFirst"] < U["openSecond"] /\ U["closeFirst"] >= 0
    BY <1>1, <1>3, <1>5, <2>1
  <2>3. T["doSend"] >= 0 => duty <= T["doSend"]
    BY DEF Rules
  <2> QED
    BY <1>4, <1>5, <2>1, <2>2, <2>3 DEF Rules
<1> QED
  BY <1>1, <1>2, <1>5

LEMMA CloseFirstRules ==
  ASSUME NEW phy \in Radio, NEW T \in ClockFace, NEW U \in ClockFace, NEW duty \in Nat,
         Rules(phy, T, duty), T["closeFirst"] = 0, SetTo(T, U, "closeFirst", -1)
  PROVE  /\ phy # "TX"
         /\ Rules(IF phy = "STANDBY" THEN "SLEEP" ELSE phy, U, duty)
<1>0. /\ \A k \in Events : T[k] \in Int /\ T[k] >= -1
      /\ \A k \in Events \ {"closeFirst"} : U[k] = T[k]
      /\ U["closeFirst"] = -1
  BY ClockValues DEF SetTo
<1>1. T["txFinished"] = -1 /\ T["closeSecond"] = -1 /\ T["openFirst"] = -1
  <2>1. \A k \in {"txFinished", "closeSecond", "openFirst"} : T[k] \in Int /\ T[k] >= -1
    BY <1>0 DEF Events
  <2>2. "closeFirst" \in Windows \ {"closeSecond"} /\ "closeFirst" \in Windows \cup {"endReceive"}
    BY DEF Windows
  <2> QED
    BY <2>1, <2>2 DEF Rules, Clear
<1>2. T["standby"] = -1 /\ phy # "TX"
  <2>1. T["standby"] \in Int /\ T["standby"] >= -1
    BY <1>0 DEF Events
  <2> QED
    BY <1>1, <2>1 DEF Rules
<1>3. /\ \A k \in {"standby", "txFinished", "openFirst", "closeFirst", "closeSecond"} : U[k] = -1
      /\ \A k \in {"openSecond", "endReceive", "endReceiveI", "doSend"} : U[k] = T[k]
  BY <1>0, <1>1, <1>2 DEF Events
<1>4. phy = "STANDBY" => ~ (T["endReceive"] >= 0)
  BY DEF Rules
<1> QED
  BY <1>2, <1>3, <1>4 DEF Rules, Radio

LEMMA OpenSecondRules ==
  ASSUME NEW phy \in Radio, NEW T \in ClockFace, NEW duty \in Nat,
         Rules(phy, T, duty), T["openSecond"] = 0
  PROVE  /\ T["closeSecond"] = -1 /\ T["txFinished"] = -1
         /\ \A U \in ClockFace :
              /\ phy = "RX" /\ SetTo(T, U, "openSecond", -1) => Rules(phy, U, duty)
              /\ /\ phy # "RX" /\ U["openSecond"] = -1 /\ U["closeSecond"] = Window
                 /\ \A k \in Events \ {"openSecond", "closeSecond"} : U[k] = T[k]
                 => Rules("STANDBY", U, duty)
<1>0. \A k \in Events : T[k] \in Int /\ T[k] >= -1
  BY ClockValues
<1>1. T["txFinished"] = -1 /\ T["closeSecond"] = -1
  <2>1. \A k \in {"txFinished", "closeSecond"} : T[k] \in Int /\ T[k] >= -1
    BY <1>0 DEF Events
  <2>2. "openSecond" \in Windows \ {"closeSecond"} /\ "openSecond" \in Windows \cup {"endReceive"}
    BY DEF Windows
  <2> QED
    BY <2>1, <2>2 DEF Rules, Clear
<1>2. T["standby"] = -1 /\ T["openFirst"] = -1 /\ T["closeFirst"] = -1
  <2>1. /\ \A k \in {"standby", "openFirst", "closeFirst"} : T[k] \in Int /\ T[k] >= -1
        /\ {Delay1, Delay2, Window} \subseteq Nat /\ Delay1 + Window <= Delay2 /\ Window > 0
    BY <1>0, EndDeviceAssumption DEF Events
  <2>2. T["standby"] = -1
    BY <1>1, <2>1 DEF Rules
  <2>3. T["openFirst"] >= 0 => T["openSecond"] = T["openFirst"] + Delay2 - Delay1
    BY DEF Rules
  <2>4. T["closeFirst"] >= 0 => T["closeFirst"] < T["openSecond"]
    BY DEF Rules
  <2> QED
    BY <2>1, <2>2, <2>3, <2>4
<1>3. phy # "RX" => ~ (T["endReceive"] >= 0)
  BY DEF Rules
<1>4. Slack(duty, Window)
  <2>1. 0 + Window = Window
    BY Delays
  <2> QED
    BY <2>1 DEF Rules
<1>5. ASSUME NEW U \in ClockFace, phy = "RX", SetTo(T, U, "openSecond", -1)
      PROVE  Rules(phy, U, duty)
  <2>1. /\ \A k \in {"standby", "txFinished", "openFirst", "closeFirst", "openSecond", "closeSecond"} :
             U[k] = -1
        /\ \A k \in {"endReceive", "endReceiveI", "doSend"} : U[k] = T[k]
    BY <1>1, <1>2, <1>5 DEF SetTo, Events
  <2> QED
    BY <1>5, <2>1 DEF Rules
<1>6. ASSUME NEW U \in ClockFace, phy # "RX", U["openSecond"] = -1, U["closeSecond"] = Window,
             \A k \in Events \ {"openSecond", "closeSecond"} : U[k] = T[k]
      PROVE  Rules("STANDBY", U, duty)
  <2>1. /\ \A k \in {"standby", "txFinished", "openFirst", "closeFirst", "openSecond"} : U[k] = -1
        /\ \A k \in {"endReceive", "endReceiveI", "doSend"} : U[k] = T[k]
    BY <1>1, <1>2, <1>6 DEF Events
  <2>2. Clear(U, Windows \ {"closeSecond"}) /\ Window \in Nat
    BY <2>1, Delays DEF Clear, Windows
  <2> QED
    BY <1>3, <1>4, <1>6, <2>1, <2>2 DEF Rules
<1> QED
  BY <1>1, <1>5, <1>6

LEMMA CloseSecondRules ==
  ASSUME NEW phy \in Radio, NEW T \in ClockFace, NEW U \in ClockFace, NEW duty \in Nat,
         Rules(phy, T, duty), T["closeSecond"] = 0, SetTo(T, U, "closeSecond", -1)
  PROVE  /\ duty > 0 /\ phy # "TX" /\ T["txFinished"] = -1
         /\ Rules(IF phy = "STANDBY" THEN "SLEEP" ELSE phy, U, duty)
<1>0. /\ \A k \in Events : T[k] \in Int /\ T[k] >= -1
      /\ \A k \in Events \ {"closeSecond"} : U[k] = T[k]
      /\ U["closeSecond"] = -1
  BY ClockValues DEF SetTo
<1>1. T["openFirst"] = -1 /\ T["closeFirst"] = -1 /\ T["openSecond"] = -1 /\ T["txFinished"] = -1
  <2>1. T["txFinished"] \in Int /\ T["txFinished"] >= -1
    BY <1>0 DEF Events
  <2>2. /\ "closeSecond" \in Windows \cup {"endReceive"}
        /\ {"openFirst", "closeFirst", "openSecond"} \subseteq Windows \ {"closeSecond"}
    BY DEF Windows
  <2> QED
    BY <2>1, <2>2 DEF Rules, Clear
<1>2. T["standby"] = -1 /\ phy # "TX"
  <2>1. T["standby"] \in Int /\ T["standby"] >= -1
    BY <1>0 DEF Events
  <2> QED
    BY <1>1, <2>1 DEF Rules
<1>3. /\ \A k \in {"standby", "txFinished", "openFirst", "closeFirst", "openSecond", "closeSecond"} :
           U[k] = -1
      /\ \A k \in {"endReceive", "endReceiveI", "doSend"} : U[k] = T[k]
  BY <1>0, <1>1, <1>2 DEF Events
<1>4. phy = "STANDBY" => ~ (T["endReceive"] >= 0)
  BY DEF Rules
<1>5. duty > 0
  <2>1. "closeSecond" \in Events \ {"doSend"}
    BY DEF Events
  <2> QED
    BY <2>1, DutyCovers
<1> QED
  BY <1>1, <1>2, <1>3, <1>4, <1>5 DEF Rules, Radio

LEMMA EndReceiveRules ==
  ASSUME NEW phy \in Radio, NEW T \in ClockFace, NEW duty \in Nat,
         Rules(phy, T, duty), T["endReceive"] = 0
  PROVE  /\ duty > 0 /\ phy = "RX" /\ T["txFinished"] = -1
         /\ \A U \in ClockFace :
              /\ U["endReceive"] = -1 /\ U["openSecond"] \in {T["openSecond"], -1}
              /\ \A k \in Events \ {"endReceive", "openSecond"} : U[k] = T[k]
              => Rules("SLEEP", U, duty)
<1>0. \A k \in Events : T[k] \in Int /\ T[k] >= -1
  BY ClockValues
<1>1. phy = "RX"
  BY DEF Rules
<1>2. T["txFinished"] = -1 /\ T["standby"] = -1 /\ T["openFirst"] = -1
  <2>1. \A k \in {"txFinished", "standby", "openFirst"} : T[k] \in Int /\ T[k] >= -1
    BY <1>0 DEF Events
  <2>2. "endReceive" \in Windows \cup {"endReceive"}
    OBVIOUS
  <2> QED
    BY <1>1, <2>1, <2>2 DEF Rules, Clear
<1>3. duty > 0
  <2>1. "endReceive" \in Events \ {"doSend"}
    BY DEF Events
  <2> QED
    BY <2>1, DutyCovers
<1>4. ASSUME NEW U \in ClockFace, U["endReceive"] = -1, U["openSecond"] \in {T["openSecond"], -1},
             \A k \in Events \ {"endReceive", "openSecond"} : U[k] = T[k]
      PROVE  Rules("SLEEP", U, duty)
  <2>1. /\ \A k \in {"standby", "txFinished", "openFirst", "endReceive"} : U[k] = -1
        /\ \A k \in {"closeFirst", "closeSecond", "endReceiveI", "doSend"} : U[k] = T[k]
    BY <1>2, <1>4 DEF Events
  <2>2. Clear(T, Windows \ {"closeSecond"}) => Clear(U, Windows \ {"closeSecond"})
    BY <1>4 DEF Clear, Windows, Events
  <2>3. U["openSecond"] >= 0 => U["openSecond"] = T["openSecond"]
    BY <1>4
  <2> QED
    BY <2>1, <2>2, <2>3 DEF Rules
<1> QED
  BY <1>1, <1>2, <1>3, <1>4

LEMMA StartReceiveRules ==
  ASSUME NEW T \in ClockFace, NEW U \in ClockFace, NEW duty \in Nat, NEW duration \in Durations,
         Rules("STANDBY", T, duty), T["txFinished"] = -1, SetTo(T, U, "endReceive", duration)
  PROVE  T["endReceive"] = -1 /\ Rules("RX", U, duty)
<1>0. /\ \A k \in Events : T[k] \in Int /\ T[k] >= -1
      /\ \A k \in Events \ {"endReceive"} : U[k] = T[k]
      /\ U["endReceive"] = duration /\ duration \in Nat
  BY ClockValues, Constants DEF SetTo
<1>1. T["endReceive"] = -1 /\ T["standby"] = -1 /\ T["openFirst"] = -1
  <2>1. \A k \in {"endReceive", "standby", "openFirst"} : T[k] \in Int /\ T[k] >= -1
    BY <1>0 DEF Events
  <2> QED
    BY <2>1 DEF Rules
<1>2. duration < duty
  <2>1. \A k \in {"closeFirst", "closeSecond"} : T[k] >= 0 => Slack(duty, T[k]) /\ T[k] \in Int
    BY <1>0 DEF Rules, Events
  <2>2. T["closeFirst"] >= 0 \/ T["closeSecond"] >= 0
    BY DEF Rules
  <2>3. \A t \in Int : t >= 0 /\ Slack(duty, t) => t + duration < duty
    BY SlackFacts
  <2>4. \A t \in Int : t >= 0 /\ t + duration < duty => duration < duty
    BY <1>0
  <2> QED
    BY <2>1, <2>2, <2>3, <2>4
<1>3. /\ \A k \in {"standby", "txFinished", "openFirst"} : U[k] = -1
      /\ \A k \in {"closeFirst", "openSecond", "closeSecond", "endReceiveI", "doSend"} : U[k] = T[k]
  BY <1>0, <1>1 DEF Events
<1>4. Clear(T, Windows \ {"closeSecond"}) => Clear(U, Windows \ {"closeSecond"})
  BY <1>0 DEF Clear, Windows, Events
<1> QED
  BY <1>0, <1>1, <1>2, <1>3, <1>4 DEF Rules

\* A transmission that begins when nothing is scheduled.
LEMMA TransmitRules ==
  ASSUME Regular, NEW U \in ClockFace, U["standby"] = TxTime, U["txFinished"] = TxTime,
         \A k \in Events \ {"standby", "txFinished"} : U[k] = -1
  PROVE  Rules("TX", U, DutyWait)
<1>1. \A k \in {"openFirst", "closeFirst", "openSecond", "closeSecond", "doSend", "endReceive",
                "endReceiveI"} : U[k] = -1
  BY DEF Events
<1>2. Clear(U, Windows \cup {"endReceive"})
  BY <1>1 DEF Clear, Windows
<1>3. Slack(DutyWait, TxTime + Delay2 + Window)
  BY DEF Regular, Slack
<1> QED
  BY <1>1, <1>2, <1>3, Delays DEF Rules

LEMMA ElapseRules ==
  ASSUME NEW phy \in Radio, NEW T \in ClockFace, NEW U \in ClockFace, NEW duty \in Nat,
         Rules(phy, T, duty), \A k \in Events : U[k] = Aged(T[k]) /\ T[k] # 0
  PROVE  Rules(phy, U, IF duty > 0 THEN duty - 1 ELSE 0)
<1>1. \A k \in Events : /\ T[k] \in Int /\ T[k] # 0 /\ U[k] \in Int
                        /\ IF T[k] >= 0 THEN T[k] > 0 /\ U[k] = T[k] - 1 ELSE T[k] = -1 /\ U[k] = -1
  <2> SUFFICES ASSUME NEW k \in Events
               PROVE  /\ T[k] \in Int /\ T[k] # 0 /\ U[k] \in Int
                      /\ IF T[k] >= 0 THEN T[k] > 0 /\ U[k] = T[k] - 1 ELSE T[k] = -1 /\ U[k] = -1
    OBVIOUS
  <2>1. T[k] \in Int /\ T[k] >= -1 /\ U[k] = Aged(T[k]) /\ T[k] # 0
    BY ClockValues
  <2> QED
    BY <2>1 DEF Aged
<1>2. \A k \in {"standby", "txFinished", "openFirst", "closeFirst", "openSecond", "closeSecond",
                "doSend", "endReceive", "endReceiveI"} :
        /\ T[k] \in Int /\ T[k] # 0 /\ U[k] \in Int
        /\ IF T[k] >= 0 THEN T[k] > 0 /\ U[k] = T[k] - 1 ELSE T[k] = -1 /\ U[k] = -1
  BY <1>1 DEF Events
<1>3. /\ Clear(T, Windows \cup {"endReceive"}) => Clear(U, Windows \cup {"endReceive"})
      /\ Clear(T, Windows \ {"closeSecond"}) => Clear(U, Windows \ {"closeSecond"})
  BY <1>2 DEF Clear, Windows
<1>4. CASE duty = 0
  <2>1. phy = "SLEEP" /\ Clear(T, Events \ {"doSend"})
    BY <1>4, DutyCovers
  <2>2. \A k \in Events \ {"doSend"} : U[k] = -1
    BY <1>1, <2>1 DEF Clear
  <2>3. \A k \in {"standby", "txFinished", "openFirst", "closeFirst", "openSecond", "closeSecond",
                  "endReceive", "endReceiveI"} : U[k] = -1
    BY <2>2 DEF Events
  <2>4. U["doSend"] >= 0 => 0 <= U["doSend"]
    OBVIOUS
  <2> QED
    BY <1>4, <2>1, <2>3, <2>4 DEF Rules
<1>5. CASE duty > 0
  <2> DEFINE less == duty - 1
  <2>1. /\ T["txFinished"] >= 0 => Slack(less, U["txFinished"] + Delay2 + Window)
        /\ T["openFirst"] >= 0 => Slack(less, U["openFirst"] + Delay2 - Delay1 + Window)
        /\ T["openSecond"] >= 0 => Slack(less, U["openSecond"] + Window)
        /\ T["closeFirst"] >= 0 => Slack(less, U["closeFirst"])
        /\ T["closeSecond"] >= 0 => Slack(less, U["closeSecond"])
    <3>1. \A t \in Int, u \in Int : Slack(duty, t) /\ u = t - 1 => Slack(less, u)
      BY SlackFacts
    <3>2. {Delay1, Delay2, Window} \subseteq Int
      BY Delays
    <3> HIDE DEF less
    <3>3. T["txFinished"] >= 0 => Slack(less, U["txFinished"] + Delay2 + Window)
      <4> DEFINE t == T["txFinished"] + Delay2 + Window
                 u == U["txFinished"] + Delay2 + Window
      <4>1. T["txFinished"] >= 0 => Slack(duty, t)
        BY DEF Rules
      <4>2. T["txFinished"] >= 0 => t \in Int /\ u \in Int /\ u = t - 1
        BY <1>2, <3>2
      <4> HIDE DEF t, u
      <4>3. T["txFinished"] >= 0 => Slack(less, u)
        BY <3>1, <4>1, <4>2
      <4> QED
        BY <4>3 DEF u
    <3>4. T["openFirst"] >= 0 => Slack(less, U["openFirst"] + Delay2 - Delay1 + Window)
      <4> DEFINE t == T["openFirst"] + Delay2 - Delay1 + Window
                 u == U["openFirst"] + Delay2 - Delay1 + Window
      <4>1. T["openFirst"] >= 0 => Slack(duty, t)
        BY DEF Rules
      <4>2. T["openFirst"] >= 0 => t \in Int /\ u \in Int /\ u = t - 1
        BY <1>2, <3>2
      <4> HIDE DEF t, u
      <4>3. T["openFirst"] >= 0 => Slack(less, u)
        BY <3>1, <4>1, <4>2
      <4> QED
        BY <4>3 DEF u
    <3>5. T["openSecond"] >= 0 => Slack(less, U["openSecond"] + Window)
      <4> DEFINE t == T["openSecond"] + Window
                 u == U["openSecond"] + Window
      <4>1. T["openSecond"] >= 0 => Slack(duty, t)
        BY DEF Rules
      <4>2. T["openSecond"] >= 0 => t \in Int /\ u \in Int /\ u = t - 1
        BY <1>2, <3>2
      <4> HIDE DEF t, u
      <4>3. T["openSecond"] >= 0 => Slack(less, u)
        BY <3>1, <4>1, <4>2
      <4> QED
        BY <4>3 DEF u
    <3>6. /\ T["closeFirst"] >= 0 => Slack(less, U["closeFirst"])
          /\ T["closeSecond"] >= 0 => Slack(less, U["closeSecond"])
      <4>1. /\ T["closeFirst"] >= 0 => Slack(duty, T["closeFirst"])
            /\ T["closeSecond"] >= 0 => Slack(duty, T["closeSecond"])
        BY DEF Rules
      <4> QED
        BY <1>2, <3>1, <4>1
    <3> QED
      BY <3>3, <3>4, <3>5, <3>6
  <2>2. {Delay1, Delay2, Window} \subseteq Int /\ less \in Int /\ less = duty - 1
    BY Delays
  <2> HIDE DEF less
  <2>3. /\ U["doSend"] >= 0 => less <= U["doSend"]
        /\ U["endReceive"] >= 0 => U["endReceive"] < less
    BY <1>2, <2>2 DEF Rules
  <2>4. /\ phy = "TX" => U["standby"] >= 0
        /\ U["standby"] >= 0 => phy = "TX" /\ U["txFinished"] = U["standby"]
        /\ U["txFinished"] >= 0 =>
             /\ phy \in {"TX", "STANDBY"} /\ Clear(U, Windows \cup {"endReceive"})
             /\ phy = "STANDBY" => U["txFinished"] = 0
        /\ phy = "RX" <=> U["endReceive"] >= 0
        /\ phy = "STANDBY" => U["txFinished"] >= 0 \/ U["closeFirst"] >= 0 \/ U["closeSecond"] >= 0
    BY <1>2, <1>3 DEF Rules
  <2>5. /\ U["endReceiveI"] = -1
        /\ U["openFirst"] >= 0 =>
             phy = "SLEEP" /\ U["closeFirst"] = -1 /\ U["openSecond"] = U["openFirst"] + Delay2 - Delay1
        /\ U["closeFirst"] >= 0 /\ U["openSecond"] >= 0 => U["closeFirst"] < U["openSecond"]
        /\ U["closeSecond"] >= 0 => Clear(U, Windows \ {"closeSecond"})
    <3>1. U["endReceiveI"] = -1
      BY <1>2 DEF Rules
    <3>2. U["openFirst"] >= 0 =>
            phy = "SLEEP" /\ U["closeFirst"] = -1 /\ U["openSecond"] = U["openFirst"] + Delay2 - Delay1
      <4>1. T["openFirst"] >= 0 =>
             phy = "SLEEP" /\ T["closeFirst"] = -1 /\ T["openSecond"] = T["openFirst"] + Delay2 - Delay1
        BY DEF Rules
      <4>2. Delay1 + Window <= Delay2 /\ Window > 0 /\ Window \in Int
        BY EndDeviceAssumption
      <4> QED
        BY <1>2, <2>2, <4>1, <4>2
    <3>3. T["closeFirst"] >= 0 /\ T["openSecond"] >= 0 => T["closeFirst"] < T["openSecond"]
      BY DEF Rules
    <3>4. T["closeSecond"] >= 0 => Clear(T, Windows \ {"closeSecond"})
      BY DEF Rules
    <3> QED
      BY <1>2, <1>3, <3>1, <3>2, <3>3, <3>4
  <2>6. /\ U["txFinished"] >= 0 => Slack(less, U["txFinished"] + Delay2 + Window)
        /\ U["openFirst"] >= 0 => Slack(less, U["openFirst"] + Delay2 - Delay1 + Window)
        /\ U["openSecond"] >= 0 => Slack(less, U["openSecond"] + Window)
        /\ U["closeFirst"] >= 0 => Slack(less, U["closeFirst"])
        /\ U["closeSecond"] >= 0 => Slack(less, U["closeSecond"])
    BY <1>2, <2>1
  <2>7. Rules(phy, U, less)
    BY <2>3, <2>4, <2>5, <2>6 DEF Rules
  <2> QED
    BY <1>5, <2>2, <2>7
<1> QED
  BY <1>4, <1>5

-----------------------------------------------------------------------------
(* What the queued DoSend event and the procedure under way promise.       *)

Shortest == CHOOSE t \in AckTimeouts : \A u \in AckTimeouts : t <= u

\* A queued attempt has one left and comes late enough; no new transmission
\* can have begun since.
Prospect(d, e) ==
  IF e.arg.copy
    THEN d.retxLeft >= 1 /\ d.secondTs + Shortest <= e.left /\ Clock(d)["txFinished"] = -1
    ELSE e.arg.flag = AppFlag

Tried(d) ==
  /\ \A n \in 1 .. NumPackets : d.onAir[n] <= MaxNumbTx
  /\ d.waitingAck => Confirmed /\ d.retxPkt.flag /\ d.onAir[d.retxPkt.pkt] + d.retxLeft = MaxNumbTx

Settled(d) ==
  /\ WellFormed(d) /\ d.fault = "none" /\ Tried(d)
  /\ \A e \in OfKind(d.queue, "doSend") : Prospect(d, e)
  /\ Clock(d)["doSend"] >= 0 => d.duty <= Clock(d)["doSend"]

Steady(d) == Settled(d) /\ Rules(d.phy, Clock(d), d.duty)

\* From d to r, nothing but a postponed DoSend event moves.
Calm(d, r) ==
  /\ Settled(r) /\ r.phy = d.phy /\ r.duty = d.duty /\ r.onAir = d.onAir
  /\ \A k \in Events \ {"doSend"} : Clock(r)[k] = Clock(d)[k]

LEMMA ShortestIs ==
  Shortest \in AckTimeouts /\ Shortest \in Nat /\ Shortest > 0 /\ \A u \in AckTimeouts : Shortest <= u
<1>1. AckTimeouts \in SUBSET Nat /\ AckTimeouts # {} /\ \A t \in AckTimeouts : t > 0
  BY EndDeviceAssumption
<1>2. \E t \in AckTimeouts : \A u \in AckTimeouts : t <= u
  BY <1>1, LeastOf
<1>3. Shortest \in AckTimeouts /\ \A u \in AckTimeouts : Shortest <= u
  BY <1>2 DEF Shortest
<1> QED
  BY <1>1, <1>3

LEMMA KindNames ==
  {"standby", "txFinished", "openFirst", "closeFirst", "openSecond", "closeSecond", "endReceive",
   "endReceiveI"} \subseteq Events \ {"doSend"} /\ "doSend" \in Events
BY DEF Events

LEMMA FaceOf ==
  ASSUME NEW d, WellFormed(d)
  PROVE  Clock(d) \in ClockFace /\ d \in Device /\ d.phy \in Radio /\ d.duty \in Nat
<1>1. d \in Device
  BY DEF WellFormed, Frame
<1> QED
  BY <1>1, ClockTyped DEF ClockFace, Device

LEMMA SettledKept ==
  ASSUME NEW d, NEW r, Settled(d), WellFormed(r), OnlyQueue(d, r),
         OfKind(r.queue, "doSend") = OfKind(d.queue, "doSend"),
         Clock(d)["txFinished"] = -1 => Clock(r)["txFinished"] = -1,
         Clock(r)["doSend"] = Clock(d)["doSend"]
  PROVE  Settled(r)
BY DEF Settled, OnlyQueue, Tried, Prospect

LEMMA SteadyAfter ==
  ASSUME NEW d, NEW r, WellFormed(d), Rules(d.phy, Clock(d), d.duty), Calm(d, r)
  PROVE  Steady(r) /\ r.onAir = d.onAir
<1>1. WellFormed(r) /\ (Clock(r)["doSend"] >= 0 => d.duty <= Clock(r)["doSend"])
  BY DEF Calm, Settled
<1>2. Clock(d) \in ClockFace /\ Clock(r) \in ClockFace /\ d.phy \in Radio /\ d.duty \in Nat
  BY <1>1, FaceOf
<1>3. Clock(r)["doSend"] = -1 \/ Clock(r)["doSend"] >= d.duty
  BY <1>1, <1>2, ClockValues, KindNames
<1> QED
  BY <1>2, <1>3, CalmRules DEF Calm, Steady

LEMMA CalmTransitive ==
  ASSUME NEW d, NEW e, NEW r, Calm(d, e), Calm(e, r)
  PROVE  Calm(d, r)
BY DEF Calm

\* The radio is switched.
LEMMA Switched ==
  ASSUME NEW d, Settled(d), NEW phy \in Radio
  PROVE  LET r == [d EXCEPT !.phy = phy] IN
         /\ Settled(r) /\ Clock(r) = Clock(d) /\ r.phy = phy /\ r.duty = d.duty
         /\ r.queue = d.queue /\ r.waitingAck = d.waitingAck /\ r.onAir = d.onAir
<1> DEFINE r == [d EXCEPT !.phy = phy]
<1>1. d \in Device
  BY DEF Settled, WellFormed, Frame
<1>2. /\ r \in Device /\ r.phy = phy /\ r.queue = d.queue
      /\ r.secondTs = d.secondTs /\ r.duty = d.duty
      /\ r.waitingAck = d.waitingAck /\ r.retxLeft = d.retxLeft /\ r.retxPkt = d.retxPkt
      /\ r.fault = d.fault /\ r.onAir = d.onAir
  BY <1>1 DEF Device
<1> HIDE DEF r
<1>3. Clock(r) = Clock(d)
  BY <1>2 DEF Clock
<1>4. WellFormed(r)
  BY <1>2 DEF Settled, WellFormed, Frame
<1>5. Settled(r)
  BY <1>2, <1>3, <1>4 DEF Settled, Tried, Prospect
<1> QED
  BY <1>2, <1>3, <1>5 DEF r

LEMMA ReportCalm ==
  ASSUME NEW d, Settled(d), NEW success \in BOOLEAN
  PROVE  Calm(d, Report(d, success))
<1> DEFINE r == Report(d, success)
           x == [pkt |-> d.retxPkt.pkt, success |-> success, txs |-> (MaxNumbTx - d.retxLeft) % 256]
<1>1. Frame(d) /\ d \in Device
  BY DEF Settled, WellFormed, Frame
<1>2. /\ Frame(r) /\ r.reports = Append(d.reports, x) /\ x \in Reports
      /\ r.onAir = d.onAir /\ r.fault = d.fault /\ r.queue = d.queue
  BY <1>1, ReportDevice
<1>3. /\ r.phy = d.phy /\ r.secondTs = d.secondTs /\ r.duty = d.duty
      /\ r.waitingAck = d.waitingAck /\ r.retxLeft = d.retxLeft /\ r.retxPkt = d.retxPkt
  BY <1>1 DEF Report, Device
<1> HIDE DEF r, x
<1>4. Clock(r) = Clock(d)
  BY <1>2 DEF Clock
<1>5. WellFormed(r)
  BY <1>2 DEF Settled, WellFormed
<1>6. Settled(r)
  BY <1>2, <1>3, <1>4, <1>5 DEF Settled, Tried, Prospect
<1> QED
  BY <1>2, <1>3, <1>4, <1>6 DEF Calm, r

LEMMA ResetCalm ==
  ASSUME NEW d, Settled(d)
  PROVE  Calm(d, resetRetransmissionParameters(d))
<1> DEFINE f == [d EXCEPT !.waitingAck = FALSE, !.retxLeft = MaxNumbTx, !.retxPkt = NoPacket]
           r == Cancel(f, "doSend")
<1>1. d \in Device
  BY DEF Settled, WellFormed, Frame
<1>2. NoPacket \in Pointers /\ "doSend" \in Events /\ MaxNumbTx \in 0 .. 255
  BY Constants DEF NoPacket, Pointers, Events
<1>3. /\ f \in Device /\ ~ f.waitingAck /\ f.queue = d.queue /\ f.phy = d.phy /\ f.duty = d.duty
      /\ f.onAir = d.onAir /\ f.fault = d.fault
  BY <1>1, <1>2 DEF Device
<1> HIDE DEF f
<1>4. WellFormed(f) /\ Clock(f) = Clock(d)
  BY <1>3 DEF Settled, WellFormed, Frame, Clock
<1>5. /\ WellFormed(r) /\ OnlyQueue(f, r) /\ SetTo(Clock(f), Clock(r), "doSend", -1)
      /\ OfKind(r.queue, "doSend") = {}
  BY <1>2, <1>4, CancelClock
<1>6. r = resetRetransmissionParameters(d)
  BY DEF resetRetransmissionParameters, f
<1> HIDE DEF r
<1>7. Tried(r) /\ r.fault = "none" /\ r.phy = d.phy /\ r.duty = d.duty /\ r.onAir = d.onAir
  BY <1>3, <1>5 DEF Settled, Tried, OnlyQueue
<1>8. Clock(r)["doSend"] = -1 /\ \A k \in Events \ {"doSend"} : Clock(r)[k] = Clock(d)[k]
  BY <1>4, <1>5 DEF SetTo
<1>9. Settled(r)
  BY <1>5, <1>7, <1>8 DEF Settled
<1> QED
  BY <1>6, <1>7, <1>8, <1>9 DEF Calm

LEMMA ClosedCalm ==
  ASSUME NEW d, Settled(d), NEW success \in BOOLEAN
  PROVE  Calm(d, Closed(d, success))
<1>1. Calm(d, Report(d, success))
  BY ReportCalm
<1>2. Calm(Report(d, success), Closed(d, success))
  BY <1>1, ResetCalm DEF Calm, Closed
<1> QED
  BY <1>1, <1>2, CalmTransitive

LEMMA PostponeCalm ==
  ASSUME NEW d, Settled(d), NEW delay \in Nat, d.duty <= delay, NEW p \in Pointers,
         IF p.copy THEN d.retxLeft >= 1 /\ d.secondTs + Shortest <= delay /\ Clock(d)["txFinished"] = -1
                   ELSE p.flag = AppFlag
  PROVE  Calm(d, postponeTransmission(d, delay, p))
<1> DEFINE e == Cancel(d, "doSend")
           r == Schedule(e, "doSend", delay, p)
           x == NewEvent("doSend", delay, p)
<1>1. WellFormed(d) /\ "doSend" \in Events /\ p \in Args
      /\ "doSend" # "standby" /\ "doSend" # "txFinished"
  BY KindNames DEF Settled, Args
<1>2. /\ WellFormed(e) /\ OnlyQueue(d, e) /\ SetTo(Clock(d), Clock(e), "doSend", -1)
  BY <1>1, CancelClock
<1> HIDE DEF e
<1>3. Clock(e)["doSend"] = -1
  BY <1>2 DEF SetTo
<1>4. /\ WellFormed(r) /\ OnlyQueue(e, r) /\ SetTo(Clock(e), Clock(r), "doSend", delay)
      /\ OfKind(r.queue, "doSend") = {x}
  <2>1. ASSUME NEW k \in Events, k = "doSend"
        PROVE  LET t == Schedule(e, k, delay, p) IN
               /\ WellFormed(t) /\ OnlyQueue(e, t) /\ SetTo(Clock(e), Clock(t), k, delay)
               /\ OfKind(t.queue, "doSend") = {NewEvent(k, delay, p)}
    <3>1. k # "standby" /\ k # "txFinished" /\ Clock(e)[k] = -1
      BY <1>3, <2>1
    <3> QED
      BY <1>1, <1>2, <2>1, <3>1, ScheduleClock
  <2> QED
    BY <1>1, <2>1
<1>5. r = postponeTransmission(d, delay, p)
  BY DEF postponeTransmission, e
<1>6. x.arg = p /\ x.left = delay
  BY DEF NewEvent
<1> HIDE DEF r, x
<1>7. Clock(r)["doSend"] = delay /\ \A k \in Events \ {"doSend"} : Clock(r)[k] = Clock(d)[k]
  BY <1>2, <1>4 DEF SetTo
<1>8. OnlyQueue(d, r)
  BY <1>2, <1>4 DEF OnlyQueue
<1>9. \A f \in OfKind(r.queue, "doSend") : Prospect(r, f)
  <2>1. Clock(r)["txFinished"] = Clock(d)["txFinished"]
    BY <1>7, KindNames
  <2> QED
    BY <1>4, <1>6, <1>8, <2>1 DEF Prospect, OnlyQueue
<1>10. Settled(r)
  BY <1>4, <1>7, <1>8, <1>9 DEF Settled, Tried, OnlyQueue
<1> QED
  BY <1>5, <1>7, <1>8, <1>10 DEF Calm, OnlyQueue

\* Another attempt, or the end: the duty cycle not being over, no transmission
\* begins within the call.
LEMMA RetryCalm ==
  ASSUME NEW s \in 0 .. NumPackets, NEW d, Settled(d), Strong(d, s), d.waitingAck, d.duty > 0,
         Clock(d)["txFinished"] = -1, NEW timeout \in AckTimeouts, NEW flag \in CopyFlags
  PROVE  Calm(d, Retry(d, timeout, flag))
<1> DEFINE p == d.retxPkt
           delay == GetNextTransmissionDelay(d, timeout)
<1>1. p \in Pointers /\ p.copy /\ d \in Device /\ d.retxLeft \in 0 .. 255
      /\ d.duty \in Nat /\ d.secondTs \in Int
  BY DEF Strong, Books, Procedure, Frame, Device
<1>2. timeout \in Nat /\ Shortest \in Nat /\ Shortest <= timeout
  BY Constants, ShortestIs
<1>3. delay \in Nat /\ d.duty <= delay /\ d.secondTs + Shortest <= delay
  <2>1. delay \in Nat
    BY <1>1, DelayIsNat
  <2>2. delay = IF d.secondTs + timeout > d.duty THEN d.secondTs + timeout ELSE d.duty
    BY DEF GetNextTransmissionDelay
  <2> HIDE DEF delay
  <2> QED
    BY <1>1, <1>2, <2>1, <2>2
<1>4. CASE d.retxLeft > 0
  <2>1. Send(d, p, timeout, flag) \in {d, postponeTransmission(d, delay, p)}
    <3>1. delay # 0
      <4> HIDE DEF delay
      <4> QED
        BY <1>1, <1>3
    <3> QED
      BY <3>1 DEF Send
  <2>2. Calm(d, d)
    BY DEF Calm
  <2>3. Calm(d, postponeTransmission(d, delay, p))
    <3> HIDE DEF delay, p
    <3>1. d.retxLeft >= 1
      BY <1>1, <1>4
    <3> QED
      BY <1>1, <1>3, <3>1, PostponeCalm
  <2>4. Retry(d, timeout, flag) = Send(d, p, timeout, flag)
    BY <1>4 DEF Retry
  <2> HIDE DEF delay, p
  <2> QED
    BY <2>1, <2>2, <2>3, <2>4
<1>5. CASE ~ (d.retxLeft > 0)
  <2>1. FALSE \in BOOLEAN
    BY Zenon
  <2>2. Retry(d, timeout, flag) = Closed(d, FALSE)
    BY <1>5 DEF Retry, Closed
  <2> QED
    BY <2>1, <2>2, ClosedCalm
<1> QED
  BY <1>4, <1>5

-----------------------------------------------------------------------------
(* Transmissions.                                                          *)

\* ScheduleClock, as it is used for a named kind of event.
LEMMA ScheduleKind ==
  ASSUME NEW d, WellFormed(d), NEW k \in Events \ {"doSend"}, Clock(d)[k] = -1,
         NEW delay \in Nat, NEW arg \in Args,
         k = "standby" => Clock(d)["txFinished"] = -1,
         k = "txFinished" => Clock(d)["standby"] <= delay
  PROVE  LET r == Schedule(d, k, delay, arg) IN
         /\ WellFormed(r) /\ OnlyQueue(d, r) /\ SetTo(Clock(d), Clock(r), k, delay)
         /\ OfKind(r.queue, "doSend") = OfKind(d.queue, "doSend")
BY ScheduleClock

LEMMA OnTheAir ==
  ASSUME NEW d \in Device, NEW n \in 1 .. NumPackets
  PROVE  LET a == [d EXCEPT !.phy = "TX", !.onAir[n] = @ + 1] IN
         /\ a \in Device /\ a.queue = d.queue /\ a.fault = d.fault /\ a.phy = "TX"
         /\ a.waitingAck = d.waitingAck /\ a.retxLeft = d.retxLeft /\ a.retxPkt = d.retxPkt
         /\ \A m \in (1 .. NumPackets) \ {n} : a.onAir[m] = d.onAir[m]
         /\ a.onAir[n] = d.onAir[n] + 1 /\ d.onAir[n] \in Nat
<1> DEFINE a == [d EXCEPT !.phy = "TX", !.onAir[n] = @ + 1]
           onAir == [d.onAir EXCEPT ![n] = @ + 1]
<1>1. d.onAir \in [1 .. NumPackets -> Nat] /\ NumPackets \in Nat
  BY Constants DEF Device
<1>2. onAir \in [1 .. NumPackets -> Nat] /\ d.onAir[n] \in Nat
  BY <1>1
<1>3. /\ \A m \in (1 .. NumPackets) \ {n} : onAir[m] = d.onAir[m]
      /\ onAir[n] = d.onAir[n] + 1
  BY <1>1
<1>4. a = [d EXCEPT !.phy = "TX", !.onAir = onAir]
  OBVIOUS
<1> HIDE DEF onAir, a
<1>5. /\ a \in Device /\ a.onAir = onAir /\ a.queue = d.queue /\ a.fault = d.fault /\ a.phy = "TX"
      /\ a.waitingAck = d.waitingAck /\ a.retxLeft = d.retxLeft /\ a.retxPkt = d.retxPkt
  BY <1>2, <1>4, ZenonT(60) DEF Device, Radio
<1> QED
  BY <1>2, <1>3, <1>5 DEF a

LEMMA DutyBegins ==
  ASSUME NEW d \in Device
  PROVE  LET r == [d EXCEPT !.duty = DutyWait] IN
         /\ r \in Device /\ r.duty = DutyWait /\ r.queue = d.queue /\ r.phy = d.phy /\ r.fault = d.fault
         /\ r.waitingAck = d.waitingAck /\ r.retxLeft = d.retxLeft /\ r.retxPkt = d.retxPkt
         /\ r.onAir = d.onAir
BY Delays DEF Device

LEMMA TransmissionSteady ==
  ASSUME Regular, NEW d, WellFormed(d), d.fault = "none", d.phy = "SLEEP", d.duty = 0,
         \A k \in Events : Clock(d)[k] = -1,
         NEW p \in Pointers, p.flag, p.pkt \in 1 .. NumPackets,
         \A n \in 1 .. NumPackets : d.onAir[n] <= MaxNumbTx,
         d.onAir[p.pkt] < MaxNumbTx,
         d.waitingAck => Confirmed /\ p = d.retxPkt /\ d.onAir[p.pkt] + 1 + d.retxLeft = MaxNumbTx
  PROVE  Steady(SendToPhy(d, p))
<1> DEFINE a == [d EXCEPT !.phy = "TX", !.onAir[p.pkt] = @ + 1]
           b == Schedule(a, "standby", TxTime, p)
           c == Schedule(b, "txFinished", TxTime, p)
           r == [c EXCEPT !.duty = DutyWait]
<1>1. SendToPhy(d, p) = r
  <2>1. PhySendI(d, p) = c
    BY DEF PhySendI, SwitchToTx
  <2> QED
    BY <2>1 DEF SendToPhy
<1>2. /\ a \in Device /\ a.queue = d.queue /\ a.fault = d.fault /\ a.phy = "TX"
      /\ a.waitingAck = d.waitingAck /\ a.retxLeft = d.retxLeft /\ a.retxPkt = d.retxPkt
      /\ \A n \in (1 .. NumPackets) \ {p.pkt} : a.onAir[n] = d.onAir[n]
      /\ a.onAir[p.pkt] = d.onAir[p.pkt] + 1 /\ d.onAir[p.pkt] \in Nat
  BY OnTheAir DEF WellFormed, Frame
<1> HIDE DEF a
<1>3. WellFormed(a) /\ Clock(a) = Clock(d) /\ OfKind(a.queue, "doSend") = {}
  <2>1. OfKind(d.queue, "doSend") = {}
    BY KindNames, ClockTyped
  <2> QED
    BY <1>2, <2>1 DEF WellFormed, Frame, Clock
<1>4. p \in Args /\ TxTime \in Nat
  BY Delays DEF Args
<1>5. /\ WellFormed(b) /\ OnlyQueue(a, b) /\ SetTo(Clock(a), Clock(b), "standby", TxTime)
      /\ OfKind(b.queue, "doSend") = {}
  <2>1. \A k \in Events : Clock(a)[k] = -1
    BY <1>3
  <2>2. "standby" \in Events \ {"doSend"} /\ "txFinished" \in Events
    BY KindNames
  <2> QED
    BY <1>3, <1>4, <2>1, <2>2, ScheduleKind
<1> HIDE DEF b
<1>6. Clock(b)["standby"] = TxTime /\ \A k \in Events \ {"standby"} : Clock(b)[k] = -1
  BY <1>3, <1>5 DEF SetTo
<1>7. /\ WellFormed(c) /\ OnlyQueue(b, c) /\ SetTo(Clock(b), Clock(c), "txFinished", TxTime)
      /\ OfKind(c.queue, "doSend") = {}
  <2>1. Clock(b)["standby"] <= TxTime /\ Clock(b)["txFinished"] = -1
    BY <1>4, <1>6, KindNames
  <2>2. "txFinished" \in Events \ {"doSend"}
    BY KindNames
  <2> QED
    BY <1>4, <1>5, <2>1, <2>2, ScheduleKind
<1> HIDE DEF c
<1>8. /\ Clock(c)["standby"] = TxTime /\ Clock(c)["txFinished"] = TxTime
      /\ \A k \in Events \ {"standby", "txFinished"} : Clock(c)[k] = -1
  BY <1>6, <1>7, KindNames DEF SetTo
<1>9. /\ r \in Device /\ r.duty = DutyWait /\ r.queue = c.queue /\ r.phy = "TX" /\ r.fault = "none"
      /\ r.waitingAck = d.waitingAck /\ r.retxLeft = d.retxLeft /\ r.retxPkt = d.retxPkt
      /\ r.onAir = a.onAir
  <2>1. /\ c \in Device /\ c.phy = "TX" /\ c.fault = "none" /\ c.waitingAck = d.waitingAck
        /\ c.retxLeft = d.retxLeft /\ c.retxPkt = d.retxPkt /\ c.onAir = a.onAir
    BY <1>2, <1>5, <1>7 DEF OnlyQueue
  <2> QED
    BY <2>1, DutyBegins
<1> HIDE DEF r
<1>10. WellFormed(r) /\ Clock(r) = Clock(c) /\ OfKind(r.queue, "doSend") = {}
  BY <1>7, <1>9 DEF WellFormed, Frame, Clock
<1>11. Rules("TX", Clock(r), DutyWait)
  <2>1. Clock(r) \in ClockFace
    BY <1>10, FaceOf
  <2> QED
    BY <1>8, <1>10, <2>1, TransmitRules
<1>12. Tried(r)
  <2>1. ASSUME NEW n \in 1 .. NumPackets PROVE r.onAir[n] <= MaxNumbTx
    <3>1. CASE n = p.pkt
      BY <1>2, <1>9, <3>1, Constants
    <3>2. CASE n # p.pkt
      BY <1>2, <1>9, <3>2
    <3> QED
      BY <3>1, <3>2
  <2>2. r.waitingAck => Confirmed /\ r.retxPkt.flag /\ r.onAir[r.retxPkt.pkt] + r.retxLeft = MaxNumbTx
    BY <1>2, <1>9
  <2> QED
    BY <2>1, <2>2 DEF Tried
<1>13. Clock(r)["doSend"] = -1
  BY <1>8, <1>10, KindNames
<1> QED
  BY <1>1, <1>9, <1>10, <1>11, <1>12, <1>13 DEF Steady, Settled

\* The MAC's own fields are set.
Counted(d, l) == [d EXCEPT !.retxLeft = l]
Begun(d, p, l) == [d EXCEPT !.retxPkt = p, !.waitingAck = TRUE, !.retxLeft = l]

Recounted(d, r, l) ==
  /\ WellFormed(r) /\ Clock(r) = Clock(d) /\ r.fault = d.fault /\ r.phy = d.phy
  /\ r.duty = d.duty /\ r.onAir = d.onAir /\ r.retxLeft = l

LEMMA CountedIs ==
  ASSUME NEW d, WellFormed(d), NEW l \in 0 .. 255
  PROVE  /\ Recounted(d, Counted(d, l), l)
         /\ Counted(d, l).waitingAck = d.waitingAck /\ Counted(d, l).retxPkt = d.retxPkt
<1>0. d \in Device
  BY DEF WellFormed, Frame
<1> DEFINE r == Counted(d, l)
<1>1. /\ r \in Device /\ r.queue = d.queue /\ r.fault = d.fault /\ r.phy = d.phy
      /\ r.duty = d.duty /\ r.onAir = d.onAir /\ r.retxLeft = l
      /\ r.waitingAck = d.waitingAck /\ r.retxPkt = d.retxPkt
  BY <1>0 DEF Device, Counted
<1> HIDE DEF r
<1>2. WellFormed(r) /\ Clock(r) = Clock(d)
  BY <1>1 DEF WellFormed, Frame, Clock
<1> QED
  BY <1>1, <1>2 DEF r, Recounted

LEMMA BegunIs ==
  ASSUME NEW d, WellFormed(d), NEW l \in 0 .. 255, NEW p \in Pointers
  PROVE  /\ Recounted(d, Begun(d, p, l), l)
         /\ Begun(d, p, l).waitingAck /\ Begun(d, p, l).retxPkt = p
<1>0. d \in Device /\ TRUE \in BOOLEAN
  <2>1. TRUE \in BOOLEAN
    BY Zenon
  <2> QED
    BY <2>1 DEF WellFormed, Frame
<1> DEFINE r == Begun(d, p, l)
<1>1. /\ r \in Device /\ r.queue = d.queue /\ r.fault = d.fault /\ r.phy = d.phy
      /\ r.duty = d.duty /\ r.onAir = d.onAir /\ r.retxLeft = l
      /\ r.waitingAck /\ r.retxPkt = p
  BY <1>0 DEF Device, Begun
<1> HIDE DEF r
<1>2. WellFormed(r) /\ Clock(r) = Clock(d)
  BY <1>1 DEF WellFormed, Frame, Clock
<1> QED
  BY <1>1, <1>2 DEF r, Recounted

LEMMA RetransmissionSteady ==
  ASSUME Regular, NEW s \in 0 .. NumPackets, NEW d, Settled(d), Strong(d, s), d.waitingAck,
         d.phy = "SLEEP", d.duty = 0, \A k \in Events : Clock(d)[k] = -1, d.retxLeft >= 1,
         NEW flag \in CopyFlags
  PROVE  Steady(DoSend(d, d.retxPkt, flag))
<1> DEFINE p == d.retxPkt
           l == (d.retxLeft - 1) % 256
           g == Counted(d, l)
<1>1. /\ d \in Device /\ WellFormed(d) /\ d.fault = "none" /\ p \in Pointers /\ p.pkt \in 1 .. NumPackets
      /\ d.retxLeft \in 0 .. 255 /\ d.onAir[p.pkt] \in Nat
  <2>1. d \in Device /\ WellFormed(d) /\ d.fault = "none" /\ p.pkt \in 1 .. s
    BY DEF Settled, WellFormed, Frame, Strong, Books, Procedure
  <2>2. s \in Int /\ s <= NumPackets /\ NumPackets \in Int
    BY Constants
  <2>3. p \in Pointers /\ d.retxLeft \in 0 .. 255 /\ d.onAir \in [1 .. NumPackets -> Nat]
    BY <2>1 DEF Device
  <2> HIDE DEF p
  <2>4. p.pkt \in 1 .. NumPackets
    BY <2>1, <2>2
  <2>5. \A f, n : f \in [1 .. NumPackets -> Nat] /\ n \in 1 .. NumPackets => f[n] \in Nat
    OBVIOUS
  <2> QED
    BY <2>1, <2>3, <2>4, <2>5
<1>2. l = d.retxLeft - 1 /\ l \in 0 .. 255
  BY <1>1
<1>3. /\ Confirmed /\ p.flag /\ d.onAir[p.pkt] + d.retxLeft = MaxNumbTx
      /\ \A n \in 1 .. NumPackets : d.onAir[n] <= MaxNumbTx
  <2>1. Tried(d)
    BY DEF Settled
  <2> QED
    BY <2>1, Zenon DEF Tried
<1>4. DoSend(d, p, flag) = SendToPhy(g, p)
  BY DEF DoSend, Counted
<1> HIDE DEF l
<1>5. /\ WellFormed(g) /\ Clock(g) = Clock(d) /\ g.fault = d.fault /\ g.phy = d.phy
      /\ g.duty = d.duty /\ g.onAir = d.onAir
      /\ g.waitingAck = d.waitingAck /\ g.retxPkt = p /\ g.retxLeft = l
  <2>1. Recounted(d, g, l) /\ g.waitingAck = d.waitingAck /\ g.retxPkt = p
    <3>1. WellFormed(d) /\ l \in 0 .. 255
      BY <1>1, <1>2
    <3> HIDE DEF p
    <3>2. Recounted(d, Counted(d, l), l)
      BY <3>1, CountedIs
    <3>3. Counted(d, l).waitingAck = d.waitingAck
      BY <3>1, CountedIs
    <3>4. Counted(d, l).retxPkt = d.retxPkt
      BY <3>1, CountedIs
    <3> QED
      BY <3>2, <3>3, <3>4 DEF p
  <2> HIDE DEF g, p
  <2> QED
    BY <2>1 DEF Recounted
<1> HIDE DEF g
<1>6. d.onAir[p.pkt] < MaxNumbTx /\ d.onAir[p.pkt] + 1 + l = MaxNumbTx
  <2> DEFINE a == d.onAir[p.pkt]
  <2>1. a \in Nat /\ a + d.retxLeft = MaxNumbTx /\ d.retxLeft \in Int /\ MaxNumbTx \in Int
    BY <1>1, <1>3, Constants
  <2> HIDE DEF a, p
  <2>2. a < MaxNumbTx /\ a + 1 + l = MaxNumbTx
    BY <1>2, <2>1
  <2> QED
    BY <2>2 DEF a
<1> HIDE DEF p
<1>7. Steady(SendToPhy(g, p))
  <2>1. /\ g.onAir[p.pkt] < MaxNumbTx /\ g.onAir[p.pkt] + 1 + g.retxLeft = MaxNumbTx
        /\ \A n \in 1 .. NumPackets : g.onAir[n] <= MaxNumbTx
    BY <1>3, <1>5, <1>6
  <2>2. g.fault = "none" /\ g.phy = "SLEEP" /\ g.duty = 0 /\ \A k \in Events : Clock(g)[k] = -1
    BY <1>1, <1>5
  <2> QED
    BY <1>1, <1>3, <1>5, <2>1, <2>2, TransmissionSteady
<1> QED
  BY <1>4, <1>7 DEF p

LEMMA NewPacketSteady ==
  ASSUME Regular, NEW s \in 0 .. NumPackets, NEW d, Settled(d), Strong(d, s),
         d.phy = "SLEEP", d.duty = 0, \A k \in Events \ {"doSend"} : Clock(d)[k] = -1,
         NEW p, Sendable(d, p, s), ~ p.copy, p.flag = AppFlag, NEW flag \in CopyFlags
  PROVE  /\ Steady(DoSend(d, p, flag)) /\ d.onAir[p.pkt] = 0
         /\ \A n \in (1 .. NumPackets) \ {p.pkt} : DoSend(d, p, flag).onAir[n] = d.onAir[n]
<1> DEFINE e == IF d.waitingAck THEN Closed(d, FALSE) ELSE resetRetransmissionParameters(d)
           copy == [p EXCEPT !.copy = TRUE, !.flag = flag]
           l == e.retxLeft - 1
           g == Begun(e, copy, l)
<1>0. FALSE \in BOOLEAN /\ TRUE \in BOOLEAN
  BY Zenon
<1>1. p # d.retxPkt
  BY NewPacketBooks
<1>2. Calm(d, e)
  BY <1>0, ClosedCalm, ResetCalm
<1>3. Over(d, e, s)
  BY <1>0, ClosedBooks, ResetBooks
<1>4. DoSend(d, p, flag) = IF Confirmed THEN SendToPhy(g, copy) ELSE SendToPhy(e, p)
  BY <1>1 DEF DoSend, Closed, Begun
<1> HIDE DEF e
<1>5. p \in Pointers /\ p.pkt \in 1 .. NumPackets /\ Fresh(d, p.pkt)
  <2>1. p \in Pointers /\ p.pkt \in 1 .. s /\ Fresh(d, p.pkt)
    BY DEF Sendable
  <2>2. s \in Int /\ s <= NumPackets /\ NumPackets \in Int
    BY Constants
  <2> QED
    BY <2>1, <2>2
<1>6. /\ WellFormed(e) /\ e.fault = "none" /\ e.phy = "SLEEP" /\ e.duty = 0
      /\ ~ e.waitingAck /\ e.retxLeft = MaxNumbTx /\ e.onAir[p.pkt] = 0
      /\ \A n \in 1 .. NumPackets : e.onAir[n] <= MaxNumbTx
      /\ e.onAir = d.onAir /\ d.onAir[p.pkt] = 0
  BY <1>2, <1>3, <1>5 DEF Calm, Over, Settled, Tried, Fresh
<1>7. \A k \in Events : Clock(e)[k] = -1
  <2>1. OfKind(e.queue, "doSend") = {}
    BY <1>3 DEF Over, ToSend
  <2>2. Clock(e)["doSend"] = -1
    BY <1>6, <2>1, KindNames, ClockTyped
  <2>3. \A k \in Events \ {"doSend"} : Clock(e)[k] = -1
    BY <1>2 DEF Calm
  <2> QED
    BY <2>2, <2>3
<1>8. 0 < MaxNumbTx /\ 0 + 1 + (MaxNumbTx - 1) = MaxNumbTx /\ MaxNumbTx - 1 \in 0 .. 255
  BY Constants
<1>9. CASE Confirmed
  <2>1. flag = TRUE
    BY <1>9 DEF Regular, FlaggedCopies
  <2>2. copy \in Pointers /\ copy.pkt = p.pkt /\ copy.flag
    BY <1>0, <1>5, <2>1 DEF Pointers
  <2> HIDE DEF copy
  <2>3. l \in 0 .. 255 /\ l = MaxNumbTx - 1
    BY <1>6, <1>8
  <2> HIDE DEF l
  <2>4. /\ WellFormed(g) /\ Clock(g) = Clock(e) /\ g.fault = e.fault /\ g.phy = e.phy
        /\ g.duty = e.duty /\ g.onAir = e.onAir
        /\ g.waitingAck /\ g.retxPkt = copy /\ g.retxLeft = l
    <3>1. Recounted(e, g, l) /\ g.waitingAck /\ g.retxPkt = copy
      <4>1. WellFormed(e) /\ l \in 0 .. 255 /\ copy \in Pointers
        BY <1>6, <2>2, <2>3
      <4>2. Recounted(e, Begun(e, copy, l), l)
        BY <4>1, BegunIs
      <4>3. Begun(e, copy, l).waitingAck
        BY <4>1, BegunIs
      <4>4. Begun(e, copy, l).retxPkt = copy
        BY <4>1, BegunIs, SMTT(40)
      <4> QED
        BY <4>2, <4>3, <4>4
    <3> HIDE DEF g
    <3> QED
      BY <3>1 DEF Recounted
  <2> HIDE DEF g
  <2>5. /\ g.fault = "none" /\ g.phy = "SLEEP" /\ g.duty = 0 /\ \A k \in Events : Clock(g)[k] = -1
        /\ copy.pkt \in 1 .. NumPackets /\ g.onAir[copy.pkt] < MaxNumbTx
        /\ g.onAir[copy.pkt] + 1 + g.retxLeft = MaxNumbTx
        /\ \A n \in 1 .. NumPackets : g.onAir[n] <= MaxNumbTx
    BY <1>5, <1>6, <1>7, <1>8, <2>2, <2>3, <2>4
  <2>6. Steady(SendToPhy(g, copy))
    BY <1>9, <2>2, <2>4, <2>5, TransmissionSteady
  <2>7. \A n \in (1 .. NumPackets) \ {copy.pkt} : SendToPhy(g, copy).onAir[n] = g.onAir[n]
    BY <2>2, <2>4, <2>5, SendToPhyCounts DEF WellFormed, Counts
  <2> QED
    BY <1>4, <1>6, <1>9, <2>2, <2>4, <2>6, <2>7
<1>10. CASE ~ Confirmed
  <2>1. p.flag /\ e.onAir[p.pkt] < MaxNumbTx
    BY <1>6, <1>8, <1>10 DEF Regular
  <2>2. Steady(SendToPhy(e, p))
    BY <1>5, <1>6, <1>7, <2>1, TransmissionSteady
  <2>3. \A n \in (1 .. NumPackets) \ {p.pkt} : SendToPhy(e, p).onAir[n] = e.onAir[n]
    BY <1>5, <1>6, SendToPhyCounts DEF WellFormed, Counts
  <2> QED
    BY <1>4, <1>6, <1>10, <2>2, <2>3
<1> QED
  BY <1>9, <1>10

-----------------------------------------------------------------------------
(* One lemma per action.                                                   *)

\* An attempt after the first comes late enough.
NoneTooSoon ==
  \A n \in 1 .. NumPackets : dev.onAir[n] > 0 /\ dev'.onAir[n] > dev.onAir[n]
    => dev.secondTs <= - Shortest

\* Only a packet that has not been sent yet may be on the air once more.
LEMMA NothingRepeated ==
  ASSUME Steady(dev), NEW m, dev.onAir[m] = 0,
         \A n \in (1 .. NumPackets) \ {m} : dev'.onAir[n] = dev.onAir[n]
  PROVE  NoneTooSoon
<1> SUFFICES ASSUME NEW n \in 1 .. NumPackets, dev.onAir[n] > 0, dev'.onAir[n] > dev.onAir[n]
             PROVE  FALSE
  BY DEF NoneTooSoon
<1>1. dev \in Device
  BY FaceOf DEF Steady, Settled
<1>2. dev.onAir[n] \in Nat
  BY <1>1 DEF Device
<1>3. CASE n = m
  BY <1>2, <1>3
<1>4. CASE n # m
  BY <1>2, <1>4
<1> QED
  BY <1>3, <1>4

LEMMA SilentStep ==
  ASSUME Steady(dev), dev'.onAir = dev.onAir
  PROVE  NoneTooSoon
<1> SUFFICES ASSUME NEW n \in 1 .. NumPackets, dev.onAir[n] > 0, dev'.onAir[n] > dev.onAir[n]
             PROVE  FALSE
  BY DEF NoneTooSoon
<1>1. dev \in Device
  BY FaceOf DEF Steady, Settled
<1>2. dev.onAir[n] \in Nat
  BY <1>1 DEF Device
<1> QED
  BY <1>2

\* The event that is run has been taken out of the queue.
LEMMA PoppedSettled ==
  ASSUME Steady(dev), NEW k \in Events, Due(k)
  PROVE  /\ Settled(Popped) /\ OnlyQueue(dev, Popped) /\ Popped.phy = dev.phy /\ Popped.duty = dev.duty
         /\ SetTo(Clock(dev), Clock(Popped), k, -1) /\ Clock(dev)[k] = 0
         /\ Rules(dev.phy, Clock(dev), dev.duty)
         /\ Clock(dev) \in ClockFace /\ Clock(Popped) \in ClockFace
         /\ dev.phy \in Radio /\ dev.duty \in Nat
         /\ k = "txFinished" => Clock(dev)["standby"] = -1
         /\ k = "doSend" => Prospect(dev, Head(dev.queue))
<1>1. Settled(dev) /\ WellFormed(dev) /\ dev.queue # <<>> /\ Head(dev.queue).left = 0
      /\ Head(dev.queue).kind = k
  BY DEF Steady, Settled, Due
<1>2. /\ WellFormed(Popped) /\ OnlyQueue(dev, Popped) /\ SetTo(Clock(dev), Clock(Popped), k, -1)
      /\ Clock(dev)[k] = 0
      /\ k = "txFinished" => Clock(dev)["standby"] = -1
      /\ k # "doSend" => OfKind(Popped.queue, "doSend") = OfKind(dev.queue, "doSend")
      /\ k = "doSend" => /\ OfKind(Popped.queue, "doSend") = {}
                         /\ Head(dev.queue) \in OfKind(dev.queue, "doSend")
  BY <1>1, PopClock DEF Popped
<1> HIDE DEF Popped
<1>3. Settled(Popped)
  <2>1. CASE k # "doSend"
    <3>1. /\ Clock(dev)["txFinished"] = -1 => Clock(Popped)["txFinished"] = -1
          /\ Clock(Popped)["doSend"] = Clock(dev)["doSend"]
      BY <1>2, <2>1, KindNames DEF SetTo
    <3> QED
      BY <1>1, <1>2, <2>1, <3>1, SettledKept
  <2>2. CASE k = "doSend"
    <3>1. OfKind(Popped.queue, "doSend") = {} /\ Clock(Popped)["doSend"] = -1
      BY <1>2, <2>2 DEF SetTo
    <3> QED
      BY <1>1, <1>2, <3>1 DEF Settled, OnlyQueue, Tried
  <2> QED
    BY <2>1, <2>2
<1>4. k = "doSend" => Prospect(dev, Head(dev.queue))
  BY <1>1, <1>2 DEF Settled
<1>5. Clock(dev) \in ClockFace /\ Clock(Popped) \in ClockFace /\ dev.phy \in Radio /\ dev.duty \in Nat
  BY <1>1, <1>3, FaceOf DEF Settled
<1> QED
  BY <1>1, <1>2, <1>3, <1>4, <1>5 DEF Steady, OnlyQueue

LEMMA Phys == "SLEEP" \in Radio /\ "STANDBY" \in Radio /\ "RX" \in Radio /\ "TX" \in Radio
BY DEF Radio

LEMMA StandbySteady ==
  ASSUME Steady(dev), StandbyEvent
  PROVE  Steady(dev')
<1>1. Due("standby") /\ "standby" \in Events /\ dev' = [Popped EXCEPT !.phy = "STANDBY"]
  BY KindNames DEF StandbyEvent, SwitchToStandby
<1>2. /\ Settled(Popped) /\ Popped.duty = dev.duty
      /\ SetTo(Clock(dev), Clock(Popped), "standby", -1) /\ Clock(dev)["standby"] = 0
      /\ Rules(dev.phy, Clock(dev), dev.duty)
      /\ Clock(dev) \in ClockFace /\ Clock(Popped) \in ClockFace
      /\ dev.phy \in Radio /\ dev.duty \in Nat
  BY <1>1, PoppedSettled
<1>3. Rules("STANDBY", Clock(Popped), dev.duty)
  BY <1>2, StandbyRules
<1>4. /\ Settled(dev') /\ Clock(dev') = Clock(Popped) /\ dev'.phy = "STANDBY" /\ dev'.duty = Popped.duty
  BY <1>1, <1>2, Phys, Switched
<1> QED
  BY <1>2, <1>3, <1>4 DEF Steady

LEMMA TxFinishedSteady ==
  ASSUME Regular, Steady(dev), TxFinished
  PROVE  Steady(dev')
<1> DEFINE rx1 == Schedule(Popped, "openFirst", Delay1, NoPacket)
           rx2 == Schedule(rx1, "openSecond", Delay2, NoPacket)
           opens == [rx2 EXCEPT !.secondTs = Delay2]
<1>1. Due("txFinished") /\ dev' = SwitchToSleep(opens)
      /\ {"txFinished", "openFirst", "openSecond"} \subseteq Events \ {"doSend"}
      /\ Delay1 \in Nat /\ Delay2 \in Nat /\ NoPacket \in Args
  BY KindNames, Delays, NoPacketIsArg DEF TxFinished
<1>2. /\ Settled(Popped) /\ Popped.duty = dev.duty /\ Popped.phy = dev.phy /\ OnlyQueue(dev, Popped)
      /\ SetTo(Clock(dev), Clock(Popped), "txFinished", -1) /\ Clock(dev)["txFinished"] = 0
      /\ Rules(dev.phy, Clock(dev), dev.duty) /\ Clock(dev)["standby"] = -1
      /\ Clock(dev) \in ClockFace /\ Clock(Popped) \in ClockFace
      /\ dev.phy \in Radio /\ dev.duty \in Nat
  BY <1>1, PoppedSettled
<1>3. /\ dev.phy = "STANDBY" /\ Clock(dev)["openFirst"] = -1 /\ Clock(dev)["openSecond"] = -1
      /\ \A U \in ClockFace :
           /\ U["txFinished"] = -1 /\ U["openFirst"] = Delay1 /\ U["openSecond"] = Delay2
           /\ \A k \in Events \ {"txFinished", "openFirst", "openSecond"} : U[k] = Clock(dev)[k]
           => Rules("SLEEP", U, dev.duty)
  BY <1>2, TxFinishedRules
<1>4. /\ WellFormed(rx1) /\ OnlyQueue(Popped, rx1)
      /\ SetTo(Clock(Popped), Clock(rx1), "openFirst", Delay1)
      /\ OfKind(rx1.queue, "doSend") = OfKind(Popped.queue, "doSend")
  <2>1. WellFormed(Popped) /\ Clock(Popped)["openFirst"] = -1
    BY <1>1, <1>2, <1>3 DEF Settled, SetTo
  <2> QED
    BY <1>1, <2>1, ScheduleKind
<1> HIDE DEF rx1
<1>5. /\ WellFormed(rx2) /\ OnlyQueue(rx1, rx2)
      /\ SetTo(Clock(rx1), Clock(rx2), "openSecond", Delay2)
      /\ OfKind(rx2.queue, "doSend") = OfKind(rx1.queue, "doSend")
  <2>1. Clock(rx1)["openSecond"] = -1
    BY <1>1, <1>2, <1>3, <1>4 DEF SetTo
  <2> QED
    BY <1>1, <1>4, <2>1, ScheduleKind
<1> HIDE DEF rx2
<1>6. /\ Clock(rx2)["txFinished"] = -1 /\ Clock(rx2)["openFirst"] = Delay1
      /\ Clock(rx2)["openSecond"] = Delay2
      /\ \A k \in Events \ {"txFinished", "openFirst", "openSecond"} : Clock(rx2)[k] = Clock(dev)[k]
  BY <1>1, <1>2, <1>4, <1>5 DEF SetTo
<1>7. OnlyQueue(Popped, rx2) /\ OfKind(rx2.queue, "doSend") = OfKind(Popped.queue, "doSend")
  BY <1>4, <1>5 DEF OnlyQueue
<1>8. /\ opens \in Device /\ opens.queue = rx2.queue /\ opens.phy = rx2.phy /\ opens.duty = rx2.duty
      /\ opens.waitingAck = rx2.waitingAck /\ opens.retxLeft = rx2.retxLeft
      /\ opens.retxPkt = rx2.retxPkt /\ opens.fault = rx2.fault /\ opens.onAir = rx2.onAir
  <2>1. rx2 \in Device /\ Delay2 \in Int
    BY <1>7, Delays DEF OnlyQueue
  <2> QED
    BY <2>1 DEF Device
<1> HIDE DEF opens
<1>9. WellFormed(opens) /\ Clock(opens) = Clock(rx2)
  BY <1>5, <1>8 DEF WellFormed, Frame, Clock
<1>10. \A e \in OfKind(opens.queue, "doSend") : Prospect(opens, e)
  <2> SUFFICES ASSUME NEW e \in OfKind(opens.queue, "doSend") PROVE ~ e.arg.copy /\ e.arg.flag = AppFlag
    BY DEF Prospect
  <2>1. e \in OfKind(dev.queue, "doSend")
    <3>1. OfKind(Popped.queue, "doSend") = OfKind(dev.queue, "doSend")
      <4>1. WellFormed(dev) /\ dev.queue # <<>> /\ Head(dev.queue).left = 0
            /\ Head(dev.queue).kind = "txFinished"
        BY <1>1 DEF Steady, Settled, Due
      <4> QED
        BY <4>1, PopClock DEF Popped
    <3> QED
      BY <1>7, <1>8, <3>1
  <2>2. Prospect(dev, e)
    BY <2>1 DEF Steady, Settled
  <2> QED
    BY <1>2, <2>2 DEF Prospect
<1>11. Settled(opens)
  <2>1. Clock(opens)["doSend"] = Clock(Popped)["doSend"]
    BY <1>1, <1>2, <1>6, <1>9, KindNames DEF SetTo
  <2> QED
    BY <1>2, <1>7, <1>8, <1>9, <1>10, <2>1 DEF Settled, OnlyQueue, Tried
<1>12. dev' = [opens EXCEPT !.phy = "SLEEP"]
  <2>1. opens.phy = "STANDBY"
    BY <1>2, <1>3, <1>7, <1>8 DEF OnlyQueue
  <2> QED
    BY <1>1, <2>1 DEF SwitchToSleep
<1>13. Settled(dev') /\ Clock(dev') = Clock(opens) /\ dev'.phy = "SLEEP" /\ dev'.duty = opens.duty
  BY <1>11, <1>12, Phys, Switched
<1>14. Rules("SLEEP", Clock(rx2), dev.duty)
  <2>1. Clock(rx2) \in ClockFace
    BY <1>5, FaceOf
  <2> QED
    BY <1>3, <1>6, <2>1
<1> QED
  BY <1>2, <1>7, <1>8, <1>9, <1>13, <1>14 DEF Steady, OnlyQueue

LEMMA ScheduledSettled ==
  ASSUME NEW d, Settled(d), NEW k \in Events \ {"doSend", "standby", "txFinished"}, Clock(d)[k] = -1,
         NEW delay \in Nat, NEW arg \in Args
  PROVE  LET r == Schedule(d, k, delay, arg) IN
         /\ Settled(r) /\ SetTo(Clock(d), Clock(r), k, delay) /\ r.phy = d.phy /\ r.duty = d.duty
         /\ Clock(r) \in ClockFace
<1> DEFINE r == Schedule(d, k, delay, arg)
<1>1. /\ WellFormed(r) /\ OnlyQueue(d, r) /\ SetTo(Clock(d), Clock(r), k, delay)
      /\ OfKind(r.queue, "doSend") = OfKind(d.queue, "doSend")
  BY ScheduleKind DEF Settled
<1> HIDE DEF r
<1>2. Clock(r)["txFinished"] = Clock(d)["txFinished"] /\ Clock(r)["doSend"] = Clock(d)["doSend"]
  BY <1>1, KindNames DEF SetTo
<1>3. Settled(r) /\ Clock(r) \in ClockFace
  BY <1>1, <1>2, SettledKept, FaceOf
<1> QED
  BY <1>1, <1>3 DEF r, OnlyQueue

LEMMA OpenFirstSteady ==
  ASSUME Regular, Steady(dev), OpenFirstReceiveWindow
  PROVE  Steady(dev')
<1> DEFINE a == [Popped EXCEPT !.phy = "STANDBY"]
<1>1. Due("openFirst") /\ dev' = Schedule(a, "closeFirst", Window, NoPacket)
      /\ "openFirst" \in Events /\ "closeFirst" \in Events \ {"doSend", "standby", "txFinished"}
      /\ Window \in Nat /\ NoPacket \in Args
  BY KindNames, Delays, NoPacketIsArg DEF OpenFirstReceiveWindow, SwitchToStandby
<1>2. /\ Settled(Popped) /\ Popped.duty = dev.duty
      /\ SetTo(Clock(dev), Clock(Popped), "openFirst", -1) /\ Clock(dev)["openFirst"] = 0
      /\ Rules(dev.phy, Clock(dev), dev.duty)
      /\ Clock(dev) \in ClockFace /\ dev.phy \in Radio /\ dev.duty \in Nat
  BY <1>1, PoppedSettled
<1>3. /\ Clock(dev)["closeFirst"] = -1
      /\ \A U \in ClockFace :
           /\ U["openFirst"] = -1 /\ U["closeFirst"] = Window
           /\ \A k \in Events \ {"openFirst", "closeFirst"} : U[k] = Clock(dev)[k]
           => Rules("STANDBY", U, dev.duty)
  BY <1>2, OpenFirstRules
<1>4. Settled(a) /\ Clock(a) = Clock(Popped) /\ a.phy = "STANDBY" /\ a.duty = dev.duty
  BY <1>2, Phys, Switched
<1> HIDE DEF a
<1>5. /\ Settled(dev') /\ SetTo(Clock(a), Clock(dev'), "closeFirst", Window)
      /\ dev'.phy = a.phy /\ dev'.duty = a.duty /\ Clock(dev') \in ClockFace
  <2>1. Clock(a)["closeFirst"] = -1
    BY <1>1, <1>2, <1>3, <1>4 DEF SetTo
  <2> QED
    BY <1>1, <1>4, <2>1, ScheduledSettled
<1>6. Rules("STANDBY", Clock(dev'), dev.duty)
  <2>1. /\ Clock(dev')["openFirst"] = -1 /\ Clock(dev')["closeFirst"] = Window
        /\ \A k \in Events \ {"openFirst", "closeFirst"} : Clock(dev')[k] = Clock(dev)[k]
    BY <1>1, <1>2, <1>4, <1>5 DEF SetTo
  <2> QED
    BY <1>3, <1>5, <2>1
<1> QED
  BY <1>4, <1>5, <1>6 DEF Steady

LEMMA CloseFirstSteady ==
  ASSUME Steady(dev), CloseFirstReceiveWindow
  PROVE  Steady(dev')
<1>1. Due("closeFirst") /\ "closeFirst" \in Events
  BY KindNames DEF CloseFirstReceiveWindow
<1>2. /\ Settled(Popped) /\ Popped.duty = dev.duty /\ Popped.phy = dev.phy
      /\ SetTo(Clock(dev), Clock(Popped), "closeFirst", -1) /\ Clock(dev)["closeFirst"] = 0
      /\ Rules(dev.phy, Clock(dev), dev.duty)
      /\ Clock(dev) \in ClockFace /\ Clock(Popped) \in ClockFace
      /\ dev.phy \in Radio /\ dev.duty \in Nat
  BY <1>1, PoppedSettled
<1>3. dev.phy # "TX" /\ Rules(IF dev.phy = "STANDBY" THEN "SLEEP" ELSE dev.phy, Clock(Popped), dev.duty)
  BY <1>2, CloseFirstRules
<1>4. CASE dev.phy = "STANDBY"
  <2>1. dev' = [Popped EXCEPT !.phy = "SLEEP"]
    BY <1>2, <1>4 DEF CloseFirstReceiveWindow, SwitchToSleep
  <2>2. Settled(dev') /\ Clock(dev') = Clock(Popped) /\ dev'.phy = "SLEEP" /\ dev'.duty = Popped.duty
    BY <1>2, <2>1, Phys, Switched
  <2> QED
    BY <1>2, <1>3, <1>4, <2>2 DEF Steady
<1>5. CASE dev.phy # "STANDBY"
  <2>1. dev' = Popped
    BY <1>3, <1>5 DEF CloseFirstReceiveWindow
  <2> QED
    BY <1>2, <1>3, <1>5, <2>1 DEF Steady
<1> QED
  BY <1>4, <1>5

LEMMA OpenSecondSteady ==
  ASSUME Steady(dev), OpenSecondReceiveWindow
  PROVE  Steady(dev')
<1> DEFINE a == [Popped EXCEPT !.phy = "STANDBY"]
<1>1. Due("openSecond")
      /\ dev' = (IF dev.phy = "RX" THEN Popped ELSE Schedule(a, "closeSecond", Window, NoPacket))
      /\ "openSecond" \in Events /\ "closeSecond" \in Events \ {"doSend", "standby", "txFinished"}
      /\ Window \in Nat /\ NoPacket \in Args
  BY KindNames, Delays, NoPacketIsArg DEF OpenSecondReceiveWindow, SwitchToStandby
<1>2. /\ Settled(Popped) /\ Popped.duty = dev.duty /\ Popped.phy = dev.phy
      /\ SetTo(Clock(dev), Clock(Popped), "openSecond", -1) /\ Clock(dev)["openSecond"] = 0
      /\ Rules(dev.phy, Clock(dev), dev.duty)
      /\ Clock(dev) \in ClockFace /\ Clock(Popped) \in ClockFace
      /\ dev.phy \in Radio /\ dev.duty \in Nat
  BY <1>1, PoppedSettled
<1>3. /\ Clock(dev)["closeSecond"] = -1
      /\ \A U \in ClockFace :
           /\ dev.phy = "RX" /\ SetTo(Clock(dev), U, "openSecond", -1) => Rules(dev.phy, U, dev.duty)
           /\ /\ dev.phy # "RX" /\ U["openSecond"] = -1 /\ U["closeSecond"] = Window
              /\ \A k \in Events \ {"openSecond", "closeSecond"} : U[k] = Clock(dev)[k]
              => Rules("STANDBY", U, dev.duty)
  BY <1>2, OpenSecondRules
<1>4. CASE dev.phy = "RX"
  BY <1>1, <1>2, <1>3, <1>4 DEF Steady
<1>5. CASE dev.phy # "RX"
  <2>1. Settled(a) /\ Clock(a) = Clock(Popped) /\ a.phy = "STANDBY" /\ a.duty = dev.duty
    BY <1>2, Phys, Switched
  <2>2. dev' = Schedule(a, "closeSecond", Window, NoPacket)
    BY <1>1, <1>5
  <2> HIDE DEF a
  <2>3. /\ Settled(dev') /\ SetTo(Clock(a), Clock(dev'), "closeSecond", Window)
        /\ dev'.phy = a.phy /\ dev'.duty = a.duty /\ Clock(dev') \in ClockFace
    <3>1. Clock(a)["closeSecond"] = -1
      BY <1>1, <1>2, <1>3, <2>1 DEF SetTo
    <3> QED
      BY <1>1, <2>1, <2>2, <3>1, ScheduledSettled
  <2>4. Rules("STANDBY", Clock(dev'), dev.duty)
    <3>1. /\ Clock(dev')["openSecond"] = -1 /\ Clock(dev')["closeSecond"] = Window
          /\ \A k \in Events \ {"openSecond", "closeSecond"} : Clock(dev')[k] = Clock(dev)[k]
      BY <1>1, <1>2, <2>1, <2>3 DEF SetTo
    <3> QED
      BY <1>3, <1>5, <2>3, <3>1
  <2> QED
    BY <2>1, <2>3, <2>4 DEF Steady
<1> QED
  BY <1>4, <1>5

LEMMA CloseSecondSteady ==
  ASSUME IInv, Steady(dev), NEW timeout \in AckTimeouts, NEW flag \in CopyFlags,
         CloseSecondReceiveWindow(timeout, flag)
  PROVE  Steady(dev') /\ dev'.onAir = dev.onAir
<1> DEFINE closed == IF dev.phy = "STANDBY" THEN SwitchToSleep(Popped) ELSE Popped
<1>1. Due("closeSecond") /\ "closeSecond" \in Events /\ TRUE \in BOOLEAN
  <2>1. TRUE \in BOOLEAN
    BY Zenon
  <2> QED
    BY <2>1, KindNames DEF CloseSecondReceiveWindow
<1>2. /\ Settled(Popped) /\ Popped.duty = dev.duty /\ Popped.phy = dev.phy
      /\ Popped.waitingAck = dev.waitingAck /\ Popped.onAir = dev.onAir
      /\ SetTo(Clock(dev), Clock(Popped), "closeSecond", -1) /\ Clock(dev)["closeSecond"] = 0
      /\ Rules(dev.phy, Clock(dev), dev.duty)
      /\ Clock(dev) \in ClockFace /\ Clock(Popped) \in ClockFace
      /\ dev.phy \in Radio /\ dev.duty \in Nat
  BY <1>1, PoppedSettled DEF OnlyQueue
<1>3. /\ dev.duty > 0 /\ Clock(dev)["txFinished"] = -1
      /\ Rules(IF dev.phy = "STANDBY" THEN "SLEEP" ELSE dev.phy, Clock(Popped), dev.duty)
  BY <1>2, CloseSecondRules
<1>4. /\ Settled(closed) /\ Clock(closed) = Clock(Popped) /\ closed.duty = dev.duty
      /\ closed.waitingAck = dev.waitingAck /\ closed.onAir = dev.onAir
      /\ closed.phy = (IF dev.phy = "STANDBY" THEN "SLEEP" ELSE dev.phy)
  <2>1. CASE dev.phy = "STANDBY"
    <3>1. closed = [Popped EXCEPT !.phy = "SLEEP"]
      BY <1>2, <2>1 DEF SwitchToSleep
    <3> HIDE DEF closed
    <3> QED
      BY <1>2, <2>1, <3>1, Phys, Switched
  <2>2. CASE dev.phy # "STANDBY"
    BY <1>2, <2>2
  <2> QED
    BY <2>1, <2>2
<1>5. Strong(closed, sent) /\ sent \in 0 .. NumPackets
  BY <1>1, PoppedBooks, QuietBooks DEF IInv
<1>6. dev' = IF dev.phy = "RX" THEN Popped
             ELSE IF dev.waitingAck THEN Retry(closed, timeout, flag) ELSE Closed(closed, TRUE)
  BY DEF CloseSecondReceiveWindow, Closed
<1> HIDE DEF closed
<1>7. WellFormed(closed) /\ Rules(closed.phy, Clock(closed), closed.duty)
  BY <1>3, <1>4 DEF Settled
<1>8. CASE dev.phy = "RX"
  BY <1>2, <1>3, <1>6, <1>8 DEF Steady
<1>9. CASE dev.phy # "RX" /\ dev.waitingAck
  <2>1. Clock(closed)["txFinished"] = -1
    BY <1>2, <1>3, <1>4, KindNames DEF SetTo
  <2>2. Calm(closed, Retry(closed, timeout, flag))
    BY <1>3, <1>4, <1>5, <1>9, <2>1, RetryCalm
  <2> QED
    BY <1>4, <1>6, <1>7, <1>9, <2>2, SteadyAfter
<1>10. CASE dev.phy # "RX" /\ ~ dev.waitingAck
  <2>1. Calm(closed, Closed(closed, TRUE))
    BY <1>1, <1>4, ClosedCalm
  <2> QED
    BY <1>4, <1>6, <1>7, <1>10, <2>1, SteadyAfter
<1> QED
  BY <1>8, <1>9, <1>10

LEMMA DoSendEventSteady ==
  ASSUME Regular, IInv, Steady(dev), NEW flag \in CopyFlags, DoSendEvent(flag)
  PROVE  Steady(dev') /\ NoneTooSoon
<1>1. Due("doSend") /\ "doSend" \in Events /\ dev' = DoSend(Popped, Arg, flag)
  BY KindNames DEF DoSendEvent
<1>2. /\ Settled(Popped) /\ OnlyQueue(dev, Popped)
      /\ SetTo(Clock(dev), Clock(Popped), "doSend", -1) /\ Clock(dev)["doSend"] = 0
      /\ Rules(dev.phy, Clock(dev), dev.duty)
      /\ Clock(dev) \in ClockFace /\ dev.phy \in Radio /\ dev.duty \in Nat
      /\ Prospect(dev, Head(dev.queue))
  BY <1>1, PoppedSettled
<1>3. /\ Strong(Popped, sent) /\ Sendable(Popped, Arg, sent) /\ sent \in 0 .. NumPackets
  BY <1>1, PoppedBooks DEF IInv
<1>4. dev.duty = 0
  BY <1>2 DEF Rules
<1>5. dev.phy = "SLEEP" /\ \A k \in Events \ {"doSend"} : Clock(dev)[k] = -1
  BY <1>2, <1>4, DutyCovers DEF Clear
<1>6. /\ Popped.phy = "SLEEP" /\ Popped.duty = 0 /\ Popped.retxLeft = dev.retxLeft
      /\ \A k \in Events : Clock(Popped)[k] = -1
  BY <1>2, <1>4, <1>5 DEF OnlyQueue, SetTo
<1>7. IF Arg.copy THEN dev.retxLeft >= 1 /\ dev.secondTs <= - Shortest ELSE Arg.flag = AppFlag
  <2>1. dev.secondTs \in Int /\ Shortest \in Nat /\ Head(dev.queue).left = 0
    BY <1>1, <1>2, FaceOf, ShortestIs DEF Steady, Settled, Due, Device
  <2> QED
    BY <1>2, <2>1 DEF Prospect, Arg
<1>8. CASE Arg.copy
  <2>1. Popped.waitingAck /\ Arg = Popped.retxPkt
    BY <1>3, <1>8 DEF Sendable
  <2>2. Steady(DoSend(Popped, Popped.retxPkt, flag))
    BY <1>2, <1>3, <1>6, <1>7, <1>8, <2>1, RetransmissionSteady
  <2> QED
    BY <1>1, <1>7, <1>8, <2>1, <2>2 DEF NoneTooSoon
<1>9. CASE ~ Arg.copy
  <2>1. /\ Steady(DoSend(Popped, Arg, flag)) /\ Popped.onAir[Arg.pkt] = 0
        /\ \A n \in (1 .. NumPackets) \ {Arg.pkt} : DoSend(Popped, Arg, flag).onAir[n] = Popped.onAir[n]
    BY <1>2, <1>3, <1>6, <1>7, <1>9, NewPacketSteady
  <2>2. Popped.onAir = dev.onAir
    BY <1>2 DEF OnlyQueue
  <2>3. NoneTooSoon
    BY <1>1, <2>1, <2>2, NothingRepeated
  <2> QED
    BY <1>1, <2>1, <2>3
<1> QED
  BY <1>8, <1>9

LEMMA FallAsleep ==
  ASSUME NEW d, NEW r, WellFormed(d), d.phy = "STANDBY", Rules("SLEEP", Clock(d), d.duty), Calm(d, r)
  PROVE  Steady(SwitchToSleep(r)) /\ SwitchToSleep(r).onAir = d.onAir
<1>1. SwitchToSleep(r) = [r EXCEPT !.phy = "SLEEP"] /\ Settled(r) /\ r.duty = d.duty /\ r.onAir = d.onAir
  BY DEF Calm, SwitchToSleep
<1>2. /\ Settled(SwitchToSleep(r)) /\ Clock(SwitchToSleep(r)) = Clock(r)
      /\ SwitchToSleep(r).phy = "SLEEP" /\ SwitchToSleep(r).duty = d.duty
      /\ SwitchToSleep(r).onAir = d.onAir
  BY <1>1, Phys, Switched
<1>3. Rules("SLEEP", Clock(r), d.duty)
  <2>1. WellFormed(r) /\ (Clock(r)["doSend"] >= 0 => d.duty <= Clock(r)["doSend"])
        /\ \A k \in Events \ {"doSend"} : Clock(r)[k] = Clock(d)[k]
    BY DEF Calm, Settled
  <2>2. Clock(d) \in ClockFace /\ Clock(r) \in ClockFace /\ d.duty \in Nat
    BY <2>1, FaceOf
  <2>3. Clock(r)["doSend"] = -1 \/ Clock(r)["doSend"] >= d.duty
    BY <2>1, <2>2, ClockValues, KindNames
  <2> QED
    BY <2>1, <2>2, <2>3, Phys, CalmRules
<1> QED
  BY <1>2, <1>3 DEF Steady

LEMMA EndReceiveSteady ==
  ASSUME IInv, Steady(dev), NEW timeout \in AckTimeouts, NEW flag \in CopyFlags,
         NEW destroyed \in BOOLEAN, EndReceive(destroyed, timeout, flag)
  PROVE  Steady(dev') /\ dev'.onAir = dev.onAir
<1> DEFINE standby == SwitchToStandby(Popped)
           asleep == SwitchToSleep(standby)
           forUs == Cancel(standby, "openSecond")
<1>1. Due("endReceive") /\ "endReceive" \in Events /\ "openSecond" \in Events
  BY KindNames DEF EndReceive
<1>2. /\ Settled(Popped) /\ Popped.duty = dev.duty /\ Popped.onAir = dev.onAir
      /\ SetTo(Clock(dev), Clock(Popped), "endReceive", -1) /\ Clock(dev)["endReceive"] = 0
      /\ Rules(dev.phy, Clock(dev), dev.duty)
      /\ Clock(dev) \in ClockFace /\ Clock(Popped) \in ClockFace
      /\ dev.phy \in Radio /\ dev.duty \in Nat
  BY <1>1, PoppedSettled DEF OnlyQueue
<1>3. /\ dev.duty > 0 /\ Clock(dev)["txFinished"] = -1
      /\ \A U \in ClockFace :
           /\ U["endReceive"] = -1 /\ U["openSecond"] \in {Clock(dev)["openSecond"], -1}
           /\ \A k \in Events \ {"endReceive", "openSecond"} : U[k] = Clock(dev)[k]
           => Rules("SLEEP", U, dev.duty)
  BY <1>2, EndReceiveRules
<1>4. standby = [Popped EXCEPT !.phy = "STANDBY"]
  BY DEF SwitchToStandby
<1>5. /\ Settled(standby) /\ Clock(standby) = Clock(Popped) /\ standby.phy = "STANDBY"
      /\ standby.duty = dev.duty /\ standby.onAir = dev.onAir
  BY <1>2, <1>4, Phys, Switched
<1>6. Strong(standby, sent) /\ Strong(asleep, sent) /\ sent \in 0 .. NumPackets
  BY <1>1, PoppedBooks, QuietBooks DEF IInv
<1>7. dev' = IF destroyed THEN FailedReception(standby, timeout, flag)
                          ELSE Receive(standby, Arg, timeout, flag)
  BY DEF EndReceive
<1> HIDE DEF standby
<1>8. /\ WellFormed(standby) /\ Rules("SLEEP", Clock(standby), standby.duty)
      /\ Clock(standby)["txFinished"] = -1
  <2>1. /\ Clock(standby)["endReceive"] = -1 /\ Clock(standby)["openSecond"] = Clock(dev)["openSecond"]
        /\ \A k \in Events \ {"endReceive", "openSecond"} : Clock(standby)[k] = Clock(dev)[k]
        /\ Clock(standby)["txFinished"] = -1
    BY <1>1, <1>2, <1>3, <1>5, KindNames DEF SetTo
  <2> QED
    BY <1>2, <1>3, <1>5, <2>1 DEF Settled
<1>9. CASE destroyed
  <2>1. /\ asleep = [standby EXCEPT !.phy = "SLEEP"]
    BY <1>5 DEF SwitchToSleep
  <2>2. Settled(asleep) /\ Clock(asleep) = Clock(standby) /\ asleep.phy = "SLEEP" /\ asleep.duty = dev.duty
        /\ asleep.onAir = dev.onAir
    BY <1>5, <2>1, Phys, Switched
  <2>3. dev' = asleep \/ (dev' = Retry(asleep, timeout, flag) /\ asleep.waitingAck)
    BY <1>7, <1>9 DEF FailedReception
  <2> HIDE DEF asleep
  <2>4. WellFormed(asleep) /\ Rules(asleep.phy, Clock(asleep), asleep.duty)
        /\ Clock(asleep)["txFinished"] = -1
    BY <1>5, <1>8, <2>2 DEF Settled
  <2>5. asleep.waitingAck => Calm(asleep, Retry(asleep, timeout, flag))
    BY <1>3, <1>6, <2>2, <2>4, RetryCalm
  <2>6. Calm(asleep, asleep)
    BY <2>2 DEF Calm
  <2> QED
    BY <2>2, <2>3, <2>4, <2>5, <2>6, SteadyAfter
<1>10. CASE ~ destroyed
  <2>1. /\ Settled(forUs) /\ forUs.phy = "STANDBY" /\ WellFormed(forUs) /\ forUs.onAir = dev.onAir
        /\ Rules("SLEEP", Clock(forUs), forUs.duty)
    <3>1. /\ WellFormed(forUs) /\ OnlyQueue(standby, forUs)
          /\ SetTo(Clock(standby), Clock(forUs), "openSecond", -1)
          /\ OfKind(forUs.queue, "doSend") = OfKind(standby.queue, "doSend")
      <4>1. "openSecond" # "doSend"
        OBVIOUS
      <4> QED
        BY <1>1, <1>8, <4>1, CancelClock
    <3> HIDE DEF forUs
    <3>2. /\ Clock(forUs)["openSecond"] = -1 /\ Clock(forUs)["endReceive"] = -1
          /\ Clock(forUs)["txFinished"] = -1 /\ Clock(forUs)["doSend"] = Clock(standby)["doSend"]
          /\ \A k \in Events \ {"endReceive", "openSecond"} : Clock(forUs)[k] = Clock(dev)[k]
      BY <1>1, <1>2, <1>3, <1>5, <3>1, KindNames DEF SetTo
    <3>3. Settled(forUs)
      BY <1>5, <3>1, <3>2, SettledKept
    <3>4. Rules("SLEEP", Clock(forUs), dev.duty)
      BY <1>3, <3>1, <3>2, FaceOf
    <3> QED
      BY <1>5, <3>1, <3>3, <3>4 DEF OnlyQueue
  <2> DEFINE notForUs == IF standby.waitingAck /\ ~ IsPending(standby, "openSecond")
                           THEN Retry(standby, timeout, flag) ELSE standby
  <2>2. dev' \in {SwitchToSleep(Closed(forUs, TRUE)), SwitchToSleep(forUs), SwitchToSleep(notForUs)}
    BY <1>7, <1>10 DEF Receive, ParseAck, Closed
  <2> HIDE DEF forUs
  <2>3. Calm(forUs, Closed(forUs, TRUE)) /\ Calm(forUs, forUs)
    <3>1. TRUE \in BOOLEAN
      BY Zenon
    <3> QED
      BY <2>1, <3>1, ClosedCalm DEF Calm
  <2>4. Calm(standby, notForUs)
    <3>1. standby.waitingAck => Calm(standby, Retry(standby, timeout, flag))
      BY <1>3, <1>5, <1>6, <1>8, RetryCalm
    <3>2. Calm(standby, standby)
      BY <1>5 DEF Calm
    <3> QED
      BY <3>1, <3>2
  <2> HIDE DEF notForUs
  <2>5. /\ Steady(SwitchToSleep(Closed(forUs, TRUE))) /\ Steady(SwitchToSleep(forUs))
        /\ Steady(SwitchToSleep(notForUs))
        /\ SwitchToSleep(Closed(forUs, TRUE)).onAir = dev.onAir /\ SwitchToSleep(forUs).onAir = dev.onAir
        /\ SwitchToSleep(notForUs).onAir = dev.onAir
    BY <1>5, <1>8, <2>1, <2>3, <2>4, FallAsleep
  <2> QED
    BY <2>2, <2>5
<1> QED
  BY <1>9, <1>10

LEMMA DelayCovers ==
  ASSUME NEW d \in Device, NEW timeout \in AckTimeouts
  PROVE  LET delay == GetNextTransmissionDelay(d, timeout) IN delay \in Nat /\ d.duty <= delay
<1>1. d.duty \in Nat /\ d.secondTs \in Int /\ timeout \in Nat /\ Window \in Nat
  BY Constants DEF Device
<1> QED
  BY <1>1 DEF GetNextTransmissionDelay

LEMMA AppSendSteady ==
  ASSUME Regular, IInv, Steady(dev), NEW timeout \in AckTimeouts, NEW flag \in CopyFlags,
         AppSend(timeout, flag)
  PROVE  Steady(dev') /\ NoneTooSoon
<1> DEFINE s == sent + 1
           p == AppPacket(s)
           delay == GetNextTransmissionDelay(dev, timeout)
<1>1. /\ s \in 0 .. NumPackets /\ Strong(dev, s) /\ Sendable(dev, p, s)
      /\ ~ p.copy /\ p.flag = AppFlag
      /\ dev' = Send(dev, p, timeout, flag)
  BY AppSendable
<1>2. /\ Settled(dev) /\ WellFormed(dev) /\ Rules(dev.phy, Clock(dev), dev.duty)
      /\ Clock(dev) \in ClockFace /\ dev \in Device /\ dev.phy \in Radio /\ dev.duty \in Nat
  BY FaceOf DEF Steady, Settled
<1>3. delay \in Nat /\ dev.duty <= delay
  BY <1>2, DelayCovers
<1>4. dev' = IF delay # 0 THEN postponeTransmission(dev, delay, p)
             ELSE IF dev.retxLeft > 0 THEN DoSend(dev, p, flag) ELSE dev
  BY <1>1 DEF Send
<1> HIDE DEF s, p, delay
<1>5. CASE delay # 0
  <2>1. p \in Pointers
    BY <1>1 DEF Sendable
  <2>2. Calm(dev, postponeTransmission(dev, delay, p))
    BY <1>1, <1>2, <1>3, <2>1, PostponeCalm
  <2> QED
    BY <1>2, <1>4, <1>5, <2>2, SteadyAfter, SilentStep
<1>6. CASE delay = 0
  <2>1. dev.duty = 0
    BY <1>2, <1>3, <1>6
  <2>2. dev.phy = "SLEEP" /\ \A k \in Events \ {"doSend"} : Clock(dev)[k] = -1
    BY <1>2, <2>1, DutyCovers DEF Clear
  <2>3. /\ Steady(DoSend(dev, p, flag)) /\ dev.onAir[p.pkt] = 0
        /\ \A n \in (1 .. NumPackets) \ {p.pkt} : DoSend(dev, p, flag).onAir[n] = dev.onAir[n]
    BY <1>1, <1>2, <2>1, <2>2, NewPacketSteady
  <2>4. CASE dev.retxLeft > 0
    <3>1. dev' = DoSend(dev, p, flag)
      BY <1>4, <1>6, <2>4
    <3> QED
      BY <2>3, <3>1, NothingRepeated
  <2>5. CASE ~ (dev.retxLeft > 0)
    BY <1>4, <1>6, <2>5, SilentStep
  <2> QED
    BY <2>4, <2>5
<1> QED
  BY <1>5, <1>6

\* In STANDBY, the only pending TxFinished is the next event.
LEMMA FinishedFirst ==
  ASSUME Steady(dev), Running, dev.phy = "STANDBY", ~ Due("txFinished")
  PROVE  Clock(dev)["txFinished"] = -1
<1> SUFFICES ASSUME Clock(dev)["txFinished"] # -1 PROVE FALSE
  OBVIOUS
<1> DEFINE T == Clock(dev)
           h == Head(dev.queue)
<1>1. /\ WellFormed(dev) /\ Rules("STANDBY", T, dev.duty) /\ dev.duty \in Nat /\ dev \in Device
      /\ T \in ClockFace /\ Ordered(dev.queue)
  BY FaceOf DEF Steady, Settled, WellFormed, Frame
<1>2. \A k \in Events :
        /\ T[k] \in Int /\ T[k] >= -1
        /\ T[k] = -1 <=> OfKind(dev.queue, k) = {}
        /\ \A e \in OfKind(dev.queue, k) : e \in Event /\ e.left = T[k]
  BY <1>1, ClockTyped
<1> HIDE DEF T
<1>3. T["txFinished"] = 0 /\ Clear(T, Windows \cup {"endReceive"}) /\ T["endReceiveI"] = -1
      /\ T["standby"] = -1
  <2>1. /\ T["txFinished"] \in Int /\ T["txFinished"] >= -1 /\ T["standby"] \in Int
        /\ T["standby"] >= -1 /\ T["txFinished"] # -1
    BY <1>2, KindNames DEF T
  <2> QED
    BY <1>1, <2>1 DEF Rules
<1>4. T["doSend"] # 0
  <2>1. 0 < dev.duty
    BY <1>1, <1>3, KindNames, Phys, DutyCovers
  <2> QED
    BY <1>1, <2>1 DEF Rules
<1>5. PICK e \in OfKind(dev.queue, "txFinished") : e.left = 0
  <2>1. "txFinished" \in Events
    BY KindNames
  <2> QED
    BY <1>2, <1>3, <2>1
<1>6. dev.queue # <<>>
  BY <1>5 DEF OfKind
<1>7. h \in Event /\ h \in OfKind(dev.queue, h.kind) /\ h.left <= e.left
  <2>1. "txFinished" \in Events
    BY KindNames
  <2> QED
    BY <1>1, <1>5, <1>6, <2>1, PopDevice
<1>8. h.left = 0 /\ h.kind \in Events
  BY <1>5, <1>7 DEF Event
<1>9. T[h.kind] = 0
  BY <1>2, <1>7, <1>8
<1>10. h.kind # "txFinished"
  BY <1>6, <1>8 DEF Due
<1>11. h.kind \notin Windows \cup {"endReceive"} /\ h.kind # "endReceiveI" /\ h.kind # "standby"
       /\ h.kind # "doSend"
  BY <1>3, <1>4, <1>9 DEF Clear
<1> HIDE DEF h
<1> QED
  BY <1>8, <1>10, <1>11 DEF Events, Windows

LEMMA StartReceiveSteady ==
  ASSUME Regular, Steady(dev), NEW content \in Contents, NEW duration \in Durations,
         StartReceive(content, duration)
  PROVE  Steady(dev')
<1> DEFINE a == [dev EXCEPT !.phy = "RX"]
<1>1. /\ dev.phy = "STANDBY" /\ dev' = Schedule(a, "endReceive", duration, content)
      /\ Clock(dev)["txFinished"] = -1
      /\ "endReceive" \in Events \ {"doSend", "standby", "txFinished"}
      /\ duration \in Nat /\ content \in Args
  <2>1. Running /\ ~ Due("txFinished") /\ dev.phy = "STANDBY"
    BY DEF StartReceive, Regular
  <2> QED
    BY <2>1, FinishedFirst, KindNames, Constants, NoPacketIsArg DEF StartReceive
<1>2. /\ Settled(dev) /\ Rules("STANDBY", Clock(dev), dev.duty)
      /\ Clock(dev) \in ClockFace /\ dev.duty \in Nat
  BY <1>1, FaceOf DEF Steady, Settled
<1>3. Settled(a) /\ Clock(a) = Clock(dev) /\ a.phy = "RX" /\ a.duty = dev.duty
  BY <1>2, Phys, Switched
<1> HIDE DEF a
<1>4. Clock(dev)["endReceive"] = -1
  <2>1. Clock(dev)["endReceive"] \in Int /\ Clock(dev)["endReceive"] >= -1
    BY <1>1, <1>2, ClockValues
  <2> QED
    BY <1>2, <2>1 DEF Rules
<1>5. /\ Settled(dev') /\ SetTo(Clock(dev), Clock(dev'), "endReceive", duration)
      /\ dev'.phy = "RX" /\ dev'.duty = dev.duty /\ Clock(dev') \in ClockFace
  BY <1>1, <1>3, <1>4, ScheduledSettled
<1>6. Rules("RX", Clock(dev'), dev.duty)
  BY <1>1, <1>2, <1>5, StartReceiveRules
<1> QED
  BY <1>5, <1>6 DEF Steady

-----------------------------------------------------------------------------
(* Time.                                                                   *)

LEMMA GreatestOfFinite ==
  ASSUME NEW S \in SUBSET Nat, IsFiniteSet(S), S # {}
  PROVE  \E x \in S : \A y \in S : y <= x
<1> DEFINE Topped(T) == \E x \in T : \A y \in T : y <= x
           Bad == {c \in Nat : \E T \in SUBSET Nat :
                     IsFiniteSet(T) /\ T # {} /\ Cardinality(T) = c /\ ~ Topped(T)}
<1> SUFFICES ASSUME ~ Topped(S) PROVE FALSE
  OBVIOUS
<1>1. Cardinality(S) \in Bad
  <2>1. Cardinality(S) \in Nat
    BY FS_CardinalityType
  <2> HIDE DEF Topped
  <2> QED
    BY <2>1
<1>2. PICK c \in Bad : \A b \in Bad : c <= b
  <2>1. Bad \in SUBSET Nat
    BY Zenon
  <2> HIDE DEF Bad
  <2> QED
    BY <1>1, <2>1, LeastOf
<1>3. PICK T \in SUBSET Nat : IsFiniteSet(T) /\ T # {} /\ Cardinality(T) = c /\ ~ Topped(T)
  BY Zenon
<1>4. PICK x \in T : TRUE
  BY <1>3
<1> DEFINE R == T \ {x}
<1>5. IsFiniteSet(R) /\ Cardinality(R) = c - 1 /\ R \in SUBSET Nat /\ c \in Nat
  BY <1>3, <1>4, FS_RemoveElement, FS_CardinalityType
<1>6. R = {}
  <2> SUFFICES ASSUME R # {} PROVE FALSE
    OBVIOUS
  <2>1. Cardinality(R) \in Nat /\ ~ (c <= c - 1)
    BY <1>5, FS_CardinalityType
  <2>2. Cardinality(R) \notin Bad
    <3> HIDE DEF Bad
    <3> QED
      BY <1>2, <1>5, <2>1
  <2>3. Topped(R)
    <3> HIDE DEF Topped, R
    <3> QED
      BY <1>5, <2>1, <2>2
  <2>4. PICK m \in R : \A y \in R : y <= m
    BY <2>3
  <2>5. m \in T /\ x \in T /\ m \in Nat /\ x \in Nat /\ T \subseteq R \cup {x}
    BY <1>3, <1>4
  <2>6. CASE m <= x
    <3>1. \A y \in T : y <= x
      BY <1>3, <2>4, <2>5, <2>6
    <3> QED
      BY <1>3, <2>5, <3>1
  <2>7. CASE x <= m
    <3>1. \A y \in T : y <= m
      BY <1>3, <2>4, <2>5, <2>7
    <3> QED
      BY <1>3, <2>5, <3>1
  <2> QED
    BY <2>5, <2>6, <2>7
<1>7. T = {x} /\ x \in Nat
  BY <1>3, <1>4, <1>6
<1> QED
  BY <1>3, <1>7

\* An opening time that no longer ages is older than the shortest timeout.
LEMMA TooOld ==
  /\ Longest(AckTimeouts \cup {Window}) \in Nat
  /\ Shortest <= Longest(AckTimeouts \cup {Window})
<1> DEFINE S == AckTimeouts \cup {Window}
<1>1. S \in SUBSET Nat /\ IsFiniteSet(S) /\ S # {}
  BY EndDeviceAssumption, FS_AddElement
<1>2. Shortest \in S
  BY ShortestIs
<1> HIDE DEF S
<1>3. \E x \in S : \A y \in S : y <= x
  BY <1>1, GreatestOfFinite
<1>4. Longest(S) \in S /\ \A y \in S : y <= Longest(S)
  BY <1>3 DEF Longest
<1>5. Longest(S) \in Nat /\ Shortest <= Longest(S)
  BY <1>1, <1>2, <1>4
<1> QED
  BY <1>5 DEF S

LEMMA ElapseSteady ==
  ASSUME Steady(dev), Elapse
  PROVE  Steady(dev') /\ dev'.onAir = dev.onAir
<1> DEFINE T == Clock(dev)
           U == Clock(dev')
<1>1. Settled(dev) /\ WellFormed(dev) /\ Rules(dev.phy, T, dev.duty)
  BY DEF Steady, Settled
<1>2. /\ WellFormed(dev')
      /\ \A k \in Events : U[k] = Aged(T[k]) /\ T[k] # 0
      /\ OfKind(dev'.queue, "doSend") = {[e EXCEPT !.left = @ - 1] : e \in OfKind(dev.queue, "doSend")}
      /\ dev'.phy = dev.phy /\ dev'.fault = dev.fault /\ dev'.onAir = dev.onAir
      /\ dev'.waitingAck = dev.waitingAck /\ dev'.retxLeft = dev.retxLeft /\ dev'.retxPkt = dev.retxPkt
      /\ dev'.duty = (IF dev.duty > 0 THEN dev.duty - 1 ELSE 0)
      /\ dev'.secondTs = (IF dev.secondTs > - Longest(AckTimeouts \cup {Window})
                            THEN dev.secondTs - 1 ELSE dev.secondTs)
  BY <1>1, ElapseClock
<1>3. T \in ClockFace /\ U \in ClockFace /\ dev \in Device /\ dev.phy \in Radio /\ dev.duty \in Nat
  BY <1>1, <1>2, FaceOf
<1>4. \A e \in OfKind(dev.queue, "doSend") : e \in Event /\ e.left = T["doSend"]
  BY <1>1, KindNames, ClockTyped
<1> HIDE DEF T, U
<1>5. Rules(dev'.phy, U, dev'.duty)
  BY <1>1, <1>2, <1>3, ElapseRules
<1>6. U["doSend"] >= 0 => dev'.duty <= U["doSend"]
  BY <1>5 DEF Rules
<1>7. ASSUME NEW f \in OfKind(dev'.queue, "doSend") PROVE Prospect(dev', f)
  <2>1. PICK e \in OfKind(dev.queue, "doSend") : f = [e EXCEPT !.left = @ - 1]
    BY <1>2
  <2>2. e \in Event /\ e.left = T["doSend"] /\ Prospect(dev, e)
    BY <1>1, <1>4 DEF Settled
  <2>3. f.arg = e.arg /\ f.left = e.left - 1 /\ e.left \in Nat
    BY <2>1, <2>2 DEF Event
  <2>4. e.left > 0
    BY <1>2, <2>2, <2>3, KindNames
  <2>5. T["txFinished"] = -1 => U["txFinished"] = -1
    BY <1>2, KindNames DEF Aged
  <2>6. dev.secondTs + Shortest <= e.left => dev'.secondTs + Shortest <= f.left
    <3>1. dev.secondTs \in Int /\ Shortest \in Nat
      BY <1>3, ShortestIs DEF Device
    <3> QED
      BY <1>2, <2>3, <2>4, <3>1, TooOld
  <2> QED
    BY <1>2, <2>2, <2>3, <2>5, <2>6 DEF Prospect, T, U
<1>8. Tried(dev') /\ dev'.fault = "none"
  BY <1>1, <1>2 DEF Settled, Tried
<1>9. Settled(dev')
  BY <1>2, <1>6, <1>7, <1>8 DEF Settled, U
<1> QED
  BY <1>2, <1>5, <1>9 DEF Steady, U

LEMMA InitSteady ==
  ASSUME Init
  PROVE  Steady(dev)
<1>1. /\ dev.queue = <<>> /\ ~ dev.waitingAck /\ dev.phy = "SLEEP" /\ dev.duty = 0 /\ dev.fault = "none"
      /\ dev.onAir = [n \in 1 .. NumPackets |-> 0]
  BY DEF Init
<1>2. Frame(dev)
  BY InitInv DEF IInv, Ledger, Books
<1>3. \A k : OfKind(dev.queue, k) = {}
  BY <1>1 DEF OfKind
<1>4. WellFormed(dev)
  BY <1>1, <1>2 DEF WellFormed, Single, Before
<1>5. \A k \in Events : Clock(dev)[k] = -1
  BY <1>3 DEF Clock, When
<1>6. Tried(dev)
  <2>1. \A n \in 1 .. NumPackets : dev.onAir[n] = 0 /\ 0 <= MaxNumbTx
    BY <1>1, Constants
  <2> QED
    BY <1>1, <2>1 DEF Tried
<1>7. Settled(dev)
  BY <1>1, <1>3, <1>4, <1>5, <1>6, KindNames DEF Settled
<1>8. Rules("SLEEP", Clock(dev), 0)
  <2>1. \A k \in {"standby", "txFinished", "openFirst", "closeFirst", "openSecond", "closeSecond",
                  "doSend", "endReceive", "endReceiveI"} : Clock(dev)[k] = -1
    BY <1>5 DEF Events
  <2> QED
    BY <2>1 DEF Rules
<1> QED
  BY <1>1, <1>7, <1>8 DEF Steady

\* No interferer's packet is ever heard.
LEMMA NoInterferer ==
  ASSUME Regular, IInv, Steady(dev)
  PROVE  /\ ~ \E t \in AckTimeouts, f \in CopyFlags : EndReceiveI(t, f)
         /\ ~ \E r \in Durations : StartReceiveI(r)
<1>1. ~ Due("endReceiveI")
  <2>1. "endReceiveI" \in Events
    BY KindNames
  <2>2. Clock(dev)["endReceiveI"] = -1
    BY DEF Steady, Rules
  <2> QED
    BY <2>1, <2>2, PoppedSettled
<1>2. ~ (noise < NumNoise)
  BY Constants DEF IInv, Regular
<1> QED
  BY <1>1, <1>2 DEF EndReceiveI, StartReceiveI

\* These events transmit nothing.
LEMMA SilentEvents ==
  ASSUME Steady(dev),
         \/ StandbyEvent \/ TxFinished \/ OpenFirstReceiveWindow \/ CloseFirstReceiveWindow
         \/ OpenSecondReceiveWindow
         \/ \E c \in Contents, r \in Durations : StartReceive(c, r)
  PROVE  dev'.onAir = dev.onAir
<1>1. Frame(dev)
  BY DEF Steady, Settled, WellFormed
<1>2. \A d : Frame(d) =>
        /\ Frame(SwitchToStandby(d)) /\ SwitchToStandby(d).onAir = d.onAir
        /\ Frame(SwitchToSleep(d)) /\ SwitchToSleep(d).onAir = d.onAir
        /\ Abort(d, "closeInTx").onAir = d.onAir
        /\ Frame([d EXCEPT !.secondTs = Delay2]) /\ [d EXCEPT !.secondTs = Delay2].onAir = d.onAir
        /\ Frame([d EXCEPT !.phy = "RX"]) /\ [d EXCEPT !.phy = "RX"].onAir = d.onAir
  <2>1. "closeInTx" \in Faults \ {"none"} /\ Delay2 \in Int
    BY Delays DEF Faults
  <2> QED
    BY <2>1, PhyKeeps DEF KeepsBooks
<1>3. ASSUME NEW d, Frame(d), NEW k \in Events \ {"doSend"}, NEW delay \in Nat, NEW arg \in Args
      PROVE  Frame(Schedule(d, k, delay, arg)) /\ Schedule(d, k, delay, arg).onAir = d.onAir
  BY <1>3, ScheduleKeeps DEF KeepsBooks
<1>4. ASSUME dev.queue # <<>> PROVE Frame(Popped) /\ Popped.onAir = dev.onAir
  BY <1>1, <1>4, PopKeeps DEF KeepsBooks, Popped
<1>5. /\ {"openFirst", "closeFirst", "openSecond", "closeSecond", "endReceive"} \subseteq Events \ {"doSend"}
      /\ NoPacket \in Args /\ Contents \subseteq Args /\ Durations \subseteq Nat
  BY KindNames, NoPacketIsArg, Constants
<1>6. CASE StandbyEvent
  BY <1>2, <1>4, <1>6 DEF StandbyEvent, Due
<1>7. CASE TxFinished
  <2> DEFINE rx1 == Schedule(Popped, "openFirst", Delay1, NoPacket)
             rx2 == Schedule(rx1, "openSecond", Delay2, NoPacket)
  <2>1. dev' = SwitchToSleep([rx2 EXCEPT !.secondTs = Delay2]) /\ Frame(Popped)
        /\ Popped.onAir = dev.onAir
    BY <1>4, <1>7 DEF TxFinished, Due
  <2>2. /\ {"openFirst", "openSecond"} \subseteq Events \ {"doSend"}
        /\ {Delay1, Delay2} \subseteq Nat /\ NoPacket \in Args
    BY <1>5, Delays
  <2>3. Frame(rx1) /\ rx1.onAir = Popped.onAir
    BY <1>3, <2>1, <2>2
  <2> HIDE DEF rx1
  <2>4. Frame(rx2) /\ rx2.onAir = rx1.onAir
    BY <1>3, <2>2, <2>3
  <2> HIDE DEF rx2
  <2> QED
    BY <1>2, <2>1, <2>3, <2>4
<1>8. CASE OpenFirstReceiveWindow
  <2>1. Frame(SwitchToStandby(Popped)) /\ SwitchToStandby(Popped).onAir = dev.onAir
    BY <1>2, <1>4, <1>8 DEF OpenFirstReceiveWindow, Due
  <2>2. Schedule(SwitchToStandby(Popped), "closeFirst", Window, NoPacket).onAir = dev.onAir
    BY <1>3, <1>5, <2>1, Delays
  <2> QED
    BY <1>8, <2>2 DEF OpenFirstReceiveWindow
<1>9. CASE CloseFirstReceiveWindow
  <2>1. Frame(Popped) /\ Popped.onAir = dev.onAir
    BY <1>4, <1>9 DEF CloseFirstReceiveWindow, Due
  <2>2. dev' \in {Abort(Popped, "closeInTx"), SwitchToSleep(Popped), Popped}
    BY <1>9 DEF CloseFirstReceiveWindow
  <2> QED
    BY <1>2, <2>1, <2>2
<1>10. CASE OpenSecondReceiveWindow
  <2>1. /\ Frame(SwitchToStandby(Popped)) /\ SwitchToStandby(Popped).onAir = dev.onAir
        /\ Popped.onAir = dev.onAir
    BY <1>2, <1>4, <1>10 DEF OpenSecondReceiveWindow, Due
  <2>2. Schedule(SwitchToStandby(Popped), "closeSecond", Window, NoPacket).onAir = dev.onAir
    BY <1>3, <1>5, <2>1, Delays
  <2> QED
    BY <1>10, <2>1, <2>2 DEF OpenSecondReceiveWindow
<1>11. CASE \E c \in Contents, r \in Durations : StartReceive(c, r)
  <2> DEFINE a == [dev EXCEPT !.phy = "RX"]
  <2>1. Frame(a) /\ a.onAir = dev.onAir
    BY <1>1, <1>2
  <2>2. PICK c \in Contents, r \in Durations : dev' = Schedule(a, "endReceive", r, c)
    BY <1>11 DEF StartReceive
  <2> HIDE DEF a
  <2>3. c \in Args /\ r \in Nat
    BY <1>5
  <2>4. Schedule(a, "endReceive", r, c).onAir = a.onAir
    BY <1>3, <1>5, <2>1, <2>3
  <2> QED
    BY <2>1, <2>2, <2>4
<1> QED
  BY <1>6, <1>7, <1>8, <1>9, <1>10, <1>11

LEMMA NextSteady ==
  ASSUME Regular, IInv, Steady(dev), Next
  PROVE  Steady(dev') /\ NoneTooSoon
<1>1. CASE RunEvent
  <2>1. CASE \/ StandbyEvent \/ TxFinished \/ OpenFirstReceiveWindow \/ CloseFirstReceiveWindow
             \/ OpenSecondReceiveWindow
    <3>1. Steady(dev')
      BY <2>1, StandbySteady, TxFinishedSteady, OpenFirstSteady, CloseFirstSteady, OpenSecondSteady
    <3>2. dev'.onAir = dev.onAir
      BY <2>1, SilentEvents
    <3> QED
      BY <3>1, <3>2, SilentStep
  <2>2. CASE \E t \in AckTimeouts, f \in CopyFlags : CloseSecondReceiveWindow(t, f)
    BY <2>2, CloseSecondSteady, SilentStep
  <2>3. CASE \E f \in CopyFlags : DoSendEvent(f)
    BY <2>3, DoSendEventSteady
  <2>4. CASE \E b \in BOOLEAN, t \in AckTimeouts, f \in CopyFlags : EndReceive(b, t, f)
    BY <2>4, EndReceiveSteady, SilentStep
  <2> QED
    BY <1>1, <2>1, <2>2, <2>3, <2>4, NoInterferer DEF RunEvent
<1>2. CASE \E t \in AckTimeouts, f \in CopyFlags : AppSend(t, f)
  BY <1>2, AppSendSteady
<1>3. CASE \E c \in Contents, r \in Durations : StartReceive(c, r)
  <2>1. PICK c \in Contents, r \in Durations : StartReceive(c, r)
    BY <1>3
  <2>2. Steady(dev')
    BY <2>1, StartReceiveSteady
  <2>3. dev'.onAir = dev.onAir
    BY <1>3, SilentEvents
  <2> QED
    BY <2>2, <2>3, SilentStep
<1>4. CASE \E r \in Durations : StartReceiveI(r)
  BY <1>4, NoInterferer
<1>5. CASE Elapse
  BY <1>5, ElapseSteady, SilentStep
<1> QED
  BY <1>1, <1>2, <1>3, <1>4, <1>5 DEF Next

Inv == IInv /\ Steady(dev)

LEMMA AlwaysSteady ==
  ASSUME Regular
  PROVE  Spec => []Inv
<1>1. Init => Inv
  BY InitInv, InitSteady DEF Inv
<1>2. Inv /\ [Next]_vars => Inv'
  <2> SUFFICES ASSUME Inv, [Next]_vars PROVE Inv'
    OBVIOUS
  <2>1. CASE Next
    BY <2>1, NextBooks, NextCounters, NextSteady DEF Inv, IInv
  <2>2. CASE UNCHANGED vars
    <3>1. dev' = dev /\ sent' = sent /\ noise' = noise
      BY <2>2 DEF vars
    <3> QED
      BY <3>1 DEF Inv, IInv
  <2> QED
    BY <2>1, <2>2
<1> QED
  BY <1>1, <1>2, PTL DEF Spec

-----------------------------------------------------------------------------
(* The theorems.                                                           *)

\* The simulation never ends in an assertion or an abort: the radio is in
\* STANDBY whenever it is put to sleep, never receives when it transmits, no
\* window closes during a transmission, and a sub-band is always available to
\* the transmission that begins.
THEOREM NeverAborts ==
  ASSUME Regular
  PROVE  Spec => []NoAbort
<1>1. Inv => NoAbort
  BY DEF Inv, Steady, Settled, NoAbort
<1> QED
  BY <1>1, AlwaysSteady, PTL

\* What the clock says of the queue.
LEMMA InQueue ==
  ASSUME Steady(dev)
  PROVE  /\ \A k \in Events : \A kinds : Clock(dev)[k] >= 0 /\ k \in kinds => Queued(kinds) # {}
         /\ \A k \in Events : Clock(dev)[k] = -1 => Queued({k}) = {}
<1>1. \A k \in Events : /\ Clock(dev)[k] \in Int
                        /\ Clock(dev)[k] = -1 <=> OfKind(dev.queue, k) = {}
  BY ClockTyped DEF Steady, Settled
<1>2. ASSUME NEW k \in Events, NEW kinds, Clock(dev)[k] >= 0, k \in kinds PROVE Queued(kinds) # {}
  <2>1. PICK e \in OfKind(dev.queue, k) : TRUE
    BY <1>1, <1>2
  <2>2. PICK i \in DOMAIN dev.queue : dev.queue[i] = e /\ e.kind = k
    BY <2>1 DEF OfKind
  <2> QED
    BY <1>2, <2>2 DEF Queued
<1>3. ASSUME NEW k \in Events, Clock(dev)[k] = -1 PROVE Queued({k}) = {}
  BY <1>1, <1>3 DEF Queued, OfKind
<1> QED
  BY <1>2, <1>3

\* Whatever state the radio is in but SLEEP, the event that ends it is in the
\* queue: TX has its switch to STANDBY, RX the end of the packet, STANDBY the
\* end of the transmission or of a receive window.
THEOREM RadioSleeps ==
  ASSUME Regular
  PROVE  Spec => []RadioWillSleep
<1>1. Inv => RadioWillSleep
  <2> SUFFICES ASSUME Inv PROVE RadioWillSleep
    OBVIOUS
  <2>1. Steady(dev) /\ Rules(dev.phy, Clock(dev), dev.duty)
    BY DEF Inv, Steady
  <2>2. /\ dev.phy = "TX" => Clock(dev)["standby"] >= 0
        /\ dev.phy = "RX" => Clock(dev)["endReceive"] >= 0
        /\ dev.phy = "STANDBY" =>
             \/ Clock(dev)["txFinished"] >= 0 \/ Clock(dev)["closeFirst"] >= 0
             \/ Clock(dev)["closeSecond"] >= 0
    BY <2>1 DEF Rules
  <2> QED
    BY <2>1, <2>2, InQueue, KindNames DEF RadioWillSleep
<1> QED
  BY <1>1, AlwaysSteady, PTL

\* While an uplink is on the air no receive window is open or to be opened:
\* the previous procedure's windows are over.
THEOREM WindowsAreUndisturbed ==
  ASSUME Regular
  PROVE  Spec => []WindowsUndisturbed
<1>1. Inv => WindowsUndisturbed
  <2> SUFFICES ASSUME Inv, dev.phy = "TX", NEW i \in DOMAIN dev.queue, dev.queue[i].kind \in Windows
               PROVE  FALSE
    BY DEF WindowsUndisturbed, Queued
  <2>1. Steady(dev) /\ Rules("TX", Clock(dev), dev.duty)
    BY DEF Inv, Steady
  <2>2. Clear(Clock(dev), Windows \cup {"endReceive"})
    <3>1. Clock(dev)["standby"] >= 0 /\ Clock(dev)["txFinished"] = Clock(dev)["standby"]
      BY <2>1 DEF Rules
    <3> QED
      BY <2>1, <3>1 DEF Rules
  <2>3. dev.queue[i].kind \in Events /\ Clock(dev)[dev.queue[i].kind] = -1
    BY <2>2, KindNames DEF Clear, Windows
  <2>4. Queued({dev.queue[i].kind}) = {}
    BY <2>1, <2>3, InQueue
  <2> QED
    BY <2>4 DEF Queued
<1> QED
  BY <1>1, AlwaysSteady, PTL

\* At most one event of each kind is in the queue: no two transmissions
\* overlap, nor the windows of two of them, nor two receptions.
THEOREM OneProcedureAtATime ==
  ASSUME Regular
  PROVE  Spec => []OneProcedure
<1>1. Inv => OneProcedure
  <2> SUFFICES ASSUME Inv, NEW k \in Events PROVE Cardinality(Queued({k})) <= 1
    BY DEF OneProcedure
  <2>1. Single(dev.queue, k)
    BY DEF Inv, Steady, Settled, WellFormed
  <2>2. CASE Queued({k}) = {}
    BY <2>2, FS_EmptySet
  <2>3. CASE Queued({k}) # {}
    <3>1. PICK i \in Queued({k}) : TRUE
      BY <2>3
    <3>2. \A j \in Queued({k}) : j = i
      BY <2>1, <3>1 DEF Single, Queued
    <3>3. Queued({k}) = {i}
      BY <3>1, <3>2
    <3>4. Cardinality({i}) = 1
      BY FS_Singleton
    <3>5. Cardinality(Queued({k})) = 1
      BY <3>3, <3>4
    <3> QED
      BY <3>5
  <2> QED
    BY <2>2, <2>3
<1> QED
  BY <1>1, AlwaysSteady, PTL

\* No packet is on the air more than m_maxNumbTx times.
THEOREM AttemptsAreBounded ==
  ASSUME Regular
  PROVE  Spec => []AttemptsBounded
<1>1. Inv => AttemptsBounded
  BY DEF Inv, Steady, Settled, Tried, AttemptsBounded
<1> QED
  BY <1>1, AlwaysSteady, PTL

\* A packet is transmitted again only when the shortest ACK_TIMEOUT has passed
\* since the second window of its previous attempt was to open.
THEOREM TimeoutIsRespected ==
  ASSUME Regular
  PROVE  Spec => AckTimeoutRespected
<1>1. Inv /\ [Next]_vars =>
        [\A n \in 1 .. NumPackets : dev.onAir[n] > 0 /\ dev'.onAir[n] > dev.onAir[n]
           => dev.secondTs <= - (CHOOSE t \in AckTimeouts : \A u \in AckTimeouts : t <= u)]_vars
  <2> SUFFICES ASSUME Inv, Next PROVE NoneTooSoon
    BY DEF NoneTooSoon, Shortest
  <2> QED
    BY NextSteady DEF Inv
<1> QED
  BY <1>1, AlwaysSteady, PTL DEF Spec, AckTimeoutRespected
=============================================================================
