---------------------------- MODULE Gateway_proofs ----------------------------
(***************************************************************************)
(* Safety of the gateway for any number of demodulators, signals,          *)
(* downlinks and sub-bands: the invariants TLC checks on MCGateway, and    *)
(* that a reception has one outcome.                                       *)
(***************************************************************************)
EXTENDS Gateway, FiniteSetTheorems, TLAPS

Interrupted == {s \in Signals : fate[s] = "interrupted"}

\* The scheduled EndReceive events are exactly the receptions in progress,
\* and a limited sub-band that is on the air is still waiting.
EventsMatchFates == \A s \in Signals : s \in endReceive <=> fate[s] = "receiving"

OnAirWaits == \A d \in OnAir : BandOf[d] \notin UnlimitedBands => BandOf[d] \in waiting

\* Send frees the locked paths but does not decrement the counter: it runs
\* ahead of them, by one for each reception interrupted, never behind.
Counted == occupied = Cardinality(Locked) + Cardinality(Interrupted)

\* The inductive invariant but for the cardinalities of Counted.
IInv ==
  /\ Shape
  /\ PathsMatchEvents
  /\ EventsMatchFates
  /\ HalfDuplex
  /\ FlagNeverStuck
  /\ OneTransmissionPerBand
  /\ OnAirWaits

-----------------------------------------------------------------------------
\* Initially no path is locked and nothing is on the air.
LEMMA InitIInv == Init => IInv
<1> USE GatewayAssumption
<1> SUFFICES ASSUME Init PROVE IInv
  OBVIOUS
<1>1. Shape
  <2>1. path \in [Paths -> Signals \cup {NoEvent}]
    BY DEF Init
  <2>2. fate \in [Signals -> Outcomes \cup {"none", "receiving"}]
    BY DEF Init
  <2>3. stage \in [Downlinks -> {"idle", "link", "onAir", "sent", "aborted", "silent"}]
    BY DEF Init
  <2>4. /\ occupied \in Int /\ endReceive \subseteq Signals /\ waiting \subseteq Bands
        /\ list \in {"Add", "AddI"}
    BY DEF Init
  <2>5. isTransmitting \in BOOLEAN
    BY Zenon DEF Init
  <2> QED
    BY <2>1, <2>2, <2>3, <2>4, <2>5 DEF Shape
<1>2. Locked = {} /\ OnAir = {}
  BY DEF Init, Locked, OnAir, Paths
<1>3. PathsMatchEvents /\ EventsMatchFates
  BY <1>2 DEF Init, PathsMatchEvents, EventsMatchFates
<1>4. HalfDuplex /\ FlagNeverStuck /\ OneTransmissionPerBand /\ OnAirWaits
  BY <1>2 DEF Init, HalfDuplex, FlagNeverStuck, OneTransmissionPerBand, OnAirWaits
<1> QED
  BY <1>1, <1>3, <1>4 DEF IInv

\* A drop only sets the fate of a signal that had none.
LEMMA DropStep ==
  ASSUME IInv, NEW s \in Signals, fate[s] = "none",
         NEW why \in Outcomes, Drop(s, why), UNCHANGED txVars
  PROVE  IInv'
<1> USE GatewayAssumption
<1>1. Shape'
  BY DEF IInv, Shape, Drop, txVars, Outcomes
<1>2. Locked' = Locked /\ OnAir' = OnAir
  BY DEF Drop, txVars, Locked, OnAir
<1>3. PathsMatchEvents'
  BY <1>2 DEF IInv, PathsMatchEvents, Drop
<1>4. EventsMatchFates'
  BY DEF IInv, Shape, EventsMatchFates, Drop, Outcomes
<1>5. HalfDuplex' /\ FlagNeverStuck' /\ OneTransmissionPerBand' /\ OnAirWaits'
  BY <1>2 DEF IInv, HalfDuplex, FlagNeverStuck, OneTransmissionPerBand, OnAirWaits, txVars
<1> QED
  BY <1>1, <1>3, <1>4, <1>5 DEF IInv

\* Locking takes a path that was available, for a signal no path receives.
LEMMA LockStep ==
  ASSUME IInv, NEW s \in Signals, fate[s] = "none", s \notin Interferers,
         NEW p \in Paths \ Locked, ~isTransmitting,
         LockOnEvent(p, s), UNCHANGED txVars
  PROVE  IInv' /\ Locked' = Locked \cup {p}
<1> USE GatewayAssumption
<1>1. Shape'
  BY DEF IInv, Shape, LockOnEvent, txVars, Paths
<1>2. path' = [path EXCEPT ![p] = s] /\ path \in [Paths -> Signals \cup {NoEvent}]
  BY DEF IInv, Shape, LockOnEvent
<1>3. Locked' = Locked \cup {p} /\ OnAir' = OnAir
  BY <1>2 DEF txVars, Locked, OnAir
<1>4. s \notin endReceive
  BY DEF IInv, EventsMatchFates
<1>5. PathsMatchEvents'
  <2>1. \A q \in Locked : path[q] \in endReceive /\ path[q] # s /\ path'[q] = path[q]
    BY <1>2, <1>4 DEF IInv, PathsMatchEvents, Locked
  <2>2. path'[p] = s /\ endReceive' = endReceive \cup {s}
    BY <1>2 DEF LockOnEvent
  <2>3. \A q \in Locked' : path'[q] \in endReceive'
    BY <1>3, <2>1, <2>2
  <2>4. \A q, r \in Locked' : path'[q] = path'[r] => q = r
    BY <1>3, <2>1, <2>2 DEF IInv, PathsMatchEvents
  <2>5. \A t \in endReceive' \ Interferers : \E q \in Locked' : path'[q] = t
    BY <1>3, <2>1, <2>2 DEF IInv, PathsMatchEvents
  <2> QED
    BY <2>3, <2>4, <2>5 DEF PathsMatchEvents
<1>6. EventsMatchFates'
  BY DEF IInv, Shape, EventsMatchFates, LockOnEvent
<1>7. HalfDuplex' /\ FlagNeverStuck' /\ OneTransmissionPerBand' /\ OnAirWaits'
  BY <1>3 DEF IInv, HalfDuplex, FlagNeverStuck, OneTransmissionPerBand, OnAirWaits, txVars
<1> QED
  BY <1>1, <1>3, <1>5, <1>6, <1>7 DEF IInv

\* The end of a reception frees the only path locked on it, if there is one.
LEMMA EndReceiveStep ==
  ASSUME IInv, NEW s \in Signals, NEW destroyed \in BOOLEAN, EndReceive(s, destroyed)
  PROVE  IInv' /\ Locked' = Locked \ {p \in Paths : path[p] = s}
<1> USE GatewayAssumption
<1>1. Shape'
  BY DEF IInv, Shape, EndReceive, txVars, Paths, Outcomes
<1>2. /\ path' = [p \in Paths |-> IF path[p] = s THEN NoEvent ELSE path[p]]
      /\ endReceive' = endReceive \ {s}
  BY DEF EndReceive
<1>3. Locked' = Locked \ {p \in Paths : path[p] = s} /\ OnAir' = OnAir
  BY <1>2 DEF EndReceive, txVars, Locked, OnAir
<1>4. PathsMatchEvents'
  <2>1. \A q \in Locked' : q \in Locked /\ path'[q] = path[q] /\ path[q] # s
    BY <1>2, <1>3 DEF Locked
  <2>2. \A t \in endReceive' \ Interferers : \E q \in Locked' : path'[q] = t
    BY <1>2, <1>3 DEF IInv, PathsMatchEvents, Locked
  <2> QED
    BY <1>2, <2>1, <2>2 DEF IInv, PathsMatchEvents
<1>5. EventsMatchFates'
  BY <1>2 DEF IInv, Shape, EventsMatchFates, EndReceive
<1>6. HalfDuplex' /\ FlagNeverStuck' /\ OneTransmissionPerBand' /\ OnAirWaits'
  BY <1>3 DEF IInv, HalfDuplex, FlagNeverStuck, OneTransmissionPerBand, OnAirWaits,
              EndReceive, txVars
<1> QED
  BY <1>1, <1>3, <1>4, <1>5, <1>6 DEF IInv

\* A transmission frees every path and cancels what the paths were receiving.
LEMMA PhySendStep ==
  ASSUME IInv, NEW d \in Downlinks, stage[d] = "link", BandOf[d] \notin waiting,
         AddEvent(BandOf[d]), PhySend(d)
  PROVE  IInv' /\ Locked' = {}
<1> USE GatewayAssumption
<1> DEFINE gone == {path[p] : p \in Locked}
<1>1. /\ path' = [p \in Paths |-> NoEvent]
      /\ endReceive' = endReceive \ gone
      /\ fate' = [s \in Signals |-> IF s \in gone THEN "interrupted" ELSE fate[s]]
      /\ isTransmitting' = TRUE
      /\ stage' = [stage EXCEPT ![d] = "onAir"]
      /\ waiting' = waiting \cup ({BandOf[d]} \ UnlimitedBands)
  BY DEF PhySend, AddEvent
<1>2. Shape'
  <2>1. path' \in [Paths -> Signals \cup {NoEvent}]
    BY <1>1
  <2>2. fate' \in [Signals -> Outcomes \cup {"none", "receiving"}]
    BY <1>1 DEF IInv, Shape, Outcomes
  <2>3. stage' \in [Downlinks -> {"idle", "link", "onAir", "sent", "aborted", "silent"}]
    BY <1>1 DEF IInv, Shape
  <2>4. waiting' \subseteq Bands
    BY <1>1 DEF IInv, Shape
  <2> QED
    BY <1>1, <2>1, <2>2, <2>3, <2>4 DEF IInv, Shape, PhySend
<1>3. Locked' = {}
  BY <1>1 DEF Locked
<1>4. OnAir' = OnAir \cup {d}
  BY <1>1 DEF IInv, Shape, OnAir
<1>5. PathsMatchEvents'
  BY <1>1, <1>3 DEF IInv, PathsMatchEvents
<1>6. EventsMatchFates'
  <2>1. gone \subseteq endReceive
    BY DEF IInv, PathsMatchEvents
  <2> QED
    BY <1>1, <2>1 DEF IInv, Shape, EventsMatchFates
<1>7. HalfDuplex' /\ FlagNeverStuck'
  BY <1>1, <1>3, <1>4 DEF HalfDuplex, FlagNeverStuck
<1>8. OneTransmissionPerBand' /\ OnAirWaits'
  BY <1>1, <1>4 DEF IInv, OneTransmissionPerBand, OnAirWaits
<1> QED
  BY <1>2, <1>5, <1>6, <1>7, <1>8, <1>3 DEF IInv

\* The other steps of the downlink side leave reception alone.
LEMMA TxSideStep ==
  ASSUME IInv, UNCHANGED rxVars, Shape',
         HalfDuplex', FlagNeverStuck', OneTransmissionPerBand', OnAirWaits'
  PROVE  IInv' /\ Locked' = Locked
<1>1. Locked' = Locked
  BY DEF rxVars, Locked
<1>2. PathsMatchEvents' /\ EventsMatchFates'
  BY <1>1 DEF IInv, PathsMatchEvents, EventsMatchFates, rxVars
<1> QED
  BY <1>1, <1>2 DEF IInv

-----------------------------------------------------------------------------
\* How a step changes the paths that are locked and the signals interrupted.
PathsStep ==
  \/ UNCHANGED <<Locked, occupied, Interrupted>>
  \/ /\ UNCHANGED Interrupted
     /\ \E p \in Paths \ Locked : Locked' = Locked \cup {p}
     /\ occupied' = occupied + 1
  \/ /\ UNCHANGED Interrupted
     /\ \E p \in Locked : Locked' = Locked \ {p}
     /\ occupied' = occupied - 1
  \/ /\ UNCHANGED occupied
     /\ Locked' = {}
     /\ Interrupted' = Interrupted \cup {path[p] : p \in Locked}

\* A signal has one outcome.
OutcomeStep == \A s \in Signals : fate[s] \in Outcomes => fate'[s] = fate[s]

\* Every step keeps the inductive invariant, moves the paths in one of the
\* four ways above and leaves outcomes alone.
LEMMA StepIInv ==
  ASSUME IInv, [Next]_vars
  PROVE  IInv' /\ PathsStep /\ OutcomeStep
<1> USE GatewayAssumption
<1>1. ASSUME NEW s \in Signals, NEW weak \in BOOLEAN, StartReceive(s, weak)
      PROVE  IInv' /\ PathsStep /\ OutcomeStep
  <2> fate[s] = "none" /\ s \notin Interferers /\ UNCHANGED txVars
    BY <1>1 DEF StartReceive
  <2>1. OutcomeStep
    BY <1>1 DEF StartReceive, Drop, LockOnEvent, OutcomeStep, Outcomes, IInv, Shape
  <2>2. CASE \E why \in Outcomes \ {"interrupted"} : Drop(s, why)
    <3> PICK why \in Outcomes \ {"interrupted"} : Drop(s, why)
      BY <2>2
    <3>1. UNCHANGED <<Locked, occupied, Interrupted>>
      BY DEF Drop, Locked, Interrupted, IInv, Shape
    <3> QED
      BY <3>1, <2>1, DropStep DEF PathsStep
  <2>3. CASE ~isTransmitting /\ \E p \in Paths : FirstAvailable(p) /\ LockOnEvent(p, s)
    <3> PICK p \in Paths : FirstAvailable(p) /\ LockOnEvent(p, s)
      BY <2>3
    <3>1. p \in Paths \ Locked
      BY DEF FirstAvailable
    <3>2. IInv' /\ Locked' = Locked \cup {p}
      BY <2>3, <3>1, LockStep
    <3>3. occupied' = occupied + 1 /\ Interrupted' = Interrupted
      BY DEF LockOnEvent, Interrupted, IInv, Shape
    <3> QED
      BY <2>1, <3>1, <3>2, <3>3 DEF PathsStep
  <2> QED
    BY <1>1, <2>2, <2>3 DEF StartReceive, Outcomes
<1>2. ASSUME NEW s \in Signals, StartReceiveInterferer(s)
      PROVE  IInv' /\ PathsStep /\ OutcomeStep
  <2>1. Shape'
    BY <1>2 DEF StartReceiveInterferer, IInv, Shape, txVars
  <2>2. Locked' = Locked /\ OnAir' = OnAir /\ Interrupted' = Interrupted
    BY <1>2 DEF StartReceiveInterferer, Locked, OnAir, Interrupted, txVars, IInv, Shape
  <2>3. PathsMatchEvents' /\ EventsMatchFates'
    BY <1>2, <2>2 DEF StartReceiveInterferer, IInv, Shape, PathsMatchEvents, EventsMatchFates
  <2>4. HalfDuplex' /\ FlagNeverStuck' /\ OneTransmissionPerBand' /\ OnAirWaits'
    BY <1>2, <2>2 DEF StartReceiveInterferer, IInv, HalfDuplex, FlagNeverStuck,
                      OneTransmissionPerBand, OnAirWaits, txVars
  <2>5. PathsStep /\ OutcomeStep
    BY <1>2, <2>2 DEF StartReceiveInterferer, PathsStep, OutcomeStep, Outcomes, IInv, Shape
  <2> QED
    BY <2>1, <2>3, <2>4, <2>5 DEF IInv
<1>3. ASSUME NEW s \in Signals, StartReceiveI(s)
      PROVE  IInv' /\ PathsStep /\ OutcomeStep
  <2>1. fate[s] = "none" /\ Drop(s, "ignored") /\ UNCHANGED txVars
    BY <1>3 DEF StartReceiveI, Drop, txVars
  <2>2. UNCHANGED <<Locked, occupied, Interrupted>>
    BY <2>1 DEF Drop, Locked, Interrupted, IInv, Shape
  <2>3. OutcomeStep
    BY <2>1 DEF Drop, OutcomeStep, Outcomes, IInv, Shape
  <2> QED
    BY <2>1, <2>2, <2>3, DropStep DEF PathsStep, Outcomes
<1>4. ASSUME NEW s \in Signals, NEW destroyed \in BOOLEAN, EndReceive(s, destroyed)
      PROVE  IInv' /\ PathsStep /\ OutcomeStep
  <2>1. IInv' /\ Locked' = Locked \ {p \in Paths : path[p] = s}
    BY <1>4, EndReceiveStep
  <2>2. fate[s] = "receiving"
    BY <1>4 DEF EndReceive, IInv, EventsMatchFates
  <2>3. OutcomeStep /\ Interrupted' = Interrupted
    BY <1>4, <2>2 DEF EndReceive, OutcomeStep, Outcomes, Interrupted, IInv, Shape
  <2>4. CASE \E p \in Paths : path[p] = s
    <3> PICK p \in Paths : path[p] = s
      BY <2>4
    <3>1. p \in Locked /\ {q \in Paths : path[q] = s} = {p}
      BY DEF Locked, IInv, PathsMatchEvents
    <3>2. occupied' = occupied - 1
      BY <1>4, <2>4 DEF EndReceive
    <3> QED
      BY <2>1, <2>3, <3>1, <3>2 DEF PathsStep
  <2>5. CASE ~ \E p \in Paths : path[p] = s
    <3>1. occupied' = occupied /\ Locked' = Locked
      BY <1>4, <2>1, <2>5 DEF EndReceive
    <3> QED
      BY <2>1, <2>3, <3>1 DEF PathsStep
  <2> QED
    BY <2>4, <2>5
<1>5. ASSUME UNCHANGED rxVars, Shape',
             HalfDuplex', FlagNeverStuck', OneTransmissionPerBand', OnAirWaits'
      PROVE  IInv' /\ PathsStep /\ OutcomeStep
  <2>1. IInv' /\ Locked' = Locked
    BY <1>5, TxSideStep
  <2>2. PathsStep /\ OutcomeStep
    BY <1>5, <2>1 DEF rxVars, PathsStep, OutcomeStep, Interrupted
  <2> QED
    BY <2>1, <2>2
<1>6. ASSUME NEW d \in Downlinks, NetworkServerSend(d)
      PROVE  IInv' /\ PathsStep /\ OutcomeStep
  <2>1. UNCHANGED <<rxVars, isTransmitting, waiting>> /\ OnAir' = OnAir /\ Shape'
    BY <1>6 DEF NetworkServerSend, rxVars, OnAir, IInv, Shape
  <2>2. Locked' = Locked
    BY <2>1 DEF rxVars, Locked
  <2>3. HalfDuplex' /\ FlagNeverStuck' /\ OneTransmissionPerBand' /\ OnAirWaits'
    BY <2>1, <2>2 DEF IInv, HalfDuplex, FlagNeverStuck, OneTransmissionPerBand, OnAirWaits
  <2> QED
    BY <1>5, <2>1, <2>3
<1>7. ASSUME NEW d \in Downlinks, NEW flagged \in BOOLEAN, MacSend(d, flagged)
      PROVE  IInv' /\ PathsStep /\ OutcomeStep
  <2>1. CASE BandOf[d] \in waiting \/ flagged
    <3>1. UNCHANGED <<rxVars, isTransmitting>> /\ OnAir' = OnAir /\ Shape'
      BY <1>7, <2>1 DEF MacSend, AddEvent, rxVars, OnAir, IInv, Shape
    <3>2. Locked' = Locked
      BY <3>1 DEF rxVars, Locked
    <3>3. waiting \subseteq waiting'
      BY <1>7, <2>1 DEF MacSend, AddEvent
    <3>4. HalfDuplex' /\ FlagNeverStuck' /\ OneTransmissionPerBand' /\ OnAirWaits'
      BY <3>1, <3>2, <3>3 DEF IInv, HalfDuplex, FlagNeverStuck, OneTransmissionPerBand,
                              OnAirWaits
    <3> QED
      BY <1>5, <3>1, <3>4
  <2>2. CASE BandOf[d] \notin waiting /\ ~flagged
    <3>1. stage[d] = "link" /\ AddEvent(BandOf[d]) /\ PhySend(d)
      BY <1>7, <2>2 DEF MacSend
    <3>2. IInv' /\ Locked' = {}
      BY <2>2, <3>1, PhySendStep
    <3>3. Interrupted' = Interrupted \cup {path[p] : p \in Locked}
      BY <3>1 DEF PhySend, Interrupted, IInv, Shape, Locked
    <3>4. OutcomeStep
      <4>1. \A p \in Locked : fate[path[p]] = "receiving"
        BY DEF IInv, PathsMatchEvents, EventsMatchFates, Shape
      <4> QED
        BY <3>1, <4>1 DEF PhySend, OutcomeStep, Outcomes
    <3>5. UNCHANGED occupied
      BY <3>1 DEF PhySend
    <3> QED
      BY <3>2, <3>3, <3>4, <3>5 DEF PathsStep
  <2> QED
    BY <2>1, <2>2
<1>8. ASSUME NEW d \in Downlinks, TxFinished(d)
      PROVE  IInv' /\ PathsStep /\ OutcomeStep
  <2>1. UNCHANGED <<rxVars, waiting>> /\ OnAir' \subseteq OnAir /\ ~isTransmitting' /\ Shape'
    BY <1>8 DEF TxFinished, rxVars, OnAir, IInv, Shape
  <2>2. HalfDuplex' /\ FlagNeverStuck' /\ OneTransmissionPerBand' /\ OnAirWaits'
    BY <2>1 DEF IInv, HalfDuplex, FlagNeverStuck, OneTransmissionPerBand, OnAirWaits
  <2> QED
    BY <1>5, <2>1, <2>2
<1>9. ASSUME NEW b \in Bands, DutyCycleExpires(b)
      PROVE  IInv' /\ PathsStep /\ OutcomeStep
  <2>1. UNCHANGED <<rxVars, isTransmitting>> /\ OnAir' = OnAir /\ Shape'
    BY <1>9 DEF DutyCycleExpires, rxVars, OnAir, IInv, Shape
  <2>2. Locked' = Locked
    BY <2>1 DEF rxVars, Locked
  <2>3. HalfDuplex' /\ FlagNeverStuck' /\ OneTransmissionPerBand'
    BY <2>1, <2>2 DEF IInv, HalfDuplex, FlagNeverStuck, OneTransmissionPerBand
  <2>4. OnAirWaits'
    BY <1>9, <2>1 DEF DutyCycleExpires, IInv, OnAirWaits
  <2> QED
    BY <1>5, <2>1, <2>3, <2>4
<1>10. CASE UNCHANGED vars
  <2>1. UNCHANGED rxVars /\ OnAir' = OnAir /\ Locked' = Locked /\ Shape'
    BY <1>10 DEF vars, rxVars, OnAir, Locked, IInv, Shape
  <2>2. HalfDuplex' /\ FlagNeverStuck' /\ OneTransmissionPerBand' /\ OnAirWaits'
    BY <1>10, <2>1 DEF vars, IInv, HalfDuplex, FlagNeverStuck, OneTransmissionPerBand,
                       OnAirWaits
  <2> QED
    BY <1>5, <2>1, <2>2
<1> QED
  BY <1>1, <1>2, <1>3, <1>4, <1>6, <1>7, <1>8, <1>9, <1>10 DEF Next

\* The outcome of a reception, once reported, is never replaced.
THEOREM OutcomeFinal == Spec => OneOutcome
<1>1. IInv /\ [Next]_vars => IInv'
  BY StepIInv
<1>2. IInv /\ [Next]_vars => [OutcomeStep]_vars
  BY StepIInv
<1>3. OneOutcome <=> [][OutcomeStep]_vars
  BY DEF OneOutcome, OutcomeStep
<1> QED
  BY InitIInv, <1>1, <1>2, <1>3, PTL DEF Spec

-----------------------------------------------------------------------------
\* A transmission interrupts as many signals as there were locked paths: the
\* paths are locked on different signals, none of them interrupted before.
LEMMA InterruptedCount ==
  ASSUME IInv, Interrupted' = Interrupted \cup {path[p] : p \in Locked}
  PROVE  Cardinality(Interrupted') = Cardinality(Interrupted) + Cardinality(Locked)
<1> USE GatewayAssumption
<1> DEFINE gone == {path[p] : p \in Locked}
           f == [p \in Locked |-> path[p]]
<1>1. IsFiniteSet(Locked) /\ IsFiniteSet(Interrupted)
  BY FS_Interval, FS_Subset DEF Locked, Interrupted, Paths
<1>2. f \in Bijection(Locked, gone)
  BY DEF IInv, PathsMatchEvents, Bijection, Injection, Surjection, IsInjective
<1>3. IsFiniteSet(gone) /\ Cardinality(gone) = Cardinality(Locked)
  BY <1>1, <1>2, FS_Bijection DEF ExistsBijection
<1>4. Interrupted \cap gone = {}
  BY DEF IInv, TypeOK, PathsMatchEvents, EventsMatchFates, Interrupted
<1>5. Cardinality(Interrupted \cup gone)
        = Cardinality(Interrupted) + Cardinality(gone) - Cardinality(Interrupted \cap gone)
  BY <1>1, <1>3, FS_Union
<1>6. Cardinality(Interrupted \cap gone) = 0
  BY <1>4, FS_EmptySet
<1> QED
  BY <1>1, <1>3, <1>5, <1>6, FS_CardinalityType

\* The counter of occupied paths exceeds the locked paths by exactly the
\* number of receptions that downlinks have interrupted.
LEMMA OccupiedCounter == Spec => []Counted
<1> USE GatewayAssumption
<1>1. Init => Counted
  <2> SUFFICES ASSUME Init PROVE Counted
    OBVIOUS
  <2>1. Locked = {} /\ Interrupted = {} /\ occupied = 0
    BY DEF Init, Locked, Interrupted
  <2> QED
    BY <2>1, FS_EmptySet DEF Counted
<1>2. IInv /\ Counted /\ [Next]_vars => Counted'
  <2> SUFFICES ASSUME IInv, Counted, [Next]_vars PROVE Counted'
    OBVIOUS
  <2>1. PathsStep
    BY StepIInv
  <2>2. IsFiniteSet(Locked) /\ IsFiniteSet(Interrupted)
    BY FS_Interval, FS_Subset DEF Locked, Interrupted, Paths
  <2>3. Cardinality(Locked) \in Nat /\ Cardinality(Interrupted) \in Nat
    BY <2>2, FS_CardinalityType
  <2>4. occupied = Cardinality(Locked) + Cardinality(Interrupted)
    BY DEF Counted
  <2> SUFFICES occupied' = Cardinality(Locked') + Cardinality(Interrupted')
    BY DEF Counted
  <2>5. CASE UNCHANGED <<Locked, occupied, Interrupted>>
    BY <2>4, <2>5
  <2>6. CASE /\ UNCHANGED Interrupted
             /\ \E p \in Paths \ Locked : Locked' = Locked \cup {p}
             /\ occupied' = occupied + 1
    <3> PICK p \in Paths \ Locked : Locked' = Locked \cup {p}
      BY <2>6
    <3>1. Cardinality(Locked') = Cardinality(Locked) + 1
      BY <2>2, FS_AddElement
    <3> QED
      BY <2>3, <2>4, <2>6, <3>1
  <2>7. CASE /\ UNCHANGED Interrupted
             /\ \E p \in Locked : Locked' = Locked \ {p}
             /\ occupied' = occupied - 1
    <3> PICK p \in Locked : Locked' = Locked \ {p}
      BY <2>7
    <3>1. Cardinality(Locked') = Cardinality(Locked) - 1
      BY <2>2, FS_RemoveElement
    <3> QED
      BY <2>3, <2>4, <2>7, <3>1
  <2>8. CASE /\ UNCHANGED occupied
             /\ Locked' = {}
             /\ Interrupted' = Interrupted \cup {path[p] : p \in Locked}
    <3>1. Cardinality(Locked') = 0
      BY <2>8, FS_EmptySet
    <3>2. Cardinality(Interrupted') = Cardinality(Interrupted) + Cardinality(Locked)
      BY <2>8, InterruptedCount
    <3> QED
      BY <2>3, <2>4, <2>8, <3>1, <3>2
  <2> QED
    BY <2>1, <2>5, <2>6, <2>7, <2>8 DEF PathsStep
<1>3. IInv /\ [Next]_vars => IInv'
  BY StepIInv
<1> QED
  BY InitIInv, <1>1, <1>2, <1>3, PTL DEF Spec

\* Every variable of the gateway has its type; the count of occupied paths
\* never goes below zero, since it only ever runs ahead of the truth.
THEOREM GatewayTyped == Spec => []TypeOK
<1>1. IInv /\ Counted => TypeOK
  <2> SUFFICES ASSUME IInv, Counted PROVE TypeOK
    OBVIOUS
  <2>1. IsFiniteSet(Locked) /\ IsFiniteSet(Interrupted)
    BY GatewayAssumption, FS_Interval, FS_Subset DEF Locked, Interrupted, Paths
  <2>2. occupied >= 0
    BY <2>1, FS_CardinalityType DEF Counted
  <2> QED
    BY <2>2 DEF IInv, TypeOK
<1> QED
  BY InitIInv, StepIInv, <1>1, OccupiedCounter, PTL DEF Spec

LEMMA GatewayInv == Spec => []IInv
  BY InitIInv, StepIInv, PTL DEF Spec

\* LockOnEvent and Free keep the demodulators in step with the scheduled
\* EndReceive events: each event belongs to one locked path.
THEOREM EachEventHasItsPath == Spec => []PathsMatchEvents
<1>1. IInv => PathsMatchEvents
  BY DEF IInv
<1> QED
  BY <1>1, GatewayInv, PTL

\* The gateway's radio does not receive while it is said to transmit.
THEOREM RadioIsHalfDuplex == Spec => []HalfDuplex
<1>1. IInv => HalfDuplex
  BY DEF IInv
<1> QED
  BY <1>1, GatewayInv, PTL

\* A gateway that says it transmits has a TxFinished event to come that will
\* reset the flag.
THEOREM FlagIsReset == Spec => []FlagNeverStuck
<1>1. IInv => FlagNeverStuck
  BY DEF IInv
<1> QED
  BY <1>1, GatewayInv, PTL

\* The duty cycle keeps the downlinks of a limited sub-band one at a time.
THEOREM OneDownlinkPerBand == Spec => []OneTransmissionPerBand
<1>1. IInv => OneTransmissionPerBand
  BY DEF IInv
<1> QED
  BY <1>1, GatewayInv, PTL

-----------------------------------------------------------------------------
(* The gateway is a DemodulatorPool: the safety half of ImplementsPool.    *)

\* The pool's instance of FiniteSets counts as this module's does.
LEMMA SameCardinality == \A S : Pool!Cardinality(S) = Cardinality(S)
  BY DEF Pool!Cardinality, Cardinality

\* Only signals without the interferer flag lock a path.
OrdinaryLocked == \A p \in Locked : path[p] \in Signals \ Interferers

LEMMA OrdinaryStep ==
  ASSUME IInv, OrdinaryLocked, [Next]_vars
  PROVE  OrdinaryLocked'
<1> USE GatewayAssumption
<1>1. CASE \A p \in Paths : path'[p] \in {path[p], NoEvent}
  BY <1>1 DEF OrdinaryLocked, Locked
<1>2. ASSUME NEW s \in Signals, NEW weak \in BOOLEAN, StartReceive(s, weak)
      PROVE  OrdinaryLocked'
  <2>1. CASE UNCHANGED path
    BY <2>1, <1>1
  <2>2. CASE \E p \in Paths : LockOnEvent(p, s)
    BY <1>2, <2>2 DEF StartReceive, LockOnEvent, OrdinaryLocked, Locked, IInv, Shape
  <2> QED
    BY <1>2, <2>1, <2>2 DEF StartReceive, Drop
<1>3. ASSUME NEW s \in Signals, NEW destroyed \in BOOLEAN, EndReceive(s, destroyed)
      PROVE  OrdinaryLocked'
  BY <1>1, <1>3 DEF EndReceive
<1>4. ASSUME NEW d \in Downlinks, NEW flagged \in BOOLEAN, MacSend(d, flagged)
      PROVE  OrdinaryLocked'
  BY <1>1, <1>4 DEF MacSend, PhySend, rxVars
<1>5. CASE UNCHANGED path
  BY <1>1, <1>5
<1> QED
  BY <1>2, <1>3, <1>4, <1>5
     DEF Next, StartReceiveInterferer, StartReceiveI, NetworkServerSend, TxFinished,
         DutyCycleExpires, rxVars, vars

\* The signals that use up capacity are those the paths are locked on, one each.
LEMMA ReceivingIsLocked ==
  ASSUME IInv, OrdinaryLocked
  PROVE  /\ Pool!Receiving = {path[p] : p \in Locked}
         /\ Cardinality(Pool!Receiving) = Cardinality(Locked)
         /\ IsFiniteSet(Locked)
<1> USE GatewayAssumption
<1> DEFINE taken == {path[p] : p \in Locked}
           f == [p \in Locked |-> path[p]]
<1>1. Pool!Receiving = taken
  <2>1. ASSUME NEW s \in Signals \ Interferers
        PROVE  fate[s] = "receiving" <=> \E p \in Locked : path[p] = s
    BY DEF IInv, PathsMatchEvents, EventsMatchFates
  <2>2. taken \subseteq Signals \ Interferers
    BY DEF OrdinaryLocked
  <2> QED
    BY <2>1, <2>2 DEF Pool!Receiving
<1>2. IsFiniteSet(Locked)
  BY FS_Interval, FS_Subset DEF Locked, Paths
<1>3. f \in Bijection(Locked, taken)
  BY DEF IInv, PathsMatchEvents, Bijection, Injection, Surjection, IsInjective
<1>4. Cardinality(taken) = Cardinality(Locked)
  BY <1>2, <1>3, FS_Bijection DEF ExistsBijection
<1> QED
  BY <1>1, <1>2, <1>4

\* Every demodulator is locked exactly when the pool's capacity is used up.
LEMMA FullPool ==
  ASSUME IInv, OrdinaryLocked
  PROVE  IF Locked = Paths THEN Cardinality(Pool!Receiving) >= NumPaths
                           ELSE Cardinality(Pool!Receiving) < NumPaths
<1> USE GatewayAssumption
<1>1. IsFiniteSet(Paths) /\ Cardinality(Paths) = NumPaths
  <2>1. IsFiniteSet(1 .. NumPaths)
    BY FS_Interval
  <2>2. Cardinality(1 .. NumPaths) = IF 1 > NumPaths THEN 0 ELSE NumPaths - 1 + 1
    BY FS_Interval
  <2> QED
    BY <2>1, <2>2 DEF Paths
<1>2. Locked \subseteq Paths /\ Cardinality(Pool!Receiving) = Cardinality(Locked)
  BY ReceivingIsLocked DEF Locked
<1>3. Cardinality(Locked) \in Nat /\ Cardinality(Locked) <= NumPaths
  BY <1>1, <1>2, FS_Subset, FS_CardinalityType
<1>4. Cardinality(Locked) = NumPaths => Locked = Paths
  BY <1>1, <1>2, FS_Subset
<1> QED
  BY <1>1, <1>2, <1>3, <1>4

\* Every step of the gateway is a step of the pool, or invisible to it.
LEMMA PoolStep ==
  ASSUME IInv, OrdinaryLocked, [Next]_vars
  PROVE  [Pool!Next]_<<fate, isTransmitting>>
<1> USE GatewayAssumption
<1>1. ASSUME NEW s \in Signals, fate[s] = "none", NEW why \in Pool!Refusals, Drop(s, why),
             UNCHANGED isTransmitting, why = "droppedTx" => isTransmitting,
             why = "noDemodulator" => Locked = Paths
      PROVE  Pool!Next
  <2>1. Pool!Refuse(s, why)
    BY <1>1, FullPool, SameCardinality DEF Pool!Refuse, Drop
  <2> QED
    BY <2>1 DEF Pool!Next
<1>2. ASSUME NEW s \in Signals, NEW weak \in BOOLEAN, StartReceive(s, weak)
      PROVE  Pool!Next
  <2>1. fate[s] = "none" /\ UNCHANGED isTransmitting
    BY <1>2 DEF StartReceive, txVars
  <2>2. CASE \E why \in Pool!Refusals :
               /\ Drop(s, why)
               /\ why = "droppedTx" => isTransmitting
               /\ why = "noDemodulator" => Locked = Paths
    BY <1>1, <2>1, <2>2
  <2>3. CASE ~isTransmitting /\ \E p \in Paths : FirstAvailable(p) /\ LockOnEvent(p, s)
    <3>1. Locked # Paths /\ fate' = [fate EXCEPT ![s] = "receiving"]
      BY <2>3 DEF FirstAvailable, LockOnEvent
    <3>2. Pool!Take(s)
      BY <2>1, <2>3, <3>1, FullPool, SameCardinality DEF Pool!Take
    <3> QED
      BY <3>2 DEF Pool!Next
  <2> QED
    BY <1>2, <2>2, <2>3 DEF StartReceive, Pool!Refusals
<1>3. ASSUME NEW s \in Signals, StartReceiveInterferer(s)
      PROVE  Pool!Next
  <2>1. Pool!Take(s)
    BY <1>3 DEF StartReceiveInterferer, Pool!Take, txVars
  <2> QED
    BY <2>1 DEF Pool!Next
<1>4. ASSUME NEW s \in Signals, StartReceiveI(s)
      PROVE  Pool!Next
  <2>1. fate[s] = "none" /\ Drop(s, "ignored") /\ UNCHANGED isTransmitting
    BY <1>4 DEF StartReceiveI, Drop, txVars
  <2> QED
    BY <1>1, <2>1 DEF Pool!Refusals
<1>5. ASSUME NEW s \in Signals, NEW destroyed \in BOOLEAN, EndReceive(s, destroyed)
      PROVE  Pool!Next
  <2>1. fate[s] = "receiving" /\ UNCHANGED isTransmitting
    BY <1>5 DEF EndReceive, IInv, EventsMatchFates, txVars
  <2>2. \E how \in {"received", "interfered"} : fate' = [fate EXCEPT ![s] = how]
    BY <1>5 DEF EndReceive
  <2>3. Pool!Finish(s)
    BY <2>1, <2>2 DEF Pool!Finish
  <2> QED
    BY <2>3 DEF Pool!Next
<1>6. ASSUME NEW d \in Downlinks, NEW flagged \in BOOLEAN, MacSend(d, flagged)
      PROVE  [Pool!Next]_<<fate, isTransmitting>>
  <2>1. CASE PhySend(d)
    <3>1. Pool!Transmit
      BY <2>1, ReceivingIsLocked DEF PhySend, Pool!Transmit
    <3> QED
      BY <3>1 DEF Pool!Next
  <2>2. CASE UNCHANGED <<rxVars, isTransmitting>>
    BY <2>2 DEF rxVars
  <2> QED
    BY <1>6, <2>1, <2>2 DEF MacSend
<1>7. ASSUME NEW d \in Downlinks, TxFinished(d)
      PROVE  [Pool!Next]_<<fate, isTransmitting>>
  <2>1. UNCHANGED fate /\ isTransmitting' = FALSE
    BY <1>7 DEF TxFinished, rxVars
  <2>2. CASE isTransmitting
    BY <2>1, <2>2 DEF Pool!Quiet, Pool!Next
  <2>3. CASE ~isTransmitting
    BY <2>1, <2>3 DEF IInv, Shape
  <2> QED
    BY <2>2, <2>3
<1>8. CASE UNCHANGED <<fate, isTransmitting>>
  BY <1>8
<1> QED
  BY <1>2, <1>3, <1>4, <1>5, <1>6, <1>7, <1>8
     DEF Next, NetworkServerSend, DutyCycleExpires, rxVars, vars

\* Seen from outside, the gateway refuses, takes, ends and loses signals as a
\* pool of NumPaths demodulators behind a half-duplex radio may: what
\* SimpleGatewayLoraPhy does with counters, handles and cancelled events.
THEOREM PoolRefined ==
  Spec => Pool!Init /\ [][Pool!Next]_<<fate, isTransmitting>>
<1>1. Init => Pool!Init
  BY DEF Init, Pool!Init
<1>2. Init => OrdinaryLocked
  BY DEF Init, OrdinaryLocked, Locked
<1>3. IInv /\ [Next]_vars => IInv'
  BY StepIInv
<1>4. IInv /\ OrdinaryLocked /\ [Next]_vars => OrdinaryLocked'
  BY OrdinaryStep
<1>5. IInv /\ OrdinaryLocked /\ [Next]_vars => [Pool!Next]_<<fate, isTransmitting>>
  BY PoolStep
<1> QED
  BY InitIInv, <1>1, <1>2, <1>3, <1>4, <1>5, PTL DEF Spec
=============================================================================
