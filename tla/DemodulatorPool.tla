--------------------------- MODULE DemodulatorPool ---------------------------
(***************************************************************************)
(* What a gateway's radio promises of the uplinks that reach it, with no   *)
(* demodulators, counters, event handles, link or duty cycle: a signal is  *)
(* refused or taken; a taken one ends once, received or destroyed; never   *)
(* more than Capacity are taken at a time; and a transmission, which may   *)
(* begin at any moment, loses at once all that were being received.        *)
(***************************************************************************)
EXTENDS Integers, FiniteSets

CONSTANTS
  Capacity,  \* how many signals can be received at a time
  Signals,   \* the signals, each arriving once
  Free       \* the signals that use up no capacity

VARIABLES
  outcome,      \* what is known of each signal
  transmitting  \* whether the radio transmits

vars == <<outcome, transmitting>>

Refusals == {"noDemodulator", "underSensitivity", "droppedTx", "ignored"}

Receiving == {s \in Signals \ Free : outcome[s] = "receiving"}

Init ==
  /\ outcome = [s \in Signals |-> "none"]
  /\ transmitting = FALSE

\* A signal is refused for want of capacity, or while the radio transmits,
\* only when that is so.
Refuse(s, why) ==
  /\ outcome[s] = "none"
  /\ why = "noDemodulator" => Cardinality(Receiving) >= Capacity
  /\ why = "droppedTx" => transmitting
  /\ outcome' = [outcome EXCEPT ![s] = why]
  /\ UNCHANGED transmitting

Take(s) ==
  /\ outcome[s] = "none"
  /\ s \notin Free => ~transmitting /\ Cardinality(Receiving) < Capacity
  /\ outcome' = [outcome EXCEPT ![s] = "receiving"]
  /\ UNCHANGED transmitting

Finish(s) ==
  /\ outcome[s] = "receiving"
  /\ \E how \in {"received", "interfered"} : outcome' = [outcome EXCEPT ![s] = how]
  /\ UNCHANGED transmitting

Transmit ==
  /\ outcome' = [s \in Signals |-> IF s \in Receiving THEN "interrupted" ELSE outcome[s]]
  /\ transmitting' = TRUE

Quiet ==
  /\ transmitting
  /\ transmitting' = FALSE
  /\ UNCHANGED outcome

Next ==
  \/ \E s \in Signals, why \in Refusals : Refuse(s, why)
  \/ \E s \in Signals : Take(s) \/ Finish(s)
  \/ Transmit
  \/ Quiet

\* What is taken ends, and no transmission lasts for ever.
Spec ==
  /\ Init /\ [][Next]_vars
  /\ \A s \in Signals : WF_vars(Finish(s))
  /\ WF_vars(Quiet)
=============================================================================
