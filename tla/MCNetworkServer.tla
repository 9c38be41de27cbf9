--------------------------- MODULE MCNetworkServer ---------------------------
(* Small instances of NetworkServer for TLC.                               *)
EXTENDS NetworkServer

CONSTANTS d1, d2

MCOne == [d \in Devices |-> 1]
MCTwo == [d \in Devices |-> IF d = d1 THEN 2 ELSE 1]
MCThree == [d \in Devices |-> 3]

\* Duty cycles of 1% and 10% would be 99 and 9 times the time on air.
MCDutyWait == <<3, 2>>

=============================================================================
