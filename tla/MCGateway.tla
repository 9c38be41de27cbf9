------------------------------ MODULE MCGateway ------------------------------
(* Small instances of Gateway for TLC.                                     *)
EXTENDS Gateway

CONSTANTS s1, s2, s3, s4, d1, d2, d3, narrow, wide

\* Two downlinks compete for one sub-band, the third uses the other.
MCBandOf == [d \in Downlinks |-> IF d = d3 THEN wide ELSE narrow]
=============================================================================
