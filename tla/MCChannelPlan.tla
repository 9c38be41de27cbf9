---------------------------- MODULE MCChannelPlan ----------------------------
(* Small instances of ChannelPlan for TLC.                                 *)
EXTENDS ChannelPlan, TLC

CONSTANTS low, high

Ch(b, min, max) == [band |-> b, min |-> min, max |-> max, on |-> TRUE]

MCDutyInverse == (low :> 3) @@ (high :> 2)
MCMaxPower    == (low :> 14) @@ (high :> 27)
MCDbm         == (0 :> 16) @@ (1 :> 14)
MCInitChannel == (0 :> Ch(low, 0, 2)) @@ (1 :> Ch(low, 0, 2)) @@ (2 :> Ch(high, 1, 2))
MCMasks       == {{}, {0}, {2, 3}, {0, 4}}
MCNewChannels == {Ch(low, 0, 1), Ch(high, 0, 2), Ch(NoBand, 0, 2)}
=============================================================================
