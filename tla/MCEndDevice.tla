----------------------------- MODULE MCEndDevice -----------------------------
(* Small instances of EndDevice for TLC.                                   *)
EXTENDS EndDevice
=============================================================================
