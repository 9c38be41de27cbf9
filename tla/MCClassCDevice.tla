--------------------------- MODULE MCClassCDevice ---------------------------
(* Small instances of ClassCDevice for TLC.                                *)
EXTENDS ClassCDevice
=============================================================================
