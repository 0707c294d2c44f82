------------------------- MODULE MCDeviceReadBuffer -------------------------
(* DeviceReadBuffer for TLC: a ring of three bytes, reads of at most two.   *)
EXTENDS DeviceReadBuffer
=============================================================================
