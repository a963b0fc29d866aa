---------------------------- MODULE MCDeviceLock ----------------------------
(* A small cluster for DeviceLock: a and b ask for the same two devices in  *)
(* opposite orders, c shares one of them, and e runs on no accelerator.     *)
EXTENDS DeviceLock, TLC

CONSTANTS a, b, c, e, d1, d2, d3

MCAccel == a :> <<d1, d2>> @@ b :> <<d2, d1>> @@ c :> <<d2, d3>> @@ e :> <<>>
=============================================================================
