------------------------------ MODULE MCDeviceSession ------------------------------
(***************************************************************************)
(* Small instances of DeviceSession.                                       *)
(***************************************************************************)
EXTENDS DeviceSession
=============================================================================
