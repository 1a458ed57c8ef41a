-------------------------- MODULE MCDevicePairing --------------------------
(* DevicePairing on one or two proxy objects and two clients.              *)
EXTENDS DevicePairing
=============================================================================
