----------------------------- MODULE MCWifiServer -----------------------------
(***************************************************************************)
(* A small instance of WifiServer: two connections of the device, the one  *)
(* replacing the other, and at most three requests on each.                *)
(***************************************************************************)
EXTENDS WifiServer
=============================================================================
