---------------------------- MODULE MCBrokerDrills ----------------------------
(* Small instances of BrokerDrills for TLC. *)
EXTENDS BrokerDrills

AllDrills == DOMAIN Script
=============================================================================
