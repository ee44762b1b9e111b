------------------------------ MODULE MCCdcDrills ------------------------------
(* Small instances of CdcDrills for TLC. *)
EXTENDS CdcDrills

AllDrills == DOMAIN Script
=============================================================================
