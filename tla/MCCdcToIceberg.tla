---------------------------- MODULE MCCdcToIceberg ----------------------------
(* Small instances of CdcToIceberg for TLC. *)
EXTENDS CdcToIceberg

CONSTANTS k1, k2
=============================================================================
