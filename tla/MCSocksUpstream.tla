-------------------------- MODULE MCSocksUpstream --------------------------
(***************************************************************************)
(* Instances of SocksUpstream for TLC.                                     *)
(***************************************************************************)
EXTENDS SocksUpstream

CONSTANTS r1, r2, r3
=============================================================================
