---------------------------- MODULE MCOracleLab ----------------------------
(* A primary and its secondaries for OracleLab. *)
EXTENDS OracleLab

CONSTANTS k1, k2, k3
=============================================================================
