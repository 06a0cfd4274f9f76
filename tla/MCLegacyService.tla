-------------------------- MODULE MCLegacyService --------------------------
(* An instance of LegacyService for TLC. *)
EXTENDS LegacyService

CONSTANTS c1, c2
=============================================================================
