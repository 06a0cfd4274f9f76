-------------------------- MODULE MCLegacySession --------------------------
(* An instance of LegacySession for TLC: the numbers of the tests. *)
EXTENDS LegacySession

CONSTANTS r1, r2, r3

\* 3|35 and 5|135 are solutions, 5|999 is none.
MCX == [r \in Requests |-> IF r = r1 THEN 3 ELSE 5]
MCY == [r \in Requests |-> CASE r = r1 -> 35 [] r = r2 -> 135 [] r = r3 -> 999]
=============================================================================
