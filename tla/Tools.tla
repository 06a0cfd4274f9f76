------------------------------- MODULE Tools -------------------------------
(***************************************************************************)
(* What the prover package offers besides the service, to tests and tools: *)
(* the hash functions and the stand-alone circuits.  The two share no      *)
(* state and keep nothing, so a behaviour has one kind of use only:        *)
(* interleaving them would add none.                                       *)
(***************************************************************************)
EXTENDS HashPayloads, Prototypes

Init == NothingComputed /\ NothingProved

Next ==
  \/ ComputeSome /\ proved = {} /\ UNCHANGED proved
  \/ ProveSome /\ computed = {} /\ UNCHANGED computed

Spec == Init /\ [][Next]_<<computed, proved>>
=============================================================================
