-------------------------- MODULE MCProverService --------------------------
(***************************************************************************)
(* An instance of ProverService for TLC.                                   *)
(***************************************************************************)
EXTENDS ProverService, AliceBatches

CONSTANTS v0a, v1a, v1b, odd, k1, k2

\* The default mode, v1 with and without white space, and an unknown mode.
MCHashModeEnv ==
  [p \in Procs |-> CASE p = v0a -> Text(Blank)
                     [] p = v1a -> Padded(Word(V1))
                     [] p = v1b -> Text(Word(V1))
                     [] p = odd -> Text(Word("v2"))]

\* One withdrawal in every variant; none, or two, of Alice or of Bob.
MCRequests ==
  {Request(mode, owner, wOwner, b, nonce, 1, spelling) :
     mode \in Modes, owner \in {Text(Alice), Padded(Alice)}, wOwner \in Owners, b \in Balances,
     nonce \in {1, 1 + Modulus}, spelling \in {"canonical", "other"}}
  \union
  {Request(mode, Text(Alice), wOwner, b, 1, count, "canonical") :
     mode \in Modes, wOwner \in {Text(Alice), Text(Word("bob"))},
     b \in Balances \union {<<0, 4, 1, 2>>}, count \in {0, 2}}
=============================================================================
