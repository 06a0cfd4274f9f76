---------------------------- MODULE AliceBatches ----------------------------
(***************************************************************************)
(* Alice's batches of prover/service_test.go and their variants, for the   *)
(* instances TLC checks.                                                   *)
(***************************************************************************)
EXTENDS Settlement

Alice == Word("alice")
Owners == {Text(Alice), Padded(Alice), Text(Word("bob"))}

\* Old balance, deposit, withdrawal, new balance.
Balances ==
  {<<0, 4, 1, 3>>, <<0, 4, 1, 4>>, <<Modulus, 4, 1, Modulus + 3>>, <<0, 4, 1, -1>>}

Root(mode, account, balance, spelling) ==
  IF mode = V0 THEN Text(NotHex(<<account.owner.val, balance>>))
  ELSE Text(Hex(AccountCommitment(account.owner, balance), spelling))

\* The hashes of mode belong to the right nonce or to another one.
Withdrawal(mode, owner, amount, secret, nonce) ==
  [owner           |-> owner,
   amount          |-> Text(Numeral(amount)),
   destination     |-> Padded(Alice),
   destinationHash |-> Canonical(DestinationElement(mode, Text(Alice))),
   nullifier       |-> Canonical(NullifierElement(mode, Text(secret), Text(Numeral(nonce))))]

Commitments ==
  [depositsRoot |-> Text(NotHex("deposits")), withdrawalsRoot |-> Text(NotHex("withdrawals")),
   nullifiersRoot |-> Padded(NotHex("nullifiers")), withdrawOutputsRoot |-> Text(NotHex("outputs"))]

Request(mode, owner, wOwner, b, nonce, count, spelling) ==
  LET account == [owner |-> owner, userSecret |-> Padded(Word("secret")),
                  nonce |-> Text(Numeral(1)),
                  oldBalance |-> Text(Numeral(b[1])), newBalance |-> Padded(Numeral(b[4]))]
      item    == Withdrawal(mode, wOwner, b[3], Word("secret"), nonce)
  IN  [update |->
         [batchId |-> Text(Word("batch")),
          oldStateRoot |-> Root(mode, account, b[1], spelling),
          newStateRoot |-> Root(mode, account, b[4], "canonical"),
          deposits |-> <<[owner |-> Text(Alice), amount |-> Text(Numeral(b[2]))]>>,
          withdrawals |-> [n \in 1..count |-> item]],
       commitments |-> Commitments,
       accounts |-> <<account>>]
=============================================================================
