------------------------------ MODULE MCTools ------------------------------
(* An instance of Tools for TLC. *)
EXTENDS Tools, AliceBatches

\* Texts with and without bars.
MCTexts ==
  {Text(Word(<<Other("a")>>)), Padded(Word(<<Other("a")>>)),
   Text(Word(<<Other("a"), Number(1)>>)), Text(Word(<<Other("a"), Number(1), Number(1)>>)),
   Text(Word(<<Number(1)>>)), Text(Blank),
   Text(Word(<<Other("zkdex/nullifier/v1"), Other("a")>>))}

MCNumbers == {-1, 0, 1, 6}

\* Alice's v1 batch, right or spoilt.
Good(b) == Request(V1, Text(Alice), Text(Alice), b, 1, 1, "canonical")

\* With other balances, to another destination, or with a nonce beyond the
\* field; then with an old root, a new root, a nullifier or a destination
\* hash that is that of something else.
MCBatches ==
  LET good == Good(<<0, 4, 1, 3>>)
      bob  == Text(Word("bob"))
  IN  {good, Good(<<1, 4, 1, 4>>), Good(<<0, 3, 1, 2>>),
       [good EXCEPT !.update.withdrawals[1].destination = bob,
                    !.update.withdrawals[1].destinationHash =
                      Canonical(DestinationElement(V1, bob))],
       [good EXCEPT !.accounts[1].nonce = Text(Numeral(1 + Modulus))],
       [good EXCEPT !.update.newStateRoot = good.update.oldStateRoot],
       [good EXCEPT !.update.oldStateRoot = good.update.newStateRoot],
       [good EXCEPT !.update.withdrawals[1].nullifier =
                      good.update.withdrawals[1].destinationHash],
       [good EXCEPT !.update.withdrawals[1].destinationHash =
                      good.update.withdrawals[1].nullifier]}
=============================================================================
