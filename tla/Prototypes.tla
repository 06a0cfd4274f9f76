----------------------------- MODULE Prototypes -----------------------------
(***************************************************************************)
(* The three stand-alone circuits the v1 settlement circuit grew from:     *)
(* account commitment, nullifier and destination hash.  Nothing in the     *)
(* server uses them, so their callers are tests and tools: they build an   *)
(* input from texts, may put the public values of a batch in it, and       *)
(* prove.  Each proof has keys of its own, which are not kept.             *)
(***************************************************************************)
EXTENDS Settlement

CONSTANTS
  Batches,   \* prove requests, well formed as far as the v1 engine wants
  MaxProved  \* bound: proofs made

ASSUME BatchesAssumption == \A b \in Batches : SettlementInputValid(b)

VARIABLE proved  \* the proofs made: the circuit, its input, the public values

-----------------------------------------------------------------------------
(***************************************************************************)
(* Account commitment.                                                     *)
(***************************************************************************)

AccountInputValid(owner, oldBalance, deposit, withdraw, newBalance) ==
  /\ ~IsBlank(owner)
  /\ \A t \in {oldBalance, deposit, withdraw, newBalance} : IsAmount(t)
  /\ Amount(oldBalance) + Amount(deposit) = Amount(newBalance) + Amount(withdraw)

AccountInput(owner, oldBalance, deposit, withdraw, newBalance) ==
  [ownerField     |-> OwnerField(owner),
   oldBalance     |-> Amount(oldBalance),
   depositAmount  |-> Amount(deposit),
   withdrawAmount |-> Amount(withdraw),
   newBalance     |-> Amount(newBalance),
   expected       |-> <<AccountCommitment(owner, Amount(oldBalance)),
                        AccountCommitment(owner, Amount(newBalance))>>]

\* Mutant of AccountCircuit: the new commitment is not asserted.
AccountCircuitOldOnly(in) ==
  /\ Scalar(in.oldBalance + in.depositAmount) = Scalar(in.newBalance + in.withdrawAmount)
  /\ in.expected[1] = MiMC(<<in.ownerField, Scalar(in.oldBalance)>>)

AccountCircuit(in) ==
  /\ Scalar(in.oldBalance + in.depositAmount) = Scalar(in.newBalance + in.withdrawAmount)
  /\ in.expected = <<MiMC(<<in.ownerField, Scalar(in.oldBalance)>>),
                     MiMC(<<in.ownerField, Scalar(in.newBalance)>>)>>

-----------------------------------------------------------------------------
(***************************************************************************)
(* Nullifier and destination hash.                                         *)
(***************************************************************************)

NullifierInputValid(secret, nonce) == ~IsBlank(secret) /\ IsAmount(nonce)

NullifierInput(secret, nonce) ==
  [secretField |-> SecretField(secret),
   nonceField  |-> Amount(nonce),
   expected    |-> <<NullifierElement(V1, secret, nonce)>>]

\* Mutant of NullifierCircuit: the hash inputs in the other order.
NullifierCircuitSwapped(in) ==
  in.expected = <<MiMC(<<Scalar(in.nonceField), in.secretField>>)>>

NullifierCircuit(in) == in.expected = <<MiMC(<<in.secretField, Scalar(in.nonceField)>>)>>

DestinationInput(dest) ==
  [destinationField |-> DestinationField(dest),
   expected         |-> <<DestinationElement(V1, dest)>>]

DestinationCircuit(in) == in.expected = <<MiMC(<<in.destinationField>>)>>

-----------------------------------------------------------------------------
(***************************************************************************)
(* Proving.  A tool tries a circuit on what a batch gives it, with the     *)
(* expected values the builder worked out or with those of some batch.     *)
(***************************************************************************)

AddProof(circuit, in) ==
  /\ proved' = proved \union {[circuit |-> circuit, input |-> in]}
  /\ Cardinality(proved') <= MaxProved

\* The parts of a batch, as the stand-alone builders see them.
AccountPart(b) ==
  LET account == b.accounts[1]
      in      == BalanceInput(b)
  IN  AccountInput(account.owner, account.oldBalance, Text(Numeral(in.depositAmount)),
                   Text(Numeral(in.withdrawAmount)), account.newBalance)

NullifierPart(b)   == NullifierInput(b.accounts[1].userSecret, b.accounts[1].nonce)
DestinationPart(b) == DestinationInput(BoundWithdrawal(b).destination)

\* An input with the public values of the batch in place of the builder's.
OfBatch(in, first, last, b) ==
  [in EXCEPT !.expected = SubSeq(PublicWitness(V1, b.update, BoundWithdrawal(b)), first, last)]

ProveAccountCommitmentCircuitV1(b) ==
  LET account == b.accounts[1]
      in      == BalanceInput(b)
      part    == AccountPart(b)
  IN  /\ AccountInputValid(account.owner, account.oldBalance, Text(Numeral(in.depositAmount)),
                           Text(Numeral(in.withdrawAmount)), account.newBalance)
      /\ \E input \in {part} \union {OfBatch(part, 3, 4, other) : other \in Batches} :
           AccountCircuit(input) /\ AddProof("account", input)

ProveNullifierCircuitV1(b) ==
  /\ NullifierInputValid(b.accounts[1].userSecret, b.accounts[1].nonce)
  /\ \E input \in {NullifierPart(b)} \union
                   {OfBatch(NullifierPart(b), 1, 1, other) : other \in Batches} :
       NullifierCircuit(input) /\ AddProof("nullifier", input)

ProveDestinationHashCircuitV1(b) ==
  /\ ~IsBlank(BoundWithdrawal(b).destination)
  /\ \E input \in {DestinationPart(b)} \union
                   {OfBatch(DestinationPart(b), 2, 2, other) : other \in Batches} :
       DestinationCircuit(input) /\ AddProof("destination", input)

\* The settlement engine on the same batch.
ProveSettlement(b) ==
  /\ SettlementCircuit(b)
  /\ AddProof("settlement", b)

NothingProved == proved = {}

ProveSome == \E b \in Batches :
  \/ ProveAccountCommitmentCircuitV1(b)
  \/ ProveNullifierCircuitV1(b)
  \/ ProveDestinationHashCircuitV1(b)
  \/ ProveSettlement(b)

-----------------------------------------------------------------------------
Proved(circuit, in) == [circuit |-> circuit, input |-> in] \in proved

\* The parts of a batch, with the public values the batch has.
PartsProved(b) ==
  /\ Proved("account", OfBatch(AccountPart(b), 3, 4, b))
  /\ Proved("nullifier", OfBatch(NullifierPart(b), 1, 1, b))
  /\ Proved("destination", OfBatch(DestinationPart(b), 2, 2, b))

\* The settlement circuit is the three prototypes put together: when they
\* have proved the parts of a batch with its own public values, it proves
\* the batch.
PartsMakeTheWhole == \A b \in Batches : PartsProved(b) => SettlementCircuit(b)

\* And the other way round: with a batch proved, each part can be.
WholeHasItsParts ==
  \A b \in Batches : Proved("settlement", b) =>
    /\ AccountCircuit(OfBatch(AccountPart(b), 3, 4, b))
    /\ NullifierCircuit(OfBatch(NullifierPart(b), 1, 1, b))
    /\ DestinationCircuit(OfBatch(DestinationPart(b), 2, 2, b))
=============================================================================
