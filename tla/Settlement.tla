----------------------------- MODULE Settlement -----------------------------
(***************************************************************************)
(* The settlement contract of gazk: which prove and verify requests the    *)
(* prover package accepts, what its two circuits state, and what a proof   *)
(* bundle says.                                                            *)
(*                                                                         *)
(* A text is a value, with or without white space around it.  Hashes are   *)
(* free constructors (two hashes are equal when their inputs are), and so  *)
(* is Groth16: a proof verifies under a key when it was made with the      *)
(* matching key and for the same public witness.  Identifiers and denoms,  *)
(* which the code never reads, are left out.                               *)
(***************************************************************************)
EXTENDS Integers, Sequences, FiniteSetsExt

CONSTANT Modulus  \* size of the BN254 scalar field

ASSUME ModulusAssumption == Modulus \in Nat \ {0}

V0    == "v0-sha256"
V1    == "v1-mimc"
Modes == {V0, V1}

-----------------------------------------------------------------------------
(***************************************************************************)
(* Texts and field elements.                                               *)
(***************************************************************************)

Text(v)   == [val |-> v, pad |-> FALSE]
Padded(v) == [val |-> v, pad |-> TRUE]

Blank      == <<"blank">>
Bare0x     == <<"0x">>
Word(w)    == <<"word", w>>     \* an owner, a secret, a destination
Numeral(n) == <<"numeral", n>>
NotHex(w)  == <<"0xword", w>>   \* 0x, then something that is no hex
Hex(e, s)  == <<"0xhex", e, s>> \* 0x and hex: one of the spellings of element e

TrimSpace(t) == Text(t.val)
IsBlank(t)   == t.val = Blank
IsHex(t)     == t.val[1] = "0xhex"
Element(t)   == t.val[2]

\* A base-10 integer of any length, not negative.
IsAmount(t) == t.val[1] = "numeral" /\ t.val[2] >= 0
Amount(t)   == t.val[2]

\* A settlement public field: 0x and something behind it.
IsExternalField(t) == t.val[1] \in {"0xword", "0xhex"}

Scalar(n)         == <<"scalar", n % Modulus>>
Sha256(tag, args) == <<"sha256", tag, args>>
MiMC(elements)    == <<"mimc", elements>>

OwnerField(owner)      == Sha256("ownerField", owner.val)
SecretField(secret)    == Sha256("secretField", secret.val)
DestinationField(dest) == Sha256("destinationField", dest.val)

AccountCommitment(owner, balance) == MiMC(<<OwnerField(owner), Scalar(balance)>>)

\* Mutant of NullifierElement: the hash inputs in the other order.
NullifierElementSwapped(mode, secret, nonce) ==
  IF mode = V0 THEN Sha256("nullifier", <<secret.val, Amount(nonce)>>)
  ELSE MiMC(<<Scalar(Amount(nonce)), SecretField(secret)>>)

NullifierElement(mode, secret, nonce) ==
  IF mode = V0 THEN Sha256("nullifier", <<secret.val, Amount(nonce)>>)
  ELSE MiMC(<<SecretField(secret), Scalar(Amount(nonce))>>)

DestinationElement(mode, dest) ==
  IF mode = V0 THEN Sha256("withdrawAddr", dest.val) ELSE MiMC(<<DestinationField(dest)>>)

\* Hashes are printed in one spelling and compared with the request's text
\* as it came, white space included.
Canonical(e) == Text(Hex(e, "canonical"))

-----------------------------------------------------------------------------
(***************************************************************************)
(* The checks of the service, before any circuit.                          *)
(***************************************************************************)

PublicInputs(update, commitments) ==
  <<update.oldStateRoot, update.newStateRoot,
    commitments.depositsRoot, commitments.withdrawalsRoot,
    commitments.nullifiersRoot, commitments.withdrawOutputsRoot>>

AllExternal(texts) == \A i \in DOMAIN texts : IsExternalField(texts[i])

HasRequiredFields(req) ==
  /\ req.update.batchId # Text(Blank)
  /\ \A i \in 1..6 : PublicInputs(req.update, req.commitments)[i] # Text(Blank)
  /\ Len(req.accounts) > 0

SameOwner(x, y) == TrimSpace(x.owner) = TrimSpace(y.owner)

AccountsDistinct(mode, accounts) ==
  /\ \A i \in DOMAIN accounts :
       /\ ~IsBlank(accounts[i].owner)
       /\ ~IsBlank(accounts[i].userSecret)
       /\ mode = V1 => ~IsBlank(accounts[i].nonce)
  /\ \A i, j \in DOMAIN accounts : SameOwner(accounts[i], accounts[j]) => i = j

\* Every withdrawal is of an account in the witness and carries the
\* nullifier of that account's secret and nonce.
NullifiersBound(mode, req) ==
  /\ AccountsDistinct(mode, req.accounts)
  /\ \A w \in DOMAIN req.update.withdrawals : \E a \in DOMAIN req.accounts :
       LET withdrawal == req.update.withdrawals[w]
           account    == req.accounts[a]
       IN  /\ SameOwner(withdrawal, account)
           /\ IsAmount(account.nonce)
           /\ withdrawal.nullifier =
                Canonical(NullifierElement(mode, account.userSecret, account.nonce))

DestinationsBound(mode, req) ==
  \A w \in DOMAIN req.update.withdrawals :
    LET withdrawal == req.update.withdrawals[w] IN
    /\ ~IsBlank(withdrawal.destination)
    /\ withdrawal.destinationHash = Canonical(DestinationElement(mode, withdrawal.destination))

-----------------------------------------------------------------------------
(***************************************************************************)
(* Witness building: the balance input, the same for both circuits, and    *)
(* the input of the v1 circuit.                                            *)
(***************************************************************************)

\* The amounts that count are those whose owner equals the trimmed owner of
\* the first account to the letter.
Counted(items, account) == {i \in DOMAIN items : items[i].owner = TrimSpace(account.owner)}

Total(items, account) ==
  MapThenSumSet(LAMBDA i : Amount(items[i].amount), Counted(items, account))

BalanceInput(req) ==
  LET account == req.accounts[1] IN
  [oldBalance     |-> Amount(account.oldBalance),
   newBalance     |-> Amount(account.newBalance),
   depositAmount  |-> Total(req.update.deposits, account),
   withdrawAmount |-> Total(req.update.withdrawals, account)]

BalanceInputValid(req) ==
  LET account == req.accounts[1] IN
  /\ ~IsBlank(account.owner)
  /\ IsAmount(account.oldBalance) /\ IsAmount(account.newBalance)
  /\ \A i \in Counted(req.update.deposits, account) :
       IsAmount(req.update.deposits[i].amount)
  /\ \A i \in Counted(req.update.withdrawals, account) :
       IsAmount(req.update.withdrawals[i].amount)
  /\ LET in == BalanceInput(req) IN
     in.oldBalance + in.depositAmount = in.newBalance + in.withdrawAmount

\* The withdrawals the v1 circuit looks at are found by trimmed owner.
OfOwner(req) ==
  {w \in DOMAIN req.update.withdrawals :
     SameOwner(req.update.withdrawals[w], req.accounts[1])}

BoundWithdrawal(req) == req.update.withdrawals[CHOOSE w \in OfOwner(req) : TRUE]

\* Mutant of SettlementInputValid: the first of several withdrawals is taken.
SettlementInputValidFirst(req) ==
  /\ BalanceInputValid(req)
  /\ Len(req.accounts) = 1
  /\ ~IsBlank(req.accounts[1].userSecret)
  /\ IsAmount(req.accounts[1].nonce)
  /\ OfOwner(req) # {}
  /\ IsHex(BoundWithdrawal(req).nullifier)
  /\ ~IsBlank(BoundWithdrawal(req).destination)
  /\ IsHex(BoundWithdrawal(req).destinationHash)
  /\ IsHex(req.update.oldStateRoot) /\ IsHex(req.update.newStateRoot)

SettlementInputValid(req) ==
  /\ BalanceInputValid(req)
  /\ Len(req.accounts) = 1
  /\ ~IsBlank(req.accounts[1].userSecret)
  /\ IsAmount(req.accounts[1].nonce)
  /\ \E w \in OfOwner(req) : OfOwner(req) = {w}
  /\ IsHex(BoundWithdrawal(req).nullifier)
  /\ ~IsBlank(BoundWithdrawal(req).destination)
  /\ IsHex(BoundWithdrawal(req).destinationHash)
  /\ IsHex(req.update.oldStateRoot) /\ IsHex(req.update.newStateRoot)

-----------------------------------------------------------------------------
(***************************************************************************)
(* The circuits, over the field.                                           *)
(***************************************************************************)

BalanceCircuit(req) ==
  LET in == BalanceInput(req) IN
  Scalar(in.oldBalance + in.depositAmount) = Scalar(in.newBalance + in.withdrawAmount)

\* Nullifier, destination hash and the two roots are the public witness of
\* the v1 circuit; the balance circuit has none.
PublicWitness(mode, update, withdrawal) ==
  IF mode = V0 THEN <<>>
  ELSE <<Element(withdrawal.nullifier), Element(withdrawal.destinationHash),
         Element(update.oldStateRoot), Element(update.newStateRoot)>>

SettlementCircuit(req) ==
  LET account == req.accounts[1]
      in      == BalanceInput(req)
  IN  /\ BalanceCircuit(req)
      /\ PublicWitness(V1, req.update, BoundWithdrawal(req)) =
           <<MiMC(<<SecretField(account.userSecret), Scalar(Amount(account.nonce))>>),
             MiMC(<<DestinationField(BoundWithdrawal(req).destination)>>),
             AccountCommitment(account.owner, in.oldBalance),
             AccountCommitment(account.owner, in.newBalance)>>

-----------------------------------------------------------------------------
(***************************************************************************)
(* Prove and Verify.  A key stands for one run of groth16.Setup: a proving *)
(* key and its verifying key, for one circuit.                             *)
(***************************************************************************)

VerificationKeyID(mode) ==
  IF mode = V1 THEN "gazk-settlement-v1-mimc-nullifier-smoke-v1" ELSE "gazk-balance-smoke-v1"

ServiceAccepts(mode, req) ==
  /\ HasRequiredFields(req)
  /\ AllExternal(PublicInputs(req.update, req.commitments))
  /\ NullifiersBound(mode, req)
  /\ DestinationsBound(mode, req)

Provable(mode, req) ==
  /\ ServiceAccepts(mode, req)
  /\ IF mode = V1 THEN SettlementInputValid(req) /\ SettlementCircuit(req)
     ELSE BalanceInputValid(req) /\ BalanceCircuit(req)

\* The bundle the service returns for a provable request.
BundleFor(mode, key, req) ==
  [proof |-> Text(<<"proof", [mode   |-> mode,
                              key    |-> key,
                              public |-> PublicWitness(mode, req.update, BoundWithdrawal(req))]>>),
   publicInputs      |-> PublicInputs(req.update, req.commitments),
   verificationKeyId |-> VerificationKeyID(mode)]

\* groth16.Verify, after the proof text has been trimmed, decoded and
\* deserialised.
ProofVerifies(text, mode, key, public) ==
  /\ text.val[1] = "proof"
  /\ text.val[2] = [mode |-> mode, key |-> key, public |-> public]

\* Mutant of EngineVerifies: the public witness is not built from the update.
EngineVerifiesAnyWitness(mode, key, update, bundle) ==
  /\ mode = V1 => Len(update.withdrawals) = 1
  /\ bundle.proof.val[1] = "proof"
  /\ bundle.proof.val[2].mode = mode
  /\ bundle.proof.val[2].key = key

\* The public witness is taken from the update alone; with v1 the update
\* must have one withdrawal and four hex fields.
EngineVerifies(mode, key, update, bundle) ==
  IF mode = V0 THEN ProofVerifies(bundle.proof, V0, key, <<>>)
  ELSE /\ Len(update.withdrawals) = 1
       /\ IsHex(update.withdrawals[1].nullifier)
       /\ IsHex(update.withdrawals[1].destinationHash)
       /\ IsHex(update.oldStateRoot) /\ IsHex(update.newStateRoot)
       /\ ProofVerifies(bundle.proof, V1, key,
                        PublicWitness(V1, update, update.withdrawals[1]))

Verifies(mode, key, update, commitments, bundle) ==
  /\ AllExternal(PublicInputs(update, commitments))
  /\ Len(bundle.publicInputs) = 6
  /\ AllExternal(bundle.publicInputs)
  /\ bundle.publicInputs = PublicInputs(update, commitments)
  /\ bundle.verificationKeyId = VerificationKeyID(mode)
  /\ EngineVerifies(mode, key, update, bundle)
=============================================================================
