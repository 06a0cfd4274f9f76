---------------------------- MODULE HashPayloads ----------------------------
(***************************************************************************)
(* What the hash functions of the prover package hash, to the text: SHA-256*)
(* of a domain tag, the caller's text and, for a v0 or a transitional v1   *)
(* nullifier, the nonce, joined by "|", which the text may contain too;    *)
(* with v1 a field element made of that, and MiMC of it.                   *)
(*                                                                         *)
(* Settlement takes the hashes for free constructors.  This is where that  *)
(* comes from, given only that SHA-256 and MiMC themselves do not collide. *)
(***************************************************************************)
EXTENDS Settlement

CONSTANTS
  Texts,      \* secrets, destinations and owners: sequences of pieces
  Numbers,    \* nonces and balances
  MaxComputed  \* bound: hashes computed

VARIABLE computed  \* the hashes computed, with the call that did

\* Between its bars a text is a sequence of pieces, numbers or others.
Number(n) == <<"number", n>>
Other(w)  == <<"other", w>>
Pieces(t) == t.val[2]

\* A text that is not blank is what stands between its bars.
ASSUME TextsAssumption ==
  \A t \in Texts : IsBlank(t) \/ (t.val = Word(Pieces(t)) /\ Pieces(t) \in Seq(Range(Pieces(t))))

TaggedText(tag, text) == <<Other(tag)>> \o Pieces(TrimSpace(text))

NullifierFor(secret, nonce) ==
  <<"sha256", TaggedText("zkdex/nullifier/v0", secret) \o <<Number(nonce)>>>>

DestinationHashFor(dest) == <<"sha256", TaggedText("zkdex/withdrawAddr/v0", dest)>>

\* The helpers of hash_v1.go: everything in one text, hashed to one element.
mimcV1(payload) == MiMC(<<<<"sha256", payload>>>>)

\* Mutant of NullifierForV1: the tag of the destination hash.
NullifierForV1OneTag(secret, nonce) ==
  mimcV1(TaggedText("zkdex/withdrawAddr/v1", secret) \o <<Number(nonce)>>)

NullifierForV1(secret, nonce) ==
  mimcV1(TaggedText("zkdex/nullifier/v1", secret) \o <<Number(nonce)>>)

DestinationHashForV1(dest) == mimcV1(TaggedText("zkdex/withdrawAddr/v1", dest))

\* What the circuits recompute: the number is an element of its own.
FieldForV1(tag, text) == <<"sha256", TaggedText(tag, text)>>

NullifierCircuitV1Hex(secret, nonce) ==
  MiMC(<<FieldForV1("zkdex/secretField/v1", secret), Scalar(nonce)>>)

DestinationHashCircuitV1Hex(dest) == MiMC(<<FieldForV1("zkdex/destinationField/v1", dest)>>)

AccountCommitmentCircuitV1Hex(owner, balance) ==
  MiMC(<<FieldForV1("zkdex/ownerField/v1", owner), Scalar(balance)>>)

-----------------------------------------------------------------------------
NothingComputed == computed = {}

ComputeHash(function, text, number, hash) ==
  /\ ~IsBlank(text)
  /\ number >= 0
  /\ computed' = computed \union
       {[function |-> function, text |-> text, number |-> number, hash |-> hash]}
  /\ Cardinality(computed') <= MaxComputed

ComputeSome == \E text \in Texts :
  \/ ComputeHash("DestinationHashFor", text, 0, DestinationHashFor(text))
  \/ ComputeHash("DestinationHashForV1", text, 0, DestinationHashForV1(text))
  \/ ComputeHash("DestinationHashCircuitV1Hex", text, 0, DestinationHashCircuitV1Hex(text))
  \/ \E n \in Numbers :
       \/ ComputeHash("NullifierFor", text, n, NullifierFor(text, n))
       \/ ComputeHash("NullifierForV1", text, n, NullifierForV1(text, n))
       \/ ComputeHash("NullifierCircuitV1Hex", text, n, NullifierCircuitV1Hex(text, n))
       \/ ComputeHash("AccountCommitmentCircuitV1Hex", text, n, AccountCommitmentCircuitV1Hex(text, n))

-----------------------------------------------------------------------------
\* The number counts as it is, or, where it is a field element, modulo the
\* size of the field.
SameNumber(x, y) ==
  IF x.function \in {"NullifierCircuitV1Hex", "AccountCommitmentCircuitV1Hex"}
  THEN Scalar(x.number) = Scalar(y.number)
  ELSE x.number = y.number

\* Two computed hashes are equal only when one function computed both, for the
\* same text but for white space around it and for the same number: no bar
\* in a text makes a nullifier pass for another or for a destination hash.
HashesSeparate ==
  \A x, y \in computed :
    x.hash = y.hash <=>
      /\ x.function = y.function
      /\ TrimSpace(x.text) = TrimSpace(y.text)
      /\ SameNumber(x, y)
=============================================================================
