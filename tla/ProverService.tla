--------------------------- MODULE ProverService ---------------------------
(***************************************************************************)
(* gazk processes in service: they start with an engine, prove and verify  *)
(* settlement batches and export verifier artifacts, end and start again.  *)
(* Their clients keep the bundles and the artifacts and bring them to      *)
(* whichever process runs later.                                           *)
(*                                                                         *)
(* Each hash mode has its own key files, hence its own KeyDirectory, the   *)
(* promise that KeyStore is checked to keep when starts do not overlap.    *)
(* The handlers of one process share nothing they write, so a request is   *)
(* one step; a request that is turned down changes nothing.                *)
(***************************************************************************)
EXTENDS Settlement

CONSTANTS
  Procs, Persistent, Keys, NoKey,
  HashModeEnv,   \* HashModeEnv[p]: the GAZK_HASH_MODE text p starts with
  Requests,      \* prove requests clients send
  MaxIssued,     \* bound: bundles issued
  MaxExported,   \* bound: artifacts exported
  MaxAccepted    \* bound: verify requests answered "valid"

ASSUME PersistentAssumption == Persistent \subseteq Procs
ASSUME NoKeyAssumption == NoKey \notin Keys

\* What JSON decoding yields: the lists of a request are lists.
IsList(s) == Len(s) \in Nat /\ DOMAIN s = 1..Len(s)

ASSUME RequestsAssumption ==
  \A req \in Requests : IsList(req.accounts) /\ IsList(req.update.withdrawals)

VARIABLES
  persisted,  \* persisted[m]: the key pair kept on disk for mode m
  engine,     \* engine[p]: the key pair in the engine of p
  issued,     \* answers of POST /prove, with the request
  exported,   \* answers of GET /verifier-artifact and of the export command
  accepted    \* POST /verify requests answered {"valid": true}

vars == <<persisted, engine, issued, exported, accepted>>

KeyOrNone == Keys \union {NoKey}

\* NewServiceWithHashMode: blank is v0, an unknown mode leaves the service
\* without an engine.
ParseHashMode(text) ==
  IF IsBlank(text) THEN V0
  ELSE IF text.val[2] \in Modes THEN text.val[2] ELSE "unknown"

ModeOf(p)  == ParseHashMode(HashModeEnv[p])
ProcsOf(m) == {p \in Procs : ModeOf(p) = m}

Dir(m) == INSTANCE KeyDirectory WITH
  Procs      <- ProcsOf(m),
  Persistent <- Persistent \intersect ProcsOf(m),
  persisted  <- persisted[m],
  engine     <- [p \in ProcsOf(m) |-> engine[p]]

Init ==
  /\ persisted = [m \in Modes |-> NoKey]
  /\ engine = [p \in Procs |-> NoKey]
  /\ issued = {}
  /\ exported = {}
  /\ accepted = {}

-----------------------------------------------------------------------------
(***************************************************************************)
(* Engines come and go as the key directories allow.                       *)
(***************************************************************************)

EstablishKeys(m) ==
  /\ \E k \in Keys : persisted' = [persisted EXCEPT ![m] = k]
  /\ UNCHANGED <<engine, issued, exported, accepted>>
  /\ Dir(m)!Establish

\* Mutant of StartEngine: every start has keys of its own.
StartEngineFresh(p) ==
  /\ ModeOf(p) \in Modes
  /\ engine[p] = NoKey
  /\ \E k \in Keys : engine' = [engine EXCEPT ![p] = k]
  /\ UNCHANGED <<persisted, issued, exported, accepted>>

StartEngine(p) ==
  /\ ModeOf(p) \in Modes
  /\ \E k \in Keys : engine' = [engine EXCEPT ![p] = k]
  /\ UNCHANGED <<persisted, issued, exported, accepted>>
  /\ Dir(ModeOf(p))!Attach(p) \/ Dir(ModeOf(p))!AttachPrivate(p)

StopEngine(p) ==
  /\ ModeOf(p) \in Modes
  /\ engine' = [engine EXCEPT ![p] = NoKey]
  /\ UNCHANGED <<persisted, issued, exported, accepted>>
  /\ Dir(ModeOf(p))!Detach(p)

-----------------------------------------------------------------------------
(***************************************************************************)
(* Requests to a process whose engine is up.                               *)
(***************************************************************************)

Prove(p, req) ==
  /\ engine[p] # NoKey
  /\ Cardinality(issued) < MaxIssued
  /\ Provable(ModeOf(p), req)
  /\ issued' = issued \union
       {[by |-> p, mode |-> ModeOf(p), key |-> engine[p], request |-> req,
         bundle |-> BundleFor(ModeOf(p), engine[p], req)]}
  /\ UNCHANGED <<persisted, engine, exported, accepted>>

\* Mutant of VerifierArtifact: exports without an engine.
VerifierArtifactBlind(p) ==
  /\ Cardinality(exported) < MaxExported
  /\ exported' = exported \union
       {[by |-> p, verificationKeyId |-> VerificationKeyID(ModeOf(p)),
         hashMode |-> ModeOf(p), verifyingKey |-> engine[p]]}
  /\ UNCHANGED <<persisted, engine, issued, accepted>>

VerifierArtifact(p) ==
  /\ engine[p] # NoKey
  /\ Cardinality(exported) < MaxExported
  /\ exported' = exported \union
       {[by |-> p, verificationKeyId |-> VerificationKeyID(ModeOf(p)),
         hashMode |-> ModeOf(p), verifyingKey |-> engine[p]]}
  /\ UNCHANGED <<persisted, engine, issued, accepted>>

\* What a client brings along to verify a batch: the bundle as it got it, or
\* with the public inputs of this batch in it, under another key ID, with
\* an input missing, or with white space around or nothing left of the proof.
Presented(bundle, req) ==
  {bundle,
   [bundle EXCEPT !.publicInputs = PublicInputs(req.update, req.commitments)],
   [bundle EXCEPT !.publicInputs = Tail(@)],
   [bundle EXCEPT !.proof = Padded(@.val)],
   [bundle EXCEPT !.proof = Text(Blank)]}
  \union {[bundle EXCEPT !.verificationKeyId = VerificationKeyID(m)] : m \in Modes}

\* A client may hold the bundle of one batch against the update of another.
Verify(p, req, bundle) ==
  /\ engine[p] # NoKey
  /\ Verifies(ModeOf(p), engine[p], req.update, req.commitments, bundle)
  /\ accepted' = accepted \union
       {[mode |-> ModeOf(p), key |-> engine[p], update |-> req.update,
         commitments |-> req.commitments, bundle |-> bundle]}
  /\ UNCHANGED <<persisted, engine, issued, exported>>

Next ==
  \/ \E m \in Modes : EstablishKeys(m)
  \/ \E p \in Procs :
       \/ StartEngine(p)
       \/ StopEngine(p)
       \/ \E req \in Requests : Prove(p, req)
       \/ VerifierArtifact(p)
       \/ /\ Cardinality(accepted) < MaxAccepted
          /\ \E req \in Requests, i \in issued :
               \E bundle \in Presented(i.bundle, req) : Verify(p, req, bundle)

Spec == Init /\ [][Next]_vars

-----------------------------------------------------------------------------
TypeOK ==
  /\ persisted \in [Modes -> KeyOrNone]
  /\ engine \in [Procs -> KeyOrNone]
  /\ \A i \in issued :
       /\ i.by \in Procs /\ i.mode \in Modes /\ i.key \in Keys /\ i.request \in Requests
       /\ i.bundle = BundleFor(i.mode, i.key, i.request)
  /\ \A e \in exported : e.by \in Procs /\ e.hashMode \in Modes /\ e.verifyingKey \in Keys
  /\ \A a \in accepted : a.mode \in Modes /\ a.key \in Keys

\* The keys of a process are those of another, or of an earlier start of it,
\* if both keep theirs in the key directory.
SharesKeys(p, i) == engine[p] = i.key \/ {p, i.by} \subseteq Persistent

\* A bundle verifies with the update and the commitments it was made for,
\* at the engine that made it and at every later engine on the same key
\* directory: whatever Prove lets through, Verify takes.
BundleVerifies ==
  \A i \in issued, p \in Procs :
    engine[p] # NoKey /\ ModeOf(p) = i.mode /\ SharesKeys(p, i) =>
      Verifies(i.mode, engine[p], i.request.update, i.request.commitments, i.bundle)

\* An answer "valid" goes back to a proof this prover made, in the same mode
\* and under the same keys; with v1 to one for the nullifier, destination
\* hash and state roots of the very update, all derived from the witness,
\* with the balances the roots commit to in balance.
AcceptedWasProved ==
  \A a \in accepted : \E i \in issued :
    /\ i.mode = a.mode /\ i.key = a.key
    /\ a.bundle.publicInputs = PublicInputs(a.update, a.commitments)
    /\ a.mode = V1 =>
         LET account    == i.request.accounts[1]
             withdrawal == a.update.withdrawals[1]
             in         == BalanceInput(i.request)
         IN  /\ Len(a.update.withdrawals) = 1
             /\ Element(withdrawal.nullifier) =
                  NullifierElement(V1, account.userSecret, account.nonce)
             /\ Element(withdrawal.destinationHash) =
                  DestinationElement(V1, BoundWithdrawal(i.request).destination)
             /\ Element(a.update.oldStateRoot) = AccountCommitment(account.owner, in.oldBalance)
             /\ Element(a.update.newStateRoot) = AccountCommitment(account.owner, in.newBalance)
             /\ in.oldBalance + in.depositAmount = in.newBalance + in.withdrawAmount

\* An artifact and a bundle with one verificationKeyId fit together.
Fits(e, i) ==
  e.verificationKeyId = i.bundle.verificationKeyId =>
    EngineVerifies(e.hashMode, e.verifyingKey, i.request.update, i.bundle)

\* An artifact exported from a key directory, by the server or by the export
\* command, verifies every bundle with its key ID that came from there.
ArtifactFits ==
  \A e \in exported, i \in issued : {e.by, i.by} \subseteq Persistent => Fits(e, i)

\* The hash checks of the service and the constraints of the v1 circuit are
\* written twice and agree: a v1 engine that has let a request through the
\* former fails to prove it only for state roots that do not commit to its
\* balances.
ChecksMatchCircuit ==
  \A p \in Procs : engine[p] # NoKey /\ ModeOf(p) = V1 =>
    \A req \in Requests :
      /\ ServiceAccepts(V1, req)
      /\ SettlementInputValid(req)
      /\ Element(req.update.oldStateRoot) =
           AccountCommitment(req.accounts[1].owner, BalanceInput(req).oldBalance)
      /\ Element(req.update.newStateRoot) =
           AccountCommitment(req.accounts[1].owner, BalanceInput(req).newBalance)
      => Provable(V1, req)

-----------------------------------------------------------------------------
\* The withdrawal a v1 proof is about is part of its balance equation, as
\* the comment on SettlementCircuitV1 has it.
BoundWithdrawalCounted ==
  \A i \in issued : i.mode = V1 =>
    BalanceInput(i.request).withdrawAmount = Amount(BoundWithdrawal(i.request).amount)
=============================================================================
