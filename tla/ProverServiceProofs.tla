------------------------ MODULE ProverServiceProofs ------------------------
(***************************************************************************)
(* Theorems about ProverService, for every set of processes, keys and      *)
(* requests and every field size.                                          *)
(***************************************************************************)
EXTENDS ProverService, TLAPS

-----------------------------------------------------------------------------
(***************************************************************************)
(* Prove and Verify agree on one request.                                  *)
(***************************************************************************)

\* In a request the v1 circuit takes, the one withdrawal that belongs to the
\* account is the only one: the nullifier check left no room for others.
LEMMA OneWithdrawal ==
  ASSUME NEW req, IsList(req.accounts), IsList(req.update.withdrawals),
         NullifiersBound(V1, req), SettlementInputValid(req)
  PROVE  /\ Len(req.update.withdrawals) = 1
         /\ BoundWithdrawal(req) = req.update.withdrawals[1]
<1> DEFINE ws == req.update.withdrawals
<1>1. DOMAIN req.accounts = {1}
  BY DEF SettlementInputValid, IsList
<1>2. \A w \in DOMAIN ws : SameOwner(ws[w], req.accounts[1])
  BY <1>1 DEF NullifiersBound
<1>3. OfOwner(req) = DOMAIN ws
  BY <1>2 DEF OfOwner
<1>4. PICK w \in DOMAIN ws : DOMAIN ws = {w}
  BY <1>3 DEF SettlementInputValid
<1>5. Len(ws) = 1 /\ w = 1
  <2>1. Len(ws) \in Nat /\ 1..Len(ws) = {w} /\ w \in 1..Len(ws)
    BY <1>4 DEF IsList
  <2>2. 1 \in 1..Len(ws) /\ Len(ws) \in 1..Len(ws)
    BY <2>1
  <2> QED
    BY <2>1, <2>2
<1>6. OfOwner(req) = {1}
  BY <1>3, <1>4, <1>5
<1>7. (CHOOSE i \in OfOwner(req) : TRUE) = 1
  BY <1>6
<1> QED
  BY <1>5, <1>7 DEF BoundWithdrawal

\* Whatever Prove lets through, Verify takes under the same keys.
LEMMA RoundTrip ==
  ASSUME NEW mode \in Modes, NEW key, NEW req,
         IsList(req.accounts), IsList(req.update.withdrawals),
         Provable(mode, req)
  PROVE  Verifies(mode, key, req.update, req.commitments, BundleFor(mode, key, req))
<1> DEFINE bundle == BundleFor(mode, key, req)
           inputs == PublicInputs(req.update, req.commitments)
<1>1. /\ bundle.publicInputs = inputs
      /\ bundle.verificationKeyId = VerificationKeyID(mode)
      /\ bundle.proof.val[1] = "proof"
      /\ bundle.proof.val[2] =
           [mode |-> mode, key |-> key,
            public |-> PublicWitness(mode, req.update, BoundWithdrawal(req))]
  BY DEF BundleFor, Text
<1>2. AllExternal(inputs) /\ Len(inputs) = 6
  BY DEF Provable, ServiceAccepts, PublicInputs
<1>3. EngineVerifies(mode, key, req.update, bundle)
  <2>1. CASE mode = V0
    BY <1>1, <2>1 DEF EngineVerifies, ProofVerifies, PublicWitness
  <2>2. CASE mode = V1
    <3>1. SettlementInputValid(req) /\ NullifiersBound(V1, req)
      BY <2>2 DEF Provable, ServiceAccepts
    <3>2. /\ Len(req.update.withdrawals) = 1
          /\ BoundWithdrawal(req) = req.update.withdrawals[1]
      BY <3>1, OneWithdrawal
    <3> HIDE DEF bundle
    <3> QED
      BY <1>1, <2>2, <3>1, <3>2
      DEF EngineVerifies, ProofVerifies, SettlementInputValid, V0, V1
  <2> QED
    BY <2>1, <2>2 DEF Modes
<1> HIDE DEF bundle, inputs
<1> QED
  BY <1>1, <1>2, <1>3 DEF Verifies, bundle, inputs

-----------------------------------------------------------------------------
(***************************************************************************)
(* Keys: what a key directory gives to the engines of one mode, and the    *)
(* bundles and artifacts that carry it.                                    *)
(***************************************************************************)

\* A running engine has keys; with a key directory, those of its mode.
EngineInv ==
  /\ persisted \in [Modes -> KeyOrNone]
  /\ engine \in [Procs -> KeyOrNone]
  /\ \A p \in Procs : engine[p] # NoKey => ModeOf(p) \in Modes
  /\ \A p \in Persistent : engine[p] # NoKey => engine[p] = persisted[ModeOf(p)]

\* Key k went out from process p, which keeps its keys if it has a directory.
FromEngine(p, k) ==
  /\ p \in Procs /\ k \in Keys /\ ModeOf(p) \in Modes
  /\ p \in Persistent => k = persisted[ModeOf(p)]

IssuedInv ==
  \A i \in issued :
    /\ FromEngine(i.by, i.key)
    /\ i.mode = ModeOf(i.by)
    /\ i.request \in Requests /\ Provable(i.mode, i.request)
    /\ i.bundle = BundleFor(i.mode, i.key, i.request)

ExportedInv ==
  \A e \in exported :
    /\ FromEngine(e.by, e.verifyingKey)
    /\ e.hashMode = ModeOf(e.by)
    /\ e.verificationKeyId = VerificationKeyID(e.hashMode)

KeysInv == EngineInv /\ IssuedInv /\ ExportedInv

\* At first no engine has keys and nothing was issued.
LEMMA KeysInit == Init => KeysInv
  BY PersistentAssumption DEF Init, KeysInv, EngineInv, IssuedInv, ExportedInv, KeyOrNone

\* The directory of a mode is written once, while no engine runs on it.
LEMMA EstablishStep ==
  ASSUME KeysInv, NEW m \in Modes, EstablishKeys(m)
  PROVE  KeysInv'
<1>1. PICK k \in Keys : persisted' = [persisted EXCEPT ![m] = k]
  BY DEF EstablishKeys
<1>2. persisted[m] = NoKey /\ UNCHANGED <<engine, issued, exported>>
  BY DEF EstablishKeys, Dir!Establish
<1>3. EngineInv'
  BY <1>1, <1>2, PersistentAssumption DEF KeysInv, EngineInv, KeyOrNone
<1>4. \A p, kk : FromEngine(p, kk) => FromEngine(p, kk)'
  BY <1>1, <1>2, NoKeyAssumption DEF FromEngine, KeysInv, EngineInv
<1>5. IssuedInv' /\ ExportedInv'
  BY <1>2, <1>4 DEF KeysInv, IssuedInv, ExportedInv
<1> QED
  BY <1>3, <1>5 DEF KeysInv

\* An engine on a directory takes the keys that are there.
LEMMA StartStep ==
  ASSUME KeysInv, NEW p \in Procs, StartEngine(p)
  PROVE  KeysInv'
<1>1. PICK k \in Keys : engine' = [engine EXCEPT ![p] = k]
  BY DEF StartEngine
<1>2. UNCHANGED <<persisted, issued, exported>> /\ ModeOf(p) \in Modes
  BY DEF StartEngine
<1>3. p \in Persistent => k = persisted[ModeOf(p)]
  <2> SUFFICES ASSUME p \in Persistent PROVE k = persisted[ModeOf(p)]
    OBVIOUS
  <2>1. p \in ProcsOf(ModeOf(p)) /\ p \in Persistent \intersect ProcsOf(ModeOf(p))
    BY DEF ProcsOf
  <2>2. Dir(ModeOf(p))!Attach(p)
    BY <2>1 DEF StartEngine, Dir!AttachPrivate
  <2>3. [q \in ProcsOf(ModeOf(p)) |-> engine'[q]][p] = persisted[ModeOf(p)]
    BY <2>1, <2>2 DEF Dir!Attach
  <2> QED
    BY <1>1, <2>1, <2>3 DEF KeysInv, EngineInv
<1>4. EngineInv'
  BY <1>1, <1>2, <1>3 DEF KeysInv, EngineInv, KeyOrNone
<1>5. IssuedInv' /\ ExportedInv'
  BY <1>2 DEF KeysInv, IssuedInv, ExportedInv, FromEngine
<1> QED
  BY <1>4, <1>5 DEF KeysInv

\* Answers carry the keys of the engine that gave them.
LEMMA ServeStep ==
  ASSUME KeysInv, NEW p \in Procs,
         \/ StopEngine(p) \/ VerifierArtifact(p)
         \/ \E req \in Requests : Prove(p, req)
         \/ \E req, bundle : Verify(p, req, bundle)
  PROVE  KeysInv'
<1>1. CASE StopEngine(p)
  BY <1>1, PersistentAssumption
  DEF StopEngine, KeysInv, EngineInv, KeyOrNone, IssuedInv, ExportedInv, FromEngine
<1>2. ASSUME engine[p] # NoKey PROVE FromEngine(p, engine[p])
  BY <1>2 DEF KeysInv, EngineInv, FromEngine, KeyOrNone
<1>3. ASSUME NEW req \in Requests, Prove(p, req) PROVE KeysInv'
  <2>1. FromEngine(p, engine[p]) /\ Provable(ModeOf(p), req)
    BY <1>2, <1>3 DEF Prove
  <2>2. UNCHANGED <<persisted, engine, exported>>
    BY <1>3 DEF Prove
  <2>3. IssuedInv'
    BY <1>3, <2>1, <2>2 DEF Prove, KeysInv, IssuedInv, FromEngine
  <2> QED
    BY <2>2, <2>3 DEF KeysInv, EngineInv, ExportedInv, FromEngine
<1>4. CASE VerifierArtifact(p)
  <2>1. FromEngine(p, engine[p])
    BY <1>2, <1>4 DEF VerifierArtifact
  <2>2. UNCHANGED <<persisted, engine, issued>>
    BY <1>4 DEF VerifierArtifact
  <2>3. ExportedInv'
    BY <1>4, <2>1, <2>2 DEF VerifierArtifact, KeysInv, ExportedInv, FromEngine
  <2> QED
    BY <2>2, <2>3 DEF KeysInv, EngineInv, IssuedInv, FromEngine
<1>5. ASSUME NEW req, NEW bundle, Verify(p, req, bundle) PROVE KeysInv'
  BY <1>5 DEF Verify, KeysInv, EngineInv, IssuedInv, ExportedInv, FromEngine
<1> QED
  BY <1>1, <1>3, <1>4, <1>5

\* Every step keeps what is known of keys, bundles and artifacts.
LEMMA KeysStep == KeysInv /\ [Next]_vars => KeysInv'
<1> SUFFICES ASSUME KeysInv, [Next]_vars PROVE KeysInv'
  OBVIOUS
<1>1. CASE UNCHANGED vars
  BY <1>1 DEF vars, KeysInv, EngineInv, IssuedInv, ExportedInv, FromEngine
<1>2. CASE Next
  BY <1>2, EstablishStep, StartStep, ServeStep DEF Next
<1> QED
  BY <1>1, <1>2

\* What is known of keys, bundles and artifacts holds in every behaviour.
LEMMA KeysInvariant == Spec => []KeysInv
  BY KeysInit, KeysStep, PTL DEF Spec

\* Type correctness: no key but a real one ever leaves a process, and the
\* bundles kept are the ones Prove made.
THEOREM ServiceTypeCorrect == Spec => []TypeOK
<1>1. Init => TypeOK
  BY DEF Init, TypeOK, KeyOrNone
<1>2. KeysInv /\ KeysInv' /\ TypeOK /\ [Next]_vars => TypeOK'
  <2> SUFFICES ASSUME KeysInv, KeysInv', TypeOK, [Next]_vars PROVE TypeOK'
    OBVIOUS
  <2> DEFINE AcceptedOK == \A a \in accepted : a.mode \in Modes /\ a.key \in Keys
  <2>1. AcceptedOK'
    <3>1. CASE accepted' = accepted
      BY <3>1 DEF TypeOK
    <3>2. ASSUME NEW p \in Procs, NEW req \in Requests, NEW bundle, Verify(p, req, bundle)
          PROVE  AcceptedOK'
      BY <3>2 DEF Verify, TypeOK, KeysInv, EngineInv, KeyOrNone
    <3> QED
      BY <3>1, <3>2
      DEF Next, vars, EstablishKeys, StartEngine, StopEngine, Prove, VerifierArtifact
  <2>2. KeysInv' /\ AcceptedOK' => TypeOK'
    BY DEF KeysInv, EngineInv, IssuedInv, ExportedInv, FromEngine, TypeOK
  <2> QED
    BY <2>1, <2>2
<1> QED
  BY KeysInvariant, <1>1, <1>2, PTL DEF Spec

-----------------------------------------------------------------------------
\* Every bundle ever issued verifies, for its own batch, at its engine and at
\* every later engine that shares its keys: neither the other batches, nor
\* restarts, nor the many checks of Verify can make it void.
THEOREM BundleVerifiesHolds == Spec => []BundleVerifies
<1>1. KeysInv => BundleVerifies
  <2> SUFFICES ASSUME KeysInv, NEW i \in issued, NEW p \in Procs,
                      engine[p] # NoKey, ModeOf(p) = i.mode, SharesKeys(p, i)
               PROVE  Verifies(i.mode, engine[p], i.request.update, i.request.commitments,
                               i.bundle)
    BY DEF BundleVerifies
  <2>1. engine[p] = i.key
    BY DEF SharesKeys, KeysInv, EngineInv, IssuedInv, FromEngine
  <2>2. /\ i.mode \in Modes /\ Provable(i.mode, i.request)
        /\ i.bundle = BundleFor(i.mode, i.key, i.request)
        /\ IsList(i.request.accounts) /\ IsList(i.request.update.withdrawals)
    BY RequestsAssumption DEF KeysInv, IssuedInv, FromEngine
  <2> QED
    BY <2>1, <2>2, RoundTrip
<1> QED
  BY KeysInvariant, <1>1, PTL

\* Every artifact exported from a key directory verifies every bundle that
\* has its key ID and comes from the same directory, whichever process made
\* the one and the other and however often they were restarted.
THEOREM ArtifactFitsHolds == Spec => []ArtifactFits
<1>1. KeysInv => ArtifactFits
  <2> SUFFICES ASSUME KeysInv, NEW e \in exported, NEW i \in issued,
                      {e.by, i.by} \subseteq Persistent,
                      e.verificationKeyId = i.bundle.verificationKeyId
               PROVE  EngineVerifies(e.hashMode, e.verifyingKey, i.request.update, i.bundle)
    BY DEF ArtifactFits, Fits
  <2>1. /\ i.mode \in Modes /\ Provable(i.mode, i.request)
        /\ i.bundle = BundleFor(i.mode, i.key, i.request)
        /\ IsList(i.request.accounts) /\ IsList(i.request.update.withdrawals)
    BY RequestsAssumption DEF KeysInv, IssuedInv, FromEngine
  <2>2. e.hashMode = i.mode
    BY <2>1
    DEF KeysInv, IssuedInv, ExportedInv, FromEngine, BundleFor, VerificationKeyID, Modes, V0, V1
  <2>3. e.verifyingKey = i.key
    BY <2>2 DEF KeysInv, IssuedInv, ExportedInv, FromEngine
  <2>4. Verifies(i.mode, i.key, i.request.update, i.request.commitments, i.bundle)
    BY <2>1, RoundTrip
  <2> QED
    BY <2>2, <2>3, <2>4 DEF Verifies
<1> QED
  BY KeysInvariant, <1>1, PTL

-----------------------------------------------------------------------------
\* The service's own derivation of nullifier and destination hash agrees with
\* the circuit's for every request and every field size.
LEMMA CircuitTakesChecked ==
  ASSUME NEW req \in Requests,
         ServiceAccepts(V1, req), SettlementInputValid(req),
         Element(req.update.oldStateRoot) =
           AccountCommitment(req.accounts[1].owner, BalanceInput(req).oldBalance),
         Element(req.update.newStateRoot) =
           AccountCommitment(req.accounts[1].owner, BalanceInput(req).newBalance)
  PROVE  SettlementCircuit(req)
<1> DEFINE bound == req.update.withdrawals[1]
           account == req.accounts[1]
<1>1. IsList(req.accounts) /\ IsList(req.update.withdrawals)
  BY RequestsAssumption
<1>2. Len(req.update.withdrawals) = 1 /\ BoundWithdrawal(req) = bound
  BY <1>1, OneWithdrawal DEF ServiceAccepts
<1>3. DOMAIN req.accounts = {1} /\ 1 \in DOMAIN req.update.withdrawals
  BY <1>1, <1>2 DEF SettlementInputValid, IsList
<1>4. BalanceCircuit(req)
  BY DEF SettlementInputValid, BalanceInputValid, BalanceCircuit
<1>5. bound.nullifier = Canonical(NullifierElement(V1, account.userSecret, account.nonce))
  BY <1>3 DEF ServiceAccepts, NullifiersBound
<1>6. bound.destinationHash = Canonical(DestinationElement(V1, bound.destination))
  BY <1>3 DEF ServiceAccepts, DestinationsBound
<1>7. /\ Element(bound.nullifier) =
           MiMC(<<SecretField(account.userSecret), Scalar(Amount(account.nonce))>>)
      /\ Element(bound.destinationHash) = MiMC(<<DestinationField(bound.destination)>>)
  BY <1>5, <1>6
  DEF Element, Canonical, Text, Hex, NullifierElement, DestinationElement, V0, V1
<1> QED
  BY <1>2, <1>4, <1>7 DEF SettlementCircuit, PublicWitness, V0, V1

\* No v1 engine, whenever it runs, turns down in the circuit what its service
\* has checked, state roots apart.
THEOREM ChecksMatchCircuitHolds == Spec => []ChecksMatchCircuit
<1>1. ChecksMatchCircuit
  BY CircuitTakesChecked DEF ChecksMatchCircuit, Provable
<1> QED
  BY <1>1, PTL

\* A proof a client presents is one the service issued, whatever became of
\* the rest of the bundle.
LEMMA PresentedProof ==
  ASSUME KeysInv, NEW i \in issued, NEW req, NEW bundle \in Presented(i.bundle, req),
         NEW mode, NEW key, NEW public,
         ProofVerifies(bundle.proof, mode, key, public)
  PROVE  /\ i.mode = mode /\ i.key = key
         /\ public = PublicWitness(mode, i.request.update, BoundWithdrawal(i.request))
<1> DEFINE made == [mode   |-> i.mode,
                    key    |-> i.key,
                    public |-> PublicWitness(i.mode, i.request.update, BoundWithdrawal(i.request))]
           own  == i.bundle
<1>1. own = [proof             |-> Text(<<"proof", made>>),
             publicInputs      |-> own.publicInputs,
             verificationKeyId |-> own.verificationKeyId]
  <2>1. own = BundleFor(i.mode, i.key, i.request)
    BY DEF KeysInv, IssuedInv
  <2> HIDE DEF own
  <2> QED
    BY <2>1 DEF BundleFor
<1>2. own.proof.val = <<"proof", made>>
  BY <1>1 DEF Text
<1>3. bundle.proof.val = own.proof.val \/ bundle.proof.val = Blank
  <2> HIDE DEF made, own
  <2>1. CASE bundle = own
    BY <2>1
  <2>2. CASE bundle = [own EXCEPT !.publicInputs = PublicInputs(req.update, req.commitments)]
    BY <1>1, <2>2
  <2>3. CASE bundle = [own EXCEPT !.publicInputs = Tail(@)]
    BY <1>1, <2>3
  <2>4. CASE bundle = [own EXCEPT !.proof = Padded(@.val)]
    BY <1>1, <2>4 DEF Padded
  <2>5. CASE bundle = [own EXCEPT !.proof = Text(Blank)]
    BY <1>1, <2>5 DEF Text
  <2>6. ASSUME NEW m \in Modes, bundle = [own EXCEPT !.verificationKeyId = VerificationKeyID(m)]
        PROVE  bundle.proof.val = own.proof.val
    BY <1>1, <2>6
  <2> QED
    BY <2>1, <2>2, <2>3, <2>4, <2>5, <2>6 DEF Presented, own
<1> HIDE DEF made, own
<1>4. bundle.proof.val = own.proof.val
  BY <1>3 DEF ProofVerifies, Blank
<1>5. made = [mode |-> mode, key |-> key, public |-> public]
  BY <1>2, <1>4 DEF ProofVerifies
<1> QED
  BY <1>5 DEF made

\* An answer "valid" in either mode rests on a proof issued in that mode under
\* those keys, and in v1 on a witness from which nullifier, destination hash
\* and both state roots of the very update derive and balance, whichever
\* bundles clients hold against whichever updates.
THEOREM AcceptedWasProvedHolds == Spec => []AcceptedWasProved
<1>1. Init => AcceptedWasProved
  BY DEF Init, AcceptedWasProved
<1>2. KeysInv /\ AcceptedWasProved /\ [Next]_vars => AcceptedWasProved'
  <2> SUFFICES ASSUME KeysInv, AcceptedWasProved, [Next]_vars PROVE AcceptedWasProved'
    OBVIOUS
  <2>1. CASE issued \subseteq issued' /\ accepted' = accepted
    BY <2>1 DEF AcceptedWasProved
  <2>2. ASSUME NEW p \in Procs, NEW req \in Requests, NEW i \in issued,
               NEW bundle \in Presented(i.bundle, req), Verify(p, req, bundle)
        PROVE  AcceptedWasProved'
    <3> DEFINE mode == ModeOf(p)
               key == engine[p]
               new == [mode |-> mode, key |-> key, update |-> req.update,
                       commitments |-> req.commitments, bundle |-> bundle]
               account == i.request.accounts[1]
               withdrawal == req.update.withdrawals[1]
               in == BalanceInput(i.request)
    <3>1. /\ Verifies(mode, key, req.update, req.commitments, bundle)
          /\ accepted' = accepted \union {new} /\ issued' = issued
      BY <2>2 DEF Verify
    <3>2. bundle.publicInputs = PublicInputs(req.update, req.commitments)
      BY <3>1 DEF Verifies
    <3>3. i.mode = mode /\ i.key = key
      <4>1. mode \in Modes
        BY <2>2 DEF Verify, KeysInv, EngineInv
      <4>2. PICK public : ProofVerifies(bundle.proof, mode, key, public)
        BY <3>1, <4>1 DEF Verifies, EngineVerifies, Modes
      <4> QED
        BY <4>2, PresentedProof
    <3>4. ASSUME mode = V1
          PROVE  /\ Len(req.update.withdrawals) = 1
                 /\ Element(withdrawal.nullifier) =
                      NullifierElement(V1, account.userSecret, account.nonce)
                 /\ Element(withdrawal.destinationHash) =
                      DestinationElement(V1, BoundWithdrawal(i.request).destination)
                 /\ Element(req.update.oldStateRoot) =
                      AccountCommitment(account.owner, in.oldBalance)
                 /\ Element(req.update.newStateRoot) =
                      AccountCommitment(account.owner, in.newBalance)
                 /\ in.oldBalance + in.depositAmount = in.newBalance + in.withdrawAmount
      <4>1. /\ Len(req.update.withdrawals) = 1
            /\ ProofVerifies(bundle.proof, V1, key, PublicWitness(V1, req.update, withdrawal))
        BY <3>1, <3>4 DEF Verifies, EngineVerifies, V0, V1
      <4>2. PublicWitness(V1, req.update, withdrawal) =
              PublicWitness(V1, i.request.update, BoundWithdrawal(i.request))
        BY <4>1, PresentedProof
      <4>3. SettlementInputValid(i.request) /\ SettlementCircuit(i.request)
        BY <3>3, <3>4 DEF KeysInv, IssuedInv, Provable
      <4>4. PublicWitness(V1, req.update, withdrawal) =
              <<MiMC(<<SecretField(account.userSecret), Scalar(Amount(account.nonce))>>),
                MiMC(<<DestinationField(BoundWithdrawal(i.request).destination)>>),
                AccountCommitment(account.owner, in.oldBalance),
                AccountCommitment(account.owner, in.newBalance)>>
        BY <4>2, <4>3 DEF SettlementCircuit
      <4>5. in.oldBalance + in.depositAmount = in.newBalance + in.withdrawAmount
        BY <4>3 DEF SettlementInputValid, BalanceInputValid
      <4> HIDE DEF account, withdrawal, in
      <4> QED
        BY <4>1, <4>4, <4>5 DEF PublicWitness, NullifierElement, DestinationElement, V0, V1
    <3> HIDE DEF account, withdrawal, in, mode, key
    <3> QED
      BY <3>1, <3>2, <3>3, <3>4 DEF AcceptedWasProved, account, withdrawal, in
  <2>3. CASE UNCHANGED vars
    BY <2>1, <2>3 DEF vars
  <2>4. ASSUME NEW m \in Modes, EstablishKeys(m) PROVE AcceptedWasProved'
    BY <2>1, <2>4 DEF EstablishKeys
  <2>5. ASSUME NEW p \in Procs,
               \/ StartEngine(p) \/ StopEngine(p) \/ VerifierArtifact(p)
               \/ \E req \in Requests : Prove(p, req)
        PROVE  AcceptedWasProved'
    BY <2>1, <2>5 DEF StartEngine, StopEngine, VerifierArtifact, Prove
  <2> QED
    BY <2>2, <2>3, <2>4, <2>5 DEF Next
<1> QED
  BY KeysInvariant, <1>1, <1>2, PTL DEF Spec
=============================================================================
