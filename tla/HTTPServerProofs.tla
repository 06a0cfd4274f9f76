-------------------------- MODULE HTTPServerProofs --------------------------
(***************************************************************************)
(* Theorems about HTTPServer, for every set of processes, keys and         *)
(* requests and every bound: servers and export commands do to the keys,   *)
(* bundles and artifacts only what ProverService allows, so its theorems   *)
(* are theirs; and what an answer or an output file says depends on the    *)
(* call, the hash mode and the key pair, on nothing else.                  *)
(***************************************************************************)
EXTENDS HTTPServer, ProverServiceProofs

-----------------------------------------------------------------------------
(***************************************************************************)
(* Every handler is a step of ProverService, or none.                      *)
(***************************************************************************)

\* Every step of servers and export commands is one of ProverService, or
\* leaves its variables alone.
LEMMA ServerStepIsStep == [ServerNext]_serverVars => [Next]_vars
<1> SUFFICES ASSUME [ServerNext]_serverVars PROVE Next \/ UNCHANGED vars
  OBVIOUS
<1>1. CASE UNCHANGED serverVars
  BY <1>1 DEF serverVars, vars
<1>2. ASSUME NEW m \in Modes, KeysInstalled(m) PROVE Next
  BY <1>2 DEF KeysInstalled, Next
<1>3. ASSUME NEW p \in Procs,
             \/ \E command \in {"server", "export"} : Start(p, command)
             \/ ListenAndServe(p) \/ Exit(p)
      PROVE  Next \/ UNCHANGED vars
  BY <1>3 DEF Start, ListenAndServe, Exit, Next
<1>4. ASSUME NEW p \in Procs,
             \/ Health(p) \/ PostMalformed(p) \/ GetArtifact(p)
             \/ ExportTruncate(p) \/ ExportWrite(p)
      PROVE  Next \/ UNCHANGED vars
  BY <1>4 DEF Health, PostMalformed, GetArtifact, ExportTruncate, ExportWrite, Next
<1>5. ASSUME NEW p \in Procs, NEW req \in Requests, PostProve(p, req)
      PROVE  Next \/ UNCHANGED vars
  BY <1>5 DEF PostProve, Next
<1>6. ASSUME NEW p \in Procs, NEW req \in Requests, NEW i \in issued,
             NEW bundle \in Presented(i.bundle, req), PostVerify(p, req, bundle)
      PROVE  Next \/ UNCHANGED vars
  BY <1>6 DEF PostVerify, Next
<1> QED
  BY <1>1, <1>2, <1>3, <1>4, <1>5, <1>6 DEF ServerNext

\* A behaviour of the servers is one of ProverService.
LEMMA ServersServe == ServerSpec => Spec
<1>1. ServerInit => Init
  BY DEF ServerInit
<1> QED
  BY <1>1, ServerStepIsStep, PTL DEF ServerSpec, Spec

\* Across servers, failed starts and restarts bundles verify, artifacts fit
\* them, and what is answered "valid" was proved, altered bundles included.
THEOREM ServersKeepBundles ==
  ServerSpec => [](TypeOK /\ BundleVerifies /\ ArtifactFits /\ AcceptedWasProved)
  BY ServersServe, ServiceTypeCorrect, BundleVerifiesHolds, ArtifactFitsHolds,
     AcceptedWasProvedHolds, PTL

-----------------------------------------------------------------------------
(***************************************************************************)
(* What an answer says.                                                    *)
(***************************************************************************)

\* The key pair an answer was given with came from an engine, or there was
\* none; status and body follow from the call, the mode and that key pair.
Replied(a) ==
  LET mode == ModeOf(a.by)
      req  == a.call[2]
  IN
  \/ /\ a.call[1] = "health"
     /\ a.status = 200
     /\ a.body = <<"health", VerificationKeyID(ShownMode(a.by)), ShownMode(a.by)>>
  \/ /\ a.call[1] = "prove"
     /\ IF a.key # NoKey /\ Provable(mode, req)
        THEN a.status = 200 /\ a.body = <<"bundle", BundleFor(mode, a.key, req)>>
        ELSE a.status = 400 /\ a.body = Error
  \/ /\ a.call[1] = "verify"
     /\ a.status = 200
     /\ IF a.key # NoKey /\ Verifies(mode, a.key, req.update, req.commitments, a.call[3])
        THEN a.body = <<"valid", a.call[3].verificationKeyId>>
        ELSE a.body = Error
  \/ /\ a.call[1] = "malformed"
     /\ a.status = 400 /\ a.body = Error
  \/ /\ a.call[1] = "artifact"
     /\ IF a.key # NoKey
        THEN a.status = 200 /\ a.body = <<"artifact", VerificationKeyID(mode), mode, a.key>>
        ELSE a.status = 500 /\ a.body = Error
  \/ /\ a.call[1] = "artifact head"
     /\ a.status = 405 /\ a.body = Error

AnswersInv == \A a \in answers : Replied(a) /\ (a.key # NoKey => FromEngine(a.by, a.key))

\* A finished output file is the artifact of a key pair that the process had.
Finished(p, k) == output[p] = <<"artifact", VerificationKeyID(ModeOf(p)), ModeOf(p), k>>

OutputInv ==
  /\ DOMAIN output = Procs
  /\ \A p \in Procs :
       output[p] \in {Absent, Partial} \/ \E k \in Keys : FromEngine(p, k) /\ Finished(p, k)

ServerInv == AnswersInv /\ OutputInv

\* At first nobody has been answered and no file has been written.
LEMMA ServerInvInit == ServerInit => ServerInv
  BY DEF ServerInit, ServerInv, AnswersInv, OutputInv

\* Where a key pair came from does not change: a key directory keeps it.
LEMMA FromEngineStays ==
  ASSUME KeysInv, [Next]_vars, NEW p, NEW k, FromEngine(p, k)
  PROVE  FromEngine(p, k)'
<1>1. CASE UNCHANGED persisted
  BY <1>1 DEF FromEngine
<1>2. ASSUME NEW m \in Modes, EstablishKeys(m)
      PROVE  FromEngine(p, k)'
  <2>1. persisted[m] = NoKey /\ \E key \in Keys : persisted' = [persisted EXCEPT ![m] = key]
    BY <1>2 DEF EstablishKeys, Dir!Establish
  <2>2. p \in Persistent => ModeOf(p) # m
    BY <2>1, NoKeyAssumption DEF FromEngine
  <2> QED
    BY <2>1, <2>2 DEF FromEngine, KeysInv, EngineInv
<1> QED
  BY <1>1, <1>2 DEF Next, vars, StartEngine, StopEngine, Prove, VerifierArtifact, Verify

\* An answer speaks of the engine it was given with.
LEMMA AnswerStep ==
  ASSUME KeysInv, [Next]_vars, AnswersInv, NEW p \in Procs, NEW call, NEW status, NEW body,
         Answer(p, call, status, body),
         Replied([by |-> p, key |-> engine[p], call |-> call, status |-> status, body |-> body])
  PROVE  AnswersInv'
<1> DEFINE new == [by |-> p, key |-> engine[p], call |-> call, status |-> status, body |-> body]
<1>1. answers' = answers \union {new}
  BY DEF Answer
<1>2. engine[p] # NoKey => FromEngine(p, engine[p])
  BY DEF KeysInv, EngineInv, FromEngine, KeyOrNone
<1>3. ASSUME NEW a \in answers'
      PROVE  Replied(a) /\ (a.key # NoKey => FromEngine(a.by, a.key))
  BY <1>1, <1>2, <1>3 DEF AnswersInv
<1>4. \A a \in answers' : (a.key # NoKey => FromEngine(a.by, a.key)') /\ Replied(a)
  BY <1>3, FromEngineStays
<1> QED
  BY <1>4 DEF AnswersInv, Replied

\* Steps that answer nothing leave the answers as they were.
LEMMA NoAnswerStep ==
  ASSUME KeysInv, [Next]_vars, AnswersInv, UNCHANGED answers
  PROVE  AnswersInv'
<1>1. \A a \in answers : a.key # NoKey => FromEngine(a.by, a.key)'
  BY FromEngineStays DEF AnswersInv
<1> QED
  BY <1>1 DEF AnswersInv, Replied

\* Every handler answers as Replied has it.
LEMMA HandlerStep ==
  ASSUME KeysInv, [Next]_vars, AnswersInv, NEW p \in Procs,
         \/ Health(p) \/ PostMalformed(p) \/ GetArtifact(p)
         \/ \E req \in Requests : PostProve(p, req)
         \/ \E req \in Requests : \E bundle : PostVerify(p, req, bundle)
  PROVE  AnswersInv'
<1> DEFINE Reply(call, status, body) ==
      [by |-> p, key |-> engine[p], call |-> call, status |-> status, body |-> body]
<1>1. CASE Health(p)
  <2> DEFINE body == <<"health", VerificationKeyID(ShownMode(p)), ShownMode(p)>>
  <2>1. Replied(Reply(<<"health">>, 200, body))
    BY DEF Replied
  <2> QED
    BY <1>1, <2>1, AnswerStep DEF Health
<1>2. CASE PostMalformed(p)
  <2>1. Replied(Reply(<<"malformed">>, 400, Error))
    BY DEF Replied
  <2> QED
    BY <1>2, <2>1, AnswerStep DEF PostMalformed
<1>3. CASE GetArtifact(p)
  <2> DEFINE body == <<"artifact", VerificationKeyID(ModeOf(p)), ModeOf(p), engine[p]>>
  <2>1. engine[p] # NoKey => Replied(Reply(<<"artifact">>, 200, body))
    BY DEF Replied
  <2>2. engine[p] = NoKey => Replied(Reply(<<"artifact">>, 500, Error))
    BY DEF Replied
  <2>3. Replied(Reply(<<"artifact head">>, 405, Error))
    BY DEF Replied
  <2> QED
    BY <1>3, <2>1, <2>2, <2>3, AnswerStep DEF GetArtifact, VerifierArtifact
<1>4. ASSUME NEW req \in Requests, PostProve(p, req)
      PROVE  AnswersInv'
  <2> DEFINE body == <<"bundle", BundleFor(ModeOf(p), engine[p], req)>>
  <2>1. engine[p] # NoKey /\ Provable(ModeOf(p), req) => Replied(Reply(<<"prove", req>>, 200, body))
    BY DEF Replied
  <2>2. engine[p] = NoKey \/ ~Provable(ModeOf(p), req) => Replied(Reply(<<"prove", req>>, 400, Error))
    BY DEF Replied
  <2> QED
    BY <1>4, <2>1, <2>2, AnswerStep DEF PostProve, Prove
<1>5. ASSUME NEW req \in Requests, NEW bundle, PostVerify(p, req, bundle)
      PROVE  AnswersInv'
  <2> DEFINE call == <<"verify", req, bundle>>
             valid == Verifies(ModeOf(p), engine[p], req.update, req.commitments, bundle)
  <2>1. engine[p] # NoKey /\ valid =>
          Replied(Reply(call, 200, <<"valid", bundle.verificationKeyId>>))
    BY DEF Replied
  <2>2. engine[p] = NoKey \/ ~valid => Replied(Reply(call, 200, Error))
    BY DEF Replied
  <2> QED
    BY <1>5, <2>1, <2>2, AnswerStep DEF PostVerify, Verify
<1> QED
  BY <1>1, <1>2, <1>3, <1>4, <1>5

\* An output file holds nothing, half of an artifact, or the artifact of the
\* engine that wrote it.
LEMMA OutputStep ==
  ASSUME KeysInv, [ServerNext]_serverVars, OutputInv
  PROVE  OutputInv'
<1>1. [Next]_vars
  BY ServerStepIsStep
<1>2. \A p \in Procs, k \in Keys : FromEngine(p, k) => FromEngine(p, k)'
  BY <1>1, FromEngineStays
<1>3. CASE UNCHANGED output
  BY <1>2, <1>3 DEF OutputInv, Finished
<1>4. ASSUME NEW p \in Procs, ExportTruncate(p)
      PROVE  OutputInv'
  BY <1>2, <1>4 DEF ExportTruncate, OutputInv, Finished
<1>5. ASSUME NEW p \in Procs, ExportWrite(p)
      PROVE  OutputInv'
  <2>1. /\ output' = [output EXCEPT ![p] =
             <<"artifact", VerificationKeyID(ModeOf(p)), ModeOf(p), engine[p]>>]
        /\ engine[p] # NoKey
    BY <1>5 DEF ExportWrite, StopEngine, Dir!Detach, ProcsOf
  <2>2. PICK k \in Keys : k = engine[p] /\ FromEngine(p, k)
    BY <2>1 DEF KeysInv, EngineInv, FromEngine, KeyOrNone
  <2>3. FromEngine(p, k)' /\ Finished(p, k)' /\ DOMAIN output' = Procs
    BY <1>2, <2>1, <2>2 DEF OutputInv, Finished
  <2>4. \A q \in Procs \ {p} : output'[q] = output[q]
    BY <2>1 DEF OutputInv
  <2> QED
    BY <1>2, <2>3, <2>4 DEF OutputInv, Finished
<1>6. \/ UNCHANGED output
      \/ \E p \in Procs : ExportTruncate(p) \/ ExportWrite(p)
  <2>1. ASSUME NEW p \in Procs,
               \/ Health(p) \/ PostMalformed(p) \/ GetArtifact(p)
               \/ \E req \in Requests : PostProve(p, req)
               \/ \E req \in Requests : \E bundle : PostVerify(p, req, bundle)
        PROVE  UNCHANGED output
    BY <2>1 DEF Health, PostMalformed, GetArtifact, PostProve, PostVerify, Answer
  <2>2. ASSUME NEW p \in Procs,
               \/ \E command \in {"server", "export"} : Start(p, command)
               \/ ListenAndServe(p) \/ Exit(p)
        PROVE  UNCHANGED output
    BY <2>2 DEF Start, ListenAndServe, Exit
  <2>3. CASE \E m \in Modes : KeysInstalled(m)
    BY <2>3 DEF KeysInstalled
  <2> QED
    BY <2>1, <2>2, <2>3 DEF ServerNext, serverVars
<1> QED
  BY <1>3, <1>4, <1>5, <1>6

\* Every step keeps answers and output files true to their engines.
LEMMA ServerInvStep == KeysInv /\ ServerInv /\ [ServerNext]_serverVars => ServerInv'
<1> SUFFICES ASSUME KeysInv, ServerInv, [ServerNext]_serverVars PROVE ServerInv'
  OBVIOUS
<1>1. [Next]_vars /\ AnswersInv /\ OutputInv
  BY ServerStepIsStep DEF ServerInv
<1>2. AnswersInv'
  <2>1. \/ UNCHANGED answers
        \/ \E p \in Procs :
             \/ Health(p) \/ PostMalformed(p) \/ GetArtifact(p)
             \/ \E req \in Requests : PostProve(p, req)
             \/ \E req \in Requests : \E bundle : PostVerify(p, req, bundle)
    BY DEF ServerNext, serverVars, KeysInstalled, Start, ListenAndServe, Exit, ExportTruncate,
           ExportWrite
  <2> QED
    BY <1>1, <2>1, NoAnswerStep, HandlerStep
<1> QED
  BY <1>1, <1>2, OutputStep DEF ServerInv

\* In every behaviour of the servers, keys, answers and files fit together.
LEMMA ServerInvariant == ServerSpec => [](KeysInv /\ ServerInv)
<1>1. ServerSpec => []KeysInv
  BY ServersServe, KeysInvariant, PTL
<1> QED
  BY <1>1, ServerInvInit, ServerInvStep, PTL DEF ServerSpec

-----------------------------------------------------------------------------
\* The first part of a body tells what it is, and what that is made of.
LEMMA BodyOf ==
  ASSUME NEW a, Replied(a)
  PROVE  LET mode == ModeOf(a.by) IN
         \/ a.body[1] = "error"
         \/ /\ a.body[1] = "health"
            /\ a.body[2] = VerificationKeyID(ShownMode(a.by)) /\ a.body[3] = ShownMode(a.by)
         \/ /\ a.body[1] = "bundle" /\ a.key # NoKey
            /\ a.body[2].verificationKeyId = VerificationKeyID(mode)
         \/ /\ a.body[1] = "valid" /\ a.key # NoKey
            /\ a.body[2] = VerificationKeyID(mode)
         \/ /\ a.body[1] = "artifact" /\ a.key # NoKey
            /\ a.body[2] = VerificationKeyID(mode) /\ a.body[3] = mode
<1> DEFINE mode == ModeOf(a.by)
           req  == a.call[2]
<1>1. CASE a.body = Error
  BY <1>1 DEF Error
<1>2. CASE a.body = <<"health", VerificationKeyID(ShownMode(a.by)), ShownMode(a.by)>>
  BY <1>2
<1>3. CASE a.key # NoKey /\ a.body = <<"bundle", BundleFor(mode, a.key, req)>>
  BY <1>3 DEF BundleFor
<1>4. CASE /\ a.key # NoKey /\ Verifies(mode, a.key, req.update, req.commitments, a.call[3])
           /\ a.body = <<"valid", a.call[3].verificationKeyId>>
  BY <1>4 DEF Verifies
<1>5. CASE a.key # NoKey /\ a.body = <<"artifact", VerificationKeyID(mode), mode, a.key>>
  BY <1>5
<1> QED
  BY <1>1, <1>2, <1>3, <1>4, <1>5 DEF Replied

\* Servers on one key directory are interchangeable: once two of them have an
\* engine in the same mode, they answer one request alike, however often the
\* one or the other was restarted in between.
THEOREM RepeatedAnswersAgreeHolds == ServerSpec => []RepeatedAnswersAgree
<1>1. KeysInv /\ ServerInv => RepeatedAnswersAgree
  <2> SUFFICES ASSUME ServerInv, NEW a \in answers, NEW b \in answers,
                      a.call = b.call, a.key # NoKey, b.key # NoKey,
                      ModeOf(a.by) = ModeOf(b.by), {a.by, b.by} \subseteq Persistent
               PROVE  a.status = b.status /\ a.body = b.body
    BY DEF RepeatedAnswersAgree
  <2>1. a.key = b.key
    BY DEF ServerInv, AnswersInv, FromEngine
  <2>2. ShownMode(a.by) = ShownMode(b.by)
    BY DEF ShownMode
  <2>3. Replied(a) /\ Replied(b)
    BY DEF ServerInv, AnswersInv
  <2>4. CASE a.call[1] = "health"
    BY <2>1, <2>2, <2>3, <2>4 DEF Replied
  <2>5. CASE a.call[1] = "malformed"
    BY <2>1, <2>2, <2>3, <2>5 DEF Replied
  <2>6. CASE a.call[1] \in {"artifact", "artifact head"}
    <3>1. CASE a.call[1] = "artifact"
      <4>1. a.status = 200 /\ b.status = 200
        BY <2>3, <3>1 DEF Replied
      <4>2. a.body = <<"artifact", VerificationKeyID(ModeOf(a.by)), ModeOf(a.by), a.key>>
        BY <2>3, <3>1 DEF Replied
      <4>3. b.body = <<"artifact", VerificationKeyID(ModeOf(b.by)), ModeOf(b.by), b.key>>
        BY <2>3, <3>1 DEF Replied
      <4> QED
        BY <2>1, <4>1, <4>2, <4>3
    <3>2. CASE a.call[1] = "artifact head"
      BY <2>3, <3>2 DEF Replied
    <3> QED
      BY <2>6, <3>1, <3>2
  <2>7. CASE a.call[1] = "prove"
    BY <2>1, <2>2, <2>3, <2>7 DEF Replied
  <2>8. CASE a.call[1] = "verify"
    BY <2>1, <2>2, <2>3, <2>8 DEF Replied
  <2> QED
    BY <2>3, <2>4, <2>5, <2>6, <2>7, <2>8 DEF Replied
<1> QED
  BY <1>1, ServerInvariant, PTL

\* GET /health announces the key ID and the mode of all that the server hands
\* out and accepts, also a server whose engine could not be made.
THEOREM HealthAnnouncesHolds == ServerSpec => []HealthAnnounces
<1>1. KeysInv /\ ServerInv => HealthAnnounces
  <2> SUFFICES ASSUME ServerInv, NEW h \in answers, NEW a \in answers,
                      h.body[1] = "health", a.by = h.by
               PROVE  CASE a.body[1] = "bundle"   -> a.body[2].verificationKeyId = h.body[2]
                        [] a.body[1] = "valid"    -> a.body[2] = h.body[2]
                        [] a.body[1] = "artifact" -> <<a.body[2], a.body[3]>> = <<h.body[2], h.body[3]>>
                        [] OTHER                  -> TRUE
    BY DEF HealthAnnounces
  <2> DEFINE mode == ModeOf(a.by)
  <2>1. Replied(h) /\ Replied(a) /\ (a.key # NoKey => mode \in Modes)
    BY DEF ServerInv, AnswersInv, FromEngine
  <2>2. h.body[2] = VerificationKeyID(ShownMode(a.by)) /\ h.body[3] = ShownMode(a.by)
    BY <2>1, BodyOf
  <2>3. mode \in Modes => ShownMode(a.by) = mode
    BY DEF ShownMode, Modes, V0, V1
  <2>4. a.body[1] = "bundle" => a.body[2].verificationKeyId = h.body[2]
    BY <2>1, <2>2, <2>3, BodyOf
  <2>5. a.body[1] = "valid" => a.body[2] = h.body[2]
    BY <2>1, <2>2, <2>3, BodyOf
  <2>6. a.body[1] = "artifact" => a.body[2] = h.body[2] /\ a.body[3] = h.body[3]
    BY <2>1, <2>2, <2>3, BodyOf
  <2> QED
    BY <2>4, <2>5, <2>6
<1> QED
  BY <1>1, ServerInvariant, PTL

\* A finished output file verifies every bundle with its key ID that came
\* from the same key directory, whatever was restarted since.
THEOREM OutputFitsHolds == ServerSpec => []OutputFits
<1>1. KeysInv /\ ServerInv => OutputFits
  <2> SUFFICES ASSUME KeysInv, ServerInv, NEW p \in Persistent, output[p][1] = "artifact"
               PROVE  /\ output[p][3] = ModeOf(p)
                      /\ \A i \in issued :
                           i.by \in Persistent /\ i.bundle.verificationKeyId = output[p][2] =>
                             EngineVerifies(output[p][3], output[p][4], i.request.update, i.bundle)
    BY DEF OutputFits
  <2>1. PICK k \in Keys : FromEngine(p, k) /\ Finished(p, k)
    BY PersistentAssumption DEF ServerInv, OutputInv, Absent, Partial
  <2>2. /\ output[p][2] = VerificationKeyID(ModeOf(p))
        /\ output[p][3] = ModeOf(p) /\ output[p][4] = k
    BY <2>1 DEF Finished
  <2>3. ASSUME NEW i \in issued, i.by \in Persistent,
               i.bundle.verificationKeyId = VerificationKeyID(ModeOf(p))
        PROVE  EngineVerifies(ModeOf(p), k, i.request.update, i.bundle)
    <3>1. /\ i.mode \in Modes /\ Provable(i.mode, i.request)
          /\ i.bundle = BundleFor(i.mode, i.key, i.request)
          /\ IsList(i.request.accounts) /\ IsList(i.request.update.withdrawals)
      BY RequestsAssumption DEF KeysInv, IssuedInv, FromEngine
    <3>2. i.mode = ModeOf(p)
      BY <2>1, <2>3, <3>1 DEF FromEngine, BundleFor, VerificationKeyID, Modes, V0, V1
    <3>3. i.key = k
      BY <2>1, <2>3, <3>2 DEF KeysInv, IssuedInv, FromEngine
    <3>4. Verifies(i.mode, i.key, i.request.update, i.request.commitments, i.bundle)
      BY <3>1, RoundTrip
    <3> QED
      BY <3>2, <3>3, <3>4 DEF Verifies
  <2> QED
    BY <2>2, <2>3
<1> QED
  BY <1>1, ServerInvariant, PTL
=============================================================================
