----------------------------- MODULE HTTPServer -----------------------------
(***************************************************************************)
(* The gazk program around the prover service: "gazk server", its HTTP     *)
(* answers, and "gazk export-verifier-artifact".  Each process runs one    *)
(* command at a time, under the environment HashModeEnv gives it.  The     *)
(* engine is made before the server listens and is never made again, so a  *)
(* server whose keys could not be loaded serves without one until it ends. *)
(*                                                                         *)
(* The handlers take what they do from ProverService and add the answer.   *)
(***************************************************************************)
EXTENDS ProverService

CONSTANT MaxAnswers  \* bound: answers clients remember

Absent  == <<"absent">>
Partial == <<"partial">>

VARIABLES
  task,     \* task[p]: the command p runs and how far it has come
  answers,  \* the HTTP answers given so far
  output    \* output[p]: the file the export command writes under p

serverVars == <<persisted, engine, issued, exported, accepted, task, answers, output>>

ServerInit ==
  /\ Init
  /\ task = [p \in Procs |-> "none"]
  /\ answers = {}
  /\ output = [p \in Procs |-> Absent]

-----------------------------------------------------------------------------
(***************************************************************************)
(* Commands start and end.                                                 *)
(***************************************************************************)

\* A start in mode m writes the key directory: KeyStore has the detail.
KeysInstalled(m) ==
  /\ ProcsOf(m) # {}
  /\ EstablishKeys(m)
  /\ UNCHANGED <<task, answers, output>>

\* prover.NewService: with an engine, or with the error of its making, an
\* unknown mode among them.
Start(p, command) ==
  /\ task[p] = "none"
  /\ task' = [task EXCEPT ![p] = command]
  /\ StartEngine(p) \/ UNCHANGED vars
  /\ UNCHANGED <<answers, output>>

ListenAndServe(p) ==
  /\ task[p] = "server"
  /\ task' = [task EXCEPT ![p] = "serving"]
  /\ UNCHANGED <<vars, answers, output>>

\* A taken address, a failed export, a kill.
Exit(p) ==
  /\ task[p] # "none"
  /\ task' = [task EXCEPT ![p] = "none"]
  /\ IF engine[p] = NoKey THEN UNCHANGED vars ELSE StopEngine(p)
  /\ UNCHANGED <<answers, output>>

-----------------------------------------------------------------------------
(***************************************************************************)
(* The answers of a server.                                                *)
(***************************************************************************)

Answer(p, call, status, body) ==
  /\ task[p] = "serving"
  /\ Cardinality(answers) < MaxAnswers
  /\ answers' = answers \union
       {[by |-> p, key |-> engine[p], call |-> call, status |-> status, body |-> body]}
  /\ UNCHANGED <<task, output>>

Error == <<"error">>

\* What HashMode falls back to when the mode is unknown.
ShownMode(p) == IF ModeOf(p) = V1 THEN V1 ELSE V0

\* Mutant of Health: the ID of the default mode, whatever the mode.
HealthDefaultID(p) ==
  /\ Answer(p, <<"health">>, 200, <<"health", VerificationKeyID(V0), ShownMode(p)>>)
  /\ UNCHANGED vars

Health(p) ==
  /\ Answer(p, <<"health">>, 200, <<"health", VerificationKeyID(ShownMode(p)), ShownMode(p)>>)
  /\ UNCHANGED vars

PostProve(p, req) ==
  \/ /\ Prove(p, req)
     /\ Answer(p, <<"prove", req>>, 200, <<"bundle", BundleFor(ModeOf(p), engine[p], req)>>)
  \/ /\ engine[p] = NoKey \/ ~Provable(ModeOf(p), req)
     /\ Answer(p, <<"prove", req>>, 400, Error)
     /\ UNCHANGED vars

\* Every verdict goes out with status 200.
PostVerify(p, req, bundle) ==
  \/ /\ Cardinality(accepted) < MaxAccepted
     /\ Answer(p, <<"verify", req, bundle>>, 200, <<"valid", bundle.verificationKeyId>>)
     /\ Verify(p, req, bundle)
  \/ /\ Answer(p, <<"verify", req, bundle>>, 200, Error)
     /\ \/ engine[p] = NoKey
        \/ ~Verifies(ModeOf(p), engine[p], req.update, req.commitments, bundle)
     /\ UNCHANGED vars

\* readJSON: a body that is no JSON, or has a field too many.
PostMalformed(p) ==
  /\ Answer(p, <<"malformed">>, 400, Error)
  /\ UNCHANGED vars

\* A "GET" route takes HEAD as well, which this handler turns down.
GetArtifact(p) ==
  \/ /\ VerifierArtifact(p)
     /\ Answer(p, <<"artifact">>, 200,
               <<"artifact", VerificationKeyID(ModeOf(p)), ModeOf(p), engine[p]>>)
  \/ /\ engine[p] = NoKey
     /\ Answer(p, <<"artifact">>, 500, Error)
     /\ UNCHANGED vars
  \/ /\ Answer(p, <<"artifact head">>, 405, Error)
     /\ UNCHANGED vars

-----------------------------------------------------------------------------
(***************************************************************************)
(* The export command.                                                     *)
(***************************************************************************)

\* os.WriteFile truncates the file before it writes it.
ExportTruncate(p) ==
  /\ task[p] = "export"
  /\ VerifierArtifact(p)
  /\ task' = [task EXCEPT ![p] = "writing"]
  /\ output' = [output EXCEPT ![p] = Partial]
  /\ UNCHANGED answers

ExportWrite(p) ==
  /\ task[p] = "writing"
  /\ task' = [task EXCEPT ![p] = "none"]
  /\ output' = [output EXCEPT ![p] =
       <<"artifact", VerificationKeyID(ModeOf(p)), ModeOf(p), engine[p]>>]
  /\ StopEngine(p)
  /\ UNCHANGED answers

-----------------------------------------------------------------------------
ServerNext ==
  \/ \E m \in Modes : KeysInstalled(m)
  \/ \E p \in Procs :
       \/ \E command \in {"server", "export"} : Start(p, command)
       \/ ListenAndServe(p)
       \/ Exit(p)
       \/ Health(p)
       \/ PostMalformed(p)
       \/ GetArtifact(p)
       \/ \E req \in Requests : PostProve(p, req)
       \/ \E req \in Requests, i \in issued :
            \E bundle \in Presented(i.bundle, req) : PostVerify(p, req, bundle)
       \/ ExportTruncate(p)
       \/ ExportWrite(p)

ServerSpec == ServerInit /\ [][ServerNext]_serverVars

-----------------------------------------------------------------------------
\* Two answers to one request agree when both came from servers with an
\* engine, in one mode and both on the key directory: it makes no difference
\* which of them was asked, before or after a restart.
RepeatedAnswersAgree ==
  \A a, b \in answers :
    /\ a.call = b.call
    /\ a.key # NoKey /\ b.key # NoKey
    /\ ModeOf(a.by) = ModeOf(b.by)
    /\ {a.by, b.by} \subseteq Persistent
    => a.status = b.status /\ a.body = b.body

\* The key ID and the hash mode that GET /health announces are those of all
\* that server hands out, and of every bundle it calls valid.
HealthAnnounces ==
  \A h, a \in answers : h.body[1] = "health" /\ a.by = h.by =>
    CASE a.body[1] = "bundle"   -> a.body[2].verificationKeyId = h.body[2]
      [] a.body[1] = "valid"    -> a.body[2] = h.body[2]
      [] a.body[1] = "artifact" -> <<a.body[2], a.body[3]>> = <<h.body[2], h.body[3]>>
      [] OTHER                  -> TRUE

\* A file the export command has finished under p verifies every bundle with
\* its key ID that came from the key directory, from whatever server and
\* however long ago; it is never the artifact of another mode.
OutputFits ==
  \A p \in Persistent : output[p][1] = "artifact" =>
    /\ output[p][3] = ModeOf(p)
    /\ \A i \in issued :
         i.by \in Persistent /\ i.bundle.verificationKeyId = output[p][2] =>
           EngineVerifies(output[p][3], output[p][4], i.request.update, i.bundle)
=============================================================================
