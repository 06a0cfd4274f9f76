--------------------------- MODULE LegacySession ---------------------------
(***************************************************************************)
(* GENERATE requests of the legacy service, from the command line's relay  *)
(* (bat/execution.go) through the handler and GenerateProof back to the    *)
(* relay, which reads the result from files all requests share.  A stop    *)
(* clears these files while handlers and relays may still be at work.      *)
(*                                                                         *)
(* A file is written by several write calls; two parts tell a whole file   *)
(* from a short or a mixed one.  A part is named by the request it belongs *)
(* to.  A removed file lives on for the handler that has it open, but      *)
(* nobody reads it any more.  A read is one system call.                   *)
(***************************************************************************)
EXTENDS Integers

CONSTANTS
  Requests,   \* requests, each with a relay process of its own
  Nobody,     \* a part that is not written
  X, Y,       \* X[r], Y[r]: the numbers of request r
  MaxFaults   \* bound: I/O errors of saves and clean-ups, crashes

ASSUME RequestsAssumption == Nobody \notin Requests
ASSUME FaultsAssumption   == MaxFaults \in Nat

\* The cubic circuit.  For 64-bit numbers the sum stays far below the size of
\* the field, so it is the equation over the integers.
Solvable == {r \in Requests : Y[r] = X[r] * X[r] * X[r] + X[r] + 5}

VARIABLES
  service,    \* life of the service
  proving,    \* TRUE if circuit.r1cs and proving.key load
  verifying,  \* state of verifying.key
  cache,      \* cache[f]: session file f
  todo,       \* session files a clean-up still has to remove
  spared,     \* session files it could not list or remove
  wasStopped, \* the service has been stopped before
  pc,         \* pc[r]: where request r stands
  at, open,   \* the file r writes; TRUE if the name still leads to it
  got,        \* what the relay of r has read
  status,     \* the answer it has given
  faults

config  == <<proving, verifying>>
cleanup == <<service, todo, spared, wasStopped>>
answers == <<got, status>>
vars    == <<config, cleanup, cache, pc, at, open, answers, faults>>

Files    == {"proof.data", "witness.data", "api.json"}
Handling == {"load", "prove", "create", "head", "tail"}
Relaying == {"readProof", "readWitness", "readKey"}
Saving   == {"createJSON", "writeJSON"}
InFlight == Handling \union Relaying \union Saving
Part     == Requests \union {Nobody}

File(there, h, t) == [there |-> there, head |-> h, tail |-> t]
Absent   == File(FALSE, Nobody, Nobody)
Empty    == File(TRUE, Nobody, Nobody)
Whole(r) == File(TRUE, r, r)
FileSet  == [there : BOOLEAN, head : Part, tail : Part]

TypeOK ==
  /\ service \in {"up", "stopping", "stopped", "crashed"}
  /\ proving \in BOOLEAN /\ verifying \in {"absent", "torn", "whole"}
  /\ cache \in [Files -> FileSet]
  /\ todo \in SUBSET Files /\ spared \in SUBSET Files
  /\ pc \in [Requests -> {"idle", "done"} \union InFlight]
  /\ at \in [Requests -> Files] /\ open \in [Requests -> BOOLEAN]
  /\ got \in [Requests -> [proof : FileSet, witness : FileSet]]
  /\ status \in [Requests -> {"none", "ERROR", "SUCCESS"}]
  /\ wasStopped \in BOOLEAN /\ faults \in 0..MaxFaults

Init ==
  /\ service = "up" /\ todo = {} /\ spared = {}
  /\ proving \in BOOLEAN /\ verifying \in {"absent", "torn", "whole"}
  /\ cache = [f \in Files |-> Absent]
  /\ pc = [r \in Requests |-> "idle"]
  /\ at = [r \in Requests |-> "proof.data"] /\ open = [r \in Requests |-> FALSE]
  /\ got = [r \in Requests |-> [proof |-> Absent, witness |-> Absent]]
  /\ status = [r \in Requests |-> "none"]
  /\ wasStopped = FALSE /\ faults = 0

-----------------------------------------------------------------------------
Goto(r, step) == pc' = [pc EXCEPT ![r] = step]
Fault == faults < MaxFaults /\ faults' = faults + 1

\* The relay of r answers; if with success, the command then saves api.json.
Respond(r, s) ==
  /\ status' = [status EXCEPT ![r] = s]
  /\ Goto(r, IF s = "SUCCESS" THEN "createJSON" ELSE "done")

\* The handler replies ERROR and the relay passes it on.
Reject(r) ==
  /\ Respond(r, "ERROR")
  /\ open' = [open EXCEPT ![r] = FALSE]
  /\ UNCHANGED <<config, cleanup, cache, at, got>>

\* The relay dials the service, which takes connections until it is stopped.
Send(r) ==
  /\ pc[r] = "idle"
  /\ IF service = "up" THEN Goto(r, "load") /\ UNCHANGED status ELSE Respond(r, "ERROR")
  /\ UNCHANGED <<config, cleanup, cache, at, open, got, faults>>

-----------------------------------------------------------------------------
(***************************************************************************)
(* GenerateProof, in the handler of r.                                     *)
(***************************************************************************)

\* Mutant of Load: the handler tries again until there are keys.
LoadAgain(r) ==
  /\ pc[r] = "load"
  /\ IF proving THEN Goto(r, "prove") ELSE UNCHANGED pc
  /\ UNCHANGED <<config, cleanup, cache, at, open, answers, faults>>

Load(r) ==
  /\ pc[r] = "load"
  /\ IF proving
     THEN Goto(r, "prove") /\ UNCHANGED <<config, cleanup, cache, at, open, answers>>
     ELSE Reject(r)
  /\ UNCHANGED faults

\* Mutant of Prove: an unsatisfied circuit is not noticed.
ProveAnything(r) ==
  /\ pc[r] = "prove"
  /\ Goto(r, "create")
  /\ at' = [at EXCEPT ![r] = "proof.data"]
  /\ UNCHANGED <<config, cleanup, cache, open, answers, faults>>

\* groth16.Prove fails on numbers that do not satisfy the circuit.
Prove(r) ==
  /\ pc[r] = "prove"
  /\ IF r \in Solvable
     THEN /\ Goto(r, "create")
          /\ at' = [at EXCEPT ![r] = "proof.data"]
          /\ UNCHANGED <<config, cleanup, cache, open, answers>>
     ELSE Reject(r)
  /\ UNCHANGED faults

\* os.Create truncates a file that is there, and makes one that is not.
Create(r) ==
  /\ pc[r] = "create"
  /\ cache' = [cache EXCEPT ![at[r]] = Empty]
  /\ open' = [open EXCEPT ![r] = TRUE]
  /\ Goto(r, "head")
  /\ UNCHANGED <<config, cleanup, at, answers, faults>>

WriteHead(r) ==
  /\ pc[r] = "head"
  /\ cache' = IF open[r] THEN [cache EXCEPT ![at[r]].head = r] ELSE cache
  /\ Goto(r, "tail")
  /\ UNCHANGED <<config, cleanup, at, open, answers, faults>>

\* Mutant of WriteTail: the reply does not wait for the witness.
WriteTailProofOnly(r) ==
  /\ pc[r] = "tail"
  /\ cache' = IF open[r] THEN [cache EXCEPT ![at[r]].tail = r] ELSE cache
  /\ open' = [open EXCEPT ![r] = FALSE]
  /\ Goto(r, "readProof")
  /\ UNCHANGED <<config, cleanup, at, answers, faults>>

\* Mutant of WriteTail: the witness is saved under a name of its own.
WriteTailOtherName(r) ==
  /\ pc[r] = "tail"
  /\ cache' = IF open[r] THEN [cache EXCEPT ![at[r]].tail = r] ELSE cache
  /\ open' = [open EXCEPT ![r] = FALSE]
  /\ IF at[r] = "proof.data"
     THEN Goto(r, "create") /\ at' = [at EXCEPT ![r] = "public.data"]
     ELSE Goto(r, "readProof") /\ UNCHANGED at
  /\ UNCHANGED <<config, cleanup, answers, faults>>

\* The proof is followed by the public witness, the witness by the reply.
WriteTail(r) ==
  /\ pc[r] = "tail"
  /\ cache' = IF open[r] THEN [cache EXCEPT ![at[r]].tail = r] ELSE cache
  /\ open' = [open EXCEPT ![r] = FALSE]
  /\ IF at[r] = "proof.data"
     THEN Goto(r, "create") /\ at' = [at EXCEPT ![r] = "witness.data"]
     ELSE Goto(r, "readProof") /\ UNCHANGED at
  /\ UNCHANGED <<config, cleanup, answers, faults>>

\* Mutant of SaveError: the error is dropped and the reply is SUCCESS.
SaveErrorDropped(r) ==
  /\ pc[r] \in {"create", "head", "tail"}
  /\ Fault
  /\ open' = [open EXCEPT ![r] = FALSE]
  /\ Goto(r, "readProof")
  /\ UNCHANGED <<config, cleanup, cache, at, answers>>

SaveError(r) ==
  /\ pc[r] \in {"create", "head", "tail"}
  /\ Fault
  /\ Reject(r)

-----------------------------------------------------------------------------
(***************************************************************************)
(* The relay has read SUCCESS and collects the artifacts.                  *)
(***************************************************************************)

ReadProof(r) ==
  /\ pc[r] = "readProof"
  /\ got' = [got EXCEPT ![r].proof = cache["proof.data"]]
  /\ Goto(r, "readWitness")
  /\ UNCHANGED <<config, cleanup, cache, at, open, status, faults>>

ReadWitness(r) ==
  /\ pc[r] = "readWitness"
  /\ got' = [got EXCEPT ![r].witness = cache["witness.data"]]
  /\ Goto(r, "readKey")
  /\ UNCHANGED <<config, cleanup, cache, at, open, status, faults>>

\* The bytes are passed on as they are; only a missing file is an error.
ReadKey(r) ==
  /\ pc[r] = "readKey"
  /\ Respond(r, IF got[r].proof.there /\ got[r].witness.there /\ verifying # "absent"
                THEN "SUCCESS" ELSE "ERROR")
  /\ UNCHANGED <<config, cleanup, cache, at, open, got, faults>>

\* SaveJSONToFile: os.WriteFile, one write call.
CreateJSON(r) ==
  /\ pc[r] = "createJSON"
  /\ cache' = [cache EXCEPT !["api.json"] = Empty]
  /\ at' = [at EXCEPT ![r] = "api.json"]
  /\ open' = [open EXCEPT ![r] = TRUE]
  /\ Goto(r, "writeJSON")
  /\ UNCHANGED <<config, cleanup, answers, faults>>

WriteJSON(r) ==
  /\ pc[r] = "writeJSON"
  /\ cache' = IF open[r] THEN [cache EXCEPT !["api.json"] = Whole(r)] ELSE cache
  /\ open' = [open EXCEPT ![r] = FALSE]
  /\ Goto(r, "done")
  /\ UNCHANGED <<config, cleanup, at, answers, faults>>

\* The error is printed; the answer stands.
SaveJSONError(r) ==
  /\ pc[r] \in Saving
  /\ Fault
  /\ open' = [open EXCEPT ![r] = FALSE]
  /\ Goto(r, "done")
  /\ UNCHANGED <<config, cleanup, cache, at, answers>>

-----------------------------------------------------------------------------
(***************************************************************************)
(* StopService stops taking connections, then runs ClearAllSessionData:    *)
(* a listing of the directory and one removal for each file in it.         *)
(***************************************************************************)

\* Connections that nobody has accepted yet are reset.
Stop ==
  /\ service = "up"
  /\ wasStopped' = TRUE
  /\ service' = "stopping"
  /\ \/ /\ todo' = {f \in Files : cache[f].there} /\ spared' = {}
        /\ UNCHANGED faults
     \/ /\ todo' = {} /\ spared' = Files
        /\ Fault
  /\ \E reset \in SUBSET {r \in Requests : pc[r] = "load"} :
       /\ pc' = [r \in Requests |-> IF r \in reset THEN "done" ELSE pc[r]]
       /\ status' = [r \in Requests |-> IF r \in reset THEN "ERROR" ELSE status[r]]
  /\ UNCHANGED <<config, cache, at, open, got>>

\* Names are removed in the order of the listing.
FirstOf(fs) ==
  IF "api.json" \in fs THEN "api.json" ELSE IF "proof.data" \in fs THEN "proof.data" ELSE "witness.data"

\* Mutant of Remove: api.json is left.
RemoveProofsOnly ==
  /\ service = "stopping" /\ todo # {}
  /\ LET f == FirstOf(todo) IN
     /\ todo' = todo \ {f}
     /\ cache' = IF f # "api.json" THEN [cache EXCEPT ![f] = Absent] ELSE cache
     /\ open' = [r \in Requests |-> open[r] /\ at[r] # f]
  /\ UNCHANGED <<config, service, spared, wasStopped, pc, at, answers, faults>>

Remove ==
  /\ service = "stopping" /\ todo # {}
  /\ LET f == FirstOf(todo) IN
     /\ todo' = todo \ {f}
     /\ \/ /\ cache' = [cache EXCEPT ![f] = Absent]
           /\ open' = [r \in Requests |-> open[r] /\ at[r] # f]
           /\ UNCHANGED <<spared, faults>>
        \/ /\ spared' = spared \union {f}
           /\ Fault
           /\ UNCHANGED <<cache, open>>
  /\ UNCHANGED <<config, service, wasStopped, pc, at, answers>>

Stopped ==
  /\ service = "stopping" /\ todo = {}
  /\ service' = "stopped"
  /\ UNCHANGED <<config, cache, todo, spared, wasStopped, pc, at, open, answers, faults>>

\* The service is started again.
Start ==
  /\ service \in {"stopped", "crashed"}
  /\ service' = "up"
  /\ UNCHANGED <<config, cache, todo, spared, wasStopped, pc, at, open, answers, faults>>

\* The service dies; relays that wait for its reply find the connection
\* closed, those that have it go on.
Crash ==
  /\ service # "crashed"
  /\ Fault
  /\ service' = "crashed" /\ todo' = {} /\ spared' = {}
  /\ pc' = [r \in Requests |-> IF pc[r] \in Handling THEN "done" ELSE pc[r]]
  /\ status' = [r \in Requests |-> IF pc[r] \in Handling THEN "ERROR" ELSE status[r]]
  /\ open' = [r \in Requests |-> open[r] /\ pc[r] \notin Handling]
  /\ UNCHANGED <<config, cache, wasStopped, at, got>>

-----------------------------------------------------------------------------
Step(r) ==
  \/ Load(r) \/ Prove(r) \/ Create(r) \/ WriteHead(r) \/ WriteTail(r)
  \/ ReadProof(r) \/ ReadWitness(r) \/ ReadKey(r) \/ CreateJSON(r) \/ WriteJSON(r)

Proceed ==
  \/ \E r \in Requests : Step(r) \/ SaveError(r) \/ SaveJSONError(r)
  \/ Remove \/ Stopped \/ Start \/ Crash

Next == Proceed \/ Stop \/ \E r \in Requests : Send(r)

Spec == Init /\ [][Next]_vars

\* The scheduler runs every handler and every relay.
Fairness == \A r \in Requests : WF_vars(Step(r))

\* One command at a time: a request is sent, and the service is stopped, when
\* no request is in flight and no clean-up is going on.
Quiet == (\A r \in Requests : pc[r] \notin InFlight) /\ service # "stopping"

SerialNext == Proceed \/ (Quiet /\ (Stop \/ \E r \in Requests : Send(r)))
SerialSpec == Init /\ [][SerialNext]_vars /\ Fairness

-----------------------------------------------------------------------------
\* Rejected numbers are never answered with a proof, whatever else is in the
\* cache, and nothing of them gets into a file or an answer.
OnlySolvable ==
  LET Sound(file) == {file.head, file.tail} \subseteq Solvable \union {Nobody} IN
  /\ \A f \in Files : Sound(cache[f])
  /\ \A r \in Requests :
       /\ status[r] = "SUCCESS" => r \in Solvable
       /\ Sound(got[r].proof) /\ Sound(got[r].witness)

\* Requests at the same time do not make each other fail: with good keys, and
\* neither an I/O error nor a stop, good numbers are never refused.
ValidSucceeds ==
  \A r \in Solvable :
    faults = 0 /\ ~wasStopped /\ proving /\ verifying # "absent" => status[r] # "ERROR"

\* The files of a SUCCESS answer are the whole proof and the whole witness of
\* the request it answers.
AnswerIsOwn ==
  \A r \in Requests :
    status[r] = "SUCCESS" => got[r].proof = Whole(r) /\ got[r].witness = Whole(r)

\* VerifyProof returns true: the cached files decode, and the proof is for the
\* public number in the witness.
VerifyProof ==
  /\ verifying = "whole"
  /\ \E r, q \in Solvable :
       cache["proof.data"] = Whole(r) /\ cache["witness.data"] = Whole(q) /\ Y[r] = Y[q]

\* Between requests the cached proof and witness belong together, rejected
\* requests and clean-ups included.
RestingPairVerifies ==
  Quiet /\ faults = 0 /\ verifying = "whole" =>
    VerifyProof \/ (cache["proof.data"] = Absent /\ cache["witness.data"] = Absent)

\* A stopped service leaves no session data behind once all is at rest, but
\* what it could not list or remove.
StoppedIsClear ==
  Quiet /\ service = "stopped" => \A f \in Files \ spared : cache[f] = Absent

\* Every request that was sent is answered, through stops and crashes.
Answered == \A r \in Requests : pc[r] = "load" ~> status[r] # "none"

\* One at a time, requests get what ProofRelay promises.
Relay == INSTANCE ProofRelay WITH
  answer <- [r \in Requests |->
    [status  |-> status[r],
     proof   |-> IF status[r] = "SUCCESS" THEN got[r].proof.head ELSE Nobody,
     witness |-> IF status[r] = "SUCCESS" THEN got[r].witness.tail ELSE Nobody]]

ImplementsRelay == Relay!Spec
=============================================================================
