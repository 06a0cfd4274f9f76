------------------------ MODULE LegacySessionProofs ------------------------
(***************************************************************************)
(* Proofs about LegacySession: with any number of requests, stops, errors  *)
(* and crashes at the same time, the variables keep their types, and no    *)
(* file and no answer holds anything of a request whose numbers do not     *)
(* solve the circuit; and while nothing is stopped and nothing fails, no   *)
(* request makes another one fail.                                         *)
(***************************************************************************)
EXTENDS LegacySession, TLAPS

-----------------------------------------------------------------------------
\* What is left of a file when a part of it is written, and the files there
\* are to write.
LEMMA FileFacts ==
  /\ Absent \in FileSet /\ Empty \in FileSet
  /\ \A r \in Requests : Whole(r) \in FileSet
  /\ {"proof.data", "witness.data", "api.json"} = Files
BY DEF Absent, Empty, Whole, File, FileSet, Part, Files

\* Writing one part of a file leaves it a file.
LEMMA PartWritten ==
  ASSUME NEW r \in Requests, NEW f \in Files, cache \in [Files -> FileSet]
  PROVE  /\ [cache EXCEPT ![f].head = r] \in [Files -> FileSet]
         /\ [cache EXCEPT ![f].tail = r] \in [Files -> FileSet]
BY DEF FileSet, Part

\* The steps a request goes through, by name.
LEMMA StepNames ==
  /\ Handling = {"load", "prove", "create", "head", "tail"}
  /\ Relaying = {"readProof", "readWitness", "readKey"}
  /\ Saving = {"createJSON", "writeJSON"}
  /\ InFlight = {"load", "prove", "create", "head", "tail", "readProof", "readWitness",
                 "readKey", "createJSON", "writeJSON"}
BY DEF Handling, Relaying, Saving, InFlight

\* The initial state is well typed.
LEMMA TypeInit == Init => TypeOK
<1> SUFFICES ASSUME Init
             PROVE  TypeOK
  OBVIOUS
<1>1. /\ cache \in [Files -> FileSet]
      /\ got \in [Requests -> [proof : FileSet, witness : FileSet]]
      /\ at \in [Requests -> Files]
  BY FileFacts DEF Init
<1>2. /\ pc \in [Requests -> {"idle", "done"} \union InFlight]
      /\ status \in [Requests -> {"none", "ERROR", "SUCCESS"}]
      /\ faults \in 0..MaxFaults /\ todo \in SUBSET Files /\ spared \in SUBSET Files
      /\ service \in {"up", "stopping", "stopped", "crashed"}
  BY FaultsAssumption DEF Init
<1>3. open \in [Requests -> BOOLEAN] /\ wasStopped \in BOOLEAN
  BY Zenon DEF Init
<1> QED
  BY <1>1, <1>2, <1>3, Zenon DEF Init, TypeOK

\* Giving an answer, be it an error.
LEMMA RespondTyped ==
  ASSUME TypeOK, NEW r \in Requests,
         Respond(r, "ERROR") \/ Respond(r, "SUCCESS")
  PROVE  /\ pc' \in [Requests -> {"idle", "done"} \union InFlight]
         /\ status' \in [Requests -> {"none", "ERROR", "SUCCESS"}]
BY StepNames DEF Respond, Goto, TypeOK

\* A request that is turned down.
LEMMA RejectTyped ==
  ASSUME TypeOK, NEW r \in Requests, Reject(r), faults' \in 0..MaxFaults
  PROVE  TypeOK'
<1>1. Respond(r, "ERROR") /\ open' \in [Requests -> BOOLEAN]
      /\ UNCHANGED <<config, cleanup, cache, at, got>>
  BY DEF Reject, TypeOK
<1> QED
  BY <1>1, RespondTyped DEF TypeOK, config, cleanup

\* A step of one request, from the reading of the keys to api.json.
LEMMA StepTyped ==
  ASSUME TypeOK, NEW r \in Requests, Step(r) \/ SaveError(r) \/ SaveJSONError(r) \/ Send(r)
  PROVE  TypeOK'
<1> USE DEF config, cleanup, answers
<1>1. CASE Load(r) \/ Prove(r)
  <2>1. CASE Reject(r)
    <3>1. faults' = faults
      BY <1>1 DEF Load, Prove
    <3> QED
      BY <2>1, <3>1, RejectTyped DEF TypeOK
  <2>2. CASE ~Reject(r)
    <3>1. CASE Load(r)
      BY <2>2, <3>1, StepNames DEF Load, Goto, TypeOK
    <3>2. CASE Prove(r)
      BY <2>2, <3>2, StepNames, FileFacts DEF Prove, Goto, TypeOK
    <3> QED
      BY <1>1, <3>1, <3>2
  <2> QED
    BY <2>1, <2>2
<1>2. CASE Create(r)
  BY <1>2, StepNames, FileFacts DEF Create, Goto, TypeOK
<1>3. CASE WriteHead(r) \/ WriteTail(r)
  <2>1. at[r] \in Files /\ cache \in [Files -> FileSet]
    BY DEF TypeOK
  <2>2. cache' \in [Files -> FileSet]
    BY <1>3, <2>1, PartWritten DEF WriteHead, WriteTail
  <2>3. CASE WriteHead(r)
    BY <2>2, <2>3, StepNames DEF WriteHead, Goto, TypeOK
  <2>4. CASE WriteTail(r)
    <3>1. at' \in [Requests -> Files] /\ open' \in [Requests -> BOOLEAN]
      BY <2>4, FileFacts DEF WriteTail, TypeOK
    <3>2. pc' \in [Requests -> {"idle", "done"} \union InFlight]
      BY <2>4, StepNames DEF WriteTail, Goto, TypeOK
    <3> QED
      BY <2>2, <2>4, <3>1, <3>2 DEF WriteTail, TypeOK
  <2> QED
    BY <1>3, <2>3, <2>4
<1>4. CASE ReadProof(r) \/ ReadWitness(r)
  <2>1. cache["proof.data"] \in FileSet /\ cache["witness.data"] \in FileSet
    BY FileFacts DEF TypeOK
  <2>2. got' \in [Requests -> [proof : FileSet, witness : FileSet]]
    BY <1>4, <2>1 DEF ReadProof, ReadWitness, TypeOK
  <2>3. pc' \in [Requests -> {"idle", "done"} \union InFlight]
    BY <1>4, StepNames DEF ReadProof, ReadWitness, Goto, TypeOK
  <2> QED
    BY <1>4, <2>2, <2>3 DEF ReadProof, ReadWitness, TypeOK
<1>5. CASE ReadKey(r)
  <2>1. Respond(r, "ERROR") \/ Respond(r, "SUCCESS")
    BY <1>5, Zenon DEF ReadKey
  <2> QED
    BY <1>5, <2>1, RespondTyped DEF ReadKey, TypeOK
<1>6. CASE CreateJSON(r) \/ WriteJSON(r)
  <2>1. cache' \in [Files -> FileSet]
    BY <1>6, FileFacts DEF CreateJSON, WriteJSON, TypeOK
  <2>2. at' \in [Requests -> Files] /\ open' \in [Requests -> BOOLEAN]
    BY <1>6, FileFacts DEF CreateJSON, WriteJSON, TypeOK
  <2>3. pc' \in [Requests -> {"idle", "done"} \union InFlight]
    BY <1>6, StepNames DEF CreateJSON, WriteJSON, Goto, TypeOK
  <2> QED
    BY <1>6, <2>1, <2>2, <2>3 DEF CreateJSON, WriteJSON, TypeOK
<1>7. CASE SaveError(r)
  BY <1>7, RejectTyped, FaultsAssumption DEF SaveError, Fault, TypeOK
<1>8. CASE SaveJSONError(r)
  BY <1>8, StepNames, FaultsAssumption DEF SaveJSONError, Fault, Goto, TypeOK
<1>9. CASE Send(r)
  <2>1. CASE service = "up"
    BY <1>9, <2>1, StepNames DEF Send, Goto, TypeOK
  <2>2. CASE service # "up"
    BY <1>9, <2>2, RespondTyped DEF Send, TypeOK
  <2> QED
    BY <2>1, <2>2
<1> QED
  BY <1>1, <1>2, <1>3, <1>4, <1>5, <1>6, <1>7, <1>8, <1>9 DEF Step

\* A step of the service's life.
LEMMA ServiceTyped ==
  ASSUME TypeOK, Stop \/ Remove \/ Stopped \/ Start \/ Crash
  PROVE  TypeOK'
<1> USE FaultsAssumption DEF config, cleanup, answers
<1>1. CASE Stop
  BY <1>1, StepNames, FileFacts DEF Stop, Fault, TypeOK
<1>2. CASE Remove
  <2>1. FirstOf(todo) \in Files
    BY DEF FirstOf, Files
  <2>2. cache' \in [Files -> FileSet]
    BY <1>2, <2>1, FileFacts DEF Remove, TypeOK
  <2>3. open' \in [Requests -> BOOLEAN]
    BY <1>2, Zenon DEF Remove, TypeOK
  <2>4. todo' \in SUBSET Files /\ spared' \in SUBSET Files /\ faults' \in 0..MaxFaults
    BY <1>2, <2>1 DEF Remove, Fault, TypeOK
  <2> QED
    BY <1>2, <2>2, <2>3, <2>4 DEF Remove, TypeOK
<1>3. CASE Stopped \/ Start
  BY <1>3 DEF Stopped, Start, TypeOK
<1>4. CASE Crash
  BY <1>4, StepNames DEF Crash, Fault, TypeOK
<1> QED
  BY <1>1, <1>2, <1>3, <1>4

\* Every step keeps the variables in their types.
LEMMA TypeStep == TypeOK /\ [Next]_vars => TypeOK'
<1>1. ASSUME TypeOK, Next
      PROVE  TypeOK'
  BY <1>1, StepTyped, ServiceTyped DEF Next, Proceed
<1>2. ASSUME TypeOK, UNCHANGED vars
      PROVE  TypeOK'
  BY <1>2 DEF TypeOK, vars, config, cleanup, answers
<1> QED
  BY <1>1, <1>2

\* The variables keep their types, with any number of requests at a time.
THEOREM SessionTypeCorrect == Spec => []TypeOK
BY TypeInit, TypeStep, PTL DEF Spec

-----------------------------------------------------------------------------
(***************************************************************************)
(* Only solutions.                                                         *)
(***************************************************************************)

Sound(file) == file.head \in Solvable \union {Nobody} /\ file.tail \in Solvable \union {Nobody}

\* Only a request that the circuit accepted gets past groth16.Prove.
Proved == {"create", "head", "tail"} \union Relaying \union Saving

SolvableInv ==
  /\ \A r \in Requests : pc[r] \in Proved \/ status[r] = "SUCCESS" => r \in Solvable
  /\ \A f \in Files : Sound(cache[f])
  /\ \A r \in Requests : Sound(got[r].proof) /\ Sound(got[r].witness)

\* Files that hold nothing, or all of a solved request, are sound.
LEMMA SoundFacts ==
  /\ Sound(Absent) /\ Sound(Empty)
  /\ \A r \in Solvable : Sound(Whole(r))
BY DEF Sound, Absent, Empty, Whole, File

\* Writing a part of a solved request leaves every file sound.
LEMMA SoundWritten ==
  ASSUME TypeOK, NEW r \in Requests, r \in Solvable, NEW g \in Files,
         \A f \in Files : Sound(cache[f])
  PROVE  /\ \A f \in Files : Sound([cache EXCEPT ![g].head = r][f])
         /\ \A f \in Files : Sound([cache EXCEPT ![g].tail = r][f])
BY DEF TypeOK, FileSet, Sound

\* No proof of a rejected request exists at first.
LEMMA SolvableInit == Init => SolvableInv
BY SoundFacts, StepNames DEF Init, SolvableInv, Proved

\* What is answered and where requests stand: an answer of SUCCESS and a step
\* behind groth16.Prove are only for solved requests.
LEMMA MoveSolvable ==
  ASSUME TypeOK, SolvableInv, [Next]_vars
  PROVE  \A r \in Requests : pc'[r] \in Proved \/ status'[r] = "SUCCESS" => r \in Solvable
<1> USE StepNames DEF TypeOK, SolvableInv, Proved, answers
<1>1. ASSUME NEW q \in Requests, Step(q)
      PROVE  \A r \in Requests : pc'[r] \in Proved \/ status'[r] = "SUCCESS" => r \in Solvable
  <2>1. CASE Load(q) \/ Prove(q)
    BY <2>1 DEF Load, Prove, Reject, Respond, Goto
  <2>2. CASE Create(q) \/ WriteHead(q) \/ WriteTail(q)
    BY <2>2 DEF Create, WriteHead, WriteTail, Goto
  <2>3. CASE ReadProof(q) \/ ReadWitness(q) \/ ReadKey(q)
    BY <2>3 DEF ReadProof, ReadWitness, ReadKey, Respond, Goto
  <2>4. CASE CreateJSON(q) \/ WriteJSON(q)
    BY <2>4 DEF CreateJSON, WriteJSON, Goto
  <2> QED
    BY <1>1, <2>1, <2>2, <2>3, <2>4 DEF Step
<1>2. ASSUME NEW q \in Requests, SaveError(q) \/ SaveJSONError(q) \/ Send(q)
      PROVE  \A r \in Requests : pc'[r] \in Proved \/ status'[r] = "SUCCESS" => r \in Solvable
  BY <1>2 DEF SaveError, SaveJSONError, Send, Reject, Respond, Goto
<1>3. CASE Stop
  BY <1>3 DEF Stop
<1>4. CASE Remove \/ Stopped \/ Start \/ Crash
  BY <1>4 DEF Remove, Stopped, Start, Crash
<1>5. CASE UNCHANGED vars
  BY <1>5 DEF vars
<1> QED
  BY <1>1, <1>2, <1>3, <1>4, <1>5 DEF Next, Proceed

\* What is written to the session files.
LEMMA FilesSound ==
  ASSUME TypeOK, SolvableInv, [Next]_vars
  PROVE  \A f \in Files : Sound(cache'[f])
<1>1. /\ \A f \in Files : Sound(cache[f])
      /\ \A r \in Requests : pc[r] \in Proved => r \in Solvable
      /\ \A r \in Requests : at[r] \in Files
      /\ cache \in [Files -> FileSet]
  BY DEF SolvableInv, TypeOK
<1>2. ASSUME NEW q \in Requests, Step(q)
      PROVE  \A f \in Files : Sound(cache'[f])
  <2>1. CASE Create(q) \/ CreateJSON(q)
    BY <1>1, <2>1, SoundFacts DEF Create, CreateJSON
  <2>2. CASE WriteHead(q) \/ WriteTail(q)
    <3>1. q \in Solvable
      BY <1>1, <2>2 DEF WriteHead, WriteTail, Proved
    <3> QED
      BY <1>1, <2>2, <3>1, SoundWritten DEF WriteHead, WriteTail
  <2>3. CASE WriteJSON(q)
    <3>1. q \in Solvable
      BY <1>1, <2>3 DEF WriteJSON, Proved, Saving
    <3> QED
      BY <1>1, <2>3, <3>1, SoundFacts DEF WriteJSON
  <2>4. CASE Load(q) \/ Prove(q) \/ ReadProof(q) \/ ReadWitness(q) \/ ReadKey(q)
    BY <1>1, <2>4 DEF Load, Prove, Reject, ReadProof, ReadWitness, ReadKey
  <2> QED
    BY <1>2, <2>1, <2>2, <2>3, <2>4 DEF Step
<1>3. ASSUME NEW q \in Requests, SaveError(q) \/ SaveJSONError(q) \/ Send(q)
      PROVE  \A f \in Files : Sound(cache'[f])
  BY <1>1, <1>3 DEF SaveError, SaveJSONError, Send, Reject
<1>4. CASE Stop \/ Remove \/ Stopped \/ Start \/ Crash
  BY <1>1, <1>4, SoundFacts DEF Stop, Remove, Stopped, Start, Crash
<1>5. CASE UNCHANGED vars
  BY <1>1, <1>5 DEF vars
<1> QED
  BY <1>2, <1>3, <1>4, <1>5 DEF Next, Proceed

\* What the relays read.
LEMMA GotSound ==
  ASSUME TypeOK, SolvableInv, [Next]_vars
  PROVE  \A r \in Requests : Sound(got'[r].proof) /\ Sound(got'[r].witness)
<1>1. /\ \A r \in Requests : Sound(got[r].proof) /\ Sound(got[r].witness)
      /\ Sound(cache["proof.data"]) /\ Sound(cache["witness.data"])
      /\ got \in [Requests -> [proof : FileSet, witness : FileSet]]
  BY FileFacts DEF SolvableInv, TypeOK
<1>2. ASSUME NEW q \in Requests, ReadProof(q) \/ ReadWitness(q)
      PROVE  \A r \in Requests : Sound(got'[r].proof) /\ Sound(got'[r].witness)
  BY <1>1, <1>2 DEF ReadProof, ReadWitness
<1>3. CASE UNCHANGED got
  BY <1>1, <1>3
<1>4. ASSUME NEW q \in Requests, Step(q) \/ SaveError(q) \/ SaveJSONError(q) \/ Send(q),
             ~(ReadProof(q) \/ ReadWitness(q))
      PROVE  UNCHANGED got
  BY <1>4 DEF Step, Load, Prove, Create, WriteHead, WriteTail, ReadKey, CreateJSON, WriteJSON,
              SaveError, SaveJSONError, Send, Reject, answers
<1>5. CASE Stop \/ Remove \/ Stopped \/ Start \/ Crash \/ UNCHANGED vars
  BY <1>3, <1>5 DEF Stop, Remove, Stopped, Start, Crash, vars, answers
<1> QED
  BY <1>2, <1>3, <1>4, <1>5 DEF Next, Proceed

\* No step makes a proof of a rejected request.
LEMMA SolvableStep == TypeOK /\ SolvableInv /\ [Next]_vars => SolvableInv'
<1> SUFFICES ASSUME TypeOK, SolvableInv, [Next]_vars
             PROVE  SolvableInv'
  OBVIOUS
<1> QED
  BY MoveSolvable, FilesSound, GotSound DEF SolvableInv

\* Numbers that do not solve the circuit are never answered with a proof, and
\* nothing of them gets into a file or an answer, whatever runs beside them.
THEOREM OnlySolvableHolds == Spec => []OnlySolvable
<1>1. SolvableInv => OnlySolvable
  BY DEF SolvableInv, Sound, OnlySolvable
<1>2. Spec => []SolvableInv
  BY SessionTypeCorrect, SolvableInit, SolvableStep, PTL DEF Spec
<1> QED
  BY <1>1, <1>2, PTL

-----------------------------------------------------------------------------
(***************************************************************************)
(* Solved requests are not refused.                                        *)
(***************************************************************************)

Writing == {"create", "head", "tail"}

\* What request r needs of the cache stays there as long as nothing is removed.
Provided(r) ==
  /\ pc[r] \in Writing => at[r] \in {"proof.data", "witness.data"}
  /\ pc[r] \in {"head", "tail"} => cache[at[r]].there
  /\ pc[r] \in Writing /\ at[r] = "witness.data" => cache["proof.data"].there
  /\ pc[r] \in Relaying => cache["proof.data"].there /\ cache["witness.data"].there
  /\ pc[r] \in {"readWitness", "readKey"} => got[r].proof.there
  /\ pc[r] = "readKey" => got[r].witness.there

Undisturbed == faults = 0 /\ ~wasStopped

ProvidedInv ==
  Undisturbed =>
    /\ service = "up"
    /\ \A r \in Requests : Provided(r)
    /\ \A r \in Solvable : proving /\ verifying # "absent" => status[r] # "ERROR"

\* Nothing is undisturbed again once it was disturbed.
LEMMA StaysDisturbed ==
  ASSUME TypeOK, [Next]_vars, Undisturbed'
  PROVE  /\ Undisturbed
         /\ \/ \E r \in Requests : Step(r) \/ Send(r)
            \/ Remove \/ Stopped \/ Start \/ UNCHANGED vars
         /\ faults' = faults
<1> USE FaultsAssumption DEF Undisturbed, config, cleanup, answers, TypeOK
<1>1. CASE \E r \in Requests : SaveError(r) \/ SaveJSONError(r)
  BY <1>1 DEF SaveError, SaveJSONError, Fault
<1>2. CASE Stop \/ Crash
  BY <1>2 DEF Stop, Crash, Fault
<1>3. ASSUME NEW r \in Requests, Step(r) \/ Send(r)
      PROVE  faults' = faults /\ wasStopped' = wasStopped
  BY <1>3 DEF Step, Load, Prove, Create, WriteHead, WriteTail, ReadProof, ReadWitness, ReadKey,
              CreateJSON, WriteJSON, Send, Reject
<1>4. CASE Remove \/ Stopped \/ Start
  BY <1>4 DEF Remove, Stopped, Start, Fault
<1>5. CASE UNCHANGED vars
  BY <1>5 DEF vars
<1> QED
  BY <1>1, <1>2, <1>3, <1>4, <1>5 DEF Next, Proceed

\* A step of one request takes nothing from the others: files that are there
\* stay there, and only the request itself moves.
LEMMA NothingTaken ==
  ASSUME TypeOK, NEW q \in Requests, Step(q) \/ Send(q)
  PROVE  /\ \A f \in Files : cache[f].there => cache'[f].there
         /\ \A r \in Requests \ {q} :
              /\ pc'[r] = pc[r] /\ at'[r] = at[r] /\ got'[r] = got[r]
              /\ status'[r] = status[r]
         /\ UNCHANGED <<service, config>>
<1> USE DEF TypeOK, FileSet, config, cleanup, answers
<1>1. CASE Create(q) \/ CreateJSON(q)
  BY <1>1 DEF Create, CreateJSON, Goto, Empty, File
<1>2. CASE WriteHead(q)
  BY <1>2 DEF WriteHead, Goto
<1>3. CASE WriteTail(q)
  <2>1. \A f \in Files : cache[f].there => cache'[f].there
    BY <1>3 DEF WriteTail
  <2> QED
    BY <1>3, <2>1 DEF WriteTail, Goto
<1>4. CASE WriteJSON(q)
  BY <1>4 DEF WriteJSON, Goto, Whole, File
<1>5. CASE Load(q) \/ Prove(q) \/ Send(q)
  BY <1>5 DEF Load, Prove, Send, Reject, Respond, Goto
<1>6. CASE ReadProof(q) \/ ReadWitness(q) \/ ReadKey(q)
  BY <1>6 DEF ReadProof, ReadWitness, ReadKey, Respond, Goto
<1> QED
  BY <1>1, <1>2, <1>3, <1>4, <1>5, <1>6 DEF Step

\* At first all is up and nobody needs anything.
LEMMA ProvidedInit == Init => ProvidedInv
<1>1. Solvable \subseteq Requests
  BY DEF Solvable
<1> QED
  BY <1>1, StepNames DEF Init, ProvidedInv, Provided, Writing

\* The request that moves keeps what it needs, and moves on without an error
\* when its numbers and the keys are good.
LEMMA MoverProvided ==
  ASSUME TypeOK, NEW q \in Requests, Step(q) \/ Send(q), service = "up", Provided(q)
  PROVE  /\ Provided(q)'
         /\ (q \in Solvable /\ proving /\ verifying # "absent" /\ status[q] # "ERROR"
              => status'[q] # "ERROR")
<1> USE StepNames, FileFacts DEF TypeOK, FileSet, Provided, Writing
<1>1. CASE Load(q) \/ Prove(q)
  BY <1>1 DEF Load, Prove, Reject, Respond, Goto, answers
<1>2. CASE Send(q)
  BY <1>2 DEF Send, Goto
<1>3. CASE Create(q)
  BY <1>3 DEF Create, Goto, Empty, File, answers
<1>4. CASE WriteHead(q)
  <2>1. /\ pc[q] = "head" /\ pc' = [pc EXCEPT ![q] = "tail"]
        /\ UNCHANGED <<at, got, status>>
    BY <1>4 DEF WriteHead, Goto, answers
  <2>2. \A f \in Files : cache[f].there => cache'[f].there
    BY <1>4, NothingTaken
  <2> QED
    BY <2>1, <2>2
<1>5. CASE WriteTail(q)
  <2>1. /\ pc[q] = "tail" /\ UNCHANGED <<got, status>>
        /\ IF at[q] = "proof.data"
           THEN pc' = [pc EXCEPT ![q] = "create"] /\ at' = [at EXCEPT ![q] = "witness.data"]
           ELSE pc' = [pc EXCEPT ![q] = "readProof"] /\ UNCHANGED at
    BY <1>5 DEF WriteTail, Goto, answers
  <2>2. \A f \in Files : cache[f].there => cache'[f].there
    BY <1>5, NothingTaken
  <2> QED
    BY <2>1, <2>2
<1>6. CASE ReadProof(q)
  BY <1>6 DEF ReadProof, Goto
<1>7. CASE ReadWitness(q)
  BY <1>7 DEF ReadWitness, Goto
<1>8. CASE ReadKey(q)
  BY <1>8 DEF ReadKey, Respond, Goto
<1>9. CASE CreateJSON(q) \/ WriteJSON(q)
  BY <1>9 DEF CreateJSON, WriteJSON, Goto, answers
<1> QED
  BY <1>1, <1>2, <1>3, <1>4, <1>5, <1>6, <1>7, <1>8, <1>9 DEF Step

\* While nothing is removed, every request finds what it needs.
LEMMA ProvidedStep == TypeOK /\ ProvidedInv /\ [Next]_vars => ProvidedInv'
<1> SUFFICES ASSUME TypeOK, ProvidedInv, [Next]_vars, Undisturbed'
             PROVE  /\ service' = "up"
                    /\ \A r \in Requests : Provided(r)'
                    /\ \A r \in Solvable :
                         proving' /\ verifying' # "absent" => status'[r] # "ERROR"
  BY DEF ProvidedInv
<1>1. /\ service = "up"
      /\ \A r \in Requests : Provided(r)
      /\ \A r \in Solvable : proving /\ verifying # "absent" => status[r] # "ERROR"
  BY StaysDisturbed DEF ProvidedInv
<1>2. ASSUME NEW q \in Requests, Step(q) \/ Send(q)
      PROVE  /\ service' = "up"
             /\ \A r \in Requests : Provided(r)'
             /\ \A r \in Solvable : proving' /\ verifying' # "absent" => status'[r] # "ERROR"
  <2>1. /\ \A f \in Files : cache[f].there => cache'[f].there
        /\ \A r \in Requests \ {q} :
             pc'[r] = pc[r] /\ at'[r] = at[r] /\ got'[r] = got[r] /\ status'[r] = status[r]
        /\ service' = "up" /\ proving' = proving /\ verifying' = verifying
    BY <1>1, <1>2, NothingTaken DEF config
  <2>2. Provided(q)' /\ (q \in Solvable /\ proving /\ verifying # "absent" => status'[q] # "ERROR")
    BY <1>1, <1>2, MoverProvided
  <2>3. ASSUME NEW r \in Requests \ {q}
        PROVE  Provided(r)'
    BY <1>1, <2>1, <2>3, FileFacts DEF Provided, TypeOK
  <2>4. Solvable \subseteq Requests
    BY DEF Solvable
  <2> QED
    BY <1>1, <2>1, <2>2, <2>3, <2>4
<1>3. CASE Remove \/ Stopped \/ Start
  BY <1>1, <1>3 DEF Remove, Stopped, Start
<1>4. CASE UNCHANGED vars
  BY <1>1, <1>4 DEF vars, config, cleanup, answers, Provided
<1> QED
  BY <1>2, <1>3, <1>4, StaysDisturbed

\* Requests at the same time do not make each other fail: with good keys, and
\* neither an I/O error nor a stop, good numbers are never answered with ERROR.
THEOREM ValidSucceedsHolds == Spec => []ValidSucceeds
<1>1. ProvidedInv => ValidSucceeds
  BY DEF ProvidedInv, Undisturbed, ValidSucceeds
<1>2. Spec => []ProvidedInv
  BY SessionTypeCorrect, ProvidedInit, ProvidedStep, PTL DEF Spec
<1> QED
  BY <1>1, <1>2, PTL
=============================================================================
