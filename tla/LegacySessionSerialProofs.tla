--------------------- MODULE LegacySessionSerialProofs ---------------------
(***************************************************************************)
(* Proofs about LegacySession used by one command at a time: each answer   *)
(* is made of the files of its own request, the cached proof and witness   *)
(* belong together between requests, a stopped service leaves nothing      *)
(* behind, and the requests get what ProofRelay promises.                  *)
(*                                                                         *)
(* The inductive invariant follows the request in flight, the only one,    *)
(* through the two files it writes and reads back (Own), the session files *)
(* through a clean-up (Cleared), and the cached pair (Paired).             *)
(***************************************************************************)
EXTENDS LegacySessionProofs

\* One command at a time: no second request, and no clean-up beside one.
Alone ==
  /\ \A r, q \in Requests : pc[r] \in InFlight /\ pc[q] \in InFlight => r = q
  /\ \A r \in Requests : pc[r] \in InFlight => service \notin {"stopping", "stopped"}

\* What the files hold of request r while it is written and read back.
Written(r) ==
  /\ open[r] <=> pc[r] \in {"head", "tail", "writeJSON"}
  /\ pc[r] \in Writing => at[r] \in {"proof.data", "witness.data"}
  /\ pc[r] \in Writing /\ at[r] = "witness.data" => cache["proof.data"] = Whole(r)
  /\ pc[r] = "head" => cache[at[r]] = Empty
  /\ pc[r] = "tail" => cache[at[r]] = File(TRUE, r, Nobody)
  /\ pc[r] \in Relaying => cache["proof.data"] = Whole(r) /\ cache["witness.data"] = Whole(r)

\* What its relay holds and has answered.
Collected(r) ==
  /\ status[r] = "none" <=> pc[r] = "idle" \/ pc[r] \in Handling \union Relaying
  /\ status[r] = "SUCCESS" => got[r].proof = Whole(r) /\ got[r].witness = Whole(r)
  /\ pc[r] \in Saving => status[r] = "SUCCESS"
  /\ pc[r] \in {"readWitness", "readKey"} => got[r].proof = Whole(r)
  /\ pc[r] = "readKey" => got[r].witness = Whole(r)

Own == \A r \in Requests : Written(r) /\ Collected(r)

\* What a clean-up has removed, or was not asked to, is gone.
Cleared ==
  /\ \A f \in Files : cache[f].there \/ cache[f] = Absent
  /\ service \in {"stopping", "stopped"} =>
       \A f \in Files \ (todo \union spared) : cache[f] = Absent
  /\ service = "stopped" => todo = {}
  /\ faults = 0 => spared = {}

\* Whenever nobody is at work on it, the cached pair is of one request.
AtRest == (\A r \in Requests : pc[r] \notin Writing) /\ service # "stopping"

OnePair ==
  \/ cache["proof.data"] = Absent /\ cache["witness.data"] = Absent
  \/ \E r \in Solvable : cache["proof.data"] = Whole(r) /\ cache["witness.data"] = Whole(r)

Paired == faults = 0 /\ AtRest => OnePair

SerialInv == Alone /\ Own /\ Cleared /\ Paired

-----------------------------------------------------------------------------
(***************************************************************************)
(* The steps.                                                              *)
(***************************************************************************)

RequestStep(q) == Step(q) \/ SaveError(q) \/ SaveJSONError(q) \/ (Quiet /\ Send(q))

\* Serial use is a use.
LEMMA SerialIsSpec == SerialSpec => Spec
<1>1. [SerialNext]_vars => [Next]_vars
  BY DEF SerialNext, Next
<1> QED
  BY <1>1, PTL DEF SerialSpec, Spec

\* The files have different names.
LEMMA NamesDiffer ==
  /\ "proof.data" # "witness.data" /\ "proof.data" # "api.json" /\ "witness.data" # "api.json"
  /\ \A r \in Requests :
       /\ Whole(r).there /\ Whole(r).head = r /\ Whole(r).tail = r
       /\ Whole(r) # Absent /\ File(TRUE, r, Nobody).there
  /\ Empty.there /\ ~Absent.there
BY DEF Whole, Absent, Empty, File

\* What a step of one request leaves alone.
LEMMA OthersUntouched ==
  ASSUME TypeOK, NEW q \in Requests, RequestStep(q)
  PROVE  /\ \A r \in Requests \ {q} :
              /\ pc'[r] = pc[r] /\ at'[r] = at[r] /\ open'[r] = open[r]
              /\ got'[r] = got[r] /\ status'[r] = status[r]
         /\ UNCHANGED <<config, cleanup>>
<1> USE DEF TypeOK, config, cleanup, answers
<1>1. CASE Create(q) \/ CreateJSON(q)
  BY <1>1 DEF Create, CreateJSON, Goto
<1>2. CASE WriteHead(q)
  BY <1>2 DEF WriteHead, Goto
<1>3. CASE WriteTail(q)
  BY <1>3 DEF WriteTail, Goto
<1>4. CASE WriteJSON(q)
  BY <1>4 DEF WriteJSON, Goto
<1>5. CASE Load(q) \/ Prove(q) \/ Send(q)
  BY <1>5 DEF Load, Prove, Send, Reject, Respond, Goto
<1>6. CASE ReadProof(q) \/ ReadWitness(q) \/ ReadKey(q)
  BY <1>6 DEF ReadProof, ReadWitness, ReadKey, Respond, Goto
<1>7. CASE SaveError(q) \/ SaveJSONError(q)
  BY <1>7 DEF SaveError, SaveJSONError, Reject, Respond, Goto
<1> QED
  BY <1>1, <1>2, <1>3, <1>4, <1>5, <1>6, <1>7 DEF Step, RequestStep

\* A request moves on its own: those beside it are not in flight, nor do they
\* become so.
LEMMA AloneStep ==
  ASSUME TypeOK, Alone, NEW q \in Requests, RequestStep(q)
  PROVE  /\ Alone'
         /\ service \notin {"stopping", "stopped"} \/ pc'[q] \notin InFlight
         /\ \A r \in Requests \ {q} : pc[r] \notin InFlight /\ pc'[r] \notin InFlight
<1>1. /\ \A r \in Requests \ {q} : pc'[r] = pc[r]
      /\ service' = service
  BY OthersUntouched DEF cleanup
<1>2. CASE Quiet /\ Send(q)
  <2>1. \A r \in Requests : pc[r] \notin InFlight
    BY <1>2 DEF Quiet
  <2>2. service \notin {"stopping", "stopped"} \/ pc'[q] \notin InFlight
    BY <1>2, StepNames DEF Send, Respond, Goto, TypeOK
  <2> QED
    BY <1>1, <2>1, <2>2 DEF Alone
<1>3. CASE ~(Quiet /\ Send(q))
  <2>1. pc[q] \in InFlight
    BY <1>3, StepNames DEF RequestStep, Step, Load, Prove, Create, WriteHead, WriteTail, ReadProof,
                           ReadWitness, ReadKey, CreateJSON, WriteJSON, SaveError, SaveJSONError
  <2> QED
    BY <1>1, <2>1 DEF Alone
<1> QED
  BY <1>2, <1>3

\* A file is what its parts say.
LEMMA FileIsItsParts ==
  ASSUME NEW c \in FileSet
  PROVE  c = File(c.there, c.head, c.tail)
BY DEF FileSet, File

\* Two writes make a whole file of an empty one.
LEMMA TwoWrites ==
  ASSUME TypeOK, NEW r \in Requests, NEW f \in Files
  PROVE  /\ cache[f] = Empty => [cache EXCEPT ![f].head = r][f] = File(TRUE, r, Nobody)
         /\ cache[f] = File(TRUE, r, Nobody) => [cache EXCEPT ![f].tail = r][f] = Whole(r)
<1> DEFINE c == [cache EXCEPT ![f].head = r][f]
           d == [cache EXCEPT ![f].tail = r][f]
<1>1. c \in FileSet /\ d \in FileSet
  <2>1. /\ [cache EXCEPT ![f].head = r] \in [Files -> FileSet]
        /\ [cache EXCEPT ![f].tail = r] \in [Files -> FileSet]
    BY PartWritten DEF TypeOK
  <2> QED
    BY <2>1
<1>2. /\ c.there = cache[f].there /\ c.head = r /\ c.tail = cache[f].tail
      /\ d.there = cache[f].there /\ d.head = cache[f].head /\ d.tail = r
  BY DEF TypeOK, FileSet
<1> HIDE DEF c, d
<1>3. c = File(cache[f].there, r, cache[f].tail) /\ d = File(cache[f].there, cache[f].head, r)
  BY <1>1, <1>2, FileIsItsParts
<1>4. /\ Empty.there = TRUE /\ Empty.tail = Nobody
      /\ File(TRUE, r, Nobody).there = TRUE /\ File(TRUE, r, Nobody).head = r
  BY DEF Empty, File
<1>5. /\ cache[f] = Empty => c = File(TRUE, r, Nobody)
      /\ cache[f] = File(TRUE, r, Nobody) => d = Whole(r)
  BY <1>3, <1>4, Zenon DEF Whole
<1> QED
  BY <1>5 DEF c, d

\* The request that moves: what it has written, it reads back.
LEMMA WrittenStep ==
  ASSUME TypeOK, Alone, NEW q \in Requests, Written(q), RequestStep(q)
  PROVE  Written(q)'
<1> USE StepNames, FileFacts, NamesDiffer DEF Written, Writing
<1>1. CASE Load(q) \/ Prove(q) \/ SaveError(q) \/ SaveJSONError(q)
  <2>1. CASE Reject(q) \/ SaveJSONError(q)
    <3>1. pc'[q] = "done" /\ ~open'[q]
      BY <2>1 DEF Reject, Respond, SaveJSONError, Goto, TypeOK
    <3> QED
      BY <3>1
  <2>2. CASE ~Reject(q) /\ (Load(q) \/ Prove(q))
    <3>1. /\ pc'[q] = "prove" \/ (pc'[q] = "create" /\ at'[q] = "proof.data")
          /\ pc[q] \in {"load", "prove"} /\ open'[q] = open[q]
      BY <2>2 DEF Load, Prove, Goto, TypeOK
    <3> QED
      BY <3>1
  <2> QED
    BY <1>1, <2>1, <2>2 DEF SaveError
<1>2. CASE Create(q)
  <2>1. /\ pc[q] = "create" /\ pc'[q] = "head" /\ open'[q]
        /\ at[q] \in Files /\ at'[q] = at[q] /\ cache'[at[q]] = Empty
        /\ \A f \in Files : f # at[q] => cache'[f] = cache[f]
    BY <1>2 DEF Create, Goto, TypeOK
  <2> QED
    BY <2>1
<1>3. CASE WriteHead(q)
  <2>1. /\ pc[q] = "head" /\ pc'[q] = "tail" /\ open[q] /\ open'[q]
        /\ at[q] \in Files /\ at'[q] = at[q] /\ cache[at[q]] = Empty
        /\ cache' = [cache EXCEPT ![at[q]].head = q]
        /\ \A f \in Files : f # at[q] => cache'[f] = cache[f]
    BY <1>3 DEF WriteHead, Goto, TypeOK
  <2>2. cache'[at[q]] = File(TRUE, q, Nobody)
    BY <2>1, TwoWrites
  <2> QED
    BY <2>1, <2>2
<1>4. CASE WriteTail(q)
  <2>1. /\ pc[q] = "tail" /\ open[q] /\ ~open'[q]
        /\ at[q] \in Files /\ cache[at[q]] = File(TRUE, q, Nobody)
        /\ cache' = [cache EXCEPT ![at[q]].tail = q]
        /\ \A f \in Files : f # at[q] => cache'[f] = cache[f]
    BY <1>4 DEF WriteTail, TypeOK
  <2>2. cache'[at[q]] = Whole(q)
    BY <2>1, TwoWrites
  <2>3. IF at[q] = "proof.data"
        THEN pc'[q] = "create" /\ at'[q] = "witness.data"
        ELSE pc'[q] = "readProof"
    BY <1>4 DEF WriteTail, Goto, TypeOK
  <2> QED
    BY <2>1, <2>2, <2>3
<1>5. CASE ReadProof(q) \/ ReadWitness(q) \/ ReadKey(q)
  <2>1. /\ pc[q] \in Relaying /\ pc'[q] \in {"readWitness", "readKey", "createJSON", "done"}
        /\ UNCHANGED <<cache, at, open>>
    BY <1>5 DEF ReadProof, ReadWitness, ReadKey, Respond, Goto, TypeOK
  <2> QED
    BY <2>1
<1>6. CASE CreateJSON(q)
  <2>1. pc'[q] = "writeJSON" /\ open'[q]
    BY <1>6 DEF CreateJSON, Goto, TypeOK
  <2> QED
    BY <2>1
<1>7. CASE WriteJSON(q)
  <2>1. pc'[q] = "done" /\ ~open'[q]
    BY <1>7 DEF WriteJSON, Goto, TypeOK
  <2> QED
    BY <2>1
<1>8. CASE Send(q)
  <2>1. pc[q] = "idle" /\ pc'[q] \in {"load", "done"} /\ open'[q] = open[q]
    BY <1>8 DEF Send, Respond, Goto, TypeOK
  <2> QED
    BY <2>1
<1> QED
  BY <1>1, <1>2, <1>3, <1>4, <1>5, <1>6, <1>7, <1>8 DEF Step, RequestStep

\* And its relay collects what was written, and answers once.
LEMMA CollectedStep ==
  ASSUME TypeOK, NEW q \in Requests, Written(q), Collected(q), RequestStep(q)
  PROVE  Collected(q)'
<1> USE StepNames, NamesDiffer DEF Collected
<1>1. CASE Reject(q) /\ (Load(q) \/ Prove(q) \/ SaveError(q))
  <2>1. pc'[q] = "done" /\ status'[q] = "ERROR"
    BY <1>1 DEF Reject, Respond, Goto, TypeOK
  <2> QED
    BY <2>1
<1>2. CASE ~Reject(q) /\ (Load(q) \/ Prove(q))
  <2>1. pc[q] \in {"load", "prove"} /\ pc'[q] \in {"prove", "create"} /\ status'[q] = status[q]
    BY <1>2 DEF Load, Prove, Goto, answers, TypeOK
  <2> QED
    BY <2>1
<1>3. CASE Create(q) \/ WriteHead(q) \/ WriteTail(q)
  <2>1. /\ pc[q] \in Writing /\ pc'[q] \in {"head", "tail", "create", "readProof"}
        /\ status'[q] = status[q]
    BY <1>3 DEF Create, WriteHead, WriteTail, Goto, answers, TypeOK, Writing
  <2> QED
    BY <2>1 DEF Writing
<1>4. CASE ReadProof(q)
  <2>1. /\ pc[q] = "readProof" /\ pc'[q] = "readWitness" /\ status'[q] = status[q]
        /\ got'[q].proof = cache["proof.data"]
    BY <1>4 DEF ReadProof, Goto, TypeOK
  <2> QED
    BY <2>1 DEF Written
<1>5. CASE ReadWitness(q)
  <2>1. /\ pc[q] = "readWitness" /\ pc'[q] = "readKey" /\ status'[q] = status[q]
        /\ got'[q].proof = got[q].proof /\ got'[q].witness = cache["witness.data"]
    BY <1>5 DEF ReadWitness, Goto, TypeOK
  <2> QED
    BY <2>1 DEF Written
<1>6. CASE ReadKey(q)
  <2>1. /\ pc[q] = "readKey" /\ got' = got
        /\ \/ pc'[q] = "done" /\ status'[q] = "ERROR"
           \/ pc'[q] = "createJSON" /\ status'[q] = "SUCCESS"
    BY <1>6 DEF ReadKey, Respond, Goto, TypeOK
  <2> QED
    BY <2>1
<1>7. CASE CreateJSON(q) \/ WriteJSON(q) \/ SaveJSONError(q)
  <2>1. /\ pc[q] \in Saving /\ pc'[q] \in {"writeJSON", "done"}
        /\ got' = got /\ status' = status
    BY <1>7 DEF CreateJSON, WriteJSON, SaveJSONError, Goto, answers, TypeOK
  <2> QED
    BY <2>1
<1>8. CASE Send(q)
  <2>1. /\ pc[q] = "idle"
        /\ \/ pc'[q] = "done" /\ status'[q] = "ERROR"
           \/ pc'[q] = "load" /\ status'[q] = status[q]
    BY <1>8 DEF Send, Respond, Goto, TypeOK
  <2> QED
    BY <2>1
<1> QED
  BY <1>1, <1>2, <1>3, <1>4, <1>5, <1>6, <1>7, <1>8 DEF Step, RequestStep, SaveError

\* With the others at rest, that is so of every request.
LEMMA OwnStep ==
  ASSUME TypeOK, Alone, Own, NEW q \in Requests, RequestStep(q)
  PROVE  Own'
<1>1. Written(q)' /\ Collected(q)'
  BY WrittenStep, CollectedStep DEF Own
<1>2. ASSUME NEW r \in Requests \ {q}
      PROVE  Written(r)' /\ Collected(r)'
  <2>1. /\ pc'[r] = pc[r] /\ open'[r] = open[r] /\ got'[r] = got[r] /\ status'[r] = status[r]
        /\ pc[r] \notin InFlight
    BY AloneStep, OthersUntouched
  <2>2. Written(r) /\ Collected(r)
    BY DEF Own
  <2>3. Written(r)'
    BY <2>1, <2>2, StepNames DEF Written, Writing
  <2>4. Collected(r)'
    BY <2>1, <2>2, StepNames DEF Collected
  <2> QED
    BY <2>3, <2>4
<1> QED
  BY <1>1, <1>2 DEF Own

\* No request is at work beside a clean-up or after it, and what it writes is
\* there.
LEMMA ClearedStep ==
  ASSUME TypeOK, Alone, Own, Cleared, NEW q \in Requests, RequestStep(q)
  PROVE  Cleared'
<1>1. service' = service /\ todo' = todo /\ spared' = spared
  BY OthersUntouched DEF cleanup
<1>2. faults' = 0 => faults = 0
  BY FaultsAssumption DEF RequestStep, Step, Load, Prove, Create, WriteHead, WriteTail, ReadProof,
       ReadWitness, ReadKey, CreateJSON, WriteJSON, SaveError, SaveJSONError, Send, Fault, TypeOK
<1>3. CASE UNCHANGED cache
  BY <1>1, <1>2, <1>3 DEF Cleared
<1>4. CASE Create(q) \/ WriteHead(q) \/ WriteTail(q) \/ CreateJSON(q) \/ WriteJSON(q)
  <2>1. pc[q] \in InFlight
    BY <1>4, StepNames DEF Create, WriteHead, WriteTail, CreateJSON, WriteJSON
  <2>2. service \notin {"stopping", "stopped"}
    BY <2>1 DEF Alone
  <2>3. \A f \in Files : cache'[f] = cache[f] \/ cache'[f].there
    <3>1. CASE Create(q) \/ CreateJSON(q) \/ WriteJSON(q)
      BY <3>1, NamesDiffer DEF Create, CreateJSON, WriteJSON, TypeOK
    <3>2. CASE WriteHead(q) \/ WriteTail(q)
      <4>1. at[q] \in Files /\ cache[at[q]].there
        BY <3>2, NamesDiffer DEF WriteHead, WriteTail, Own, Written, TypeOK
      <4>2. cache'[at[q]].there
        BY <3>2, <4>1, NothingTaken DEF Step
      <4>3. \A f \in Files : f # at[q] => cache'[f] = cache[f]
        BY <3>2 DEF WriteHead, WriteTail, TypeOK
      <4> QED
        BY <4>2, <4>3
    <3> QED
      BY <1>4, <3>1, <3>2
  <2> QED
    BY <1>1, <1>2, <2>2, <2>3 DEF Cleared
<1> QED
  BY <1>3, <1>4 DEF RequestStep, Step, Load, Prove, ReadProof, ReadWitness, ReadKey, SaveError,
                    SaveJSONError, Send, Reject

\* A request leaves the pair alone, or replaces both files by its own.
LEMMA PairedStep ==
  ASSUME TypeOK, SolvableInv, Own, Paired, NEW q \in Requests, RequestStep(q)
  PROVE  Paired'
<1> SUFFICES ASSUME faults' = 0, AtRest'
             PROVE  OnePair'
  BY DEF Paired
<1>1. ASSUME SaveError(q) \/ SaveJSONError(q)
      PROVE  FALSE
  BY <1>1, FaultsAssumption DEF SaveError, SaveJSONError, Fault, TypeOK
<1>2. ASSUME Create(q) \/ WriteHead(q)
      PROVE  FALSE
  BY <1>2 DEF Create, WriteHead, Goto, TypeOK, AtRest, Writing
<1>3. CASE WriteTail(q)
  <2>1. pc[q] = "tail" /\ at[q] = "witness.data"
    BY <1>3 DEF WriteTail, Goto, TypeOK, AtRest, Writing, Own, Written
  <2>2. q \in Solvable
    BY <2>1 DEF SolvableInv, Proved
  <2>3. Written(q)'
    <3>1. open[q] /\ cache["proof.data"] = Whole(q) /\ cache["witness.data"] = File(TRUE, q, Nobody)
      BY <2>1 DEF Own, Written, Writing
    <3>2. cache' = [cache EXCEPT !["witness.data"].tail = q]
      BY <1>3, <2>1, <3>1 DEF WriteTail
    <3>3. cache'["witness.data"] = Whole(q) /\ cache'["proof.data"] = Whole(q)
      BY <3>1, <3>2, TwoWrites, FileFacts, NamesDiffer DEF TypeOK
    <3> QED
      BY <1>3, <2>1, <3>3, StepNames, NamesDiffer DEF WriteTail, Goto, TypeOK, Written, Writing
  <2>4. pc'[q] \in Relaying
    BY <1>3, <2>1, StepNames, NamesDiffer DEF WriteTail, Goto, TypeOK
  <2> QED
    BY <2>2, <2>3, <2>4 DEF OnePair, Written
<1>4. CASE \/ Load(q) \/ Prove(q) \/ ReadProof(q) \/ ReadWitness(q) \/ ReadKey(q)
           \/ CreateJSON(q) \/ WriteJSON(q) \/ (Quiet /\ Send(q))
  <2>1. /\ pc[q] \notin Writing /\ faults' = faults
        /\ cache'["proof.data"] = cache["proof.data"]
        /\ cache'["witness.data"] = cache["witness.data"]
    BY <1>4, NamesDiffer, FileFacts DEF Load, Prove, ReadProof, ReadWitness, ReadKey, CreateJSON,
                                        WriteJSON, Send, Reject, Writing, TypeOK
  <2>2. /\ \A r \in Requests \ {q} : pc'[r] = pc[r]
        /\ service' = service
    BY OthersUntouched DEF cleanup
  <2>3. OnePair
    BY <2>1, <2>2 DEF Paired, AtRest
  <2> QED
    BY <2>1, <2>3 DEF OnePair
<1> QED
  BY <1>1, <1>2, <1>3, <1>4 DEF RequestStep, Step

\* Nobody is in flight while the service stops or is stopped: its steps then
\* find no open file.
LEMMA ClearOfRequests ==
  ASSUME TypeOK, Own, \A r \in Requests : pc[r] \notin InFlight,
         pc' = pc, status' = status, got' = got,
         \A r \in Requests : open'[r] => open[r]
  PROVE  Own'
<1> SUFFICES ASSUME NEW r \in Requests
             PROVE  Written(r)' /\ Collected(r)'
  BY DEF Own
<1>1. Written(r) /\ Collected(r) /\ pc[r] \notin InFlight /\ (open'[r] => open[r])
  BY DEF Own
<1>2. Written(r)'
  BY <1>1, StepNames DEF Written, Writing
<1>3. Collected(r)'
  BY <1>1 DEF Collected
<1> QED
  BY <1>2, <1>3

\* Stopping, between requests, and the removals.
LEMMA StoppingStep ==
  ASSUME TypeOK, SerialInv, (Quiet /\ Stop) \/ Remove
  PROVE  SerialInv'
<1> USE DEF SerialInv
<1>1. service' = "stopping" /\ \A r \in Requests : pc[r] \notin InFlight
  BY DEF Quiet, Stop, Remove, Alone
<1>2. pc' = pc /\ status' = status /\ got' = got /\ \A r \in Requests : open'[r] => open[r]
  <2>1. CASE Quiet /\ Stop
    <3>1. {r \in Requests : pc[r] = "load"} = {}
      BY <1>1, StepNames
    <3> QED
      BY <2>1, <3>1 DEF Stop, TypeOK
  <2>2. CASE Remove
    BY <2>2 DEF Remove, answers, TypeOK
  <2> QED
    BY <2>1, <2>2
<1>3. Alone'
  BY <1>1, <1>2 DEF Alone
<1>4. Own'
  BY <1>1, <1>2, ClearOfRequests
<1>5. Paired'
  BY <1>1 DEF Paired, AtRest
<1>6. Cleared'
  <2>1. CASE Stop
    BY <2>1, FaultsAssumption DEF Stop, Fault, Cleared, TypeOK
  <2>2. CASE Remove
    <3> DEFINE f == FirstOf(todo)
    <3>1. f \in Files /\ service = "stopping"
      BY <2>2 DEF Remove, FirstOf, Files
    <3>2. CASE cache' = [cache EXCEPT ![f] = Absent] /\ UNCHANGED <<spared, faults>>
      BY <2>2, <3>1, <3>2 DEF Remove, Cleared, TypeOK
    <3>3. CASE spared' = spared \union {f} /\ Fault /\ UNCHANGED cache
      BY <2>2, <3>1, <3>3, FaultsAssumption DEF Remove, Cleared, Fault, TypeOK
    <3> QED
      BY <2>2, <3>2, <3>3 DEF Remove
  <2> QED
    BY <2>1, <2>2
<1> QED
  BY <1>3, <1>4, <1>5, <1>6

\* The end of a clean-up, and a new start.
LEMMA RestartStep ==
  ASSUME TypeOK, SerialInv, Stopped \/ Start
  PROVE  SerialInv'
<1> USE DEF SerialInv, answers
<1>1. /\ UNCHANGED <<cache, todo, spared, pc, at, open, got, status, faults>>
      /\ \/ service = "stopping" /\ todo = {} /\ service' = "stopped"
         \/ service \in {"stopped", "crashed"} /\ service' = "up"
  BY DEF Stopped, Start
<1>2. Alone'
  BY <1>1 DEF Alone
<1>3. Own'
  BY <1>1 DEF Own, Written, Collected
<1>4. Cleared'
  BY <1>1 DEF Cleared
<1>5. Paired'
  <2>1. CASE service = "stopping"
    BY <1>1, <2>1, FileFacts DEF Cleared, Paired, OnePair
  <2>2. CASE service # "stopping"
    BY <1>1, <2>2 DEF Paired, AtRest, OnePair
  <2> QED
    BY <2>1, <2>2
<1> QED
  BY <1>2, <1>3, <1>4, <1>5

\* A crash ends the handlers, and leaves the relays.
LEMMA CrashStep ==
  ASSUME TypeOK, SerialInv, Crash
  PROVE  SerialInv'
<1> USE StepNames DEF SerialInv
<1>1. /\ service' = "crashed" /\ faults' # 0
      /\ UNCHANGED <<cache, at, got>>
      /\ \A r \in Requests :
           IF pc[r] \in Handling
           THEN pc'[r] = "done" /\ status'[r] = "ERROR" /\ ~open'[r]
           ELSE pc'[r] = pc[r] /\ status'[r] = status[r] /\ (open'[r] <=> open[r])
  <2>1. service' = "crashed" /\ faults' # 0 /\ UNCHANGED <<cache, at, got>>
    BY FaultsAssumption DEF Crash, Fault, TypeOK
  <2>2. ASSUME NEW r \in Requests
        PROVE  /\ pc'[r] = IF pc[r] \in Handling THEN "done" ELSE pc[r]
               /\ status'[r] = IF pc[r] \in Handling THEN "ERROR" ELSE status[r]
    BY DEF Crash
  <2>3. ASSUME NEW r \in Requests
        PROVE  open'[r] <=> open[r] /\ pc[r] \notin Handling
    BY Zenon DEF Crash
  <2> QED
    BY <2>1, <2>2, <2>3
<1>2. Alone'
  BY <1>1 DEF Alone
<1>3. ASSUME NEW r \in Requests
      PROVE  Written(r)' /\ Collected(r)'
  <2>1. Written(r) /\ Collected(r)
    BY DEF Own
  <2>2. CASE pc[r] \in Handling
    BY <1>1, <2>2 DEF Written, Writing, Collected
  <2>3. CASE pc[r] \notin Handling
    BY <1>1, <2>1, <2>3 DEF Written, Writing, Collected
  <2> QED
    BY <2>2, <2>3
<1>4. Cleared' /\ Paired'
  BY <1>1 DEF Cleared, Paired
<1> QED
  BY <1>2, <1>3, <1>4 DEF Own

\* At first there are no files and nobody is in flight.
LEMMA SerialInit == Init => SerialInv
<1> SUFFICES ASSUME Init
             PROVE  SerialInv
  OBVIOUS
<1> USE StepNames, FileFacts DEF Init
<1>1. Alone
  BY DEF Alone
<1>2. ASSUME NEW r \in Requests
      PROVE  Written(r) /\ Collected(r)
  <2>1. pc[r] = "idle" /\ ~open[r] /\ status[r] = "none"
    OBVIOUS
  <2> QED
    BY <2>1 DEF Written, Collected, Writing
<1>3. Cleared /\ Paired
  BY DEF Cleared, Paired, OnePair
<1> QED
  BY <1>1, <1>2, <1>3 DEF SerialInv, Own

\* One command at a time keeps the invariant.
LEMMA SerialStep == TypeOK /\ SolvableInv /\ SerialInv /\ [SerialNext]_vars => SerialInv'
<1> SUFFICES ASSUME TypeOK, SolvableInv, SerialInv, [SerialNext]_vars
             PROVE  SerialInv'
  OBVIOUS
<1>1. ASSUME NEW q \in Requests, RequestStep(q)
      PROVE  SerialInv'
  BY <1>1, AloneStep, OwnStep, ClearedStep, PairedStep DEF SerialInv
<1>2. CASE UNCHANGED vars
  BY <1>2 DEF vars, config, cleanup, answers, SerialInv, Alone, Own, Written, Collected, Cleared,
              Paired, AtRest, OnePair
<1> QED
  BY <1>1, <1>2, StoppingStep, RestartStep, CrashStep DEF SerialNext, Proceed, RequestStep

\* What holds of one command at a time, the facts of any use included.
THEOREM SerialInvariant == SerialSpec => [](TypeOK /\ SolvableInv /\ SerialInv)
<1>1. Spec => []SolvableInv
  BY SessionTypeCorrect, SolvableInit, SolvableStep, PTL DEF Spec
<1> QED
  BY <1>1, SerialIsSpec, SessionTypeCorrect, SerialInit, SerialStep, PTL DEF SerialSpec

-----------------------------------------------------------------------------
(***************************************************************************)
(* What a user of one command at a time relies on.                         *)
(***************************************************************************)

\* The files of a SUCCESS answer are the whole proof and the whole witness of
\* the request it answers, whatever was stopped, or crashed, before.
THEOREM AnswerIsOwnHolds == SerialSpec => []AnswerIsOwn
<1>1. SerialInv => AnswerIsOwn
  BY DEF SerialInv, Own, Collected, AnswerIsOwn
<1> QED
  BY <1>1, SerialInvariant, PTL

\* Between requests the cached proof and witness belong together, so that
\* VERIFY accepts them: rejected requests and clean-ups leave no odd pair.
THEOREM RestingPairVerifiesHolds == SerialSpec => []RestingPairVerifies
<1>1. SerialInv => RestingPairVerifies
  <2> SUFFICES ASSUME SerialInv, Quiet, faults = 0, verifying = "whole"
               PROVE  VerifyProof \/ (cache["proof.data"] = Absent /\ cache["witness.data"] = Absent)
    BY DEF RestingPairVerifies
  <2>1. OnePair
    BY StepNames DEF SerialInv, Paired, AtRest, Quiet, Writing
  <2> QED
    BY <2>1 DEF OnePair, VerifyProof
<1> QED
  BY <1>1, SerialInvariant, PTL

\* A stopped service leaves no session data behind but what it could not list
\* or remove.
THEOREM StoppedIsClearHolds == SerialSpec => []StoppedIsClear
<1>1. SerialInv => StoppedIsClear
  BY DEF SerialInv, Cleared, StoppedIsClear
<1> QED
  BY <1>1, SerialInvariant, PTL

-----------------------------------------------------------------------------
(***************************************************************************)
(* The refinement: one at a time, requests get what ProofRelay promises.   *)
(***************************************************************************)

\* The answer of request r, as ProofRelay sees it.
Told(r) ==
  [status  |-> status[r],
   proof   |-> IF status[r] = "SUCCESS" THEN got[r].proof.head ELSE Nobody,
   witness |-> IF status[r] = "SUCCESS" THEN got[r].witness.tail ELSE Nobody]

Telling == [r \in Requests |-> Told(r)]

\* Answers, as ProofRelay sees them.
LEMMA TellingFacts ==
  ASSUME NEW r \in Requests
  PROVE  /\ status[r] = "none" => Telling[r] = Relay!None
         /\ status[r] = "ERROR" => Telling[r] = Relay!Error
         /\ status[r] = "SUCCESS" /\ got[r].proof = Whole(r) /\ got[r].witness = Whole(r)
              => Telling[r] = Relay!Answer("SUCCESS", r)
BY NamesDiffer DEF Telling, Told, Relay!None, Relay!Error, Relay!Answer

\* Initially nobody has been told anything.
LEMMA RelayInit == Init => Relay!Init
<1> SUFFICES ASSUME Init
             PROVE  Telling = [r \in Requests |-> Relay!None]
  BY DEF Relay!Init, Telling, Told
<1>1. \A r \in Requests : status[r] = "none"
  BY DEF Init
<1>2. \A r \in Requests : Told(r) = Relay!None
  BY <1>1 DEF Told, Relay!None, Relay!Answer
<1> QED
  BY <1>2 DEF Telling

\* A step that answers no request is a stutter of ProofRelay: what the relays
\* read in between, it does not see.
LEMMA SilentStep ==
  ASSUME status' = status,
         \A r \in Requests : status[r] = "SUCCESS" => got'[r] = got[r]
  PROVE  Telling' = Telling
BY DEF Telling, Told

\* A step that answers request q alone, with an error or with its own files,
\* is one of ProofRelay.
LEMMA AnswerStep ==
  ASSUME TypeOK, SolvableInv', SerialInv, SerialInv', NEW q \in Requests,
         status[q] = "none", status'[q] \in {"ERROR", "SUCCESS"},
         \A r \in Requests \ {q} : status'[r] = status[r] /\ got'[r] = got[r]
  PROVE  Relay!Next
<1>1. Telling[q] = Relay!None
  BY TellingFacts
<1>2. \A r \in Requests \ {q} : Telling'[r] = Telling[r]
  BY DEF Telling, Told
<1>3. CASE status'[q] = "ERROR"
  <2>1. Telling'[q] = Relay!Error
    BY <1>3 DEF Telling, Told, Relay!Error, Relay!Answer
  <2>2. Telling' = [Telling EXCEPT ![q] = Relay!Error]
    BY <1>2, <2>1 DEF Telling
  <2>3. Relay!Refuse(q)
    BY <1>1, <2>2 DEF Relay!Refuse, Telling, Told
  <2> QED
    BY <2>3 DEF Relay!Next
<1>4. CASE status'[q] = "SUCCESS"
  <2>1. q \in Solvable /\ got'[q].proof = Whole(q) /\ got'[q].witness = Whole(q)
    BY <1>4 DEF SolvableInv, SerialInv, Own, Collected
  <2>2. Telling'[q] = Relay!Answer("SUCCESS", q)
    BY <1>4, <2>1, NamesDiffer DEF Telling, Told, Relay!Answer
  <2>3. Telling' = [Telling EXCEPT ![q] = Relay!Answer("SUCCESS", q)]
    BY <1>2, <2>2 DEF Telling
  <2>4. Relay!Grant(q)
    BY <1>1, <2>1, <2>3 DEF Relay!Grant, Telling, Told
  <2> QED
    BY <2>4 DEF Relay!Next
<1> QED
  BY <1>3, <1>4

\* Each step of a request either tells it nothing new, or answers it once.
LEMMA RequestTelling ==
  ASSUME TypeOK, SerialInv, NEW q \in Requests, RequestStep(q)
  PROVE  \/ status' = status /\ \A r \in Requests : status[r] = "SUCCESS" => got'[r] = got[r]
         \/ status[q] = "none" /\ status'[q] \in {"ERROR", "SUCCESS"}
<1> USE StepNames DEF SerialInv, Own, Collected
<1>1. CASE Reject(q) /\ (Load(q) \/ Prove(q) \/ SaveError(q))
  BY <1>1 DEF Load, Prove, SaveError, Reject, Respond, TypeOK
<1>2. CASE \/ (Load(q) \/ Prove(q)) /\ ~Reject(q)
           \/ Create(q) \/ WriteHead(q) \/ WriteTail(q) \/ CreateJSON(q) \/ WriteJSON(q)
           \/ SaveJSONError(q)
  BY <1>2 DEF Load, Prove, Create, WriteHead, WriteTail, CreateJSON, WriteJSON, SaveJSONError, answers
<1>3. CASE ReadProof(q) \/ ReadWitness(q)
  <2>1. status[q] = "none" /\ status' = status /\ \A r \in Requests \ {q} : got'[r] = got[r]
    BY <1>3 DEF ReadProof, ReadWitness, TypeOK
  <2> QED
    BY <2>1
<1>4. CASE ReadKey(q)
  BY <1>4 DEF ReadKey, Respond, TypeOK
<1>5. CASE Send(q)
  BY <1>5 DEF Send, Respond, TypeOK
<1> QED
  BY <1>1, <1>2, <1>3, <1>4, <1>5 DEF Step, RequestStep, SaveError

\* Every step of the commands, one at a time, is a step of ProofRelay or none.
LEMMA RelayStep ==
  TypeOK /\ SolvableInv' /\ SerialInv /\ SerialInv' /\ [SerialNext]_vars
    => [Relay!Next]_Telling
<1> SUFFICES ASSUME TypeOK, SolvableInv', SerialInv, SerialInv', [SerialNext]_vars
             PROVE  Relay!Next \/ Telling' = Telling
  OBVIOUS
<1>1. ASSUME NEW q \in Requests, RequestStep(q)
      PROVE  Relay!Next \/ Telling' = Telling
  <2>1. \A r \in Requests \ {q} : status'[r] = status[r] /\ got'[r] = got[r]
    BY <1>1, OthersUntouched
  <2> QED
    BY <1>1, <2>1, RequestTelling, SilentStep, AnswerStep
<1>2. CASE Quiet /\ Stop
  <2>1. {r \in Requests : pc[r] = "load"} = {}
    BY <1>2, StepNames DEF Quiet
  <2>2. status' = status /\ got' = got
    BY <1>2, <2>1 DEF Stop, TypeOK
  <2> QED
    BY <2>2, SilentStep
<1>3. CASE Remove \/ Stopped \/ Start \/ UNCHANGED vars
  <2>1. status' = status /\ got' = got
    BY <1>3 DEF Remove, Stopped, Start, vars, answers
  <2> QED
    BY <2>1, SilentStep
<1>4. CASE Crash
  <2>1. /\ got' = got
        /\ \A r \in Requests : status'[r] = IF pc[r] \in Handling THEN "ERROR" ELSE status[r]
    BY <1>4 DEF Crash
  <2>2. CASE \E q \in Requests : pc[q] \in Handling
    <3>1. PICK q \in Requests : pc[q] \in Handling
      BY <2>2
    <3>2. \A r \in Requests \ {q} : pc[r] \notin Handling
      BY <3>1, StepNames DEF SerialInv, Alone
    <3>3. status[q] = "none"
      BY <3>1 DEF SerialInv, Own, Collected
    <3> QED
      BY <2>1, <3>1, <3>2, <3>3, AnswerStep
  <2>3. CASE \A r \in Requests : pc[r] \notin Handling
    <3>1. status' = status
      BY <1>4, <2>1, <2>3 DEF Crash, TypeOK
    <3> QED
      BY <2>1, <3>1, SilentStep
  <2> QED
    BY <2>2, <2>3
<1> QED
  BY <1>1, <1>2, <1>3, <1>4 DEF SerialNext, Proceed, RequestStep

\* One command at a time, the relay, the handler and their files implement
\* ProofRelay: each request is answered at most once, by an error or by the
\* proof and the witness of its own, and by a proof only if its numbers solve
\* the circuit.
THEOREM RelayImplemented == SerialSpec => ImplementsRelay
<1>1. TypeOK /\ SolvableInv' /\ SerialInv /\ SerialInv' /\ [SerialNext]_vars
        => [Relay!Next]_[r \in Requests |->
             [status  |-> status[r],
              proof   |-> IF status[r] = "SUCCESS" THEN got[r].proof.head ELSE Nobody,
              witness |-> IF status[r] = "SUCCESS" THEN got[r].witness.tail ELSE Nobody]]
  BY RelayStep DEF Telling, Told
<1> QED
  BY <1>1, RelayInit, SerialInvariant, PTL DEF SerialSpec, ImplementsRelay, Relay!Spec
=============================================================================
