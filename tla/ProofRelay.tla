----------------------------- MODULE ProofRelay -----------------------------
(***************************************************************************)
(* What "gazk generate" promises: each request is answered once, with an   *)
(* error or with the proof and the public witness of that very request,    *)
(* and a proof only if the request's numbers solve the circuit.            *)
(***************************************************************************)
CONSTANTS Requests, Nobody, Solvable

VARIABLE answer  \* answer[r]: what the client of request r has been told

Answer(status, r) == [status |-> status, proof |-> r, witness |-> r]
None  == Answer("none", Nobody)
Error == Answer("ERROR", Nobody)

Init == answer = [r \in Requests |-> None]

Refuse(r) ==
  /\ answer[r] = None
  /\ answer' = [answer EXCEPT ![r] = Error]

Grant(r) ==
  /\ r \in Solvable
  /\ answer[r] = None
  /\ answer' = [answer EXCEPT ![r] = Answer("SUCCESS", r)]

Next == \E r \in Requests : Refuse(r) \/ Grant(r)

Spec == Init /\ [][Next]_answer
=============================================================================
