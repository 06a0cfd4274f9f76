---------------------------- MODULE KeyDirectory ----------------------------
(***************************************************************************)
(* What a GAZK_KEY_DIR promises the processes that share it: a register    *)
(* that is written at most once, with the key pair of one setup, and that  *)
(* every engine on it reads.  An engine without a key directory has a key  *)
(* pair of its own, which nobody else ever serves.                         *)
(***************************************************************************)
CONSTANTS Procs, Persistent, Keys, NoKey

VARIABLES
  persisted,  \* the key pair in the directory
  engine      \* engine[p]: the key pair process p serves with

vars == <<persisted, engine>>

Init ==
  /\ persisted = NoKey
  /\ engine = [p \in Procs |-> NoKey]

\* No engine serves with k and the directory does not hold it.
Unseen(k) == k # persisted /\ \A p \in Procs : engine[p] # k

Establish ==
  /\ persisted = NoKey
  /\ \E k \in Keys : Unseen(k) /\ persisted' = k
  /\ UNCHANGED engine

Attach(p) ==
  /\ engine[p] = NoKey
  /\ persisted # NoKey
  /\ p \in Persistent
  /\ engine' = [engine EXCEPT ![p] = persisted]
  /\ UNCHANGED persisted

AttachPrivate(p) ==
  /\ engine[p] = NoKey
  /\ p \notin Persistent
  /\ \E k \in Keys : Unseen(k) /\ engine' = [engine EXCEPT ![p] = k]
  /\ UNCHANGED persisted

Detach(p) ==
  /\ engine[p] # NoKey
  /\ engine' = [engine EXCEPT ![p] = NoKey]
  /\ UNCHANGED persisted

Next ==
  \/ Establish
  \/ \E p \in Procs : Attach(p) \/ AttachPrivate(p) \/ Detach(p)

Spec == Init /\ [][Next]_vars
=============================================================================
