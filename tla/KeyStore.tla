------------------------------ MODULE KeyStore ------------------------------
(***************************************************************************)
(* The Groth16 key store of prover/key_store.go: what happens between the  *)
(* moment a gazk process builds its engine and the moment the engine holds *)
(* a proving key and a verifying key.                                      *)
(*                                                                         *)
(* Several processes (a server, the export-verifier-artifact command, the  *)
(* next server after a restart) may be pointed at one GAZK_KEY_DIR.  The   *)
(* code takes no lock, gives every process the same two ".tmp" names, and  *)
(* renames them over the final names one after the other, so the model     *)
(* keeps directory entries, file contents and open descriptors apart.      *)
(*                                                                         *)
(* A file is written by many write calls; two parts, head and tail, are    *)
(* enough to tell a whole file from a short or a mixed one.  A file is     *)
(* named by the setup whose open call created it.  Only one keyID is       *)
(* modelled: the two hash modes use disjoint file names.                   *)
(***************************************************************************)
EXTENDS Naturals

CONSTANTS
  Procs,       \* processes that build an engine
  Persistent,  \* those started with GAZK_KEY_DIR set
  Keys,        \* outcomes of groth16.Setup, one key pair each
  NoKey,       \* no file, no data, no key in memory
  Mangled,     \* a key that decodes but comes from no setup
  MaxFaults    \* bound: crashes during a start and I/O errors, of stat too

ASSUME ProcsAssumption == Persistent \subseteq Procs
ASSUME KeysAssumption  == NoKey \notin Keys /\ Mangled \notin Keys /\ NoKey # Mangled
ASSUME FaultsAssumption == MaxFaults \in Nat

VARIABLES
  pc,      \* pc[p]: where process p stands in loadOrSetupGroth16Keys
  at,      \* at[p]: the key kind p is reading, writing or installing
  mem,     \* mem[p]: the keys p holds in memory
  fd,      \* fd[p]: the temporary file p has open for writing
  tmp,     \* tmp[k]: the file behind <keyID>.<k>.key.tmp
  file,    \* file[k]: the file behind <keyID>.<k>.key
  data,    \* data[k][f]: the two parts of file f
  used,    \* setups run so far
  faults   \* crashes and I/O errors so far

diskVars == <<tmp, file, data>>
vars == <<pc, at, mem, fd, tmp, file, data, used, faults>>

Kinds      == {"proving", "verifying"}
KeyOrNone  == Keys \union {NoKey}
Material   == Keys \union {NoKey, Mangled}
Contents   == [head : KeyOrNone, tail : KeyOrNone]
Memory     == [Kinds -> Material]

Empty      == [head |-> NoKey, tail |-> NoKey]
Whole(k)   == [head |-> k, tail |-> k]
Pair(k)    == [kind \in Kinds |-> k]
NoPair     == Pair(NoKey)

\* Steps during which the process reads or writes the key directory.
InStore  == {"stat", "load", "setup", "open", "head", "tail", "install"}
Failed   == {"loadFailed", "installFailed", "ioFailed"}
Steps    == {"idle", "ready", "up"} \union InStore \union Failed

(***************************************************************************)
(* What ReadFrom makes of a file: a whole file gives its key, a short one  *)
(* an error; a hole or a mixture may decode, since every point has a fixed *)
(* width, or fail.  NoKey stands for the error.                            *)
(***************************************************************************)
ReadFrom(c) ==
  IF c.tail = NoKey THEN {NoKey}
  ELSE IF c.head = c.tail THEN {c.head}
  ELSE {NoKey, Mangled}

\* Mutant of BothInstalled: one of the two files is enough.
OneInstalled == \E kind \in Kinds : file[kind] # NoKey

BothInstalled == \A kind \in Kinds : file[kind] # NoKey

VarTypes ==
  /\ pc \in [Procs -> Steps]
  /\ at \in [Procs -> Kinds]
  /\ mem \in [Procs -> Memory]
  /\ fd \in [Procs -> KeyOrNone]
  /\ tmp \in [Kinds -> KeyOrNone]
  /\ file \in [Kinds -> KeyOrNone]
  /\ data \in [Kinds -> [Keys -> Contents]]
  /\ used \in SUBSET Keys
  /\ faults \in 0..MaxFaults

\* Every way out of a write, an error or the end too, closes the file.
FilesClosed == \A p \in Procs : fd[p] # NoKey <=> pc[p] \in {"head", "tail"}

\* The variables keep their types, and a process has a temporary file open
\* exactly while it writes one: no start leaks a descriptor.
TypeOK == VarTypes /\ FilesClosed

Init ==
  /\ pc = [p \in Procs |-> "idle"]
  /\ at = [p \in Procs |-> "proving"]
  /\ mem = [p \in Procs |-> NoPair]
  /\ fd = [p \in Procs |-> NoKey]
  /\ tmp = [kind \in Kinds |-> NoKey]
  /\ file = [kind \in Kinds |-> NoKey]
  /\ data = [kind \in Kinds |-> [k \in Keys |-> Empty]]
  /\ used = {}
  /\ faults = 0

-----------------------------------------------------------------------------
(***************************************************************************)
(* Steps of one process.                                                   *)
(***************************************************************************)

Goto(p, step)     == pc' = [pc EXCEPT ![p] = step]
Handle(p, kind)   == at' = [at EXCEPT ![p] = kind]

\* An engine constructor has compiled its circuit and asks for its keys;
\* without a key directory it goes straight to Setup.
Start(p) ==
  /\ pc[p] = "idle"
  /\ Goto(p, IF p \in Persistent THEN "stat" ELSE "setup")
  /\ Handle(p, "proving")
  /\ UNCHANGED <<mem, fd, tmp, file, data, used, faults>>

\* Mutant of Stat: every start sets up, as without a key directory.
StatBlind(p) ==
  /\ pc[p] = "stat"
  /\ Goto(p, "setup")
  /\ UNCHANGED <<at, mem, fd, tmp, file, data, used, faults>>

\* Load only if both files are there, set up otherwise.  The two stat calls
\* are one step: a name once installed stays, the verifying key comes last,
\* so the answer is that of the second call.
Stat(p) ==
  /\ pc[p] = "stat"
  /\ Goto(p, IF BothInstalled THEN "load" ELSE "setup")
  /\ UNCHANGED <<at, mem, fd, tmp, file, data, used, faults>>

\* fileExists takes any error of stat for "not there": a directory that is
\* unreachable for a moment sends the start to Setup.
StatError(p) ==
  /\ pc[p] = "stat"
  /\ faults < MaxFaults
  /\ faults' = faults + 1
  /\ Goto(p, "setup")
  /\ UNCHANGED <<at, mem, fd, tmp, file, data, used>>

\* Open and decode the proving key, then the verifying key.
Load(p) ==
  /\ pc[p] = "load"
  /\ LET kind == at[p] IN
     \E key \in IF file[kind] = NoKey THEN {NoKey}
                ELSE ReadFrom(data[kind][file[kind]]) :
       /\ mem' = [mem EXCEPT ![p] = IF key = NoKey THEN NoPair
                                    ELSE [@ EXCEPT ![kind] = key]]
       /\ Goto(p, IF key = NoKey THEN "loadFailed"
                  ELSE IF kind = "proving" THEN "load" ELSE "ready")
       /\ Handle(p, "verifying")
  /\ UNCHANGED <<fd, tmp, file, data, used, faults>>

\* Mutant of Setup: the toxic waste is not drawn afresh.
SetupRepeats(p) ==
  /\ pc[p] = "setup"
  /\ \E k \in Keys :
       /\ used' = used \union {k}
       /\ mem' = [mem EXCEPT ![p] = Pair(k)]
  /\ Goto(p, IF p \in Persistent THEN "open" ELSE "ready")
  /\ UNCHANGED <<at, fd, tmp, file, data, faults>>

\* groth16.Setup draws fresh toxic waste: a key pair no other call returns.
Setup(p) ==
  /\ pc[p] = "setup"
  /\ \E k \in Keys \ used :
       /\ used' = used \union {k}
       /\ mem' = [mem EXCEPT ![p] = Pair(k)]
  /\ Goto(p, IF p \in Persistent THEN "open" ELSE "ready")
  /\ UNCHANGED <<at, fd, tmp, file, data, faults>>

\* O_CREATE|O_WRONLY|O_TRUNC on the temporary name: a new file, or whatever
\* file the name leads to, emptied.
Open(p) ==
  /\ pc[p] = "open"
  /\ LET kind == at[p]
         f    == IF tmp[kind] = NoKey THEN mem[p][kind] ELSE tmp[kind]
     IN  /\ tmp' = [tmp EXCEPT ![kind] = f]
         /\ data' = [data EXCEPT ![kind][f] = Empty]
         /\ fd' = [fd EXCEPT ![p] = f]
  /\ Goto(p, "head")
  /\ UNCHANGED <<at, mem, file, used, faults>>

\* WriteTo goes through the descriptor, wherever the name leads by then.
WriteHead(p) ==
  /\ pc[p] = "head"
  /\ data' = [data EXCEPT ![at[p]][fd[p]].head = mem[p][at[p]]]
  /\ Goto(p, "tail")
  /\ UNCHANGED <<at, mem, fd, tmp, file, used, faults>>

\* Mutant of WriteTail: a short write goes unnoticed.
WriteTailShort(p) ==
  /\ pc[p] = "tail"
  /\ fd' = [fd EXCEPT ![p] = NoKey]
  /\ IF at[p] = "proving"
     THEN Goto(p, "open") /\ Handle(p, "verifying")
     ELSE Goto(p, "install") /\ Handle(p, "proving")
  /\ UNCHANGED <<mem, tmp, file, data, used, faults>>

\* Mutant of WriteTail: the save goes on to the second rename at once.
WriteTailSkips(p) ==
  /\ pc[p] = "tail"
  /\ data' = [data EXCEPT ![at[p]][fd[p]].tail = mem[p][at[p]]]
  /\ fd' = [fd EXCEPT ![p] = NoKey]
  /\ Goto(p, IF at[p] = "proving" THEN "open" ELSE "install")
  /\ Handle(p, "verifying")
  /\ UNCHANGED <<mem, tmp, file, used, faults>>

\* The rest of WriteTo and Close; the verifying key follows the proving key.
WriteTail(p) ==
  /\ pc[p] = "tail"
  /\ data' = [data EXCEPT ![at[p]][fd[p]].tail = mem[p][at[p]]]
  /\ fd' = [fd EXCEPT ![p] = NoKey]
  /\ IF at[p] = "proving"
     THEN Goto(p, "open") /\ Handle(p, "verifying")
     ELSE Goto(p, "install") /\ Handle(p, "proving")
  /\ UNCHANGED <<mem, tmp, file, used, faults>>

\* Mutant of Install: the save returns after the first rename.
InstallOnce(p) ==
  /\ pc[p] = "install"
  /\ tmp[at[p]] # NoKey
  /\ file' = [file EXCEPT ![at[p]] = tmp[at[p]]]
  /\ tmp' = [tmp EXCEPT ![at[p]] = NoKey]
  /\ Goto(p, "ready")
  /\ UNCHANGED <<at, mem, fd, data, used, faults>>

\* os.Rename of the temporary name over the final one; it fails if another
\* process has renamed the shared temporary name away.
Install(p) ==
  /\ pc[p] = "install"
  /\ LET kind == at[p] IN
     \/ /\ tmp[kind] # NoKey
        /\ file' = [file EXCEPT ![kind] = tmp[kind]]
        /\ tmp' = [tmp EXCEPT ![kind] = NoKey]
        /\ Goto(p, IF kind = "proving" THEN "install" ELSE "ready")
        /\ Handle(p, "verifying")
        /\ UNCHANGED mem
     \/ /\ tmp[kind] = NoKey
        /\ Goto(p, "installFailed")
        /\ mem' = [mem EXCEPT ![p] = NoPair]
        /\ UNCHANGED <<at, tmp, file>>
  /\ UNCHANGED <<fd, data, used, faults>>

\* The constructor returns the engine: it proves, verifies and exports from
\* now on with the keys in memory.
Serve(p) ==
  /\ pc[p] = "ready"
  /\ Goto(p, "up")
  /\ UNCHANGED <<at, mem, fd, tmp, file, data, used, faults>>

\* groth16.Setup returns an error; the instance running out of key pairs
\* takes the same return.
SetupError(p) ==
  /\ pc[p] = "setup"
  /\ used = Keys
  /\ Goto(p, "ioFailed")
  /\ UNCHANGED <<at, mem, fd, tmp, file, data, used, faults>>

\* Mutant of IoError: the error path leaves the file open.
IoErrorLeaks(p) ==
  /\ pc[p] \in InStore \ {"stat"}
  /\ faults < MaxFaults
  /\ faults' = faults + 1
  /\ Goto(p, "ioFailed")
  /\ mem' = [mem EXCEPT ![p] = NoPair]
  /\ UNCHANGED <<at, fd, tmp, file, data, used>>

\* Setup, an open, a read, a write, a close or a rename returns an error:
\* engineErr is set and stays set, what is on disk stays as it is.
IoError(p) ==
  /\ pc[p] \in InStore \ {"stat"}
  /\ faults < MaxFaults
  /\ faults' = faults + 1
  /\ Goto(p, "ioFailed")
  /\ mem' = [mem EXCEPT ![p] = NoPair]
  /\ fd' = [fd EXCEPT ![p] = NoKey]
  /\ UNCHANGED <<at, tmp, file, data, used>>

\* The process dies in the middle of a start.
Crash(p) ==
  /\ pc[p] \in InStore \union {"ready"}
  /\ faults < MaxFaults
  /\ faults' = faults + 1
  /\ Goto(p, "idle")
  /\ mem' = [mem EXCEPT ![p] = NoPair]
  /\ fd' = [fd EXCEPT ![p] = NoKey]
  /\ UNCHANGED <<at, tmp, file, data, used>>

\* A serving or failed process ends, or dies; nothing is written on the way.
Exit(p) ==
  /\ pc[p] \in {"up"} \union Failed
  /\ Goto(p, "idle")
  /\ mem' = [mem EXCEPT ![p] = NoPair]
  /\ UNCHANGED <<at, fd, tmp, file, data, used, faults>>

-----------------------------------------------------------------------------
Step(p) ==
  \/ Stat(p) \/ Load(p) \/ Setup(p) \/ Open(p) \/ WriteHead(p)
  \/ WriteTail(p) \/ Install(p) \/ Serve(p) \/ SetupError(p)

Disturb(p) == IoError(p) \/ Crash(p) \/ Exit(p)

\* Nobody else is between the stat calls and the last rename: the operator
\* waits for one start to finish before the next.  The code enforces nothing.
StartAlone(p) ==
  /\ Start(p)
  /\ p \in Persistent => \A q \in Persistent : pc[q] \notin InStore

Next       == \E p \in Procs : Start(p) \/ Step(p) \/ Disturb(p) \/ StatError(p)
SerialNext == \E p \in Procs : StartAlone(p) \/ Step(p) \/ Disturb(p)

\* A start in progress goes on; nothing makes an operator start or stop one.
Fairness   == \A p \in Procs : WF_vars(Step(p))

Spec       == Init /\ [][Next]_vars /\ Fairness
SerialSpec == Init /\ [][SerialNext]_vars /\ Fairness

-----------------------------------------------------------------------------
(***************************************************************************)
(* What must hold of every behaviour of Spec.                              *)
(***************************************************************************)

\* A verifying key is never installed without a proving key beside it, so
\* the pair of stat calls may be read as "has a save ever finished".
InstallOrder == file["verifying"] # NoKey => file["proving"] # NoKey

\* Unless something fails, processes that race on an empty directory cannot
\* all lose the race for the shared temporary names: once one of them has
\* reached the save, a verifying key ends up installed.
DirectoryFills ==
  (\E p \in Persistent : pc[p] = "open") ~> faults # 0 \/ file["verifying"] # NoKey

(***************************************************************************)
(* What must hold of every behaviour of SerialSpec, crashes and I/O errors *)
(* of earlier starts included, those of stat excepted.                     *)
(***************************************************************************)

\* A file under a final name is whole and comes from one setup: no crash
\* and no later save leaves a torn key there.
InstalledWhole ==
  \A kind \in Kinds :
    file[kind] # NoKey => \E k \in used : data[kind][file[kind]] = Whole(k)

\* The engines running on one key directory, whether they set the keys up
\* or loaded them, before or after any crash, hold one and the same pair.
EnginesAgree ==
  \A p, q \in Persistent :
    pc[p] = "up" /\ pc[q] = "up" => \E k \in used : mem[p] = Pair(k) /\ mem[q] = Pair(k)

\* What a crashed or failed start leaves in the directory never makes a
\* later start fail: failures are those of the start's own I/O.
NoInheritedFailure == \A p \in Procs : pc[p] \notin {"loadFailed", "installFailed"}

\* Once both keys are installed no step replaces, empties or rewrites them.
InstalledKeysKept ==
  [][BothInstalled => \A kind \in Kinds :
       /\ file'[kind] = file[kind]
       /\ data'[kind][file[kind]] = data[kind][file[kind]]]_vars

\* A start that is not disturbed reaches the engine; it neither hangs nor
\* ends in an error of the directory's making.
StartCompletes ==
  \A p \in Procs : pc[p] = "stat" ~> pc[p] \in {"up", "idle", "ioFailed"}

\* A directory that serial starts share behaves as a register written once.
Directory == INSTANCE KeyDirectory WITH
  persisted <- IF BothInstalled THEN data["verifying"][file["verifying"]].head
               ELSE NoKey,
  engine    <- [p \in Procs |-> IF pc[p] = "up" THEN mem[p]["proving"] ELSE NoKey]

ImplementsDirectory == Directory!Spec

(***************************************************************************)
(* A start that finds both keys ends up with one pair: what the README     *)
(* says of the later starts on a key directory.                            *)
(***************************************************************************)
LoadedPairMatches ==
  \A p \in Persistent : pc[p] = "up" => \E k \in Keys : mem[p] = Pair(k)
=============================================================================
