# gazk: a TLA+ model

gazk proves and verifies settlement batches with Groth16 over BN254. These
modules model the parts of it that keep state or decide something: how a
process comes by its keys, what it proves and what it takes for proved, how
that lasts through restarts, and the life of the older TCP service with its
sessions. Paths below are relative to `src/`.

## 1. Inventory

| Component | State | Operations | Correct when |
|---|---|---|---|
| Groth16 key store, `prover/key_store.go` | two key files per key ID and their `.tmp` names in `GAZK_KEY_DIR`; keys in memory | `loadOrSetupGroth16Keys`, load, save | all engines on one directory hold one key pair, for ever, whatever crashed before |
| Prover service, `prover/service.go`, `public_inputs.go`, `verifier_artifact.go`, `hash_mode.go` | hash mode, one engine or an error, fixed at start | `Prove`, `Verify`, `VerifierArtifact` | what is proved verifies, now and after restarts; what verifies was proved; artifacts fit bundles |
| Settlement circuits and witness building, `prover/balance.go`, `settlement_circuit_v1.go`, `nullifier.go`, `destination.go`, `hash_binding_v1.go` | none | input checks, witness, constraints | the service's checks and the circuit say the same |
| Prototype circuits, `prover/*_circuit.go` | none | field and hash helpers; three stand-alone circuits for tests and tools | together they say what the settlement circuit says |
| HTTP server, `server/http.go` | none of its own | `/prove`, `/verify`, `/verifier-artifact`, `/health` | answers agree across servers and restarts, and what one finds valid another has proved |
| Command line, `main.go` | the output file of an export | `server`, `export-verifier-artifact`, `start`, `stop`, `generate` | an exported file fits what the servers hand out |
| Contract types, `contract/types.go` | none | none | |
| Transitional hashes, `prover/hash_v1.go` | none | two hashes; not called by the service | two calls never hash the same text |
| Legacy cubic service, `core/`, `bat/`, `circuit/` | `isRunning`, listener, stop channel; `config/` and `cache/` | START, GENERATE, STOP over TCP | no panic, one accept loop, a stop that takes effect, keys kept and of one set-up, the proof a client reads is its own |

Interaction: the constructor of an engine compiles its circuit and asks the key
store for its keys, once per process; the engine then lives in memory and is
only read. A server and the export command are separate processes that meet in
the key directory and nowhere else. HTTP handlers run concurrently and share
nothing they write. Bundles and artifacts travel with clients, and the only link
between them is the constant `verificationKeyId`.

The legacy service shares no state with the rest. A client's `start`, `stop` and
`generate` are lines on a TCP connection, each handled in a goroutine; the accept
loop, the delayed stop and the handlers share the fields of `ZKPLiveService`, only
some of them under its mutex, and the files in `config/` and `cache/`. The relay
behind `generate` is a process of its own that reads the result from these files.

What is hard to test here: a save is a dozen system calls without a lock, with
two renames at the end, and any of them may be the last one; two first starts
share the temporary names; the keys must survive a long sequence of starts;
proving and verifying apply different checks to one batch, in different
processes; nullifier, destination hash and owner are derived and compared
several times, not always in the same way; the legacy service has goroutines
that read shared fields without the lock, a stop that runs half a second after
its answer, and session files without an owner. `PROJECT.json` lists the hazards
at their lines.

## 2. Modules

| Module | What it is |
|---|---|
| `KeyStore` | the key store, step by step |
| `KeyDirectory` | what a key directory promises: a register written once |
| `MCKeyStore` | instances of `KeyStore` |
| `KeyStoreProofs`, `KeyStoreSerialProofs` | theorems about `KeyStore` |
| `Settlement` | checks, witness, circuits, bundles, as operators |
| `ProverService` | processes in service, on top of `KeyDirectory` and `Settlement` |
| `MCProverService`, `AliceBatches` | instances of `ProverService`; the batches they use |
| `ProverServiceProofs` | theorems about `ProverService` |
| `HTTPServer`, `MCHTTPServer` | the commands and HTTP answers around `ProverService` |
| `HTTPServerProofs` | theorems about `HTTPServer` |
| `HashPayloads` | what the hash functions hash, to the text |
| `Prototypes` | the stand-alone circuits beside the settlement circuit |
| `Tools`, `MCTools` | both of them, as one behaviour for TLC |
| `ToolsProofs` | theorems about both |
| `LegacyService`, `MCLegacyService` | start and stop of the legacy service, its accept loops and key set-up |
| `LegacyServiceProofs` | theorems about `LegacyService` |
| `LegacySession`, `MCLegacySession` | GENERATE requests, session files and their clean-up |
| `ProofRelay` | what a client of `generate` is promised |
| `LegacySessionProofs`, `LegacySessionSerialProofs` | theorems about `LegacySession`: requests at once, and one at a time |

`ProverService` uses one `KeyDirectory` for each hash mode, since the two key IDs
give disjoint file names, and a run checks that `KeyStore` implements
`KeyDirectory`: the two halves meet in the abstract specification. `HTTPServer`
extends `ProverService`: its handlers are the actions of `ProverService` with an answer
added, so it implements it by construction. `LegacyService` and
`LegacySession` divide the legacy service: the first has every step of starting and
stopping and takes a GENERATE for a step that changes nothing, the second has
every step of a GENERATE and takes start and stop for one step each, the clean-up
excepted. Neither reads what the other writes, but for whether the service is up.

### KeyStore

One process per `Procs`; `pc[p]` is its place in `loadOrSetupGroth16Keys`.

| Action | Code |
|---|---|
| `Start` | the constructor calls the store; no key directory means `Setup` only |
| `Stat`, `StatError` | the two `fileExists` calls; an error of stat counts as "not there" |
| `Load` | open and `ReadFrom`, proving key first |
| `Setup`, `SetupError` | `groth16.Setup` |
| `Open`, `WriteHead`, `WriteTail` | `OpenFile` with `O_TRUNC`, `WriteTo`, `Close`, for one key |
| `Install` | one `os.Rename` |
| `Serve` | the constructor returns the engine |
| `IoError` | any other call returns an error; the engine stays unusable |
| `Crash`, `Exit` | the process dies during a start; it ends |

Directory entries (`tmp`, `file`), file contents (`data`) and open descriptors
(`fd`) are kept apart, because a rename moves a file that another process may
still be writing to. `TypeOK` says with the types that a process has a file open
exactly while it writes one: every error path of `saveGroth16Keys` closes it. Files are named by the setup that created them, and two
parts per file tell a whole file from a short or mixed one. `ReadFrom` of a
mixed file may fail or give a key that belongs to no setup (`Mangled`).

`Spec` lets starts overlap. In `SerialSpec` a start on the directory waits until no
other is between its stat calls and its last rename, and stat does not fail.
Nothing in the code enforces that; it is what an operator has to see to.

### Settlement

A text is a value with or without white space around it, because the code trims
in some places and not in others. A hash is a constructor applied to its inputs,
so two hashes are equal when their inputs are: collisions are left out, but
reduction modulo the field is not (`Scalar`), nor is the difference between a
hash's canonical spelling and others. A proof records its mode, its key and its
public witness and verifies when all three match. Denoms, identifiers and
`statePath` are left out: the code does not read them. One key stands for a
proving key and its verifying key.

Prove is `Provable` (the conjunction of every check on its way and of the
constraints) and `BundleFor`; Verify is `Verifies`. `PROJECT.json` maps each
operator to its lines.

### ProverService

| Action | Code |
|---|---|
| `EstablishKeys` | a start saves the first keys of its mode |
| `StartEngine` | `NewService` with the process's `GAZK_HASH_MODE` |
| `StopEngine` | the process ends |
| `Prove`, `Verify` | `POST /prove`, `POST /verify`, when they succeed |
| `VerifierArtifact` | `GET /verifier-artifact` and the export command |

A request that is turned down changes nothing and is no step. `issued`, `exported`
and `accepted` are what clients hold. A client may present a bundle as it got it
or altered, with any request (`Presented`).

### HTTPServer

| Action | Code |
|---|---|
| `Start` | `main` takes the command and calls `NewService`; an error is kept, not reported |
| `ListenAndServe`, `Exit` | the server serves; a process ends for whatever reason |
| `Health`, `PostProve`, `PostVerify`, `GetArtifact` | the handlers, with status and body of every outcome |
| `PostMalformed` | `readJSON` turns a body down |
| `ExportTruncate`, `ExportWrite` | the two steps of `os.WriteFile`; the process then ends |
| `KeysInstalled` | a start writes the key directory (in `KeyStore` step by step) |

What a handler does to the service is the action of `ProverService` itself, so the
two cannot drift apart; the answer is added to `answers`. A client presents a bundle
to `/verify` as it got it or altered, with any request. An error body is one
value: nothing depends on its text. Each process has an output path of its own.

### HashPayloads and Prototypes

`Settlement` takes hashes for free constructors. `HashPayloads` checks what that
rests on: the texts under the hashes, made of a domain tag, the caller's text and
numbers joined by bars, where the caller's text may contain bars and numbers
too. Texts are sequences of pieces, so a text that ends in `|1` and one without are
both there.

`Prototypes` has the three circuits that only tests and tools call. Their callers may
replace the expected values an input builder works out by those of some batch,
as the tests do to see a proof refused. Each call makes keys of its own and drops
them, so a proof is the fact that one was made. `Tools` puts the two together: they
share no state, so a behaviour computes hashes or makes proofs and never both.

### LegacyService

`Clients` are connections and `Host` is the program that embeds the service. `pc[t]`
tells where the goroutines behind `t` stand: a handler, the StartService it calls,
or the goroutine a STOP leaves behind.

| Action | Code, `core/service.go` |
|---|---|
| `HostStart`, `ReadStart`, `ReadStop`, `ReadOther` | StartService is called by the host; a handler reads its line |
| `AlreadyRunning`, `Begin` | the critical section of StartService |
| `Bind`, `Assign` | `net.Listen`, and the assignment of both its results without the lock |
| `Stat`, `Create`, `WriteHead`, `WriteTail`, `SetupError` | the look at `proving.key`; SetupSystem's three files |
| `Launch`, `Answer` | the accept loop's `go`; the answer to START |
| `CallAccept`, `Accept`, `AcceptFails`, `AfterError` | one turn of accept loop `n` |
| `NothingToStop`, `Stop`, `CheckListener`, `CloseListener`, `Unlock` | StopService |
| `Connect`, `PortTaken`, `PortFreed`, `Crash` | the kernel, other programs, the end of the program |

A start has a number, and its stop channel, listener and accept loop have the
same one, so a property can say which belongs to which. Reads and writes outside
the mutex are single steps that give the old or the new value. In Go terms they
are data races; an interface value may be read half new, but both halves of
`s.listener` are of one dynamic type or nil, so a mixed value is the old
listener, the new one, or a nil one that panics as nil does. `Panic` ends the
program, as an unrecovered panic in a goroutine does.

Commands come at any time. The auxiliary variable `orderly` stays true while a
START or STOP is given only when no other is being carried out, and a START of a
stopped service only after its accept loop has ended; faults may happen at any
time. No action looks at `orderly`, and fairness is stated over the other variables
(`system`). The code leaves such order to its users, and the properties that need
it say so.

### LegacySession

| Action | Code |
|---|---|
| `Send` | the relay dials and sends `GENERATE` |
| `Load`, `Prove` | GenerateProof up to `groth16.Prove` |
| `Create`, `WriteHead`, `WriteTail`, `SaveError` | `saveFile`, for the proof and then for the witness |
| `ReadProof`, `ReadWitness`, `ReadKey` | the relay collects the artifacts after the reply |
| `CreateJSON`, `WriteJSON`, `SaveJSONError` | the command line saves `api.json` |
| `Stop`, `Remove`, `Stopped` | StopService closes the listener, then ClearAllSessionData |
| `Start`, `Crash` | the service comes back; it dies with its handlers |

The parts of a file are named by the request that wrote them. `open[r]` is whether
the name still leads to the file a handler writes: removing an open file is not
an error, and what is written to it then is lost. A reset of connections that
nobody accepted is part of `Stop`. Keys are whole, torn or absent from the
beginning (`LegacyService` has how that comes about); a `Start` leaves them as they
are. The last write of the witness and the reply are one step (`WriteTail`), as
nothing of the handler's comes between them. `SerialSpec` is one command at a time. `ProofRelay` is the promise to a client: one answer, and with SUCCESS the
proof and the witness of its own request, if the numbers solve the circuit.

## 3. Runs

| Run | Bounds | What it shows |
|---|---|---|
| `keystore_serial` | 3 processes, one of them without a directory, 3 setups, 2 faults | with starts one after the other: files closed, installed files whole, engines agree, no failure inherited, installed keys kept, `KeyDirectory` implemented, starts complete |
| `keystore_overlap` | 2 processes, 3 setups, 1 fault | a verifying key is never installed without a proving key, even with overlap; unless something fails, racing starts do not all lose |
| `keystore_load` | as above, no faults | **fails**: a later start loads two keys that are no pair |
| `prover_requests` | a v1 process on a directory, a v0 process in memory, one with an unknown mode; 126 batches: modes, owners, balances, nonces, spellings of the root, 0 to 2 withdrawals; field size 5; 1 bundle, 1 artifact, 1 accepted request | prove and verify agree on every batch; what is accepted was proved; the service's checks agree with the circuit |
| `prover_owners` | as `prover_requests` | **fails**: the withdrawal a v1 proof is about is not counted |
| `http_servers` | 2 alike v1 processes on one directory, 2 keys, 2 batches, 2 answers, 2 bundles, 2 artifacts, 1 verdict | bundles and artifacts outlive their process; servers and restarts agree on a request; `/health` announces what is handed out; exported files fit; what any server finds valid was proved, though clients alter bundles |
| `tools` | 7 texts, 4 numbers, 2 hashes; 9 batches, 4 proofs; field size 5 | two hashes are equal only for the same call; the prototypes make up the settlement circuit |
| `legacy_service` | 2 clients, 2 starts, 2 faults, no keys at first | in any order: no channel is closed twice, keys at rest stay, START is answered; in order: no panic, a stopped service is deaf, a running one has one accept loop, a stop takes effect, no connection waits for ever, the keys are of one set-up |
| `legacy_deaf` | 2 clients, 2 starts, no faults, keys at first | **fails**: a stopped service keeps the port |
| `session_serial` | 3 requests (3\|35, 5\|135, 5\|999), 2 faults, any state of the keys | one at a time: requests are answered, answers are one's own, the cached pair verifies, a stop clears, `ProofRelay` is implemented |
| `session_shared` | the 3 requests at once, no faults | only solutions get proofs; nobody fails because of the others |
| `session_mixed` | 2 good requests | **fails**: an answer with another request's file |

Why these bounds are enough to meet the cases. Two processes are the smallest
number that can race, and one that starts again is a new process to the store,
so two of them and three setups give three generations of keys; in
`keystore_serial` two faults let a crash hit the recovery from a crash. The third
process of `keystore_serial` has no directory and must stay apart. For the
prover, one accepted request loses nothing, since every property speaks of one
at a time; `http_servers` compares two answers, which takes two bundles or two
artifacts, each from another server or another start. The field size 5 makes a nonce and a balance that exceed it meet those that do not: batches use 1
and 1 + Modulus. Of the batches of `prover_requests`, 21 can be proved; the others
fail in the service, in witness building or in the circuit. Keys and processes
are symmetric in `keystore_load`, the two servers and the two keys in `http_servers`;
the runs with liveness properties use no symmetry.

In `tools` two hashes are what the property compares, and four proofs are the three
parts of a batch and the batch. The batches are the one of the tests, others with their own balances,
nonce or destination, and some with one public value that is not theirs. In the
legacy service two starts put a second listener beside an accept loop that is
left from the first; two clients are the fewest that can stop and start, or
connect, at the same time; two faults let a failed Accept or a crash meet a busy
port or a broken set-up. Of the three requests two are good, so that
they can meet in the cache, and one is refused.

Deadlock is checked in all runs but those of `LegacyService`. A process of `KeyStore`
can always start again, an engine or a server can always stop, a stopped session
service can start; hashes and proofs can be made again. A legacy service
that is stopped after its last start, with its bounds used up, may rest, and so
may one that runs with nobody connected: `CHECK_DEADLOCK FALSE`.

**Fairness.** `WF_vars(Step(p))` for every process: a start in progress goes on,
as the operating system runs the process and no call of the store waits for
another process. Nothing is assumed about starting, stopping, crashes or errors.
`StartCompletes` (a start ends in an engine, an error of its own or a crash) and
`DirectoryFills` rest on it. `ProverService` has no liveness property: its
operations are single steps that wait for nobody.

In `LegacyService` the scheduler runs every goroutine: weak fairness for the steps
of every start (`StartStep`), stop (`StopStep`), answer and accept loop. The mutex is
Go's, which hands itself to a waiter that has waited long; with bounded starts weak
fairness is enough, since nobody can hold it infinitely often. The kernel hands
connections out in the order they came, so a connection is not passed over for
ever: strong fairness for its `Accept`. In `LegacySession`, weak fairness for the
steps of every handler and relay. Nothing is assumed of commands, of faults, of
the port or of what other programs do.

**What fails.** The failing runs record disagreements between the code and what
its documents or comments say; they are under "findings" in `PROJECT.json`.

1. Overlapping first starts use the same temporary names (`key_store.go:102`). A
   process can write through its descriptor into a file another one has already
   renamed, so the proving and the verifying key a later start loads need not
   belong together, although every start reported success.
2. Balance sums compare owners as they came (`balance.go:107`, `:124`), all other
   checks trim them. A withdrawal whose owner has white space around it passes
   the nullifier check, is bound by the v1 proof and is missing from the balance
   equation.
3. `isRunning` is set before there is a listener (`core/service.go:41`, `:46`): a stop
   in between closes the old listener or none, and the new one stays open in a
   service that says it is stopped.
4. All requests share `cache/proof.data` and `cache/witness.data`, and the relay reads
   them after the reply (`core/prover.go:79`, `bat/execution.go:96`): a SUCCESS may carry
   another request's proof or witness.

**What the properties leave out.** Each condition in a property stands for
something the code does, and the models have the steps for it:

- "starts do not overlap, and stat works" (`SerialSpec`): `fileExists` takes any error
  for absence (`key_store.go:146`), so a start during a short outage of the
  directory replaces keys that are in use.
- "both on the key directory" (`ArtifactFits`, `BundleVerifies`): without
  `GAZK_KEY_DIR` each process has keys of its own under the same constant
  `verificationKeyId`.
- "orderly" (`NoPanic`): the accept loop reads `s.listener` and `s.stopChan` again on
  every turn (`core/service.go:72`, `:75`). A loop that a stop did not catch waiting
  goes on under the next start, and calls Accept on a nil listener when that
  start's `Listen` fails.
- "got its listener" (`OnlineWhenListening`): START is answered with SUCCESS whether
  or not `Listen` succeeded (`core/service.go:123`).
- "all of one setup is on disk" (`PairKept`): a start sets up only if stat says
  `proving.key` does not exist (`core/service.go:58`). What a failed or interrupted
  set-up left behind is taken for a complete set by all later starts. It stays
  half: with orderly commands no other set-up completes it or writes over it
  (`KeysOfOneSetup`).
- "orderly" (`KeysOfOneSetup`): a start that a stop overtook may still be writing
  keys when the next one finds no proving key and sets up too. It takes three
  starts and a set-up error before, since nobody is accepted during a first set-up.
- "one at a time" (`StoppedIsClear`): a stop does not wait for requests in flight;
  their files are written after the clean-up and stay (`core/prover.go:139`).

## 4. Proofs

All theorems hold for any sets of processes, keys and requests, any number of
faults and any field size, from the named assumptions on the constants:
`ProcsAssumption`, `KeysAssumption`, `FaultsAssumption` (a subset, distinct model
values, a natural number), `ModulusAssumption`, `PersistentAssumption`,
`NoKeyAssumption`, `RequestsAssumption` (accounts and withdrawals of a request
are lists, which JSON decoding sees to) and `TextsAssumption` (a text that is not
blank is the sequence of what stands between its bars, as any string is).
Every safety property that a passing run checks, the two refinements among
them, is a theorem; each inductive invariant was model-checked on the instance
of the run before it was proved.

**KeyStoreProofs** (`Spec`, starts overlap): `TypeCorrect` and `InstallOrderHolds`.
`TypeOK` is not inductive, since a save writes what the process has in memory
and a loaded key may be `Mangled`, and since a file is opened under the name of
the key in memory; `Drawn` adds that who saves holds the pair of its own Setup.
The types are kept by `TypeStep`, the closing of files by `ClosedStep`. `InstallOrder` needs `HalfInstalled`: who is about to rename the
verifying key has renamed a proving key before, and names do not go away.
Together they are `OverlapInv`.

**KeyStoreSerialProofs** (`SerialSpec`): `InstalledWholeHolds`, `EnginesAgreeHolds`,
`NoInheritedFailureHolds`, `InstalledKeysKeptHolds`. The properties speak of final
names and of engines; what is under a final name was written several steps
before its rename. `SerialInv` therefore says where a save stands and what the
files hold at that point (`SaveProgress`), that only one start is at work
(`OneStart`) and only while there is no verifying key (`NotYet`), that temporary and
final names never lead to one file (`Apart`, `Novel`), that the two installed files
are one pair (`OnePair`) and that readers hold what is there (`Attached`). It was
model-checked on the serial instance before it was proved. There is one lemma
for each group of actions (`QuietStep`, `OpenStep`, `WriteStep`, `RenameStep`).

`DirectoryImplemented` is the refinement: `KeyDirectory` sees a register that gets
its value when the verifying key is renamed, and engines that read it. An engine
without a directory must have a pair that nobody else serves, of which
`SerialInv` says nothing, so `RegisterInv` adds that every pair comes from a setup
(`FromSetups`) and that a pair made without a directory is in no other process and
in no file (`PrivatePairs`). Each step then is one of the register (`EstablishStep`,
`EngineStep`) or one it does not see (`HiddenStep`).

**ProverServiceProofs**: `ServiceTypeCorrect`, `BundleVerifiesHolds`,
`ArtifactFitsHolds`, `AcceptedWasProvedHolds` and `ChecksMatchCircuitHolds`. Two arguments meet. On one request, `OneWithdrawal` shows
that the nullifier check leaves no withdrawal that is not the account's, so the
"one withdrawal of this owner" of Prove is the "one withdrawal" of Verify, and
`RoundTrip` that Verify takes what Prove lets through. Over time, `KeysInv` follows
each key from the directory to engines, bundles and artifacts; it is inductive
because a directory is written once, before any engine runs on it.
`AcceptedWasProvedHolds` adds that whatever a client does to a bundle, the proof in
it stays one that was issued (`PresentedProof`), since the model lets clients make
no proofs of their own: soundness of Groth16 is assumed, not shown.

**HTTPServerProofs** (`ServerSpec`): `ServersKeepBundles` carries the theorems of
`ProverService` over to the servers, by a lemma (`ServersServe`) that each handler and
command is a step of `ProverService` or none, as the definitions say. `RepeatedAnswersAgreeHolds`, `HealthAnnouncesHolds`
and `OutputFitsHolds` compare answers given at different times, before and after
restarts. They follow from `ServerInv`: what an answer says is a function of the
call, the hash mode and the key pair (`Replied`), an output file is whole, partial
or absent, and the key pair came from an engine whose keys, with a directory, are
those of `KeysInv`.

**ToolsProofs**: `HashesSeparateHolds`, `PartsMakeTheWholeHolds` and
`WholeHasItsPartsHolds`. `ComputedInv` and `ProvedInv` say how what was computed or
proved came about. For the hashes the argument is one
about sequences: the tag in front of a text and the number behind it can be read
off whatever bars the text contains (`FrontLegible`, `BackLegible`, `TaggedLegible`), and
the tags are all different (`FunctionLegible`). For the circuits it is that the three
parts, written out, say together what the settlement circuit says
(`PartsAndWhole`, in both directions, for any batch).

**LegacyServiceProofs**, for any number of connections, starts and faults, from
`TasksAssumption` (the host is no connection, `Free` is neither) and
`BoundsAssumption`. In any order: `TypeCorrect`, `RunningIsStoppableHolds` and
`PairKeptHolds`. The first two need `ChanInv`: only channels of starts so far are
closed, and a running service has the channel of the last start, unclosed.
`PairKept` is an action property; it follows from `TypeOK`, since a step that writes
a key file is one of a set-up, and only a missing proving key begins one.

While commands are orderly: `OrderlyNoPanic`, `OrderlyStoppedIsDeaf`, `OrderlyOnline` and
`OrderlyKeysOfOneSetup`, all theorems of `Spec`, as the properties carry the
condition. None of the four is inductive. `OrderlyInv` says that while `orderly` holds so does `RestInv`: at most
one start or stop is at work (`OneAtATime`), and what follows from that: who holds
the mutex, and that nobody starts meanwhile (`LockHeld`); whose the port is
(`PortInv`); how far the start in progress has come, and that no accept loop is
left while it is (`StartInv`); that an accept loop serves the current listener
(`LoopInv`); that a stop closes a listener that is there (`CloseInv`); and what a
start has achieved when it is over (`RunInv`). It was model-checked first. There is
one lemma for each action that disturbs a part of it, and one for moves that
disturb none (`QuietMove`, `EnterMove`, `SetupMove`).

For the keys, `KeysInv` adds that a missing proving key means that there is neither
key, and that a start that sets up has nothing on disk but its own, the
verifying key last (`OwnSetup`). `OneAtATime` of `OrderlyInv` keeps a second start from
writing meanwhile; four actions look at the keys or write them (`KeyStepKeeps`),
all others leave them (`OtherStepsQuiet`).

**LegacySessionProofs** (`Spec`, requests at once): `SessionTypeCorrect`,
`OnlySolvableHolds` and `ValidSucceedsHolds`. `OnlySolvable` speaks of files and
answers; a file is written steps after the circuit was solved, so `SolvableInv` adds
that who stands behind `groth16.Prove` is solvable. It holds with any number of
requests at once, which is what the mixed-up files of finding 4 leave intact.
`ValidSucceeds` needs `ProvidedInv`: as long as nothing was stopped and nothing failed,
the files a request will read are there once it has created them, because
another request may truncate or overwrite them, but never removes them.

**LegacySessionSerialProofs** (`SerialSpec`, one command at a time): `AnswerIsOwnHolds`,
`RestingPairVerifiesHolds`, `StoppedIsClearHolds` and the refinement `RelayImplemented`.
Here `SerialInv` has four parts: one request is in flight and no clean-up beside
it, relays that outlive a crash included (`Alone`); what the files hold at each step
of that request, and what its relay has read (`Own`); what a clean-up has left to do
(`Cleared`); and that the cached pair is of one request whenever nobody writes it
(`Paired`). `Own` is what fails with two requests at once: finding 4. For the
refinement, a request is answered at one step, from `status` "none", and with
SUCCESS only with files `Own` knows (`AnswerStep`); all other steps do not change what
`ProofRelay` sees (`SilentStep`), as what a relay has read counts only in its answer.

Only model-checked: the liveness properties, `StartCompletes` and `DirectoryFills` of
`KeyStore`, `StopTakesEffect`, `ConnectionServed` and `StartAnswered` of `LegacyService`, and
`Answered` of `LegacySession`. They rest on fairness, hence on ENABLED, which these
provers do not handle. The findings are counterexamples of TLC.

## 5. What is not modelled

- Cryptography: soundness, zero knowledge, collisions, the curve.
- Error texts and log lines, routing and the encoding of JSON; a connection that
  breaks while an HTTP answer is written.
- Power loss: the code does not sync the files it writes, and what is left of
  them then is up to the file system. The deletion or replacement of key files by
  hand.
- `contract/types.go`: data declarations, present as the records of `Settlement`.
- A client of the legacy service that sends no line: its handler waits for ever,
  and nothing else waits for it. A relay and a service that run in different
  directories, which then share no files.
- What the settlement chain checks on its side (`README.md:457-464`).

## 6. Plan

1. Done: `KeyStore` with `KeyDirectory`, `Settlement`, `ProverService` and their proofs;
   `LegacyService` and `LegacySession` with `ProofRelay` and their first proofs;
   `HTTPServer`, `HashPayloads`, `Prototypes` and `Tools`.
2. Done: every safety property and every refinement that a run checks, proved
   for all values of the constants.
3. To come: what of the properties of single commands survives when commands
   overlap, for `LegacySession`, and when stat fails, for `KeyStore`; the hazards of
   `PROJECT.json` that have no property yet, where one can be stated without
   induction over lists.
