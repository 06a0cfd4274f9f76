--------------------------- MODULE LegacyService ---------------------------
(***************************************************************************)
(* The legacy TCP service of core/service.go: how it is started, stopped   *)
(* and started again, and how a start comes by the key files.              *)
(*                                                                         *)
(* StartService runs in the goroutine of its caller, the host program or   *)
(* the handler of a connection, and leaves an accept loop behind.  A STOP  *)
(* command leaves a goroutine that sleeps and then runs StopService.  The  *)
(* mutex covers StopService and the beginning of StartService; s.listener  *)
(* is assigned, and s.listener and s.stopChan are read by the accept loop, *)
(* without it.                                                             *)
(*                                                                         *)
(* Starts are numbered: start n makes stop channel n, listener n, accept   *)
(* loop n and, if it sets up, the key files of setup n.  An unlocked read  *)
(* gives the old or the new value: both values of s.listener that a torn   *)
(* read could mix have one dynamic type or are nil, and a nil half makes   *)
(* Accept panic, or fail as on a closed listener.                          *)
(***************************************************************************)
EXTENDS Naturals, FiniteSets

CONSTANTS
  Clients,      \* names of connections
  Host,         \* the program that embeds the service
  Free,         \* nobody holds the mutex
  KeysAtFirst,  \* TRUE if an earlier program left all key files
  MaxStarts,    \* bound: starts that get past the isRunning check
  MaxFaults     \* bound: crashes, I/O errors, failed Accepts, a busy port

Tasks    == Clients \union {Host}
Sessions == 1..MaxStarts
Numbers  == 0..MaxStarts
Foreign  == MaxStarts + 1  \* another program has the port
Earlier  == MaxStarts + 2  \* setup run by an earlier program

ASSUME TasksAssumption  == Host \notin Clients /\ Free \notin Tasks
ASSUME BoundsAssumption == MaxStarts \in Nat /\ MaxFaults \in Nat /\ KeysAtFirst \in BOOLEAN

VARIABLES
  isRunning, stopChan, listener,  \* the fields of ZKPLiveService; 0 is a nil listener
  mu,        \* who holds the mutex
  closed,    \* stop channels that have been closed
  port,      \* the listener that has the port, or Foreign, or 0
  loop, on,  \* loop[n]: accept loop n; on[n]: the listener it waits on
  pc,        \* pc[t]: where the goroutines behind t stand
  session,   \* session[t]: the start t is performing
  at,        \* at[t]: the key file t is writing
  keys,      \* keys[f]: the two parts of the key file f
  starts, faults,
  panicked,  \* a goroutine has panicked, which ends the program
  orderly    \* auxiliary: no command has come out of order so far

fields   == <<isRunning, stopChan, listener, mu>>
loops    == <<loop, on>>
tasks    == <<pc, session, at>>
counters == <<starts, faults, panicked>>
system   == <<fields, closed, port, loops, tasks, keys, counters>>
vars     == <<system, orderly>>

Files == {"circuit.r1cs", "proving.key", "verifying.key"}

\* Inside StartService, after the check of isRunning.
SettingUp == {"create", "head", "tail"}
Starting  == {"bind", "assign", "assignNil", "stat", "launch"} \union SettingUp
\* A STOP command has been answered and StopService has not returned.
Stopping  == {"sleep", "check", "close", "clear"}
Steps     == {"away", "queued", "reading", "start", "answer"} \union Starting \union Stopping

Part      == Numbers \union {Earlier}
Absent    == [there |-> FALSE, head |-> 0, tail |-> 0]
Written(h, t) == [there |-> TRUE, head |-> h, tail |-> t]
AllFiles(content) == [f \in Files |-> content]

SystemTypeOK ==
  /\ isRunning \in BOOLEAN /\ panicked \in BOOLEAN
  /\ stopChan \in Numbers /\ listener \in Numbers
  /\ mu \in Clients \union {Free}
  /\ closed \in SUBSET Numbers
  /\ port \in Numbers \union {Foreign}
  /\ loop \in [Sessions -> {"none", "accept", "blocked", "failed"}]
  /\ on \in [Sessions -> Numbers]
  /\ pc \in [Tasks -> Steps]
  /\ session \in [Tasks -> Numbers]
  /\ at \in [Tasks -> Files]
  /\ keys \in [Files -> [there : BOOLEAN, head : Part, tail : Part]]
  /\ starts \in Numbers /\ faults \in 0..MaxFaults

TypeOK == SystemTypeOK /\ orderly \in BOOLEAN

Init ==
  /\ isRunning = FALSE /\ stopChan = 0 /\ listener = 0 /\ mu = Free
  /\ closed = {} /\ port = 0
  /\ loop = [n \in Sessions |-> "none"] /\ on = [n \in Sessions |-> 0]
  /\ pc = [t \in Tasks |-> "away"] /\ session = [t \in Tasks |-> 0]
  /\ at = [t \in Tasks |-> "circuit.r1cs"]
  /\ keys = AllFiles(IF KeysAtFirst THEN Written(Earlier, Earlier) ELSE Absent)
  /\ starts = 0 /\ faults = 0 /\ panicked = FALSE
  /\ orderly = TRUE

-----------------------------------------------------------------------------
Goto(t, step) == pc' = [pc EXCEPT ![t] = step]

\* From step to next without a change to anything else.
Pass(t, step, next) ==
  /\ pc[t] = step
  /\ Goto(t, next)
  /\ UNCHANGED <<fields, closed, port, loops, session, at, keys, counters>>

Fault ==
  /\ faults < MaxFaults
  /\ faults' = faults + 1
  /\ UNCHANGED <<starts, panicked>>

\* The program ends: its goroutines, its variables and its sockets are gone.
Die ==
  /\ isRunning' = FALSE /\ stopChan' = 0 /\ listener' = 0 /\ mu' = Free
  /\ closed' = {}
  /\ port' = IF port = Foreign THEN Foreign ELSE 0
  /\ loop' = [n \in Sessions |-> "none"] /\ on' = [n \in Sessions |-> 0]
  /\ pc' = [t \in Tasks |-> "away"] /\ session' = [t \in Tasks |-> 0]
  /\ at' = [t \in Tasks |-> "circuit.r1cs"]
  /\ UNCHANGED <<keys, starts>>

Panic == Die /\ panicked' = TRUE /\ UNCHANGED faults
Crash == Die /\ faults < MaxFaults /\ faults' = faults + 1 /\ UNCHANGED panicked

\* Another program takes the port, or gives it back.
PortTaken ==
  /\ port = 0 /\ port' = Foreign
  /\ Fault
  /\ UNCHANGED <<fields, closed, loops, tasks, keys>>

PortFreed ==
  /\ port = Foreign /\ port' = 0
  /\ UNCHANGED <<fields, closed, loops, tasks, keys, counters>>

-----------------------------------------------------------------------------
(***************************************************************************)
(* StartService.                                                           *)
(***************************************************************************)

\* The host calls StartService; a handler does when it reads START.
Waiting == {t \in Tasks : pc[t] = "start"}
HostStart == starts + Cardinality(Waiting) < MaxStarts /\ Pass(Host, "away", "start")

AlreadyRunning(t) ==
  /\ isRunning /\ mu = Free
  /\ Pass(t, "start", IF t = Host THEN "away" ELSE "answer")

\* Mutant of Begin: the mutex is not given back.
BeginKeepsLock(t) ==
  /\ pc[t] = "start"
  /\ ~isRunning /\ mu = Free /\ starts < MaxStarts
  /\ isRunning' = TRUE /\ stopChan' = starts + 1 /\ mu' = t
  /\ starts' = starts + 1
  /\ session' = [session EXCEPT ![t] = starts + 1]
  /\ Goto(t, "bind")
  /\ UNCHANGED <<listener, closed, port, loops, at, keys, faults, panicked>>

\* Mutant of Begin: isRunning is not looked at.
BeginAgain(t) ==
  /\ pc[t] = "start"
  /\ mu = Free /\ starts < MaxStarts
  /\ isRunning' = TRUE /\ stopChan' = starts + 1
  /\ starts' = starts + 1
  /\ session' = [session EXCEPT ![t] = starts + 1]
  /\ Goto(t, "bind")
  /\ UNCHANGED <<listener, mu, closed, port, loops, at, keys, faults, panicked>>

\* Mutant of Begin: the stop channel of the last start is kept.
BeginSameChan(t) ==
  /\ pc[t] = "start"
  /\ ~isRunning /\ mu = Free /\ starts < MaxStarts
  /\ isRunning' = TRUE /\ UNCHANGED stopChan
  /\ starts' = starts + 1
  /\ session' = [session EXCEPT ![t] = starts + 1]
  /\ Goto(t, "bind")
  /\ UNCHANGED <<listener, mu, closed, port, loops, at, keys, faults, panicked>>

Begin(t) ==
  /\ pc[t] = "start"
  /\ ~isRunning /\ mu = Free /\ starts < MaxStarts
  /\ isRunning' = TRUE /\ stopChan' = starts + 1
  /\ starts' = starts + 1
  /\ session' = [session EXCEPT ![t] = starts + 1]
  /\ Goto(t, "bind")
  /\ UNCHANGED <<listener, mu, closed, port, loops, at, keys, faults, panicked>>

\* net.Listen: the port is there to take, or the call fails.
Bind(t) ==
  /\ pc[t] = "bind"
  /\ \/ port = 0 /\ port' = session[t] /\ Goto(t, "assign") /\ UNCHANGED counters
     \/ port # 0 /\ UNCHANGED port /\ Goto(t, "assignNil") /\ UNCHANGED counters
     \/ port = 0 /\ UNCHANGED port /\ Goto(t, "assignNil") /\ Fault
  /\ UNCHANGED <<fields, closed, loops, session, at, keys>>

\* Both results of Listen are assigned before the error is looked at.
Assign(t) ==
  /\ \/ pc[t] = "assign" /\ listener' = session[t] /\ Goto(t, "stat")
     \/ pc[t] = "assignNil" /\ listener' = 0
        /\ Goto(t, IF t = Host THEN "away" ELSE "answer")
  /\ UNCHANGED <<isRunning, stopChan, mu, closed, port, loops, session, at, keys, counters>>

\* Mutant of Stat: every start sets up.
StatBlind(t) ==
  /\ pc[t] = "stat"
  /\ Goto(t, "create")
  /\ at' = [at EXCEPT ![t] = "circuit.r1cs"]
  /\ UNCHANGED <<fields, closed, port, loops, session, keys, counters>>

\* Only a missing proving key makes a start set up; any other error of stat
\* counts as "there".
Stat(t) ==
  /\ pc[t] = "stat"
  /\ \/ keys["proving.key"].there /\ Goto(t, "launch") /\ UNCHANGED <<at, counters>>
     \/ /\ ~keys["proving.key"].there /\ Goto(t, "create") /\ UNCHANGED counters
        /\ at' = [at EXCEPT ![t] = "circuit.r1cs"]
     \/ ~keys["proving.key"].there /\ Goto(t, "launch") /\ Fault /\ UNCHANGED at
  /\ UNCHANGED <<fields, closed, port, loops, session, keys>>

-----------------------------------------------------------------------------
(***************************************************************************)
(* SetupSystem: three files, each truncated and written in place.          *)
(***************************************************************************)

Follows(f) == IF f = "circuit.r1cs" THEN "proving.key" ELSE "verifying.key"

Create(t) ==
  /\ pc[t] = "create"
  /\ keys' = [keys EXCEPT ![at[t]] = Written(0, 0)]
  /\ Goto(t, "head")
  /\ UNCHANGED <<fields, closed, port, loops, session, at, counters>>

WriteHead(t) ==
  /\ pc[t] = "head"
  /\ keys' = [keys EXCEPT ![at[t]].head = session[t]]
  /\ Goto(t, "tail")
  /\ UNCHANGED <<fields, closed, port, loops, session, at, counters>>

WriteTail(t) ==
  /\ pc[t] = "tail"
  /\ keys' = [keys EXCEPT ![at[t]].tail = session[t]]
  /\ Goto(t, IF at[t] = "verifying.key" THEN "launch" ELSE "create")
  /\ at' = [at EXCEPT ![t] = Follows(at[t])]
  /\ UNCHANGED <<fields, closed, port, loops, session, counters>>

\* An error ends the set-up; the start goes on as if it had worked.
SetupError(t) ==
  /\ pc[t] \in SettingUp
  /\ Goto(t, "launch")
  /\ Fault
  /\ UNCHANGED <<fields, closed, port, loops, session, at, keys>>

Launch(t) ==
  /\ pc[t] = "launch"
  /\ loop' = [loop EXCEPT ![session[t]] = "accept"]
  /\ Goto(t, IF t = Host THEN "away" ELSE "answer")
  /\ UNCHANGED <<fields, closed, port, on, session, at, keys, counters>>

-----------------------------------------------------------------------------
(***************************************************************************)
(* Accept loop n, and connections.                                         *)
(***************************************************************************)

\* s.listener is read; a nil listener has no Accept.
CallAccept(n) ==
  /\ loop[n] = "accept"
  /\ IF listener = 0 THEN Panic
     ELSE /\ loop' = [loop EXCEPT ![n] = "blocked"]
          /\ on' = [on EXCEPT ![n] = listener]
          /\ UNCHANGED <<fields, closed, port, tasks, keys, counters>>

Accept(n, c) ==
  /\ loop[n] = "blocked" /\ on[n] = port /\ pc[c] = "queued"
  /\ loop' = [loop EXCEPT ![n] = "accept"]
  /\ Goto(c, "reading")
  /\ UNCHANGED <<fields, closed, port, on, session, at, keys, counters>>

\* A closed listener, or an error of its own.
AcceptFails(n) ==
  /\ loop[n] = "blocked"
  /\ loop' = [loop EXCEPT ![n] = "failed"]
  /\ \/ on[n] # port /\ UNCHANGED counters
     \/ on[n] = port /\ Fault
  /\ UNCHANGED <<fields, closed, port, on, tasks, keys>>

\* Mutant of AfterError: a failed Accept is always tried again.
AfterErrorRetry(n) ==
  /\ loop[n] = "failed"
  /\ loop' = [loop EXCEPT ![n] = "accept"]
  /\ UNCHANGED <<fields, closed, port, on, tasks, keys, counters>>

\* Mutant of AfterError: any failed Accept ends the loop.
AfterErrorEnds(n) ==
  /\ loop[n] = "failed"
  /\ loop' = [loop EXCEPT ![n] = "none"]
  /\ UNCHANGED <<fields, closed, port, on, tasks, keys, counters>>

\* s.stopChan is read: the loop ends if that channel is closed.
AfterError(n) ==
  /\ loop[n] = "failed"
  /\ loop' = [loop EXCEPT ![n] = IF stopChan \in closed THEN "none" ELSE "accept"]
  /\ UNCHANGED <<fields, closed, port, on, tasks, keys, counters>>

\* The kernel completes a connection before anybody accepts it.
Connect(c) == port \in Sessions /\ Pass(c, "away", "queued")

\* A handler reads its one line; GENERATE, anything else and a read error
\* change nothing here.
ReadStart(c) == starts + Cardinality(Waiting) < MaxStarts /\ Pass(c, "reading", "start")
ReadStop(c)  == Pass(c, "reading", "sleep")
ReadOther(c) == Pass(c, "reading", "away")
Answer(c)    == Pass(c, "answer", "away")

-----------------------------------------------------------------------------
(***************************************************************************)
(* StopService, half a second after a STOP command.                        *)
(***************************************************************************)

NothingToStop(c) == ~isRunning /\ mu = Free /\ Pass(c, "sleep", "away")

\* Closing a channel twice would panic.
Stop(c) ==
  /\ pc[c] = "sleep"
  /\ isRunning /\ mu = Free
  /\ IF stopChan \in closed THEN Panic
     ELSE /\ mu' = c
          /\ isRunning' = FALSE
          /\ closed' = closed \union {stopChan}
          /\ Goto(c, "check")
          /\ UNCHANGED <<stopChan, listener, port, loops, session, at, keys, counters>>

CheckListener(c) == Pass(c, "check", IF listener # 0 THEN "close" ELSE "clear")

\* Mutant of CloseListener: the listener stays open.
CloseListenerNot(c) == Pass(c, "close", "clear")

\* s.listener is read again.  Closing it resets the connections nobody has
\* accepted.
CloseListener(c) ==
  /\ pc[c] = "close"
  /\ IF listener = 0 THEN Panic
     ELSE /\ port' = IF port = listener THEN 0 ELSE port
          /\ pc' = [t \in Tasks |-> IF t = c THEN "clear"
                                    ELSE IF port = listener /\ pc[t] = "queued" THEN "away"
                                    ELSE pc[t]]
          /\ UNCHANGED <<fields, closed, loops, session, at, keys, counters>>

\* ClearAllSessionData leaves the key files; LegacySession has the rest.
Unlock(c) ==
  /\ pc[c] = "clear"
  /\ mu' = Free
  /\ Goto(c, "away")
  /\ UNCHANGED <<isRunning, stopChan, listener, closed, port, loops, session, at, keys, counters>>

-----------------------------------------------------------------------------
StartStep(t) ==
  \/ AlreadyRunning(t) \/ Begin(t) \/ Bind(t) \/ Assign(t) \/ Stat(t)
  \/ Create(t) \/ WriteHead(t) \/ WriteTail(t) \/ Launch(t)

StopStep(c) ==
  NothingToStop(c) \/ Stop(c) \/ CheckListener(c) \/ CloseListener(c) \/ Unlock(c)

LoopStep(n) ==
  CallAccept(n) \/ (\E c \in Clients : Accept(n, c)) \/ AcceptFails(n) \/ AfterError(n)

\* What goes on without a new command.
Proceed ==
  \/ \E t \in Tasks : StartStep(t) \/ SetupError(t)
  \/ \E c \in Clients : StopStep(c) \/ Answer(c) \/ Connect(c) \/ ReadOther(c)
  \/ \E n \in Sessions : LoopStep(n)
  \/ PortTaken \/ PortFreed \/ Crash

(***************************************************************************)
(* Commands are orderly if a START or a STOP is given when no other is     *)
(* being carried out, and a START of a stopped service when its accept     *)
(* loop has ended.  Nothing in the code sees to that: orderly only records *)
(* whether it has been so, and no action depends on it.                    *)
(***************************************************************************)
NoStart == \A t \in Tasks : pc[t] \notin Starting \union {"start"}
NoStop  == \A c \in Clients : pc[c] \notin Stopping
NoLoop  == \A n \in Sessions : loop[n] = "none"

MayStart == NoStart /\ NoStop /\ (isRunning \/ NoLoop)
MayStop  == NoStart /\ NoStop

Next ==
  \/ Proceed /\ UNCHANGED orderly
  \/ HostStart /\ orderly' = (orderly /\ MayStart)
  \/ \E c \in Clients : ReadStart(c) /\ orderly' = (orderly /\ MayStart)
  \/ \E c \in Clients : ReadStop(c) /\ orderly' = (orderly /\ MayStop)

Spec == Init /\ [][Next]_vars

\* The scheduler runs every goroutine, and the kernel hands connections out
\* in order.  Commands, errors, crashes and the port are nobody's duty.
Fairness ==
  /\ \A t \in Tasks : WF_system(StartStep(t))
  /\ \A c \in Clients : WF_system(StopStep(c)) /\ WF_system(Answer(c))
  /\ \A n \in Sessions : WF_system(LoopStep(n))
  /\ \A c \in Clients : SF_system(\E n \in Sessions : Accept(n, c))

FairSpec == Spec /\ Fairness

-----------------------------------------------------------------------------
\* A service that says it runs has an open stop channel of its own, through
\* any interleaving of starts and stops: StopService never closes one twice.
RunningIsStoppable == isRunning => stopChan \notin closed

\* A stopped service holds no port: what the host is told when StopService
\* returns.  A stop that overtakes a start breaks it.
DeafWhenStopped == ~isRunning /\ mu = Free => port \notin Sessions

\* With orderly commands it holds, whatever fails meanwhile.
StoppedIsDeaf == orderly => DeafWhenStopped

\* With orderly commands, a service that runs and got its listener has the
\* port, and one accept loop in all, which serves that listener and will see
\* the next stop.
OnlineWhenListening ==
  orderly /\ isRunning /\ NoStart /\ listener # 0 =>
    /\ port = listener /\ stopChan = listener
    /\ \A n \in Sessions : loop[n] # "none" <=> n = listener

\* With orderly commands, the program is never ended by a method of a nil
\* listener or by a channel that is closed twice.
NoPanic == orderly => ~panicked

\* One setup wrote all of both keys, and the circuit file is whole.
IsPair(k) ==
  /\ k["circuit.r1cs"].head # 0 /\ k["circuit.r1cs"].tail # 0
  /\ \E n \in Part \ {0} :
       k["proving.key"] = Written(n, n) /\ k["verifying.key"] = Written(n, n)

\* All of one setup is on disk and nobody is writing it.
KeysAtRest == IsPair(keys) /\ \A t \in Tasks : pc[t] \notin SettingUp

\* Keys at rest stay: no later start, stop, error or crash ever sets up again
\* over them, so proofs and the exported verifying key remain good.
PairKept == [][KeysAtRest => KeysAtRest' /\ UNCHANGED keys]_vars

\* With orderly commands, all that is on disk of the two keys is of one setup:
\* a set-up that broke off is never completed, or written over, by another,
\* so no proving key ever stands beside the verifying key of another setup.
KeysOfOneSetup ==
  orderly => \E n \in Part : \A f \in {"proving.key", "verifying.key"} :
    keys[f].head \in {0, n} /\ keys[f].tail \in {0, n}

\* With orderly commands, a STOP that was answered takes effect: the service
\* stops, its port is free and its accept loop ends.
StopTakesEffect ==
  \A c \in Clients :
    pc[c] = "sleep" ~> ~orderly \/ (~isRunning /\ port \notin Sessions /\ NoLoop)

\* With orderly commands, a connection does not wait for ever: a loop takes it
\* or a stop resets it.
ConnectionServed == \A c \in Clients : pc[c] = "queued" ~> ~orderly \/ pc[c] # "queued"

\* START is answered, whoever holds the mutex and however often the service
\* is stopped meanwhile.
StartAnswered == \A c \in Clients : pc[c] = "start" ~> pc[c] \in {"answer", "away"}
=============================================================================
