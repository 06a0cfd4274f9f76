------------------------ MODULE LegacyServiceProofs ------------------------
(***************************************************************************)
(* Proofs about LegacyService.  However commands come: types, the stop     *)
(* channel of a running service is open, and keys at rest stay.  While     *)
(* commands are orderly: no goroutine panics, a stopped service is deaf, a *)
(* running one has one accept loop, and the keys come from one setup.      *)
(***************************************************************************)
EXTENDS LegacyService, TLAPS

-----------------------------------------------------------------------------
(***************************************************************************)
(* Commands in any order.                                                  *)
(***************************************************************************)

\* Stop channels are closed one by one, that of a running service never yet.
ChanInv ==
  /\ closed \subseteq 0..starts
  /\ isRunning => stopChan = starts /\ stopChan \notin closed

FreeInv == SystemTypeOK /\ ChanInv

\* What the goroutines of one host or connection do when they proceed.
TaskStep(t) == StartStep(t) \/ SetupError(t)
ConnStep(c) == StopStep(c) \/ Answer(c) \/ Connect(c) \/ ReadOther(c)
                 \/ ReadStart(c) \/ ReadStop(c)
WorldStep   == PortTaken \/ PortFreed \/ Crash

\* The names of a connection and of the host are different.
LEMMA TaskFacts == Clients \subseteq Tasks /\ Host \in Tasks /\ Host \notin Clients
  BY TasksAssumption DEF Tasks

\* The next-state relation, sorted by actor.
LEMMA NextByActor ==
  Next =>  \/ \E t \in Tasks : TaskStep(t)
           \/ HostStart
           \/ \E c \in Clients : ConnStep(c)
           \/ \E n \in Sessions : LoopStep(n)
           \/ WorldStep
  BY DEF Next, Proceed, TaskStep, ConnStep, WorldStep

\* A key file keeps its form when one part of it is written.
LEMMA KeysTyped ==
  ASSUME keys \in [Files -> [there : BOOLEAN, head : Part, tail : Part]],
         NEW f \in Files, NEW h \in Part
  PROVE  /\ [keys EXCEPT ![f] = Written(0, 0)]
              \in [Files -> [there : BOOLEAN, head : Part, tail : Part]]
         /\ [keys EXCEPT ![f].head = h] \in [Files -> [there : BOOLEAN, head : Part, tail : Part]]
         /\ [keys EXCEPT ![f].tail = h] \in [Files -> [there : BOOLEAN, head : Part, tail : Part]]
<1> DEFINE File == [there : BOOLEAN, head : Part, tail : Part]
<1>1. keys[f] \in File
  OBVIOUS
<1>2. Written(0, 0) \in File
  BY BoundsAssumption DEF Written, Part, Numbers
<1>3. [keys[f] EXCEPT !.head = h] \in File /\ [keys[f] EXCEPT !.tail = h] \in File
  BY <1>1
<1> HIDE DEF File
<1>4. /\ [keys EXCEPT ![f] = Written(0, 0)] \in [Files -> File]
      /\ [keys EXCEPT ![f] = [keys[f] EXCEPT !.head = h]] \in [Files -> File]
      /\ [keys EXCEPT ![f] = [keys[f] EXCEPT !.tail = h]] \in [Files -> File]
  BY <1>2, <1>3 DEF File
<1> QED
  BY <1>4 DEF File

\* A dead program leaves well-typed variables behind.
LEMMA DieTyped ==
  ASSUME SystemTypeOK, Die, panicked' \in BOOLEAN, faults' \in 0..MaxFaults
  PROVE  SystemTypeOK'
<1>a. isRunning' \in BOOLEAN /\ mu' \in Clients \union {Free}
  BY Zenon DEF Die
<1>1. /\ stopChan' \in Numbers /\ listener' \in Numbers
      /\ closed' \in SUBSET Numbers
      /\ port' \in Numbers \union {Foreign}
  BY BoundsAssumption DEF Die, Numbers
<1>2. /\ loop' \in [Sessions -> {"none", "accept", "blocked", "failed"}]
      /\ on' \in [Sessions -> Numbers]
  BY BoundsAssumption DEF Die, Numbers
<1>3. pc' \in [Tasks -> Steps] /\ session' \in [Tasks -> Numbers] /\ at' \in [Tasks -> Files]
  BY BoundsAssumption DEF Die, Numbers, Steps, Files
<1>4. /\ keys' \in [Files -> [there : BOOLEAN, head : Part, tail : Part]]
      /\ starts' \in Numbers
  BY Zenon DEF Die, SystemTypeOK
<1> HIDE DEF Numbers, Part, Files, Steps
<1> QED
  BY <1>a, <1>1, <1>2, <1>3, <1>4, Zenon DEF SystemTypeOK

\* The initial state is well typed.
LEMMA TypeInit == Init => SystemTypeOK
<1> SUFFICES ASSUME Init PROVE SystemTypeOK
  OBVIOUS
<1> USE BoundsAssumption
<1>1. keys \in [Files -> [there : BOOLEAN, head : Part, tail : Part]]
  BY DEF Init, AllFiles, Absent, Written, Part, Numbers
<1>2. /\ stopChan \in Numbers /\ listener \in Numbers /\ starts \in Numbers
      /\ closed \in SUBSET Numbers /\ port \in Numbers \union {Foreign}
      /\ on \in [Sessions -> Numbers] /\ session \in [Tasks -> Numbers]
      /\ faults \in 0..MaxFaults
  BY DEF Init, Numbers
<1>3. /\ pc \in [Tasks -> Steps] /\ at \in [Tasks -> Files]
      /\ loop \in [Sessions -> {"none", "accept", "blocked", "failed"}]
  BY DEF Init, Steps, Files
<1>4. isRunning \in BOOLEAN /\ panicked \in BOOLEAN /\ mu \in Clients \union {Free}
  BY Zenon DEF Init
<1> QED
  BY <1>1, <1>2, <1>3, <1>4, Zenon DEF SystemTypeOK

\* The names of steps, one by one.
LEMMA StepNames ==
  /\ {"away", "queued", "reading", "start", "answer", "bind", "assign", "assignNil", "stat",
      "launch", "create", "head", "tail", "sleep", "check", "close", "clear"} = Steps
  /\ Starting = {"bind", "assign", "assignNil", "stat", "launch", "create", "head", "tail"}
  /\ Stopping = {"sleep", "check", "close", "clear"}
  BY DEF Steps, Starting, Stopping, SettingUp

\* A goroutine that goes to a step leaves the table of steps well typed.
LEMMA GotoTyped ==
  ASSUME pc \in [Tasks -> Steps], NEW t \in Tasks, NEW step \in Steps, Goto(t, step)
  PROVE  pc' \in [Tasks -> Steps]
  BY DEF Goto

\* So does one that goes to a step and changes nothing else.
LEMMA PassTyped ==
  ASSUME SystemTypeOK, NEW t \in Tasks, NEW step, NEW next \in Steps, Pass(t, step, next)
  PROVE  SystemTypeOK'
<1>1. pc' \in [Tasks -> Steps]
  BY GotoTyped DEF Pass, SystemTypeOK
<1> QED
  BY <1>1, Zenon DEF Pass, SystemTypeOK, fields, loops, counters

\* Starting a service keeps the variables in their types.
LEMMA TaskTyped == SystemTypeOK /\ (\E t \in Tasks : TaskStep(t)) => SystemTypeOK'
<1> SUFFICES ASSUME SystemTypeOK, NEW t \in Tasks, TaskStep(t) PROVE SystemTypeOK'
  OBVIOUS
<1>0. /\ at[t] \in Files /\ session[t] \in Numbers /\ session[t] \in Part
      /\ Numbers \subseteq Part
  BY DEF SystemTypeOK, Part
<1>f. faults \in 0..MaxFaults /\ Fault => faults' \in 0..MaxFaults
  BY BoundsAssumption DEF Fault
<1> USE DEF fields, loops, tasks, counters
<1>1. CASE AlreadyRunning(t)
  BY <1>1, PassTyped, StepNames DEF AlreadyRunning
<1>2. CASE Begin(t)
  <2>1. pc' \in [Tasks -> Steps]
    BY <1>2, GotoTyped, StepNames DEF Begin, SystemTypeOK
  <2>2. /\ stopChan' \in Numbers /\ starts' \in Numbers
        /\ session' \in [Tasks -> Numbers]
    BY <1>2, BoundsAssumption DEF Begin, SystemTypeOK, Numbers
  <2> QED
    BY <1>2, <2>1, <2>2, Zenon DEF Begin, SystemTypeOK
<1>3. CASE Bind(t)
  <2>1. pc' \in [Tasks -> Steps]
    BY <1>3, GotoTyped, StepNames DEF Bind, SystemTypeOK
  <2>2. port' \in Numbers \union {Foreign} /\ starts' \in Numbers /\ panicked' \in BOOLEAN
    BY <1>3, <1>0, Zenon DEF Bind, Fault, SystemTypeOK
  <2>3. faults' \in 0..MaxFaults
    BY <1>3, <1>f, Zenon DEF Bind, SystemTypeOK
  <2> QED
    BY <1>3, <2>1, <2>2, <2>3, Zenon DEF Bind, SystemTypeOK
<1>4. CASE Assign(t)
  <2>1. pc' \in [Tasks -> Steps]
    BY <1>4, GotoTyped, StepNames DEF Assign, SystemTypeOK
  <2>2. listener' \in Numbers
    BY <1>4, <1>0, BoundsAssumption DEF Assign, Numbers
  <2> QED
    BY <1>4, <2>1, <2>2, Zenon DEF Assign, SystemTypeOK
<1>5. CASE Stat(t)
  <2>1. pc' \in [Tasks -> Steps]
    BY <1>5, GotoTyped, StepNames DEF Stat, SystemTypeOK
  <2>2. at' \in [Tasks -> Files]
    BY <1>5 DEF Stat, SystemTypeOK, Files
  <2>3. starts' \in Numbers /\ panicked' \in BOOLEAN
    BY <1>5, Zenon DEF Stat, Fault, SystemTypeOK
  <2>4. faults' \in 0..MaxFaults
    BY <1>5, <1>f, Zenon DEF Stat, SystemTypeOK
  <2> QED
    BY <1>5, <2>1, <2>2, <2>3, <2>4, Zenon DEF Stat, SystemTypeOK
<1>6. CASE Create(t)
  <2>1. pc' \in [Tasks -> Steps]
    BY <1>6, GotoTyped, StepNames DEF Create, SystemTypeOK
  <2>2. keys' \in [Files -> [there : BOOLEAN, head : Part, tail : Part]]
    BY <1>6, <1>0, KeysTyped, Zenon DEF Create, SystemTypeOK
  <2> QED
    BY <1>6, <2>1, <2>2, Zenon DEF Create, SystemTypeOK
<1>7. CASE WriteHead(t)
  <2>1. pc' \in [Tasks -> Steps]
    BY <1>7, GotoTyped, StepNames DEF WriteHead, SystemTypeOK
  <2>2. keys' \in [Files -> [there : BOOLEAN, head : Part, tail : Part]]
    BY <1>7, <1>0, KeysTyped, Zenon DEF WriteHead, SystemTypeOK
  <2> QED
    BY <1>7, <2>1, <2>2, Zenon DEF WriteHead, SystemTypeOK
<1>8. CASE WriteTail(t)
  <2>1. pc' \in [Tasks -> Steps]
    BY <1>8, GotoTyped, StepNames DEF WriteTail, SystemTypeOK
  <2>2. keys' \in [Files -> [there : BOOLEAN, head : Part, tail : Part]]
    BY <1>8, <1>0, KeysTyped, Zenon DEF WriteTail, SystemTypeOK
  <2>3. at' \in [Tasks -> Files]
    BY <1>8 DEF WriteTail, SystemTypeOK, Files, Follows
  <2> QED
    BY <1>8, <2>1, <2>2, <2>3, Zenon DEF WriteTail, SystemTypeOK
<1>9. CASE Launch(t)
  <2>1. pc' \in [Tasks -> Steps]
    BY <1>9, GotoTyped, StepNames DEF Launch, SystemTypeOK
  <2>2. loop' \in [Sessions -> {"none", "accept", "blocked", "failed"}]
    BY <1>9 DEF Launch, SystemTypeOK
  <2> QED
    BY <1>9, <2>1, <2>2, Zenon DEF Launch, SystemTypeOK
<1>10. CASE SetupError(t)
  <2>1. pc' \in [Tasks -> Steps]
    BY <1>10, GotoTyped, StepNames DEF SetupError, SystemTypeOK
  <2>2. starts' \in Numbers /\ panicked' \in BOOLEAN /\ faults' \in 0..MaxFaults
    BY <1>10, <1>f, Zenon DEF SetupError, Fault, SystemTypeOK
  <2> QED
    BY <1>10, <2>1, <2>2, Zenon DEF SetupError, SystemTypeOK
<1> QED
  BY <1>1, <1>2, <1>3, <1>4, <1>5, <1>6, <1>7, <1>8, <1>9, <1>10 DEF TaskStep, StartStep

\* Panics and crashes keep the variables in their types.
LEMMA EndTyped == SystemTypeOK /\ (Panic \/ Crash) => SystemTypeOK'
<1> SUFFICES ASSUME SystemTypeOK, Panic \/ Crash PROVE SystemTypeOK'
  OBVIOUS
<1>1. CASE Panic
  BY <1>1, DieTyped, Zenon DEF Panic, SystemTypeOK
<1>2. CASE Crash
  <2>1. faults' \in 0..MaxFaults
    BY <1>2, BoundsAssumption DEF Crash, SystemTypeOK
  <2> QED
    BY <1>2, <2>1, DieTyped, Zenon DEF Crash, SystemTypeOK
<1> QED
  BY <1>1, <1>2

\* Handling a connection keeps the variables in their types.
LEMMA ConnTyped == SystemTypeOK /\ (\E c \in Clients : ConnStep(c)) => SystemTypeOK'
<1> SUFFICES ASSUME SystemTypeOK, NEW c \in Clients, ConnStep(c) PROVE SystemTypeOK'
  OBVIOUS
<1>c. c \in Tasks
  BY TaskFacts
<1> USE DEF fields, loops, tasks, counters
<1>1. CASE NothingToStop(c) \/ CheckListener(c) \/ Answer(c) \/ Connect(c) \/ ReadOther(c)
             \/ ReadStart(c) \/ ReadStop(c)
  BY <1>1, <1>c, PassTyped, StepNames
  DEF NothingToStop, CheckListener, Answer, Connect, ReadOther, ReadStart, ReadStop
<1>2. CASE Stop(c)
  <2>1. CASE stopChan \in closed
    BY <1>2, <2>1, EndTyped DEF Stop
  <2>2. CASE stopChan \notin closed
    <3>1. pc' \in [Tasks -> Steps]
      BY <1>2, <2>2, <1>c, GotoTyped, StepNames DEF Stop, SystemTypeOK
    <3>2. closed' \in SUBSET Numbers
      BY <1>2, <2>2 DEF Stop, SystemTypeOK
    <3> QED
      BY <1>2, <2>2, <3>1, <3>2, Zenon DEF Stop, SystemTypeOK
  <2> QED
    BY <2>1, <2>2
<1>3. CASE CloseListener(c)
  <2>1. CASE listener = 0
    BY <1>3, <2>1, EndTyped DEF CloseListener
  <2>2. CASE listener # 0
    <3>1. pc' \in [Tasks -> Steps]
      BY <1>3, <2>2, StepNames DEF CloseListener, SystemTypeOK
    <3>2. port' \in Numbers \union {Foreign}
      BY <1>3, <2>2, BoundsAssumption DEF CloseListener, SystemTypeOK, Numbers
    <3> QED
      BY <1>3, <2>2, <3>1, <3>2, Zenon DEF CloseListener, SystemTypeOK
  <2> QED
    BY <2>1, <2>2
<1>4. CASE Unlock(c)
  <2>1. pc' \in [Tasks -> Steps]
    BY <1>4, <1>c, GotoTyped, StepNames DEF Unlock, SystemTypeOK
  <2> QED
    BY <1>4, <2>1, Zenon DEF Unlock, SystemTypeOK
<1> QED
  BY <1>1, <1>2, <1>3, <1>4 DEF ConnStep, StopStep

\* An accept loop keeps the variables in their types.
LEMMA LoopTyped == SystemTypeOK /\ (\E n \in Sessions : LoopStep(n)) => SystemTypeOK'
<1> SUFFICES ASSUME SystemTypeOK, NEW n \in Sessions, LoopStep(n) PROVE SystemTypeOK'
  OBVIOUS
<1> USE DEF fields, loops, tasks, counters
<1>1. CASE CallAccept(n)
  <2>1. CASE listener = 0
    BY <1>1, <2>1, EndTyped DEF CallAccept
  <2>2. CASE listener # 0
    <3>1. /\ loop' \in [Sessions -> {"none", "accept", "blocked", "failed"}]
          /\ on' \in [Sessions -> Numbers]
      BY <1>1, <2>2 DEF CallAccept, SystemTypeOK
    <3> QED
      BY <1>1, <2>2, <3>1, Zenon DEF CallAccept, SystemTypeOK
  <2> QED
    BY <2>1, <2>2
<1>2. ASSUME NEW c \in Clients, Accept(n, c) PROVE SystemTypeOK'
  <2>1. loop' \in [Sessions -> {"none", "accept", "blocked", "failed"}]
    BY <1>2 DEF Accept, SystemTypeOK
  <2>2. pc' \in [Tasks -> Steps]
    BY <1>2, TaskFacts, GotoTyped, StepNames DEF Accept, SystemTypeOK
  <2> QED
    BY <1>2, <2>1, <2>2, Zenon DEF Accept, SystemTypeOK
<1>3. CASE AcceptFails(n)
  <2>1. loop' \in [Sessions -> {"none", "accept", "blocked", "failed"}]
    BY <1>3 DEF AcceptFails, SystemTypeOK
  <2>2. faults' \in 0..MaxFaults
    BY <1>3, BoundsAssumption DEF AcceptFails, Fault, SystemTypeOK
  <2>3. UNCHANGED <<starts, panicked>>
    BY <1>3 DEF AcceptFails, Fault
  <2> QED
    BY <1>3, <2>1, <2>2, <2>3, Zenon DEF AcceptFails, SystemTypeOK
<1>4. CASE AfterError(n)
  <2>1. loop' \in [Sessions -> {"none", "accept", "blocked", "failed"}]
    BY <1>4 DEF AfterError, SystemTypeOK
  <2> QED
    BY <1>4, <2>1, Zenon DEF AfterError, SystemTypeOK
<1> QED
  BY <1>1, <1>2, <1>3, <1>4 DEF LoopStep

\* Other programs and the end of this one keep the variables in their types.
LEMMA WorldTyped == SystemTypeOK /\ WorldStep => SystemTypeOK'
<1> SUFFICES ASSUME SystemTypeOK, WorldStep PROVE SystemTypeOK'
  OBVIOUS
<1> USE DEF fields, loops, tasks, counters
<1>1. CASE PortTaken
  <2>1. faults' \in 0..MaxFaults
    BY <1>1, BoundsAssumption DEF PortTaken, Fault, SystemTypeOK
  <2> QED
    BY <1>1, <2>1, Zenon DEF PortTaken, Fault, SystemTypeOK
<1>2. CASE PortFreed
  <2>1. port' \in Numbers
    BY <1>2, BoundsAssumption DEF PortFreed, Numbers
  <2> QED
    BY <1>2, <2>1, Zenon DEF PortFreed, SystemTypeOK
<1>3. CASE Crash
  BY <1>3, EndTyped
<1> QED
  BY <1>1, <1>2, <1>3 DEF WorldStep

\* Every step keeps the variables in their types.
LEMMA TypeStep == SystemTypeOK /\ [Next]_vars => SystemTypeOK'
<1> SUFFICES ASSUME SystemTypeOK, [Next]_vars PROVE SystemTypeOK'
  OBVIOUS
<1>1. CASE UNCHANGED vars
  BY <1>1, Zenon DEF vars, system, fields, loops, tasks, counters, SystemTypeOK
<1>2. CASE HostStart
  BY <1>2, PassTyped, TaskFacts, StepNames DEF HostStart
<1> QED
  BY <1>1, <1>2, TaskTyped, ConnTyped, LoopTyped, WorldTyped, NextByActor

\* A step leaves the stop channels alone, starts, stops or ends the program.
LEMMA ChanSteps ==
  ASSUME Next
  PROVE  \/ UNCHANGED <<isRunning, stopChan, closed, starts>>
         \/ \E t \in Tasks : Begin(t)
         \/ \E c \in Clients : Stop(c)
         \/ Die
<1> USE DEF fields, loops, tasks, counters, Pass, Fault
<1>1. ASSUME NEW t \in Tasks, TaskStep(t), ~Begin(t)
      PROVE  UNCHANGED <<isRunning, stopChan, closed, starts>>
  BY <1>1, Zenon
  DEF TaskStep, StartStep, AlreadyRunning, Bind, Assign, Stat, Create, WriteHead, WriteTail,
      Launch, SetupError
<1>2. ASSUME NEW c \in Clients, ConnStep(c), ~Stop(c), ~Die
      PROVE  UNCHANGED <<isRunning, stopChan, closed, starts>>
  <2>1. CASE CloseListener(c)
    BY <1>2, <2>1, Zenon DEF CloseListener, Panic
  <2>2. CASE ~CloseListener(c)
    BY <1>2, <2>2, Zenon
    DEF ConnStep, StopStep, NothingToStop, CheckListener, Unlock, Answer, Connect,
        ReadOther, ReadStart, ReadStop
  <2> QED
    BY <2>1, <2>2
<1>3. ASSUME NEW n \in Sessions, LoopStep(n), ~Die
      PROVE  UNCHANGED <<isRunning, stopChan, closed, starts>>
  <2>1. CASE CallAccept(n)
    BY <1>3, <2>1, Zenon DEF CallAccept, Panic
  <2>2. CASE ~CallAccept(n)
    BY <1>3, <2>2, Zenon DEF LoopStep, Accept, AcceptFails, AfterError
  <2> QED
    BY <2>1, <2>2
<1>4. CASE HostStart
  BY <1>4, Zenon DEF HostStart
<1>5. CASE WorldStep
  BY <1>5, Zenon DEF WorldStep, PortTaken, PortFreed, Crash
<1> QED
  BY <1>1, <1>2, <1>3, <1>4, <1>5, NextByActor

\* Every step keeps the stop channels in order.
LEMMA ChanStep == SystemTypeOK /\ ChanInv /\ [Next]_vars => ChanInv'
<1> SUFFICES ASSUME SystemTypeOK, ChanInv, [Next]_vars PROVE ChanInv'
  OBVIOUS
<1>0. starts \in Nat /\ closed \subseteq 0..starts
  BY BoundsAssumption DEF SystemTypeOK, ChanInv, Numbers
<1>1. CASE UNCHANGED <<isRunning, stopChan, closed, starts>>
  BY <1>1 DEF ChanInv
<1>2. ASSUME NEW t \in Tasks, Begin(t) PROVE ChanInv'
  BY <1>0, <1>2 DEF Begin, ChanInv
<1>3. CASE Die
  BY <1>3, <1>0 DEF Die, ChanInv
<1>4. ASSUME NEW c \in Clients, Stop(c), ~Die PROVE ChanInv'
  <2>0. isRunning
    BY <1>4, Zenon DEF Stop
  <2>1. stopChan \notin closed
    BY <2>0, Zenon DEF ChanInv
  <2>2. isRunning' = FALSE /\ closed' = closed \union {stopChan} /\ starts' = starts
    BY <1>4, <2>1, Zenon DEF Stop, counters
  <2>3. stopChan \in 0..starts
    BY <1>0, <2>0 DEF ChanInv
  <2>4. closed' \subseteq 0..starts'
    BY <1>0, <2>2, <2>3
  <2> QED
    BY <2>2, <2>4, Zenon DEF ChanInv
<1> QED
  BY <1>1, <1>2, <1>3, <1>4, ChanSteps DEF vars, system, fields, counters

\* Every variable of the service keeps its type, however starts, stops,
\* connections, faults and crashes interleave.
THEOREM TypeCorrect == Spec => []TypeOK
<1>1. Init => TypeOK
  BY TypeInit, Zenon DEF Init, TypeOK
<1>2. TypeOK /\ [Next]_vars => TypeOK'
  <2> SUFFICES ASSUME TypeOK, [Next]_vars
               PROVE  TypeOK'
    OBVIOUS
  <2>1. SystemTypeOK'
    BY TypeStep DEF TypeOK
  <2>2. orderly' \in BOOLEAN
    BY Zenon DEF TypeOK, Next, vars
  <2> QED
    BY <2>1, <2>2 DEF TypeOK
<1> QED
  BY <1>1, <1>2, PTL DEF Spec

\* A running service has an open stop channel of its own: StopService closes
\* no channel twice, however starts and stops interleave.
THEOREM RunningIsStoppableHolds == Spec => []RunningIsStoppable
<1>1. Init => FreeInv
  BY TypeInit, BoundsAssumption DEF Init, FreeInv, ChanInv
<1>2. FreeInv /\ [Next]_vars => FreeInv'
  BY TypeStep, ChanStep DEF FreeInv
<1>3. FreeInv => RunningIsStoppable
  BY DEF FreeInv, ChanInv, RunningIsStoppable
<1> QED
  BY <1>1, <1>2, <1>3, PTL DEF Spec

\* With a whole pair on disk, nobody begins a set-up: only the missing
\* proving key makes a start set up.
LEMMA RestStep == SystemTypeOK /\ KeysAtRest /\ [Next]_vars => KeysAtRest' /\ UNCHANGED keys
<1> SUFFICES ASSUME SystemTypeOK, KeysAtRest, [Next]_vars PROVE KeysAtRest' /\ UNCHANGED keys
  OBVIOUS
<1>0. keys["proving.key"].there
  BY DEF KeysAtRest, IsPair, Written
<1>1. /\ \A t \in Tasks : pc[t] \notin SettingUp
      /\ pc \in [Tasks -> Steps]
  BY DEF KeysAtRest, SystemTypeOK
<1>2. UNCHANGED keys /\ (\A t \in Tasks : pc'[t] \notin SettingUp) => KeysAtRest' /\ UNCHANGED keys
  BY DEF KeysAtRest, IsPair
<1> SUFFICES UNCHANGED keys /\ \A t \in Tasks : pc'[t] \notin SettingUp
  BY <1>2
<1> USE DEF SettingUp, Pass, Goto, fields, loops, tasks, counters
<1>3. ASSUME NEW t \in Tasks, TaskStep(t)
      PROVE  UNCHANGED keys /\ \A u \in Tasks : pc'[u] \notin SettingUp
  <2>1. CASE AlreadyRunning(t) \/ Begin(t) \/ Bind(t) \/ Assign(t) \/ Launch(t)
    BY <1>1, <2>1 DEF AlreadyRunning, Begin, Bind, Assign, Launch
  <2>2. CASE Stat(t)
    BY <1>0, <1>1, <2>2 DEF Stat
  <2>3. CASE Create(t) \/ WriteHead(t) \/ WriteTail(t) \/ SetupError(t)
    BY <1>1, <2>3 DEF Create, WriteHead, WriteTail, SetupError
  <2> QED
    BY <1>3, <2>1, <2>2, <2>3 DEF TaskStep, StartStep
<1>4. ASSUME Die PROVE UNCHANGED keys /\ \A u \in Tasks : pc'[u] \notin SettingUp
  BY <1>4 DEF Die
<1>5. ASSUME NEW c \in Clients, ConnStep(c)
      PROVE  UNCHANGED keys /\ \A u \in Tasks : pc'[u] \notin SettingUp
  <2>1. CASE Stop(c)
    BY <1>1, <1>4, <2>1, TaskFacts DEF Stop, Panic
  <2>2. CASE CloseListener(c)
    BY <1>1, <1>4, <2>2, TaskFacts DEF CloseListener, Panic
  <2>3. CASE NothingToStop(c) \/ CheckListener(c) \/ Unlock(c) \/ Answer(c) \/ Connect(c)
               \/ ReadOther(c) \/ ReadStart(c) \/ ReadStop(c)
    BY <1>1, <2>3, TaskFacts
    DEF NothingToStop, CheckListener, Unlock, Answer, Connect, ReadOther, ReadStart, ReadStop
  <2> QED
    BY <1>5, <2>1, <2>2, <2>3 DEF ConnStep, StopStep
<1>6. ASSUME NEW n \in Sessions, LoopStep(n)
      PROVE  UNCHANGED keys /\ \A u \in Tasks : pc'[u] \notin SettingUp
  <2>1. CASE CallAccept(n)
    BY <1>1, <1>4, <2>1 DEF CallAccept, Panic
  <2>2. CASE \E c \in Clients : Accept(n, c)
    BY <1>1, <2>2, TaskFacts DEF Accept
  <2>3. CASE AcceptFails(n) \/ AfterError(n)
    BY <1>1, <2>3 DEF AcceptFails, AfterError
  <2> QED
    BY <1>6, <2>1, <2>2, <2>3 DEF LoopStep
<1>7. CASE HostStart
  BY <1>1, <1>7, TaskFacts DEF HostStart
<1>8. CASE WorldStep
  BY <1>1, <1>4, <1>8 DEF WorldStep, PortTaken, PortFreed, Crash
<1>9. CASE UNCHANGED vars
  BY <1>1, <1>9 DEF vars, system
<1> QED
  BY <1>3, <1>5, <1>6, <1>7, <1>8, <1>9, NextByActor

\* Keys at rest stay, however starts, stops, faults and crashes interleave.
THEOREM PairKeptHolds == Spec => PairKept
<1>1. TypeOK => SystemTypeOK
  BY DEF TypeOK
<1>2. SystemTypeOK /\ [Next]_vars => [KeysAtRest => KeysAtRest' /\ UNCHANGED keys]_vars
  BY RestStep
<1> QED
  BY <1>1, <1>2, TypeCorrect, PTL DEF Spec, PairKept

-----------------------------------------------------------------------------
(***************************************************************************)
(* The inductive invariant behind orderly use.                             *)
(***************************************************************************)

Busy(t)  == pc[t] \in Starting \union Stopping \union {"start"}
Locked   == {"check", "close", "clear"}
\* The start has its listener, as s.listener says.
Assigned == {"stat", "launch"} \union SettingUp

OneAtATime == \A t, u \in Tasks : Busy(t) /\ Busy(u) => t = u

LockHeld ==
  /\ pc[Host] \notin Stopping
  /\ mu # Free => ~isRunning
  /\ \A c \in Clients : pc[c] \in Locked <=> mu = c

PortInv ==
  port \in Sessions =>
    /\ port = stopChan
    /\ listener = port \/ \E t \in Tasks : pc[t] = "assign"
    /\ isRunning \/ \E c \in Clients : pc[c] \in {"check", "close"}

StartInv ==
  \A t \in Tasks :
    /\ pc[t] \in Starting => isRunning /\ session[t] = stopChan /\ session[t] # 0
    /\ pc[t] \in Assigned \union {"assign"} => port = session[t]
    /\ pc[t] \in Assigned => listener = session[t]
    /\ pc[t] \in {"bind", "assignNil"} => port \notin Sessions
    /\ pc[t] \in Starting \/ (pc[t] = "start" /\ ~isRunning) => NoLoop

LoopInv ==
  \A n \in Sessions : loop[n] # "none" =>
    listener = n /\ stopChan = n

CloseInv == \A c \in Clients : pc[c] = "close" => listener # 0

RunInv ==
  isRunning /\ listener # 0 /\ (\A t \in Tasks : pc[t] \notin Starting) =>
    port = listener /\ stopChan = listener /\ loop[listener] # "none"

RestInv == OneAtATime /\ LockHeld /\ PortInv /\ StartInv /\ LoopInv /\ CloseInv /\ RunInv /\ ~panicked

OrderlyInv == FreeInv /\ (orderly => RestInv)

\* Where the goroutines stand after one of them has moved.
LEMMA PcAfter ==
  ASSUME pc \in [Tasks -> Steps], NEW t \in Tasks, NEW step, Goto(t, step)
  PROVE  pc'[t] = step /\ \A u \in Tasks : u # t => pc'[u] = pc[u]
  BY DEF Goto

\* A goroutine that moves between steps outside of any start and stop, or
\* leaves one before it has begun, disturbs nothing.
LEMMA QuietMove ==
  ASSUME RestInv, NEW t \in Tasks,
         pc[t] \in {"away", "queued", "reading", "start", "answer", "sleep"},
         pc'[t] \in {"away", "queued", "reading", "answer"},
         \A u \in Tasks : u # t => pc'[u] = pc[u],
         UNCHANGED <<fields, port, loops, session, panicked>>
  PROVE  RestInv'
<1> USE TaskFacts DEF fields, loops
<1>1. OneAtATime'
  BY StepNames DEF RestInv, OneAtATime, Busy
<1>2. LockHeld'
  BY StepNames DEF RestInv, LockHeld, Locked
<1>3. PortInv'
  BY DEF RestInv, PortInv
<1>4. StartInv'
  BY StepNames DEF RestInv, StartInv, Assigned, SettingUp, NoLoop
<1>5. LoopInv' /\ CloseInv'
  BY DEF RestInv, LoopInv, CloseInv
<1>6. RunInv'
  BY StepNames DEF RestInv, RunInv
<1> QED
  BY <1>1, <1>2, <1>3, <1>4, <1>5, <1>6 DEF RestInv

\* A command that nobody else's command is in the way of disturbs nothing.
LEMMA EnterMove ==
  ASSUME RestInv, NoStart, NoStop, NEW t \in Tasks,
         (pc'[t] = "start" /\ (isRunning \/ NoLoop)) \/ (pc'[t] = "sleep" /\ t # Host),
         \A u \in Tasks : u # t => pc'[u] = pc[u],
         UNCHANGED <<fields, port, loops, session, panicked>>
  PROVE  RestInv'
<1> USE TaskFacts DEF fields, loops
<1>0. /\ \A u \in Tasks : pc[u] \notin Starting \union {"start"}
      /\ \A c \in Clients : pc[c] \notin Stopping
      /\ pc[Host] \notin Stopping
      /\ \A u \in Tasks : u \in Clients \/ u = Host
  BY DEF NoStart, NoStop, RestInv, LockHeld, Tasks
<1>1. OneAtATime'
  BY <1>0, StepNames DEF OneAtATime, Busy
<1>2. LockHeld'
  BY <1>0, StepNames DEF RestInv, LockHeld, Locked
<1>3. PortInv'
  BY <1>0, StepNames DEF RestInv, PortInv
<1>4. StartInv'
  BY <1>0, StepNames DEF RestInv, StartInv, Assigned, SettingUp, NoLoop
<1>5. LoopInv' /\ CloseInv'
  BY DEF RestInv, LoopInv, CloseInv
<1>6. RunInv'
  BY <1>0, StepNames DEF RestInv, RunInv
<1> QED
  BY <1>1, <1>2, <1>3, <1>4, <1>5, <1>6 DEF RestInv

\* Writing key files and looking for them disturbs nothing.
LEMMA SetupMove ==
  ASSUME RestInv, NEW t \in Tasks, pc[t] \in Assigned, pc'[t] \in Assigned,
         \A u \in Tasks : u # t => pc'[u] = pc[u],
         UNCHANGED <<fields, port, loops, session, panicked>>
  PROVE  RestInv'
<1> USE TaskFacts DEF fields, loops, Assigned, SettingUp
<1>1. OneAtATime'
  BY StepNames DEF RestInv, OneAtATime, Busy
<1>2. LockHeld'
  BY StepNames DEF RestInv, LockHeld, Locked
<1>3. PortInv'
  BY DEF RestInv, PortInv
<1>4. StartInv'
  BY StepNames DEF RestInv, StartInv, NoLoop
<1>5. LoopInv' /\ CloseInv'
  BY DEF RestInv, LoopInv, CloseInv
<1>6. RunInv'
  BY StepNames DEF RestInv, RunInv
<1> QED
  BY <1>1, <1>2, <1>3, <1>4, <1>5, <1>6 DEF RestInv

\* A start that begins finds no accept loop, and no listener has the port.
LEMMA BeginKeeps ==
  ASSUME SystemTypeOK, RestInv, NEW t \in Tasks, Begin(t)
  PROVE  RestInv'
<1> USE TaskFacts DEF fields, loops
<1>0. /\ pc[t] = "start" /\ ~isRunning /\ mu = Free /\ isRunning' = TRUE
      /\ stopChan' = starts + 1 /\ session'[t] = starts + 1 /\ starts + 1 # 0
      /\ pc'[t] = "bind" /\ \A u \in Tasks : u # t => pc'[u] = pc[u] /\ session'[u] = session[u]
      /\ UNCHANGED <<listener, mu, port, loops, panicked>>
  BY BoundsAssumption DEF Begin, SystemTypeOK, Goto, Numbers
<1>1. \A u \in Tasks : u # t => ~Busy(u)
  BY <1>0 DEF RestInv, OneAtATime, Busy
<1>2. NoLoop /\ port \notin Sessions
  <2>1. \A c \in Clients : pc[c] \notin {"check", "close"}
    BY <1>0, <1>1, StepNames DEF Busy
  <2> QED
    BY <1>0, <2>1, Zenon DEF RestInv, PortInv, StartInv
<1>3. OneAtATime'
  BY <1>0, <1>1, StepNames DEF OneAtATime, Busy
<1>4. LockHeld'
  BY <1>0, StepNames DEF RestInv, LockHeld, Locked
<1>5. PortInv'
  BY <1>0, <1>2 DEF PortInv
<1>6. StartInv'
  BY <1>0, <1>1, <1>2, StepNames DEF StartInv, Busy, Assigned, SettingUp, NoLoop
<1>7. LoopInv'
  BY <1>0, <1>2 DEF LoopInv, NoLoop
<1>8. CloseInv'
  BY <1>0, <1>1, StepNames DEF CloseInv, Busy
<1>9. RunInv'
  BY <1>0, StepNames DEF RunInv
<1> QED
  BY <1>0, <1>3, <1>4, <1>5, <1>6, <1>7, <1>8, <1>9 DEF RestInv

\* Listen takes the port for the start's own number, or fails.
LEMMA BindKeeps ==
  ASSUME SystemTypeOK, RestInv, NEW t \in Tasks, Bind(t)
  PROVE  RestInv'
<1> USE TaskFacts DEF fields, loops
<1>0. /\ pc[t] = "bind" /\ \A u \in Tasks : u # t => pc'[u] = pc[u]
      /\ UNCHANGED <<fields, loops, session, panicked>>
      /\ \/ port' = session[t] /\ pc'[t] = "assign"
         \/ port' = port /\ pc'[t] = "assignNil"
  BY DEF Bind, SystemTypeOK, Goto, Fault, counters
<1>1. /\ isRunning /\ session[t] = stopChan /\ port \notin Sessions /\ NoLoop
      /\ \A u \in Tasks : u # t => ~Busy(u)
  BY <1>0, StepNames DEF RestInv, StartInv, OneAtATime, Busy
<1>2. OneAtATime'
  BY <1>0, <1>1, StepNames DEF OneAtATime, Busy
<1>3. LockHeld'
  BY <1>0, StepNames DEF RestInv, LockHeld, Locked
<1>4. PortInv'
  BY <1>0, <1>1 DEF PortInv
<1>5. StartInv'
  BY <1>0, <1>1, StepNames DEF RestInv, StartInv, Busy, Assigned, SettingUp, NoLoop
<1>6. LoopInv' /\ CloseInv'
  BY <1>0, <1>1 DEF RestInv, LoopInv, CloseInv, NoLoop
<1>7. RunInv'
  BY <1>0, StepNames DEF RunInv
<1> QED
  BY <1>0, <1>2, <1>3, <1>4, <1>5, <1>6, <1>7 DEF RestInv

\* s.listener becomes the start's own listener, or nil.
LEMMA AssignKeeps ==
  ASSUME SystemTypeOK, RestInv, NEW t \in Tasks, Assign(t)
  PROVE  RestInv'
<1> USE TaskFacts DEF loops
<1>0. /\ \A u \in Tasks : u # t => pc'[u] = pc[u]
      /\ UNCHANGED <<isRunning, stopChan, mu, port, loops, session, panicked>>
      /\ \/ pc[t] = "assign" /\ listener' = session[t] /\ pc'[t] = "stat"
         \/ pc[t] = "assignNil" /\ listener' = 0 /\ pc'[t] \in {"away", "answer"}
  BY DEF Assign, SystemTypeOK, Goto, counters
<1>1. /\ isRunning /\ session[t] = stopChan /\ session[t] # 0 /\ NoLoop
      /\ pc[t] = "assign" => port = session[t]
      /\ pc[t] = "assignNil" => port \notin Sessions
      /\ \A u \in Tasks : u # t => ~Busy(u)
  BY <1>0, StepNames DEF RestInv, StartInv, OneAtATime, Busy
<1>2. OneAtATime'
  BY <1>0, <1>1, StepNames DEF OneAtATime, Busy
<1>3. LockHeld'
  BY <1>0, StepNames DEF RestInv, LockHeld, Locked
<1>4. PortInv'
  BY <1>0, <1>1 DEF PortInv
<1>5. StartInv'
  BY <1>0, <1>1, StepNames DEF RestInv, StartInv, Busy, Assigned, SettingUp, NoLoop
<1>6. LoopInv'
  BY <1>0, <1>1 DEF LoopInv, NoLoop
<1>7. CloseInv'
  BY <1>0, <1>1, StepNames DEF CloseInv, Busy
<1>8. RunInv'
  BY <1>0, StepNames DEF RunInv
<1> QED
  BY <1>0, <1>2, <1>3, <1>4, <1>5, <1>6, <1>7, <1>8 DEF RestInv

\* The one accept loop begins on the start's own listener.
LEMMA LaunchKeeps ==
  ASSUME SystemTypeOK, RestInv, NEW t \in Tasks, Launch(t)
  PROVE  RestInv'
<1> USE TaskFacts DEF fields
<1>0. /\ pc[t] = "launch" /\ pc'[t] \in {"away", "answer"}
      /\ \A u \in Tasks : u # t => pc'[u] = pc[u]
      /\ loop' = [loop EXCEPT ![session[t]] = "accept"]
      /\ UNCHANGED <<fields, port, session, panicked>>
  BY DEF Launch, SystemTypeOK, Goto, counters
<1>1. /\ isRunning /\ session[t] = stopChan /\ session[t] # 0 /\ NoLoop
      /\ port = session[t] /\ listener = session[t]
      /\ \A u \in Tasks : u # t => ~Busy(u)
  BY <1>0, StepNames DEF RestInv, StartInv, OneAtATime, Busy, Assigned
<1>2. /\ session[t] \in Sessions
      /\ loop'[session[t]] = "accept"
      /\ \A n \in Sessions : n # session[t] => loop'[n] = "none"
  BY <1>0, <1>1, BoundsAssumption DEF SystemTypeOK, NoLoop, Sessions, Numbers
<1>3. OneAtATime'
  BY <1>0, <1>1, StepNames DEF OneAtATime, Busy
<1>4. LockHeld'
  BY <1>0, StepNames DEF RestInv, LockHeld, Locked
<1>5. PortInv'
  BY <1>0, <1>1 DEF PortInv
<1>6. StartInv'
  BY <1>0, <1>1, StepNames DEF StartInv, Busy, Assigned, SettingUp
<1>7. LoopInv'
  BY <1>0, <1>1, <1>2 DEF LoopInv
<1>8. CloseInv'
  BY <1>0, <1>1, StepNames DEF CloseInv, Busy
<1>9. RunInv'
  BY <1>0, <1>1, <1>2 DEF RunInv
<1> QED
  BY <1>0, <1>3, <1>4, <1>5, <1>6, <1>7, <1>8, <1>9 DEF RestInv

\* StopService takes the mutex; the stop channel was open, so nothing panics.
LEMMA StopKeeps ==
  ASSUME FreeInv, RestInv, NEW c \in Clients, Stop(c)
  PROVE  RestInv'
<1> USE TaskFacts DEF loops
<1>0. isRunning /\ stopChan \notin closed
  <2>1. isRunning
    BY Zenon DEF Stop
  <2> QED
    BY <2>1, Zenon DEF FreeInv, ChanInv
<1>1. /\ pc[c] = "sleep" /\ pc'[c] = "check" /\ mu = Free /\ mu' = c /\ isRunning' = FALSE
      /\ \A u \in Tasks : u # c => pc'[u] = pc[u]
      /\ UNCHANGED <<stopChan, listener, port, loops, session, panicked>>
  BY <1>0 DEF Stop, FreeInv, SystemTypeOK, Goto, counters
<1>2. \A u \in Tasks : u # c => ~Busy(u)
  BY <1>1, StepNames DEF RestInv, OneAtATime, Busy
<1>3. OneAtATime'
  BY <1>1, <1>2, StepNames DEF OneAtATime, Busy
<1>4. LockHeld'
  BY <1>1, <1>2, StepNames, TasksAssumption DEF RestInv, LockHeld, Locked, Busy
<1>5. PortInv'
  BY <1>1 DEF RestInv, PortInv
<1>6. StartInv'
  BY <1>1, <1>2, StepNames DEF StartInv, Busy, Assigned, SettingUp
<1>7. LoopInv' /\ CloseInv'
  BY <1>1, <1>2, StepNames DEF RestInv, LoopInv, CloseInv, Busy
<1>8. RunInv'
  BY <1>1 DEF RunInv
<1> QED
  BY <1>1, <1>3, <1>4, <1>5, <1>6, <1>7, <1>8 DEF RestInv

\* While a stop holds the mutex, no start can take the listener away.
LEMMA CheckKeeps ==
  ASSUME SystemTypeOK, RestInv, NEW c \in Clients, CheckListener(c)
  PROVE  RestInv'
<1> USE TaskFacts DEF fields, loops
<1>1. /\ pc[c] = "check" /\ \A u \in Tasks : u # c => pc'[u] = pc[u]
      /\ pc'[c] = IF listener # 0 THEN "close" ELSE "clear"
      /\ UNCHANGED <<fields, port, loops, session, panicked>>
  BY DEF CheckListener, Pass, SystemTypeOK, Goto, counters
<1>2. \A u \in Tasks : u # c => ~Busy(u)
  BY <1>1, StepNames DEF RestInv, OneAtATime, Busy
<1>3. OneAtATime'
  BY <1>1, <1>2, StepNames DEF OneAtATime, Busy
<1>4. LockHeld'
  BY <1>1, StepNames DEF RestInv, LockHeld, Locked
<1>5. PortInv'
  <2>1. port \in Sessions => port = stopChan /\ listener = port /\ port # 0
    BY <1>1, <1>2, StepNames DEF RestInv, PortInv, Busy, Sessions
  <2> QED
    BY <1>1, <2>1 DEF PortInv
<1>6. StartInv'
  BY <1>1, <1>2, StepNames DEF StartInv, Busy, Assigned, SettingUp
<1>7. LoopInv' /\ CloseInv'
  BY <1>1, <1>2, StepNames DEF RestInv, LoopInv, CloseInv, Busy
<1>8. RunInv'
  BY <1>1, <1>2, StepNames DEF RestInv, RunInv, Busy
<1> QED
  BY <1>1, <1>3, <1>4, <1>5, <1>6, <1>7, <1>8 DEF RestInv

\* Closing the listener gives the port back.
LEMMA CloseKeeps ==
  ASSUME SystemTypeOK, RestInv, NEW c \in Clients, CloseListener(c)
  PROVE  RestInv'
<1> USE TaskFacts DEF fields, loops
<1>0. pc[c] = "close" /\ listener # 0 /\ c \in Tasks
  BY DEF CloseListener, RestInv, CloseInv
<1>1. /\ pc'[c] = "clear"
      /\ \A u \in Tasks : u # c => pc'[u] = pc[u] \/ (pc[u] = "queued" /\ pc'[u] = "away")
      /\ port' = IF port = listener THEN 0 ELSE port
      /\ UNCHANGED <<fields, loops, session, panicked>>
  BY <1>0 DEF CloseListener, counters
<1>2. \A u \in Tasks : u # c => ~Busy(u)
  BY <1>0, StepNames DEF RestInv, OneAtATime, Busy
<1>3. mu = c /\ c # Free
  BY <1>0, StepNames, TasksAssumption DEF RestInv, LockHeld, Locked
<1>4. ~isRunning
  BY <1>3, Zenon DEF RestInv, LockHeld
<1>5. OneAtATime'
  BY <1>1, <1>2, StepNames DEF OneAtATime, Busy
<1>6. LockHeld'
  BY <1>0, <1>1, StepNames DEF RestInv, LockHeld, Locked
<1>7. port' \notin Sessions
  <2>1. \A u \in Tasks : pc[u] # "assign"
    BY <1>0, <1>2, StepNames DEF Busy
  <2>2. port \in Sessions => port = listener
    BY <2>1 DEF RestInv, PortInv
  <2> QED
    BY <1>1, <2>2 DEF Sessions
<1>8. StartInv'
  BY <1>1, <1>2, StepNames DEF StartInv, Busy, Assigned, SettingUp
<1>9. LoopInv' /\ CloseInv'
  BY <1>0, <1>1, <1>2, StepNames DEF RestInv, LoopInv, CloseInv, Busy
<1>10. PortInv' /\ RunInv'
  <2>1. PortInv'
    BY <1>7, Zenon DEF PortInv
  <2>2. RunInv'
    BY <1>1, <1>4, Zenon DEF RunInv
  <2> QED
    BY <2>1, <2>2
<1>11. ~panicked'
  BY <1>1, Zenon DEF RestInv
<1> QED
  BY <1>5, <1>6, <1>8, <1>9, <1>10, <1>11, Zenon DEF RestInv

\* The mutex is given back with the port free.
LEMMA UnlockKeeps ==
  ASSUME SystemTypeOK, RestInv, NEW c \in Clients, Unlock(c)
  PROVE  RestInv'
<1> USE TaskFacts DEF loops
<1>1. /\ pc[c] = "clear" /\ pc'[c] = "away" /\ mu' = Free
      /\ \A u \in Tasks : u # c => pc'[u] = pc[u]
      /\ UNCHANGED <<isRunning, stopChan, listener, port, loops, session, panicked>>
  BY DEF Unlock, SystemTypeOK, Goto, counters
<1>2. \A u \in Tasks : u # c => ~Busy(u)
  BY <1>1, StepNames DEF RestInv, OneAtATime, Busy
<1>3. OneAtATime'
  BY <1>1, <1>2, StepNames DEF OneAtATime, Busy
<1>4. LockHeld'
  BY <1>1, <1>2, StepNames, TasksAssumption DEF RestInv, LockHeld, Locked, Busy, Tasks
<1>5. PortInv'
  BY <1>1 DEF RestInv, PortInv
<1>6. StartInv'
  BY <1>1, <1>2, StepNames DEF StartInv, Busy, Assigned, SettingUp
<1>7. LoopInv' /\ CloseInv'
  BY <1>1, <1>2, StepNames DEF RestInv, LoopInv, CloseInv, Busy
<1>8. RunInv'
  BY <1>1, <1>2, StepNames DEF RestInv, RunInv, Busy
<1> QED
  BY <1>1, <1>3, <1>4, <1>5, <1>6, <1>7, <1>8 DEF RestInv

\* The one accept loop calls Accept on a listener that is there, and ends
\* only when the service has been stopped.
LEMMA LoopKeeps ==
  ASSUME FreeInv, RestInv, NEW n \in Sessions, LoopStep(n)
  PROVE  RestInv'
<1> USE TaskFacts DEF fields
<1>0. loop[n] # "none" /\ loop \in [Sessions -> {"none", "accept", "blocked", "failed"}]
      /\ pc \in [Tasks -> Steps] /\ n # 0
  BY BoundsAssumption DEF LoopStep, CallAccept, Accept, AcceptFails, AfterError, FreeInv, SystemTypeOK, Sessions
<1>1. listener = n /\ stopChan = n
  BY <1>0 DEF RestInv, LoopInv
<1>2. CASE CallAccept(n) \/ AcceptFails(n)
  <2>1. /\ loop'[n] # "none" /\ \A m \in Sessions : m # n => loop'[m] = loop[m]
        /\ UNCHANGED <<fields, port, pc, session, panicked>>
    BY <1>0, <1>1, <1>2 DEF CallAccept, AcceptFails, Fault, counters, tasks
  <2>2. \A m \in Sessions : loop'[m] = "none" <=> loop[m] = "none"
    BY <1>0, <2>1
  <2> QED
    BY <1>1, <2>1, <2>2 DEF RestInv, OneAtATime, Busy, LockHeld, PortInv, StartInv, NoLoop,
                            LoopInv, CloseInv, RunInv
<1>3. ASSUME NEW c \in Clients, Accept(n, c)
      PROVE  RestInv'
  <2>1. /\ pc[c] = "queued" /\ pc'[c] = "reading" /\ \A u \in Tasks : u # c => pc'[u] = pc[u]
        /\ loop'[n] # "none" /\ \A m \in Sessions : m # n => loop'[m] = loop[m]
        /\ UNCHANGED <<fields, port, session, panicked>>
    BY <1>0, <1>3 DEF Accept, counters, Goto
  <2>2. \A m \in Sessions : loop'[m] = "none" <=> loop[m] = "none"
    BY <1>0, <2>1
  <2>3. OneAtATime' /\ LockHeld' /\ PortInv'
    BY <2>1, StepNames DEF RestInv, OneAtATime, Busy, LockHeld, Locked, PortInv
  <2>4. StartInv'
    BY <2>1, <2>2, StepNames DEF RestInv, StartInv, Assigned, SettingUp, NoLoop
  <2>5. LoopInv' /\ CloseInv'
    BY <2>1, <2>2 DEF RestInv, LoopInv, CloseInv
  <2>6. RunInv'
    BY <1>1, <2>1, <2>2, StepNames DEF RestInv, RunInv
  <2> QED
    BY <2>1, <2>3, <2>4, <2>5, <2>6 DEF RestInv
<1>4. CASE AfterError(n)
  <2>1. isRunning => stopChan \notin closed
    BY Zenon DEF FreeInv, ChanInv
  <2>2. /\ \A m \in Sessions : loop'[m] # "none" => loop[m] # "none"
        /\ isRunning => loop'[n] # "none"
        /\ UNCHANGED <<fields, port, pc, session, panicked>>
    BY <1>0, <1>4, <2>1 DEF AfterError, counters, tasks
  <2>3. OneAtATime' /\ LockHeld' /\ PortInv' /\ CloseInv' /\ LoopInv'
    BY <2>2 DEF RestInv, OneAtATime, Busy, LockHeld, PortInv, CloseInv, LoopInv
  <2>4. StartInv'
    BY <2>2 DEF RestInv, StartInv, NoLoop
  <2>5. RunInv'
    BY <1>1, <2>2 DEF RestInv, RunInv
  <2> QED
    BY <2>2, <2>3, <2>4, <2>5 DEF RestInv
<1> QED
  BY <1>2, <1>3, <1>4 DEF LoopStep

\* The port may come and go while nobody of this program has it; after a
\* crash nothing is left.
LEMMA WorldKeeps ==
  ASSUME SystemTypeOK, RestInv, WorldStep
  PROVE  RestInv'
<1> USE TaskFacts DEF fields, loops
<1>1. CASE PortTaken \/ PortFreed
  <2>1. port \notin Sessions /\ port' \notin Sessions
    BY <1>1, BoundsAssumption DEF PortTaken, PortFreed, Sessions, Foreign
  <2>2. UNCHANGED <<fields, loops, pc, session, panicked>>
    BY <1>1 DEF PortTaken, PortFreed, Fault, tasks, counters
  <2>3. \A t \in Tasks : pc[t] \notin Assigned \union {"assign"}
    <3>1. SUFFICES ASSUME NEW t \in Tasks, pc[t] \in Assigned \union {"assign"}
                   PROVE  FALSE
      OBVIOUS
    <3>2. pc[t] \in Starting
      BY <3>1, StepNames DEF Assigned, SettingUp
    <3>3. port = session[t] /\ session[t] # 0 /\ session[t] \in Numbers
      BY <3>1, <3>2 DEF RestInv, StartInv, SystemTypeOK
    <3> QED
      BY <2>1, <3>3, BoundsAssumption DEF Sessions, Numbers
  <2>4. isRunning /\ listener # 0 => ~\A t \in Tasks : pc[t] \notin Starting
    <3>1. SUFFICES ASSUME isRunning, listener # 0, \A t \in Tasks : pc[t] \notin Starting
                   PROVE  FALSE
      BY Zenon
    <3>2. port = listener
      BY <3>1, Zenon DEF RestInv, RunInv
    <3> QED
      BY <2>1, <3>1, <3>2, BoundsAssumption DEF SystemTypeOK, Numbers, Sessions
  <2>5. OneAtATime' /\ LockHeld' /\ LoopInv' /\ CloseInv' /\ ~panicked'
    BY <2>2 DEF RestInv, OneAtATime, Busy, LockHeld, LoopInv, CloseInv
  <2>6. PortInv' /\ RunInv'
    BY <2>1, <2>2, <2>4 DEF PortInv, RunInv
  <2>7. StartInv'
    BY <2>1, <2>2, <2>3 DEF RestInv, StartInv, NoLoop
  <2> QED
    BY <2>5, <2>6, <2>7 DEF RestInv
<1>2. CASE Crash
  <2>1. /\ isRunning' = FALSE /\ mu' = Free /\ port' \notin Sessions
        /\ \A t \in Tasks : pc'[t] = "away"
        /\ \A n \in Sessions : loop'[n] = "none"
        /\ panicked' = panicked
    BY <1>2, BoundsAssumption DEF Crash, Die, Sessions, Foreign
  <2>2. OneAtATime' /\ LockHeld'
    BY <2>1, StepNames, TasksAssumption DEF OneAtATime, Busy, LockHeld, Locked
  <2>3. PortInv' /\ LoopInv' /\ CloseInv'
    BY <2>1 DEF PortInv, LoopInv, CloseInv
  <2>4. StartInv'
    BY <2>1, StepNames DEF StartInv, Assigned, SettingUp
  <2>5. RunInv' /\ ~panicked'
    BY <2>1, Zenon DEF RunInv, RestInv
  <2> QED
    BY <2>2, <2>3, <2>4, <2>5 DEF RestInv
<1> QED
  BY <1>1, <1>2 DEF WorldStep

\* A step of a start.
LEMMA StartStepKeeps ==
  ASSUME SystemTypeOK, RestInv, NEW t \in Tasks, StartStep(t) \/ SetupError(t)
  PROVE  RestInv'
<1>1. pc \in [Tasks -> Steps]
  BY DEF SystemTypeOK
<1>2. CASE AlreadyRunning(t)
  BY <1>1, <1>2, PcAfter, QuietMove DEF AlreadyRunning, Pass, counters
<1>3. CASE Begin(t) \/ Bind(t) \/ Assign(t) \/ Launch(t)
  BY <1>3, BeginKeeps, BindKeeps, AssignKeeps, LaunchKeeps
<1>4. CASE Stat(t) \/ Create(t) \/ WriteHead(t) \/ WriteTail(t) \/ SetupError(t)
  <2>1. pc[t] \in Assigned /\ UNCHANGED <<fields, port, loops, session, panicked>>
    BY <1>4 DEF Stat, Create, WriteHead, WriteTail, SetupError, Fault, counters, Assigned, SettingUp
  <2>2. \E step \in Assigned : Goto(t, step)
    BY <1>4 DEF Stat, Create, WriteHead, WriteTail, SetupError, Assigned, SettingUp
  <2> QED
    BY <1>1, <2>1, <2>2, PcAfter, SetupMove
<1> QED
  BY <1>2, <1>3, <1>4 DEF StartStep

\* A step of a connection that is no new command, or of the stop behind it.
LEMMA StopStepKeeps ==
  ASSUME FreeInv, RestInv, NEW c \in Clients,
         StopStep(c) \/ Answer(c) \/ Connect(c) \/ ReadOther(c)
  PROVE  RestInv'
<1>1. SystemTypeOK /\ c \in Tasks /\ pc \in [Tasks -> Steps]
  BY TaskFacts DEF FreeInv, SystemTypeOK
<1>2. CASE Stop(c) \/ CheckListener(c) \/ CloseListener(c) \/ Unlock(c)
  BY <1>1, <1>2, StopKeeps, CheckKeeps, CloseKeeps, UnlockKeeps
<1>3. CASE NothingToStop(c) \/ Answer(c) \/ Connect(c) \/ ReadOther(c)
  <2>1. /\ pc[c] \in {"sleep", "answer", "away", "reading"}
        /\ \E step \in {"away", "queued"} : Goto(c, step)
        /\ UNCHANGED <<fields, port, loops, session, panicked>>
    BY <1>3 DEF NothingToStop, Answer, Connect, ReadOther, Pass, counters
  <2> QED
    BY <1>1, <2>1, PcAfter, QuietMove
<1> QED
  BY <1>2, <1>3 DEF StopStep

\* A new command that is given in order.
LEMMA CommandKeeps ==
  ASSUME SystemTypeOK, RestInv,
         \/ MayStart /\ HostStart
         \/ \E c \in Clients : (MayStart /\ ReadStart(c)) \/ (MayStop /\ ReadStop(c))
  PROVE  RestInv'
<1>1. pc \in [Tasks -> Steps]
  BY DEF SystemTypeOK
<1>2. CASE MayStart /\ HostStart
  BY <1>1, <1>2, PcAfter, EnterMove, TaskFacts DEF MayStart, HostStart, Pass, counters
<1>3. ASSUME NEW c \in Clients, MayStart, ReadStart(c)
      PROVE  RestInv'
  BY <1>1, <1>3, PcAfter, EnterMove, TaskFacts DEF MayStart, ReadStart, Pass, counters
<1>4. ASSUME NEW c \in Clients, MayStop, ReadStop(c)
      PROVE  RestInv'
  BY <1>1, <1>4, PcAfter, EnterMove, TaskFacts DEF MayStop, ReadStop, Pass, counters
<1> QED
  BY <1>2, <1>3, <1>4

\* A step after which commands are still orderly keeps the service in order.
LEMMA OrderlyStep == OrderlyInv /\ [Next]_vars => OrderlyInv'
<1> SUFFICES ASSUME OrderlyInv, [Next]_vars
             PROVE  OrderlyInv'
  OBVIOUS
<1>1. FreeInv /\ SystemTypeOK
  BY DEF OrderlyInv, FreeInv
<1>2. FreeInv'
  BY <1>1, TypeStep, ChanStep DEF FreeInv
<1>3. ASSUME orderly'
      PROVE  RestInv'
  <2>1. orderly
    BY <1>3, Zenon DEF Next, vars
  <2>2. RestInv
    BY <2>1, Zenon DEF OrderlyInv
  <2>3. ASSUME NEW t \in Tasks, StartStep(t) \/ SetupError(t)
        PROVE  RestInv'
    BY <1>1, <2>2, <2>3, StartStepKeeps
  <2>4. ASSUME NEW c \in Clients, StopStep(c) \/ Answer(c) \/ Connect(c) \/ ReadOther(c)
        PROVE  RestInv'
    BY <1>1, <2>2, <2>4, StopStepKeeps
  <2>5. ASSUME NEW n \in Sessions, LoopStep(n)
        PROVE  RestInv'
    BY <1>1, <2>2, <2>5, LoopKeeps
  <2>6. CASE PortTaken \/ PortFreed \/ Crash
    BY <1>1, <2>2, <2>6, WorldKeeps DEF WorldStep
  <2>7. CASE Proceed
    BY <2>3, <2>4, <2>5, <2>6, <2>7 DEF Proceed
  <2>8. CASE \/ MayStart /\ HostStart
             \/ \E c \in Clients : (MayStart /\ ReadStart(c)) \/ (MayStop /\ ReadStop(c))
    BY <1>1, <2>2, <2>8, CommandKeeps
  <2>9. CASE UNCHANGED vars
    BY <2>2, <2>9 DEF vars, system, fields, loops, tasks, counters, RestInv, OneAtATime, Busy,
                      LockHeld, PortInv, StartInv, NoLoop, LoopInv, CloseInv, RunInv
  <2>10. CASE \E c \in Clients : ReadStart(c) /\ orderly' = (orderly /\ MayStart)
    BY <1>3, <2>8, <2>10, Zenon
  <2>11. CASE \E c \in Clients : ReadStop(c) /\ orderly' = (orderly /\ MayStop)
    BY <1>3, <2>8, <2>11, Zenon
  <2>12. CASE HostStart /\ orderly' = (orderly /\ MayStart)
    BY <1>3, <2>8, <2>12, Zenon
  <2> QED
    BY <2>7, <2>9, <2>10, <2>11, <2>12, Zenon DEF Next
<1> QED
  BY <1>2, <1>3 DEF OrderlyInv

\* A program that has just begun is in order.
LEMMA OrderlyInit == Init => OrderlyInv
<1> SUFFICES ASSUME Init
             PROVE  OrderlyInv
  OBVIOUS
<1>1. FreeInv
  BY TypeInit, Zenon DEF Init, FreeInv, ChanInv
<1>2. /\ isRunning = FALSE /\ mu = Free /\ port = 0 /\ panicked = FALSE
      /\ \A t \in Tasks : pc[t] = "away"
      /\ \A n \in Sessions : loop[n] = "none"
  BY DEF Init
<1>3. OneAtATime /\ LockHeld
  BY <1>2, StepNames, TaskFacts, TasksAssumption DEF OneAtATime, Busy, LockHeld, Locked
<1>4. PortInv /\ LoopInv /\ CloseInv
  BY <1>2, TaskFacts DEF PortInv, LoopInv, CloseInv, Sessions
<1>5. StartInv
  BY <1>2, StepNames DEF StartInv, Assigned, SettingUp
<1>6. RunInv /\ ~panicked
  BY <1>2, Zenon DEF RunInv
<1> QED
  BY <1>1, <1>3, <1>4, <1>5, <1>6 DEF OrderlyInv, RestInv

\* FreeInv holds in every behaviour, RestInv for as long as the commands come
\* one after the other.
THEOREM OrderlyInvariant == Spec => []OrderlyInv
<1> QED
  BY OrderlyInit, OrderlyStep, PTL DEF Spec

\* Used in order, the service never panics.
THEOREM OrderlyNoPanic == Spec => []NoPanic
<1>1. OrderlyInv => NoPanic
  BY Zenon DEF OrderlyInv, RestInv, NoPanic
<1> QED
  BY <1>1, OrderlyInvariant, PTL

\* Used in order, a stopped service holds no port, whatever failed meanwhile.
THEOREM OrderlyStoppedIsDeaf == Spec => []StoppedIsDeaf
<1>1. OrderlyInv => StoppedIsDeaf
  <2> SUFFICES ASSUME RestInv, ~isRunning, mu = Free, port \in Sessions
               PROVE  FALSE
    BY Zenon DEF OrderlyInv, StoppedIsDeaf, DeafWhenStopped
  <2>1. PICK c \in Clients : pc[c] \in {"check", "close"}
    BY Zenon DEF RestInv, PortInv
  <2>2. mu = c
    BY <2>1 DEF RestInv, LockHeld, Locked
  <2> QED
    BY <2>2, TasksAssumption DEF Tasks
<1> QED
  BY <1>1, OrderlyInvariant, PTL

\* Used in order, a service that runs with a listener has the port and one
\* accept loop, which serves that listener and will see the next stop.
THEOREM OrderlyOnline == Spec => []OnlineWhenListening
<1>1. OrderlyInv => OnlineWhenListening
  <2> SUFFICES ASSUME RestInv, SystemTypeOK, isRunning, NoStart, listener # 0
               PROVE  /\ port = listener /\ stopChan = listener
                      /\ \A n \in Sessions : loop[n] # "none" <=> n = listener
    BY Zenon DEF OrderlyInv, FreeInv, OnlineWhenListening
  <2>1. port = listener /\ stopChan = listener /\ loop[listener] # "none"
    BY Zenon DEF RestInv, RunInv, NoStart
  <2> QED
    BY <2>1 DEF RestInv, LoopInv
<1> QED
  BY <1>1, OrderlyInvariant, PTL

-----------------------------------------------------------------------------
(***************************************************************************)
(* The keys on disk come from one setup.                                   *)
(***************************************************************************)

Blank == keys["proving.key"] = Absent /\ keys["verifying.key"] = Absent

\* Whatever there is of the two keys is of setup n.
OfSetup(n) ==
  \A f \in {"proving.key", "verifying.key"} : keys[f].head \in {0, n} /\ keys[f].tail \in {0, n}

\* A start that sets up found no key, and no other start writes meanwhile.
OwnSetup(t) ==
  /\ OfSetup(session[t])
  /\ at[t] # "verifying.key" => keys["verifying.key"] = Absent
  /\ at[t] = "verifying.key" \/ (at[t] = "proving.key" /\ pc[t] # "create")
       => keys["proving.key"].there

KeysInv ==
  /\ keys["proving.key"].there \/ Blank
  /\ \A t \in Tasks : pc[t] \in SettingUp => OwnSetup(t)
  /\ \E n \in Part : OfSetup(n)

OrderlyKeysInv == OrderlyInv /\ (orderly => KeysInv)

\* A step that writes no key and begins no set-up.
KeysQuiet ==
  /\ UNCHANGED keys
  /\ \A t \in Tasks : pc'[t] \in SettingUp =>
       pc'[t] = pc[t] /\ session'[t] = session[t] /\ at'[t] = at[t]

\* Such a step leaves the keys of one setup.
LEMMA QuietKeys == KeysInv /\ KeysQuiet => KeysInv'
<1> SUFFICES ASSUME KeysInv, KeysQuiet PROVE KeysInv'
  OBVIOUS
<1>1. keys' = keys
  BY DEF KeysQuiet
<1>2. ASSUME NEW t \in Tasks, pc'[t] \in SettingUp PROVE OwnSetup(t)'
  BY <1>1, <1>2 DEF KeysInv, KeysQuiet, OwnSetup, OfSetup
<1> QED
  BY <1>1, <1>2 DEF KeysInv, Blank, OfSetup

\* The steps of a start that look at the keys or write them.
KeyStep(t) == Stat(t) \/ Create(t) \/ WriteHead(t) \/ WriteTail(t)

\* Every other step is quiet.
LEMMA OtherStepsQuiet ==
  ASSUME SystemTypeOK, Next, \A t \in Tasks : ~KeyStep(t)
  PROVE  KeysQuiet
<1>0. pc \in [Tasks -> Steps] /\ session \in [Tasks -> Numbers] /\ at \in [Tasks -> Files]
  BY DEF SystemTypeOK
<1> USE DEF KeysQuiet, SettingUp, Pass, Goto, fields, loops, tasks, counters
<1>1. ASSUME NEW t \in Tasks, TaskStep(t) PROVE KeysQuiet
  BY <1>0, <1>1
  DEF TaskStep, StartStep, KeyStep, AlreadyRunning, Begin, Bind, Assign, Launch, SetupError
<1>2. ASSUME Die PROVE KeysQuiet
  BY <1>2 DEF Die
<1>3. ASSUME NEW c \in Clients, ConnStep(c) PROVE KeysQuiet
  <2>1. CASE Stop(c)
    BY <1>0, <1>2, <2>1, TaskFacts DEF Stop, Panic
  <2>2. CASE CloseListener(c)
    BY <1>0, <1>2, <2>2, TaskFacts DEF CloseListener, Panic
  <2>3. CASE NothingToStop(c) \/ CheckListener(c) \/ Unlock(c) \/ Answer(c) \/ Connect(c)
               \/ ReadOther(c) \/ ReadStart(c) \/ ReadStop(c)
    BY <1>0, <2>3, TaskFacts
    DEF NothingToStop, CheckListener, Unlock, Answer, Connect, ReadOther, ReadStart, ReadStop
  <2> QED
    BY <1>3, <2>1, <2>2, <2>3 DEF ConnStep, StopStep
<1>4. ASSUME NEW n \in Sessions, LoopStep(n) PROVE KeysQuiet
  <2>1. CASE CallAccept(n)
    BY <1>0, <1>2, <2>1 DEF CallAccept, Panic
  <2>2. CASE \E c \in Clients : Accept(n, c)
    BY <1>0, <2>2, TaskFacts DEF Accept
  <2>3. CASE AcceptFails(n) \/ AfterError(n)
    BY <1>0, <2>3 DEF AcceptFails, AfterError
  <2> QED
    BY <1>4, <2>1, <2>2, <2>3 DEF LoopStep
<1>5. CASE HostStart
  BY <1>0, <1>5, TaskFacts DEF HostStart
<1>6. CASE WorldStep
  BY <1>0, <1>2, <1>6 DEF WorldStep, PortTaken, PortFreed, Crash
<1> QED
  BY <1>1, <1>3, <1>4, <1>5, <1>6, NextByActor

\* A set-up is begun with neither key there, by one start at a time, and
\* writes the proving key before the verifying key.
LEMMA KeyStepKeeps ==
  ASSUME SystemTypeOK, OneAtATime, KeysInv, NEW t \in Tasks, KeyStep(t)
  PROVE  KeysInv'
<1>0. /\ pc \in [Tasks -> Steps] /\ at \in [Tasks -> Files] /\ session[t] \in Part
      /\ keys \in [Files -> [there : BOOLEAN, head : Part, tail : Part]]
      /\ at[t] \in Files
  BY DEF SystemTypeOK, Part
<1>1. pc[t] \in Starting /\ session' = session
  BY StepNames DEF KeyStep, Stat, Create, WriteHead, WriteTail
<1>2. \A u \in Tasks : u # t => pc'[u] = pc[u] /\ pc[u] \notin SettingUp
  <2>1. \A u \in Tasks : u # t => pc'[u] = pc[u]
    BY <1>0 DEF KeyStep, Stat, Create, WriteHead, WriteTail, Goto
  <2>2. \A u \in Tasks : pc[u] \in SettingUp => Busy(u)
    BY DEF Busy, Starting
  <2> QED
    BY <1>1, <2>1, <2>2 DEF OneAtATime, Busy
<1>3. SUFFICES /\ keys'["proving.key"].there \/ Blank'
               /\ pc'[t] \in SettingUp => OwnSetup(t)'
               /\ \E n \in Part : OfSetup(n)'
  BY <1>2, Zenon DEF KeysInv
<1>4. ASSUME OfSetup(session[t])' PROVE \E n \in Part : OfSetup(n)'
  BY <1>0, <1>1, <1>4 DEF OfSetup
<1> USE DEF Goto, SettingUp, Files, Absent, Written
<1>5. CASE Stat(t) /\ pc'[t] \in SettingUp
  <2>1. ~keys["proving.key"].there /\ at'[t] = "circuit.r1cs" /\ keys' = keys
    BY <1>0, <1>5 DEF Stat, counters
  <2>2. Blank
    BY <2>1 DEF KeysInv
  <2>3. pc'[t] = "create"
    BY <1>0, <1>5 DEF Stat
  <2> QED
    BY <1>1, <1>4, <2>1, <2>2, <2>3 DEF Blank, OwnSetup, OfSetup
<1>6. CASE Stat(t) /\ pc'[t] \notin SettingUp
  BY <1>6 DEF Stat, KeysInv, Blank, OfSetup
<1>7. CASE Create(t) \/ WriteHead(t) \/ WriteTail(t)
  <2>1. pc[t] \in SettingUp /\ OwnSetup(t)
    BY <1>7 DEF Create, WriteHead, WriteTail, KeysInv
  <2>2. OfSetup(session[t])'
    BY <1>0, <1>1, <1>7, <2>1 DEF Create, WriteHead, WriteTail, OwnSetup, OfSetup
  <2>3. keys'["proving.key"].there \/ Blank'
    <3>1. CASE at[t] = "circuit.r1cs"
      BY <1>0, <1>7, <3>1 DEF Create, WriteHead, WriteTail, KeysInv, Blank
    <3>2. CASE at[t] # "circuit.r1cs"
      BY <1>0, <1>7, <2>1, <3>2 DEF Create, WriteHead, WriteTail, OwnSetup
    <3> QED
      BY <3>1, <3>2
  <2>4. pc'[t] \in SettingUp => OwnSetup(t)'
    <3>1. CASE Create(t)
      BY <1>0, <2>1, <2>2, <3>1 DEF Create, OwnSetup
    <3>2. CASE WriteHead(t)
      BY <1>0, <2>1, <2>2, <3>2 DEF WriteHead, OwnSetup
    <3>3. CASE WriteTail(t)
      BY <1>0, <2>1, <2>2, <3>3 DEF WriteTail, OwnSetup, Follows
    <3> QED
      BY <1>7, <3>1, <3>2, <3>3
  <2> QED
    BY <1>4, <2>2, <2>3, <2>4
<1> QED
  BY <1>5, <1>6, <1>7 DEF KeyStep

\* With orderly commands all that is on disk of the two keys is of one setup,
\* wherever a set-up breaks off.
THEOREM OrderlyKeysOfOneSetup == Spec => []KeysOfOneSetup
<1>1. Init => OrderlyKeysInv
  <2> SUFFICES ASSUME Init PROVE KeysInv
    BY OrderlyInit DEF OrderlyKeysInv
  <2>1. \A f \in Files : keys[f] = IF KeysAtFirst THEN Written(Earlier, Earlier) ELSE Absent
    BY DEF Init, AllFiles
  <2>2. \A t \in Tasks : pc[t] \notin SettingUp
    BY DEF Init, SettingUp
  <2>3. Earlier \in Part
    BY DEF Part
  <2>4. keys["proving.key"].there \/ Blank
    BY <2>1 DEF Blank, Files, Written
  <2>5. OfSetup(Earlier)
    BY <2>1 DEF OfSetup, Files, Written, Absent
  <2> QED
    BY <2>2, <2>3, <2>4, <2>5 DEF KeysInv
<1>2. OrderlyKeysInv /\ [Next]_vars => OrderlyKeysInv'
  <2> SUFFICES ASSUME OrderlyKeysInv, [Next]_vars, orderly' PROVE KeysInv'
    BY OrderlyStep DEF OrderlyKeysInv
  <2>1. SystemTypeOK /\ orderly
    BY Zenon DEF OrderlyKeysInv, OrderlyInv, FreeInv, Next, vars
  <2>2. OneAtATime /\ KeysInv
    BY <2>1 DEF OrderlyKeysInv, OrderlyInv, RestInv
  <2>3. CASE UNCHANGED vars
    BY <2>2, <2>3, QuietKeys DEF vars, system, tasks, KeysQuiet
  <2>4. CASE Next /\ \A t \in Tasks : ~KeyStep(t)
    BY <2>1, <2>2, <2>4, OtherStepsQuiet, QuietKeys
  <2>5. CASE \E t \in Tasks : KeyStep(t)
    BY <2>1, <2>2, <2>5, KeyStepKeeps
  <2> QED
    BY <2>3, <2>4, <2>5
<1>3. OrderlyKeysInv => KeysOfOneSetup
  BY Zenon DEF OrderlyKeysInv, KeysInv, KeysOfOneSetup, OfSetup
<1> QED
  BY <1>1, <1>2, <1>3, PTL DEF Spec
=============================================================================
