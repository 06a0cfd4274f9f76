------------------------ MODULE KeyStoreSerialProofs ------------------------
(***************************************************************************)
(* Theorems about SerialSpec: starts on the key directory do not overlap,  *)
(* but crash and fail anywhere.                                            *)
(*                                                                         *)
(* None of the properties is inductive: each speaks of the final names or  *)
(* of running engines, and what is renamed there was written several       *)
(* steps, and perhaps several crashes, before.  SerialInv adds where every *)
(* process stands in the save and what that means for the contents of the  *)
(* temporary and of the final files.  RegisterInv adds whose pairs the     *)
(* processes without a directory hold, and the two together give that      *)
(* KeyDirectory is implemented.                                            *)
(***************************************************************************)
EXTENDS KeyStoreProofs

\* A process without a key directory never touches it.
PrivateSteps ==
  \A p \in Procs \ Persistent : pc[p] \notin {"stat", "load"} \union Saving

\* At most one start is at work on the directory.
OneStart ==
  \A p, q \in Persistent : pc[p] \in InStore /\ pc[q] \in InStore => p = q

\* Every start begins with the proving key.
ProvingFirst == \A p \in Procs : pc[p] \in {"stat", "setup"} => at[p] = "proving"

\* A start sets keys up, and saves them, only while there is no verifying key.
NotYet ==
  \A p \in Persistent : pc[p] \in {"setup"} \union Saving => file["verifying"] = NoKey

\* A name leads to a file that some setup created, and the temporary and the
\* final name of a key never lead to the same file.
Apart ==
  \A kind \in Kinds :
    /\ tmp[kind] \in used \union {NoKey}
    /\ file[kind] \in used \union {NoKey}
    /\ tmp[kind] # NoKey => tmp[kind] # file[kind]

\* The file a save is about to create is not the one installed.
Novel == \A p \in Procs : pc[p] = "open" => file[at[p]] # mem[p][at[p]]

\* Kind is written in full under its temporary name, with p's key.
Written(p, kind) ==
  /\ tmp[kind] # NoKey
  /\ data[kind][tmp[kind]] = Whole(mem[p][kind])

\* How far a save has come.
SaveProgress ==
  \A p \in Procs :
    /\ pc[p] \in {"head", "tail"} => fd[p] = tmp[at[p]] /\ fd[p] # NoKey
    /\ pc[p] = "tail" => data[at[p]][fd[p]].head = mem[p][at[p]]
    /\ pc[p] \in {"open", "head", "tail"} /\ at[p] = "verifying" => Written(p, "proving")
    /\ pc[p] = "install" => Written(p, "verifying")
    /\ pc[p] = "install" /\ at[p] = "proving" => Written(p, "proving")
    /\ pc[p] = "install" /\ at[p] = "verifying" =>
         file["proving"] # NoKey /\ data["proving"][file["proving"]] = Whole(mem[p]["proving"])

\* The two installed files hold the two keys of one setup.
OnePair == BothInstalled => \E k \in used : \A kind \in Kinds : data[kind][file[kind]] = Whole(k)

\* What a process has read, or serves with, is what the directory holds.
Holds(p, kind) == Whole(mem[p][kind]) = data[kind][file[kind]]

Attached ==
  \A p \in Persistent :
    /\ pc[p] = "load" => BothInstalled
    /\ pc[p] = "load" /\ at[p] = "verifying" => Holds(p, "proving")
    /\ pc[p] \in {"ready", "up"} => BothInstalled /\ \A kind \in Kinds : Holds(p, kind)

SerialInv ==
  /\ OverlapInv
  /\ PrivateSteps /\ OneStart /\ ProvingFirst
  /\ NotYet /\ Apart /\ Novel
  /\ SaveProgress
  /\ InstalledWhole /\ OnePair /\ Attached
  /\ NoInheritedFailure

-----------------------------------------------------------------------------
\* The initial state: an empty directory and no start at work on it.
LEMMA SerialInit == Init => SerialInv
  BY OverlapInit, ProcsAssumption
  DEF Init, SerialInv, PrivateSteps, OneStart, ProvingFirst, NotYet, Apart, Novel,
      SaveProgress, Written, InstalledWhole, OnePair, Attached, Holds,
      NoInheritedFailure, BothInstalled, Saving, InStore, Kinds

\* Starting alone is starting.
LEMMA SerialIsNext == [SerialNext]_vars => [Next]_vars
  BY DEF SerialNext, Next, StartAlone

\* While a process saves, no other process reads, saves or serves from the
\* directory.
LEMMA SavesAlone ==
  ASSUME SerialInv, NEW p \in Procs, pc[p] \in Saving
  PROVE  /\ p \in Persistent
         /\ \A q \in Procs \ {p} : pc[q] \notin {"stat", "load"} \union Saving
         /\ \A q \in Persistent : pc[q] \notin {"load", "ready", "up"}
         /\ file["verifying"] = NoKey
         /\ ~BothInstalled
         /\ \E k \in used : mem[p] = Pair(k)
<1> USE DEF SerialInv, Saving, InStore
<1>1. p \in Persistent
  BY DEF PrivateSteps
<1>2. file["verifying"] = NoKey /\ ~BothInstalled
  BY <1>1 DEF NotYet, BothInstalled, Kinds
<1>3. \A q \in Procs \ {p} : pc[q] \notin {"stat", "load"} \union Saving
  BY <1>1 DEF PrivateSteps, OneStart
<1>4. \A q \in Persistent : pc[q] \notin {"load", "ready", "up"}
  BY <1>2 DEF Attached
<1>5. \E k \in used : mem[p] = Pair(k)
  BY DEF OverlapInv, Drawn
<1> QED
  BY <1>1, <1>2, <1>3, <1>4, <1>5

\* Steps that leave the directory alone: the process counters and what is
\* in memory still fit it.
LEMMA QuietStep ==
  ASSUME SerialInv, NEW p \in Procs,
         \/ StartAlone(p) \/ Stat(p) \/ Load(p) \/ Setup(p) \/ Serve(p) \/ SetupError(p)
         \/ Disturb(p)
  PROVE  /\ PrivateSteps' /\ OneStart' /\ ProvingFirst' /\ NotYet' /\ Apart' /\ Novel'
         /\ SaveProgress' /\ InstalledWhole' /\ OnePair' /\ Attached'
         /\ NoInheritedFailure'
<1> USE ProcsAssumption, KeysAssumption
    DEF SerialInv, OverlapInv, TypeOK, VarTypes, PrivateSteps, OneStart, ProvingFirst, NotYet, Apart,
        Novel, SaveProgress, Written, InstalledWhole, OnePair, Attached, Holds,
        NoInheritedFailure, BothInstalled, Saving, InStore, Failed, Kinds, Goto, Handle
<1>1. CASE StartAlone(p)
  BY <1>1 DEF StartAlone, Start
<1>2. CASE Stat(p)
  BY <1>2 DEF Stat, InstallOrder
<1>3. CASE Load(p)
  <2>1. p \in Persistent /\ BothInstalled
    BY <1>3 DEF Load
  <2>2. PICK k \in used : \A kind \in Kinds : data[kind][file[kind]] = Whole(k)
    BY <2>1
  <2>3. k # NoKey /\ ReadFrom(data[at[p]][file[at[p]]]) = {k}
    <3>1. k # NoKey /\ at[p] \in Kinds
      BY <2>2
    <3>2. data[at[p]][file[at[p]]] = Whole(k)
      BY <2>2, <3>1
    <3>3. ReadFrom(Whole(k)) = {k}
      BY <3>1 DEF ReadFrom, Whole
    <3> QED
      BY <3>1, <3>2, <3>3
  <2>4. /\ mem' = [mem EXCEPT ![p] = [@ EXCEPT ![at[p]] = k]]
        /\ pc' = [pc EXCEPT ![p] = IF at[p] = "proving" THEN "load" ELSE "ready"]
        /\ at' = [at EXCEPT ![p] = "verifying"]
        /\ UNCHANGED <<fd, tmp, file, data, used>>
    BY <1>3, <2>1, <2>3 DEF Load
  <2>5. CASE at[p] = "proving"
    BY <1>3, <2>1, <2>2, <2>4, <2>5 DEF Load, Memory
  <2>6. CASE at[p] = "verifying"
    BY <1>3, <2>1, <2>2, <2>4, <2>6 DEF Load, Memory
  <2> QED
    BY <2>5, <2>6
<1>4. CASE Setup(p)
  BY <1>4 DEF Setup, Pair
<1>5. CASE Serve(p) \/ SetupError(p)
  BY <1>5 DEF Serve, SetupError
<1>6. CASE Disturb(p)
  BY <1>6 DEF Disturb, IoError, Crash, Exit
<1> QED
  BY <1>1, <1>2, <1>3, <1>4, <1>5, <1>6

\* Opening the temporary file empties a file that is not installed.
LEMMA OpenStep ==
  ASSUME SerialInv, NEW p \in Procs, Open(p)
  PROVE  /\ PrivateSteps' /\ OneStart' /\ ProvingFirst' /\ NotYet' /\ Apart' /\ Novel'
         /\ SaveProgress' /\ InstalledWhole' /\ OnePair' /\ Attached'
         /\ NoInheritedFailure'
<1> USE DEF SerialInv, Saving, InStore, Kinds, Goto, Handle
<1>1. /\ pc[p] = "open" /\ pc[p] \in Saving
      /\ pc' = [pc EXCEPT ![p] = "head"]
      /\ UNCHANGED <<at, mem, file, used>>
  BY DEF Open
<1>2. PICK k \in used : mem[p] = Pair(k)
  BY <1>1, SavesAlone
<1>3. PICK kind \in Kinds, f \in used :
        /\ kind = at[p] /\ f # NoKey /\ f # file[kind]
        /\ tmp' = [tmp EXCEPT ![kind] = f]
        /\ data' = [data EXCEPT ![kind][f] = Empty]
        /\ fd' = [fd EXCEPT ![p] = f]
  <2> DEFINE kd == at[p]
             f == IF tmp[kd] = NoKey THEN mem[p][kd] ELSE tmp[kd]
  <2>1. kd \in Kinds
    BY DEF OverlapInv, TypeOK, VarTypes
  <2>2. mem[p][kd] = k /\ k # NoKey /\ file[kd] # mem[p][kd]
    BY <1>1, <1>2, <2>1, KeysAssumption DEF Pair, Novel, OverlapInv, TypeOK, VarTypes
  <2>3. f \in used /\ f # NoKey /\ f # file[kd]
    BY <2>1, <2>2 DEF Apart
  <2>4. /\ tmp' = [tmp EXCEPT ![kd] = f]
        /\ data' = [data EXCEPT ![kd][f] = Empty]
        /\ fd' = [fd EXCEPT ![p] = f]
    BY DEF Open
  <2> HIDE DEF kd, f
  <2> QED
    BY <2>1, <2>3, <2>4 DEF kd
<1>4. \A kd \in Kinds : file[kd] # NoKey => data'[kd][file[kd]] = data[kd][file[kd]]
  BY <1>3 DEF OverlapInv, TypeOK, VarTypes
<1>5. PrivateSteps' /\ OneStart' /\ ProvingFirst' /\ NotYet' /\ NoInheritedFailure'
  BY <1>1, SavesAlone
  DEF OverlapInv, TypeOK, VarTypes, PrivateSteps, OneStart, ProvingFirst, NotYet, NoInheritedFailure
<1>6. Apart' /\ Novel'
  BY <1>1, <1>3, SavesAlone DEF OverlapInv, TypeOK, VarTypes, Apart, Novel
<1>7. InstalledWhole' /\ OnePair'
  BY <1>1, <1>4 DEF InstalledWhole, OnePair, BothInstalled
<1>8. Attached'
  BY <1>1, SavesAlone, ProcsAssumption DEF OverlapInv, TypeOK, VarTypes, Attached
<1>9. SaveProgress'
  BY <1>1, <1>3, SavesAlone DEF OverlapInv, TypeOK, VarTypes, SaveProgress, Written
<1> QED
  BY <1>5, <1>6, <1>7, <1>8, <1>9

\* A write goes to the file behind the temporary name, never to one that is
\* installed; after the second part that file is whole.
LEMMA WriteStep ==
  ASSUME SerialInv, NEW p \in Procs, WriteHead(p) \/ WriteTail(p)
  PROVE  /\ PrivateSteps' /\ OneStart' /\ ProvingFirst' /\ NotYet' /\ Apart' /\ Novel'
         /\ SaveProgress' /\ InstalledWhole' /\ OnePair' /\ Attached'
         /\ NoInheritedFailure'
<1> USE DEF SerialInv, Saving, InStore, Kinds, Goto, Handle
<1>1. /\ pc[p] \in {"head", "tail"} /\ pc[p] \in Saving
      /\ UNCHANGED <<mem, tmp, file, used>>
  BY DEF WriteHead, WriteTail
<1>2. PICK k \in used : mem[p] = Pair(k)
  BY <1>1, SavesAlone
<1>3. PICK kind \in Kinds, f \in used :
        kind = at[p] /\ f = fd[p] /\ f = tmp[kind] /\ f # NoKey /\ f # file[kind]
  BY <1>1 DEF OverlapInv, TypeOK, VarTypes, Apart, SaveProgress
<1>4. \A kd \in Kinds, g \in Keys : kd # kind \/ g # f => data'[kd][g] = data[kd][g]
  <2>1. \/ data' = [data EXCEPT ![kind][f].head = k]
        \/ data' = [data EXCEPT ![kind][f].tail = k]
    BY <1>2, <1>3 DEF WriteHead, WriteTail, Pair
  <2>2. data \in [Kinds -> [Keys -> Contents]]
    BY DEF OverlapInv, TypeOK, VarTypes
  <2> QED
    BY <2>1, <2>2
<1>5. \A kd \in Kinds : file[kd] # NoKey => data'[kd][file[kd]] = data[kd][file[kd]]
  BY <1>3, <1>4 DEF OverlapInv, TypeOK, VarTypes, KeyOrNone
<1>6. /\ pc[p] = "head" => data'[kind][f].head = k
      /\ pc[p] = "tail" => data'[kind][f] = Whole(k)
  BY <1>2, <1>3 DEF WriteHead, WriteTail, OverlapInv, TypeOK, VarTypes, SaveProgress, Pair, Whole, Contents
<1>7. \/ /\ pc[p] = "head" /\ pc' = [pc EXCEPT ![p] = "tail"]
         /\ UNCHANGED <<at, fd>>
      \/ /\ pc[p] = "tail" /\ at[p] = "proving"
         /\ pc' = [pc EXCEPT ![p] = "open"] /\ at' = [at EXCEPT ![p] = "verifying"]
         /\ fd' = [fd EXCEPT ![p] = NoKey]
      \/ /\ pc[p] = "tail" /\ at[p] = "verifying"
         /\ pc' = [pc EXCEPT ![p] = "install"] /\ at' = [at EXCEPT ![p] = "proving"]
         /\ fd' = [fd EXCEPT ![p] = NoKey]
  BY <1>3 DEF WriteHead, WriteTail
<1>8. PrivateSteps' /\ OneStart' /\ ProvingFirst' /\ NotYet' /\ NoInheritedFailure'
  <2>1. /\ pc' \in [Procs -> Steps] /\ pc'[p] \in Saving
        /\ \A q \in Procs \ {p} : pc'[q] = pc[q] /\ at'[q] = at[q]
    BY <1>7 DEF OverlapInv, TypeOK, VarTypes, Steps
  <2>2. p \in Persistent /\ file'["verifying"] = NoKey
    BY <1>1, SavesAlone
  <2>3. PrivateSteps' /\ ProvingFirst' /\ NoInheritedFailure'
    BY <2>1, <2>2 DEF PrivateSteps, ProvingFirst, NoInheritedFailure
  <2>4. OneStart' /\ NotYet'
    BY <1>1, <2>1, <2>2, ProcsAssumption DEF OneStart, NotYet
  <2> QED
    BY <2>3, <2>4
<1>9. Apart' /\ Novel'
  BY <1>1, <1>2, <1>7, SavesAlone, KeysAssumption DEF OverlapInv, TypeOK, VarTypes, Apart, Novel, Pair
<1>10. InstalledWhole' /\ OnePair'
  BY <1>1, <1>5 DEF InstalledWhole, OnePair, BothInstalled
<1>11. Attached'
  BY <1>1, <1>7, SavesAlone, ProcsAssumption DEF OverlapInv, TypeOK, VarTypes, Attached
<1>12. SaveProgress'
  <2>1. ASSUME NEW q \in Procs, q # p PROVE pc'[q] \notin Saving
    BY <1>1, <1>7, <2>1, SavesAlone DEF OverlapInv, TypeOK, VarTypes
  <2>2. CASE pc[p] = "head"
    BY <1>1, <1>2, <1>3, <1>4, <1>6, <1>7, <2>1, <2>2
    DEF OverlapInv, TypeOK, VarTypes, KeyOrNone, SaveProgress, Written, Pair
  <2>3. CASE pc[p] = "tail" /\ at[p] = "proving"
    BY <1>1, <1>2, <1>3, <1>6, <1>7, <2>1, <2>3
    DEF OverlapInv, TypeOK, VarTypes, SaveProgress, Written, Pair
  <2>4. CASE pc[p] = "tail" /\ at[p] = "verifying"
    BY <1>1, <1>2, <1>3, <1>4, <1>6, <1>7, <2>1, <2>4
    DEF OverlapInv, TypeOK, VarTypes, KeyOrNone, SaveProgress, Written, Pair
  <2> QED
    BY <1>7, <2>2, <2>3, <2>4
<1> QED
  BY <1>8, <1>9, <1>10, <1>11, <1>12

\* A rename installs a whole file of the pair the process holds; the second
\* one completes the pair.
LEMMA RenameStep ==
  ASSUME SerialInv, NEW p \in Procs, Install(p)
  PROVE  /\ PrivateSteps' /\ OneStart' /\ ProvingFirst' /\ NotYet' /\ Apart' /\ Novel'
         /\ SaveProgress' /\ InstalledWhole' /\ OnePair' /\ Attached'
         /\ NoInheritedFailure'
<1> USE DEF SerialInv, Saving, InStore, Kinds, Goto, Handle
<1>1. pc[p] = "install" /\ pc[p] \in Saving
  BY DEF Install
<1>2. PICK k \in used : mem[p] = Pair(k)
  BY <1>1, SavesAlone
<1>3. at[p] \in Kinds /\ tmp[at[p]] # NoKey /\ data[at[p]][tmp[at[p]]] = Whole(k)
  BY <1>1, <1>2 DEF OverlapInv, TypeOK, VarTypes, SaveProgress, Written, Pair
<1>4. /\ file' = [file EXCEPT ![at[p]] = tmp[at[p]]]
      /\ tmp' = [tmp EXCEPT ![at[p]] = NoKey]
      /\ pc' = [pc EXCEPT ![p] = IF at[p] = "proving" THEN "install" ELSE "ready"]
      /\ at' = [at EXCEPT ![p] = "verifying"]
      /\ UNCHANGED <<mem, fd, data, used>>
  BY <1>3 DEF Install
<1>5. /\ pc' \in [Procs -> Steps] /\ pc'[p] \in {"install", "ready"} /\ p \in Persistent
      /\ \A q \in Procs \ {p} : pc'[q] = pc[q] /\ at'[q] = at[q]
      /\ \A q \in Procs \ {p} : pc[q] \notin {"stat", "load"} \union Saving
      /\ \A q \in Persistent \ {p} : pc[q] \notin InStore \union {"ready", "up"}
  BY <1>1, <1>4, SavesAlone DEF OverlapInv, TypeOK, VarTypes, Steps, OneStart
<1>6. PrivateSteps' /\ OneStart' /\ ProvingFirst' /\ NoInheritedFailure' /\ Novel'
  BY <1>5, ProcsAssumption
  DEF PrivateSteps, OneStart, ProvingFirst, NoInheritedFailure, Novel
<1>7. Apart'
  BY <1>3, <1>4 DEF OverlapInv, TypeOK, VarTypes, Apart
<1>8. CASE at[p] = "proving"
  <2>1. /\ file'["proving"] = tmp["proving"] /\ file'["verifying"] = NoKey
        /\ tmp'["verifying"] = tmp["verifying"] /\ at'[p] = "verifying"
        /\ pc'[p] = "install"
    BY <1>1, <1>4, <1>8, SavesAlone DEF OverlapInv, TypeOK, VarTypes
  <2>2. NotYet'
    BY <2>1 DEF NotYet
  <2>3. InstalledWhole' /\ OnePair'
    BY <1>3, <1>4, <1>8, <2>1 DEF InstalledWhole, OnePair, BothInstalled
  <2>4. Attached'
    BY <1>5, <2>1, ProcsAssumption DEF Attached
  <2>5. SaveProgress'
    BY <1>1, <1>2, <1>3, <1>4, <1>5, <1>8, <2>1 DEF SaveProgress, Written, Pair
  <2> QED
    BY <1>6, <1>7, <2>2, <2>3, <2>4, <2>5
<1>9. CASE at[p] = "verifying"
  <2>1. /\ file'["proving"] = file["proving"] /\ file'["verifying"] = tmp["verifying"]
        /\ pc'[p] = "ready"
    BY <1>1, <1>4, <1>9 DEF OverlapInv, TypeOK, VarTypes
  <2>2. \A kind \in Kinds : file'[kind] # NoKey /\ data'[kind][file'[kind]] = Whole(k)
    BY <1>1, <1>2, <1>3, <1>4, <1>9, <2>1 DEF SaveProgress, Pair
  <2>3. NotYet'
    BY <1>5, <2>1, ProcsAssumption DEF NotYet
  <2>4. InstalledWhole' /\ OnePair'
    BY <1>4, <2>2 DEF InstalledWhole, OnePair
  <2>5. Attached'
    <3>1. \A kind \in Kinds : (Holds(p, kind))'
      BY <1>2, <1>4, <2>2 DEF Holds, Pair
    <3>2. BothInstalled'
      BY <2>2 DEF BothInstalled
    <3> QED
      BY <1>5, <2>1, <3>1, <3>2, ProcsAssumption DEF Attached
  <2>6. SaveProgress'
    BY <1>5, <2>1 DEF SaveProgress
  <2> QED
    BY <1>6, <1>7, <2>3, <2>4, <2>5, <2>6
<1> QED
  BY <1>3, <1>8, <1>9

\* Every step of serial starts preserves the invariant.
LEMMA SerialStep == SerialInv /\ [SerialNext]_vars => SerialInv'
<1> SUFFICES ASSUME SerialInv, [SerialNext]_vars PROVE SerialInv'
  OBVIOUS
<1>1. OverlapInv'
  BY SerialIsNext, OverlapStep DEF SerialInv
<1>2. CASE UNCHANGED vars
  BY <1>1, <1>2
  DEF vars, SerialInv, PrivateSteps, OneStart, ProvingFirst, NotYet, Apart, Novel,
      SaveProgress, Written, InstalledWhole, OnePair, Attached, Holds,
      NoInheritedFailure, BothInstalled
<1>3. CASE SerialNext
  <2> PICK p \in Procs : StartAlone(p) \/ Step(p) \/ Disturb(p)
    BY <1>3 DEF SerialNext
  <2>1. CASE Open(p)
    BY <1>1, <2>1, OpenStep DEF SerialInv
  <2>2. CASE WriteHead(p) \/ WriteTail(p)
    BY <1>1, <2>2, WriteStep DEF SerialInv
  <2>3. CASE Install(p)
    BY <1>1, <2>3, RenameStep DEF SerialInv
  <2>4. CASE \/ StartAlone(p) \/ Stat(p) \/ Load(p) \/ Setup(p) \/ Serve(p) \/ SetupError(p)
             \/ Disturb(p)
    BY <1>1, <2>4, QuietStep DEF SerialInv
  <2> QED
    BY <2>1, <2>2, <2>3, <2>4 DEF Step
<1> QED
  BY <1>2, <1>3

\* The serial invariant holds in every behaviour with one start at a time.
LEMMA SerialInvariant == SerialSpec => []SerialInv
  BY SerialInit, SerialStep, PTL DEF SerialSpec

\* No crash, error or later save leaves a torn or a mixed file under a final
\* name, as long as starts do not overlap.
THEOREM InstalledWholeHolds == SerialSpec => []InstalledWhole
<1>1. SerialInv => InstalledWhole
  BY DEF SerialInv
<1> QED
  BY SerialInvariant, <1>1, PTL

\* All engines that run on one key directory, whether they set its keys up
\* or loaded them after any number of crashed starts, hold one and the same
\* key pair.
THEOREM EnginesAgreeHolds == SerialSpec => []EnginesAgree
<1>1. SerialInv => EnginesAgree
  <2> SUFFICES ASSUME SerialInv, NEW p \in Persistent, NEW q \in Persistent,
                      pc[p] = "up", pc[q] = "up"
               PROVE  \E k \in used : mem[p] = Pair(k) /\ mem[q] = Pair(k)
    BY DEF EnginesAgree
  <2>1. PICK k \in used : \A kind \in Kinds : data[kind][file[kind]] = Whole(k)
    BY DEF SerialInv, Attached, OnePair
  <2>2. ASSUME NEW r \in {p, q} PROVE mem[r] = Pair(k)
    <3>1. mem[r] \in [Kinds -> Material]
      BY ProcsAssumption DEF SerialInv, OverlapInv, TypeOK, VarTypes, Memory
    <3>2. ASSUME NEW kind \in Kinds PROVE mem[r][kind] = k
      <4>1. Whole(mem[r][kind]) = Whole(k)
        BY <2>1 DEF SerialInv, Attached, Holds
      <4> QED
        BY <4>1 DEF Whole
    <3> QED
      BY <3>1, <3>2 DEF Pair
  <2> QED
    BY <2>2
<1> QED
  BY SerialInvariant, <1>1, PTL

\* What a crashed or failed start leaves behind never fails a later start.
THEOREM NoInheritedFailureHolds == SerialSpec => []NoInheritedFailure
<1>1. SerialInv => NoInheritedFailure
  BY DEF SerialInv
<1> QED
  BY SerialInvariant, <1>1, PTL

\* Keys once installed are there to stay: no step of any serial start, crash
\* or restart replaces, empties or rewrites them.
THEOREM InstalledKeysKeptHolds == SerialSpec => InstalledKeysKept
<1> DEFINE Kept == BothInstalled => \A kind \in Kinds :
                     /\ file'[kind] = file[kind]
                     /\ data'[kind][file[kind]] = data[kind][file[kind]]
<1>1. SerialInv /\ [SerialNext]_vars => [Kept]_vars
  <2> SUFFICES ASSUME SerialInv, SerialNext PROVE Kept
    OBVIOUS
  <2> PICK p \in Procs : StartAlone(p) \/ Step(p) \/ Disturb(p)
    BY DEF SerialNext
  <2>1. CASE Open(p) \/ WriteHead(p) \/ WriteTail(p) \/ Install(p)
    <3>1. pc[p] \in Saving
      BY <2>1 DEF Open, WriteHead, WriteTail, Install, Saving
    <3> QED
      BY <3>1, SavesAlone
  <2>2. CASE ~(Open(p) \/ WriteHead(p) \/ WriteTail(p) \/ Install(p))
    BY <2>2
    DEF StartAlone, Start, Step, Stat, Load, Setup, Serve, SetupError, Disturb, IoError,
        Crash, Exit
  <2> QED
    BY <2>1, <2>2
<1> QED
  BY SerialInvariant, <1>1, PTL DEF SerialSpec, InstalledKeysKept

-----------------------------------------------------------------------------
(***************************************************************************)
(* A key directory that serial starts share is a register written once.    *)
(*                                                                         *)
(* The register is written by the rename that installs the verifying key,  *)
(* an engine reads it when it starts to serve.  What SerialInv lacks is    *)
(* that a process without a directory shares its pair with nobody: not     *)
(* with a save under way, and not with anything written on disk.           *)
(***************************************************************************)

\* What is written on disk comes from a setup.
FromSetups ==
  \A f \in Keys : data["verifying"][f].head \in used \union {NoKey}

\* A process that holds a pair of its own making and may be asked to serve.
Alone(p) == p \in Procs \ Persistent /\ pc[p] \in {"ready", "up"}

\* Such a pair is one setup's, is in no other process that saves or serves
\* without a directory, and has been written nowhere.
PrivatePairs ==
  \A p \in Procs : Alone(p) =>
    /\ \E k \in used : mem[p] = Pair(k)
    /\ \A q \in Procs \ {p} :
         Alone(q) \/ pc[q] \in Saving => mem[q]["proving"] # mem[p]["proving"]
    /\ \A f \in Keys : data["verifying"][f].head # mem[p]["proving"]

RegisterInv == FromSetups /\ PrivatePairs

\* At first nothing is written and nobody holds a pair.
LEMMA RegisterInit == Init => RegisterInv
  BY DEF Init, RegisterInv, FromSetups, PrivatePairs, Alone, Saving, Kinds, Empty

\* Who saves, or serves on its own, holds one of the pairs drawn so far.
LEMMA HeldAreDrawn ==
  ASSUME SerialInv, RegisterInv, NEW p \in Procs, Alone(p) \/ pc[p] \in Saving
  PROVE  \E k \in used : mem[p] = Pair(k) /\ mem[p]["proving"] = k /\ mem[p]["verifying"] = k
<1>1. \E k \in used : mem[p] = Pair(k)
  BY DEF SerialInv, OverlapInv, Drawn, RegisterInv, PrivatePairs
<1> QED
  BY <1>1 DEF Pair, Kinds

\* A step that draws no pair and changes nothing of what is written keeps the
\* pairs apart, if the process that takes it saves or serves on its own only
\* where it did before, with the pair it had.
LEMMA CalmStep ==
  ASSUME SerialInv, RegisterInv, NEW p \in Procs,
         UNCHANGED <<data, used>>,
         \A q \in Procs \ {p} : pc'[q] = pc[q] /\ mem'[q] = mem[q],
         Alone(p)' => Alone(p) /\ mem'[p] = mem[p],
         pc'[p] \in Saving => pc[p] \in Saving /\ mem'[p] = mem[p]
  PROVE  RegisterInv'
<1>1. FromSetups'
  BY DEF RegisterInv, FromSetups
<1>2. \A q \in Procs : Alone(q)' => Alone(q) /\ mem'[q] = mem[q]
  BY DEF Alone
<1>3. \A q \in Procs : pc'[q] \in Saving => pc[q] \in Saving /\ mem'[q] = mem[q]
  OBVIOUS
<1>4. PrivatePairs'
  BY <1>2, <1>3 DEF RegisterInv, PrivatePairs
<1> QED
  BY <1>1, <1>4 DEF RegisterInv

\* A pair that was just drawn is in nobody else's hands and nowhere on disk.
LEMMA DrawStep ==
  ASSUME SerialInv, RegisterInv, NEW p \in Procs, Setup(p)
  PROVE  RegisterInv'
<1>1. PICK k \in Keys \ used : used' = used \union {k} /\ mem' = [mem EXCEPT ![p] = Pair(k)]
  BY DEF Setup
<1>2. /\ mem'[p] = Pair(k) /\ mem'[p]["proving"] = k
      /\ \A q \in Procs \ {p} : pc'[q] = pc[q] /\ mem'[q] = mem[q]
      /\ Alone(p)' => p \notin Persistent
      /\ UNCHANGED data
  BY <1>1 DEF Setup, SerialInv, OverlapInv, TypeOK, VarTypes, Pair, Kinds, Goto, Alone
<1>3. \A q \in Procs \ {p} : Alone(q)' = Alone(q)
  BY <1>2 DEF Alone
<1>4. \A q \in Procs : Alone(q) \/ pc[q] \in Saving => mem[q]["proving"] \in used
  BY HeldAreDrawn
<1>5. FromSetups'
  BY <1>1, <1>2 DEF RegisterInv, FromSetups
<1>6. ASSUME NEW q \in Procs \ {p}, Alone(q)' \/ pc'[q] \in Saving
      PROVE  mem'[q]["proving"] \in used /\ mem'[q]["proving"] # k
  BY <1>1, <1>2, <1>3, <1>4, <1>6
<1>7. \A f \in Keys : data'["verifying"][f].head # k
  BY <1>1, <1>2, KeysAssumption DEF RegisterInv, FromSetups
<1>8. ASSUME NEW r \in Procs, Alone(r)'
      PROVE  /\ \E d \in used' : mem'[r] = Pair(d)
             /\ \A q \in Procs \ {r} :
                  Alone(q)' \/ pc'[q] \in Saving => mem'[q]["proving"] # mem'[r]["proving"]
             /\ \A f \in Keys : data'["verifying"][f].head # mem'[r]["proving"]
  <2>1. CASE r = p
    BY <1>1, <1>2, <1>6, <1>7, <2>1
  <2>2. CASE r # p
    <3>1. Alone(r) /\ mem'[r] = mem[r] /\ mem'[r]["proving"] \in used
      BY <1>2, <1>3, <1>6, <1>8, <2>2
    <3>2. ASSUME NEW q \in Procs \ {r}, Alone(q)' \/ pc'[q] \in Saving
          PROVE  mem'[q]["proving"] # mem'[r]["proving"]
      BY <1>1, <1>2, <1>3, <3>1, <3>2 DEF RegisterInv, PrivatePairs
    <3> QED
      BY <1>1, <1>2, <3>1, <3>2 DEF RegisterInv, PrivatePairs
  <2> QED
    BY <2>1, <2>2
<1> QED
  BY <1>5, <1>8 DEF RegisterInv, PrivatePairs

\* A save writes its own pair, which no process serves on its own.
LEMMA WritePairStep ==
  ASSUME SerialInv, RegisterInv, NEW p \in Procs, Open(p) \/ WriteHead(p) \/ WriteTail(p)
  PROVE  RegisterInv'
<1>1. /\ pc[p] \in Saving /\ pc'[p] \in Saving
      /\ \A q \in Procs \ {p} : pc'[q] = pc[q]
      /\ UNCHANGED <<mem, used>>
  BY DEF Open, WriteHead, WriteTail, Saving, Goto, SerialInv, OverlapInv, TypeOK, VarTypes
<1>2. PICK k \in used : mem[p]["proving"] = k /\ mem[p]["verifying"] = k
  BY <1>1, HeldAreDrawn
<1>3. \A f \in Keys : data'["verifying"][f].head \in {data["verifying"][f].head, k, NoKey}
  <2>1. data \in [Kinds -> [Keys -> Contents]] /\ at[p] \in Kinds
    BY DEF SerialInv, OverlapInv, TypeOK, VarTypes
  <2>2. CASE Open(p)
    BY <2>1, <2>2 DEF Open, Empty, Kinds
  <2>3. CASE WriteHead(p)
    BY <1>2, <2>1, <2>3 DEF WriteHead, Kinds, Contents
  <2>4. CASE WriteTail(p)
    BY <1>2, <2>1, <2>4 DEF WriteTail, Kinds, Contents
  <2> QED
    BY <2>2, <2>3, <2>4
<1>4. FromSetups'
  BY <1>1, <1>3 DEF RegisterInv, FromSetups
<1>5. ~Alone(p) /\ \A r \in Procs : Alone(r)' = Alone(r)
  BY <1>1 DEF Alone, Saving
<1>6. ASSUME NEW r \in Procs, Alone(r)
      PROVE  /\ \A q \in Procs \ {r} :
                  Alone(q)' \/ pc'[q] \in Saving => mem[q]["proving"] # mem[r]["proving"]
             /\ \A f \in Keys : data'["verifying"][f].head # mem[r]["proving"]
  <2>1. r # p /\ mem[r]["proving"] # k /\ mem[r]["proving"] # NoKey
    BY <1>1, <1>2, <1>5, <1>6, HeldAreDrawn, KeysAssumption
    DEF RegisterInv, PrivatePairs, SerialInv, OverlapInv, TypeOK, VarTypes
  <2> QED
    BY <1>1, <1>3, <1>5, <1>6, <2>1 DEF RegisterInv, PrivatePairs
<1>7. PrivatePairs'
  BY <1>1, <1>5, <1>6 DEF RegisterInv, PrivatePairs
<1> QED
  BY <1>4, <1>7 DEF RegisterInv

\* Every step of serial starts keeps the pairs apart.
LEMMA RegisterStep == SerialInv /\ RegisterInv /\ [SerialNext]_vars => RegisterInv'
<1> SUFFICES ASSUME SerialInv, RegisterInv, [SerialNext]_vars PROVE RegisterInv'
  OBVIOUS
<1>1. CASE UNCHANGED vars
  BY <1>1 DEF vars, RegisterInv, FromSetups, PrivatePairs, Alone
<1>2. ASSUME NEW p \in Procs, StartAlone(p) \/ Step(p) \/ Disturb(p)
      PROVE  RegisterInv'
  <2>1. CASE Setup(p)
    BY <2>1, DrawStep
  <2>2. CASE Open(p) \/ WriteHead(p) \/ WriteTail(p)
    BY <2>2, WritePairStep
  <2>3. CASE StartAlone(p) \/ Stat(p) \/ Load(p) \/ Serve(p) \/ SetupError(p) \/ Disturb(p)
    <3>1. /\ UNCHANGED <<data, used>>
          /\ \A q \in Procs \ {p} : pc'[q] = pc[q] /\ mem'[q] = mem[q]
          /\ pc'[p] \notin Saving
      BY <2>3
      DEF StartAlone, Start, Stat, Load, Serve, SetupError, Disturb, IoError, Crash, Exit,
          Goto, Saving, SerialInv, OverlapInv, TypeOK, VarTypes
    <3>2. Alone(p)' => Alone(p) /\ mem'[p] = mem[p]
      BY <2>3
      DEF StartAlone, Start, Stat, Load, Serve, SetupError, Disturb, IoError, Crash, Exit,
          Goto, Alone, SerialInv, OverlapInv, TypeOK, VarTypes, PrivateSteps
    <3> QED
      BY <3>1, <3>2, CalmStep
  <2>4. CASE Install(p)
    <3>1. pc[p] \in Saving /\ p \in Persistent
      BY <2>4, SavesAlone DEF Install, Saving
    <3>2. /\ UNCHANGED <<data, used>>
          /\ \A q \in Procs \ {p} : pc'[q] = pc[q] /\ mem'[q] = mem[q]
          /\ pc'[p] \in Saving => mem'[p] = mem[p]
      BY <2>4 DEF Install, Goto, Saving, SerialInv, OverlapInv, TypeOK, VarTypes
    <3> QED
      BY <3>1, <3>2, CalmStep DEF Alone
  <2> QED
    BY <1>2, <2>1, <2>2, <2>3, <2>4 DEF Step
<1> QED
  BY <1>1, <1>2 DEF SerialNext

\* The register and the engines that the directory promises.
Register == IF BothInstalled THEN data["verifying"][file["verifying"]].head ELSE NoKey
Engines  == [p \in Procs |-> IF pc[p] = "up" THEN mem[p]["proving"] ELSE NoKey]

\* With both files installed, the register holds the pair in them, and every
\* process on the directory that is about to serve, or serves, has read it.
LEMMA RegisterHeld ==
  ASSUME SerialInv, BothInstalled
  PROVE  /\ Register \in used /\ Register # NoKey
         /\ \A p \in Persistent : pc[p] \in {"ready", "up"} => mem[p]["proving"] = Register
<1>1. PICK k \in used : \A kind \in Kinds : data[kind][file[kind]] = Whole(k)
  BY DEF SerialInv, OnePair
<1>2. Register = k /\ data["proving"][file["proving"]] = Whole(k)
  BY <1>1 DEF Register, Whole, Kinds
<1>3. \A p \in Persistent : pc[p] \in {"ready", "up"} => mem[p]["proving"] = k
  <2>1. \A p \in Persistent : pc[p] \in {"ready", "up"} => Holds(p, "proving")
    BY DEF SerialInv, Attached, Kinds
  <2>2. \A d : Whole(d) = Whole(k) => d = k
    BY DEF Whole
  <2> QED
    BY <1>2, <2>1, <2>2 DEF Holds
<1> QED
  BY <1>2, <1>3, KeysAssumption DEF SerialInv, OverlapInv, TypeOK, VarTypes

\* A process that is about to serve, or serves, has a real key; one on the
\* directory has the key of the register, and no other has that.
LEMMA ServedKeys ==
  ASSUME SerialInv, RegisterInv, NEW p \in Procs, pc[p] \in {"ready", "up"}
  PROVE  /\ mem[p]["proving"] \in Keys
         /\ p \in Persistent => BothInstalled /\ mem[p]["proving"] = Register
         /\ p \notin Persistent => mem[p]["proving"] # Register
<1>1. CASE p \in Persistent
  BY <1>1, RegisterHeld DEF SerialInv, Attached, OverlapInv, TypeOK, VarTypes
<1>2. CASE p \notin Persistent
  <2>1. Alone(p)
    BY <1>2 DEF Alone
  <2>2. mem[p]["proving"] \in used /\ used \subseteq Keys
    BY <2>1, HeldAreDrawn DEF SerialInv, OverlapInv, TypeOK, VarTypes
  <2>3. Register # mem[p]["proving"]
    BY <2>1, <2>2, KeysAssumption
    DEF Register, BothInstalled, Kinds, RegisterInv, PrivatePairs, SerialInv, OverlapInv,
        TypeOK, VarTypes, KeyOrNone
  <2> QED
    BY <1>2, <2>2, <2>3
<1> QED
  BY <1>1, <1>2

\* The rename that completes a pair writes the register, with a pair that no
\* engine serves.
LEMMA EstablishStep ==
  ASSUME SerialInv, SerialInv', RegisterInv, NEW p \in Procs, Install(p)
  PROVE  /\ UNCHANGED Engines
         /\ \/ UNCHANGED Register
            \/ /\ Register = NoKey
               /\ Register' \in Keys
               /\ \A q \in Procs : Engines[q] # Register'
<1>1. pc[p] = "install" /\ pc[p] \in Saving
  BY DEF Install, Saving
<1>2. PICK k \in used : mem[p] = Pair(k) /\ mem[p]["proving"] = k
  BY <1>1, HeldAreDrawn
<1>3. Register = NoKey /\ p \in Persistent /\ k \in Keys
  BY <1>1, SavesAlone DEF Register, SerialInv, OverlapInv, TypeOK, VarTypes
<1>4. /\ \A q \in Procs \ {p} : pc'[q] = pc[q] /\ mem'[q] = mem[q]
      /\ pc'[p] # "up"
      /\ UNCHANGED data
  BY DEF Install, Goto, SerialInv, OverlapInv, TypeOK, VarTypes
<1>5. UNCHANGED Engines
  BY <1>1, <1>4 DEF Engines
<1>6. CASE BothInstalled'
  <2>1. at[p] = "verifying" /\ file'["verifying"] = tmp["verifying"]
    BY <1>1, <1>6, SavesAlone
    DEF Install, BothInstalled, Kinds, SerialInv, OverlapInv, TypeOK, VarTypes, NoInheritedFailure
  <2>2. data["verifying"][tmp["verifying"]] = Whole(k)
    BY <1>1, <1>2, <2>1 DEF SerialInv, SaveProgress, Written, Pair, Kinds
  <2>3. Register' = k
    BY <1>4, <1>6, <2>1, <2>2 DEF Register, Whole
  <2>4. ASSUME NEW q \in Procs
        PROVE  Engines[q] # k
    <3>1. CASE pc[q] = "up"
      <4>1. Alone(q) /\ q # p
        BY <1>1, <3>1, SavesAlone DEF Alone
      <4> QED
        BY <1>1, <1>2, <3>1, <4>1 DEF RegisterInv, PrivatePairs, Engines
    <3>2. CASE pc[q] # "up"
      BY <1>3, <3>2, KeysAssumption DEF Engines
    <3> QED
      BY <3>1, <3>2
  <2> QED
    BY <1>3, <1>5, <2>3, <2>4
<1>7. CASE ~BothInstalled'
  BY <1>3, <1>5, <1>7 DEF Register
<1> QED
  BY <1>6, <1>7

\* Steps between the first stat call and the engine's return do not show.
LEMMA HiddenStep ==
  ASSUME SerialInv, NEW p \in Procs,
         \/ StartAlone(p) \/ Stat(p) \/ Load(p) \/ Setup(p) \/ Open(p) \/ WriteHead(p)
         \/ WriteTail(p) \/ SetupError(p) \/ IoError(p) \/ Crash(p)
  PROVE  UNCHANGED <<Register, Engines>>
<1>1. /\ pc[p] # "up" /\ pc'[p] # "up"
      /\ \A q \in Procs \ {p} : pc'[q] = pc[q] /\ mem'[q] = mem[q]
      /\ UNCHANGED file
  BY DEF StartAlone, Start, Stat, Load, Setup, Open, WriteHead, WriteTail, SetupError,
         IoError, Crash, Goto, InStore, SerialInv, OverlapInv, TypeOK, VarTypes
<1>2. UNCHANGED Engines
  BY <1>1 DEF Engines
<1>3. BothInstalled => data' = data
  <2>1. CASE pc[p] \in Saving
    BY <2>1, SavesAlone
  <2>2. CASE pc[p] \notin Saving
    BY <2>2
    DEF StartAlone, Start, Stat, Load, Setup, Open, WriteHead, WriteTail, SetupError,
        IoError, Crash, Saving
  <2> QED
    BY <2>1, <2>2
<1>4. UNCHANGED Register
  BY <1>1, <1>3 DEF Register, BothInstalled
<1> QED
  BY <1>2, <1>4

\* Engines come and go: one on the directory with the key of the register,
\* one without with a key that nobody else has.
LEMMA EngineStep ==
  ASSUME SerialInv, RegisterInv, NEW p \in Procs, Serve(p) \/ Exit(p)
  PROVE  /\ UNCHANGED Register
         /\ \/ UNCHANGED Engines
            \/ /\ Engines[p] = NoKey
               /\ p \in Persistent => Register # NoKey /\ mem[p]["proving"] = Register
               /\ p \notin Persistent =>
                    /\ mem[p]["proving"] \in Keys /\ mem[p]["proving"] # Register
                    /\ \A q \in Procs : Engines[q] # mem[p]["proving"]
               /\ Engines' = [Engines EXCEPT ![p] = mem[p]["proving"]]
            \/ Engines[p] # NoKey /\ Engines' = [Engines EXCEPT ![p] = NoKey]
<1>1. /\ UNCHANGED Register
      /\ \A q \in Procs \ {p} : pc'[q] = pc[q] /\ mem'[q] = mem[q]
  BY DEF Serve, Exit, Register, BothInstalled, Goto, SerialInv, OverlapInv, TypeOK, VarTypes
<1>2. CASE Serve(p)
  <2>1. pc[p] = "ready" /\ pc'[p] = "up" /\ mem'[p] = mem[p]
    BY <1>2 DEF Serve, Goto, SerialInv, OverlapInv, TypeOK, VarTypes
  <2>2. Engines[p] = NoKey /\ Engines' = [Engines EXCEPT ![p] = mem[p]["proving"]]
    BY <1>1, <2>1 DEF Engines
  <2>3. CASE p \in Persistent
    BY <1>1, <2>1, <2>2, <2>3, ServedKeys, RegisterHeld
  <2>4. CASE p \notin Persistent
    <3>1. mem[p]["proving"] \in Keys /\ mem[p]["proving"] # Register
      BY <2>1, <2>4, ServedKeys
    <3>2. ASSUME NEW q \in Procs
          PROVE  Engines[q] # mem[p]["proving"]
      <4>1. CASE pc[q] = "up" /\ q \in Persistent
        BY <3>1, <4>1, ServedKeys DEF Engines
      <4>2. CASE pc[q] = "up" /\ q \notin Persistent
        BY <2>1, <2>4, <4>2 DEF Engines, Alone, RegisterInv, PrivatePairs
      <4>3. CASE pc[q] # "up"
        BY <3>1, <4>3, KeysAssumption DEF Engines
      <4> QED
        BY <4>1, <4>2, <4>3
    <3> QED
      BY <1>1, <2>2, <2>4, <3>1, <3>2
  <2> QED
    BY <2>3, <2>4
<1>3. CASE Exit(p)
  <2>1. pc'[p] = "idle"
    BY <1>3 DEF Exit, Goto, SerialInv, OverlapInv, TypeOK, VarTypes
  <2>2. CASE pc[p] = "up"
    BY <1>1, <2>1, <2>2, ServedKeys, KeysAssumption DEF Engines
  <2>3. CASE pc[p] # "up"
    BY <1>1, <2>1, <2>3 DEF Engines
  <2> QED
    BY <2>2, <2>3
<1> QED
  BY <1>2, <1>3

\* Serial starts implement the register: it is written at most once, with the
\* pair of one setup, every engine on the directory reads it, and an engine
\* without a directory has a pair nobody else ever serves, whatever crashes
\* and fails on the way.
THEOREM DirectoryImplemented == SerialSpec => ImplementsDirectory
<1>1. Init => Directory!Init
  BY DEF Init, BothInstalled, Kinds, Directory!Init
<1>2. SerialInv /\ SerialInv' /\ RegisterInv /\ [SerialNext]_vars
        => [Directory!Next]_(Directory!vars)
  <2> SUFFICES ASSUME SerialInv, SerialInv', RegisterInv, [SerialNext]_vars
               PROVE  Directory!Next \/ UNCHANGED <<Register, Engines>>
    BY DEF Directory!vars, Register, Engines
  <2>1. CASE UNCHANGED vars
    BY <2>1 DEF vars, Register, Engines, BothInstalled
  <2>2. ASSUME NEW p \in Procs, StartAlone(p) \/ Step(p) \/ Disturb(p)
        PROVE  Directory!Next \/ UNCHANGED <<Register, Engines>>
    <3>1. CASE Install(p)
      <4>1. UNCHANGED Engines
        BY <3>1, EstablishStep
      <4>2. CASE /\ Register = NoKey /\ Register' \in Keys
                 /\ \A q \in Procs : Engines[q] # Register'
        <5>1. Directory!Unseen(Register')
          BY <4>2, KeysAssumption DEF Directory!Unseen, Register, Engines
        <5>2. Directory!Establish
          BY <4>1, <4>2, <5>1 DEF Directory!Establish, Register, Engines
        <5> QED
          BY <5>2 DEF Directory!Next
      <4> QED
        BY <3>1, <4>1, <4>2, EstablishStep
    <3>2. CASE Serve(p) \/ Exit(p)
      BY <3>2, EngineStep
      DEF Directory!Next, Directory!Attach, Directory!AttachPrivate, Directory!Detach,
          Directory!Unseen, Register, Engines
    <3>3. CASE \/ StartAlone(p) \/ Stat(p) \/ Load(p) \/ Setup(p) \/ Open(p) \/ WriteHead(p)
               \/ WriteTail(p) \/ SetupError(p) \/ IoError(p) \/ Crash(p)
      BY <3>3, HiddenStep
    <3> QED
      BY <2>2, <3>1, <3>2, <3>3 DEF Step, Disturb
  <2> QED
    BY <2>1, <2>2 DEF SerialNext
<1>3. SerialSpec => []RegisterInv
  BY SerialInvariant, RegisterInit, RegisterStep, PTL DEF SerialSpec
<1> QED
  BY <1>1, <1>2, <1>3, SerialInvariant, PTL DEF SerialSpec, ImplementsDirectory, Directory!Spec
=============================================================================
