--------------------------- MODULE KeyStoreProofs ---------------------------
(***************************************************************************)
(* Theorems about KeyStore, for every set of processes and of keys and     *)
(* every number of faults: what holds of Spec, where starts overlap        *)
(* freely.  KeyStoreSerialProofs goes on with SerialSpec.                  *)
(***************************************************************************)
EXTENDS KeyStore, TLAPS

Saving == {"open", "head", "tail", "install"}

-----------------------------------------------------------------------------
(***************************************************************************)
(* Starts that overlap.                                                    *)
(***************************************************************************)

\* A process that saves holds the pair its own call of Setup returned.
Drawn == \A p \in Procs : pc[p] \in Saving => \E k \in used : mem[p] = Pair(k)

\* A process on its way to the second rename has done the first.
HalfInstalled ==
  \A p \in Procs : pc[p] = "install" /\ at[p] = "verifying" => file["proving"] # NoKey

OverlapInv == TypeOK /\ Drawn /\ HalfInstalled /\ InstallOrder

\* The initial state satisfies the invariant: no file, no process started.
LEMMA OverlapInit == Init => OverlapInv
  BY FaultsAssumption
  DEF Init, OverlapInv, TypeOK, VarTypes, FilesClosed, Drawn, HalfInstalled, InstallOrder, Steps, Saving,
      Kinds, KeyOrNone, Material, Contents, Memory, Empty, NoPair, Pair

\* Writing one part of one file leaves the table of file contents well typed.
LEMMA WriteTyped ==
  ASSUME NEW d \in [Kinds -> [Keys -> Contents]], NEW kind \in Kinds,
         NEW f, NEW k \in KeyOrNone
  PROVE  /\ [d EXCEPT ![kind][f].head = k] \in [Kinds -> [Keys -> Contents]]
         /\ [d EXCEPT ![kind][f].tail = k] \in [Kinds -> [Keys -> Contents]]
<1> DEFINE row == d[kind]
           onHead == [row EXCEPT ![f].head = k]
           onTail == [row EXCEPT ![f].tail = k]
<1>1. row \in [Keys -> Contents]
  OBVIOUS
<1>2. f \in Keys => /\ [row[f] EXCEPT !.head = k] \in Contents
                    /\ [row[f] EXCEPT !.tail = k] \in Contents
  BY <1>1 DEF Contents
<1>3. onHead \in [Keys -> Contents] /\ onTail \in [Keys -> Contents]
  BY <1>1, <1>2
<1> HIDE DEF row, onHead, onTail
<1>4. /\ [d EXCEPT ![kind] = onHead] \in [Kinds -> [Keys -> Contents]]
      /\ [d EXCEPT ![kind] = onTail] \in [Kinds -> [Keys -> Contents]]
  BY <1>3
<1> QED
  BY <1>4 DEF onHead, onTail, row

\* Every step, whatever its process, keeps the variables in their types.
LEMMA TypeStep == VarTypes /\ Drawn /\ [Next]_vars => VarTypes'
<1> SUFFICES ASSUME VarTypes, Drawn, [Next]_vars PROVE VarTypes'
  OBVIOUS
<1> USE FaultsAssumption, KeysAssumption
    DEF VarTypes, Kinds, Steps, InStore, Failed, KeyOrNone, Material, Contents, Memory,
        Goto, Handle
<1>1. CASE UNCHANGED vars
  BY <1>1 DEF vars
<1>2. ASSUME NEW p \in Procs, Start(p) PROVE VarTypes'
  BY <1>2 DEF Start
<1>3. ASSUME NEW p \in Procs, Stat(p) \/ StatError(p) PROVE VarTypes'
  <2>1. CASE Stat(p)
    BY <2>1 DEF Stat
  <2>2. CASE StatError(p)
    BY <2>2 DEF StatError
  <2> QED
    BY <1>3, <2>1, <2>2
<1>4. ASSUME NEW p \in Procs, Load(p) PROVE VarTypes'
  BY <1>4 DEF Load, ReadFrom, NoPair, Pair
<1>5. ASSUME NEW p \in Procs, Setup(p) PROVE VarTypes'
  BY <1>5 DEF Setup, Pair
<1>6. ASSUME NEW p \in Procs, Open(p) PROVE VarTypes'
  BY <1>6 DEF Open, Drawn, Saving, Pair, Empty
<1>7. ASSUME NEW p \in Procs, WriteHead(p) PROVE VarTypes'
  <2>1. mem[p][at[p]] \in KeyOrNone
    BY <1>7 DEF WriteHead, Drawn, Saving, Pair
  <2>2. data' \in [Kinds -> [Keys -> Contents]]
    <3> HIDE DEF Contents, KeyOrNone, Kinds
    <3> QED BY <1>7, <2>1, WriteTyped DEF WriteHead
  <2> QED
    BY <1>7, <2>2 DEF WriteHead
<1>8. ASSUME NEW p \in Procs, WriteTail(p) PROVE VarTypes'
  <2>1. mem[p][at[p]] \in KeyOrNone
    BY <1>8 DEF WriteTail, Drawn, Saving, Pair
  <2>2. data' \in [Kinds -> [Keys -> Contents]]
    <3> HIDE DEF Contents, KeyOrNone, Kinds
    <3> QED BY <1>8, <2>1, WriteTyped DEF WriteTail
  <2> QED
    BY <1>8, <2>2 DEF WriteTail
<1>9. ASSUME NEW p \in Procs, Install(p) PROVE VarTypes'
  <2>1. CASE tmp[at[p]] # NoKey
    BY <1>9, <2>1 DEF Install
  <2>2. CASE tmp[at[p]] = NoKey
    BY <1>9, <2>2 DEF Install, NoPair, Pair
  <2> QED
    BY <2>1, <2>2
<1>10. ASSUME NEW p \in Procs, Serve(p) \/ SetupError(p) PROVE VarTypes'
  BY <1>10 DEF Serve, SetupError
<1>11. ASSUME NEW p \in Procs, Disturb(p) PROVE VarTypes'
  BY <1>11 DEF Disturb, IoError, Crash, Exit, NoPair, Pair
<1> QED
  BY <1>1, <1>2, <1>3, <1>4, <1>5, <1>6, <1>7, <1>8, <1>9, <1>10, <1>11
  DEF Next, Step

\* A file is opened on the way to its two writes, and every way out of them
\* closes it.
LEMMA ClosedStep == TypeOK /\ Drawn /\ [Next]_vars => FilesClosed'
<1> SUFFICES ASSUME VarTypes, FilesClosed, Drawn, [Next]_vars PROVE FilesClosed'
  BY DEF TypeOK
<1> USE DEF FilesClosed, Goto
<1>0. pc \in [Procs -> Steps] /\ fd \in [Procs -> KeyOrNone]
  BY DEF VarTypes
<1>1. CASE UNCHANGED vars
  BY <1>1 DEF vars
<1>2. ASSUME NEW p \in Procs,
             \/ Start(p) \/ Stat(p) \/ StatError(p) \/ Load(p)
             \/ Setup(p) \/ Serve(p) \/ SetupError(p)
      PROVE  FilesClosed'
  BY <1>0, <1>2 DEF Start, Stat, StatError, Load, Setup, Serve, SetupError
<1>3. ASSUME NEW p \in Procs, Open(p) PROVE FilesClosed'
  <2>1. at[p] \in Kinds /\ used \subseteq Keys
    BY DEF VarTypes
  <2>2. PICK k \in used : mem[p] = Pair(k)
    BY <1>3 DEF Open, Drawn, Saving
  <2>3. mem[p][at[p]] # NoKey
    BY <2>1, <2>2, KeysAssumption DEF Pair
  <2>4. PICK f : f # NoKey /\ fd' = [fd EXCEPT ![p] = f]
    BY <1>3, <2>3 DEF Open
  <2> QED
    BY <1>0, <1>3, <2>4 DEF Open
<1>4. ASSUME NEW p \in Procs, WriteHead(p) \/ WriteTail(p) PROVE FilesClosed'
  BY <1>0, <1>4 DEF WriteHead, WriteTail
<1>5. ASSUME NEW p \in Procs, Install(p) PROVE FilesClosed'
  <2>1. /\ pc[p] = "install" /\ fd' = fd
        /\ \E step \in {"install", "ready", "installFailed"} : pc' = [pc EXCEPT ![p] = step]
    BY <1>5 DEF Install
  <2> QED
    BY <1>0, <2>1
<1>6. ASSUME NEW p \in Procs, Disturb(p) PROVE FilesClosed'
  BY <1>0, <1>6 DEF Disturb, IoError, Crash, Exit, Failed
<1> QED
  BY <1>1, <1>2, <1>3, <1>4, <1>5, <1>6 DEF Next, Step

\* Keys drawn once stay drawn, and only Setup starts a save.
LEMMA DrawnStep == TypeOK /\ Drawn /\ [Next]_vars => Drawn'
<1> SUFFICES ASSUME TypeOK, Drawn, [Next]_vars PROVE Drawn'
  OBVIOUS
<1> USE DEF TypeOK, VarTypes, Drawn, Saving, Goto, Handle
<1>1. CASE UNCHANGED vars
  BY <1>1 DEF vars
<1>2. ASSUME NEW p \in Procs, Setup(p) PROVE Drawn'
  BY <1>2 DEF Setup
<1>3. ASSUME NEW p \in Procs, Install(p) PROVE Drawn'
  <2>1. CASE tmp[at[p]] # NoKey
    BY <1>3, <2>1 DEF Install
  <2>2. CASE tmp[at[p]] = NoKey
    BY <1>3, <2>2 DEF Install
  <2> QED
    BY <2>1, <2>2
<1>4. ASSUME NEW p \in Procs, Open(p) \/ WriteHead(p) \/ WriteTail(p) PROVE Drawn'
  BY <1>4 DEF Open, WriteHead, WriteTail
<1>5. ASSUME NEW p \in Procs, Load(p) PROVE Drawn'
  BY <1>5 DEF Load
<1>6. ASSUME NEW p \in Procs,
             Start(p) \/ Stat(p) \/ StatError(p) \/ Serve(p) \/ SetupError(p)
      PROVE  Drawn'
  BY <1>6 DEF Start, Stat, StatError, Serve, SetupError
<1>7. ASSUME NEW p \in Procs, Disturb(p) PROVE Drawn'
  BY <1>7 DEF Disturb, IoError, Crash, Exit
<1> QED
  BY <1>1, <1>2, <1>3, <1>4, <1>5, <1>6, <1>7 DEF Next, Step

\* A rename is the only step that changes a final name; the proving key's
\* comes first.
LEMMA InstallStep ==
  TypeOK /\ HalfInstalled /\ InstallOrder /\ [Next]_vars => HalfInstalled' /\ InstallOrder'
<1> SUFFICES ASSUME TypeOK, HalfInstalled, InstallOrder, [Next]_vars
             PROVE  HalfInstalled' /\ InstallOrder'
  OBVIOUS
<1> USE DEF TypeOK, VarTypes, HalfInstalled, InstallOrder, Kinds, Goto, Handle
<1>1. CASE UNCHANGED vars
  BY <1>1 DEF vars
<1>2. ASSUME NEW p \in Procs, Install(p) PROVE HalfInstalled' /\ InstallOrder'
  <2>1. CASE tmp[at[p]] # NoKey
    BY <1>2, <2>1 DEF Install
  <2>2. CASE tmp[at[p]] = NoKey
    BY <1>2, <2>2 DEF Install
  <2> QED
    BY <2>1, <2>2
<1>3. ASSUME NEW p \in Procs,
             \/ Start(p) \/ Stat(p) \/ StatError(p) \/ Load(p)
             \/ Setup(p) \/ Serve(p) \/ SetupError(p)
      PROVE  HalfInstalled' /\ InstallOrder'
  BY <1>3 DEF Start, Stat, StatError, Load, Setup, Serve, SetupError
<1>4. ASSUME NEW p \in Procs, Open(p) \/ WriteHead(p) \/ WriteTail(p)
      PROVE  HalfInstalled' /\ InstallOrder'
  BY <1>4 DEF Open, WriteHead, WriteTail
<1>5. ASSUME NEW p \in Procs, Disturb(p) PROVE HalfInstalled' /\ InstallOrder'
  BY <1>5 DEF Disturb, IoError, Crash, Exit
<1> QED
  BY <1>1, <1>2, <1>3, <1>4, <1>5 DEF Next, Step

\* Every step of overlapping starts preserves the invariant.
LEMMA OverlapStep == OverlapInv /\ [Next]_vars => OverlapInv'
  BY TypeStep, ClosedStep, DrawnStep, InstallStep DEF OverlapInv, TypeOK

\* The invariant of overlapping starts holds throughout.
LEMMA OverlapInvariant == Init /\ [][Next]_vars => []OverlapInv
  BY OverlapInit, OverlapStep, PTL

\* Every variable keeps its type, and files are closed on every way out of a
\* write, however starts overlap, fail and crash.
THEOREM TypeCorrect == Spec => []TypeOK
<1>1. OverlapInv => TypeOK
  BY DEF OverlapInv
<1> QED
  BY OverlapInvariant, <1>1, PTL DEF Spec

\* However many processes race on one directory, and wherever they crash, a
\* verifying key under its final name has a proving key beside it: the two
\* stat calls of a later start never mistake an unfinished first save for
\* a finished one.
THEOREM InstallOrderHolds == Spec => []InstallOrder
<1>1. OverlapInv => InstallOrder
  BY DEF OverlapInv
<1> QED
  BY OverlapInvariant, <1>1, PTL DEF Spec
=============================================================================
