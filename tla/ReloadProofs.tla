----------------------------- MODULE ReloadProofs -----------------------------
(***************************************************************************)
(* Theorems about Reload: its invariants, and that it implements           *)
(* Publication.                                                            *)
(***************************************************************************)
EXTENDS Reload, TLAPS

\* The components share no file.
LEMMA FilesDisjoint ==
    /\ \A c \in Component : FilesOf(c) \subseteq File
    /\ \A c, d \in Component : c # d => FilesOf(c) \cap FilesOf(d) = {}
<1>1. \A c \in Component : FilesOf(c) \subseteq File
    BY DEF File
<1>2. ASSUME NEW c \in Component, NEW d \in Component, c # d
      PROVE  FilesOf(c) \cap FilesOf(d) = {}
    BY <1>2 DEF Component, FilesOf
<1> QED BY <1>1, <1>2

-----------------------------------------------------------------------------
(* The inductive invariant. *)

\* Versions come from the clock.
FromClock ==
    \A f \in File : /\ version[f] <= clock
                    /\ recorded[f] # NoVersion => recorded[f] <= clock

\* What BFE is known to have loaded is on disk and in use, file by file.
RecordedServed ==
    \A f \in File : recorded[f] = version[f] => disk[f] = version[f] /\ served[f] = version[f]

\* In a round the components whose turn is over are up to date.
EarlierCurrent ==
    at # "idle" => \A b \in Component : <<b, turn>> \in Before => Current(b)

Mutex == locked <=> at # "idle"

IInv ==
    /\ TypeOK
    /\ Mutex
    /\ FromClock
    /\ RecordedServed
    /\ CalledOnWhole
    /\ EarlierCurrent

LEMMA InitIInv == Init => IInv
<1> SUFFICES ASSUME Init PROVE IInv
    OBVIOUS
<1> USE ReloadAssumption DEF ReloadAssumption, Init, InitVersions
<1>1. TypeOK
  <2>1. 0 \in Version
      BY DEF Version
  <2>2. clock \in Version /\ crashes \in 0 .. MaxCrashes
      BY <2>1
  <2>3. version \in [File -> Version] /\ recorded \in [File -> Version \cup {NoVersion}]
      BY <2>1
  <2>4. disk \in [File -> Content] /\ served \in [File -> Content]
      BY DEF Content
  <2>5. locked \in BOOLEAN /\ at = "idle" /\ turn = "none"
      OBVIOUS
  <2> QED BY <2>2, <2>3, <2>4, <2>5 DEF TypeOK
<1>2. Mutex /\ FromClock /\ RecordedServed /\ CalledOnWhole /\ EarlierCurrent
    BY DEF Mutex, FromClock, RecordedServed, CalledOnWhole, EarlierCurrent, Version
<1> QED BY <1>1, <1>2 DEF IInv

\* A component without a new version is up to date.
LEMMA RecordedMeansCurrent ==
    ASSUME RecordedServed, NEW c \in Component, Pending(c) = {}
    PROVE  Current(c)
BY FilesDisjoint DEF RecordedServed, Pending, Current

\* A version of the clock's next value differs from every recorded one.
LEMMA ChangeIInv == ASSUME IInv, NEW S \in Footprint, Change(S) PROVE IInv'
<1> USE ReloadAssumption DEF ReloadAssumption, IInv, Change
<1>0. version' \in [File -> Version] /\ clock' \in Version
    BY DEF TypeOK, Version
<1>1. TypeOK'
    BY <1>0 DEF TypeOK
<1>2. Mutex'
    BY DEF Mutex
<1>3. FromClock'
    BY DEF TypeOK, FromClock, Version
<1>4. RecordedServed'
  <2> SUFFICES ASSUME NEW f \in File, recorded[f] = version'[f]
               PROVE  disk[f] = version'[f] /\ served[f] = version'[f]
      BY DEF RecordedServed
  <2>1. version'[f] = version[f]
      BY DEF TypeOK, FromClock, Version
  <2> QED BY <2>1 DEF RecordedServed
<1>5. at = "idle"
    BY DEF Mutex
<1>6. CalledOnWhole' /\ EarlierCurrent'
    BY <1>5 DEF CalledOnWhole, EarlierCurrent
<1> QED BY <1>1, <1>2, <1>3, <1>4, <1>6

LEMMA TickIInv == ASSUME IInv, Tick PROVE IInv'
<1> USE DEF IInv, Tick
<1>1. TypeOK'
    BY DEF TypeOK, Component
<1>2. Mutex' /\ FromClock' /\ RecordedServed' /\ CalledOnWhole'
    BY DEF Mutex, FromClock, RecordedServed, CalledOnWhole
<1>3. EarlierCurrent'
    BY DEF EarlierCurrent, Before
<1> QED BY <1>1, <1>2, <1>3

\* What the end of a round changes.
LEMMA EndIInv ==
    ASSUME End, TypeOK,
           clock' \in Version, crashes' \in 0 .. MaxCrashes, version' \in [File -> Version],
           recorded' \in [File -> Version \cup {NoVersion}],
           disk' \in [File -> Content], served' \in [File -> Content]
    PROVE  TypeOK' /\ Mutex' /\ CalledOnWhole' /\ EarlierCurrent'
BY DEF End, TypeOK, Mutex, CalledOnWhole, EarlierCurrent

\* The next turn: the component whose turn it was has to be up to date.
LEMMA ProceedIInv ==
    ASSUME IInv, at # "idle", Proceed, UNCHANGED <<clock, crashes, version>>,
           recorded' \in [File -> Version \cup {NoVersion}],
           disk' \in [File -> Content], served' \in [File -> Content],
           \A b \in Component : b = turn \/ <<b, turn>> \in Before => Current(b)'
    PROVE  TypeOK' /\ Mutex' /\ CalledOnWhole' /\ EarlierCurrent'
<1>1. CASE Successor(turn) = "none"
  <2>1. End
      BY <1>1 DEF Proceed
  <2> QED BY <2>1, EndIInv DEF IInv, TypeOK
<1>2. CASE Successor(turn) # "none"
  <2>1. at' = "check" /\ turn' = Successor(turn) /\ locked' = locked
      BY <1>2 DEF Proceed
  <2>2. turn \in Component
      BY DEF IInv, TypeOK
  <2>3. turn' \in Component
      BY <1>2, <2>1, <2>2 DEF Successor, Component
  <2>4. TypeOK'
      BY <2>1, <2>3 DEF IInv, TypeOK, Component
  <2>5. Mutex' /\ CalledOnWhole'
      BY <2>1 DEF IInv, Mutex, CalledOnWhole
  <2>6. \A b \in Component : <<b, turn'>> \in Before => b = turn \/ <<b, turn>> \in Before
      BY <1>2, <2>1, <2>2 DEF Successor, Component, Before
  <2>7. EarlierCurrent'
      BY <2>6 DEF EarlierCurrent, Before, Component
  <2> QED BY <2>4, <2>5, <2>7
<1> QED BY <1>1, <1>2

LEMMA CheckIInv == ASSUME IInv, Check PROVE IInv'
<1> USE DEF Check
<1>1. FromClock' /\ RecordedServed'
    BY DEF IInv, FromClock, RecordedServed
<1>2. CASE Pending(turn) = {}
  <2>1. turn \in Component
      BY DEF IInv, TypeOK
  <2>2. \A b \in Component : b = turn \/ <<b, turn>> \in Before => Current(b)
      BY <1>2, <2>1, RecordedMeansCurrent DEF IInv, EarlierCurrent
  <2>3. \A b \in Component : b = turn \/ <<b, turn>> \in Before => Current(b)'
      BY <2>2 DEF Current
  <2>4. TypeOK' /\ Mutex' /\ CalledOnWhole' /\ EarlierCurrent'
      BY <1>2, <2>3, ProceedIInv DEF IInv, TypeOK
  <2> QED BY <1>1, <2>4 DEF IInv
<1>3. CASE Pending(turn) # {}
  <2>1. TypeOK' /\ Mutex' /\ CalledOnWhole'
      BY <1>3 DEF IInv, TypeOK, Mutex, CalledOnWhole
  <2>2. EarlierCurrent'
      BY <1>3 DEF IInv, EarlierCurrent, Current
  <2> QED BY <1>1, <2>1, <2>2 DEF IInv
<1> QED BY <1>2, <1>3

\* Files without a new version are on disk already: the call finds all of them.
LEMMA DumpIInv == ASSUME IInv, Dump PROVE IInv'
<1> USE DEF Dump
<1>0. turn \in Component
    BY DEF IInv, TypeOK
<1>1. TypeOK'
    BY DEF IInv, TypeOK, Content
<1>2. Mutex' /\ FromClock'
    BY DEF IInv, Mutex, FromClock
<1>3. RecordedServed'
    BY DEF IInv, RecordedServed
<1>4. CalledOnWhole'
  <2> SUFFICES ASSUME NEW f \in FilesOf(turn) PROVE disk'[f] = version[f]
      BY DEF CalledOnWhole
  <2>1. f \in File
      BY <1>0, FilesDisjoint
  <2> QED BY <2>1 DEF IInv, RecordedServed, Pending
<1>5. EarlierCurrent'
    BY DEF IInv, EarlierCurrent, Current
<1> QED BY <1>1, <1>2, <1>3, <1>4, <1>5 DEF IInv

LEMMA DumpFailsIInv == ASSUME IInv, DumpFails PROVE IInv'
<1>1. PICK f \in Pending(turn), truncated \in BOOLEAN :
          disk' = [g \in File |->
                      IF g = f /\ truncated THEN Torn
                      ELSE IF g \in Pending(turn) /\ Position(g) < Position(f) THEN version[g]
                      ELSE disk[g]]
    BY DEF DumpFails
<1>2. End /\ UNCHANGED <<clock, crashes, version, recorded, served>>
    BY DEF DumpFails
<1>3. disk' \in [File -> Content]
    BY <1>1 DEF IInv, TypeOK, Content
<1>4. TypeOK' /\ Mutex' /\ CalledOnWhole' /\ EarlierCurrent'
    BY <1>2, <1>3, EndIInv DEF IInv, TypeOK
<1>5. FromClock'
    BY <1>2 DEF IInv, FromClock
<1>6. \A g \in File : recorded[g] = version[g] => disk'[g] = disk[g]
    BY <1>1 DEF Pending
<1>7. RecordedServed'
    BY <1>2, <1>6 DEF IInv, RecordedServed
<1> QED BY <1>4, <1>5, <1>7 DEF IInv

\* What a load changes: the component is up to date, the others are as they were.
LEMMA LoadCurrent ==
    ASSUME IInv, at = "call", Load, UNCHANGED <<version, disk>>
    PROVE  /\ turn \in Component
           /\ served' \in [File -> Content]
           /\ \A b \in Component : b = turn \/ Current(b) => Current(b)'
           /\ \A f \in File : served[f] = version[f] => served'[f] = version[f]
<1>1. turn \in Component
    BY DEF IInv, TypeOK
<1>2. FilesOf(turn) \subseteq File
    BY <1>1, FilesDisjoint
<1>3. served' \in [File -> Content]
    BY DEF Load, IInv, TypeOK
<1>4. \A f \in FilesOf(turn) : served'[f] = version[f]
    BY <1>2 DEF Load, IInv, CalledOnWhole
<1>5. \A f \in File : f \notin FilesOf(turn) => served'[f] = served[f]
    BY DEF Load
<1>6. \A f \in File : served[f] = version[f] => served'[f] = version[f]
    BY <1>4, <1>5
<1>7. \A b \in Component : Current(b) => Current(b)'
    BY <1>6, FilesDisjoint DEF Current
<1>8. \A b \in Component : b = turn => Current(b)'
    BY <1>4 DEF Current
<1> QED BY <1>1, <1>3, <1>6, <1>7, <1>8

LEMMA LoadedIInv == ASSUME IInv, Loaded PROVE IInv'
<1> USE DEF Loaded
<1>0. FilesOf(turn) \subseteq File
    BY LoadCurrent, FilesDisjoint
<1>1. recorded' \in [File -> Version \cup {NoVersion}]
    BY DEF IInv, TypeOK
<1>2. \A b \in Component : b = turn \/ <<b, turn>> \in Before => Current(b)'
    BY LoadCurrent DEF IInv, EarlierCurrent
<1>3. TypeOK' /\ Mutex' /\ CalledOnWhole' /\ EarlierCurrent'
    BY <1>1, <1>2, LoadCurrent, ProceedIInv DEF IInv, TypeOK
<1>4. FromClock'
    BY DEF IInv, TypeOK, FromClock
<1>5. RecordedServed'
  <2> SUFFICES ASSUME NEW f \in File, recorded'[f] = version[f]
               PROVE  disk[f] = version[f] /\ served'[f] = version[f]
      BY DEF RecordedServed
  <2>1. CASE f \in FilesOf(turn)
    <3>1. \A b \in Component : b = turn => Current(b)'
        BY LoadCurrent
    <3> QED BY <2>1, <3>1, LoadCurrent DEF IInv, CalledOnWhole, Current
  <2>2. CASE f \notin FilesOf(turn)
    <3>1. recorded[f] = version[f]
        BY <2>2
    <3> QED BY <3>1, LoadCurrent DEF IInv, RecordedServed
  <2> QED BY <2>1, <2>2
<1> QED BY <1>3, <1>4, <1>5 DEF IInv

LEMMA RefusedIInv == ASSUME IInv, Refused PROVE IInv'
<1>1. TypeOK' /\ Mutex' /\ CalledOnWhole' /\ EarlierCurrent'
    BY EndIInv DEF Refused, IInv, TypeOK
<1>2. FromClock' /\ RecordedServed'
    BY DEF Refused, IInv, FromClock, RecordedServed
<1> QED BY <1>1, <1>2 DEF IInv

LEMMA AnswerLostIInv == ASSUME IInv, AnswerLost PROVE IInv'
<1> USE DEF AnswerLost
<1>1. TypeOK' /\ Mutex' /\ CalledOnWhole' /\ EarlierCurrent'
    BY EndIInv, LoadCurrent DEF IInv, TypeOK
<1>2. FromClock'
    BY DEF IInv, FromClock
<1>3. RecordedServed'
    BY LoadCurrent DEF IInv, RecordedServed
<1> QED BY <1>1, <1>2, <1>3 DEF IInv

LEMMA RestartIInv == ASSUME IInv, Restart PROVE IInv'
<1> USE ReloadAssumption DEF ReloadAssumption, Restart, InitVersions
<1>1. disk' \in [File -> Content]
    BY DEF IInv, TypeOK, Content
<1>2. TypeOK' /\ Mutex' /\ CalledOnWhole' /\ EarlierCurrent'
  <2>1. crashes' \in 0 .. MaxCrashes
      BY DEF IInv, TypeOK
  <2>2. version' \in [File -> Version] /\ recorded' \in [File -> Version \cup {NoVersion}]
      BY DEF Version
  <2> QED BY <1>1, <2>1, <2>2, EndIInv DEF IInv, TypeOK
<1>3. FromClock'
    BY DEF IInv, TypeOK, FromClock, Version
<1>4. RecordedServed'
    BY DEF RecordedServed, Version
<1> QED BY <1>2, <1>3, <1>4 DEF IInv

LEMMA NextIInv == IInv /\ [Next]_vars => IInv'
<1> SUFFICES ASSUME IInv, [Next]_vars PROVE IInv'
    OBVIOUS
<1>1. CASE \E S \in Footprint : Change(S)
    BY <1>1, ChangeIInv
<1>2. CASE Tick
    BY <1>2, TickIInv
<1>3. CASE Check
    BY <1>3, CheckIInv
<1>4. CASE Dump
    BY <1>4, DumpIInv
<1>5. CASE DumpFails
    BY <1>5, DumpFailsIInv
<1>6. CASE Answer
    BY <1>6, LoadedIInv, RefusedIInv, AnswerLostIInv DEF Answer
<1>7. CASE Restart
    BY <1>7, RestartIInv
<1>8. CASE UNCHANGED vars
    BY <1>8 DEF vars, IInv, TypeOK, Mutex, FromClock, RecordedServed, CalledOnWhole,
                EarlierCurrent, Current
<1> QED BY <1>1, <1>2, <1>3, <1>4, <1>5, <1>6, <1>7, <1>8 DEF Next

THEOREM Invariance == Spec => []IInv
BY InitIInv, NextIInv, PTL DEF Spec

\* The state of builder, timer, disk and BFE keeps its shape.
THEOREM TypeCorrect == Spec => []TypeOK
BY Invariance, PTL DEF IInv

\* The versions tell every difference between BFE and the builder: the test at the
\* start of each Reload method suffices.
THEOREM NeverOverlooked == Spec => []NothingOverlooked
<1>1. IInv => NothingOverlooked
    BY RecordedMeansCurrent DEF IInv, NothingOverlooked
<1> QED BY <1>1, Invariance, PTL

\* BFE is called when all files of the component are those in memory.
THEOREM CalledOnWholeFiles == Spec => []CalledOnWhole
BY Invariance, PTL DEF IInv

-----------------------------------------------------------------------------
(* Refinement. *)

Contents == UNION {[FilesOf(c) -> Content] : c \in Component}

LEMMA OfType ==
    ASSUME NEW g \in [File -> Content]
    PROVE  Of(g) \in [Component -> Contents]
<1>1. ASSUME NEW c \in Component
      PROVE  [f \in FilesOf(c) |-> g[f]] \in Contents
  <2>1. [f \in FilesOf(c) |-> g[f]] \in [FilesOf(c) -> Content]
      BY FilesDisjoint
  <2> QED BY <2>1 DEF Contents
<1> QED BY <1>1 DEF Of

\* Functions that agree on the files of all components look the same.
LEMMA OfUnchanged ==
    ASSUME NEW g, NEW h, \A f \in File : g[f] = h[f]
    PROVE  Of(g) = Of(h)
<1>1. ASSUME NEW c \in Component
      PROVE  [f \in FilesOf(c) |-> g[f]] = [f \in FilesOf(c) |-> h[f]]
    BY FilesDisjoint
<1> QED BY <1>1 DEF Of

LEMMA InitRefines == Init => P!Init
<1> SUFFICES ASSUME Init PROVE P!Init
    OBVIOUS
<1>1. Of(version) = Of([f \in File |-> 0])
    BY DEF Init
<1>2. served \in [File -> Content]
    BY InitIInv DEF IInv, TypeOK
<1> QED BY <1>1, <1>2, OfType DEF P!Init, Contents

\* A load is a delivery of the component whose turn it is.
LEMMA LoadRefines ==
    ASSUME IInv, at = "call", Load, UNCHANGED version
    PROVE  P!Deliver(turn)
<1>1. turn \in Component
    BY DEF IInv, TypeOK
<1>2. ASSUME NEW b \in Component, <<b, turn>> \in Before
      PROVE  Of(served)[b] = Of(version)[b]
  <2>1. Current(b)
      BY <1>2 DEF IInv, EarlierCurrent
  <2>2. [f \in FilesOf(b) |-> served[f]] = [f \in FilesOf(b) |-> version[f]]
      BY <2>1 DEF Current
  <2> QED BY <2>2 DEF Of
<1>3. Of(served)' = [Of(served) EXCEPT ![turn] = Of(version)[turn]]
  <2>1. ASSUME NEW c \in Component, c # turn
        PROVE  [f \in FilesOf(c) |-> served'[f]] = [f \in FilesOf(c) |-> served[f]]
      BY <1>1, <2>1, FilesDisjoint DEF Load
  <2>2. [f \in FilesOf(turn) |-> served'[f]] = [f \in FilesOf(turn) |-> version[f]]
      BY <1>1, FilesDisjoint DEF Load, IInv, CalledOnWhole
  <2> QED BY <1>1, <2>1, <2>2 DEF Of
<1>4. Of(version)' = Of(version)
    BY DEF Of
<1> QED BY <1>2, <1>3, <1>4 DEF P!Deliver

LEMMA NextRefines ==
    IInv /\ IInv' /\ [Next]_vars => [P!Next]_<<Of(version), Of(served)>>
<1> SUFFICES ASSUME IInv, IInv', [Next]_vars
             PROVE  P!Next \/ UNCHANGED <<Of(version), Of(served)>>
    OBVIOUS
<1>1. ASSUME UNCHANGED <<version, served>>
      PROVE  UNCHANGED <<Of(version), Of(served)>>
    BY <1>1
<1>2. CASE \E S \in Footprint : Change(S)
  <2>1. served' = served
      BY <1>2 DEF Change
  <2>2. version' \in [File -> Content]
      BY DEF IInv, TypeOK, Content
  <2>3. Of(version)' \in [Component -> Contents]
      BY <2>2, OfType
  <2> QED BY <2>1, <2>3 DEF P!Next, P!Change, Contents
<1>3. CASE Loaded \/ AnswerLost
  <2>1. P!Deliver(turn)
      BY <1>3, LoadRefines DEF Loaded, AnswerLost
  <2>2. turn \in Component
      BY <1>3 DEF IInv, TypeOK, Loaded, AnswerLost
  <2> QED BY <2>1, <2>2 DEF P!Next
<1>4. CASE Restart
  <2>1. version' = [f \in File |-> 0]
      BY <1>4 DEF Restart
  <2>2. Of(version)' = Of([f \in File |-> 0])
      BY <2>1
  <2>3. served' \in [File -> Content]
      BY DEF IInv, TypeOK
  <2>4. Of(served)' \in [Component -> Contents]
      BY <2>3, OfType
  <2> QED BY <2>2, <2>4 DEF P!Next, P!Restart, Contents
<1>5. CASE Tick \/ Check \/ Dump \/ DumpFails \/ Refused
    BY <1>1, <1>5 DEF Tick, Check, Dump, DumpFails, Refused
<1>6. CASE UNCHANGED vars
    BY <1>1, <1>6 DEF vars
<1> QED BY <1>2, <1>3, <1>4, <1>5, <1>6 DEF Next, Answer

\* Reload implements Publication: BFE is given whole components, in order.
THEOREM Refinement == Spec => DeliversInOrder
BY InitRefines, NextRefines, Invariance, PTL DEF Spec, DeliversInOrder, P!Spec

=============================================================================
