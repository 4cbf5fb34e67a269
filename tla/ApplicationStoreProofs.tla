----------------------- MODULE ApplicationStoreProofs -----------------------
(***************************************************************************)
(* The option store keeps its types, gives the file to one writer at a     *)
(* time and implements AtomicStore, for any number of processes, options   *)
(* and values.                                                             *)
(***************************************************************************)
EXTENDS ApplicationStore, TLAPS

\* The abstract launch, save and loss need to know what the file holds, hence
\* who writes it and what it truncated.
StoreInv ==
  /\ TypeOK
  /\ WriterIsAlone
  /\ writer # NoProc => disk = Text(Empty)
  /\ \A p \in Procs : pc[p] = "down" => appConfig[p] = Empty

LEMMA ContentsFacts ==
  /\ Empty \in Contents
  /\ NameOnly \in Contents
  /\ NoFile \in Files
  /\ Garbled \in Files
  /\ \A c \in Contents : Text(c) \in Files
  /\ \A d \in Files : d.config \in Contents /\ Config(d) \in Contents
  /\ \A c \in Contents, d \in Contents : Merged(c, d) \subseteq Contents
  /\ ZeroStates \in [Registers -> SUBSET Bits]
PROOF
  <1>1. Empty \in Contents
    BY DEF Empty, Contents
  <1>2. NameOnly \in Contents
    BY <1>1, StoreConstants DEF NameOnly, Contents
  <1>3. \A c \in Contents, d \in Contents : Merged(c, d) \subseteq Contents
    BY DEF Merged, Contents
  <1>4. ZeroStates \in [Registers -> SUBSET Bits]
    BY DEF ZeroStates
  <1>5. QED
    BY <1>1, <1>2, <1>3, <1>4 DEF NoFile, Garbled, Text, Files, Config

LEMMA StoreInvInit == Init => StoreInv
PROOF
  BY ContentsFacts, StoreConstants DEF Init, StoreInv, TypeOK, WriterIsAlone

LEMMA StoreInvNext == StoreInv /\ [Next]_storeVars => StoreInv'
PROOF
  <1> SUFFICES ASSUME StoreInv, [Next]_storeVars
               PROVE  StoreInv'
    OBVIOUS
  <1> USE ContentsFacts, StoreConstants DEF StoreInv, TypeOK, WriterIsAlone
  <1>1. ASSUME NEW p \in Procs, Launch(p)
        PROVE  StoreInv'
    BY <1>1 DEF Launch
  <1>2. ASSUME NEW p \in Procs, SaveApplicationOptions(p)
        PROVE  StoreInv'
    BY <1>2 DEF SaveApplicationOptions
  <1>3. ASSUME NEW p \in Procs, SaveOpen(p)
        PROVE  StoreInv'
    BY <1>3 DEF SaveOpen
  <1>4. ASSUME NEW p \in Procs, SaveOpenFails(p)
        PROVE  StoreInv'
    BY <1>4 DEF SaveOpenFails
  <1>5. ASSUME NEW p \in Procs, SaveWrite(p)
        PROVE  StoreInv'
    BY <1>5 DEF SaveWrite
  <1>6. ASSUME NEW p \in Procs, OptionStep(p)
        PROVE  StoreInv'
    <2>1. CASE \E append \in BOOLEAN : Reload(p, append)
      BY <2>1 DEF Reload
    <2>2. CASE \E o \in Options, v \in Values : SetOption(p, o, v)
      BY <2>2 DEF SetOption, Contents
    <2>3. CASE \E o \in Options : ClearSection(p, o[1])
      BY <2>3 DEF ClearSection, Contents
    <2>4. QED
      BY <1>6, <2>1, <2>2, <2>3 DEF OptionStep
  <1>7. ASSUME NEW p \in Procs, StateStep(p)
        PROVE  StoreInv'
    <2>1. ASSUME NEW s \in Nat, NEW value \in SUBSET Bits, SetState(p, s, value)
          PROVE  StoreInv'
      BY <2>1 DEF SetState, Registers, StateMax
    <2>2. ASSUME NEW s \in Nat, s <= StateMax
          PROVE  states[p][s] \in SUBSET Bits
      <3>1. s \in Registers
        BY <2>2 DEF Registers, StateMax
      <3>2. QED
        BY <3>1
    <2>3. ASSUME NEW s \in StateArgs, NEW flag \in SUBSET Bits,
                 NEW set \in BOOLEAN, SetStateFlag(p, s, flag, set)
          PROVE  StoreInv'
      BY <2>1, <2>2, <2>3 DEF SetStateFlag, SetState
    <2>4. QED
      <3>1. PICK s \in StateArgs, flag \in SUBSET Bits :
              \/ SetState(p, s, flag)
              \/ \E set \in BOOLEAN : SetStateFlag(p, s, flag, set)
        BY <1>7 DEF StateStep
      <3>2. s \in Nat
        OBVIOUS
      <3>3. CASE SetState(p, s, flag)
        BY <2>1, <3>2, <3>3
      <3>4. CASE \E set \in BOOLEAN : SetStateFlag(p, s, flag, set)
        <4>1. PICK set \in BOOLEAN : SetStateFlag(p, s, flag, set)
          BY <3>4
        <4>2. QED
          BY ONLY <2>3, <4>1, s \in StateArgs, flag \in SUBSET Bits
      <3>5. QED
        BY <3>1, <3>3, <3>4
  <1>8. ASSUME NEW p \in Procs, Stop(p)
        PROVE  StoreInv'
    BY <1>8 DEF Stop
  <1>9. CASE PowerLoss
    BY <1>9 DEF PowerLoss
  <1>10. CASE UNCHANGED storeVars
    BY <1>10 DEF storeVars
  <1>11. QED
    BY <1>1, <1>2, <1>3, <1>4, <1>5, <1>6, <1>7, <1>8, <1>9, <1>10
    DEF Next, SaveStep

\* Every behaviour of the store keeps the types of its variables.
THEOREM StoreTypeCorrect == Spec => []TypeOK
PROOF
  <1>1. StoreInv => TypeOK
    BY DEF StoreInv
  <1>2. QED
    BY StoreInvInit, StoreInvNext, <1>1, PTL DEF Spec

\* The share modes keep a save exclusive, whatever processes start, stop, fail
\* or lose power (ApplicationStore.cpp:127, 180).
THEOREM WriterExclusive == Spec => []WriterIsAlone
PROOF
  <1>1. StoreInv => WriterIsAlone
    BY DEF StoreInv
  <1>2. QED
    BY StoreInvInit, StoreInvNext, <1>1, PTL DEF Spec
-----------------------------------------------------------------------------
(* Refinement.                                                              *)

LEMMA AtomicContents ==
  /\ Atomic!Contents = Contents
  /\ Atomic!Nothing = Empty
  /\ Atomic!NameOnly = NameOnly
PROOF
  BY DEF Atomic!Contents, Atomic!Nothing, Atomic!NameOnly, Contents, Empty,
         NameOnly, NameOption, DefaultSection

LEMMA AtomicInit == Init => Atomic!Init
PROOF
  BY AtomicContents
  DEF Init, Atomic!Init, File, Config, NoFile, Running

\* A step that leaves the three mapped values alone is a stuttering step.
LEMMA AtomicStep ==
  StoreInv /\ StoreInv' /\ [Next]_storeVars => [Atomic!Next]_(Atomic!vars)
PROOF
  <1> SUFFICES ASSUME StoreInv, StoreInv', [Next]_storeVars
               PROVE  Atomic!Next \/ UNCHANGED <<File, appConfig, Running>>
    BY DEF Atomic!vars
  <1> USE DEF StoreInv, TypeOK
  <1>1. ASSUME NEW p \in Procs, Launch(p)
        PROVE  Atomic!Open(p)
    <2>1. p \notin Running /\ Running' = Running \cup {p}
      BY <1>1 DEF Launch, Running
    <2>2. File' = File
      BY <1>1 DEF Launch, File
    <2>3. appConfig = [appConfig EXCEPT ![p] = Empty]
      BY <1>1 DEF Launch
    <2>4. CanLoad => File = disk.config
      BY DEF CanLoad, CheckDataASCII, File, Config
    <2>5. \E c \in {File, NameOnly, Empty} : appConfig' = [appConfig EXCEPT ![p] = c]
      BY <1>1, <2>3, <2>4 DEF Launch
    <2>6. QED
      BY <2>1, <2>2, <2>5, AtomicContents DEF Atomic!Open
  <1>2. ASSUME NEW p \in Procs,
               SaveApplicationOptions(p) \/ SaveOpenFails(p) \/ StateStep(p)
        PROVE  UNCHANGED <<File, appConfig, Running>>
    BY <1>2 DEF SaveApplicationOptions, SaveOpenFails, StateStep, SetState,
                SetStateFlag, File, Running
  <1>3. ASSUME NEW p \in Procs, SaveOpen(p)
        PROVE  UNCHANGED <<File, appConfig, Running>>
    BY <1>3, StoreConstants DEF SaveOpen, File, Running
  <1>4. ASSUME NEW p \in Procs, SaveWrite(p)
        PROVE  Atomic!Save(p) \/ Atomic!Lose
    <2>1. p \in Running /\ Running' = Running /\ appConfig' = appConfig
      BY <1>4 DEF SaveWrite, Running
    <2>2. File' = Config(disk')
      BY <1>4 DEF SaveWrite, File
    <2>3. disk = Text(Empty)
      BY <1>4, StoreConstants DEF SaveWrite, WriterIsAlone
    <2>4. CASE disk' = Text(appConfig[p])
      BY <2>1, <2>2, <2>4 DEF Atomic!Save, Config, Text
    <2>5. CASE disk' = disk
      <3>1. File' = Empty
        BY <2>2, <2>3, <2>5 DEF Config, Text
      <3>2. /\ {} \in SUBSET Running
            /\ Running' = Running \ {}
            /\ appConfig' = [q \in Procs |-> IF q \in {} THEN Empty ELSE appConfig[q]]
        BY <2>1
      <3>3. QED
        BY <3>1, <3>2, AtomicContents DEF Atomic!Lose
    <2>6. QED
      BY <1>4, <2>4, <2>5 DEF SaveWrite
  <1>5. ASSUME NEW p \in Procs, NEW append \in BOOLEAN, Reload(p, append)
        PROVE  Atomic!Reload(p)
    <2>1. p \in Running /\ UNCHANGED <<Running, File>>
      BY <1>5 DEF Reload, Running, File
    <2> DEFINE kept == IF append THEN appConfig[p] ELSE Empty
    <2>2. PICK c \in IF CanLoad THEN Merged(kept, disk.config) ELSE {kept} :
            appConfig' = [appConfig EXCEPT ![p] = c]
      BY <1>5 DEF Reload
    <2>3. kept \in Contents /\ c \in Contents
      BY <2>2, ContentsFacts
    <2>4. CanLoad => File = disk.config
      BY DEF CanLoad, CheckDataASCII, File, Config
    <2>5. \/ c = Empty
          \/ \A o \in Options : \/ Atomic!SameSection(o[1], c, appConfig[p])
                                \/ Atomic!SameSection(o[1], c, File)
      <3>1. CASE CanLoad
        <4>1. c \in Merged(kept, File)
          BY <2>2, <2>4, <3>1
        <4>2. ASSUME NEW o \in Options
              PROVE  \/ Atomic!SameSection(o[1], c, File)
                     \/ /\ Atomic!SameSection(o[1], c, kept)
                        /\ \A q \in Options : q[1] = o[1] => File[q] = Absent
          BY <4>1 DEF Merged, Atomic!SameSection
        <4>3. CASE append
          BY <4>2, <4>3
        <4>4. CASE ~append
          BY <4>2, <4>4 DEF Empty, Atomic!SameSection
        <4>5. QED
          BY <4>3, <4>4
      <3>2. CASE ~CanLoad
        BY <2>2, <3>2 DEF Atomic!SameSection
      <3>3. QED
        BY <3>1, <3>2
    <2>6. QED
      BY <2>1, <2>2, <2>3, <2>5, AtomicContents DEF Atomic!Reload
  <1>6. ASSUME NEW p \in Procs, pc[p] = "ready", NEW o \in Options,
               \A q \in Options : q[1] # o[1] => appConfig'[p][q] = appConfig[p][q],
               appConfig' = [appConfig EXCEPT ![p] = appConfig'[p]],
               UNCHANGED <<pc, disk, writer, prior>>
        PROVE  Atomic!Put(p)
    <2>1. p \in Running /\ UNCHANGED <<Running, File>>
      BY <1>6 DEF Running, File
    <2>2. \A q \in Options :
            q[1] # o[1] => Atomic!SameSection(q[1], appConfig'[p], appConfig[p])
      BY <1>6 DEF Atomic!SameSection
    <2>3. appConfig'[p] \in Contents
      OBVIOUS
    <2>4. QED
      BY <1>6, <2>1, <2>2, <2>3, AtomicContents DEF Atomic!Put
  <1>7. ASSUME NEW p \in Procs, NEW o \in Options, NEW v \in Values, SetOption(p, o, v)
        PROVE  Atomic!Put(p)
    <2>1. /\ pc[p] = "ready"
          /\ UNCHANGED <<pc, disk, writer, prior>>
          /\ appConfig'[p] = [appConfig[p] EXCEPT ![o] = v]
          /\ appConfig' = [appConfig EXCEPT ![p] = appConfig'[p]]
      BY <1>7 DEF SetOption
    <2>2. \A q \in Options : q[1] # o[1] => appConfig'[p][q] = appConfig[p][q]
      BY <2>1 DEF Contents
    <2>3. QED
      BY <1>6, <2>1, <2>2
  <1>8. ASSUME NEW p \in Procs, NEW o \in Options, ClearSection(p, o[1])
        PROVE  Atomic!Put(p)
    <2>1. /\ pc[p] = "ready"
          /\ UNCHANGED <<pc, disk, writer, prior>>
          /\ appConfig'[p] = [q \in Options |-> IF q[1] = o[1] THEN Absent ELSE appConfig[p][q]]
          /\ appConfig' = [appConfig EXCEPT ![p] = appConfig'[p]]
      BY <1>8 DEF ClearSection
    <2>2. \A q \in Options : q[1] # o[1] => appConfig'[p][q] = appConfig[p][q]
      BY <2>1 DEF Contents
    <2>3. QED
      BY <1>6, <2>1, <2>2
  <1>9. ASSUME NEW p \in Procs, Stop(p)
        PROVE  Atomic!Lose
    <2>1. {p} \in SUBSET Running /\ Running' = Running \ {p}
      BY <1>9 DEF Stop, Running
    <2>2. appConfig' = [q \in Procs |-> IF q \in {p} THEN Empty ELSE appConfig[q]]
      BY <1>9 DEF Stop
    <2>3. File' \in {File, Empty}
      BY <1>9, StoreConstants DEF Stop, File, Config, Text
    <2>4. QED
      BY <2>1, <2>2, <2>3, AtomicContents DEF Atomic!Lose
  <1>10. CASE PowerLoss
    <2>1. Running' = Running \ Running
      BY <1>10 DEF PowerLoss, Running
    <2>2. appConfig' = [q \in Procs |-> IF q \in Running THEN Empty ELSE appConfig[q]]
      BY <1>10 DEF PowerLoss, Running
    <2>3. File' \in {File, Empty}
      BY <1>10, StoreConstants DEF PowerLoss, File, Config, Text, Garbled
    <2>4. Atomic!Lose
      BY <2>1, <2>2, <2>3, AtomicContents DEF Atomic!Lose
    <2>5. QED
      BY <2>4 DEF Atomic!Next
  <1>11. CASE UNCHANGED storeVars
    BY <1>11 DEF storeVars, File, Running
  <1>12. ASSUME NEW p \in Procs, OptionStep(p)
         PROVE  Atomic!Reload(p) \/ Atomic!Put(p)
    BY <1>5, <1>7, <1>8, <1>12 DEF OptionStep
  <1>13. ASSUME NEW p \in Procs, SaveStep(p)
         PROVE  Atomic!Save(p) \/ Atomic!Lose \/ UNCHANGED <<File, appConfig, Running>>
    BY <1>2, <1>3, <1>4, <1>13 DEF SaveStep
  <1>14. CASE \E p \in Procs :
           \/ Launch(p) \/ SaveApplicationOptions(p) \/ SaveStep(p)
           \/ OptionStep(p) \/ StateStep(p) \/ Stop(p)
    <2>1. PICK p \in Procs :
            \/ Launch(p) \/ SaveApplicationOptions(p) \/ SaveStep(p)
            \/ OptionStep(p) \/ StateStep(p) \/ Stop(p)
      BY <1>14
    <2>2. CASE Atomic!Lose \/ UNCHANGED <<File, appConfig, Running>>
      BY <2>2 DEF Atomic!Next
    <2>3. CASE Atomic!Open(p) \/ Atomic!Put(p) \/ Atomic!Reload(p) \/ Atomic!Save(p)
      BY <2>3 DEF Atomic!Next
    <2>4. QED
      BY <1>1, <1>2, <1>9, <1>12, <1>13, <2>1, <2>2, <2>3
  <1>15. QED
    BY <1>10, <1>11, <1>14 DEF Next, Atomic!Next

\* The truncating, non-atomic, unflushed save is an atomic one to every launch:
\* it sees a completed save or nothing (ApplicationStore.cpp:120-211).
THEOREM StoreIsAtomic == Spec => ImplementsAtomicStore
PROOF
  BY StoreInvInit, StoreInvNext, AtomicInit, AtomicStep, PTL
  DEF Spec, ImplementsAtomicStore, Atomic!Spec
=============================================================================
