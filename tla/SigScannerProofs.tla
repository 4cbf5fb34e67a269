-------------------------- MODULE SigScannerProofs --------------------------
(***************************************************************************)
(* The scanner's invariants, for any number of processes, signatures, keys *)
(* and addresses, any memory contents and any way the hashes collide.      *)
(***************************************************************************)
EXTENDS SigScanner, ApplicationStoreProofs

-----------------------------------------------------------------------------
(* Addresses and scans.                                                     *)

\* Rebasing and unbasing are inverse to each other at every base.
LEMMA BaseArithmetic ==
  ASSUME NEW b \in Addresses, NEW a \in Addresses
  PROVE  /\ Rebase(b, a) \in Addresses
         /\ Unbase(b, a) \in Addresses
         /\ Rebase(b, Unbase(b, a)) = a
         /\ Unbase(b, Rebase(b, a)) = a
         /\ Unbase(b, a) = 0 => a = b
PROOF
  BY ScannerConstants DEF Addresses, Rebase, Unbase

LEMMA SavedType ==
  ASSUME NEW b \in Addresses, NEW a \in Addresses
  PROVE  Saved(b, a) \in Addresses /\ Restored(b, a) \in Addresses
PROOF
  BY BaseArithmetic, ScannerConstants DEF Saved, Restored, Addresses, Null

LEMMA BeginType ==
  ASSUME ScannerTypeOK, NEW p \in Procs, NEW r \in Ranges
  PROVE  Begin(p, r) \in Addresses /\ r.size \in Nat
PROOF
  <1>1. Null \in Addresses
    BY ScannerConstants DEF Addresses, Null
  <1>2. QED
    BY <1>1, BaseArithmetic, ScannerConstants DEF ScannerTypeOK, Begin

\* What ScanUncached returns: null, or the first match in the range, which
\* is then the only possible answer.
LEMMA ScanResult ==
  ASSUME ScannerTypeOK, NEW p \in Procs, NEW s \in Sigs,
         NEW begin \in Addresses, NEW size \in Nat,
         NEW a \in ScanUncached(p, s, begin, size)
  PROVE  /\ a \in Addresses
         /\ ScanUncached(p, s, begin, size) = {a}
         /\ a # Null => /\ a \in Matches(p, s)
                        /\ begin <= a
                        /\ a < begin + size
PROOF
  <1>1. Matches(p, s) \subseteq Addresses
    BY BaseArithmetic DEF ScannerTypeOK, Matches
  <1>2. Null \in Addresses /\ Addresses \subseteq Nat
    BY ScannerConstants DEF Addresses, Null
  <1> DEFINE hits == {x \in Matches(p, s) : begin <= x /\ x < begin + size}
             first == {x \in hits : \A y \in hits : x <= y}
  <1>3. CASE begin = Null \/ hits = {}
    BY <1>2, <1>3 DEF ScanUncached
  <1>4. CASE ~(begin = Null \/ hits = {})
    <2>1. ScanUncached(p, s, begin, size) = first
      BY <1>4 DEF ScanUncached
    <2>2. a \in hits /\ \A y \in hits : a <= y
      BY <2>1
    <2>3. ASSUME NEW x \in first
          PROVE  x = a
      <3>1. x \in Nat /\ a \in Nat
        BY <1>1, <1>2, <2>2
      <3>2. x <= a /\ a <= x
        BY <2>2
      <3>3. QED
        BY <3>1, <3>2
    <2>4. first = {a}
      BY <2>1, <2>3
    <2>5. QED
      BY <1>1, <2>1, <2>2, <2>4
  <1>5. QED
    BY <1>3, <1>4

\* A match scanned for at its own address is found there.
LEMMA ScanAtMatch ==
  ASSUME ScannerTypeOK, NEW p \in Procs, NEW s \in Sigs, NEW a \in Matches(p, s)
  PROVE  ScanUncached(p, s, a, Len[s]) = {a}
PROOF
  <1>1. Matches(p, s) \subseteq Addresses /\ a # Null
    BY BaseArithmetic DEF ScannerTypeOK, Matches
  <1>2. Addresses \subseteq Nat /\ Len[s] \in Nat /\ Len[s] > 0
    BY ScannerConstants DEF Addresses
  <1> DEFINE hits == {x \in Matches(p, s) : a <= x /\ x < a + Len[s]}
  <1>3. a \in Nat /\ Matches(p, s) \subseteq Nat
    BY <1>1, <1>2
  <1>4. a \in hits
    BY <1>2, <1>3
  <1>5. ASSUME NEW x \in hits
        PROVE  a <= x
    OBVIOUS
  <1>6. ASSUME NEW x \in hits, \A y \in hits : x <= y
        PROVE  x = a
    <2>1. x <= a /\ a <= x /\ x \in Nat
      BY <1>3, <1>4, <1>6
    <2>2. QED
      BY <1>3, <2>1
  <1> HIDE DEF hits
  <1>7. {x \in hits : \A y \in hits : x <= y} = {a}
    BY <1>4, <1>5, <1>6
  <1>8. QED
    BY <1>1, <1>4, <1>7 DEF ScanUncached, hits

LEMMA ScanAtNull ==
  ASSUME NEW p \in Procs, NEW s \in Sigs
  PROVE  ScanUncached(p, s, Null, Len[s]) = {Null}
PROOF
  BY DEF ScanUncached

-----------------------------------------------------------------------------
(* The inductive invariant.                                                 *)

\* Every address in the cache was a match under its key, here or, rebased, in
\* the session that saved it.
CachedWasFound ==
  \A p \in Procs, k \in Keys :
    \/ sigCache[p][k] \in {Absent, Null}
    \/ <<k, Unbase(base[p], sigCache[p][k])>> \in found

\* Neither a cache nor an answer outlives its process.
NothingWhenDown ==
  \A p \in Procs : pc[p] = "down" => ret[p] = NoScan /\ sigCache[p] = NoCache

ScanInv ==
  /\ StoreInv
  /\ ScannerTypeOK
  /\ OnlyFoundOffsets
  /\ CachedWasFound
  /\ NothingWhenDown
  /\ RestartKeepsCache
  /\ ResultSound
  /\ RescanAgrees

LEMMA ConstantTypes ==
  /\ 0 \in Addresses
  /\ Null = 0
  /\ Addresses \subseteq Nat
  /\ Absent \notin Addresses
  /\ One \in SUBSET Bits
  /\ \A k \in Keys : KeyOption(k) \in Options /\ KeyOption(k) # NameOption
  /\ \A k \in Keys, l \in Keys : KeyOption(k) = KeyOption(l) => k = l
PROOF
  BY ScannerConstants, StoreConstants
  DEF Addresses, Null, One, KeyOption, NameOption, DefaultSection, ScannerSection

\* Neither an empty store nor one that holds only the name has offsets.
LEMMA NoOffsets == OffsetWasFound(Empty) /\ OffsetWasFound(NameOnly)
PROOF
  BY ConstantTypes, StoreConstants DEF OffsetWasFound, Empty, NameOnly

LEMMA ScanInvInit == ScannerInit => ScanInv
PROOF
  <1> SUFFICES ASSUME ScannerInit
               PROVE  ScanInv
    OBVIOUS
  <1>1. StoreInv
    BY StoreInvInit DEF ScannerInit
  <1>2. ScannerTypeOK
    BY <1>1, ConstantTypes DEF ScannerInit, ScannerTypeOK, StoreInv, NoCode, NoCache
  <1>3. OnlyFoundOffsets
    BY NoOffsets DEF ScannerInit, Init, OnlyFoundOffsets, NoFile
  <1>4. CachedWasFound /\ NothingWhenDown /\ ResultSound /\ RescanAgrees
    BY DEF ScannerInit, CachedWasFound, NothingWhenDown, ResultSound,
           RescanAgrees, NoCache
  <1>5. RestartKeepsCache
    BY DEF ScannerInit, Init, RestartKeepsCache
  <1>6. QED
    BY <1>1, <1>2, <1>3, <1>4, <1>5 DEF ScanInv

\* The steps that are steps of the store keep the store's invariant.
LEMMA StoreStepsOfScanner ==
  ASSUME StoreInv,
         \/ \E p \in Procs :
              \/ Start(p) \/ Save(p) \/ WriteMemory(p) \/ Exit(p)
              \/ \E s \in StateArgs, flag \in SUBSET Bits : SetScannerState(p, s, flag)
              \/ \E s \in Sigs, r \in Ranges : ScanCached(p, s, r)
         \/ Outage
  PROVE  StoreInv'
PROOF
  <1>1. \/ \E p \in Procs : Launch(p) \/ SaveApplicationOptions(p) \/ SaveStep(p)
                            \/ Stop(p) \/ StateStep(p)
        \/ PowerLoss \/ UNCHANGED storeVars
    BY DEF Start, Save, WriteMemory, Exit, Outage, SetScannerState, StateStep,
           ScanCached
  <1>2. [Next]_storeVars
    BY <1>1 DEF Next
  <1>3. QED
    BY <1>2, StoreInvNext

\* What a step of one process leaves true of another.
LEMMA Frame ==
  ASSUME NEW p \in Procs, ScanInv,
         base'[p] = base[p], image'[p] = image[p], sigCache'[p] = sigCache[p],
         states'[p] = states[p], found \subseteq found'
  PROVE  /\ ret'[p] = ret[p] /\ ret[p] # NoScan => AnswerSound(p)' /\ AnswerAgrees(p)'
         /\ appConfig'[p] = appConfig[p] /\ pc[p] # "down" =>
              \A k \in Keys : CacheKept(p, k)'
PROOF
  <1>1. \A s : Matches(p, s)' = Matches(p, s)
    BY DEF Matches
  <1>2. ASSUME ret'[p] = ret[p], ret[p] # NoScan
        PROVE  AnswerSound(p)'
    <2>1. AnswerSound(p)
      BY <1>2 DEF ScanInv, ResultSound
    <2>2. QED
      BY <1>1, <1>2, <2>1 DEF AnswerSound
  <1>3. ASSUME ret'[p] = ret[p], ret[p] # NoScan
        PROVE  AnswerAgrees(p)'
    <2>1. AnswerAgrees(p)
      BY <1>3 DEF ScanInv, RescanAgrees
    <2>2. \A s, begin, size : ScanUncached(p, s, begin, size)' = ScanUncached(p, s, begin, size)
      BY <1>1 DEF ScanUncached
    <2>3. CacheHit(p, KeyOf[ret[p].sig], ret[p].begin, ret[p].size)'
      BY <1>3, <2>1 DEF AnswerAgrees, CacheHit
    <2>4. CachedAnswer(p, ret[p].sig)' = CachedAnswer(p, ret[p].sig)
      BY <1>1, <1>3 DEF CachedAnswer, ScanUncached
    <2>5. QED
      BY <1>3, <2>1, <2>3, <2>4 DEF AnswerAgrees
  <1>4. ASSUME appConfig'[p] = appConfig[p], pc[p] # "down", NEW k \in Keys
        PROVE  CacheKept(p, k)'
    <2>1. CacheKept(p, k)
      BY <1>4 DEF ScanInv, RestartKeepsCache
    <2>2. QED
      BY <1>4, <2>1 DEF CacheKept, InitSigScanner
  <1>5. QED
    BY <1>2, <1>3, <1>4

\* Steps that leave the scanner's own part alone and take options and file
\* contents from where they already were.
LEMMA SavePreserves ==
  ASSUME ScanInv, NEW p \in Procs, Save(p)
  PROVE  ScanInv'
PROOF
  <1> USE DEF ScanInv
  <1>1. StoreInv' /\ UNCHANGED sigVars
    BY StoreStepsOfScanner DEF Save
  <1>2. UNCHANGED <<appConfig, states>> /\ \A q \in Procs : pc'[q] = "down" => pc[q] = "down"
    BY DEF Save, SaveStep, SaveApplicationOptions, SaveOpen, SaveOpenFails,
           SaveWrite, StoreInv, TypeOK
  <1>3. disk' \in {disk, Text(Empty), Text(appConfig[p])} /\ prior' \in {prior, disk, NoFile}
    BY DEF Save, SaveStep, SaveApplicationOptions, SaveOpen, SaveOpenFails, SaveWrite
  <1>4. ScannerTypeOK'
    BY <1>1 DEF ScannerTypeOK, StoreInv, sigVars
  <1>5. OnlyFoundOffsets'
    BY <1>1, <1>2, <1>3, NoOffsets
    DEF OnlyFoundOffsets, OffsetWasFound, Text, NoFile, sigVars
  <1>6. CachedWasFound' /\ NothingWhenDown'
    BY <1>1, <1>2 DEF CachedWasFound, NothingWhenDown, sigVars
  <1>7. RestartKeepsCache' /\ ResultSound' /\ RescanAgrees'
    <2>1. /\ UNCHANGED <<base, image, sigCache, states, ret, found, appConfig>>
          /\ \A q \in Procs : pc'[q] # "down" => pc[q] # "down"
      BY <1>1, <1>2 DEF sigVars, Save, SaveStep, SaveApplicationOptions, SaveOpen,
                        SaveOpenFails, SaveWrite, StoreInv, TypeOK
    <2>2. QED
      BY <2>1, Frame DEF RestartKeepsCache, ResultSound, RescanAgrees
  <1>8. QED
    BY <1>1, <1>4, <1>5, <1>6, <1>7

LEMMA StartPreserves ==
  ASSUME ScanInv, NEW p \in Procs, Start(p)
  PROVE  ScanInv'
PROOF
  <1> USE DEF ScanInv
  <1>1. StoreInv'
    BY StoreStepsOfScanner
  <1>2. PICK b \in Bases, m \in Images :
          /\ base' = [base EXCEPT ![p] = b]
          /\ image' = [image EXCEPT ![p] = m]
          /\ sigCache' = [sigCache EXCEPT ![p] = InitSigScanner(b, appConfig'[p])]
    BY DEF Start
  <1>3. /\ UNCHANGED <<states, disk, prior, ret, found>>
        /\ appConfig' = [appConfig EXCEPT ![p] = appConfig'[p]]
        /\ appConfig'[p] \in {Empty, disk.config, NameOnly}
        /\ pc[p] = "down" /\ \A q \in Procs \ {p} : pc'[q] = pc[q]
    BY DEF Start, Launch, StoreInv, TypeOK
  <1>4. OffsetWasFound(appConfig'[p])
    BY <1>3, NoOffsets DEF OnlyFoundOffsets
  <1>5. \A k \in Keys : appConfig'[p][KeyOption(k)] \in Addresses \cup {Absent}
    BY <1>4, ConstantTypes DEF OffsetWasFound, ScannerTypeOK
  <1>6. InitSigScanner(b, appConfig'[p]) \in [Keys -> Addresses \cup {Absent}]
    <2>1. ASSUME NEW k \in Keys, appConfig'[p][KeyOption(k)] # Absent
          PROVE  Restored(b, appConfig'[p][KeyOption(k)]) \in Addresses
      BY <1>5, <2>1, SavedType, ScannerConstants
    <2>2. QED
      BY <2>1 DEF InitSigScanner
  <1>7. ScannerTypeOK'
    BY <1>1, <1>2, <1>3, <1>6, ScannerConstants DEF ScannerTypeOK, StoreInv
  <1>8. OnlyFoundOffsets'
    BY <1>3, <1>4 DEF OnlyFoundOffsets, OffsetWasFound, StoreInv, TypeOK
  <1>9. CachedWasFound'
    <2>1. ASSUME NEW k \in Keys, InitSigScanner(b, appConfig'[p])[k] \notin {Absent, Null}
          PROVE  <<k, Unbase(b, InitSigScanner(b, appConfig'[p])[k])>> \in found
      <3> DEFINE off == appConfig'[p][KeyOption(k)]
      <3>1. off \in Addresses /\ off # 0
            /\ InitSigScanner(b, appConfig'[p])[k] = Rebase(b, off)
        BY <1>5, <2>1 DEF InitSigScanner, Restored
      <3>2. Unbase(b, Rebase(b, off)) = off
        BY <3>1, BaseArithmetic, ScannerConstants
      <3>3. QED
        BY <1>4, <3>1, <3>2, ConstantTypes DEF OffsetWasFound
    <2>2. QED
      BY <1>2, <1>3, <2>1 DEF CachedWasFound, ScannerTypeOK
  <1>10. NothingWhenDown'
    <2>1. pc'[p] # "down"
      BY DEF Start, Launch, StoreInv, TypeOK
    <2>2. \A q \in Procs \ {p} : sigCache'[q] = sigCache[q]
      BY <1>2 DEF ScannerTypeOK
    <2>3. QED
      BY <1>3, <2>1, <2>2 DEF NothingWhenDown
  <1>11. RestartKeepsCache'
    <2>1. ASSUME NEW q \in Procs, q # p, NEW k \in Keys
          PROVE  /\ base'[q] = base[q] /\ sigCache'[q] = sigCache[q]
                 /\ appConfig'[q] = appConfig[q] /\ pc'[q] = pc[q]
      BY <1>2, <1>3, <2>1 DEF ScannerTypeOK, StoreInv, TypeOK
    <2>2. /\ base'[p] = b
          /\ sigCache'[p] = InitSigScanner(b, appConfig'[p])
      BY <1>2 DEF ScannerTypeOK
    <2>3. \A k \in Keys : CacheKept(p, k)'
      BY <2>2 DEF CacheKept
    <2>4. ASSUME NEW q \in Procs, q # p, NEW k \in Keys, pc'[q] # "down"
          PROVE  CacheKept(q, k)'
      <3>1. CacheKept(q, k)
        BY <2>1, <2>4 DEF RestartKeepsCache
      <3>2. QED
        BY <2>1, <2>4, <3>1 DEF CacheKept, InitSigScanner
    <2>5. QED
      BY <2>3, <2>4 DEF RestartKeepsCache
  <1>12. ResultSound' /\ RescanAgrees'
    <2>1. ASSUME NEW q \in Procs, ret'[q] # NoScan
          PROVE  q # p
      BY <1>3, <2>1 DEF NothingWhenDown
    <2>2. ASSUME NEW q \in Procs, q # p
          PROVE  base'[q] = base[q] /\ image'[q] = image[q] /\ sigCache'[q] = sigCache[q]
      BY <1>2, <2>2 DEF ScannerTypeOK
    <2>3. QED
      BY <1>3, <2>1, <2>2, Frame DEF ResultSound, RescanAgrees
  <1>13. QED
    BY <1>1, <1>7, <1>8, <1>9, <1>10, <1>11, <1>12

\* The processes in `gone` stop; the others do nothing.
Ended(gone) ==
  /\ pc' = [q \in Procs |-> IF q \in gone THEN "down" ELSE pc[q]]
  /\ appConfig' = [q \in Procs |-> IF q \in gone THEN Empty ELSE appConfig[q]]
  /\ states' = [q \in Procs |-> IF q \in gone THEN ZeroStates ELSE states[q]]
  /\ sigCache' = [q \in Procs |-> IF q \in gone THEN NoCache ELSE sigCache[q]]
  /\ ret' = [q \in Procs |-> IF q \in gone THEN NoScan ELSE ret[q]]
  /\ base' = [q \in Procs |-> IF q \in gone THEN 0 ELSE base[q]]
  /\ image' = [q \in Procs |-> IF q \in gone THEN NoCode ELSE image[q]]

\* A process that stops, or all of them: what is left is the file.
LEMMA EndPreserves ==
  ASSUME ScanInv, (\E p \in Procs : Exit(p)) \/ Outage
  PROVE  ScanInv'
PROOF
  <1> USE DEF ScanInv
  <1>1. StoreInv'
    BY StoreStepsOfScanner
  <1>2. PICK gone \in SUBSET Procs : Ended(gone)
    <2>1. ASSUME NEW p \in Procs, Exit(p)
          PROVE  Ended({p})
      BY <2>1 DEF Ended, Exit, Stop, ScannerTypeOK, StoreInv, TypeOK
    <2>2. CASE Outage
      <3>1. Ended(Procs)
        BY <2>2 DEF Ended, Outage, PowerLoss
      <3>2. QED
        BY <3>1
    <2>3. QED
      BY <2>1, <2>2
  <1>3. /\ found' = found
        /\ disk' \in {disk, Text(Empty), Garbled} /\ prior' \in {prior, NoFile}
    BY DEF Exit, Outage, Stop, PowerLoss
  <1>4. ScannerTypeOK'
    BY <1>1, <1>2, <1>3, ConstantTypes DEF Ended, ScannerTypeOK, StoreInv, NoCache, NoCode
  <1>5. OnlyFoundOffsets'
    BY <1>2, <1>3, NoOffsets
    DEF Ended, OnlyFoundOffsets, OffsetWasFound, Text, Garbled, NoFile
  <1>6. CachedWasFound' /\ NothingWhenDown'
    BY <1>2, <1>3 DEF Ended, CachedWasFound, NothingWhenDown, NoCache
  <1>7. RestartKeepsCache' /\ ResultSound' /\ RescanAgrees'
    <2>1. ASSUME NEW q \in Procs, q \notin gone
          PROVE  /\ base'[q] = base[q] /\ image'[q] = image[q]
                 /\ sigCache'[q] = sigCache[q] /\ states'[q] = states[q]
                 /\ ret'[q] = ret[q] /\ appConfig'[q] = appConfig[q] /\ pc'[q] = pc[q]
      BY <1>2, <2>1 DEF Ended
    <2>2. \A q \in gone : q \in Procs /\ pc'[q] = "down" /\ ret'[q] = NoScan
      BY <1>2 DEF Ended
    <2>3. QED
      BY <1>3, <2>1, <2>2, Frame DEF RestartKeepsCache, ResultSound, RescanAgrees
  <1>8. QED
    BY <1>1, <1>4, <1>5, <1>6, <1>7

\* A write to memory or to a register voids the answer of its process only.
LEMMA CodePreserves ==
  ASSUME ScanInv, NEW p \in Procs,
         \/ WriteMemory(p)
         \/ \E s \in StateArgs, flag \in SUBSET Bits : SetScannerState(p, s, flag)
  PROVE  ScanInv'
PROOF
  <1> USE DEF ScanInv
  <1>1. StoreInv'
    BY StoreStepsOfScanner
  <1>2. /\ UNCHANGED <<pc, appConfig, disk, prior, base, sigCache, found>>
        /\ ret' = [ret EXCEPT ![p] = NoScan]
    BY DEF WriteMemory, SetScannerState, SetState, storeVars
  <1>3. image' \in [Procs -> [Sigs -> SUBSET Addresses]]
    BY ScannerConstants DEF WriteMemory, SetScannerState, ScannerTypeOK
  <1>4. \A q \in Procs \ {p} : states'[q] = states[q] /\ image'[q] = image[q]
    BY DEF WriteMemory, SetScannerState, SetState, storeVars, ScannerTypeOK,
           StoreInv, TypeOK
  <1>5. ScannerTypeOK'
    BY <1>1, <1>2, <1>3 DEF ScannerTypeOK, StoreInv
  <1>6. OnlyFoundOffsets' /\ CachedWasFound' /\ NothingWhenDown'
    BY <1>2 DEF OnlyFoundOffsets, OffsetWasFound, CachedWasFound, NothingWhenDown,
                ScannerTypeOK
  <1>7. RestartKeepsCache'
    BY <1>2 DEF RestartKeepsCache, CacheKept, InitSigScanner
  <1>8. ResultSound' /\ RescanAgrees'
    <2>1. ret'[p] = NoScan /\ \A q \in Procs \ {p} : ret'[q] = ret[q]
      BY <1>2 DEF ScannerTypeOK
    <2>2. QED
      BY <1>2, <1>4, <2>1, Frame DEF ResultSound, RescanAgrees
  <1>9. QED
    BY <1>1, <1>5, <1>6, <1>7, <1>8

\* An answer from the cache: a cached match in the range or, validated, the
\* first match within a pattern's length of it, or null.
LEMMA CachedAnswerFacts ==
  ASSUME ScanInv, NEW p \in Procs, NEW s \in Sigs,
         NEW begin \in Addresses, NEW size \in Nat,
         CacheHit(p, KeyOf[s], begin, size), NEW a \in CachedAnswer(p, s)
  PROVE  /\ a \in Addresses
         /\ CachedAnswer(p, s) = {a}
         /\ a # Null => /\ begin <= a
                        /\ a < begin + size + Len[s] - 1
                        /\ \/ a \in Matches(p, s)
                           \/ /\ states[p][SkipSigValidation] # {}
                              /\ <<KeyOf[s], Unbase(base[p], a)>> \in found
PROOF
  <1> DEFINE c == sigCache[p][KeyOf[s]]
  <1>1. /\ c \in Addresses
        /\ c # Null => begin <= c /\ c < begin + size
    BY ScannerConstants DEF CacheHit, ScanInv, ScannerTypeOK
  <1>2. /\ Addresses \subseteq Nat
        /\ Len[s] \in Nat /\ Len[s] > 0
        /\ KeyOf[s] \in Keys
    BY ConstantTypes, ScannerConstants
  <1>3. CASE states[p][SkipSigValidation] # {}
    <2>1. a = c /\ CachedAnswer(p, s) = {a}
      BY <1>3 DEF CachedAnswer
    <2>2. a # Null => <<KeyOf[s], Unbase(base[p], a)>> \in found
      BY <1>1, <1>2, <2>1, ConstantTypes DEF ScanInv, CachedWasFound
    <2>3. a # Null => a < begin + size + Len[s] - 1
      BY <1>1, <1>2, <2>1
    <2>4. QED
      BY <1>1, <1>3, <2>1, <2>2, <2>3
  <1>4. CASE states[p][SkipSigValidation] = {}
    <2>1. CachedAnswer(p, s) = ScanUncached(p, s, c, Len[s])
      BY <1>4 DEF CachedAnswer
    <2>2. c \in Addresses /\ Len[s] \in Nat /\ a \in ScanUncached(p, s, c, Len[s])
      BY <1>1, <1>2, <2>1
    <2> HIDE DEF c
    <2>3. /\ a \in Addresses
          /\ ScanUncached(p, s, c, Len[s]) = {a}
          /\ a # Null => a \in Matches(p, s) /\ c <= a /\ a < c + Len[s]
      BY <2>2, ScanResult DEF ScanInv
    <2>4. a # Null => c # Null
      BY <2>2 DEF ScanUncached
    <2>5. begin \in Nat /\ c \in Nat /\ a \in Nat
      BY <1>2, <2>2, <2>3
    <2>6. a # Null => begin <= a /\ a < begin + size + Len[s] - 1
      BY <1>1, <1>2, <2>3, <2>4, <2>5
    <2>7. QED
      BY <2>1, <2>3, <2>6
  <1>5. QED
    BY <1>3, <1>4

LEMMA ScanCachedPreserves ==
  ASSUME ScanInv, NEW p \in Procs, NEW s \in Sigs, NEW r \in Ranges, ScanCached(p, s, r)
  PROVE  ScanInv'
PROOF
  <1> USE DEF ScanInv
  <1> DEFINE begin == Begin(p, r)
  <1>1. StoreInv'
    BY StoreStepsOfScanner
  <1>2. PICK a \in CachedAnswer(p, s) : ret' = [ret EXCEPT ![p] = Result(s, begin, r.size, a)]
    BY DEF ScanCached
  <1>3. /\ pc[p] = "ready" /\ CacheHit(p, KeyOf[s], begin, r.size)
        /\ UNCHANGED <<pc, appConfig, states, disk, prior, base, image, sigCache, found>>
    BY DEF ScanCached, storeVars
  <1>4. begin \in Addresses /\ r.size \in Nat
    BY BeginType
  <1>5. /\ a \in Addresses
        /\ CachedAnswer(p, s) = {a}
        /\ a # Null => /\ begin <= a
                       /\ a < begin + r.size + Len[s] - 1
                       /\ \/ a \in Matches(p, s)
                          \/ /\ states[p][SkipSigValidation] # {}
                             /\ <<KeyOf[s], Unbase(base[p], a)>> \in found
    BY <1>3, <1>4, CachedAnswerFacts
  <1>6. Result(s, begin, r.size, a) \in Results
    BY <1>4, <1>5 DEF Result, Results
  <1>7. ScannerTypeOK'
    BY <1>1, <1>2, <1>3, <1>6 DEF ScannerTypeOK, StoreInv
  <1>8. OnlyFoundOffsets' /\ CachedWasFound' /\ RestartKeepsCache'
    BY <1>3 DEF OnlyFoundOffsets, OffsetWasFound, CachedWasFound, RestartKeepsCache,
                CacheKept, InitSigScanner
  <1>9. /\ ret'[p] = Result(s, begin, r.size, a)
        /\ \A q \in Procs \ {p} : ret'[q] = ret[q]
    BY <1>2 DEF ScannerTypeOK
  <1>10. NothingWhenDown'
    BY <1>3, <1>9 DEF NothingWhenDown
  <1>11. AnswerSound(p)'
    BY <1>3, <1>5, <1>9 DEF AnswerSound, Result, Matches
  <1>12. AnswerAgrees(p)'
    <2>1. /\ ret'[p].sig = s /\ ret'[p].addr = a
          /\ ret'[p].begin = begin /\ ret'[p].size = r.size
      BY <1>9 DEF Result
    <2> HIDE DEF begin
    <2>2. CacheHit(p, KeyOf[ret[p].sig], ret[p].begin, ret[p].size)'
      BY <1>3, <2>1 DEF CacheHit
    <2>3. CachedAnswer(p, s)' = {a}
      BY <1>3, <1>5 DEF CachedAnswer, ScanUncached, Matches
    <2>4. QED
      BY <2>1, <2>2, <2>3 DEF AnswerAgrees
  <1>13. ResultSound' /\ RescanAgrees'
    BY <1>3, <1>9, <1>11, <1>12, Frame DEF ResultSound, RescanAgrees
  <1>14. QED
    BY <1>1, <1>7, <1>8, <1>10, <1>13

\* What is saved for an address gives the address back at the same base, the
\* base itself excepted.
LEMMA SavedRestored ==
  ASSUME NEW b \in Addresses, NEW a \in Addresses
  PROVE  \/ Restored(b, Saved(b, a)) = a
         \/ a = b /\ Saved(b, a) = 0
PROOF
  <1>1. CASE a = Null
    BY <1>1, ConstantTypes DEF Saved, Restored
  <1>2. CASE a # Null /\ Unbase(b, a) = 0
    BY <1>2, BaseArithmetic DEF Saved
  <1>3. CASE a # Null /\ Unbase(b, a) # 0
    BY <1>3, BaseArithmetic DEF Saved, Restored
  <1>4. QED
    BY <1>1, <1>2, <1>3

LEMMA ScanFreshPreserves ==
  ASSUME ScanInv, NEW p \in Procs, NEW s \in Sigs, NEW r \in Ranges, ScanFresh(p, s, r)
  PROVE  ScanInv'
PROOF
  <1> USE DEF ScanInv
  <1> DEFINE begin == Begin(p, r)
             k == KeyOf[s]
  <1>1. PICK a \in ScanUncached(p, s, begin, r.size) :
          /\ CommitSignatureCache(p, k, a)
          /\ ret' = [ret EXCEPT ![p] = Result(s, begin, r.size, a)]
          /\ found' = IF a = Null THEN found ELSE found \cup {<<k, Unbase(base[p], a)>>}
          /\ states' = IF a = Null /\ begin # Null
                       THEN [states EXCEPT ![p][InitSigScanFailed] = One]
                       ELSE states
    BY DEF ScanFresh
  <1>2. /\ pc[p] = "ready"
        /\ sigCache' = [sigCache EXCEPT ![p][k] = a]
        /\ appConfig' = [appConfig EXCEPT ![p][KeyOption(k)] = Saved(base[p], a)]
        /\ pc' = [pc EXCEPT ![p] = "open"]
        /\ UNCHANGED <<hasPath, disk, writer, prior, base, image>>
    BY <1>1 DEF ScanFresh, CommitSignatureCache
  <1>3. begin \in Addresses /\ r.size \in Nat /\ k \in Keys /\ base[p] \in Addresses
    BY BeginType, ScannerConstants DEF ScannerTypeOK
  <1>4. /\ a \in Addresses
        /\ ScanUncached(p, s, begin, r.size) = {a}
        /\ a # Null => a \in Matches(p, s) /\ begin <= a /\ a < begin + r.size
    <2> HIDE DEF begin
    <2>1. QED
      BY <1>3, ScanResult
  <1> HIDE DEF begin, k
  <1>5. /\ Saved(base[p], a) \in Addresses
        /\ Unbase(base[p], a) \in Addresses
    BY <1>3, <1>4, SavedType, BaseArithmetic
  <1>6. states' \in [Procs -> [Registers -> SUBSET Bits]]
    BY <1>1, ConstantTypes DEF StoreInv, TypeOK, InitSigScanFailed, Registers, StateMax
  <1>7. appConfig' \in [Procs -> Contents]
    BY <1>2, <1>5, ScannerConstants DEF StoreInv, TypeOK, Contents
  <1>8. StoreInv'
    BY <1>2, <1>6, <1>7 DEF StoreInv, TypeOK, WriterIsAlone
  <1>9. ScannerTypeOK'
    <2>1. Result(s, begin, r.size, a) \in Results
      BY <1>3, <1>4 DEF Result, Results
    <2>2. found' \subseteq Keys \X Addresses
      BY <1>1, <1>3, <1>5 DEF ScannerTypeOK
    <2>3. sigCache' \in [Procs -> [Keys -> Addresses \cup {Absent}]]
      BY <1>2, <1>3, <1>4 DEF ScannerTypeOK
    <2>4. QED
      BY <1>1, <1>2, <1>8, <2>1, <2>2, <2>3 DEF ScannerTypeOK, StoreInv
  <1>10. OnlyFoundOffsets'
    <2>1. /\ found \subseteq found'
          /\ Saved(base[p], a) = 0 \/ <<k, Saved(base[p], a)>> \in found'
      BY <1>1 DEF Saved
    <2>2. ASSUME NEW l \in Keys
          PROVE  \/ appConfig'[p][KeyOption(l)] \in {Absent, 0}
                 \/ <<l, appConfig'[p][KeyOption(l)]>> \in found'
      <3>1. CASE l = k
        <4>1. appConfig'[p][KeyOption(k)] = Saved(base[p], a)
          BY <1>2, <1>3, ConstantTypes DEF StoreInv, TypeOK, Contents
        <4>2. QED
          BY <2>1, <3>1, <4>1
      <3>2. CASE l # k
        <4>1. appConfig'[p][KeyOption(l)] = appConfig[p][KeyOption(l)]
          BY <1>2, <1>3, <3>2, ConstantTypes DEF StoreInv, TypeOK, Contents
        <4>2. QED
          BY <2>1, <4>1 DEF OnlyFoundOffsets, OffsetWasFound
      <3>3. QED
        BY <3>1, <3>2
    <2>3. ASSUME NEW q \in Procs, q # p
          PROVE  appConfig'[q] = appConfig[q]
      BY <1>2, <2>3 DEF StoreInv, TypeOK
    <2>4. QED
      BY <1>2, <2>1, <2>2, <2>3 DEF OnlyFoundOffsets, OffsetWasFound
  <1>11. CachedWasFound'
    <2>1. /\ found \subseteq found'
          /\ a = Null \/ <<k, Unbase(base[p], a)>> \in found'
      BY <1>1
    <2>2. ASSUME NEW q \in Procs, NEW l \in Keys
          PROVE  sigCache'[q][l] = IF q = p /\ l = k THEN a ELSE sigCache[q][l]
      BY <1>2, <1>3 DEF ScannerTypeOK
    <2>3. QED
      BY <1>2, <2>1, <2>2 DEF CachedWasFound
  <1>12. /\ ret'[p] = Result(s, begin, r.size, a) /\ pc'[p] = "open"
         /\ sigCache'[p][k] = a
         /\ states'[p][SkipSigValidation] = states[p][SkipSigValidation]
    BY <1>1, <1>2, <1>3
    DEF ScannerTypeOK, StoreInv, TypeOK, SkipSigValidation, InitSigScanFailed,
        Registers, StateMax
  <1>13. ASSUME NEW q \in Procs, q # p
         PROVE  /\ ret'[q] = ret[q] /\ states'[q] = states[q] /\ pc'[q] = pc[q]
                /\ sigCache'[q] = sigCache[q] /\ appConfig'[q] = appConfig[q]
    BY <1>1, <1>2, <1>13 DEF ScannerTypeOK, StoreInv, TypeOK
  <1>14. NothingWhenDown'
    BY <1>12, <1>13 DEF NothingWhenDown
  <1>15. RestartKeepsCache'
    <2>1. ASSUME NEW l \in Keys
          PROVE  CacheKept(p, l)'
      <3>1. CASE l = k
        <4>1. /\ appConfig'[p][KeyOption(k)] = Saved(base[p], a)
              /\ Saved(base[p], a) # Absent
          BY <1>2, <1>3, <1>5, ConstantTypes DEF StoreInv, TypeOK, Contents
        <4>2. \/ Restored(base[p], Saved(base[p], a)) = a
              \/ a = base[p] /\ Saved(base[p], a) = 0
          BY <1>3, <1>4, SavedRestored
        <4>3. QED
          BY <1>2, <1>3, <1>12, <3>1, <4>1, <4>2 DEF CacheKept, InitSigScanner
      <3>2. CASE l # k
        <4>1. /\ appConfig'[p][KeyOption(l)] = appConfig[p][KeyOption(l)]
              /\ sigCache'[p][l] = sigCache[p][l]
          BY <1>2, <1>3, <3>2, ConstantTypes DEF StoreInv, TypeOK, Contents, ScannerTypeOK
        <4>2. CacheKept(p, l)
          BY <1>2 DEF RestartKeepsCache
        <4>3. QED
          BY <1>2, <4>1, <4>2 DEF CacheKept, InitSigScanner
      <3>3. QED
        BY <3>1, <3>2
    <2>2. ASSUME NEW q \in Procs, q # p, NEW l \in Keys, pc'[q] # "down"
          PROVE  CacheKept(q, l)'
      <3>1. CacheKept(q, l)
        BY <1>13, <2>2 DEF RestartKeepsCache
      <3>2. QED
        BY <1>2, <1>13, <2>2, <3>1 DEF CacheKept, InitSigScanner
    <2>3. QED
      BY <2>1, <2>2 DEF RestartKeepsCache
  <1>16. AnswerSound(p)'
    <2>1. Len[s] \in Nat /\ Len[s] > 0 /\ a \in Nat /\ begin \in Nat
      BY <1>3, <1>4, ConstantTypes, ScannerConstants
    <2>2. a # Null => a < begin + r.size + Len[s] - 1
      BY <1>3, <1>4, <2>1
    <2>3. Matches(p, s)' = Matches(p, s)
      BY <1>2 DEF Matches
    <2>4. /\ ret'[p].sig = s /\ ret'[p].addr = a
          /\ ret'[p].begin = begin /\ ret'[p].size = r.size
      BY <1>12 DEF Result
    <2>5. QED
      BY <1>4, <2>2, <2>3, <2>4 DEF AnswerSound
  <1>17. AnswerAgrees(p)'
    <2>1. /\ ret'[p].sig = s /\ ret'[p].addr = a
          /\ ret'[p].begin = begin /\ ret'[p].size = r.size
      BY <1>12 DEF Result
    <2>2. CacheHit(p, KeyOf[ret[p].sig], ret[p].begin, ret[p].size)'
      BY <1>4, <1>12, <2>1, ConstantTypes DEF CacheHit, k
    <2>3. ScanUncached(p, s, a, Len[s]) = {a}
      BY <1>4, ScanAtMatch, ScanAtNull
    <2>4. CachedAnswer(p, s)' = IF states[p][SkipSigValidation] # {} THEN {a}
                                ELSE ScanUncached(p, s, a, Len[s])
      BY <1>2, <1>12 DEF CachedAnswer, ScanUncached, Matches, k
    <2>5. QED
      BY <2>1, <2>2, <2>3, <2>4 DEF AnswerAgrees
  <1>18. ResultSound' /\ RescanAgrees'
    <2>1. found \subseteq found'
      BY <1>1
    <2>2. QED
      BY <1>2, <1>13, <1>16, <1>17, <2>1, Frame DEF ResultSound, RescanAgrees
  <1>19. QED
    BY <1>8, <1>9, <1>10, <1>11, <1>14, <1>15, <1>18

LEMMA StutterPreserves ==
  ASSUME ScanInv, UNCHANGED vars
  PROVE  ScanInv'
PROOF
  <1> USE DEF ScanInv, vars, storeVars, sigVars
  <1>1. StoreInv'
    BY StoreInvNext
  <1>2. ScannerTypeOK'
    BY <1>1 DEF ScannerTypeOK, StoreInv
  <1>3. OnlyFoundOffsets' /\ CachedWasFound' /\ NothingWhenDown'
    BY DEF OnlyFoundOffsets, OffsetWasFound, CachedWasFound, NothingWhenDown
  <1>4. RestartKeepsCache' /\ ResultSound' /\ RescanAgrees'
    BY Frame DEF RestartKeepsCache, ResultSound, RescanAgrees
  <1>5. QED
    BY <1>1, <1>2, <1>3, <1>4

LEMMA ScanInvNext == ScanInv /\ [ScannerNext]_vars => ScanInv'
PROOF
  <1> SUFFICES ASSUME ScanInv, [ScannerNext]_vars
               PROVE  ScanInv'
    OBVIOUS
  <1>1. ASSUME NEW p \in Procs, NEW s \in Sigs, NEW r \in Ranges,
               ScanCached(p, s, r) \/ ScanFresh(p, s, r)
        PROVE  ScanInv'
    BY <1>1, ScanCachedPreserves, ScanFreshPreserves
  <1>2. ASSUME NEW p \in Procs,
               \/ Start(p) \/ Save(p) \/ WriteMemory(p)
               \/ \E s \in StateArgs, flag \in SUBSET Bits : SetScannerState(p, s, flag)
        PROVE  ScanInv'
    BY <1>2, StartPreserves, SavePreserves, CodePreserves
  <1>3. CASE (\E p \in Procs : Exit(p)) \/ Outage
    BY <1>3, EndPreserves
  <1>4. CASE UNCHANGED vars
    BY <1>4, StutterPreserves
  <1>5. QED
    BY <1>1, <1>2, <1>3, <1>4 DEF ScannerNext

\* Every behaviour of the scanner keeps the types of its variables.
THEOREM ScannerTypeCorrect == ScannerSpec => []ScannerTypeOK
PROOF
  <1>1. ScanInv => ScannerTypeOK
    BY DEF ScanInv
  <1>2. QED
    BY ScanInvInit, ScanInvNext, <1>1, PTL DEF ScannerSpec

\* Across processes, sessions, bases, crashes and failed saves, every offset in
\* memory or in the file other than 0 was found under its key
\* (SigScanner.cpp:71-93, 182-200).
THEOREM OffsetsAreFound == ScannerSpec => []OnlyFoundOffsets
PROOF
  <1>1. ScanInv => OnlyFoundOffsets
    BY DEF ScanInv
  <1>2. QED
    BY ScanInvInit, ScanInvNext, <1>1, PTL DEF ScannerSpec

\* The cache of a process is what its options would give back at its base, the
\* module base itself excepted (SigScanner.cpp:84-89, 184-198).
THEOREM CacheSurvivesRestart == ScannerSpec => []RestartKeepsCache
PROOF
  <1>1. ScanInv => RestartKeepsCache
    BY DEF ScanInv
  <1>2. QED
    BY ScanInvInit, ScanInvNext, <1>1, PTL DEF ScannerSpec

\* A non-null answer is a match, now or, unvalidated, when it was found, and
\* lies less than a pattern's length past the range (SigScanner.cpp:101-127).
THEOREM AnswersAreSound == ScannerSpec => []ResultSound
PROOF
  <1>1. ScanInv => ResultSound
    BY DEF ScanInv
  <1>2. QED
    BY ScanInvInit, ScanInvNext, <1>1, PTL DEF ScannerSpec

\* The same scan gives the same answer as long as the memory and the switch
\* stay as they are (SigScanner.cpp:107-121).
THEOREM AnswersAreStable == ScannerSpec => []RescanAgrees
PROOF
  <1>1. ScanInv => RescanAgrees
    BY DEF ScanInv
  <1>2. QED
    BY ScanInvInit, ScanInvNext, <1>1, PTL DEF ScannerSpec

-----------------------------------------------------------------------------
(* The scanner as a client of the store.                                    *)

LEMMA ScannerAtomicStep ==
  ScanInv /\ ScanInv' /\ [ScannerNext]_vars => [Atomic!Next]_(Atomic!vars)
PROOF
  <1> SUFFICES ASSUME ScanInv, ScanInv', [ScannerNext]_vars
               PROVE  [Atomic!Next]_(Atomic!vars)
    OBVIOUS
  <1>1. CASE [Next]_storeVars
    BY <1>1, AtomicStep DEF ScanInv
  <1>2. ASSUME NEW p \in Procs, NEW s \in Sigs, NEW r \in Ranges, ScanFresh(p, s, r)
        PROVE  Atomic!Put(p)
    <2> DEFINE o == KeyOption(KeyOf[s])
    <2>1. PICK v : /\ appConfig' = [appConfig EXCEPT ![p][o] = v]
                   /\ pc' = [pc EXCEPT ![p] = "open"]
      BY <1>2 DEF ScanFresh, CommitSignatureCache
    <2>2. o \in Options
      BY ScannerConstants
    <2>3. p \in Running /\ UNCHANGED <<Running, File>>
      BY <1>2, <2>1 DEF ScanFresh, Running, File, ScanInv, StoreInv, TypeOK
    <2>4. appConfig'[p] \in Contents
      BY DEF ScanInv, StoreInv, TypeOK
    <2>5. /\ appConfig' = [appConfig EXCEPT ![p] = appConfig'[p]]
          /\ \A q \in Options : q # o => appConfig'[p][q] = appConfig[p][q]
      BY <2>1 DEF ScanInv, StoreInv, TypeOK, Contents
    <2>6. \A q \in Options :
            q[1] # o[1] => Atomic!SameSection(q[1], appConfig'[p], appConfig[p])
      BY <2>5 DEF Atomic!SameSection
    <2> HIDE DEF o
    <2>7. QED
      BY <2>2, <2>3, <2>4, <2>5, <2>6, AtomicContents DEF Atomic!Put
  <1>3. [Next]_storeVars \/ \E p \in Procs, s \in Sigs, r \in Ranges : ScanFresh(p, s, r)
    BY DEF ScannerNext, Start, Save, WriteMemory, Exit, Outage, SetScannerState,
           StateStep, ScanCached, Next, vars
  <1>4. QED
    BY <1>1, <1>2, <1>3 DEF Atomic!Next

\* The store's promise holds with the scanner as its client: the options that a
\* session starts from are one completed save of the cache, or none.
THEOREM ScannerStoreIsAtomic == ScannerSpec => ImplementsAtomicStore
PROOF
  <1>1. ScannerInit => Atomic!Init
    BY AtomicInit DEF ScannerInit
  <1>2. QED
    BY ScanInvInit, ScanInvNext, <1>1, ScannerAtomicStep, PTL
    DEF ScannerSpec, ImplementsAtomicStore, Atomic!Spec
=============================================================================
