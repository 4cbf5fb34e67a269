----------------------------- MODULE SigScanner -----------------------------
(***************************************************************************)
(* The signature scanner (SigScanner.cpp) on top of the option store: each *)
(* running game looks byte patterns up in its memory and caches every      *)
(* answer, found or not, in a map and, as an offset from the module base,  *)
(* in section "SigScanner" of the shared options file.  A new process      *)
(* reloads the cache at its own base address (InitSigScanner).             *)
(*                                                                         *)
(* Memory is what scans can see of it: for every signature, the offsets at *)
(* which it matches now.  Codes change it with WriteMemory.                *)
(***************************************************************************)
EXTENDS ApplicationStore

CONSTANTS
  Sigs,       \* the <<pattern, mask>> pairs that codes look for
  Keys,       \* the values of a SignatureKey, a pair of 32-bit hashes
  KeyOf,      \* KeyOf[s]: the key of s; two signatures may share one
  Len,        \* Len[s]: pattern_length, at least 1
  M,          \* the number of addresses; arithmetic on them wraps at M
  Bases,      \* where the loader may place the module
  Ranges,     \* [off, size]: the memory a scan covers, relative to the module
              \* base, or off = Absent for a null p_begin
  Images,     \* the memory contents that launches and codes can produce
  NoScan      \* no result

ScannerSection == "SigScanner"
KeyOption(k) == <<ScannerSection, k>>

Null == 0
Addresses == 0 .. M - 1

ASSUME ScannerConstants ==
  /\ \A k \in Keys : KeyOption(k) \in Options
  /\ \A o \in Options : o[1] = ScannerSection => \E k \in Keys : o = KeyOption(k)
  /\ Values = Addresses \cup {ExeName}
  /\ ExeName \notin Addresses
  /\ KeyOf \in [Sigs -> Keys]
  /\ Len \in [Sigs -> Nat \ {0}]
  /\ M \in Nat \ {0}
  /\ Bases \subseteq Addresses
  /\ Ranges \subseteq [off : Addresses \cup {Absent}, size : Nat]
  /\ Images \subseteq [Sigs -> SUBSET Addresses]
  /\ NoScan \notin [sig : Sigs, begin : Addresses, size : Nat, addr : Addresses]
  /\ 0 \in Bits

VARIABLES
  base,       \* base[p]: module_info.base, 0 in no process
  image,      \* image[p][s]: the offsets at which s matches, none in no process
  sigCache,   \* sigCache[p][k]: sig_lookup_cache, Absent when k has no entry
  ret,        \* auxiliary: ret[p], the last scan and its answer, while the
              \* memory and the validation switch are as they were then
  found       \* auxiliary: the <<key, offset>> of every scan that ever matched

sigVars == <<base, image, sigCache, ret, found>>
vars == <<storeVars, sigVars>>

SkipSigValidation == 0
InitSigScanFailed == 1
One == {0}                   \* the value 1: bit 0

-----------------------------------------------------------------------------
(* Addresses.                                                               *)

\* Defective variant: the difference is signed.
UnbaseSigned(b, addr) == addr - b

\* Pointer plus and minus base wrap like the unsigned integers behind them.
Rebase(b, off) == IF b + off < M THEN b + off ELSE b + off - M
Unbase(b, addr) == IF addr >= b THEN addr - b ELSE addr + M - b

\* Defective variants: the base is forgotten on one side.
SavedAbsolute(b, addr) == addr
RestoredRaw(b, off) == off

\* What the options file holds for an address, and what a process at base b
\* makes of it: null is written as 0, and 0 is read back as null.
Saved(b, addr) == IF addr = Null THEN 0 ELSE Unbase(b, addr)
Restored(b, off) == IF off = 0 THEN Null ELSE Rebase(b, off)

-----------------------------------------------------------------------------
Results == [sig : Sigs, begin : Addresses, size : Nat, addr : Addresses]

ScannerTypeOK ==
  /\ TypeOK
  /\ base \in [Procs -> Addresses]
  /\ image \in [Procs -> [Sigs -> SUBSET Addresses]]
  /\ sigCache \in [Procs -> [Keys -> Addresses \cup {Absent}]]
  /\ ret \in [Procs -> Results \cup {NoScan}]
  /\ found \subseteq Keys \X Addresses

NoCache == [k \in Keys |-> Absent]
NoCode == [s \in Sigs |-> {}]

ScannerInit ==
  /\ Init
  /\ base = [p \in Procs |-> 0]
  /\ image = [p \in Procs |-> NoCode]
  /\ sigCache = [p \in Procs |-> NoCache]
  /\ ret = [p \in Procs |-> NoScan]
  /\ found = {}

-----------------------------------------------------------------------------
(* Scanning.                                                                *)

\* The non-null addresses at which signature s matches in process p.
Matches(p, s) == {Rebase(base[p], off) : off \in image[p][s]} \ {Null}

\* The addresses ScanUncached can return: the first match that starts in the
\* range, else null.  A match may extend past the end of the range.
ScanUncached(p, s, begin, size) ==
  LET hits == {a \in Matches(p, s) : begin <= a /\ a < begin + size}
  IN IF begin = Null \/ hits = {} THEN {Null}
     ELSE {a \in hits : \A b \in hits : a <= b}

\* SearchSignatureCache: an entry answers for a range that holds its address;
\* a null entry answers for every range.
CacheHit(p, k, begin, size) ==
  LET a == sigCache[p][k]
  IN a # Absent /\ (a = Null \/ (begin <= a /\ a < begin + size))

\* Defective variants: no validation, and one that stops one address short.
CachedUnvalidated(p, s) == {sigCache[p][KeyOf[s]]}
CachedWindowShort(p, s) ==
  LET a == sigCache[p][KeyOf[s]]
  IN IF states[p][SkipSigValidation] # {} THEN {a}
     ELSE ScanUncached(p, s, a, Len[s] - 1)

\* The answer to a hit: the cached address, validated unless a code has set
\* the register, by a scan of as many start addresses as the pattern is long.
CachedAnswer(p, s) ==
  LET a == sigCache[p][KeyOf[s]]
  IN IF states[p][SkipSigValidation] # {} THEN {a}
     ELSE ScanUncached(p, s, a, Len[s])

Begin(p, r) == IF r.off = Absent THEN Null ELSE Rebase(base[p], r.off)

Result(s, begin, size, a) ==
  [sig |-> s, begin |-> begin, size |-> size, addr |-> a]

ScanCached(p, s, r) ==
  LET begin == Begin(p, r)
  IN /\ pc[p] = "ready"
     /\ CacheHit(p, KeyOf[s], begin, r.size)
     /\ \E a \in CachedAnswer(p, s) :
          ret' = [ret EXCEPT ![p] = Result(s, begin, r.size, a)]
     /\ UNCHANGED <<storeVars, base, image, sigCache, found>>

\* CommitSignatureCache(k, a), up to its call of Save.
CommitSignatureCache(p, k, a) ==
  /\ sigCache' = [sigCache EXCEPT ![p][k] = a]
  /\ appConfig' = [appConfig EXCEPT ![p][KeyOption(k)] = Saved(base[p], a)]
  /\ pc' = [pc EXCEPT ![p] = "open"]

\* A miss scans, raises the flag on failure unless p_begin was null, and
\* commits the answer whichever it is; Save's own answer is ignored.
ScanFresh(p, s, r) ==
  LET begin == Begin(p, r)
      k == KeyOf[s]
  IN /\ pc[p] = "ready"
     /\ ~CacheHit(p, k, begin, r.size)
     /\ \E a \in ScanUncached(p, s, begin, r.size) :
          /\ CommitSignatureCache(p, k, a)
          /\ ret' = [ret EXCEPT ![p] = Result(s, begin, r.size, a)]
          /\ found' = IF a = Null THEN found
                      ELSE found \cup {<<k, Unbase(base[p], a)>>}
          /\ states' = IF a = Null /\ begin # Null
                       THEN [states EXCEPT ![p][InitSigScanFailed] = One]
                       ELSE states
     /\ UNCHANGED <<hasPath, disk, writer, prior, base, image>>

-----------------------------------------------------------------------------
(* The life of a process.                                                   *)

\* InitSigScanner: the cache of a process at base b with options c.
InitSigScanner(b, c) ==
  [k \in Keys |-> IF c[KeyOption(k)] = Absent THEN Absent
                  ELSE Restored(b, c[KeyOption(k)])]

\* CommonLoader::Init.  A Save inside it changes neither options nor cache.
Start(p) ==
  /\ Launch(p)
  /\ \E b \in Bases, m \in Images :
       /\ base' = [base EXCEPT ![p] = b]
       /\ image' = [image EXCEPT ![p] = m]
       /\ sigCache' = [sigCache EXCEPT ![p] = InitSigScanner(b, appConfig'[p])]
  /\ UNCHANGED <<ret, found>>

\* A code or the game writes to the memory that scans look at.
WriteMemory(p) ==
  /\ pc[p] = "ready"
  /\ \E m \in Images : image' = [image EXCEPT ![p] = m]
  /\ ret' = [ret EXCEPT ![p] = NoScan]
  /\ UNCHANGED <<storeVars, base, sigCache, found>>

\* A code sets or clears a register through the API.
SetScannerState(p, s, value) ==
  /\ SetState(p, s, value)
  /\ ret' = [ret EXCEPT ![p] = NoScan]
  /\ UNCHANGED <<base, image, sigCache, found>>

Save(p) ==
  /\ SaveApplicationOptions(p) \/ SaveStep(p)
  /\ UNCHANGED sigVars

Exit(p) ==
  /\ Stop(p)
  /\ sigCache' = [sigCache EXCEPT ![p] = NoCache]
  /\ ret' = [ret EXCEPT ![p] = NoScan]
  /\ base' = [base EXCEPT ![p] = 0]
  /\ image' = [image EXCEPT ![p] = NoCode]
  /\ UNCHANGED found

Outage ==
  /\ PowerLoss
  /\ sigCache' = [p \in Procs |-> NoCache]
  /\ ret' = [p \in Procs |-> NoScan]
  /\ base' = [p \in Procs |-> 0]
  /\ image' = [p \in Procs |-> NoCode]
  /\ UNCHANGED found

ScannerNext ==
  \/ \E p \in Procs :
       \/ Start(p) \/ Save(p) \/ WriteMemory(p) \/ Exit(p)
       \/ \E s \in Sigs, r \in Ranges : ScanCached(p, s, r) \/ ScanFresh(p, s, r)
       \/ \E s \in StateArgs, flag \in SUBSET Bits : SetScannerState(p, s, flag)
  \/ Outage

ScannerSpec == ScannerInit /\ [][ScannerNext]_vars

-----------------------------------------------------------------------------
(* Properties.                                                              *)

\* Whatever crashed, raced or was loaded at another base in between: an offset
\* in the options of a process, or in the file, was the result of a successful
\* scan under that key.  0 alone says nothing: a failed scan is saved as 0.
OffsetWasFound(c) ==
  \A k \in Keys :
    \/ c[KeyOption(k)] \in {Absent, 0}
    \/ <<k, c[KeyOption(k)]>> \in found

OnlyFoundOffsets ==
  /\ \A p \in Procs : OffsetWasFound(appConfig[p])
  /\ OffsetWasFound(disk.config)
  /\ OffsetWasFound(prior.config)

\* The cache of a running process and the options it would save agree: loaded
\* at the same base, the options give the same cache again.  The exception is
\* a match at the module base itself, which is saved as 0 and read as null
\* (SigScanner.cpp:84, 184).
CacheKept(p, k) ==
  \/ InitSigScanner(base[p], appConfig[p])[k] = sigCache[p][k]
  \/ sigCache[p][k] = base[p] /\ appConfig[p][KeyOption(k)] = 0

RestartKeepsCache ==
  \A p \in Procs, k \in Keys : pc[p] # "down" => CacheKept(p, k)

\* A scan never answers with an address that no match explains: its non-null
\* result is a match in memory as it is now or, when validation is off, was
\* one under that key in this session or an earlier one.  Validation may move
\* it past the end of the range, by less than the pattern's length.
AnswerSound(p) ==
  LET s == ret[p].sig
      a == ret[p].addr
  IN a # Null =>
       /\ ret[p].begin <= a
       /\ a < ret[p].begin + ret[p].size + Len[s] - 1
       /\ \/ a \in Matches(p, s)
          \/ /\ states[p][SkipSigValidation] # {}
             /\ <<KeyOf[s], Unbase(base[p], a)>> \in found

ResultSound == \A p \in Procs : ret[p] # NoScan => AnswerSound(p)

\* The same scan again, with the memory and the validation switch as they
\* were, is answered from the cache and by the same address: neither the
\* validation nor a save that failed makes a second code see another answer.
AnswerAgrees(p) ==
  LET s == ret[p].sig
  IN /\ CacheHit(p, KeyOf[s], ret[p].begin, ret[p].size)
     /\ CachedAnswer(p, s) = {ret[p].addr}

RescanAgrees == \A p \in Procs : ret[p] # NoScan => AnswerAgrees(p)

\* "We've retrieved the signature address from the cache, so at least one scan
\* has succeeded" (SigScanner.cpp:116-117), for which the answer to a hit is not
\* reported: a scan of memory fails with the failure register clear only when
\* some scan under its key, in this session or an earlier one, has succeeded.
HasSucceeded(k) == \E off \in Addresses : <<k, off>> \in found

SilentFailureWasFound ==
  \A p \in Procs :
    (/\ ret[p] # NoScan
     /\ ret[p].addr = Null /\ ret[p].begin # Null
     /\ states[p][InitSigScanFailed] = {})
      => HasSucceeded(KeyOf[ret[p].sig])
=============================================================================
