# Verification of CommonLoader

CommonLoader is a library that a game's mod host (`d3d9.dll`, `d3d11.dll`,
`dinput8.dll`) links to run *codes*: managed classes, and native code through
an API table, that look for byte signatures in the running game, write to its
memory and hook its instructions.  This directory holds TLA+ models of its own
logic under `src/CommonLoader/`, model-checked with TLC.  The safety properties
of every component are also proved with TLAPS.

## The system

| Component | State | Operations | Source |
|---|---|---|---|
| Application store | `app_config` (sections of options), `states` (5 registers), the storage path, one `.ini` file per game build | `Init`, `Load`, `Save`, `GetOption(s)`, `SetOption`, `ClearSection`, `SetState`, `SetStateFlag`, `GetState` | `ApplicationStore.cpp` |
| Signature scanner | `sig_lookup_cache` | `InitSigScanner`, `Scan`, `ScanUncached`, cache search and commit | `SigScanner.cpp` |
| INI reader and writer | a document of sections and properties | `ini_load`, `ini_save`, adders and getters | `externals/ini.h` |
| Assembler service | the symbol map, the Keystone and Capstone handles | `SetSymbol`, `RemoveSymbol`, `GetSymbol`, `CompileAssembly`, `OnError` | `AssemblerService.cpp`, `AssemblerService_In.h` |
| Hook service | the game's code, the trampolines | `WriteASMHook`, `NopInstructions` | `HookService.cpp` |
| Loader lifecycle | `is_init`, the list of codes | `Init`, `LoadAssembly`, `RaiseInitializers`, `RaiseUpdates` | `CommonLoader.cpp`, `AssemblyLoader.h`, `CodeObject.h`, `ManagedCommonLoader.h` |
| Memory provider | none of its own | `WriteMemory`, `ReadMemory`, `ScanSignature`, hooks, symbols | `MemoryProvider.h` |
| Native API | none of its own | the exported table, `FindCode` | `CommonLoaderAPI.cpp`, `.h` |
| Logger | none | console output | `Logger.h` |

How they meet: `CommonLoader::Init` runs the store's `Init`, then the
assembler's, then `InitSigScanner`, which reads its section of the store.
`Scan` writes back to the store (`SetOption`, `Save`) and raises register 1
when a signature is missing; the assembler raises register 2 when statements
have errors.  `RaiseInitializers` runs every code's `Init` and then reads both
registers to decide whether to ask the user to go on.  The hook service
assembles through the assembler service and patches the game.  Copies of one
game share one file, named after a hash of the module's headers.

What is hard here is little to do with threads inside a process: loader and
codes run on the game's thread.  It is the exceptions, errors and shared symbols
of codes that know nothing of each other; the text that users edit and two
hash tables reorder; the file that several processes
share, truncate, write without a flush and may die in the middle of; the cache
that outlives its process, at another base address; the memory that changes
under it; and the answers, "not found" among them, that are remembered.
`PROJECT.json` lists every such hazard with its line and the properties that
cover it, or why none does.

What makes each component correct:

- *store*: a launch sees one completed save whole or nothing; saves exclude one
  another; `Save` always comes back.  (An intact file should not be taken for
  damaged, either: it is.)
- *scanner*: an answer is a match; the same scan gives the same answer; a
  cached offset was found under its key, at whatever base; the cache survives a
  restart.
- *INI*: a file is read as it is written, line by line; what is saved is what is
  loaded, section by section.
- *assembler*: an error is reported or there is none; a code's symbols have the
  values that it has given them.
- *hooks*: a thread that enters the hooked instructions executes the
  original instructions the behaviour keeps, and the hook's, once each and in
  order, and then goes on after them.
- *lifecycle*: what a raise of initialisers has reached is initialised when
  updates run; a failure is asked about before they do; every raise returns.

## Modules

| Module | What it models |
|---|---|
| `AtomicStore` | What the options file promises: whole-file saves and loads |
| `ApplicationStore` | The store's mechanism, several processes and their common file; implements `AtomicStore` |
| `SigScanner` | The scanner on top of `ApplicationStore` |
| `PatternScan` | The byte loop that `SigScanner` takes as the set of matches |
| `IniFile` | The options file as text: `ini_load`, `ini_save` and what the store does with them |
| `AssemblerService` | The symbol map, compilation and error reports |
| `LoaderLifecycle` | Loading, raising, the codes' calls and exceptions; extends `AssemblerService` |
| `HookService` | The hook service, the bytes and pages it writes, and the thread that executes them |
| `HookSites` | What the allocator and the codes have to keep to for hooks to work |
| `ApplicationStoreProofs`, `SigScannerProofs`, `PatternScanProofs`, `LoaderLifecycleProofs` | Theorems of the components |
| `IniLoadProofs`, `IniFileProofs` | Theorems of `IniFile`: what `ini_load` reads, and the round trip through `ini_save` |
| `HookServiceProofs` | Theorems of `HookService` under the conditions of `HookSites` |
| `Induction` | Least and greatest numbers, induction on sets and recursive functions, for the proofs |
| `MCApplicationStore`, `MCSigScanner`, `MCPatternScan`, `MCIniFile`, `MCLoaderLifecycle`, `MCHookService`, `MCHookSites` | The instances TLC checks |

### ApplicationStore

State, per process `p`: `appConfig[p]` is `app_config`, a total function from
the `<<section, name>>` pairs in use to a value or `Absent`; a section without
options and no section are the same, as they are for every reader in the code.
`states[p]` are the registers, each the set of its one bits.  `hasPath[p]` says
that `app_storage_path` is set.  `pc[p]` is where the process is: not running,
in client code, about to open the file for `Save`, between truncating it and
writing it.  Shared: `disk`, the file (missing, text with its options, or bytes
that are not text), and `writer`, whose handle has write access.  The
auxiliary `prior` is the file as it was when `writer` truncated it.

Actions: `Launch` is `ApplicationStore::Init` with its three outcomes (no
folder; file loaded; file refused, which sets `Name` and goes on to save).
`Reload` is `Load` called by a running process.  `Save` is `SaveApplicationOptions` (the
call), `SaveOpen` or `SaveOpenFails` (`CreateFileW`, which truncates) and
`SaveWrite` (`WriteFile`, which may fail).  `SetOption`, `ClearSection`,
`SetState` and `SetStateFlag` are the functions of these names.  `Stop` ends a
process at any point, `PowerLoss` all of them, and since nothing flushes the
file its contents may be lost or zeroed.

`Load` is one action because its handle denies writers and its buffer is
private.  It fails while a writer is open (sharing violation) and when a byte
is not printable; `CreateFileW` failing in `Save` is always possible, which
covers a reader that is open at that moment.  No caller appends, but `Reload` may:
whether a section without options has a header in the file is not part of `disk`,
so `Merged` admits both.  A single `WriteFile` of a small
file is taken to write all or nothing.  The text of the file, with its unnamed
section, is `IniFile`.

### SigScanner

Adds per process the module's base address, the memory (`image[p][s]`: the
offsets at which signature `s` matches now), the cache and, auxiliary, the last
answer `ret[p]`; and the auxiliary set `found` of every successful scan by key
and offset.  Addresses are the numbers below `M` and their arithmetic wraps at
`M`, so addresses below the base have offsets too.  `Restored` and `Saved` are
the two conversions to and from the file: null and the base itself are both
written as 0, and 0 is read as null.

`ScanCached` and `ScanFresh` are `Scan` on a hit and on a miss.  `ScanFresh`
ends where `CommitSignatureCache` calls `Save`, whose steps follow with `Save`;
`Start` is `CommonLoader::Init` at a base and with a memory that the loader
chooses.  `WriteMemory` replaces the memory by any of `Images`.  The hex
conversions of keys and offsets are exact on 32- and 64-bit values and are not
modelled character by character; the byte loop is the set of its matches, which
`PatternScan` shows it to be.

Left out: a null result for a pattern of length 0 (`Len` is at least 1), reads
past the range, the scanner section edited by hand, and API calls before
`Init`.

### PatternScan

One request is scanned: `memory` from `p_begin` on, of which `readable` bytes may
be read, the `size` of the range, and the pattern and mask as they lie in memory
up to the mask's first zero (`len`).  `MemoryProvider::ScanSignature` passes arrays
without a terminator, so `len` may be more than the length of the array; the model
has the scan for the longer pattern, and the match that its caller misses is not
part of it.  `i` and `j` are the loop's variables and each comparison is
an action: `Pass` (a wildcard), `Equal`, `Differs` (a break), and `Crash` when
the byte cannot be read; `Found`, `Exhausted` and `NullBegin` are the three
returns.  `top` is auxiliary: one more than the highest offset read.

### IniFile

`text` is the file, a sequence of characters; `config` is `app_config`, a
function from section names to functions from names to values; the auxiliary
`saved` is `app_config` at the last save.  `Load`, `SetOption`, `ClearSection` and
`Save` are the store's functions on one process (races on the file are
`ApplicationStore`'s), `Exit` its end.

`Loop` walks over the text as `ini_load` does, a `Round` at a time; `Items` are what
its rounds read, by the positions at which they start.  There is one operator per
branch: comments, `Header`, `Assignment` (a line with `=`) and `Bare` (one without);
each item says where the walk goes on.  `Name` is the rule of `ini_section_add` and
`ini_property_add` that a length of 0 means the rest of the text.  `Loaded` is the
loop of `ApplicationStore::Load` over the result.  `SavedTexts` is the set of texts
that `ini_save` may write, over every order in which the hash tables yield
sections and entries (`SectionsUpTo`, `EntriesUpTo`).  `Tidy`, `Meaning` and
`Storable` are the reference: what a line-by-line reader would make of a file
(its lines start at `Firsts`), and which options the format has room for.  A line
with a carriage return before its `=` is not tidy: `ini_load` ends the name at the
`=` or the first space and keeps the return in it.

### AssemblerService and LoaderLifecycle

`symbols` is `symbol_map`, by the hash of names, which is any function (`HashOf`).
A source is a sequence of statements, plain, with a symbol, with an error, or
starting with no token.  `CompileAssembly` is what `ks_asm` makes of it: statements
with an error are listed and skipped (a change that the vendored Keystone has);
a bad first token or an unresolved symbol leaves no code and no list
(`HardError`).  `OnError` sets the register, also without logging.

`pc` is who runs: the host, a raise of initialisers or of updates, or the prompt.
`codes` is `AssemblyLoader::Codes`, `at` the place of the raise in it and `calls`
the calls that the running code has still to make; what a code does is a constant
list of calls.  `NextCode` and `RaiseEnds` are the loops of `raiseInitializers` and
`raiseUpdates` with the rest of `RaiseInitializers`; `Continue` and `Quit` are the two
buttons; `Unwind` is an exception that passes through the raise, after which the
host may go on.  `LoadAssembly` may fail after some of its codes have been added.
Auxiliary:
`ready` (codes whose `Init` came to its end), `raised` (how many there were at the
last whole raise), `unasked` and `cut` (a failure without a question, an
exception), `own` and `result` (the running code's symbols, the last compilation).

Native clients define and remove symbols between the host's calls
(`SetSymbolNative`, `RemoveSymbolNative`).

Left out: `GetFullPath` failing, which leaves a loader without a list; registers
that a native client clears; clients on other threads; marshalling of strings;
`FindCode`, which changes its caller's structure only.

### HookService

`mem` is the memory byte by byte; a cell says of which instruction it is a byte
and which one, so that an address can be executed only where a whole
instruction stands.  `executable` are the pages that may be executed, `used` the
heap blocks of trampolines, `todo` the requests that the codes of the game have
still to make, and `pc` and `stack` belong to the game's thread.  The auxiliary
`plan` is what the requests ask for: for each address that is reached, the
names that are run there and where the thread then goes; `want` is the plan's
answer when the thread entered, `ran` what it really ran.

`WriteASMHook` measures the window by disassembling, writes the trampoline
(`Trampoline`), clears the window and writes the jump or call (`Patched`), and
makes the compiled code's pages executable (`Protected`).  Win32 writes relative
transfers of 5 bytes, x64 indirect ones of 6 with an 8-byte pointer behind.
`UnknownBehavior` is its `default` branch, `NopInstructions` the function of
that name, `Refused` the guards of `MemoryProvider` before both.  `Execute`,
`Branch`, `Return` and `Crash` are the processor.  `Program` is the routine with its
return, `Start(n)` the address of its instruction `n`, and `HookConstants` says what
is taken of the game: the routine fits the memory, and its jumps and the game's
calls lead to instructions of it.

`HookSites` says where hooks work.  `BlocksApart` is `_aligned_malloc`'s: blocks do
not overlap, as far as `WriteASMHook` writes them (`WrittenLen`, which is no more than
it asks for).  Nothing in `HookService` or
`MemoryProvider` sees to the other conditions.  The codes of a game have to keep to
`WindowsApart` (windows are whole instructions of the routine, no two overlap,
nothing jumps behind the first instruction of one, and those of hooks are
position-independent) and to `NoWideCalls` (on x64 no hook is called).  `BlocksFit`, that
the pages of the compiled code are those of its whole block, is up to where the
allocator puts the block.  The runs `hook_x86` and `hook_x64` satisfy them all, and
`hook_twice` and `hook_x64_call` break `WindowsApart` and `NoWideCalls`: each time the
game crashes.

Requests are made while the thread is outside the routine, as codes run on the
same thread.  The game's routine may have relative jumps of its own in Win32.
Left out: other instructions that depend on their position or on the stack,
other threads, `_aligned_malloc` failing, and the page protection of the window,
which is restored.

## What TLC checks

| Run | Instance | Properties |
|---|---|---|
| `store` | 2 processes, 2 sections of 1 option, 2 values, 1 register in range and 1 out of range | `TypeOK`, `WriterIsAlone`, `ImplementsAtomicStore`, `SaveReturns` |
| `store_name` | 1 process, the narrowed name of the game not printable ASCII | `IntactFileLoads` is violated |
| `scan` | 1 process, any number of sessions, 3 signatures with 2 hashes, 8 addresses, bases 2 and 5, 4 ranges, 2 memory contents | all scanner properties |
| `scan_silent` | 1 process, 1 signature that is overwritten in one of 2 memory contents | `SilentFailureWasFound` is violated |
| `pattern` | every memory of up to 4 bytes of 2 values, every range in it, every pattern and mask of up to 3; a null pointer | `ScanTypeOK`, `FirstMatch`, `ReadsNearRange`, `ScanEnds` |
| `ini` | every file of up to 4 out of 10 pieces (headers with and without line end, entries, names, `=`, a space, CR, LF, `;`, `[`), one option to set | `IniTypeOK`, `ReadsAsWritten`, `SavedLoadsBack`, `OnlyStraysMove`, `TidyIsStorable` |
| `lifecycle` | up to 4 codes of 5 kinds, loaded in any order and again; 3 symbols, 2 with one hash; failing loads, throwing codes | `LifecycleTypeOK`, `NoFrameUnasked`, `FramesFollowInit`, `OwnSymbols`, `RaiseReturns` |
| `lifecycle_silent` | codes that use a symbol nobody sets | `FailureIsReported` is violated |
| `hook_x86` | Win32; a routine of 7 instructions with 4 entries, windows of 5 and 6 bytes, a relative jump after them, every behaviour jumping and called, a cleared pair, refused requests, a failed assembly; 2 heap blocks | `HookTypeOK`, `RunsAsSpliced`, `LeavesWhole`, `Leaves` |
| `hook_x64` | x64; windows of 14 and 17 bytes, hooks that jump | `RunsAsSpliced`, `LeavesWhole`, `Leaves` |
| `hook_x64_call` | x64; one hook that is called | `RunsAsSpliced` is violated |
| `hook_twice` | Win32; two hooks at one address | `RunsAsSpliced` is violated |

The properties:

- `ImplementsAtomicStore`: under the mapping that takes the file to be `prior`
  while somebody writes it, every step is a step of `AtomicStore`.
- `WriterIsAlone`, `SaveReturns`: a save is exclusive and comes back.
- `IntactFileLoads` (violated): a launch refuses and overwrites a file only when it
  is missing, damaged or being written.
- `OnlyFoundOffsets`: no crash, race, failed save or change of base puts an
  offset in a process or in the file that no scan under that key had found.
- `RestartKeepsCache`: what a process would load at its own base is what it
  has cached; the exception is a match at the module base.
- `ResultSound`: a non-null answer is a match in memory as it is or, with
  validation off, was one; validation can move it past the end of the range by
  less than the pattern's length.
- `RescanAgrees`: asked again, a scan is answered from the cache and alike.
- `SilentFailureWasFound` (violated): a scan fails without a report only when its
  signature has been found before.
- `FirstMatch`, `ReadsNearRange`, `ScanEnds`: the loop ends with the first match of
  its range, overlaps with failed ones included, or with none; it reads, and can
  crash, only within the pattern's length behind the range.
- `ReadsAsWritten`: whatever the blanks, comments and line ends, a tidy file means
  what its lines say.  `SavedLoadsBack`: storable options come back from any text
  that a save may write.  `OnlyStraysMove`: options without a section may come back
  in one, but change nothing else and are not lost.  `TidyIsStorable`: a user's tidy file holds storable
  options, so they survive any number of sessions.
- `NoFrameUnasked`: after an initialiser's failure no update runs before the user
  has been asked, unless an exception skipped the question.
- `FramesFollowInit`: when updates run, the codes of the last whole raise of
  initialisers have completed their `Init`.
- `OwnSymbols`: whatever other codes and native clients define or remove, a code's
  assembly has the values that it has itself given to its symbols, unless hashes
  collide.
- `RunsAsSpliced`, `LeavesWhole`, `Leaves`: a thread that enters the hooked
  routine runs the hook's and the original instructions that the requests ask
  for, in order, never anything else, and comes out at the end with its stack
  as it was.  A failed assembly that has been reported releases them: the
  prompt says that the game may crash.

Every one of them that holds is also run against a defective variant of a definition (the
operators with the comment "Defective variant") and TLC finds it violated.

Bounds.  Two processes are enough for every race on one file: the third would
only be another holder of a handle that admits one writer.  Two sections show a
save that mixes them.  Two bases, with offsets that wrap, give the cases in
which an offset at one base is an address at the other, or null, or the base.
The ranges are the whole module, a part of it, memory below it and a null
pointer; the two memory contents move a match by one, away from the base, below
the base, and take the other signatures away.  Two of the three signatures share
an entry of the cache, at different lengths and matches; the third has its own.
Sessions, saves and crashes are not bounded.  The scanner is run with one process
at a time; that offsets stay what they are when two copies of the game at different
bases overwrite each other's saves is proved (`OffsetsAreFound`, for any number of
processes).  For hooks: two windows,
one exactly as long as the jump and one longer, show every way back; entries
before, between and after them show that hooks do not disturb each other; a
block in the middle of the heap and one at its end differ in direction and
distance.  `ran` stops at the first instruction that is not wanted.  State
registers matter to the scanner for validation only, so the scanner runs set register 0.

Four bytes and patterns of three give every overlap of a failed match with a
later one and every distance between the end of the range and of memory.  Four
pieces are enough for each branch of `ini_load` to end inside or before each
other one; `MaxText` and `MaxItems` bound what a save writes, because some untidy
files grow at every save.  Four codes show several before, at and after the one
that throws; loads and raises are not bounded but by `MaxCodes`.

Fairness.  `SaveReturns` needs weak fairness of a process's save steps,
because `CreateFileW` and `WriteFile` return without waiting for another
process.  A killed process is an action of its own, so fairness does not rule
it out.  `ScanEnds` needs weak fairness of the loop, `RaiseReturns` of a raise's own
steps: the calls of the model return or throw.  `Leaves` needs weak fairness of the processor's steps.  The hook, pattern and
lifecycle runs let the system stop: a process that has crashed or exited, and a scan
that is done, take no step.

## What disagrees with comments and documentation

- `ApplicationStore.cpp:144` calls the printable-ASCII test a check for
  corruption.  `Init` saves the game's file name narrowed to bytes; when these are
  not all printable ASCII, the test rejects a complete file at every launch, and the
  launch overwrites it: nothing is ever remembered (`store_name`).
- `SigScanner.cpp:116-117` says that an answer from the cache means that a scan
  has succeeded, and reports nothing for it.  Failures are cached and saved too: a
  missing signature is reported, and asked about, in the first session only, and
  every later one fails in silence (`scan_silent`).
- `CommonLoader.cpp:50` reports that assembly failed to compile.  An unresolved
  symbol or a bad first token does not count: nothing is assembled, the hook is
  written without its statements, and no register is set (`lifecycle_silent`).

`README.md:3` promises hooks in X86 and X64 code; two kinds crash the game:

- a called hook on x64 returns into the pointer behind the call
  (`hook_x64_call`);
- a second hook at an address copies the first one's relative jump as it is
  (`hook_twice`), and so does any hook with a relative jump of the game's own.

Seen in the code while modelling it, and without a run of its own:

- `HookService.cpp:117` changes the page protection for the compiled code's length
  only, so a block that goes on in another page, or has no compiled code, cannot be
  executed to its end.  `BlocksFit` excludes it.
- `ini.h:228-229` says that each section stands in the file by its name in
  brackets.  The unnamed section is written without, wherever the hash table has
  it, so options above the first header may belong to another section after a
  save; `OnlyStraysMove` says how far that goes.  And `[]` is given the rest of
  the file as its name.
- `FindCode` sets its caller's `szCode` to 0, and reports the structure as of
  invalid size when it is passed again (`CommonLoaderAPI.cpp:138`, `:143`).

## What is proved

TLAPS checks the theorems for every value of the constants that satisfies
the named assumptions of the modules: `StoreConstants` and `ScannerConstants` (the
key options exist, 0 and the addresses are values, `Len` is positive, bases and
memory contents are within the addresses), `ScanConstants` (requests are
well-formed), `AssemblerConstants` and `LifecycleConstants` (a hash for each name,
calls with names and values), `IniConstants` (the characters that `ini.h` names are
characters, files and options are made of them), and `HookConstants`.  Hash
collisions, bases, memory contents and files are arbitrary, and so is what codes
do.

`ApplicationStoreProofs`: `StoreTypeCorrect`, `WriterExclusive` and
`StoreIsAtomic`.  The invariant `StoreInv` adds to types and exclusion that the
file is empty while somebody writes it and that a stopped process holds
nothing; without the first a failed write could not be shown to lose exactly
the whole file.  `AtomicStep` maps each action: `Launch` to `Open`, `SetOption`
and `ClearSection` to `Put`, `Reload` to `Reload`, `SaveWrite` to `Save` or
`Lose`, `Stop` and `PowerLoss` to `Lose`, and the rest to stuttering.

`SigScannerProofs`: every safety property of the `scan` run, and that the
scanner, as a client of the store, still implements `AtomicStore`.  `ScanInv`
adds to the properties `CachedWasFound` (a cached address, unbased, is in
`found`), which an unvalidated answer needs, and `NothingWhenDown`, without
which a new process could keep an old answer.  `BaseArithmetic` (rebasing and
unbasing are inverse) carries offsets from base to base; `ScanResult` and
`ScanAtMatch` say that a scan has one answer and that a match, scanned for at
its own address, is found.  `Frame` says what a step of one process leaves true
of another.

`PatternScanProofs`: every safety property of the `pattern` run.  `LoopInv` is the
loop invariant: no address before `i` matches, the first `j` bytes match at `i`, and
`j` is 0 when the range is exhausted.  `PrefixGrows` and `AddressRuledOut` are its
two kinds of step.

`LoaderLifecycleProofs`: every safety property of the `lifecycle` run.
`LifecycleInv` has a part for each.  `Asked`: an unasked failure is in a register,
because `OnError` sets it whatever the logging, so the end of a raise asks.
`Initialised`: while initialisers run, those before the running one are done, and
after it too once its calls are over.  `OwnCurrent`: while a code has calls to make
nobody else writes the map, so its own symbols are the map's, hashes that are
shared excepted.

`IniLoadProofs` and `IniFileProofs`: every property of the `ini` run, for every file,
every set of options and every order of the hash tables.  `TidyReads` says that on a
tidy file the rounds of `ini_load` start where lines do: by induction on the rounds,
a round that starts at a line's first character ends at that of the next line
with anything on it.  So `Items` and `Meaning` pick the same headers and
entries (`ReadsLineByLine`), and they satisfy `Storable` when nothing is above the
first header (`TidyFilesKeep`, from `TidyStorable`).  For the round trip the
invariant `IniInv` says that the file is one of the texts that a save of `saved` may
have written; that the options are finite maps is part of it, for a save lists
their names.  `Written` is the invariant of the two loops of `ini_save`: the text so
far is tidy and ends in a line end, has one header for each section that has been
written, and each entry stands below the header of its section, where stray
ones alone may have another.  A text that ends within a line would change what
is appended, which is why the line end is needed.  `SavesRoundTrip` and
`StraysAloneMove` read it back with `TidyReads`.

`HookServiceProofs`: every safety property of the hook runs, for every routine, set
of requests, layout and page size with `HooksWork`, the conjunction of `HookSites`'
conditions, in both builds.  `HookInv` says that there are requests `D` that have
been made, with blocks at `at`, such that

- `Charted`: each has left its transfer, its filling and its block in memory
  and everything else of the routine is as it was (`Laid`); the blocks are apart
  (`Placed`); the plan has the requests in it and nothing else (`Planned`); and the
  pages of the blocks may be executed, unless an error has been reported;
- `Threaded`: the thread is outside and has run what it should, or it crashed after
  a reported error, or it is at one of three kinds of places (`Position`): an instruction
  of the routine that is not inside a window, a place between two instructions
  of a block, or the filling behind a transfer; and what it has run, with what is
  to be run from that place on, is what it was asked for.

`RunsAsSpliced` alone is not inductive: that a prefix has been run says nothing of
where the thread is and what lies there.  With `Position` it is: `PositionLeads` shows
that there is an executable instruction at each such place, and that it leads to
another (`AtOriginal`, `AtTransfer`, `InBlockLeads`, `InNopsLeads`).  For a request,
`WindowDisassembled` shows that the disassembler finds the window that the
routine has there, `LaidHook` and `LaidNop` that writing it disturbs no other one, and
`PlannedWindow` that the plan changes by the same instructions that the block copies.
TLC checked `HookInv`, with `D` and `at` enumerated, on every state of `hook_x86` and
`hook_x64` before it was proved.

`Induction`: the library's theorems on induction and recursion take an operator as a
parameter, which the provers here cannot instantiate.  This module derives what
the two groups of proofs need, stated with sets and functions instead, from the
well-foundedness of the natural numbers: least and greatest elements, induction
over a set, and that recursive functions over `0 .. N` exist, satisfy their equations
and are unique, both for recursion downwards (`CodeUpTo`, `Loop`, `EntriesUpTo`,
`Disassembled`) and upwards (`Follow`).

Model-checked only: the liveness properties `SaveReturns`, `ScanEnds`,
`RaiseReturns` and `Leaves`, since fairness and `ENABLED` are out of the prover's
reach; and what the violation runs show.

## Plan

1. Theorems: that `HookSites`' conditions hold for requests whose sites are far
   enough apart; that a save of tidy options is one of `ApplicationStore`'s contents.
2. `HookService`: stack use in called hooks, a second thread while a hook is
   written, windows that are not code to their end.
3. `LoaderLifecycle`: the life of `CodeObject` and its strings, which `FindCode`
   hands out.

## Not modelled, and why

Keystone, Capstone and xxHash, with fmt and the JSON library, are vendored and
make up nearly all of the lines under `src/`: some 200,000 lines of assembler,
disassembler and hash code that the loader calls through a handful of functions.
They are modelled by what those functions give back (`CompileAssembly`,
`Disassembled`, the hashes as arbitrary functions); a model of their insides
would be one of LLVM, not of this program.  Of the loader's own code the models
leave out: the logger (output only), marshalling between managed and native
strings, reflection over assemblies, module lookup through Windows, the getters
that change nothing, the functions of `ini.h` that the loader does not call
(`ini_section_remove`, `ini_find_section`, `ini_property_value_set` and the like), and the
wording of messages.
