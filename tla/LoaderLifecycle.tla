--------------------------- MODULE LoaderLifecycle ---------------------------
(***************************************************************************)
(* The life of the loader in one process (CommonLoader.cpp,                *)
(* ManagedCommonLoader.h, AssemblyLoader.h, CodeObject.h), with the        *)
(* assembler service and the calls of MemoryProvider.h and of the API      *)
(* that codes make.  The host calls LoadAssembly, RaiseInitializers and    *)
(* RaiseUpdates in any order; a raise runs one code after another, each    *)
(* of them a list of calls, and an exception out of one of them goes       *)
(* through the raise to the host.                                          *)
(***************************************************************************)
EXTENDS AssemblerService

CONSTANTS
  Codes,        \* the managed types with IsLoaderExecutable
  InitOf,       \* InitOf[c]: the calls of its Init, none when it has no Init
  FrameOf,      \* FrameOf[c]: the calls of its OnFrame
  Assemblies,   \* what LoadAssembly is given: [types, fails], the codes in order
                \* and whether loading throws after them
  MaxCodes,     \* the bound on the codes that are loaded
  NoResult      \* nothing has been compiled

\* The calls that codes make: [op], and what it is called with.
Calls == UNION {{InitOf[c][n] : n \in DOMAIN InitOf[c]} \cup
                {FrameOf[c][n] : n \in DOMAIN FrameOf[c]} : c \in Codes}

ASSUME LifecycleConstants ==
  /\ \A c \in Codes : InitOf[c] \in Seq(Calls) /\ FrameOf[c] \in Seq(Calls)
  /\ \A k \in Calls : k.op \in {"set", "remove"} => k.name \in Names \cup {Null}
  /\ \A k \in Calls : k.op = "set" => k.value \in Values
  /\ \A a \in Assemblies : a.types \in Seq(Codes) /\ a.fails \in BOOLEAN
  /\ MaxCodes \in Nat

VARIABLES
  isInit,       \* is_init
  made,         \* AssemblyLoader and its list exist
  codes,        \* AssemblyLoader::Codes
  sigFailed,    \* register CMN_LOADER_STATE_INIT_SIG_SCAN_FAILED
  pc,           \* the host, or what runs for it
  at,           \* how many codes the raise has come to
  calls,        \* the calls that the last of them has still to make
  result,       \* auxiliary: the last result of CompileAssembly, its caller and
                \* what the code has set itself
  own,          \* auxiliary: the symbols that the running code has set
  ready,        \* auxiliary: the codes whose Init came to its end
  raised,       \* auxiliary: the codes of the last raise that was not cut short
  unasked,      \* auxiliary: an initialiser has reported a failure, and the user
                \* has not been asked since
  cut           \* auxiliary: an exception has ended the last raise of initialisers

hostVars == <<isInit, made, codes>>
auxVars == <<result, own, ready, raised, unasked, cut>>
vars == <<assemblerVars, hostVars, sigFailed, pc, at, calls, auxVars>>

Running == {"init", "frame"}
Nothing == [n \in Names \cup {Null} |-> Missing]

LifecycleTypeOK ==
  /\ AssemblerTypeOK
  /\ isInit \in BOOLEAN /\ made \in BOOLEAN /\ sigFailed \in BOOLEAN
  /\ codes \in Seq(Codes) /\ Len(codes) <= MaxCodes
  /\ pc \in {"host", "prompt", "exited", "crashed"} \cup Running
  /\ calls \in Seq(Calls) /\ (at = 0 => calls = <<>>)
  /\ at \in 0 .. Len(codes) /\ (pc \notin Running => at = 0)
  /\ own \in [Names \cup {Null} -> Values \cup {Missing}]
  /\ ready \subseteq DOMAIN codes /\ raised \in 0 .. Len(codes)
  /\ unasked \in BOOLEAN /\ cut \in BOOLEAN

LifecycleInit ==
  /\ AssemblerInit
  /\ isInit = FALSE /\ made = FALSE /\ codes = <<>> /\ sigFailed = FALSE
  /\ pc = "host" /\ at = 0 /\ calls = <<>>
  /\ result = NoResult /\ own = Nothing /\ ready = {} /\ raised = 0
  /\ unasked = FALSE /\ cut = FALSE

-----------------------------------------------------------------------------
(* What the host does.                                                      *)

\* Init, then AssemblyLoader::Load.  A file that is missing is one without
\* types.  An exception leaves the codes before it in the list, and the host
\* may not survive it.
LoadAssembly(a) ==
  /\ pc = "host"
  /\ Len(codes) + Len(a.types) <= MaxCodes
  /\ isInit' = TRUE
  /\ made' = TRUE
  /\ codes' = codes \o a.types
  /\ pc' \in IF a.fails THEN {"host", "exited"} ELSE {"host"}
  /\ UNCHANGED <<assemblerVars, sigFailed, at, calls, auxVars>>

Raise(what) ==
  /\ pc = "host"
  /\ made
  /\ pc' = what
  /\ UNCHANGED <<assemblerVars, hostVars, sigFailed, at, calls,
                 result, own, ready, raised, unasked>>
RaiseInitializers == Raise("init") /\ cut' = FALSE
RaiseUpdates == Raise("frame") /\ UNCHANGED cut

\* Without a loader a raise and FindCode are a null reference; without an
\* assembler so is a compilation.
NullReference ==
  /\ pc = "host"
  /\ ~made \/ ~isInit
  /\ pc' = "crashed"
  /\ UNCHANGED <<assemblerVars, hostVars, sigFailed, at, calls, auxVars>>

\* The rest of RaiseInitializers: the registers decide whether the user is
\* asked.
Continue ==
  /\ pc = "prompt"
  /\ pc' = "host"
  /\ unasked' = FALSE
  /\ UNCHANGED <<assemblerVars, hostVars, sigFailed, at, calls,
                 result, own, ready, raised, cut>>
Quit ==
  /\ pc = "prompt"
  /\ pc' = "exited"
  /\ UNCHANGED <<assemblerVars, hostVars, sigFailed, at, calls, auxVars>>

-----------------------------------------------------------------------------
(* raiseInitializers and raiseUpdates.                                      *)

\* Code n has come to the end of its Init.
Completes(n) == ready' = IF pc = "init" THEN ready \cup {n} ELSE ready

\* Defective variant: a code that returns is called again.
NextCodeAgain ==
  /\ pc \in Running /\ calls = <<>> /\ at < Len(codes)
  /\ at' = IF at = 0 THEN 1 ELSE at
  /\ calls' = IF pc = "init" THEN InitOf[codes[at']] ELSE FrameOf[codes[at']]
  /\ own' = Nothing
  /\ IF calls' = <<>> THEN Completes(at') ELSE UNCHANGED ready
  /\ UNCHANGED <<assemblerVars, hostVars, sigFailed, pc, result, raised, unasked, cut>>

NextCode ==
  /\ pc \in Running /\ calls = <<>> /\ at < Len(codes)
  /\ at' = at + 1
  /\ calls' = IF pc = "init" THEN InitOf[codes[at']] ELSE FrameOf[codes[at']]
  /\ own' = Nothing
  /\ IF calls' = <<>> THEN Completes(at') ELSE UNCHANGED ready
  /\ UNCHANGED <<assemblerVars, hostVars, sigFailed, pc, result, raised, unasked, cut>>

\* Defective variant: the place in the list is kept.
RaiseEndsThere ==
  /\ pc \in Running /\ calls = <<>> /\ at = Len(codes)
  /\ at' = at
  /\ raised' = IF pc = "init" THEN Len(codes) ELSE raised
  /\ pc' = IF pc = "init" /\ (sigFailed \/ asmFailed) THEN "prompt" ELSE "host"
  /\ UNCHANGED <<assemblerVars, hostVars, sigFailed, calls, result, own, ready, unasked,
                 cut>>

RaiseEnds ==
  /\ pc \in Running /\ calls = <<>> /\ at = Len(codes)
  /\ at' = 0
  /\ raised' = IF pc = "init" THEN Len(codes) ELSE raised
  /\ pc' = IF pc = "init" /\ (sigFailed \/ asmFailed) THEN "prompt" ELSE "host"
  /\ UNCHANGED <<assemblerVars, hostVars, sigFailed, calls, result, own, ready, unasked,
                 cut>>

\* Defective variant: an exception ends the code, not the raise.
UnwindToNext ==
  /\ calls' = <<>>
  /\ UNCHANGED <<pc, at, cut, ready>>

\* An exception ends the raise, and the host catches it or does not.
Unwind ==
  /\ pc' \in {"host", "exited"}
  /\ at' = 0
  /\ calls' = <<>>
  /\ cut' = (cut \/ pc = "init")
  /\ UNCHANGED ready

-----------------------------------------------------------------------------
(* What codes do.                                                           *)

Calling(op) == pc \in Running /\ calls # <<>> /\ Head(calls).op = op
Returns ==
  /\ calls' = Tail(calls)
  /\ IF calls' = <<>> THEN Completes(at) ELSE UNCHANGED ready
  /\ UNCHANGED <<pc, at, cut>>

SetAssemblerSymbol ==
  /\ Calling("set")
  /\ LET call == Head(calls)
     IN SetSymbol(call.name, call.value) /\ own' = [own EXCEPT ![call.name] = call.value]
  /\ Returns
  /\ UNCHANGED <<asmFailed, noLogging, hostVars, sigFailed, result, raised, unasked>>

RemoveAssemblerSymbol ==
  /\ Calling("remove")
  /\ LET call == Head(calls)
     IN RemoveSymbol(call.name) /\ own' = [own EXCEPT ![call.name] = Missing]
  /\ Returns
  /\ UNCHANGED <<asmFailed, noLogging, hostVars, sigFailed, result, raised, unasked>>

\* The result of the call's source, and the symbols as its code has set them.
Assembles(op) ==
  /\ Calling(op)
  /\ result' = [by |-> op, own |-> own, is |-> CompileAssembly(Head(calls).source)]
  /\ UNCHANGED <<symbols, noLogging, hostVars, sigFailed, own, raised>>

Reports(failed) == unasked' = (unasked \/ (pc = "init" /\ failed))

\* What the hook writes is modelled in HookService.
WriteASMHook ==
  /\ Assembles("hook")
  /\ OnError(result'.is)
  /\ Reports(result'.is.errors > 0)
  /\ Returns

\* The address of the first of no bytes is an exception.
AssembleInstructions ==
  /\ Assembles("assemble")
  /\ OnError(result'.is)
  /\ Reports(result'.is.errors > 0)
  /\ IF result'.is.code = <<>> THEN Unwind ELSE Returns

\* CompileAssembly of the API leaves the errors to its caller.
CompileNative ==
  /\ Assembles("compile")
  /\ Returns
  /\ UNCHANGED <<asmFailed, unasked>>

\* Scan reports a failure when it happens, not when it is remembered.
ScanSignature ==
  /\ Calling("scan")
  /\ \E fails \in BOOLEAN : sigFailed' = (sigFailed \/ fails) /\ Reports(fails)
  /\ Returns
  /\ UNCHANGED <<assemblerVars, hostVars, result, own, raised>>

DisableLogging ==
  /\ Calling("silence")
  /\ noLogging' = TRUE
  /\ Returns
  /\ UNCHANGED <<symbols, asmFailed, hostVars, sigFailed, result, own, raised, unasked>>

Throw ==
  /\ Calling("throw")
  /\ Unwind
  /\ UNCHANGED <<assemblerVars, hostVars, sigFailed, result, own, raised, unasked>>

-----------------------------------------------------------------------------
(* What native clients do between the host's calls.                         *)

SetSymbolNative(n, v) ==
  /\ pc = "host"
  /\ SetSymbol(n, v)
  /\ UNCHANGED <<asmFailed, noLogging, hostVars, sigFailed, pc, at, calls, auxVars>>

RemoveSymbolNative(n) ==
  /\ pc = "host"
  /\ RemoveSymbol(n)
  /\ UNCHANGED <<asmFailed, noLogging, hostVars, sigFailed, pc, at, calls, auxVars>>

-----------------------------------------------------------------------------
HostStep ==
  \/ \E a \in Assemblies : LoadAssembly(a)
  \/ RaiseInitializers \/ RaiseUpdates \/ NullReference \/ Continue \/ Quit
  \/ \E n \in Names, v \in Values : SetSymbolNative(n, v)
  \/ \E n \in Names : RemoveSymbolNative(n)

CodeStep ==
  \/ SetAssemblerSymbol \/ RemoveAssemblerSymbol
  \/ WriteASMHook \/ AssembleInstructions \/ CompileNative
  \/ ScanSignature \/ DisableLogging \/ Throw

RaiseStep == NextCode \/ RaiseEnds \/ CodeStep

LifecycleNext == HostStep \/ RaiseStep

\* The thread that raises runs; what codes call returns or throws.
LifecycleSpec == LifecycleInit /\ [][LifecycleNext]_vars /\ WF_vars(RaiseStep)

-----------------------------------------------------------------------------
(* Properties.                                                              *)

\* A failure that an initialiser reported, by a missing signature or by its
\* assembly, does not go unasked: no OnFrame runs before the user has agreed.
\* Only an exception, which skips the question, and a host that survives it
\* come around that (CommonLoader.cpp:30-34).
NoFrameUnasked == pc = "frame" => (unasked => cut)

\* The codes that were there when initialisers were last raised to their end
\* have been initialised to theirs, whatever exceptions there were in other
\* raises and whatever has been loaded since; so OnFrame finds what Init made.
FramesFollowInit == pc = "frame" => 1 .. raised \subseteq ready

\* The name's hash is no other name's.
Unshared(n) == \A m \in Names \cup {Null} : HashOf[m] = HashOf[n] => m = n

\* Codes share one map of symbols with each other and with native clients, but
\* what a code assembles has the value it has itself given to a symbol, unless
\* another name has the same hash.
OwnSymbols ==
  result # NoResult =>
    \A n \in DOMAIN result.is.code :
      LET s == result.is.code[n]
      IN (s.of \in Names /\ Unshared(s.of)) => result.own[s.of] \in {Missing, s.value}

\* Every raise comes to its end, with a question, an exception or neither.
RaiseReturns == pc \in Running ~> pc \notin Running

\* "Failed to compile assembly in one or more codes." (CommonLoader.cpp:50), for
\* what hooks and codes assemble: when part of it is missing, the register is
\* set.
FailureIsReported ==
  (result # NoResult /\ result.by \in {"hook", "assemble"}) =>
    (Len(result.is.code) < Len(result.is.source) => asmFailed)
=============================================================================
