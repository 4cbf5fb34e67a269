---------------------- MODULE LoaderLifecycleProofs ----------------------
(***************************************************************************)
(* The lifecycle's invariants, for any codes, whatever calls they make,    *)
(* any assemblies in any order and any way the hashes of symbols collide.  *)
(***************************************************************************)
EXTENDS LoaderLifecycle, TLAPS

-----------------------------------------------------------------------------
(* The inductive invariant.                                                 *)

\* A failure that has been reported and not been asked about is in a register,
\* which the end of a raise reads, and stays unasked only through exceptions.
Asked ==
  /\ unasked => sigFailed \/ asmFailed
  /\ (unasked /\ pc \in {"host", "frame"}) => cut

\* While initialisers run, the codes before the running one are initialised.
Initialised ==
  /\ \A n \in 1 .. raised : n \in ready
  /\ pc = "init" =>
       /\ \A n \in 1 .. at : n # at => n \in ready
       /\ calls = <<>> => \A n \in 1 .. at : n \in ready

\* While a code has calls to make, its own symbols are the ones in the map.
OwnCurrent ==
  calls # <<>> =>
    \A n \in Names \cup {Null} :
      Unshared(n) => own[n] \in {Missing, symbols[HashOf[n]]}
OwnInv == OwnCurrent /\ OwnSymbols

\* OwnSymbols, for one result.
Compiled(res) ==
  \A n \in DOMAIN res.is.code :
    LET s == res.is.code[n]
    IN (s.of \in Names /\ Unshared(s.of)) => res.own[s.of] \in {Missing, s.value}

\* The part of the type invariant that is about the place in a raise.
PlaceOK ==
  /\ calls \in Seq(Calls) /\ (at = 0 => calls = <<>>)
  /\ at \in 0 .. Len(codes) /\ (pc \notin Running => at = 0)
  /\ pc \in {"host", "prompt", "exited", "crashed"} \cup Running
  /\ ready \subseteq DOMAIN codes /\ cut \in BOOLEAN

LifecycleInv == LifecycleTypeOK /\ Asked /\ Initialised /\ OwnInv

-----------------------------------------------------------------------------
(* What the calls of a code are.                                            *)

LEMMA CallTypes ==
  ASSUME LifecycleTypeOK, calls # <<>>
  PROVE  /\ Head(calls) \in Calls /\ Tail(calls) \in Seq(Calls)
         /\ Head(calls).op \in {"set", "remove"} => Head(calls).name \in Names \cup {Null}
         /\ Head(calls).op = "set" => Head(calls).value \in Values
PROOF
  <1>1. calls \in Seq(Calls)
    BY DEF LifecycleTypeOK
  <1>2. Head(calls) \in Calls /\ Tail(calls) \in Seq(Calls)
    BY <1>1
  <1>3. QED
    BY <1>2, LifecycleConstants DEF LifecycleConstants

LEMMA ReturnsPlace ==
  ASSUME LifecycleTypeOK, pc \in Running, calls # <<>>, Returns, UNCHANGED codes
  PROVE  PlaceOK'
PROOF
  <1>1. Tail(calls) \in Seq(Calls)
    BY CallTypes
  <1>2. at \in DOMAIN codes
    BY DEF LifecycleTypeOK
  <1>3. ready' \subseteq DOMAIN codes
    BY <1>2 DEF Returns, Completes, LifecycleTypeOK
  <1>4. QED
    BY <1>1, <1>2, <1>3 DEF Returns, LifecycleTypeOK, PlaceOK, Running

\* What a code assembles has the values of its own symbols.
LEMMA CompiledOwn ==
  ASSUME OwnCurrent, calls # <<>>, NEW source, NEW op
  PROVE  Compiled([by |-> op, own |-> own, is |-> CompileAssembly(source)])
PROOF
  <1> DEFINE code == CompileAssembly(source).code
  <1>1. ASSUME NEW n \in DOMAIN code
        PROVE  \E s : code[n] = Encoded(s)
    BY DEF CompileAssembly
  <1>2. ASSUME NEW s, s.arg \in Names, Unshared(s.arg)
        PROVE  own[s.arg] \in {Missing, Encoded(s).value}
    BY <1>2 DEF OwnCurrent, Encoded, ResolveSymbol
  <1>3. ASSUME NEW n \in DOMAIN code, code[n].of \in Names, Unshared(code[n].of)
        PROVE  own[code[n].of] \in {Missing, code[n].value}
    <2>1. PICK s : code[n] = Encoded(s)
      BY <1>1
    <2>2. code[n].of = s.arg
      BY <2>1 DEF Encoded
    <2>3. QED
      BY <1>2, <1>3, <2>1, <2>2
  <1>4. QED
    BY <1>3 DEF Compiled

-----------------------------------------------------------------------------
(* Every step preserves each part of it.                                    *)

LEMMA TypeStep ==
  ASSUME LifecycleTypeOK, [LifecycleNext]_vars
  PROVE  LifecycleTypeOK'
PROOF
  <1>1. ASSUME NEW a \in Assemblies, LoadAssembly(a) PROVE LifecycleTypeOK'
    BY LifecycleConstants, <1>1
    DEF LoadAssembly, assemblerVars, auxVars, LifecycleTypeOK, AssemblerTypeOK,
        Running
  <1>2. CASE RaiseInitializers
    BY <1>2
    DEF RaiseInitializers, Raise, assemblerVars, hostVars, LifecycleTypeOK,
        AssemblerTypeOK, Running
  <1>3. CASE RaiseUpdates
    BY <1>3
    DEF RaiseUpdates, Raise, assemblerVars, hostVars, LifecycleTypeOK,
        AssemblerTypeOK, Running
  <1>4. CASE NullReference
    BY <1>4
    DEF NullReference, assemblerVars, hostVars, auxVars, LifecycleTypeOK,
        AssemblerTypeOK, Running
  <1>5. CASE Continue
    BY <1>5
    DEF Continue, assemblerVars, hostVars, LifecycleTypeOK, AssemblerTypeOK,
        Running
  <1>6. CASE Quit
    BY <1>6
    DEF Quit, assemblerVars, hostVars, auxVars, LifecycleTypeOK, AssemblerTypeOK,
        Running
  <1>7. ASSUME NEW n \in Names, NEW v \in Values, SetSymbolNative(n, v) PROVE
     LifecycleTypeOK'
    BY AssemblerConstants, <1>7
    DEF SetSymbolNative, SetSymbol, hostVars, auxVars, LifecycleTypeOK,
        AssemblerTypeOK, Running
  <1>7a. ASSUME NEW n \in Names, RemoveSymbolNative(n) PROVE LifecycleTypeOK'
    BY AssemblerConstants, <1>7a
    DEF RemoveSymbolNative, RemoveSymbol, hostVars, auxVars, LifecycleTypeOK,
        AssemblerTypeOK, Running
  <1>8. CASE NextCode
    <2>1. at' \in DOMAIN codes /\ codes[at'] \in Codes
      BY <1>8 DEF NextCode, LifecycleTypeOK
    <2>2. calls' \in Seq(Calls)
      BY <1>8, <2>1, LifecycleConstants DEF NextCode
    <2>3. ready' \subseteq DOMAIN codes
      BY <1>8, <2>1 DEF NextCode, Completes, auxVars, LifecycleTypeOK
    <2>4. own' \in [Names \cup {Null} -> Values \cup {Missing}]
      BY <1>8 DEF NextCode, Nothing
    <2>5. QED
      BY <1>8, <2>1, <2>2, <2>3, <2>4
      DEF NextCode, assemblerVars, hostVars, LifecycleTypeOK, AssemblerTypeOK,
          Running
  <1>9. CASE RaiseEnds
    BY <1>9
    DEF RaiseEnds, assemblerVars, hostVars, LifecycleTypeOK, AssemblerTypeOK,
        Running
  <1>10. CASE SetAssemblerSymbol
    <2>1. PlaceOK'
      BY <1>10, ReturnsPlace
      DEF SetAssemblerSymbol, Calling, assemblerVars, hostVars
    <2>2. QED
      BY <2>1, CallTypes, AssemblerConstants, <1>10
      DEF SetAssemblerSymbol, SetSymbol, Calling, Returns, assemblerVars,
          hostVars, auxVars, PlaceOK, LifecycleTypeOK, AssemblerTypeOK
  <1>11. CASE RemoveAssemblerSymbol
    <2>1. PlaceOK'
      BY <1>11, ReturnsPlace
      DEF RemoveAssemblerSymbol, Calling, assemblerVars, hostVars
    <2>2. QED
      BY <2>1, CallTypes, AssemblerConstants, <1>11
      DEF RemoveAssemblerSymbol, RemoveSymbol, Calling, Returns, assemblerVars,
          hostVars, auxVars, PlaceOK, LifecycleTypeOK, AssemblerTypeOK
  <1>12. CASE WriteASMHook
    <2>1. PlaceOK'
      BY <1>12, ReturnsPlace
      DEF WriteASMHook, Assembles, Calling, assemblerVars, hostVars
    <2>2. QED
      BY <2>1, <1>12
      DEF WriteASMHook, Assembles, OnError, Reports, Calling, Returns,
          assemblerVars, hostVars, auxVars, PlaceOK, LifecycleTypeOK,
          AssemblerTypeOK
  <1>13. CASE AssembleInstructions
    <2>1. CASE Returns
      <3>1. PlaceOK'
        BY <1>13, <2>1, ReturnsPlace
        DEF AssembleInstructions, Assembles, Calling, hostVars
      <3>2. QED
        BY <3>1, <1>13
        DEF AssembleInstructions, Assembles, Calling, OnError, Reports,
                          hostVars, PlaceOK, LifecycleTypeOK, AssemblerTypeOK
    <2>2. CASE Unwind
      BY <1>13, <2>2
      DEF AssembleInstructions, Assembles, Calling, OnError, Reports, Unwind,
                        hostVars, LifecycleTypeOK, AssemblerTypeOK, Running
    <2>3. QED
      BY <1>13, <2>1, <2>2 DEF AssembleInstructions
  <1>14. CASE CompileNative
    <2>1. PlaceOK'
      BY <1>14, ReturnsPlace
      DEF CompileNative, Assembles, Calling, assemblerVars, hostVars
    <2>2. QED
      BY <2>1, <1>14
      DEF CompileNative, Assembles, Calling, Returns, assemblerVars, hostVars,
          auxVars, PlaceOK, LifecycleTypeOK, AssemblerTypeOK
  <1>15. CASE ScanSignature
    <2>1. PlaceOK'
      BY <1>15, ReturnsPlace DEF ScanSignature, Calling, assemblerVars, hostVars
    <2>2. QED
      BY <2>1, <1>15
      DEF ScanSignature, Reports, Calling, Returns, assemblerVars, hostVars,
          auxVars, PlaceOK, LifecycleTypeOK, AssemblerTypeOK
  <1>16. CASE DisableLogging
    <2>1. PlaceOK'
      BY <1>16, ReturnsPlace DEF DisableLogging, Calling, assemblerVars, hostVars
    <2>2. QED
      BY <2>1, <1>16
      DEF DisableLogging, Calling, Returns, assemblerVars, hostVars, auxVars,
          PlaceOK, LifecycleTypeOK, AssemblerTypeOK
  <1>17. CASE Throw
    BY <1>17
    DEF Throw, Calling, Unwind, assemblerVars, hostVars, LifecycleTypeOK,
        AssemblerTypeOK, Running
  <1>18. CASE UNCHANGED vars
    BY <1>18
    DEF vars, assemblerVars, hostVars, auxVars, LifecycleTypeOK, AssemblerTypeOK,
        Running
  <1>19. QED
    BY <1>1, <1>2, <1>3, <1>4, <1>5, <1>6, <1>7, <1>7a, <1>8, <1>9, <1>10,
       <1>11, <1>12, <1>13, <1>14, <1>15, <1>16, <1>17, <1>18
       DEF LifecycleNext, HostStep, RaiseStep, CodeStep

LEMMA AskedStep ==
  ASSUME LifecycleTypeOK, Asked, [LifecycleNext]_vars
  PROVE  Asked'
PROOF
  <1>1. ASSUME NEW a \in Assemblies, LoadAssembly(a) PROVE Asked'
    BY <1>1
    DEF LoadAssembly, assemblerVars, auxVars, Asked, LifecycleTypeOK,
        AssemblerTypeOK, Running
  <1>2. CASE RaiseInitializers
    BY <1>2
    DEF RaiseInitializers, Raise, assemblerVars, hostVars, Asked, LifecycleTypeOK,
        AssemblerTypeOK, Running
  <1>3. CASE RaiseUpdates
    BY <1>3
    DEF RaiseUpdates, Raise, assemblerVars, hostVars, Asked, LifecycleTypeOK,
        AssemblerTypeOK, Running
  <1>4. CASE NullReference
    BY <1>4
    DEF NullReference, assemblerVars, hostVars, auxVars, Asked, LifecycleTypeOK,
        AssemblerTypeOK, Running
  <1>5. CASE Continue
    BY <1>5
    DEF Continue, assemblerVars, hostVars, Asked, LifecycleTypeOK,
        AssemblerTypeOK, Running
  <1>6. CASE Quit
    BY <1>6
    DEF Quit, assemblerVars, hostVars, auxVars, Asked, LifecycleTypeOK,
        AssemblerTypeOK, Running
  <1>7. ASSUME NEW n \in Names, NEW v \in Values, SetSymbolNative(n, v) PROVE
     Asked'
    BY <1>7
    DEF SetSymbolNative, SetSymbol, hostVars, auxVars, Asked, LifecycleTypeOK,
        AssemblerTypeOK, Running
  <1>7a. ASSUME NEW n \in Names, RemoveSymbolNative(n) PROVE Asked'
    BY <1>7a
    DEF RemoveSymbolNative, RemoveSymbol, hostVars, auxVars, Asked, LifecycleTypeOK,
        AssemblerTypeOK, Running
  <1>8. CASE NextCode
    BY <1>8
    DEF NextCode, Completes, assemblerVars, hostVars, Asked, LifecycleTypeOK,
        AssemblerTypeOK, Running
  <1>9. CASE RaiseEnds
    BY <1>9
    DEF RaiseEnds, assemblerVars, hostVars, Asked, LifecycleTypeOK,
        AssemblerTypeOK, Running
  <1>10. CASE SetAssemblerSymbol
    BY <1>10
    DEF SetAssemblerSymbol, SetSymbol, Calling, Returns, Completes, hostVars,
        Asked, LifecycleTypeOK, AssemblerTypeOK, Running
  <1>11. CASE RemoveAssemblerSymbol
    BY <1>11
    DEF RemoveAssemblerSymbol, RemoveSymbol, Calling, Returns, Completes,
        hostVars, Asked, LifecycleTypeOK, AssemblerTypeOK, Running
  <1>12. CASE WriteASMHook
    BY <1>12
    DEF WriteASMHook, Assembles, Calling, OnError, Reports, Returns, Completes,
        hostVars, Asked, LifecycleTypeOK, AssemblerTypeOK, Running
  <1>13. CASE AssembleInstructions
    BY <1>13
    DEF AssembleInstructions, Assembles, Calling, OnError, Reports, Returns,
        Completes, Unwind, hostVars, Asked, LifecycleTypeOK, AssemblerTypeOK,
        Running
  <1>14. CASE CompileNative
    BY <1>14
    DEF CompileNative, Assembles, Calling, Returns, Completes, hostVars, Asked,
        LifecycleTypeOK, AssemblerTypeOK, Running
  <1>15. CASE ScanSignature
    BY <1>15
    DEF ScanSignature, Calling, Reports, Returns, Completes, assemblerVars,
        hostVars, Asked, LifecycleTypeOK, AssemblerTypeOK, Running
  <1>16. CASE DisableLogging
    BY <1>16
    DEF DisableLogging, Calling, Returns, Completes, hostVars, Asked,
        LifecycleTypeOK, AssemblerTypeOK, Running
  <1>17. CASE Throw
    BY <1>17
    DEF Throw, Calling, Unwind, assemblerVars, hostVars, Asked, LifecycleTypeOK,
        AssemblerTypeOK, Running
  <1>18. CASE UNCHANGED vars
    BY <1>18
    DEF vars, assemblerVars, hostVars, auxVars, Asked, LifecycleTypeOK,
        AssemblerTypeOK, Running
  <1>19. QED
    BY <1>1, <1>2, <1>3, <1>4, <1>5, <1>6, <1>7, <1>7a, <1>8, <1>9, <1>10,
       <1>11, <1>12, <1>13, <1>14, <1>15, <1>16, <1>17, <1>18
       DEF LifecycleNext, HostStep, RaiseStep, CodeStep

LEMMA InitialisedStep ==
  ASSUME LifecycleTypeOK, LifecycleTypeOK', Initialised, [LifecycleNext]_vars
  PROVE  Initialised'
PROOF
  <1>1. ASSUME NEW a \in Assemblies, LoadAssembly(a) PROVE Initialised'
    BY <1>1
    DEF LoadAssembly, assemblerVars, auxVars, Initialised, LifecycleTypeOK,
        Running
  <1>2. CASE RaiseInitializers
    BY <1>2
    DEF RaiseInitializers, Raise, assemblerVars, hostVars, Initialised,
        LifecycleTypeOK, Running
  <1>3. CASE RaiseUpdates
    BY <1>3
    DEF RaiseUpdates, Raise, assemblerVars, hostVars, Initialised,
        LifecycleTypeOK, Running
  <1>4. CASE NullReference
    BY <1>4
    DEF NullReference, assemblerVars, hostVars, auxVars, Initialised,
        LifecycleTypeOK, Running
  <1>5. CASE Continue
    BY <1>5
    DEF Continue, assemblerVars, hostVars, Initialised, LifecycleTypeOK, Running
  <1>6. CASE Quit
    BY <1>6
    DEF Quit, assemblerVars, hostVars, auxVars, Initialised, LifecycleTypeOK,
        Running
  <1>7. ASSUME NEW n \in Names, NEW v \in Values, SetSymbolNative(n, v) PROVE
     Initialised'
    BY <1>7
    DEF SetSymbolNative, SetSymbol, hostVars, auxVars, Initialised,
        LifecycleTypeOK, Running
  <1>7a. ASSUME NEW n \in Names, RemoveSymbolNative(n) PROVE Initialised'
    BY <1>7a
    DEF RemoveSymbolNative, RemoveSymbol, hostVars, auxVars, Initialised,
        LifecycleTypeOK, Running
  <1>8. CASE NextCode
    BY <1>8
    DEF NextCode, Completes, assemblerVars, hostVars, Initialised,
        LifecycleTypeOK, Running
  <1>9. CASE RaiseEnds
    BY <1>9
    DEF RaiseEnds, assemblerVars, hostVars, Initialised, LifecycleTypeOK, Running
  <1>10. CASE SetAssemblerSymbol
    BY <1>10
    DEF SetAssemblerSymbol, SetSymbol, Calling, Returns, Completes, hostVars,
        Initialised, LifecycleTypeOK, Running
  <1>11. CASE RemoveAssemblerSymbol
    BY <1>11
    DEF RemoveAssemblerSymbol, RemoveSymbol, Calling, Returns, Completes,
        hostVars, Initialised, LifecycleTypeOK, Running
  <1>12. CASE WriteASMHook
    BY <1>12
    DEF WriteASMHook, Assembles, Calling, OnError, Reports, Returns, Completes,
        hostVars, Initialised, LifecycleTypeOK, Running
  <1>13. CASE AssembleInstructions
    BY <1>13
    DEF AssembleInstructions, Assembles, Calling, OnError, Reports, Returns,
        Completes, Unwind, hostVars, Initialised, LifecycleTypeOK, Running
  <1>14. CASE CompileNative
    BY <1>14
    DEF CompileNative, Assembles, Calling, Returns, Completes, hostVars,
        Initialised, LifecycleTypeOK, Running
  <1>15. CASE ScanSignature
    BY <1>15
    DEF ScanSignature, Calling, Reports, Returns, Completes, assemblerVars,
        hostVars, Initialised, LifecycleTypeOK, Running
  <1>16. CASE DisableLogging
    BY <1>16
    DEF DisableLogging, Calling, Returns, Completes, hostVars, Initialised,
        LifecycleTypeOK, Running
  <1>17. CASE Throw
    BY <1>17
    DEF Throw, Calling, Unwind, assemblerVars, hostVars, Initialised,
        LifecycleTypeOK, Running
  <1>18. CASE UNCHANGED vars
    BY <1>18
    DEF vars, assemblerVars, hostVars, auxVars, Initialised, LifecycleTypeOK,
        Running
  <1>19. QED
    BY <1>1, <1>2, <1>3, <1>4, <1>5, <1>6, <1>7, <1>7a, <1>8, <1>9, <1>10,
       <1>11, <1>12, <1>13, <1>14, <1>15, <1>16, <1>17, <1>18
       DEF LifecycleNext, HostStep, RaiseStep, CodeStep

LEMMA OwnStep ==
  ASSUME LifecycleTypeOK, LifecycleTypeOK', OwnInv, [LifecycleNext]_vars
  PROVE  OwnInv'
PROOF
  <1>1. ASSUME NEW a \in Assemblies, LoadAssembly(a) PROVE OwnInv'
    BY <1>1
    DEF LoadAssembly, assemblerVars, auxVars, OwnInv, OwnCurrent, OwnSymbols,
        LifecycleTypeOK, AssemblerTypeOK, Running, Unshared
  <1>2. CASE RaiseInitializers
    BY <1>2
    DEF RaiseInitializers, Raise, assemblerVars, hostVars, OwnInv, OwnCurrent,
        OwnSymbols, LifecycleTypeOK, AssemblerTypeOK, Running, Unshared
  <1>3. CASE RaiseUpdates
    BY <1>3
    DEF RaiseUpdates, Raise, assemblerVars, hostVars, OwnInv, OwnCurrent,
        OwnSymbols, LifecycleTypeOK, AssemblerTypeOK, Running, Unshared
  <1>4. CASE NullReference
    BY <1>4
    DEF NullReference, assemblerVars, hostVars, auxVars, OwnInv, OwnCurrent,
        OwnSymbols, LifecycleTypeOK, AssemblerTypeOK, Running, Unshared
  <1>5. CASE Continue
    BY <1>5
    DEF Continue, assemblerVars, hostVars, OwnInv, OwnCurrent, OwnSymbols,
        LifecycleTypeOK, AssemblerTypeOK, Running, Unshared
  <1>6. CASE Quit
    BY <1>6
    DEF Quit, assemblerVars, hostVars, auxVars, OwnInv, OwnCurrent, OwnSymbols,
        LifecycleTypeOK, AssemblerTypeOK, Running, Unshared
  <1>7. ASSUME NEW n \in Names, NEW v \in Values, SetSymbolNative(n, v) PROVE
     OwnInv'
    BY AssemblerConstants, <1>7
    DEF SetSymbolNative, SetSymbol, hostVars, auxVars, OwnInv, OwnCurrent,
        OwnSymbols, LifecycleTypeOK, AssemblerTypeOK, Running, Unshared
  <1>7a. ASSUME NEW n \in Names, RemoveSymbolNative(n) PROVE OwnInv'
    BY AssemblerConstants, <1>7a
    DEF RemoveSymbolNative, RemoveSymbol, hostVars, auxVars, OwnInv, OwnCurrent,
        OwnSymbols, LifecycleTypeOK, AssemblerTypeOK, Running, Unshared
  <1>8. CASE NextCode
    BY <1>8
    DEF NextCode, Nothing, assemblerVars, hostVars, OwnInv, OwnCurrent,
        OwnSymbols, Unshared
  <1>9. CASE RaiseEnds
    BY <1>9
    DEF RaiseEnds, assemblerVars, hostVars, OwnInv, OwnCurrent, OwnSymbols,
        LifecycleTypeOK, AssemblerTypeOK, Running, Unshared
  <1>10. CASE SetAssemblerSymbol
    BY CallTypes, AssemblerConstants, <1>10
    DEF SetAssemblerSymbol, SetSymbol, Calling, Returns, Completes, hostVars,
        OwnInv, OwnCurrent, OwnSymbols, LifecycleTypeOK, AssemblerTypeOK, Running,
        Unshared
  <1>11. CASE RemoveAssemblerSymbol
    BY CallTypes, AssemblerConstants, <1>11
    DEF RemoveAssemblerSymbol, RemoveSymbol, Calling, Returns, Completes,
        hostVars, OwnInv, OwnCurrent, OwnSymbols, LifecycleTypeOK,
        AssemblerTypeOK, Running, Unshared
  <1>12. CASE WriteASMHook
    <2>1. Compiled(result')
      BY <1>12, CompiledOwn DEF WriteASMHook, Assembles, Calling, OwnInv
    <2>2. OwnSymbols'
      BY <2>1 DEF Compiled, OwnSymbols
    <2>3. OwnCurrent'
      BY <1>12
      DEF WriteASMHook, Assembles, Calling, Returns, assemblerVars, hostVars,
          OwnInv, OwnCurrent, Unshared
    <2>4. QED
      BY <2>2, <2>3 DEF OwnInv
  <1>13. CASE AssembleInstructions
    <2>1. Compiled(result')
      BY <1>13, CompiledOwn DEF AssembleInstructions, Assembles, Calling, OwnInv
    <2>2. OwnSymbols'
      BY <2>1 DEF Compiled, OwnSymbols
    <2>3. OwnCurrent'
      BY <1>13
      DEF AssembleInstructions, Assembles, Calling, Returns, Unwind,
          assemblerVars, hostVars, OwnInv, OwnCurrent, Unshared
    <2>4. QED
      BY <2>2, <2>3 DEF OwnInv
  <1>14. CASE CompileNative
    <2>1. Compiled(result')
      BY <1>14, CompiledOwn DEF CompileNative, Assembles, Calling, OwnInv
    <2>2. OwnSymbols'
      BY <2>1 DEF Compiled, OwnSymbols
    <2>3. OwnCurrent'
      BY <1>14
      DEF CompileNative, Assembles, Calling, Returns, assemblerVars, hostVars,
          OwnInv, OwnCurrent, Unshared
    <2>4. QED
      BY <2>2, <2>3 DEF OwnInv
  <1>15. CASE ScanSignature
    BY <1>15
    DEF ScanSignature, Calling, Reports, Returns, Completes, assemblerVars,
        hostVars, OwnInv, OwnCurrent, OwnSymbols, LifecycleTypeOK,
        AssemblerTypeOK, Running, Unshared
  <1>16. CASE DisableLogging
    BY <1>16
    DEF DisableLogging, Calling, Returns, Completes, hostVars, OwnInv, OwnCurrent,
        OwnSymbols, LifecycleTypeOK, AssemblerTypeOK, Running, Unshared
  <1>17. CASE Throw
    BY <1>17
    DEF Throw, Calling, Unwind, assemblerVars, hostVars, OwnInv, OwnCurrent,
        OwnSymbols, LifecycleTypeOK, AssemblerTypeOK, Running, Unshared
  <1>18. CASE UNCHANGED vars
    BY <1>18
    DEF vars, assemblerVars, hostVars, auxVars, OwnInv, OwnCurrent, OwnSymbols,
        LifecycleTypeOK, AssemblerTypeOK, Running, Unshared
  <1>19. QED
    BY <1>1, <1>2, <1>3, <1>4, <1>5, <1>6, <1>7, <1>7a, <1>8, <1>9, <1>10,
       <1>11, <1>12, <1>13, <1>14, <1>15, <1>16, <1>17, <1>18
       DEF LifecycleNext, HostStep, RaiseStep, CodeStep

-----------------------------------------------------------------------------
LEMMA LifecycleStarts == LifecycleInit => LifecycleInv
PROOF
  <1> SUFFICES ASSUME LifecycleInit PROVE LifecycleInv
    OBVIOUS
  <1>1. AssemblerTypeOK
    BY DEF LifecycleInit, AssemblerInit, AssemblerTypeOK
  <1>2. codes = <<>> /\ calls = <<>> /\ Len(codes) = 0
    BY DEF LifecycleInit
  <1>3. own \in [Names \cup {Null} -> Values \cup {Missing}]
    BY DEF LifecycleInit, Nothing
  <1>4. codes \in Seq(Codes) /\ calls \in Seq(Calls)
    BY <1>2
  <1>5. LifecycleTypeOK
    <2>1. isInit \in BOOLEAN /\ made \in BOOLEAN /\ sigFailed \in BOOLEAN
          /\ unasked \in BOOLEAN /\ cut \in BOOLEAN
      BY DEF LifecycleInit
    <2>2. at \in 0 .. Len(codes) /\ raised \in 0 .. Len(codes) /\ Len(codes) <= MaxCodes
      BY <1>2, LifecycleConstants DEF LifecycleInit
    <2>3. pc = "host" /\ at = 0 /\ ready \subseteq DOMAIN codes
      BY DEF LifecycleInit
    <2>4. QED
      BY <1>1, <1>2, <1>3, <1>4, <2>1, <2>2, <2>3 DEF LifecycleTypeOK
  <1>6. Asked /\ Initialised /\ OwnInv
    BY DEF LifecycleInit, Asked, Initialised, OwnInv, OwnCurrent, OwnSymbols
  <1>7. QED
    BY <1>5, <1>6 DEF LifecycleInv

LEMMA LifecycleStep == LifecycleInv /\ [LifecycleNext]_vars => LifecycleInv'
PROOF
  BY TypeStep, AskedStep, InitialisedStep, OwnStep DEF LifecycleInv

LEMMA LifecycleAlways == LifecycleSpec => []LifecycleInv
PROOF
  BY LifecycleStarts, LifecycleStep, PTL DEF LifecycleSpec

-----------------------------------------------------------------------------
\* The loader's variables keep their types, and a raise its place in the list
\* (CommonLoader.cpp, AssemblyLoader.h).
THEOREM LifecycleTypeCorrect == LifecycleSpec => []LifecycleTypeOK
PROOF
  BY LifecycleAlways, PTL DEF LifecycleInv

\* No OnFrame runs after a failure that the user has not been asked about,
\* unless an exception skipped the question (CommonLoader.cpp:28-66).
THEOREM FailuresAreAsked == LifecycleSpec => []NoFrameUnasked
PROOF
  <1>1. LifecycleInv => NoFrameUnasked
    BY DEF LifecycleInv, Asked, NoFrameUnasked
  <1>2. QED
    BY LifecycleAlways, <1>1, PTL

\* Every code of the last whole raise is initialised when OnFrame runs
\* (AssemblyLoader.h:65-86).
THEOREM FramesAreInitialised == LifecycleSpec => []FramesFollowInit
PROOF
  <1>1. LifecycleInv => FramesFollowInit
    BY DEF LifecycleInv, Initialised, FramesFollowInit
  <1>2. QED
    BY LifecycleAlways, <1>1, PTL

\* What a code assembles has its own values of symbols, for every way in which
\* hashes collide (AssemblerService.cpp:38-57).
THEOREM SymbolsAreOwn == LifecycleSpec => []OwnSymbols
PROOF
  <1>1. LifecycleInv => OwnSymbols
    BY DEF LifecycleInv, OwnInv
  <1>2. QED
    BY LifecycleAlways, <1>1, PTL
=============================================================================
