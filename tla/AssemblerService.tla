--------------------------- MODULE AssemblerService ---------------------------
(***************************************************************************)
(* The assembler service (AssemblerService.cpp): the symbol map, which is  *)
(* kept by a 32-bit hash of the names, and what CompileAssembly makes of a *)
(* source.  Keystone is in it as far as the service sees it: a statement   *)
(* with an error is skipped and listed; a symbol that the service does not *)
(* resolve leaves no code and no error.                                    *)
(***************************************************************************)
EXTENDS Naturals, Sequences

CONSTANTS
  Names,        \* the names of symbols
  Null,         \* the name that a null string is
  Hashes,       \* the values of XXH32 that occur
  HashOf,       \* HashOf[n]: the hash of n, 0 for Null
  Values,       \* the values of symbols
  Missing       \* no value

ASSUME AssemblerConstants ==
  /\ Null \notin Names
  /\ HashOf \in [Names \cup {Null} -> Hashes]
  /\ HashOf[Null] = 0
  /\ Values \subseteq Nat
  /\ Missing \notin Values

VARIABLES
  symbols,      \* symbol_map
  asmFailed,    \* register CMN_LOADER_STATE_INIT_ASSEMBLY_FAILED
  noLogging     \* register CMN_LOADER_STATE_DISABLE_LOGGING

assemblerVars == <<symbols, asmFailed, noLogging>>

AssemblerTypeOK ==
  /\ symbols \in [Hashes -> Values \cup {Missing}]
  /\ asmFailed \in BOOLEAN
  /\ noLogging \in BOOLEAN

AssemblerInit ==
  /\ symbols = [h \in Hashes |-> Missing]
  /\ asmFailed = FALSE
  /\ noLogging = FALSE

-----------------------------------------------------------------------------
(* Symbols.                                                                 *)

\* Defective variant: the first value stays.
SetSymbolOnce(n, v) ==
  symbols' = [symbols EXCEPT ![HashOf[n]] = IF @ = Missing THEN v ELSE @]

SetSymbol(n, v) == symbols' = [symbols EXCEPT ![HashOf[n]] = v]
RemoveSymbol(n) == symbols' = [symbols EXCEPT ![HashOf[n]] = Missing]
ResolveSymbol(n) == symbols[HashOf[n]]

-----------------------------------------------------------------------------
(* Sources are sequences of statements [kind, arg]: "plain" ones, ones with  *)
(* a "symbol", whose arg is its name, "bad" ones, and ones that start with  *)
(* no "token" at all.                                                       *)

HasError(s) == s.kind \in {"bad", "token"}
Accepted(source) == SelectSeq(source, LAMBDA s : ~HasError(s))
Unresolved(s) == s.kind = "symbol" /\ ResolveSymbol(s.arg) = Missing

\* ks_asm gives up: at a first token that is none, or at a symbol that is not
\* resolved when the accepted statements are put together.
HardError(source) ==
  \/ source # <<>> /\ source[1].kind = "token"
  \/ \E n \in DOMAIN source : Unresolved(source[n])

Encoded(s) ==
  [of |-> s.arg, value |-> IF s.arg \in Names THEN ResolveSymbol(s.arg) ELSE 0]

\* The number of listed errors; parsing does not begin at a bad first token.
ErrorsSize(source) ==
  IF source # <<>> /\ source[1].kind = "token" THEN 0
  ELSE Len(source) - Len(Accepted(source))

CompileAssembly(source) ==
  [source |-> source,
   code |-> IF HardError(source) THEN <<>>
            ELSE [n \in DOMAIN Accepted(source) |-> Encoded(Accepted(source)[n])],
   errors |-> ErrorsSize(source)]

\* Defective variant: the register is set after the test for logging.
OnErrorLogged(result) ==
  asmFailed' = (asmFailed \/ (result.errors > 0 /\ ~noLogging))

\* OnError, which without errors does nothing.
OnError(result) == asmFailed' = (asmFailed \/ result.errors > 0)
=============================================================================
