-------------------------- MODULE MCLoaderLifecycle --------------------------
(* Codes that share symbols, fail and throw, loaded one by one, together and *)
(* more than once.                                                          *)
EXTENDS LoaderLifecycle, TLC

CONSTANTS
  quiet, hooker, patcher, thrower, plain, null,
  n1, n2, n3, code

\* n2 and n3 have the same hash.
MCHashOf == n1 :> 1 @@ n2 :> 2 @@ n3 :> 2 @@ null :> 0

Statement(kind, arg) == [kind |-> kind, arg |-> arg]
Plain == Statement("plain", code)
Bad == Statement("bad", code)
NoToken == Statement("token", code)
Uses(n) == Statement("symbol", n)

Set(n, v) == [op |-> "set", name |-> n, value |-> v]
Remove(n) == [op |-> "remove", name |-> n]
Does(op) == [op |-> op]
Source(op, source) == [op |-> op, source |-> source]

MCInitOf ==
  quiet :> <<Does("silence"), Set(null, 1), Set(n1, 2), Source("hook", <<Plain, Uses(n1)>>)>> @@
  hooker :> <<Set(n1, 1), Set(n2, 2), Source("hook", <<Uses(n1), Bad, Uses(n2)>>),
              Remove(n1)>> @@
  patcher :> <<Does("scan"), Set(n3, 1), Source("assemble", <<Plain, Uses(n3), NoToken>>)>> @@
  thrower :> <<Set(n2, 1), Source("assemble", <<Bad>>), Does("scan")>> @@
  plain :> <<>>
MCFrameOf ==
  quiet :> <<>> @@
  hooker :> <<Source("compile", <<Uses(n1), Uses(n2)>>)>> @@
  patcher :> <<Set(n1, 2), Source("assemble", <<Uses(n1)>>)>> @@
  thrower :> <<Does("throw")>> @@
  plain :> <<>>

File(types, fails) == [types |-> types, fails |-> fails]
MCAssemblies ==
  {File(<<>>, FALSE), File(<<quiet, hooker>>, FALSE), File(<<patcher>>, FALSE),
   File(<<hooker>>, TRUE), File(<<thrower, plain>>, FALSE)}
Undefined == {File(<<plain>>, FALSE), File(<<patcher, hooker>>, FALSE)}

\* A code that uses a symbol which nobody has set.
User == plain :> <<Source("hook", <<Uses(n1)>>)>> @@ patcher :> <<>> @@ hooker :> <<>>
        @@ quiet :> <<>> @@ thrower :> <<>>
=============================================================================
