---------------------------- MODULE MCHookService ----------------------------
(* A routine of the game, hooks of every behavior and both parameters on    *)
(* two windows of it, and instructions to be cleared after them.            *)
EXTENDS HookService

CONSTANTS
  Near, Far,                    \* blocks of the heap
  i1, i2, i3, i4, i5, i6, i7,   \* what the routine's instructions do
  h1, h2, h3                    \* and the hooks'

Does(name, len) == Instr("plain", name, len)

\* Windows of 5 (exactly) and 6 bytes, then a jump over the last instruction.
Routine32 ==
  <<Does(i1, 2), Does(i2, 3), Does(i3, 1),
    Does(i4, 4), Does(i5, 2), Relative("jmp", 1),
    Does(i7, 1)>>
\* Windows of 14 (exactly) and 17 bytes.
Routine64 ==
  <<Does(i1, 7), Does(i2, 7), Does(i3, 1),
    Does(i4, 10), Does(i5, 7), Does(i6, 2),
    Does(i7, 1)>>

Instruction(name, len) == [name |-> name, len |-> len]
Hook(site, body, behavior, parameter) ==
  [kind |-> "hook", site |-> site, body |-> body, errors |-> FALSE,
   behavior |-> behavior, parameter |-> parameter]
Clear(site, count) == [kind |-> "nop", site |-> site, count |-> count]

One == <<Instruction(h1, 3)>>
Two == <<Instruction(h2, 2), Instruction(h3, 1)>>

\* Statements with an error: nothing is assembled.
Misspelt(site) == [Hook(site, <<>>, "after", "jump") EXCEPT !.errors = TRUE]

FirstHooks(parameters) ==
  {Hook(Start(1), One, how, p) : how \in Behaviors, p \in parameters}
SecondHooks(parameters) ==
  {Hook(Start(4), Two, how, p) : how \in Behaviors, p \in parameters}
Others ==
  {Clear(Start(6), 1), Clear(Start(6), 2), Clear(Start(6), 0), Clear(0, 1),
   Hook(0, One, "before", "jump"), Hook(Start(6), One, "other", "jump"),
   Misspelt(Start(4))}

\* Two hooks and a clearing, or one hook and another request.
Combined(parameters) ==
  {{h, k, Clear(Start(6), 2)} : h \in FirstHooks(parameters),
                                k \in SecondHooks(parameters)}
    \cup {{h, o} : h \in FirstHooks(parameters), o \in Others}
JumpsAndCalls == Combined({"jump", "call"})
Jumps == Combined({"jump"})

\* One hook alone.
OneCall == {{Hook(Start(1), One, "before", "call")}}

\* Two hooks on one place.
Twice == {{Hook(Start(1), One, "before", "jump"), Hook(Start(1), Two, "before", "jump")}}

MCEntries == {Start(1), Start(3), Start(4), Start(6)}
Blocks == {Near, Far}
=============================================================================
