----------------------------- MODULE HookService -----------------------------
(***************************************************************************)
(* The hook service (HookService.cpp) with the guards of its managed       *)
(* callers (MemoryProvider.h), and the game thread that executes the code  *)
(* it patches.  Memory is bytes: a cell is one byte of an instruction, and *)
(* an address is executed only if all the bytes of one instruction stand   *)
(* there in order, in pages that may be executed.  Wide is the x64 build.  *)
(*                                                                         *)
(* The codes' requests run on the game's thread, outside the routine that  *)
(* they hook.  The auxiliary plan says what a request asks for: what the   *)
(* thread runs when it comes to an address, and where it goes on.          *)
(***************************************************************************)
EXTENDS Integers, Sequences, SequencesExt

CONSTANTS
  Wide,         \* whether WIN64 is defined
  Routine,      \* the instructions of a routine of the game, see Instr: plain
                \* ones, which are position-independent, and, in the Win32
                \* build, relative jumps forward; a return follows
  Base,         \* its address, and the module base
  Entries,      \* the addresses at which the game enters it
  Top,          \* addresses are 0 .. Top - 1
  PageSize,     \* the unit of memory protection
  Slots,        \* the addresses _aligned_malloc returns, far enough apart
  RequestSets   \* the sets of requests that the codes of a game may make

Outside == -1                \* the thread is not in the routine
Crashed == -2                \* it was, and the process died of an exception

VARIABLES
  mem,          \* the bytes
  executable,   \* the pages that may be executed
  used,         \* the slots taken; trampolines are never freed
  todo,         \* the requests that the codes have still to make
  asmFailed,    \* register CMN_LOADER_STATE_INIT_ASSEMBLY_FAILED is set
  pc, stack,    \* the thread: its next address, its return addresses
  ran,          \* auxiliary: what it ran since it entered, up to the first
                \* instruction that is not wanted (the bound on its length)
  plan,         \* auxiliary: [run, to] for the addresses that are reached
  want          \* auxiliary: what it should run, as it was asked when it entered

codeVars == <<mem, executable, used, todo, asmFailed, plan>>
threadVars == <<pc, stack, ran, want>>
vars == <<codeVars, threadVars>>

-----------------------------------------------------------------------------
(* Instructions and memory.                                                 *)

Instr(kind, arg, len) == [kind |-> kind, arg |-> arg, len |-> len]
Plain(i) == Instr("plain", i.name, i.len)
Nop == Instr("nop", 0, 1)
Ret == Instr("ret", 0, 1)
Relative(kind, delta) == Instr(kind, delta, 5)      \* E9, E8 rel32
Indirect(kind) == Instr(kind, 0, 6)                 \* FF 25, FF 15 [rip + 0]
Pointer(a) == Instr("pointer", a, 8)                \* data
Data == Instr("data", 0, 1)                         \* data

Bytes(i) == [n \in 1 .. i.len |-> [of |-> i, at |-> n]]
Nops(len) == [n \in 1 .. len |-> Bytes(Nop)[1]]

\* CodeUpTo(instrs)[n]: the bytes of the first n instructions.
CodeUpTo(instrs) ==
  LET code[n \in 0 .. Len(instrs)] ==
        IF n = 0 THEN <<>> ELSE code[n - 1] \o Bytes(instrs[n])
  IN code
Code(instrs) == CodeUpTo(instrs)[Len(instrs)]

Read(m, a, len) == [n \in 1 .. len |-> m[a + n - 1]]
Write(m, a, bytes) ==
  [b \in DOMAIN m |-> IF b - a + 1 \in DOMAIN bytes THEN bytes[b - a + 1] ELSE m[b]]

\* The whole of instruction i stands at a.
Stands(m, a, i) ==
  \A n \in 1 .. i.len : a + n - 1 \in DOMAIN m /\ m[a + n - 1] = [of |-> i, at |-> n]

Decodes(m, a) ==
  /\ a \in DOMAIN m
  /\ Stands(m, a, m[a].of)
  /\ m[a].of.kind \notin {"pointer", "data"}

Pages(a, len) == {b \div PageSize : b \in a .. a + len - 1}

\* The routine as it is loaded, and where its instructions are.
Program == Routine \o <<Ret>>
Start(n) == Base + Len(CodeUpTo(Program)[n - 1])
IndexOf(a) == CHOOSE n \in DOMAIN Routine : Start(n) = a

-----------------------------------------------------------------------------
(* What is asked for.                                                       *)

\* What plan p runs from a on until it has covered len bytes or the routine
\* is over, and where it then is.
Follow(p, a, len) ==
  LET go[b \in 0 .. Top] ==
        IF b >= a + len \/ b \notin DOMAIN p THEN [run |-> <<>>, to |-> b]
        ELSE LET rest == go[p[b].to]
             IN [run |-> p[b].run \o rest.run, to |-> rest.to]
  IN go[a]

\* The address of the count-th instruction of the routine after the one at a.
After(a, count) == Start(IndexOf(a) + count)

Names(body) == [n \in DOMAIN body |-> body[n].name]

Splice(behavior, hook, original) ==
  CASE behavior = "before" -> hook \o original
    [] behavior = "after" -> original \o hook
    [] behavior = "replace" -> hook

-----------------------------------------------------------------------------
(* HookService.                                                             *)

MIN_HOOK_LENGTH == IF Wide THEN 14 ELSE 5
MaxInstr == 15               \* the length of the longest x86 instruction
Behaviors == {"before", "after", "replace"}

\* The instructions of m from a on, until they cover len bytes or number
\* count: their length and number.  The disassembler gives up at bytes that are
\* no instruction.  (It is given more bytes than are asked of it: 64, or 16 for
\* each instruction.)
Disassembled(m, a, len, count) ==
  LET go[n \in 0 .. count] ==
        LET so == IF n = 0 THEN [len |-> 0, count |-> 0] ELSE go[n - 1]
        IN IF n = 0 \/ so.len >= len \/ ~Decodes(m, a + so.len) THEN so
           ELSE [len |-> so.len + m[a + so.len].of.len, count |-> n]
  IN go[count]

\* Defective variant: one byte too few.
HookLensShort(m, a) ==
  {Disassembled(m, a, MIN_HOOK_LENGTH - 1, MIN_HOOK_LENGTH).len}

\* hookLen: whole instructions that have room for the jump; bytes that are no
\* instruction of the game may be decoded as some, or end the disassembly at
\* any length from there on.
HookLens(m, a) ==
  LET len == Disassembled(m, a, MIN_HOOK_LENGTH, MIN_HOOK_LENGTH).len
  IN IF len >= MIN_HOOK_LENGTH THEN {len}
     ELSE len .. MIN_HOOK_LENGTH + MaxInstr - 1

\* Defective variant: relative to the operand, not to the instruction after it.
TransferFromOperand(kind, from, to) ==
  IF Wide THEN Bytes(Indirect(kind)) \o Bytes(Pointer(to - 4))
  ELSE Bytes(Relative(kind, to - (from + 1)))

\* A jump or call that is written at from, and its destination.
Transfer(kind, from, to) ==
  IF Wide THEN Bytes(Indirect(kind)) \o Bytes(Pointer(to))
  ELSE Bytes(Relative(kind, to - (from + 5)))

Compiled(r) == Code([n \in DOMAIN r.body |-> Plain(r.body[n])])

\* Defective variants: the hook jumps back to its own site; a hook that is
\* called jumps back.
TrampolineLoops(r, ptr, original, back) ==
  LET code == Splice(r.behavior, Compiled(r), original)
  IN code \o IF r.parameter = "jump" THEN Transfer("jmp", ptr + Len(code), r.site)
             ELSE Bytes(Ret)
TrampolineNeverReturns(r, ptr, original, back) ==
  LET code == Splice(r.behavior, Compiled(r), original)
  IN code \o Transfer("jmp", ptr + Len(code), back)

\* What is written to the allocated block at ptr: the hook's statements and
\* the window's bytes as they are, then the way back.
Trampoline(r, ptr, original, back) ==
  LET code == Splice(r.behavior, Compiled(r), original)
  IN code \o IF r.parameter = "jump" THEN Transfer("jmp", ptr + Len(code), back)
             ELSE Bytes(Ret)

\* Defective variant: the page after the code, too.
ProtectedOneMore(ptr, len) == Pages(ptr, len + PageSize)

\* The pages that VirtualProtect makes executable: those of the compiled code,
\* and none when it is empty.
Protected(ptr, len) == Pages(ptr, len)

\* The memory after the window has been cleared and the transfer written.
Patched(m, r, ptr, hookLen) ==
  Write(Write(m, r.site, Nops(hookLen)), r.site,
        Transfer(IF r.parameter = "jump" THEN "jmp" ELSE "call", r.site, ptr))

Makes(r, kind) ==
  /\ pc = Outside
  /\ r \in todo
  /\ r.kind = kind
  /\ todo' = todo \ {r}
  /\ UNCHANGED threadVars

IsMemoryWritable(a) == a >= Base

\* CompileAssembly's errors, if any, set the register.
OnError(r) == asmFailed' = (asmFailed \/ r.errors)

\* MemoryProvider refuses addresses below the module, such as the null of a
\* failed scan, and a count of 0.
Refused(r) ==
  /\ \/ Makes(r, "hook") /\ ~IsMemoryWritable(r.site)
     \/ Makes(r, "nop") /\ (~IsMemoryWritable(r.site) \/ r.count = 0)
  /\ UNCHANGED <<mem, executable, used, asmFailed, plan>>

\* A behavior that is none of the three: assembled, then given up.
UnknownBehavior(r) ==
  /\ Makes(r, "hook")
  /\ IsMemoryWritable(r.site)
  /\ r.behavior \notin Behaviors
  /\ OnError(r)
  /\ UNCHANGED <<mem, executable, used, plan>>

WriteASMHook(r) ==
  /\ Makes(r, "hook")
  /\ IsMemoryWritable(r.site)
  /\ r.behavior \in Behaviors
  /\ OnError(r)
  /\ \E hookLen \in HookLens(mem, r.site), ptr \in Slots \ used :
       LET original == Read(mem, r.site, hookLen)
           block == Trampoline(r, ptr, original, r.site + hookLen)
       IN /\ used' = used \cup {ptr}
          /\ mem' = Patched(Write(mem, ptr, block), r, ptr, hookLen)
          /\ executable' = executable \cup Protected(ptr, Len(Compiled(r)))
  /\ LET window == Follow(plan, r.site, MIN_HOOK_LENGTH)
     IN plan' = [plan EXCEPT ![r.site] =
                   [run |-> Splice(r.behavior, Names(r.body), window.run),
                    to |-> window.to]]

\* Defective variant: one instruction fewer.
NopLensShort(m, a, count) ==
  {Disassembled(m, a, Top, count - 1).len}

\* nopLen; when fewer instructions are decoded the code reads past their
\* array, and any length may come of it.  (When none is there is no array.)
NopLens(m, a, count) ==
  LET d == Disassembled(m, a, Top, count)
  IN IF d.count = count THEN {d.len}
     ELSE IF d.count > 0 THEN d.len .. d.len + MaxInstr ELSE {}

NopInstructions(r) ==
  /\ Makes(r, "nop")
  /\ IsMemoryWritable(r.site) /\ r.count > 0
  /\ \E nopLen \in NopLens(mem, r.site, r.count) :
       mem' = Write(mem, r.site, Nops(nopLen))
  /\ plan' = [plan EXCEPT ![r.site] =
                [run |-> <<>>, to |-> After(r.site, r.count)]]
  /\ UNCHANGED <<executable, used, asmFailed>>

-----------------------------------------------------------------------------
(* The game's thread.                                                       *)

Enter(a) ==
  /\ pc = Outside
  /\ pc' = a
  /\ stack' = <<Outside>>
  /\ ran' = <<>>
  /\ want' = Follow(plan, a, Top).run
  /\ UNCHANGED codeVars

\* It can execute instruction i, which stands at pc.
Fetches(i) ==
  /\ pc >= 0
  /\ Decodes(mem, pc)
  /\ i = mem[pc].of
  /\ Pages(pc, i.len) \subseteq executable

GoesTo(a, st) == pc' = a /\ stack' = st /\ UNCHANGED <<codeVars, want>>

Execute ==
  \E i \in {mem[a].of : a \in DOMAIN mem \cap {pc}} :
    /\ Fetches(i)
    /\ i.kind \in {"plain", "nop"}
    /\ ran' = IF i.kind = "plain" /\ IsPrefix(ran, want) THEN Append(ran, i.arg) ELSE ran
    /\ GoesTo(pc + i.len, stack)

\* Where a transfer goes: by its operand, or by the pointer that follows it.
Targets(i) ==
  IF ~Wide THEN {pc + i.len + i.arg}
  ELSE {b \in DOMAIN mem : Stands(mem, pc + i.len, Pointer(b))}

Branch ==
  \E i \in {mem[a].of : a \in DOMAIN mem \cap {pc}} :
    /\ Fetches(i)
    /\ i.kind \in {"jmp", "call"}
    /\ \E to \in Targets(i) :
         GoesTo(to, IF i.kind = "call" THEN <<pc + i.len>> \o stack ELSE stack)
    /\ UNCHANGED ran

Return ==
  /\ Fetches(Ret)
  /\ GoesTo(Head(stack), Tail(stack))
  /\ UNCHANGED ran

\* No instruction, or a page that may not be executed.
Crash ==
  /\ pc >= 0
  /\ ~ \E i \in {mem[a].of : a \in DOMAIN mem \cap {pc}} : Fetches(i)
  /\ pc' = Crashed
  /\ UNCHANGED <<codeVars, stack, ran, want>>

Step == Execute \/ Branch \/ Return \/ Crash

-----------------------------------------------------------------------------
\* The routine fits the memory, its jumps lead forward to instructions of it,
\* and so do the game's calls; requests have the types of the API.
ASSUME HookConstants ==
  /\ Wide \in BOOLEAN
  /\ Base \in Nat /\ Top \in Nat /\ PageSize \in Nat \ {0}
  /\ Routine \in Seq({Routine[n] : n \in DOMAIN Routine})
  /\ \A n \in DOMAIN Routine :
       LET i == Routine[n]
       IN \/ i = Instr("plain", i.arg, i.len) /\ i.len \in 1 .. MaxInstr
          \/ /\ i = Relative("jmp", i.arg) /\ i.arg \in Nat /\ ~Wide
             /\ \E m \in DOMAIN Program : Start(n) + i.len + i.arg = Start(m)
  /\ Base + Len(Code(Program)) <= Top
  /\ \A a \in Entries : \E n \in DOMAIN Program : a = Start(n)
  /\ Slots \subseteq Nat
  /\ \A rs \in RequestSets : \A r \in rs :
       \/ r.kind = "nop" /\ r.site \in Nat /\ r.count \in Nat
       \/ /\ r.kind = "hook" /\ r.site \in Nat
          /\ r.body \in Seq({r.body[n] : n \in DOMAIN r.body})
          /\ \A n \in DOMAIN r.body : r.body[n].len \in 1 .. MaxInstr
          /\ r.errors \in BOOLEAN /\ r.parameter \in {"jump", "call"}

Init ==
  /\ mem = Write([a \in 0 .. Top - 1 |-> Bytes(Data)[1]], Base,
                 Code(Program))
  /\ executable = Pages(Base, Len(Code(Program)))
  /\ used = {}
  /\ todo \in RequestSets
  /\ asmFailed = FALSE
  /\ pc = Outside
  /\ stack = <<>>
  /\ ran = <<>>
  /\ plan = [a \in {Start(n) : n \in DOMAIN Routine} |->
               LET i == Routine[IndexOf(a)]
               IN IF i.kind = "jmp" THEN [run |-> <<>>, to |-> a + i.len + i.arg]
                  ELSE [run |-> <<i.arg>>, to |-> a + i.len]]
  /\ want = <<>>

Next ==
  \/ \E r \in todo : Refused(r) \/ UnknownBehavior(r) \/ WriteASMHook(r)
                       \/ NopInstructions(r)
  \/ \E a \in Entries : Enter(a)
  \/ Step

\* The processor goes on.
Spec == Init /\ [][Next]_vars /\ WF_vars(Step)

-----------------------------------------------------------------------------
(* Properties.                                                              *)

HookTypeOK ==
  /\ DOMAIN mem = 0 .. Top - 1
  /\ executable \subseteq 0 .. (Top - 1) \div PageSize
  /\ used \subseteq Slots
  /\ \E rs \in RequestSets : todo \subseteq rs
  /\ asmFailed \in BOOLEAN
  /\ pc \in DOMAIN mem \cup {Outside, Crashed}
  /\ \A n \in DOMAIN stack : stack[n] \in DOMAIN mem \cup {Outside}
  /\ DOMAIN plan = {Start(n) : n \in DOMAIN Routine}

\* As long as no assembly failure has been reported, a thread that enters the
\* hooked routine runs what the hooks ask for and nothing else, in order: the
\* hook's instructions and the original ones around it, once each, whatever
\* jumps, calls and copies WriteASMHook put between them.  It never comes to
\* bytes that are no instruction or may not be executed.
RunsAsSpliced == asmFailed \/ (pc # Crashed /\ IsPrefix(ran, want))

\* And when it leaves it has run all of it, and left nothing on the stack.
LeavesWhole == asmFailed \/ (pc = Outside => ran = want /\ stack = <<>>)

\* No hook keeps the thread in the routine: a jump back never leads into the
\* hook again.
Leaves == pc # Outside ~> (pc = Outside \/ asmFailed)
=============================================================================
