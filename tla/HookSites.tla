------------------------------ MODULE HookSites ------------------------------
(***************************************************************************)
(* Where hooks work: what the allocator gives, where it has to put blocks, *)
(* and what the codes of a game have to keep to.  HookService checks none  *)
(* of it.                                                                  *)
(***************************************************************************)
EXTENDS HookService

\* Of a set of requests, those that come to write.
Hooks(rs) == {r \in rs : /\ r.kind = "hook"
                         /\ IsMemoryWritable(r.site) /\ r.behavior \in Behaviors}
Clears(rs) == {r \in rs : r.kind = "nop" /\ IsMemoryWritable(r.site) /\ r.count > 0}
Writes(rs) == Hooks(rs) \cup Clears(rs)

\* A request for the instruction at index n of the routine takes c of them.
Takes(r, n, c) ==
  IF r.kind = "nop" THEN c = r.count
  ELSE /\ Start(n + c - 1) < r.site + MIN_HOOK_LENGTH
       /\ Start(n + c) >= r.site + MIN_HOOK_LENGTH

\* The window of a request: the indices of the instructions it takes.
HasWindow(r) ==
  \E n \in DOMAIN Routine :
    Start(n) = r.site /\ \E c \in 1 .. Len(Program) - n : Takes(r, n, c)
First(r) == IndexOf(r.site)
Count(r) == CHOOSE c \in 1 .. Len(Program) - First(r) : Takes(r, First(r), c)
Window(r) == First(r) .. First(r) + Count(r) - 1

\* The instructions of a hook's block before its way back, and how many of the
\* bytes that are allocated for it the hook writes.
Statements(r) == [n \in DOMAIN r.body |-> Plain(r.body[n])]
Original(r) == [k \in 1 .. Count(r) |-> Routine[First(r) + k - 1]]
Spliced(r) == Splice(r.behavior, Statements(r), Original(r))
WrittenLen(r) ==
  Len(Code(Spliced(r))) + IF r.parameter = "jump" THEN MIN_HOOK_LENGTH ELSE 1

\* _aligned_malloc: blocks, as far as they are written, are apart, from the
\* routine too.
BlocksApart ==
  \A rs \in RequestSets : \A r \in Hooks(rs), ptr \in Slots :
    /\ ptr + WrittenLen(r) <= Top
    /\ ptr + WrittenLen(r) <= Base \/ ptr >= Base + Len(Code(Program))
    /\ \A q \in Hooks(rs), other \in Slots \ {ptr} :
         ptr + WrittenLen(r) <= other \/ other + WrittenLen(q) <= ptr

\* Windows are whole instructions of the routine, no two have one in common,
\* and nothing jumps or calls into one behind its first instruction.  Those of
\* hooks are position-independent.
WindowsApart ==
  \A rs \in RequestSets : \A r \in Writes(rs) :
    /\ HasWindow(r)
    /\ \A q \in Writes(rs) \ {r} : Window(r) \cap Window(q) = {}
    /\ \A n \in Window(r) \ {First(r)} :
         /\ Start(n) \notin Entries
         /\ \A m \in DOMAIN Routine :
              Routine[m].kind = "jmp" => Start(m) + Routine[m].len + Routine[m].arg # Start(n)
    /\ r \in Hooks(rs) => \A n \in Window(r) : Routine[n].kind = "plain"

\* The pages of the compiled code are those of the block around it: no block
\* goes on in a page that VirtualProtect is not given.
BlocksFit ==
  \A rs \in RequestSets : \A r \in Hooks(rs), ptr \in Slots :
    ~r.errors => Pages(ptr, WrittenLen(r)) \subseteq Protected(ptr, Len(Compiled(r)))

\* In the x64 build no hook is called.
NoWideCalls ==
  Wide => \A rs \in RequestSets : \A r \in Hooks(rs) : r.parameter = "jump"

HooksWork == BlocksApart /\ WindowsApart /\ BlocksFit /\ NoWideCalls
=============================================================================
