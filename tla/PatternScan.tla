----------------------------- MODULE PatternScan -----------------------------
(***************************************************************************)
(* The byte loop of ScanUncached (SigScanner.cpp), one comparison a step.  *)
(* A request holds what the loop is given: the memory from p_begin on (its *)
(* last byte is the last that may be read), the size to scan, and the      *)
(* pattern and mask as they lie in memory, up to the first zero in the     *)
(* mask.  A native mask ends where it was meant to; a managed one is an    *)
(* array without a terminator (MemoryProvider.h), so that what lies behind *)
(* it, up to the next zero, belongs to the mask that is scanned for.       *)
(***************************************************************************)
EXTENDS Integers

CONSTANTS
  Byte,         \* the values of a byte of the memory or the pattern
  Requests,     \* the requests: see RequestsOK
  Wild,         \* the mask's '?'
  Exact,        \* any other character of a mask
  Null          \* a null pointer

\* len is the mask's strlen.
RequestsOK ==
  \A r \in Requests :
    /\ r.begin \in {0, Null} /\ r.size \in Nat /\ r.readable \in Nat
    /\ r.memory \in [0 .. r.readable - 1 -> Byte]
    /\ r.len \in Nat
    /\ r.mask \in [0 .. r.len - 1 -> {Wild, Exact}]
    /\ r.pattern \in [0 .. r.len - 1 -> Byte]

ASSUME ScanConstants ==
  /\ RequestsOK
  /\ Wild # Exact
  /\ Null \notin Nat

VARIABLES
  req,          \* the request
  i, j,         \* the loop's variables
  pc,           \* scanning, done, or crashed
  result,       \* the offset of the address that is returned, or Null
  failed,       \* register CMN_LOADER_STATE_INIT_SIG_SCAN_FAILED
  top           \* auxiliary: one more than the highest offset read

scanVars == <<req, i, j, pc, result, failed, top>>

-----------------------------------------------------------------------------
Init ==
  /\ req \in Requests
  /\ i = 0 /\ j = 0
  /\ pc = "scan"
  /\ result = Null
  /\ failed = FALSE
  /\ top = 0

Done(address) ==
  /\ pc' = "done"
  /\ result' = address
  /\ UNCHANGED <<req, i, j, top>>

Scanning == pc = "scan" /\ req.begin # Null

NullBegin ==
  /\ pc = "scan" /\ req.begin = Null
  /\ Done(Null)
  /\ UNCHANGED failed

\* Defective variant: one start more.
ComparesOneMore == Scanning /\ i <= req.size /\ j < req.len

\* A wildcard is passed without a look at the memory.
Compares == Scanning /\ i < req.size /\ j < req.len
Reads == Compares /\ req.mask[j] # Wild

Pass ==
  /\ Compares /\ req.mask[j] = Wild
  /\ j' = j + 1
  /\ UNCHANGED <<req, i, pc, result, failed, top>>

Readable == i + j < req.readable
Touched == top' = IF i + j < top THEN top ELSE i + j + 1

Equal ==
  /\ Reads /\ Readable
  /\ req.pattern[j] = req.memory[i + j]
  /\ j' = j + 1
  /\ Touched
  /\ UNCHANGED <<req, i, pc, result, failed>>

\* Defective variant: bytes that were equal are not looked at again.
DiffersSkips ==
  /\ Reads /\ Readable
  /\ req.pattern[j] # req.memory[i + j]
  /\ i' = i + j + 1
  /\ j' = 0
  /\ Touched
  /\ UNCHANGED <<req, pc, result, failed>>

Differs ==
  /\ Reads /\ Readable
  /\ req.pattern[j] # req.memory[i + j]
  /\ i' = i + 1
  /\ j' = 0
  /\ Touched
  /\ UNCHANGED <<req, pc, result, failed>>

\* The byte lies behind the memory that may be read.
Crash ==
  /\ Reads /\ ~Readable
  /\ pc' = "crashed"
  /\ UNCHANGED <<req, i, j, result, failed, top>>

Found ==
  /\ Scanning /\ i < req.size /\ j = req.len
  /\ Done(i)
  /\ UNCHANGED failed

\* Defective variant: the loop stops at one start more.
ExhaustedLate ==
  /\ Scanning /\ i = req.size + 1
  /\ Done(Null)
  /\ failed' = TRUE

\* validate is TRUE: the failure is reported.
Exhausted ==
  /\ Scanning /\ i = req.size
  /\ Done(Null)
  /\ failed' = TRUE

Next == NullBegin \/ Pass \/ Equal \/ Differs \/ Crash \/ Found \/ Exhausted

\* The thread that scans runs.
Spec == Init /\ [][Next]_scanVars /\ WF_scanVars(Next)

-----------------------------------------------------------------------------
(* What a scan is to find.                                                  *)

Same(a, k) ==
  req.mask[k] # Wild =>
    a + k < req.readable /\ req.pattern[k] = req.memory[a + k]
MatchesAt(a, len) == \A k \in 0 .. len - 1 : Same(a, k)

-----------------------------------------------------------------------------
(* Properties.                                                              *)

ScanTypeOK ==
  /\ i \in 0 .. req.size /\ j \in 0 .. req.len
  /\ pc \in {"scan", "done", "crashed"}
  /\ result \in Nat \cup {Null}
  /\ failed \in BOOLEAN /\ top \in Nat

\* A scan that comes to an end returns the first address of the range at which
\* the whole pattern matches, and null, with the register set, when there is
\* none: the abstraction of ScanUncached in SigScanner.
FirstMatch ==
  (pc = "done" /\ req.begin # Null) =>
    IF result = Null
    THEN failed /\ \A a \in 0 .. req.size - 1 : ~MatchesAt(a, req.len)
    ELSE /\ ~failed /\ result < req.size /\ MatchesAt(result, req.len)
         /\ \A a \in 0 .. result - 1 : ~MatchesAt(a, req.len)

\* A match may begin at the end of the range, so a scan reads past it, but by
\* less than the pattern's length; it can crash only there, when the memory
\* ends within that distance.
ReadsNearRange ==
  /\ top > 0 => top <= req.size + req.len - 1
  /\ pc = "crashed" => req.readable < req.size + req.len - 1

\* The loop ends, whatever the pattern and the memory.
ScanEnds == <>(pc # "scan")
=============================================================================
