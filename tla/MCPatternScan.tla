---------------------------- MODULE MCPatternScan ----------------------------
(* Every memory of up to four bytes of two kinds, every pattern and mask of  *)
(* up to three, every size up to the whole memory.                          *)
EXTENDS PatternScan

CONSTANTS MaxReadable, MaxLen

Request(begin, memory, readable, size, pattern, mask, len) ==
  [begin |-> begin, memory |-> memory, readable |-> readable, size |-> size,
   pattern |-> pattern, mask |-> mask, len |-> len]

MCRequests ==
  UNION {{Request(0, memory, n, size, pattern, mask, len) :
            memory \in [0 .. n - 1 -> Byte], size \in 0 .. n,
            pattern \in [0 .. len - 1 -> Byte], mask \in [0 .. len - 1 -> {Wild, Exact}]} :
           n \in 0 .. MaxReadable, len \in 0 .. MaxLen}
    \cup {Request(Null, memory, 1, 1, pattern, mask, 1) :
            memory \in [0 .. 0 -> Byte], pattern \in [0 .. 0 -> Byte],
            mask \in [0 .. 0 -> {Wild, Exact}]}
=============================================================================
