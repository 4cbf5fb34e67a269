-------------------------- MODULE PatternScanProofs --------------------------
(***************************************************************************)
(* The byte loop is right for every memory, pattern, mask and range.       *)
(***************************************************************************)
EXTENDS PatternScan, TLAPS

\* The loop invariant: no address before i matches, and at i the first j bytes
\* do; after the last address no byte has been compared.
LoopInv ==
  /\ req \in Requests
  /\ ScanTypeOK
  /\ i = req.size => j = 0
  /\ pc = "scan" => result = Null /\ ~failed
  /\ \A k \in 0 .. j - 1 : Same(i, k)
  /\ \A a \in 0 .. i - 1 : ~MatchesAt(a, req.len)

ScanInv == LoopInv /\ FirstMatch /\ ReadsNearRange

LEMMA RequestFields ==
  ASSUME req \in Requests
  PROVE  /\ req.size \in Nat /\ req.readable \in Nat
         /\ req.len \in Nat
         /\ Null \notin Nat
PROOF
  BY ScanConstants DEF ScanConstants, RequestsOK

LEMMA LoopVariables ==
  ASSUME ScanInv
  PROVE  /\ req.size \in Nat /\ req.readable \in Nat
         /\ req.len \in Nat
         /\ i \in 0 .. req.size /\ j \in 0 .. req.len /\ top \in Nat
         /\ Null \notin Nat
PROOF
  BY RequestFields DEF ScanInv, LoopInv, ScanTypeOK

LEMMA ScanStarts == Init => ScanInv
PROOF
  <1> SUFFICES ASSUME Init PROVE ScanInv
    OBVIOUS
  <1>1. req.size \in Nat /\ req.len \in Nat
    BY RequestFields DEF Init
  <1>2. ScanTypeOK
    <2>1. i \in 0 .. req.size /\ j \in 0 .. req.len /\ top \in Nat
      BY <1>1 DEF Init
    <2>2. pc \in {"scan", "done", "crashed"} /\ result \in Nat \cup {Null}
      BY DEF Init
    <2>3. QED
      BY <2>1, <2>2 DEF Init, ScanTypeOK
  <1>3. LoopInv
    BY <1>1, <1>2 DEF Init, LoopInv
  <1>4. QED
    BY <1>3 DEF Init, ScanInv, FirstMatch, ReadsNearRange

\* A step of the comparison: nothing is answered yet, and what has been read
\* lies near the range.
LEMMA StillScanning ==
  ASSUME ScanInv, Compares, top' \in {top, i + j + 1},
         UNCHANGED <<req, pc, result, failed>>
  PROVE  FirstMatch' /\ ReadsNearRange'
PROOF
  <1>1. pc' = "scan"
    BY DEF Compares, Scanning
  <1>2. top' > 0 => top' <= req'.size + req'.len - 1
    <2>1. i + j + 1 <= req.size + req.len - 1
      BY LoopVariables DEF Compares
    <2>2. QED
      BY <2>1, LoopVariables DEF ScanInv, ReadsNearRange
  <1>3. QED
    BY <1>1, <1>2 DEF FirstMatch, ReadsNearRange

\* A byte that is passed, or equal, extends what matches at i.
LEMMA PrefixGrows ==
  ASSUME ScanInv, Compares, Same(i, j), j' = j + 1, top' \in Nat,
         UNCHANGED <<req, i, pc, result, failed>>
  PROVE  LoopInv'
PROOF
  <1>1. req.size \in Nat /\ req.len \in Nat /\ i \in Nat /\ j \in Nat
    BY LoopVariables
  <1>2. ScanTypeOK'
    BY <1>1 DEF Compares, ScanInv, LoopInv, ScanTypeOK
  <1>3. \A k \in 0 .. j' - 1 : Same(i, k)'
    BY <1>1 DEF ScanInv, LoopInv, Same
  <1>4. \A a \in 0 .. i' - 1 : ~MatchesAt(a, req.len)'
    BY DEF ScanInv, LoopInv, MatchesAt, Same
  <1>5. i' # req'.size
    BY <1>1 DEF Compares
  <1>6. QED
    BY <1>2, <1>3, <1>4, <1>5 DEF ScanInv, LoopInv

\* A byte that differs rules out the address i.
LEMMA AddressRuledOut ==
  ASSUME ScanInv, Compares, ~Same(i, j), i' = i + 1, j' = 0, top' \in Nat,
         UNCHANGED <<req, pc, result, failed>>
  PROVE  LoopInv'
PROOF
  <1>1. req.size \in Nat /\ req.len \in Nat /\ i \in Nat /\ j \in Nat
    BY LoopVariables
  <1>2. ScanTypeOK'
    BY <1>1 DEF Compares, ScanInv, LoopInv, ScanTypeOK
  <1>3. \A a \in 0 .. i' - 1 : ~MatchesAt(a, req.len)
    <2>1. ~MatchesAt(i, req.len)
      BY <1>1 DEF Compares, MatchesAt
    <2>2. QED
      BY <1>1, <2>1 DEF ScanInv, LoopInv
  <1>4. \A a \in 0 .. i' - 1 : ~MatchesAt(a, req.len)'
    BY <1>3 DEF MatchesAt, Same
  <1>5. QED
    BY <1>2, <1>4 DEF ScanInv, LoopInv

LEMMA ScanStep == ScanInv /\ [Next]_scanVars => ScanInv'
PROOF
  <1> SUFFICES ASSUME ScanInv, [Next]_scanVars PROVE ScanInv'
    OBVIOUS
  <1> USE LoopVariables
  <1>1. CASE NullBegin
    <2>1. LoopInv'
      BY <1>1 DEF NullBegin, Done, ScanInv, LoopInv, ScanTypeOK, MatchesAt, Same
    <2>2. QED
      BY <1>1, <2>1 DEF NullBegin, Done, ScanInv, FirstMatch, ReadsNearRange
  <1>2. CASE Pass
    <2>1. Compares /\ Same(i, j)
      BY <1>2 DEF Pass, Same
    <2>2. LoopInv'
      BY <1>2, <2>1, PrefixGrows DEF Pass
    <2>3. QED
      BY <1>2, <2>1, <2>2, StillScanning DEF Pass, ScanInv
  <1>3. CASE Equal
    <2>1. Compares /\ Same(i, j)
      BY <1>3 DEF Equal, Reads, Readable, Same
    <2>2. top' \in {top, i + j + 1} /\ top' \in Nat
      BY <1>3 DEF Equal, Touched
    <2>3. LoopInv'
      BY <1>3, <2>1, <2>2, PrefixGrows DEF Equal
    <2>4. QED
      BY <1>3, <2>1, <2>2, <2>3, StillScanning DEF Equal, ScanInv
  <1>4. CASE Differs
    <2>1. Compares /\ ~Same(i, j)
      BY <1>4 DEF Differs, Reads, Same
    <2>2. top' \in {top, i + j + 1} /\ top' \in Nat
      BY <1>4 DEF Differs, Touched
    <2>3. LoopInv'
      BY <1>4, <2>1, <2>2, AddressRuledOut DEF Differs
    <2>4. QED
      BY <1>4, <2>1, <2>2, <2>3, StillScanning DEF Differs, ScanInv
  <1>5. CASE Crash
    <2>1. LoopInv'
      BY <1>5 DEF Crash, ScanInv, LoopInv, ScanTypeOK, MatchesAt, Same
    <2>2. req.readable < req.size + req.len - 1
      BY <1>5 DEF Crash, Reads, Readable, Compares
    <2>3. QED
      BY <1>5, <2>1, <2>2 DEF Crash, ScanInv, FirstMatch, ReadsNearRange
  <1>6. CASE Found
    <2>1. LoopInv'
      BY <1>6 DEF Found, Done, ScanInv, LoopInv, ScanTypeOK, MatchesAt, Same
    <2>2. MatchesAt(i, req.len)
      BY <1>6 DEF Found, ScanInv, LoopInv, MatchesAt
    <2>3. FirstMatch'
      BY <1>6, <2>2 DEF Found, Scanning, Done, ScanInv, LoopInv, FirstMatch, MatchesAt, Same
    <2>4. ReadsNearRange'
      BY <1>6 DEF Found, Done, ScanInv, ReadsNearRange
    <2>5. QED
      BY <2>1, <2>3, <2>4 DEF ScanInv
  <1>7. CASE Exhausted
    <2>1. LoopInv'
      BY <1>7 DEF Exhausted, Done, ScanInv, LoopInv, ScanTypeOK, MatchesAt, Same
    <2>2. FirstMatch'
      BY <1>7 DEF Exhausted, Done, ScanInv, LoopInv, FirstMatch, MatchesAt, Same
    <2>3. ReadsNearRange'
      BY <1>7 DEF Exhausted, Done, ScanInv, ReadsNearRange
    <2>4. QED
      BY <2>1, <2>2, <2>3 DEF ScanInv
  <1>8. CASE UNCHANGED scanVars
    BY <1>8 DEF scanVars, ScanInv, LoopInv, ScanTypeOK, FirstMatch, ReadsNearRange,
                MatchesAt, Same
  <1>9. QED
    BY <1>1, <1>2, <1>3, <1>4, <1>5, <1>6, <1>7, <1>8 DEF Next

-----------------------------------------------------------------------------
LEMMA ScanAlways == Spec => []ScanInv
PROOF
  BY ScanStarts, ScanStep, PTL DEF Spec

\* The loop's variables stay in their ranges (SigScanner.cpp:136-140).
THEOREM ScanTypeCorrect == Spec => []ScanTypeOK
PROOF
  BY ScanAlways, PTL DEF ScanInv, LoopInv

\* A scan that ends returns the first match of its range, or reports that there
\* is none (SigScanner.cpp:129-161).
THEOREM FindsFirstMatch == Spec => []FirstMatch
PROOF
  BY ScanAlways, PTL DEF ScanInv

\* A scan reads less than the pattern's length past its range (SigScanner.cpp:142).
THEOREM StaysNearRange == Spec => []ReadsNearRange
PROOF
  BY ScanAlways, PTL DEF ScanInv
=============================================================================
