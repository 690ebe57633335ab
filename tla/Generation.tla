----------------------------- MODULE Generation -----------------------------
(***************************************************************************)
(* context::generateNativeCode, byte by byte: a first loop adds up the     *)
(* sizes of the platters' code, a block of that size is allocated, and a   *)
(* second loop writes the code and fills the jump table as it goes.  What  *)
(* the two loops make of an array is what recompile stubs and the search   *)
(* for the finger position rely on.                                        *)
(*                                                                         *)
(* Addresses are relative to the block.  How long the code of a platter is *)
(* is a parameter: CodeGen says.                                           *)
(***************************************************************************)
EXTENDS Integers

CONSTANTS
  Platters,           \* the words an array may hold
  Sizes,              \* the sizes it may have
  codeSize,           \* bytes codeFor emits for a platter
  OOBStubSize,        \* bytes codeForOOBStub emits
  recompileStubSize   \* bytes of the recompile stub

ASSUME GenerationAssumption ==
  /\ Sizes \subseteq Nat
  /\ recompileStubSize \in Nat \ {0}
  /\ codeSize \in [Platters -> Nat]
  /\ \A w \in Platters : codeSize[w] >= recompileStubSize
  /\ OOBStubSize \in Nat

VARIABLES
  size,            \* a.size()
  a,               \* the platters
  phase,           \* "count", "create", "emit" or "done"
  i,               \* the loops' counter
  nativeCodeSize,  \* the size added up, and the size of the block
  nativeCode,      \* where the next byte is written
  jumpTable,       \* the entries filled so far, and zeros
  sums             \* history: nativeCodeSize after the first n platters

vars == << size, a, phase, i, nativeCodeSize, nativeCode, jumpTable, sums >>

array == << size, a >>

length(j) == codeSize[a[j]]

Init ==
  /\ size \in Sizes
  /\ a \in [0 .. size - 1 -> Platters]
  /\ phase = "count"
  /\ i = 0
  /\ nativeCodeSize = 0 /\ nativeCode = 0
  /\ jumpTable = [j \in 0 .. size - 1 |-> 0]
  /\ sums = [n \in 0 .. size |-> 0]

\* nativeCodeSize += codeFor(a[i], nullptr)
CountPlatter ==
  /\ phase = "count" /\ i < size
  /\ nativeCodeSize' = nativeCodeSize + length(i)
  /\ sums' = [sums EXCEPT ![i + 1] = nativeCodeSize + length(i)]
  /\ i' = i + 1
  /\ UNCHANGED << array, phase, nativeCode, jumpTable >>

CountedWithoutStub == nativeCodeSize
CountedWithStub    == nativeCodeSize + OOBStubSize

CountStub ==
  /\ phase = "count" /\ i = size
  /\ nativeCodeSize' = CountedWithStub
  /\ phase' = "create"
  /\ UNCHANGED << array, i, nativeCode, jumpTable, sums >>

Create ==
  /\ phase = "create"
  /\ i' = 0 /\ nativeCode' = 0
  /\ phase' = "emit"
  /\ UNCHANGED << array, nativeCodeSize, jumpTable, sums >>

\* *jumpTable++ = nativeCode; nativeCode += codeFor(a[i], nativeCode)
EntryAfter(begin)   == begin + length(i)
EntryOfBlock(begin) == 0
EntryBefore(begin)  == begin

EmitPlatter ==
  /\ phase = "emit" /\ i < size
  /\ jumpTable' = [jumpTable EXCEPT ![i] = EntryBefore(nativeCode)]
  /\ nativeCode' = nativeCode + length(i)
  /\ i' = i + 1
  /\ UNCHANGED << array, phase, nativeCodeSize, sums >>

EmitStub ==
  /\ phase = "emit" /\ i = size
  /\ nativeCode' = nativeCode + OOBStubSize
  /\ phase' = "done"
  /\ UNCHANGED << array, i, nativeCodeSize, jumpTable, sums >>

Next == CountPlatter \/ CountStub \/ Create \/ EmitPlatter \/ EmitStub

Spec == Init /\ [][Next]_vars

-----------------------------------------------------------------------------
\* fingerPositionFor: lower_bound finds the first of the entries but the last
\* that is not below the return address, or the last.
IsStrictBound(k, address) ==
  /\ k \in 0 .. size - 1
  /\ \A j \in 0 .. k - 1 : jumpTable[j] <= address
  /\ k < size - 1 => jumpTable[k] > address

IsLowerBound(k, address) ==
  /\ k \in 0 .. size - 1
  /\ \A j \in 0 .. k - 1 : jumpTable[j] < address
  /\ k < size - 1 => jumpTable[k] >= address

-----------------------------------------------------------------------------
\* Properties

TypeOK ==
  /\ size \in Nat /\ a \in [0 .. size - 1 -> Platters]
  /\ phase \in {"count", "create", "emit", "done"}
  /\ i \in 0 .. size
  /\ nativeCodeSize \in Nat /\ nativeCode \in Nat
  /\ jumpTable \in [0 .. size - 1 -> Nat]
  /\ sums \in [0 .. size -> Nat]

\* No byte is written past the block that was allocated for it, and when both
\* loops have ended they have come to the same size.
WrittenWithinBlock ==
  /\ phase \in {"emit", "done"} => nativeCode <= nativeCodeSize
  /\ phase = "done" => nativeCode = nativeCodeSize

\* A recompile stub written over any platter ends before the next platter
\* begins, or before the block ends (context.cpp:339-344).
StubsStayApart ==
  phase = "done" =>
    /\ \A j, k \in 0 .. size - 1 :
         j < k => jumpTable[j] + recompileStubSize <= jumpTable[k]
    /\ \A j \in 0 .. size - 1 : jumpTable[j] + recompileStubSize <= nativeCodeSize

\* The search for the finger position comes to platter j for every address
\* past its first byte and up to the first byte of the next platter, where a
\* stub that fills its platter returns to; unless j is the last platter
\* (context.cpp:254-272).
FingerPositionFound ==
  phase = "done" =>
    \A j \in 0 .. size - 2 :
      \A address \in jumpTable[j] + 1 .. jumpTable[j + 1] :
        \A k \in 0 .. size - 1 : IsLowerBound(k, address) <=> k - 1 = j

-----------------------------------------------------------------------------
\* The invariant of the two loops: the second retraces the sums of the first.
Counted(n) ==
  \A j, k \in 0 .. n : j < k => sums[j] + length(j) <= sums[k]

Emitted(n) ==
  \A j \in 0 .. n - 1 : jumpTable[j] = sums[j]

InductiveInvariant ==
  /\ TypeOK
  /\ sums[0] = 0
  /\ \A j \in 0 .. size - 1 :
       phase # "count" \/ j < i => sums[j + 1] = sums[j] + length(j)
  /\ phase = "count" => nativeCodeSize = sums[i] /\ Counted(i)
  /\ phase # "count" =>
       nativeCodeSize = sums[size] + OOBStubSize /\ Counted(size)
  /\ phase = "emit" => nativeCode = sums[i] /\ Emitted(i)
  /\ phase = "done" => nativeCode = nativeCodeSize /\ Emitted(size)
=============================================================================
