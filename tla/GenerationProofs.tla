-------------------------- MODULE GenerationProofs --------------------------
(***************************************************************************)
(* The two loops of generateNativeCode, for every array, every length of   *)
(* code and every size of the stubs: the block is exactly large enough,    *)
(* recompile stubs do not touch their neighbours, and the search of the    *)
(* jump table finds the platter a stub returned from.                      *)
(***************************************************************************)
EXTENDS Generation, TLAPS

\* The code of a platter has a length, and room for a stub.
LEMMA LengthOfCode ==
  ASSUME TypeOK, NEW j \in 0 .. size - 1
  PROVE  /\ length(j) \in Nat
         /\ length(j) >= recompileStubSize
         /\ recompileStubSize \in Nat \ {0}
BY GenerationAssumption DEF TypeOK, length

\* The invariant holds before the first turn of the first loop.
LEMMA Initially == Init => InductiveInvariant
<1>1. SUFFICES ASSUME Init PROVE InductiveInvariant
  OBVIOUS
<1>2. size \in Nat
  BY <1>1, GenerationAssumption DEF Init
<1>3. TypeOK
  BY <1>1, <1>2 DEF Init, TypeOK
<1>4. sums[0] = 0
  BY <1>1, <1>2 DEF Init
<1>5. Counted(0)
  BY DEF Counted
<1> QED
  BY <1>1, <1>2, <1>3, <1>4, <1>5 DEF Init, InductiveInvariant

\* A turn of the first loop extends the sums by one.
LEMMA CountPlatterPreserves ==
  InductiveInvariant /\ CountPlatter => InductiveInvariant'
<1>1. SUFFICES ASSUME InductiveInvariant, CountPlatter PROVE InductiveInvariant'
  OBVIOUS
<1>2. TypeOK
  BY <1>1 DEF InductiveInvariant
<1>3. /\ phase = "count" /\ i < size /\ i \in 0 .. size - 1 /\ size \in Nat
      /\ i' = i + 1 /\ phase' = phase /\ size' = size /\ a' = a
      /\ \A j : length(j)' = length(j)
  BY <1>1, <1>2 DEF CountPlatter, TypeOK, array, length
<1>4. length(i) \in Nat
  BY <1>2, <1>3, LengthOfCode
<1>5. /\ sums \in [0 .. size -> Nat]
      /\ nativeCodeSize = sums[i] /\ nativeCodeSize \in Nat
      /\ sums' = [sums EXCEPT ![i + 1] = nativeCodeSize + length(i)]
      /\ nativeCodeSize' = sums'[i + 1]
      /\ sums'[i + 1] = sums[i] + length(i)
      /\ \A j \in 0 .. i : sums'[j] = sums[j]
  <2>1. /\ sums \in [0 .. size -> Nat]
        /\ nativeCodeSize = sums[i] /\ nativeCodeSize \in Nat
    BY <1>1, <1>2, <1>3 DEF InductiveInvariant, TypeOK
  <2>2. /\ sums' = [sums EXCEPT ![i + 1] = nativeCodeSize + length(i)]
        /\ nativeCodeSize' = nativeCodeSize + length(i)
    BY <1>1 DEF CountPlatter
  <2>3. i + 1 \in 0 .. size /\ \A j \in 0 .. i : j \in 0 .. size /\ j # i + 1
    BY <1>3
  <2> QED
    BY <2>1, <2>2, <2>3
<1>6. TypeOK'
  <2>1. sums' \in [0 .. size -> Nat] /\ nativeCodeSize' \in Nat
    BY <1>3, <1>4, <1>5
  <2>2. i' \in 0 .. size
    BY <1>3
  <2> QED
    BY <1>1, <1>2, <1>3, <2>1, <2>2 DEF CountPlatter, TypeOK
<1>7. sums'[0] = 0
  BY <1>1, <1>3, <1>5 DEF InductiveInvariant
<1>8. \A j \in 0 .. size - 1 : j < i + 1 => sums'[j + 1] = sums'[j] + length(j)
  <2>1. SUFFICES ASSUME NEW j \in 0 .. size - 1, j < i + 1
                 PROVE  sums'[j + 1] = sums'[j] + length(j)
    OBVIOUS
  <2>2. CASE j = i
    BY <2>2, <1>3, <1>5
  <2>3. CASE j < i
    <3>1. sums[j + 1] = sums[j] + length(j)
      BY <2>3, <1>1 DEF InductiveInvariant
    <3>2. j \in 0 .. i /\ j + 1 \in 0 .. i
      BY <2>3, <1>3
    <3> QED
      BY <3>1, <3>2, <1>5
  <2> QED
    BY <2>1, <2>2, <2>3, <1>3
<1>9. Counted(i)'
  <2>1. \A j, k \in 0 .. i : j < k => sums[j] + length(j) <= sums[k]
    BY <1>1, <1>3 DEF InductiveInvariant, Counted
  <2>2. SUFFICES ASSUME NEW j \in 0 .. i + 1, NEW k \in 0 .. i + 1, j < k
                 PROVE  sums'[j] + length(j) <= sums'[k]
    BY <1>3 DEF Counted
  <2>3. j \in 0 .. i /\ j \in 0 .. size - 1 /\ sums'[j] = sums[j] /\ sums[j] \in Nat
    BY <2>2, <1>3, <1>5
  <2>4. length(j) \in Nat
    BY <2>3, <1>2, LengthOfCode
  <2>5. CASE k \in 0 .. i
    BY <2>1, <2>2, <2>3, <2>5, <1>5
  <2>6. CASE k = i + 1 /\ j = i
    BY <2>3, <2>4, <2>6, <1>5
  <2>7. CASE k = i + 1 /\ j < i
    <3>1. sums[j] + length(j) <= sums[i]
      BY <2>1, <2>3, <2>7, <1>3
    <3> QED
      BY <3>1, <2>3, <2>4, <2>7, <1>4, <1>5
  <2> QED
    BY <2>2, <2>3, <2>5, <2>6, <2>7, <1>3
<1> QED
  BY <1>3, <1>5, <1>6, <1>7, <1>8, <1>9 DEF InductiveInvariant

\* The first loop ends with the sum of all the platters and the stub.
LEMMA CountStubPreserves ==
  InductiveInvariant /\ CountStub => InductiveInvariant'
<1>1. SUFFICES ASSUME InductiveInvariant, CountStub PROVE InductiveInvariant'
  OBVIOUS
<1>2. TypeOK
  BY <1>1 DEF InductiveInvariant
<1>3. /\ phase = "count" /\ i = size /\ phase' = "create" /\ size \in Nat
      /\ UNCHANGED << size, a, i, nativeCode, jumpTable, sums >>
      /\ nativeCodeSize' = nativeCodeSize + OOBStubSize
      /\ nativeCodeSize \in Nat /\ OOBStubSize \in Nat
      /\ \A j : length(j)' = length(j)
  BY <1>1, <1>2, GenerationAssumption
     DEF CountStub, CountedWithStub, TypeOK, array, length
<1>4. TypeOK'
  BY <1>2, <1>3 DEF TypeOK
<1>5. Counted(size)'
  BY <1>1, <1>3 DEF InductiveInvariant, Counted
<1>6. \A j \in 0 .. size - 1 : sums[j + 1] = sums[j] + length(j)
  BY <1>1, <1>3 DEF InductiveInvariant
<1> QED
  BY <1>1, <1>3, <1>4, <1>5, <1>6 DEF InductiveInvariant

\* The second loop starts at the first byte of the block.
LEMMA CreatePreserves ==
  InductiveInvariant /\ Create => InductiveInvariant'
<1>1. SUFFICES ASSUME InductiveInvariant, Create PROVE InductiveInvariant'
  OBVIOUS
<1>2. TypeOK
  BY <1>1 DEF InductiveInvariant
<1>3. /\ phase = "create" /\ phase' = "emit" /\ size \in Nat
      /\ i' = 0 /\ nativeCode' = 0
      /\ UNCHANGED << size, a, nativeCodeSize, jumpTable, sums >>
      /\ \A j : length(j)' = length(j)
  BY <1>1, <1>2 DEF Create, TypeOK, array, length
<1>4. TypeOK'
  BY <1>2, <1>3 DEF TypeOK
<1>5. Counted(size)'
  BY <1>1, <1>3 DEF InductiveInvariant, Counted
<1>6. Emitted(i)'
  BY <1>3 DEF Emitted
<1>7. nativeCode' = sums'[i']
  BY <1>1, <1>3 DEF InductiveInvariant
<1>8. \A j \in 0 .. size - 1 : sums[j + 1] = sums[j] + length(j)
  BY <1>1, <1>3 DEF InductiveInvariant
<1> QED
  BY <1>1, <1>3, <1>4, <1>5, <1>6, <1>7, <1>8 DEF InductiveInvariant

\* A turn of the second loop goes from one sum to the next.
LEMMA EmitPlatterPreserves ==
  InductiveInvariant /\ EmitPlatter => InductiveInvariant'
<1>1. SUFFICES ASSUME InductiveInvariant, EmitPlatter PROVE InductiveInvariant'
  OBVIOUS
<1>2. TypeOK
  BY <1>1 DEF InductiveInvariant
<1>3. /\ phase = "emit" /\ i < size /\ i \in 0 .. size - 1 /\ size \in Nat
      /\ i' = i + 1
      /\ UNCHANGED << size, a, phase, nativeCodeSize, sums >>
      /\ jumpTable' = [jumpTable EXCEPT ![i] = nativeCode]
      /\ nativeCode' = nativeCode + length(i)
      /\ \A j : length(j)' = length(j)
  BY <1>1, <1>2 DEF EmitPlatter, EntryBefore, TypeOK, array, length
<1>4. length(i) \in Nat
  BY <1>2, <1>3, LengthOfCode
<1>5. TypeOK'
  BY <1>2, <1>3, <1>4 DEF TypeOK
<1>6. Counted(size)'
  BY <1>1, <1>3 DEF InductiveInvariant, Counted
<1>7. nativeCode = sums[i] /\ sums[i + 1] = sums[i] + length(i)
  BY <1>1, <1>3 DEF InductiveInvariant
<1>8. Emitted(i)'
  <2>1. \A j \in 0 .. i - 1 : jumpTable[j] = sums[j]
    BY <1>1, <1>3 DEF InductiveInvariant, Emitted
  <2>2. jumpTable \in [0 .. size - 1 -> Nat]
    BY <1>2 DEF TypeOK
  <2>3. SUFFICES ASSUME NEW j \in 0 .. i PROVE jumpTable'[j] = sums[j]
    BY <1>3 DEF Emitted
  <2>4. CASE j = i
    BY <1>3, <1>7, <2>2, <2>4
  <2>5. CASE j < i
    BY <1>3, <2>1, <2>2, <2>5
  <2> QED
    BY <1>3, <2>3, <2>4, <2>5
<1> QED
  BY <1>1, <1>3, <1>5, <1>6, <1>7, <1>8 DEF InductiveInvariant

\* The stub fills what is left of the block.
LEMMA EmitStubPreserves ==
  InductiveInvariant /\ EmitStub => InductiveInvariant'
<1>1. SUFFICES ASSUME InductiveInvariant, EmitStub PROVE InductiveInvariant'
  OBVIOUS
<1>2. TypeOK
  BY <1>1 DEF InductiveInvariant
<1>3. /\ phase = "emit" /\ i = size /\ phase' = "done" /\ size \in Nat
      /\ UNCHANGED << size, a, i, nativeCodeSize, jumpTable, sums >>
      /\ nativeCode' = nativeCode + OOBStubSize
      /\ OOBStubSize \in Nat /\ nativeCode \in Nat
      /\ \A j : length(j)' = length(j)
  BY <1>1, <1>2, GenerationAssumption DEF EmitStub, TypeOK, array, length
<1>4. TypeOK'
  BY <1>2, <1>3 DEF TypeOK
<1>5. Counted(size)' /\ Emitted(size)'
  BY <1>1, <1>3 DEF InductiveInvariant, Counted, Emitted
<1>6. nativeCode' = nativeCodeSize'
  BY <1>1, <1>3 DEF InductiveInvariant
<1> QED
  BY <1>1, <1>3, <1>4, <1>5, <1>6 DEF InductiveInvariant

\* Every step preserves the invariant.
LEMMA Preserved == InductiveInvariant /\ [Next]_vars => InductiveInvariant'
<1>1. CASE UNCHANGED vars
  BY <1>1 DEF vars, array, InductiveInvariant, TypeOK, Counted, Emitted, length
<1> QED
  BY <1>1, CountPlatterPreserves, CountStubPreserves, CreatePreserves,
     EmitPlatterPreserves, EmitStubPreserves DEF Next

\* The second loop retraces the sums of the first, through both loops of
\* generateNativeCode.
THEOREM Invariance == Spec => []InductiveInvariant
BY Initially, Preserved, PTL DEF Spec

-----------------------------------------------------------------------------
\* The first n sums grow with n.
LEMMA SumsGrow ==
  ASSUME TypeOK, Counted(size), NEW j \in 0 .. size, NEW k \in 0 .. size, j <= k
  PROVE  sums[j] <= sums[k]
<1>1. CASE j = k
  BY <1>1 DEF TypeOK
<1>2. CASE j < k
  <2>1. sums[j] + length(j) <= sums[k]
    BY <1>2 DEF Counted
  <2>2. j \in 0 .. size - 1
    BY <1>2 DEF TypeOK
  <2>3. length(j) \in Nat
    BY <2>2, LengthOfCode
  <2> QED
    BY <2>1, <2>3 DEF TypeOK
<1> QED
  BY <1>1, <1>2 DEF TypeOK

\* The second loop is at a sum, and no sum is greater than the last.
LEMMA WithinBlock == InductiveInvariant => WrittenWithinBlock
<1>1. SUFFICES ASSUME InductiveInvariant PROVE WrittenWithinBlock
  OBVIOUS
<1>2. TypeOK /\ OOBStubSize \in Nat
  BY <1>1, GenerationAssumption DEF InductiveInvariant
<1>3. CASE phase = "emit"
  <2>1. nativeCode = sums[i] /\ nativeCodeSize = sums[size] + OOBStubSize
    BY <1>1, <1>3 DEF InductiveInvariant
  <2>2. sums[i] <= sums[size]
    <3>1. Counted(size)
      BY <1>1, <1>3 DEF InductiveInvariant
    <3>2. i \in 0 .. size /\ size \in 0 .. size /\ i <= size
      BY <1>2 DEF TypeOK
    <3> QED
      BY <1>2, <3>1, <3>2, SumsGrow
  <2>3. nativeCode \in Nat /\ sums[size] \in Nat
    BY <1>2 DEF TypeOK
  <2>4. nativeCode <= nativeCodeSize
    BY <1>2, <2>1, <2>2, <2>3
  <2>5. phase # "done"
    BY <1>3
  <2> QED
    BY <2>4, <2>5 DEF WrittenWithinBlock
<1>4. CASE phase = "done"
  BY <1>1, <1>2, <1>4 DEF InductiveInvariant, WrittenWithinBlock, TypeOK
<1> QED
  BY <1>3, <1>4 DEF WrittenWithinBlock

\* Where the platters begin once both loops have ended.
LEMMA Layout ==
  ASSUME InductiveInvariant, phase = "done"
  PROVE  /\ TypeOK
         /\ \A j \in 0 .. size - 1 : jumpTable[j] = sums[j]
         /\ \A j, k \in 0 .. size :
              j < k => sums[j] + recompileStubSize <= sums[k]
         /\ nativeCodeSize = sums[size] + OOBStubSize
<1>1. TypeOK /\ Counted(size)
  BY DEF InductiveInvariant
<1>2. \A j \in 0 .. size - 1 : jumpTable[j] = sums[j]
  BY <1>1 DEF InductiveInvariant, Emitted, TypeOK
<1>3. ASSUME NEW j \in 0 .. size, NEW k \in 0 .. size, j < k
      PROVE  sums[j] + recompileStubSize <= sums[k]
  <2>1. sums[j] + length(j) <= sums[k]
    BY <1>1, <1>3 DEF Counted
  <2>2. j \in 0 .. size - 1
    BY <1>1, <1>3 DEF TypeOK
  <2>3. length(j) \in Nat /\ length(j) >= recompileStubSize /\ recompileStubSize \in Nat
    BY <1>1, <2>2, LengthOfCode
  <2> QED
    BY <1>1, <2>1, <2>3 DEF TypeOK
<1> QED
  BY <1>1, <1>2, <1>3 DEF InductiveInvariant

\* Sums of different platters are at least a platter's code apart.
LEMMA Apart == InductiveInvariant => StubsStayApart
<1>1. SUFFICES ASSUME InductiveInvariant, phase = "done" PROVE StubsStayApart
  BY DEF StubsStayApart
<1>2. TypeOK /\ size \in Nat /\ recompileStubSize \in Nat /\ OOBStubSize \in Nat
  BY <1>1, GenerationAssumption DEF InductiveInvariant, TypeOK
<1>3. ASSUME NEW j \in 0 .. size - 1, NEW k \in 0 .. size - 1, j < k
      PROVE  jumpTable[j] + recompileStubSize <= jumpTable[k]
  BY <1>1, <1>2, <1>3, Layout
<1>4. ASSUME NEW j \in 0 .. size - 1
      PROVE  jumpTable[j] + recompileStubSize <= nativeCodeSize
  <2>1. jumpTable[j] = sums[j] /\ nativeCodeSize = sums[size] + OOBStubSize
    BY <1>1, Layout
  <2>2. j \in 0 .. size /\ size \in 0 .. size /\ j < size
    BY <1>2
  <2>3. sums[j] + recompileStubSize <= sums[size]
    BY <1>1, <2>2, Layout
  <2> QED
    BY <1>2, <2>1, <2>2, <2>3 DEF TypeOK
<1> QED
  BY <1>3, <1>4 DEF StubsStayApart

\* Between two entries of the jump table the search can stop only at the second.
LEMMA PositionFound == InductiveInvariant => FingerPositionFound
<1>1. SUFFICES ASSUME InductiveInvariant, phase = "done",
                      NEW j \in 0 .. size - 2,
                      NEW address \in jumpTable[j] + 1 .. jumpTable[j + 1],
                      NEW k \in 0 .. size - 1
               PROVE  IsLowerBound(k, address) <=> k - 1 = j
  BY DEF FingerPositionFound
<1>2. /\ size \in Nat /\ j + 1 \in 0 .. size - 1 /\ j \in 0 .. size - 1
      /\ \A l \in 0 .. size - 1 : jumpTable[l] \in Nat
      /\ recompileStubSize \in Nat \ {0}
  <2>1. size \in Nat /\ jumpTable \in [0 .. size - 1 -> Nat]
    BY <1>1 DEF InductiveInvariant, TypeOK
  <2>2. j \in Int /\ 0 <= j /\ j <= size - 2
    BY <2>1
  <2> QED
    BY <2>1, <2>2, GenerationAssumption
<1>3. \A l, n \in 0 .. size - 1 : l < n => jumpTable[l] < jumpTable[n]
  <2>1. ASSUME NEW l \in 0 .. size - 1, NEW n \in 0 .. size - 1, l < n
        PROVE  jumpTable[l] < jumpTable[n]
    <3>1. jumpTable[l] = sums[l] /\ jumpTable[n] = sums[n]
      BY <1>1, Layout
    <3>2. sums[l] + recompileStubSize <= sums[n]
      BY <1>1, <1>2, <2>1, Layout
    <3> QED
      BY <1>2, <3>1, <3>2
  <2> QED
    BY <2>1
<1>4. jumpTable[j] < address /\ address <= jumpTable[j + 1] /\ address \in Int
  BY <1>1, <1>2
<1>5. ASSUME k = j + 1 PROVE IsLowerBound(k, address)
  <2>1. ASSUME NEW l \in 0 .. k - 1 PROVE jumpTable[l] < address
    <3>1. l \in 0 .. size - 1 /\ (l = j \/ l < j)
      BY <1>2, <1>5, <2>1
    <3>2. jumpTable[l] <= jumpTable[j]
      BY <1>2, <1>3, <3>1
    <3> QED
      BY <1>2, <1>4, <3>1, <3>2
  <2> QED
    BY <1>2, <1>4, <1>5, <2>1 DEF IsLowerBound
<1>6. ASSUME IsLowerBound(k, address), k <= j PROVE FALSE
  <2>1. jumpTable[k] >= address
    BY <1>2, <1>6 DEF IsLowerBound
  <2>2. jumpTable[k] <= jumpTable[j]
    BY <1>2, <1>3, <1>6
  <2> QED
    BY <1>2, <1>4, <2>1, <2>2
<1>7. ASSUME IsLowerBound(k, address), k > j + 1 PROVE FALSE
  <2>1. j + 1 \in 0 .. k - 1
    BY <1>2, <1>7
  <2>2. jumpTable[j + 1] < address
    BY <1>7, <2>1 DEF IsLowerBound
  <2> QED
    BY <1>2, <1>4, <2>2
<1> QED
  BY <1>2, <1>5, <1>6, <1>7

\* generateNativeCode's second loop writes what its first loop made room for
\* (context.cpp:783-799).
THEOREM BlockLargeEnough == Spec => []WrittenWithinBlock
BY Invariance, WithinBlock, PTL

\* A recompile stub never reaches the code of another platter
\* (context.cpp:339-344, 475-490).
THEOREM StubsApart == Spec => []StubsStayApart
BY Invariance, Apart, PTL

\* A return address inside a platter, or right behind it, is found again by
\* the binary search, for every platter but the last (context.cpp:254-272).
THEOREM PlatterFound == Spec => []FingerPositionFound
BY Invariance, PositionFound, PTL
=============================================================================
