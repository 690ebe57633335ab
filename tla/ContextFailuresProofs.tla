------------------------ MODULE ContextFailuresProofs ------------------------
(***************************************************************************)
(* What an exception of the memory manager leaves behind, proved for every *)
(* program and for a failure at any allocation of any request.             *)
(*                                                                         *)
(* Nothing runs after a failure, so the invariant is that of ContextProofs *)
(* up to it, and what the step that fails establishes from then on.  Each  *)
(* way to fail stops between two of the heap operations of                 *)
(* ContextProofs, so that the heap is sound then as well.                  *)
(***************************************************************************)
EXTENDS ContextFailures, ContextProofs

-----------------------------------------------------------------------------
\* What is left when run() has been left by an exception: a sound heap, in
\* which array 0 may be missing and one block be lost.
Wreckage ==
  /\ Sound(arrays, nativeCodes)
  /\ arraysSize \in Nat /\ capacity \in Nat
  /\ DOMAIN arrays \subseteq 0 .. arraysSize - 1
  /\ array0Source \in Nat /\ minEmptyArrayIndex \in Nat
  /\ SourceLink
  /\ SearchSurvives
  /\ leaked = {} \/ \E id \in CodeIds \ DOMAIN nativeCodes : leaked = {id}

\* What holds throughout: the machine's own invariant until memory runs out,
\* and what an exception leaves of it after that.
FailingInvariant ==
  /\ LocalsTyped
  /\ IF status = "outOfMemory"
     THEN Wreckage
     ELSE InductiveInvariant /\ leaked = {} /\ dangling = FALSE

-----------------------------------------------------------------------------
\* An array that loses its code and its mark, while its block is released, owns
\* nothing any more: generateNativeCode when it fails.
LEMMA UncompileSound ==
  ASSUME NEW arrs, NEW codes, Sound(arrs, codes), NEW i \in DOMAIN arrs
  PROVE  Sound([arrs EXCEPT ![i] = WithoutCode(@)],
               Released(codes, arrs[i].nativeCode))
<1> DEFINE rest == Restrict(arrs, DOMAIN arrs \ {i})
           as   == [arrs EXCEPT ![i] = WithoutCode(@)]
           cs   == Released(codes, arrs[i].nativeCode)
<1>1. Sound(rest, cs)
  BY DestroySound
<1>2. /\ HeapTyped(rest, cs) /\ StubsConfined(rest, cs)
      /\ CodeLive(rest, cs) /\ CodeUnshared(rest) /\ CodeReachable(rest, cs)
  BY <1>1 DEF Sound
<1>3. /\ DOMAIN rest = DOMAIN arrs \ {i}
      /\ \A k \in DOMAIN rest : rest[k] = arrs[k]
  BY DEF Restrict
<1>4. /\ DOMAIN as = DOMAIN arrs
      /\ as[i] = CleanArray(arrs[i], NoCode)
      /\ \A k \in DOMAIN arrs \ {i} : as[k] = arrs[k]
  BY DEF WithoutCode
<1>5. IsArray(as[i]) /\ as[i].nativeCode = NoCode
  <2>1. IsArray(arrs[i])
    BY DEF Sound, HeapTyped
  <2>2. QED BY <1>4, <2>1, ArrayRecord
<1> HIDE DEF rest, as, cs
<1>6. /\ i \notin DOMAIN rest /\ DOMAIN as = DOMAIN rest \union {i}
      /\ \A k \in DOMAIN rest : as[k] = rest[k]
  BY <1>3, <1>4
<1>7. HeapTyped(as, cs)
  BY <1>2, <1>5, <1>6 DEF HeapTyped
<1>8. CodeLive(as, cs)
  BY <1>2, <1>5, <1>6 DEF CodeLive
<1>9. CodeUnshared(as)
  BY <1>2, <1>5, <1>6 DEF CodeUnshared
<1>10. CodeReachable(as, cs)
  <2> SUFFICES ASSUME NEW id \in DOMAIN cs
               PROVE  \E k \in DOMAIN as : as[k].nativeCode = id
    BY DEF CodeReachable
  <2>1. PICK k \in DOMAIN rest : rest[k].nativeCode = id
    BY <1>2 DEF CodeReachable
  <2>2. QED BY ONLY <1>6, <2>1
<1>11. StubsConfined(as, cs)
  <2> SUFFICES ASSUME NEW k \in DOMAIN as, as[k].nativeCode # NoCode,
                      NEW j \in 0 .. as[k].size - 1,
                      cs[as[k].nativeCode].code[j] = Stub
               PROVE  k = 0 /\ as[0].dirty
    BY DEF StubsConfined
  <2>1. k \in DOMAIN rest /\ as[k] = rest[k]
    BY <1>5, <1>6
  <2>2. k = 0 /\ rest[0].dirty
    BY <2>1, <1>2 DEF StubsConfined
  <2>3. QED BY <2>1, <2>2
<1>12. QED BY <1>7, <1>8, <1>9, <1>10, <1>11 DEF Sound, as, cs

\* A failure leaves the registers, the streams and the locals as they are.
LEMMA ThrowsTyped ==
  ASSUME LocalsTyped, Throws
  PROVE  LocalsTyped' /\ status' = "outOfMemory"
BY DEF LocalsTyped, Throws, io, Outcomes

\* One block is lost, or none.
LEMMA LosesOne ==
  ASSUME leaked = {}, LosesBlock(nativeCodes')
  PROVE  leaked' = {} \/ \E id \in CodeIds \ DOMAIN nativeCodes' : leaked' = {id}
BY DEF LosesBlock

-----------------------------------------------------------------------------
\* The three ways to fail.  Before each, nothing has failed yet.
Unfailed == InductiveInvariant /\ leaked = {} /\ dangling = FALSE

\* What a failure has to establish.
LeavesWreckage ==
  /\ FailingInvariant'
  /\ \A i \in DOMAIN arrays \ {0} :
       i \in DOMAIN arrays' /\ arrays'[i].platters = arrays[i].platters

\* Compiling array 0 fails: array 0 has no code any more.
LEMMA GenerationFailure ==
  ASSUME Unfailed, GenerationFails
  PROVE  LeavesWreckage
<1>1. HeapInvariant /\ LocalsTyped /\ ControlInvariant
  BY InvariantParts DEF Unfailed
<1>2. 0 \in DOMAIN arrays
  <2>1. CASE status = "constructed"
    BY <1>1, <2>1 DEF ControlInvariant
  <2>2. CASE Requested("recompile")
    BY <2>2, RequestedFacts DEF Unfailed
  <2>3. QED BY <2>1, <2>2 DEF GenerationFails
<1>3. /\ nativeCodes' = Released(nativeCodes, arrays[0].nativeCode)
      /\ arrays' = [arrays EXCEPT ![0] = WithoutCode(@)]
      /\ LosesBlock(nativeCodes') /\ Throws
      /\ UNCHANGED << arraysSize, capacity, array0Source, minEmptyArrayIndex,
                      dangling >>
  BY DEF GenerationFails
<1>4. LocalsTyped' /\ status' = "outOfMemory"
  BY <1>1, <1>3, ThrowsTyped
<1>5. Sound(arrays', nativeCodes')
  BY <1>1, <1>2, <1>3, UncompileSound DEF HeapInvariant
<1>6. /\ DOMAIN arrays' = DOMAIN arrays
      /\ \A k \in DOMAIN arrays \ {0} : arrays'[k] = arrays[k]
      /\ arrays'[0].size = arrays[0].size
  <2>1. IsArray(arrays[0])
    BY <1>1, <1>2 DEF HeapInvariant, Sound, HeapTyped
  <2>2. /\ DOMAIN arrays' = DOMAIN arrays
        /\ \A k \in DOMAIN arrays \ {0} : arrays'[k] = arrays[k]
        /\ arrays'[0] = CleanArray(arrays[0], NoCode)
    BY <1>2, <1>3 DEF WithoutCode
  <2>3. QED BY <2>1, <2>2, ArrayRecord
<1>7. SourceLink'
  BY <1>1, <1>3, <1>6 DEF HeapInvariant, SourceLink
<1>8. SearchSurvives'
  BY <1>1, <1>3, <1>6 DEF HeapInvariant, MinEmptyIsSmallest, SearchSurvives
<1>9. leaked' = {} \/ \E id \in CodeIds \ DOMAIN nativeCodes' : leaked' = {id}
  BY <1>3, LosesOne DEF Unfailed
<1>10. Wreckage'
  BY <1>1, <1>3, <1>5, <1>6, <1>7, <1>8, <1>9 DEF HeapInvariant, Wreckage
<1>11. QED BY <1>4, <1>6, <1>10 DEF FailingInvariant, LeavesWreckage

\* An allocation fails: the search has moved to the free index, and the vector
\* may have grown.
LEMMA AllocationFailure ==
  ASSUME Unfailed, AllocationFails
  PROVE  LeavesWreckage
<1>1. HeapInvariant /\ LocalsTyped
  BY InvariantParts DEF Unfailed
<1>2. PICK i \in minEmptyArrayIndex .. arraysSize :
        /\ \A j \in minEmptyArrayIndex .. i - 1 : j \in DOMAIN arrays
        /\ minEmptyArrayIndex' = i
        /\ \/ /\ arraysSize' = IF i = arraysSize THEN arraysSize + 1
                                                 ELSE arraysSize
              /\ capacity' = IF i = arraysSize /\ arraysSize = capacity
                             THEN Grown(capacity) ELSE capacity
           \/ UNCHANGED << arraysSize, capacity >>
  BY DEF AllocationFails
<1>3. /\ Throws
      /\ UNCHANGED << arrays, nativeCodes, array0Source, leaked, dangling >>
  BY DEF AllocationFails, memory
<1>4. LocalsTyped' /\ status' = "outOfMemory"
  BY <1>1, <1>3, ThrowsTyped
<1>5. /\ arraysSize \in Nat /\ capacity \in Nat /\ minEmptyArrayIndex \in Nat
      /\ DOMAIN arrays \subseteq 0 .. arraysSize - 1
      /\ minEmptyArrayIndex <= arraysSize
      /\ 0 .. minEmptyArrayIndex - 1 \subseteq DOMAIN arrays
      /\ array0Source \in Nat /\ SourceLink /\ Sound(arrays, nativeCodes)
  BY <1>1 DEF HeapInvariant, MinEmptyIsSmallest
<1>6. Grown(capacity) \in Nat
  BY <1>5 DEF Grown
<1>7. /\ arraysSize' \in Nat /\ capacity' \in Nat /\ arraysSize' >= arraysSize
      /\ i \in Nat /\ i <= arraysSize
  BY <1>2, <1>5, <1>6
<1>8. DOMAIN arrays' \subseteq 0 .. arraysSize' - 1
  BY <1>3, <1>5, <1>7
<1>9. \A j \in 0 .. i - 1 : j \in DOMAIN arrays
  BY <1>2, <1>5, <1>7
<1>10. SearchSurvives'
  BY <1>2, <1>3, <1>7, <1>9 DEF SearchSurvives
<1>11. SourceLink'
  BY <1>3, <1>5 DEF SourceLink
<1>12. Wreckage'
  BY <1>2, <1>3, <1>5, <1>7, <1>8, <1>10, <1>11 DEF Unfailed, Wreckage
<1>13. QED BY <1>3, <1>4, <1>12 DEF FailingInvariant, LeavesWreckage

\* A load fails after array 0 has been destroyed: the others are all there.
LEMMA LoadFailure ==
  ASSUME Unfailed, LoadFails
  PROVE  LeavesWreckage
<1> DEFINE index     == returned.value1
           given     == GivenBack
           source    == given[index]
           destroyed == Released(nativeCodes, given[0].nativeCode)
           rest      == Restrict(given, DOMAIN given \ {0})
<1>1. HeapInvariant /\ LocalsTyped
  BY InvariantParts DEF Unfailed
<1>2. /\ index \in DOMAIN arrays \ {0} /\ 0 \in DOMAIN arrays
  BY RequestedFacts DEF LoadFails, Unfailed
<1>3. /\ Sound(given, nativeCodes) /\ DOMAIN given = DOMAIN arrays
      /\ \A k \in DOMAIN arrays : given[k].platters = arrays[k].platters
  BY <1>2, GivenBackSound DEF Unfailed
<1>4. Sound(rest, destroyed)
  BY <1>2, <1>3, DestroySound
<1>5. /\ DOMAIN rest = DOMAIN arrays \ {0} /\ rest[index] = source
      /\ \A k \in DOMAIN rest : rest[k] = given[k]
  BY <1>2, <1>3 DEF Restrict
<1>6. /\ \/ /\ nativeCodes' = Released(destroyed, source.nativeCode)
            /\ arrays' = [rest EXCEPT ![index] = WithoutCode(@)]
            /\ LosesBlock(nativeCodes')
         \/ /\ \E id \in FreshCode(destroyed, source) :
                 /\ nativeCodes' = generateNativeCode(destroyed, source, id)
                 /\ arrays' = [rest EXCEPT ![index] = CleanArray(@, id)]
            /\ UNCHANGED leaked
         \/ /\ nativeCodes' = destroyed /\ arrays' = rest
            /\ UNCHANGED leaked
      /\ dangling' = TRUE /\ Throws
      /\ UNCHANGED << arraysSize, capacity, array0Source, minEmptyArrayIndex >>
  BY <1>3 DEF LoadFails, WithoutArray0
<1> HIDE DEF index, given, source, destroyed, rest
<1>7. LocalsTyped' /\ status' = "outOfMemory"
  BY <1>1, <1>6, ThrowsTyped
<1>8. \A k \in DOMAIN rest : IsArray(rest[k])
  BY <1>4 DEF Sound, HeapTyped
<1>9. /\ Sound(arrays', nativeCodes') /\ DOMAIN arrays' = DOMAIN rest
      /\ \A k \in DOMAIN rest : arrays'[k].platters = rest[k].platters
      /\ leaked' = {}
           \/ \E id \in CodeIds \ DOMAIN nativeCodes' : leaked' = {id}
  <2>1. CASE /\ nativeCodes' = Released(destroyed, source.nativeCode)
             /\ arrays' = [rest EXCEPT ![index] = WithoutCode(@)]
             /\ LosesBlock(nativeCodes')
    <3>1. Sound(arrays', nativeCodes')
      BY <2>1, <1>2, <1>4, <1>5, UncompileSound
    <3>2. /\ DOMAIN arrays' = DOMAIN rest
          /\ arrays'[index] = CleanArray(rest[index], NoCode)
          /\ \A k \in DOMAIN rest \ {index} : arrays'[k] = rest[k]
      BY <2>1, <1>2, <1>5 DEF WithoutCode
    <3>3. arrays'[index].platters = rest[index].platters
      BY <3>2, <1>2, <1>5, <1>8, ArrayRecord
    <3>4. QED BY <2>1, <3>1, <3>2, <3>3, LosesOne DEF Unfailed
  <2>2. CASE /\ \E id \in FreshCode(destroyed, source) :
                  /\ nativeCodes' = generateNativeCode(destroyed, source, id)
                  /\ arrays' = [rest EXCEPT ![index] = CleanArray(@, id)]
             /\ UNCHANGED leaked
    <3>1. PICK id \in FreshCode(destroyed, source) :
            /\ nativeCodes' = generateNativeCode(destroyed, source, id)
            /\ arrays' = [rest EXCEPT ![index] = CleanArray(@, id)]
      BY <2>2
    <3>2. Sound(arrays', nativeCodes') /\ id \in CodeIds
      BY <3>1, <1>2, <1>4, <1>5, GenerateSound
    <3>3. /\ DOMAIN arrays' = DOMAIN rest
          /\ arrays'[index] = CleanArray(rest[index], id)
          /\ \A k \in DOMAIN rest \ {index} : arrays'[k] = rest[k]
      BY <3>1, <1>2, <1>5
    <3>4. arrays'[index].platters = rest[index].platters
      BY <3>2, <3>3, <1>2, <1>5, <1>8, ArrayRecord
    <3>5. QED BY <2>2, <3>2, <3>3, <3>4 DEF Unfailed
  <2>3. CASE nativeCodes' = destroyed /\ arrays' = rest /\ UNCHANGED leaked
    BY <2>3, <1>4 DEF Unfailed
  <2>4. QED BY <1>6, <2>1, <2>2, <2>3
<1>10. 0 \notin DOMAIN arrays' /\ DOMAIN arrays' = DOMAIN arrays \ {0}
  BY <1>5, <1>9
<1>11. SourceLink'
  BY <1>10 DEF SourceLink
<1>12. SearchSurvives'
  BY <1>1, <1>6, <1>10 DEF HeapInvariant, MinEmptyIsSmallest, SearchSurvives
<1>13. Wreckage'
  BY <1>1, <1>6, <1>9, <1>10, <1>11, <1>12 DEF HeapInvariant, Wreckage
<1>14. \A k \in DOMAIN arrays \ {0} :
         k \in DOMAIN arrays' /\ arrays'[k].platters = arrays[k].platters
  BY <1>3, <1>5, <1>9, <1>10
<1>15. QED BY <1>7, <1>13, <1>14 DEF FailingInvariant, LeavesWreckage

-----------------------------------------------------------------------------
\* Nothing of the program itself ends in an exception of the memory manager, and
\* nothing runs after one.
LEMMA NextNeverFails ==
  ASSUME Next
  PROVE  status \in {"constructed", "running"} /\ status' # "outOfMemory"
<1>1. CASE Run \/ RunRecompile
  BY <1>1 DEF Run, RunRecompile, Requested
<1>2. CASE Native
  BY <1>2 DEF Native, ConditionalMove, ArrayIndex, InvalidArrayIndex,
              ArrayAmendment, InvalidArrayAmendment, Addition,
              Multiplication, Division, DivisionByZero, NotAnd, Orthography,
              Halt, InvalidOperator, Allocation, AllocationResumes,
              Abandonment, Output, Input, InputResumes, Jump, JumpPastTable,
              LoadProgram, OutOfBoundStub, RecompileStub, DanglingCode,
              Executes, Resumes, AtPlatter, Executing, SetRegister, Return,
              Stop
<1>3. CASE Handler
  BY <1>3 DEF Handler, RunHalt, RunAllocation, RunAbandonment,
              AbandonmentThrows, AbandonmentOfNull, RunOutput, RunInput,
              RunLoadProgram, LoadProgramThrows, Requested, Stop
<1>4. QED BY <1>1, <1>2, <1>3 DEF Next

\* The failing steps start from a program that runs, or is about to.
LEMMA FailuresStartRunning ==
  ASSUME GenerationFails \/ AllocationFails \/ LoadFails
  PROVE  status \in {"constructed", "running"} /\ status' = "outOfMemory"
BY DEF GenerationFails, AllocationFails, LoadFails, Requested, Throws

\* A step that leaves everything as it is keeps the invariant.
LEMMA UnchangedFailing ==
  ASSUME FailingInvariant, UNCHANGED allVars
  PROVE  FailingInvariant'
<1> USE DEF allVars, vars, memory
<1>1. LocalsTyped'
  BY DEF FailingInvariant, LocalsTyped
<1>2. Wreckage => Wreckage'
  BY DEF Wreckage, SourceLink, SearchSurvives
<1>3. InductiveInvariant => InductiveInvariant'
  <2>1. UNCHANGED vars
    OBVIOUS
  <2> HIDE DEF allVars, vars, memory
  <2>2. QED BY <2>1, NextInvariant
<1>4. QED BY <1>1, <1>2, <1>3 DEF FailingInvariant

\* Every step, failing or not, preserves the invariant.
LEMMA NextFailing ==
  ASSUME FailingInvariant, [NextWithFailures]_allVars
  PROVE  FailingInvariant'
<1>1. CASE UNCHANGED allVars
  BY <1>1, UnchangedFailing
<1>2. CASE WithMemory
  <2>1. Next /\ UNCHANGED << leaked, dangling >>
    BY <1>2 DEF WithMemory, memory
  <2>2. status # "outOfMemory" /\ status' # "outOfMemory"
    BY <2>1, NextNeverFails
  <2>3. InductiveInvariant'
    BY <2>1, <2>2, NextInvariant DEF FailingInvariant
  <2>4. LocalsTyped'
    BY <2>3, InvariantParts, PTL
  <2>5. QED BY <2>1, <2>2, <2>3, <2>4 DEF FailingInvariant
<1>3. CASE GenerationFails \/ AllocationFails \/ LoadFails
  <2>1. Unfailed
    BY <1>3, FailuresStartRunning DEF FailingInvariant, Unfailed
  <2>2. QED BY <1>3, <2>1, GenerationFailure, AllocationFailure, LoadFailure
            DEF LeavesWreckage
<1>4. QED BY <1>1, <1>2, <1>3 DEF NextWithFailures

\* The invariant says of ownership, of the search and of the types what the
\* properties do.
LEMMA FailingImplies ==
  FailingInvariant => /\ CodeOwnership /\ SearchSurvives
                      /\ TypeOK /\ RunLocalsFresh /\ SourceLink
<1> SUFFICES ASSUME FailingInvariant
             PROVE  /\ CodeOwnership /\ SearchSurvives
                    /\ TypeOK /\ RunLocalsFresh /\ SourceLink
  OBVIOUS
<1>1. CASE status = "outOfMemory"
  <2>1. Wreckage /\ LocalsTyped
    BY <1>1 DEF FailingInvariant
  <2>2. CodeOwnership
    BY <2>1, SoundIff DEF Wreckage
  <2>3. TypeOK
    BY <2>1, SoundIff DEF Wreckage, LocalsTyped, TypeOK
  <2>4. QED BY <1>1, <2>1, <2>2, <2>3 DEF Wreckage, RunLocalsFresh
<1>2. CASE status # "outOfMemory"
  <2>1. InductiveInvariant /\ leaked = {} /\ dangling = FALSE
    BY <1>2 DEF FailingInvariant
  <2>2. SearchSurvives
    BY <2>1 DEF InductiveInvariant, MinEmptyIsSmallest, SearchSurvives
  <2>3. QED BY <2>1, <2>2 DEF InductiveInvariant
<1>3. QED BY <1>1, <1>2

-----------------------------------------------------------------------------
\* The invariant holds in every state of every run, whichever allocations fail.
THEOREM FailingInvariance == FailingSpec => []FailingInvariant
<1>1. InitWithMemory => FailingInvariant
  <2> SUFFICES ASSUME InitWithMemory PROVE FailingInvariant
    OBVIOUS
  <2>1. InductiveInvariant /\ leaked = {} /\ dangling = FALSE
    BY InitInvariant DEF InitWithMemory
  <2>2. status = "constructed"
    BY DEF InitWithMemory, Init
  <2>3. QED BY <2>1, <2>2, InvariantParts DEF FailingInvariant
<1>2. FailingInvariant /\ [NextWithFailures]_allVars => FailingInvariant'
  BY NextFailing
<1>3. QED BY <1>1, <1>2, PTL DEF FailingSpec

\* An exception, wherever in a request it is thrown, leaves no array with code that
\* is gone or that another array has, and no live block without an array.
THEOREM OwnershipAfterFailure == FailingSpec => []CodeOwnership
BY FailingInvariance, FailingImplies, PTL

\* The search for a free index stays right after any failure.
THEOREM SearchAfterFailure == FailingSpec => []SearchSurvives
BY FailingInvariance, FailingImplies, PTL

\* Types, the locals of run() and the recorded source survive as well.
THEOREM SoundAfterFailure ==
  FailingSpec => [](TypeOK /\ RunLocalsFresh /\ SourceLink)
BY FailingInvariance, FailingImplies, PTL

\* A failure takes no array with it but array 0.
THEOREM ArraysKept == FailingSpec => OtherArraysKept
<1> DEFINE Kept == status' = "outOfMemory" =>
             \A i \in DOMAIN arrays \ {0} :
               i \in DOMAIN arrays' /\ arrays'[i].platters = arrays[i].platters
<1>1. FailingInvariant /\ [NextWithFailures]_allVars => [Kept]_allVars
  <2> SUFFICES ASSUME FailingInvariant, NextWithFailures PROVE Kept
    OBVIOUS
  <2>1. CASE WithMemory
    BY <2>1, NextNeverFails DEF WithMemory
  <2>2. CASE GenerationFails \/ AllocationFails \/ LoadFails
    <3>1. Unfailed
      BY <2>2, FailuresStartRunning DEF FailingInvariant, Unfailed
    <3>2. LeavesWreckage
      BY <2>2, <3>1, GenerationFailure, AllocationFailure, LoadFailure
    <3>3. QED BY <3>2 DEF LeavesWreckage
  <2>3. QED BY <2>1, <2>2 DEF NextWithFailures
<1> HIDE DEF Kept
<1>2. FailingSpec => [][Kept]_allVars
  BY <1>1, FailingInvariance, PTL DEF FailingSpec
<1>3. QED BY <1>2 DEF OtherArraysKept, Kept

\* A stub restarts its platter in a machine that may run out of memory, too:
\* either array 0 has been compiled again or run() has been left.
THEOREM PlattersRestartDespiteFailures ==
  FailingSpec => RecompileRestartsEarlierPlatter
<1> DEFINE Restarts ==
      Requested("recompile") /\ resumeAt.platter < arrays[0].size - 1
      /\ status' = "running" =>
        resumeAt' = AddressOf(arrays'[0].nativeCode, resumeAt.platter)
<1>1. FailingInvariant /\ [NextWithFailures]_allVars => [Restarts]_vars
  <2> SUFFICES ASSUME FailingInvariant, NextWithFailures \/ UNCHANGED allVars
               PROVE  [Restarts]_vars
    OBVIOUS
  <2>1. CASE UNCHANGED allVars
    BY <2>1 DEF allVars
  <2>2. CASE WithMemory
    <3>1. Next
      BY <2>2 DEF WithMemory
    <3>2. InductiveInvariant
      BY <3>1, NextNeverFails DEF FailingInvariant
    <3>3. QED BY <3>1, <3>2, EarlierPlatterRestarts
  <2>3. CASE GenerationFails \/ AllocationFails \/ LoadFails
    <3>1. status' = "outOfMemory"
      BY <2>3 DEF GenerationFails, AllocationFails, LoadFails, Throws
    <3>2. QED BY <3>1
  <2>4. QED BY <2>1, <2>2, <2>3 DEF NextWithFailures
<1> HIDE DEF Restarts
<1>2. FailingSpec => [][Restarts]_vars
  BY <1>1, FailingInvariance, PTL DEF FailingSpec
<1>3. QED BY <1>2 DEF RecompileRestartsEarlierPlatter, Restarts
==============================================================================
