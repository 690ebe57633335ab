--------------------------- MODULE ContextFailures ---------------------------
(***************************************************************************)
(* class context when memory runs out.  Every request that allocates may   *)
(* fail in each of its allocations; the exception leaves run() at once,    *)
(* nothing it did so far is undone, and main only reports it.              *)
(***************************************************************************)
EXTENDS Context

VARIABLES
  leaked,    \* native code blocks nothing points to any more
  dangling   \* _arrays[0] points to an array that has been destroyed

memory == << leaked, dangling >>

allVars == << vars, memory >>

\* Nothing has failed and everything array 0 needs is there.
InitWithMemory == Init /\ leaked = {} /\ dangling = FALSE

WithMemory == Next /\ UNCHANGED memory

Throws ==
  /\ status' = "outOfMemory"
  /\ UNCHANGED << registers, io, arraysPtr, jumpTable, resumeAt, eaxValue,
                  returned >>

\* generateNativeCode when nativeCode::create fails: the array has lost its
\* old code, and the new block is lost as well if only the jump table could not
\* be allocated.
WithDestroyedCode(a) == [a EXCEPT !.dirty = FALSE]
WithoutCode(a)       == CleanArray(a, NoCode)

LosesBlock(codes) ==
  \/ leaked' = leaked
  \/ \E id \in CodeIds \ DOMAIN codes : leaked' = leaked \union {id}

\* run() before its loop, and a recompilation.
GenerationFails ==
  /\ status = "constructed" \/ Requested("recompile")
  /\ nativeCodes' = Released(nativeCodes, arrays[0].nativeCode)
  /\ arrays' = [arrays EXCEPT ![0] = WithoutCode(@)]
  /\ LosesBlock(nativeCodes')
  /\ Throws
  /\ UNCHANGED << arraysSize, capacity, array0Source, minEmptyArrayIndex, dangling >>

\* The vector has grown when array::create fails, and the new slot is null.
AllocationFails ==
  /\ Requested("allocation")
  /\ \E i \in minEmptyArrayIndex .. arraysSize :
       /\ \A j \in minEmptyArrayIndex .. i - 1 : j \in DOMAIN arrays
       /\ i \notin DOMAIN arrays
       /\ i < MaxArrays
       /\ minEmptyArrayIndex' = i
       /\ \/ /\ arraysSize' = IF i = arraysSize THEN arraysSize + 1 ELSE arraysSize
             /\ capacity' = IF i = arraysSize /\ arraysSize = capacity
                            THEN Grown(capacity) ELSE capacity
          \/ \* push_back itself fails.
             /\ i = arraysSize /\ arraysSize = capacity
             /\ UNCHANGED << arraysSize, capacity >>
  /\ Throws
  /\ UNCHANGED << arrays, nativeCodes, array0Source, memory >>

\* The arrays that are left when loadProgram has called destroy.
WithoutSource(index) == Restrict(GivenBack, DOMAIN arrays \ {index})
WithoutArray0(index) == Restrict(GivenBack, DOMAIN arrays \ {0})

\* loadProgram fails after it has destroyed array 0: in generateNativeCode, or
\* in the clone.
LoadFails ==
  /\ Requested("loadProgram")
  /\ returned.value1 \in DOMAIN arrays \ {0}
  /\ LET index     == returned.value1
         destroyed == Released(nativeCodes, GivenBack[0].nativeCode)
         source    == GivenBack[index]
         generates == source.dirty \/ source.nativeCode = NoCode
         others    == WithoutArray0(index)
     IN \/ /\ generates
           /\ nativeCodes' = Released(destroyed, source.nativeCode)
           /\ arrays' = [others EXCEPT ![index] = WithoutCode(@)]
           /\ LosesBlock(nativeCodes')
        \/ \* The clone fails, with code that has just been generated,
           /\ generates
           /\ \E id \in FreshCode(destroyed, source) :
                /\ nativeCodes' = generateNativeCode(destroyed, source, id)
                /\ arrays' = [others EXCEPT ![index] = CleanArray(@, id)]
           /\ UNCHANGED leaked
        \/ \* or with the code the source had.
           /\ ~generates
           /\ nativeCodes' = destroyed
           /\ arrays' = others
           /\ UNCHANGED leaked
  /\ dangling' = TRUE
  /\ Throws
  /\ UNCHANGED << arraysSize, capacity, array0Source, minEmptyArrayIndex >>

NextWithFailures == WithMemory \/ GenerationFails \/ AllocationFails \/ LoadFails

FailingSpec == InitWithMemory /\ [][NextWithFailures]_allVars

-----------------------------------------------------------------------------
\* Properties

\* The search for a free index is right even after an allocation that failed:
\* every smaller index is allocated, or is array 0, whose slot a load that failed
\* halfway has left pointing to a destroyed array (context.cpp:872-879).
SearchSurvives ==
  /\ minEmptyArrayIndex <= arraysSize
  /\ \A i \in 0 .. minEmptyArrayIndex - 1 :
       i \in DOMAIN arrays \/ (i = 0 /\ dangling)

\* What fails takes no array with it but array 0: every other array stays
\* allocated with the platters it had, however far the request had got.
OtherArraysKept ==
  [][status' = "outOfMemory" =>
       \A i \in DOMAIN arrays \ {0} :
         i \in DOMAIN arrays' /\ arrays'[i].platters = arrays[i].platters]_allVars
=============================================================================
