------------------------ MODULE ContextRefinementProofs ------------------------
(***************************************************************************)
(* class context implements the universal machine, proved for every        *)
(* program, every input, every width of the words and any number of arrays *)
(* in behaviours without the two steps SafeSpec leaves out.                *)
(*                                                                         *)
(* Two facts are added to the invariant of ContextProofs.  The heap is     *)
(* coherent: executing a cell of native code is executing the platter it   *)
(* stands for.  And a request that is pending, or a value that is on its   *)
(* way to a register, is that of the platter under the mapped finger.  The *)
(* heap operations keep the first, each once; the second only has to be    *)
(* established by a platter that asks and be used by the handler that      *)
(* serves it.                                                              *)
(***************************************************************************)
EXTENDS ContextRefinement, ContextProofs

-----------------------------------------------------------------------------
\* Coherence, of any map of arrays and any map of blocks.

\* CodeCoherent.
Coherent(arrs, codes) ==
  \A i \in DOMAIN arrs :
    arrs[i].nativeCode # NoCode =>
      \A j \in 0 .. arrs[i].size - 1 :
        \/ codes[arrs[i].nativeCode].code[j] = arrs[i].platters[j]
        \/ /\ i = 0 /\ arrs[0].dirty
           /\ codes[arrs[i].nativeCode].code[j] = Stub
        \/ i # 0 /\ arrs[i].dirty

\* LinkedCopiesAgree.
LinkAgrees(arrs, source) ==
  source \in DOMAIN arrs \ {0} /\ 0 \in DOMAIN arrs =>
    (~arrs[0].dirty /\ ~arrs[source].dirty =>
       arrs[0].platters = arrs[source].platters)

\* Coherent, of the context's own heap, is the property.
LEMMA CoherentIff == Coherent(arrays, nativeCodes) <=> CodeCoherent
BY DEF Coherent, CodeCoherent, CellCurrent

\* So is LinkAgrees.
LEMMA LinkAgreesIff == LinkAgrees(arrays, array0Source) <=> LinkedCopiesAgree
BY DEF LinkAgrees, LinkedCopiesAgree

\* Compiling array i makes its code that of its platters.
LEMMA GenerateCoherent ==
  ASSUME NEW arrs, NEW codes, Sound(arrs, codes), Coherent(arrs, codes),
         NEW i \in DOMAIN arrs, NEW id \in FreshCode(codes, arrs[i])
  PROVE  Coherent([arrs EXCEPT ![i] = CleanArray(@, id)],
                  generateNativeCode(codes, arrs[i], id))
<1> DEFINE as  == [arrs EXCEPT ![i] = CleanArray(@, id)]
           cs  == generateNativeCode(codes, arrs[i], id)
           old == arrs[i].nativeCode
           block == [size |-> arrs[i].size, code |-> arrs[i].platters]
<1>0. HeapTyped(arrs, codes) /\ CodeLive(arrs, codes) /\ CodeUnshared(arrs)
  BY DEF Sound
<1>1. id \in CodeIds /\ id # NoCode /\ id \notin DOMAIN codes \ {old}
  BY ContextAssumption, ReleasedFunction DEF FreshCode
<1>2. /\ cs[id] = block
      /\ \A k \in DOMAIN codes \ {old} : k # id => cs[k] = codes[k]
  <2> DEFINE rel == Released(codes, old)
  <2>1. /\ DOMAIN rel = DOMAIN codes \ {old}
        /\ \A k \in DOMAIN codes \ {old} : rel[k] = codes[k]
    BY DEF Released, Restrict
  <2>2. cs = Stored(rel, id, block)
    BY DEF generateNativeCode
  <2> HIDE DEF rel, cs, block
  <2>3. QED BY <2>1, <2>2, StoredFunction
<1>3. /\ as[i] = CleanArray(arrs[i], id)
      /\ \A k \in DOMAIN arrs \ {i} : as[k] = arrs[k]
      /\ DOMAIN as = DOMAIN arrs
  OBVIOUS
<1>4. as[i].nativeCode = id /\ as[i].platters = arrs[i].platters
  BY <1>0, <1>1, <1>3, ArrayRecord DEF HeapTyped
<1>5. cs[id].code = arrs[i].platters
  BY <1>2
<1> HIDE DEF as, cs, block
<1>6. SUFFICES ASSUME NEW k \in DOMAIN as, as[k].nativeCode # NoCode,
                      NEW j \in 0 .. as[k].size - 1
               PROVE  \/ cs[as[k].nativeCode].code[j] = as[k].platters[j]
                      \/ /\ k = 0 /\ as[0].dirty
                         /\ cs[as[k].nativeCode].code[j] = Stub
                      \/ k # 0 /\ as[k].dirty
  BY DEF Coherent, as, cs
<1>7. CASE k = i
  BY <1>4, <1>5, <1>7
<1>8. CASE k # i
  <2>1. as[k] = arrs[k] /\ k \in DOMAIN arrs
    BY <1>3, <1>8
  <2>2. as[k].nativeCode \in DOMAIN codes
    BY <1>0, <1>6, <2>1 DEF CodeLive
  <2>3. as[k].nativeCode # old
    BY <1>0, <1>6, <1>8, <2>1 DEF CodeUnshared
  <2>4. cs[as[k].nativeCode] = codes[arrs[k].nativeCode]
    BY <1>1, <1>2, <2>1, <2>2, <2>3
  <2>5. \/ codes[arrs[k].nativeCode].code[j] = arrs[k].platters[j]
        \/ /\ k = 0 /\ arrs[0].dirty
           /\ codes[arrs[k].nativeCode].code[j] = Stub
        \/ k # 0 /\ arrs[k].dirty
    BY <1>6, <2>1 DEF Coherent
  <2>6. QED BY <2>1, <2>4, <2>5
<1>9. QED BY <1>7, <1>8

\* Destroying an array leaves the code of the others alone.
LEMMA DestroyCoherent ==
  ASSUME NEW arrs, NEW codes, Sound(arrs, codes), Coherent(arrs, codes),
         NEW i \in DOMAIN arrs
  PROVE  Coherent(Restrict(arrs, DOMAIN arrs \ {i}),
                  Released(codes, arrs[i].nativeCode))
<1> DEFINE as == Restrict(arrs, DOMAIN arrs \ {i})
           cs == Released(codes, arrs[i].nativeCode)
<1>1. /\ DOMAIN as = DOMAIN arrs \ {i}
      /\ \A k \in DOMAIN as : as[k] = arrs[k]
  BY DEF Restrict
<1>2. \A k \in DOMAIN codes \ {arrs[i].nativeCode} : cs[k] = codes[k]
  BY ReleasedFunction
<1>3. CodeLive(arrs, codes) /\ CodeUnshared(arrs)
  BY DEF Sound
<1> HIDE DEF as, cs
<1>4. \A k \in DOMAIN as :
        as[k].nativeCode # NoCode =>
          cs[as[k].nativeCode] = codes[arrs[k].nativeCode]
  BY <1>1, <1>2, <1>3 DEF CodeLive, CodeUnshared
<1>5. Coherent(as, cs)
  BY <1>1, <1>4 DEF Coherent
<1>6. QED BY <1>5 DEF as, cs

\* A new array has no code.
LEMMA StoreCoherent ==
  ASSUME NEW arrs, NEW codes, Coherent(arrs, codes),
         NEW i, i \notin DOMAIN arrs, NEW n \in Nat
  PROVE  Coherent(Stored(arrs, i, newArray(n)), codes)
<1> DEFINE as == Stored(arrs, i, newArray(n))
<1>1. /\ DOMAIN as = DOMAIN arrs \union {i}
      /\ as[i].nativeCode = NoCode
      /\ \A k \in DOMAIN arrs : as[k] = arrs[k]
  <2>1. /\ DOMAIN as = DOMAIN arrs \union {i}
        /\ as[i] = newArray(n)
        /\ \A k \in DOMAIN arrs : k # i => as[k] = arrs[k]
    BY DEF Stored
  <2>2. QED BY <2>1, NewArrayRecord
<1> HIDE DEF as
<1>2. \A k \in DOMAIN as : as[k].nativeCode # NoCode =>
        k \in DOMAIN arrs /\ as[k] = arrs[k]
  BY <1>1
<1>3. Coherent(as, codes)
  BY <1>2 DEF Coherent
<1>4. QED BY <1>3 DEF as

\* Giving the code of array 0 back is right when the copies agree.
LEMMA GiveBackCoherent ==
  ASSUME NEW arrs, NEW codes, Sound(arrs, codes), Coherent(arrs, codes),
         0 \in DOMAIN arrs, NEW x \in DOMAIN arrs \ {0},
         ~arrs[0].dirty, ~arrs[x].dirty,
         arrs[x].size = arrs[0].size, arrs[0].platters = arrs[x].platters
  PROVE  Coherent([arrs EXCEPT
                     ![x] = [@ EXCEPT !.nativeCode = arrs[0].nativeCode],
                     ![0] = [@ EXCEPT !.nativeCode = NoCode]], codes)
<1> DEFINE as == [arrs EXCEPT
                    ![x] = [@ EXCEPT !.nativeCode = arrs[0].nativeCode],
                    ![0] = [@ EXCEPT !.nativeCode = NoCode]]
<1>1. IsArray(arrs[0]) /\ IsArray(arrs[x])
  BY DEF Sound, HeapTyped
<1>2. arrs[0].nativeCode \in CodeIds \union {NoCode}
  BY <1>1 DEF IsArray, ArrayOf
<1>3. /\ DOMAIN as = DOMAIN arrs
      /\ as[x] = [arrs[x] EXCEPT !.nativeCode = arrs[0].nativeCode]
      /\ as[0] = [arrs[0] EXCEPT !.nativeCode = NoCode]
      /\ \A k \in DOMAIN arrs \ {0, x} : as[k] = arrs[k]
  OBVIOUS
<1> HIDE DEF as
<1>4. /\ as[x].nativeCode = arrs[0].nativeCode
      /\ as[x].size = arrs[0].size
      /\ as[x].platters = arrs[0].platters
  BY <1>1, <1>2, <1>3, MovedRecord
<1>5. as[0].nativeCode = NoCode
  BY <1>1, <1>3, MovedRecord
<1>6. SUFFICES ASSUME NEW k \in DOMAIN as, as[k].nativeCode # NoCode,
                      NEW j \in 0 .. as[k].size - 1
               PROVE  \/ codes[as[k].nativeCode].code[j] = as[k].platters[j]
                      \/ k # 0 /\ as[k].dirty
  BY DEF Coherent, as
<1>7. CASE k = x
  BY <1>4, <1>6, <1>7 DEF Coherent
<1>8. CASE k # x
  <2>1. k # 0 /\ as[k] = arrs[k] /\ k \in DOMAIN arrs
    BY <1>3, <1>5, <1>6, <1>8
  <2>2. QED BY <2>1, <1>6 DEF Coherent
<1>9. QED BY <1>7, <1>8

\* An array that is not dirty gives its code to its clone.
LEMMA InstallCoherent ==
  ASSUME NEW arrs, NEW codes, Coherent(arrs, codes), 0 \notin DOMAIN arrs,
         NEW x \in DOMAIN arrs, ~arrs[x].dirty,
         NEW as, DOMAIN as = DOMAIN arrs \union {0},
         as[0].nativeCode = arrs[x].nativeCode,
         as[0].size = arrs[x].size, as[0].platters = arrs[x].platters,
         as[x].nativeCode = NoCode,
         \A k \in DOMAIN arrs \ {x} : as[k] = arrs[k]
  PROVE  Coherent(as, codes)
<1>1. SUFFICES ASSUME NEW k \in DOMAIN as, as[k].nativeCode # NoCode,
                      NEW j \in 0 .. as[k].size - 1
               PROVE  \/ codes[as[k].nativeCode].code[j] = as[k].platters[j]
                      \/ k # 0 /\ as[k].dirty
  BY DEF Coherent
<1>2. CASE k = 0
  <2>1. x # 0
    OBVIOUS
  <2>2. QED BY <1>1, <1>2, <2>1 DEF Coherent
<1>3. CASE k # 0
  <2>1. k \in DOMAIN arrs \ {x} /\ as[k] = arrs[k]
    BY <1>1, <1>3
  <2>2. QED BY <1>1, <1>3, <2>1 DEF Coherent
<1>4. QED BY <1>2, <1>3

\* Amending array 0 puts a stub where the code is not that of the platter any
\* more; an amended array other than 0 is compiled before it is executed.
LEMMA AmendCoherent ==
  ASSUME NEW arrs, NEW codes, Sound(arrs, codes), Coherent(arrs, codes),
         NEW i \in DOMAIN arrs, NEW j, NEW v \in Word,
         NEW cs,
         \/ i # 0 /\ cs = codes
         \/ /\ i = 0 /\ arrs[0].nativeCode # NoCode
            /\ cs = Patched(codes, arrs[0].nativeCode, j)
  PROVE  Coherent([arrs EXCEPT ![i] = Amended(@, j, v)], cs)
<1> DEFINE as == [arrs EXCEPT ![i] = Amended(@, j, v)]
<1>0. HeapTyped(arrs, codes) /\ CodeLive(arrs, codes) /\ CodeUnshared(arrs)
  BY DEF Sound
<1>1. /\ DOMAIN as = DOMAIN arrs
      /\ as[i] = Amended(arrs[i], j, v)
      /\ \A k \in DOMAIN arrs \ {i} : as[k] = arrs[k]
  OBVIOUS
<1>2. IsArray(arrs[i])
  BY <1>0 DEF HeapTyped
<1>3. /\ as[i].size = arrs[i].size /\ as[i].dirty = TRUE
      /\ as[i].nativeCode = arrs[i].nativeCode
      /\ as[i].platters = [arrs[i].platters EXCEPT ![j] = v]
  <2>1. Amended(arrs[i], j, v).size = arrs[i].size
    BY <1>2 DEF Amended, IsArray, ArrayOf
  <2>2. Amended(arrs[i], j, v).nativeCode = arrs[i].nativeCode
    BY <1>2 DEF Amended, IsArray, ArrayOf
  <2>3. Amended(arrs[i], j, v).dirty = TRUE
    BY <1>2, AmendedRecord
  <2>4. Amended(arrs[i], j, v).platters = [arrs[i].platters EXCEPT ![j] = v]
    BY <1>2 DEF Amended, IsArray, ArrayOf
  <2>5. QED BY <1>1, <2>1, <2>2, <2>3, <2>4
<1> HIDE DEF as
<1>4. SUFFICES ASSUME NEW k \in DOMAIN as, as[k].nativeCode # NoCode,
                      NEW l \in 0 .. as[k].size - 1
               PROVE  \/ cs[as[k].nativeCode].code[l] = as[k].platters[l]
                      \/ /\ k = 0 /\ as[0].dirty
                         /\ cs[as[k].nativeCode].code[l] = Stub
                      \/ k # 0 /\ as[k].dirty
  BY DEF Coherent, as
<1>5. CASE k # i
  <2>1. as[k] = arrs[k] /\ k \in DOMAIN arrs
    BY <1>1, <1>5
  <2>2. cs[as[k].nativeCode] = codes[arrs[k].nativeCode]
    <3>1. CASE i # 0 /\ cs = codes
      BY <2>1, <3>1
    <3>2. CASE i = 0 /\ cs = Patched(codes, arrs[0].nativeCode, j)
      <4>1. arrs[k].nativeCode # arrs[0].nativeCode
        BY <3>2, <1>0, <1>4, <1>5, <2>1 DEF CodeUnshared
      <4>2. arrs[k].nativeCode \in DOMAIN codes
        BY <1>0, <1>4, <2>1 DEF CodeLive
      <4>3. QED BY <2>1, <3>2, <4>1, <4>2 DEF Patched
    <3>3. QED BY <3>1, <3>2
  <2>3. k = 0 => i # 0
    BY <1>5
  <2>4. QED BY <1>4, <2>1, <2>2 DEF Coherent
<1>6. CASE k = i /\ i # 0
  BY <1>3, <1>6
<1>7. CASE k = i /\ i = 0
  <2> DEFINE id == arrs[0].nativeCode
  <2>1. id \in DOMAIN codes /\ codes[id].size = arrs[0].size
    BY <1>0, <1>3, <1>4, <1>7 DEF CodeLive
  <2>2. IsBlock(codes[id])
    BY <1>0, <2>1 DEF HeapTyped
  <2>3. cs[id] = Stubbed(codes[id], j)
    BY <1>7, <2>1 DEF Patched
  <2>4. l \in DOMAIN codes[id].code
    BY <1>3, <1>4, <1>7, <2>1, <2>2 DEF IsBlock, BlockOf
  <2>5. CASE l = j
    <3>1. cs[id].code[l] = Stub
      BY <2>2, <2>3, <2>4, <2>5 DEF Stubbed, IsBlock, BlockOf
    <3>2. QED BY <1>3, <1>7, <3>1
  <2>6. CASE l # j
    <3>1. cs[id].code[l] = codes[id].code[l]
      BY <2>2, <2>3, <2>4, <2>6, StubbedRecord
    <3>2. as[0].platters[l] = arrs[0].platters[l]
      BY <1>2, <1>3, <1>4, <1>7, <2>6 DEF IsArray, ArrayOf
    <3>3. \/ codes[id].code[l] = arrs[0].platters[l]
          \/ codes[id].code[l] = Stub
      BY <1>3, <1>4, <1>7 DEF Coherent
    <3>4. QED BY <1>3, <1>7, <3>1, <3>2, <3>3
  <2>7. QED BY <2>5, <2>6
<1>8. QED BY <1>5, <1>6, <1>7

-----------------------------------------------------------------------------
\* The invariant of the safe machine.

\* Platter p is one of array 0, and its operator is op.
Holds(p, op) ==
  /\ p \in 0 .. arrays[0].size - 1
  /\ decode(arrays[0].platters[p]).op = op

\* The platter the universal machine is at, decoded.
Finger == decode(arrays[0].platters[mappedFinger])

\* The code the instruction pointer is inside of is that of the platter.
InsideIntactPlatter ==
  /\ resumeAt.offset # 0
  /\ Cell = arrays[0].platters[resumeAt.platter]

\* The request run() is about to serve is the one the platter under the finger
\* makes, with the values its registers have.
PendingAgrees ==
  /\ Requested("halt") =>
       /\ resumeAt.offset = 0
       /\ \/ returned.value1 = normalTermination /\ Holds(mappedFinger, halt)
          \/ /\ returned.value1 = invalidOperator
             /\ \E op \in invalidOperators : Holds(mappedFinger, op)
          \/ /\ returned.value1 = outOfBoundExecution
             /\ mappedFinger \notin 0 .. arrays[0].size - 1
  /\ Requested("allocation") =>
       /\ Holds(mappedFinger, allocation) /\ InsideIntactPlatter
       /\ returned.value1 = registers[Finger.C]
  /\ Requested("abandonment") =>
       /\ Holds(mappedFinger, abandonment) /\ resumeAt.offset = 0
       /\ returned.value1 = registers[Finger.C]
  /\ Requested("output") =>
       /\ Holds(mappedFinger, output) /\ resumeAt.offset = 0
       /\ returned.value1 = registers[Finger.C]
  /\ Requested("input") =>
       Holds(mappedFinger, input) /\ InsideIntactPlatter
  /\ Requested("loadProgram") =>
       /\ Holds(mappedFinger, loadProgram) /\ resumeAt.offset = 0
       /\ returned.value1 = registers[Finger.B] /\ returned.value1 # 0
       /\ returned.value2 = registers[Finger.C]

\* Native code that has been given an answer is still that of the platter that
\* asked, and puts the answer where that platter says.
AnswerAgrees ==
  Executing /\ resumeAt.offset # 0 =>
    /\ 0 \in DOMAIN arrays
    /\ InsideIntactPlatter
    /\ Holds(resumeAt.platter, allocation) \/ Holds(resumeAt.platter, input)

\* Before run() has compiled array 0 no source is recorded and nothing has been
\* executed.
NothingExecuted ==
  status = "constructed" =>
    array0Source = 0 /\ resumeAt.offset = 0 /\ resumeAt.platter = 0

\* What every safe step preserves.
SafeInvariant ==
  /\ InductiveInvariant
  /\ CodeCoherent
  /\ NothingExecuted
  /\ PendingAgrees
  /\ AnswerAgrees

\* What the invariant of ContextProofs says of the heap.
LEMMA InvariantHeap ==
  ASSUME InductiveInvariant
  PROVE  /\ Sound(arrays, nativeCodes) /\ SourceLink
         /\ array0Source \in Nat
         /\ \A i \in DOMAIN arrays : IsArray(arrays[i])
BY InvariantParts DEF HeapInvariant, Sound, HeapTyped

\* And what the stronger one does.
LEMMA HeapFacts ==
  ASSUME SafeInvariant
  PROVE  /\ InductiveInvariant
         /\ Sound(arrays, nativeCodes) /\ SourceLink
         /\ Coherent(arrays, nativeCodes)
         /\ array0Source \in Nat
         /\ \A i \in DOMAIN arrays : IsArray(arrays[i])
BY InvariantHeap, CoherentIff DEF SafeInvariant

-----------------------------------------------------------------------------
\* What every operation on the heap does to its coherence, and to the agreement of
\* the copies.

\* An amendment puts a stub where it is needed, and makes one of two linked copies
\* dirty or changes neither of them.
LEMMA AmendmentCoherent ==
  ASSUME InductiveInvariant, ArrayAmendment
  PROVE  /\ CodeCoherent => Coherent(arrays', nativeCodes')
         /\ LinkedCopiesAgree => LinkAgrees(arrays', array0Source')
<1> DEFINE i == registers[A]
           j == registers[B]
           v == registers[C]
<1>1. /\ Executes(arrayAmendment)
      /\ arrays' = [arrays EXCEPT ![i] = Amended(@, j, v)]
      /\ nativeCodes' = IF i = 0 THEN Patched(nativeCodes, jumpTable, j)
                                 ELSE nativeCodes
      /\ i \in DOMAIN arrays
      /\ array0Source' = array0Source
  BY DEF ArrayAmendment, Amendable, Addressable
<1>2. /\ v \in Word /\ jumpTable = arrays[0].nativeCode /\ jumpTable # NoCode
  BY <1>1, ExecutesFacts, AtPlatterFacts
<1> HIDE DEF i, j, v
<1>3. ASSUME CodeCoherent PROVE Coherent(arrays', nativeCodes')
  <2>1. \/ i # 0 /\ nativeCodes' = nativeCodes
        \/ i = 0 /\ arrays[0].nativeCode # NoCode
           /\ nativeCodes' = Patched(nativeCodes, arrays[0].nativeCode, j)
    BY <1>1, <1>2
  <2>2. Sound(arrays, nativeCodes) /\ Coherent(arrays, nativeCodes)
    BY <1>3, InvariantHeap, CoherentIff
  <2>3. QED BY <1>1, <1>2, <2>1, <2>2, AmendCoherent
<1>4. arrays'[i].dirty = TRUE
  <2>1. arrays'[i] = Amended(arrays[i], j, v)
    BY <1>1
  <2>2. QED BY <1>1, <1>2, <2>1, InvariantHeap, AmendedRecord
<1>5. /\ DOMAIN arrays' = DOMAIN arrays
      /\ \A k \in DOMAIN arrays \ {i} : arrays'[k] = arrays[k]
  BY <1>1
<1>6. ASSUME LinkedCopiesAgree PROVE LinkAgrees(arrays', array0Source')
  <2> SUFFICES ASSUME array0Source \in DOMAIN arrays \ {0}, 0 \in DOMAIN arrays,
                      ~arrays'[0].dirty, ~arrays'[array0Source].dirty
               PROVE  arrays'[0].platters = arrays'[array0Source].platters
    BY <1>1, <1>5 DEF LinkAgrees
  <2>1. i # 0 /\ i # array0Source
    BY <1>4
  <2>2. arrays'[0] = arrays[0] /\ arrays'[array0Source] = arrays[array0Source]
    BY <1>5, <2>1
  <2>3. QED BY <1>6, <2>2 DEF LinkedCopiesAgree
<1>7. QED BY <1>3, <1>6

\* A new array is linked with nothing.
LEMMA AllocationCoherent ==
  ASSUME InductiveInvariant, RunAllocation
  PROVE  /\ CodeCoherent => Coherent(arrays', nativeCodes')
         /\ LinkedCopiesAgree => LinkAgrees(arrays', array0Source')
<1>1. 0 \in DOMAIN arrays /\ returned.value1 \in Nat
  BY RequestedFacts, WordSizes DEF RunAllocation, Word
<1>2. PICK i : /\ i \notin DOMAIN arrays
               /\ arrays' = Stored(arrays, i, newArray(returned.value1))
  BY DEF RunAllocation
<1>3. nativeCodes' = nativeCodes /\ array0Source' = array0Source
  BY DEF RunAllocation
<1>4. /\ DOMAIN arrays' = DOMAIN arrays \union {i}
      /\ \A k \in DOMAIN arrays : arrays'[k] = arrays[k]
  <2>1. arrays' = Stored(arrays, i, newArray(returned.value1))
    BY <1>2
  <2>2. i \notin DOMAIN arrays
    BY <1>2
  <2>3. QED BY <2>1, <2>2 DEF Stored
<1>5. CodeCoherent => Coherent(arrays', nativeCodes')
  BY <1>1, <1>2, <1>3, InvariantHeap, CoherentIff, StoreCoherent
<1>6. LinkedCopiesAgree => LinkAgrees(arrays', array0Source')
  BY <1>1, <1>3, <1>4, InvariantHeap DEF LinkAgrees, LinkedCopiesAgree, SourceLink
<1>7. QED BY <1>5, <1>6

\* Abandoning the source unlinks it.
LEMMA AbandonmentCoherent ==
  ASSUME InductiveInvariant, RunAbandonment
  PROVE  /\ CodeCoherent => Coherent(arrays', nativeCodes')
         /\ LinkedCopiesAgree => LinkAgrees(arrays', array0Source')
<1> DEFINE index == returned.value1
<1>1. /\ index \in DOMAIN arrays
      /\ array0Source' = IF array0Source = index THEN 0 ELSE array0Source
      /\ nativeCodes' = Released(nativeCodes, arrays[index].nativeCode)
      /\ arrays' = Restrict(arrays, DOMAIN arrays \ {index})
  BY DEF RunAbandonment, SourceAfterAbandonment
<1> HIDE DEF index
<1>2. /\ DOMAIN arrays' = DOMAIN arrays \ {index}
      /\ \A k \in DOMAIN arrays \ {index} : arrays'[k] = arrays[k]
  BY <1>1 DEF Restrict
<1>3. CodeCoherent => Coherent(arrays', nativeCodes')
  BY <1>1, InvariantHeap, CoherentIff, DestroyCoherent
<1>4. LinkedCopiesAgree => LinkAgrees(arrays', array0Source')
  BY <1>1, <1>2 DEF LinkAgrees, LinkedCopiesAgree
<1>5. QED BY <1>3, <1>4

\* Giving code back to an array it is the code of keeps the heap coherent.
LEMMA GivenBackCoherent ==
  ASSUME InductiveInvariant, CodeCoherent, 0 \in DOMAIN arrays,
         GivesBack => arrays[0].platters = arrays[array0Source].platters
  PROVE  Coherent(GivenBack, nativeCodes)
<1>1. CASE ~GivesBack
  BY <1>1, CoherentIff DEF GivenBack
<1>2. CASE GivesBack
  <2> DEFINE x == array0Source
  <2>1. /\ x \in DOMAIN arrays \ {0} /\ ~arrays[0].dirty /\ ~arrays[x].dirty
        /\ arrays[x].size = arrays[0].size
        /\ arrays[0].platters = arrays[x].platters
    BY <1>2, InvariantHeap DEF GivesBack, SourceLink
  <2>2. GivenBack = [arrays EXCEPT
                       ![x] = [@ EXCEPT !.nativeCode = arrays[0].nativeCode],
                       ![0] = [@ EXCEPT !.nativeCode = NoCode]]
    BY <1>2 DEF GivenBack
  <2>3. Sound(arrays, nativeCodes) /\ Coherent(arrays, nativeCodes)
    BY InvariantHeap, CoherentIff
  <2> HIDE DEF x
  <2>4. QED BY <2>1, <2>2, <2>3, GiveBackCoherent
<1>3. QED BY <1>1, <1>2

\* loadProgram leaves array 0 with the code of its own platters, which are those
\* of the array it was copied from; no other array's platters change.
LEMMA LoadsCoherent ==
  ASSUME InductiveInvariant, 0 \in DOMAIN arrays,
         NEW index \in DOMAIN arrays \ {0}, NEW id \in CodeIds,
         Loads(index, id)
  PROVE  /\ Coherent(GivenBack, nativeCodes) => Coherent(arrays', nativeCodes')
         /\ LinkAgrees(arrays', array0Source')
         /\ DOMAIN arrays' = DOMAIN arrays
         /\ arrays'[0].platters = arrays[index].platters
         /\ \A k \in DOMAIN arrays \ {0} :
              arrays'[k].platters = arrays[k].platters
<1> DEFINE given     == GivenBack
           source    == given[index]
           destroyed == Released(nativeCodes, given[0].nativeCode)
           rest      == Restrict(given, DOMAIN given \ {0})
           generates == source.dirty \/ source.nativeCode = NoCode
           loaded    == IF generates
                        THEN [rest EXCEPT ![index] = CleanArray(@, id)]
                        ELSE rest
<1>1. Sound(given, nativeCodes) /\ DOMAIN given = DOMAIN arrays
  BY InvariantHeap, GivenBackSound
<1>2. /\ Sound(rest, destroyed)
      /\ Coherent(given, nativeCodes) => Coherent(rest, destroyed)
  BY <1>1, DestroySound, DestroyCoherent
<1>3. /\ DOMAIN rest = DOMAIN arrays \ {0}
      /\ \A k \in DOMAIN arrays \ {0} : rest[k] = given[k]
  BY <1>1 DEF Restrict
<1>4. \/ /\ generates
         /\ id \in FreshCode(destroyed, source)
         /\ nativeCodes' = generateNativeCode(destroyed, source, id)
      \/ /\ ~generates
         /\ id = source.nativeCode
         /\ nativeCodes' = destroyed
  BY DEF Loads
<1>5. arrays' = [given EXCEPT
                   ![0] = [cloneOf(source) EXCEPT !.nativeCode = id],
                   ![index] = CleanArray(@, NoCode)]
      /\ array0Source' = index
  BY DEF Loads
<1>6. rest[index] = source /\ index \in DOMAIN rest
  BY <1>3
<1>7. \A k \in DOMAIN arrays : given[k].platters = arrays[k].platters
  BY InvariantHeap, GivenBackSound
<1>8. IsArray(source)
  BY <1>2, <1>6 DEF Sound, HeapTyped
<1> HIDE DEF given, rest, destroyed, source
<1>9. /\ Coherent(rest, destroyed) => Coherent(loaded, nativeCodes')
      /\ DOMAIN loaded = DOMAIN rest
      /\ ~loaded[index].dirty /\ loaded[index].nativeCode = id
      /\ loaded[index].size = source.size
      /\ loaded[index].platters = source.platters
      /\ \A k \in DOMAIN rest \ {index} : loaded[k] = rest[k]
  <2>1. CASE generates
    <3>1. loaded = [rest EXCEPT ![index] = CleanArray(@, id)]
      BY <2>1
    <3>2. Coherent(rest, destroyed) => Coherent(loaded, nativeCodes')
      BY <2>1, <3>1, <1>2, <1>4, <1>6, GenerateCoherent
    <3>3. loaded[index] = CleanArray(source, id)
      BY <3>1, <1>6
    <3>4. /\ loaded[index].nativeCode = id /\ loaded[index].size = source.size
          /\ loaded[index].dirty = FALSE
          /\ loaded[index].platters = source.platters
      BY <3>3, <1>8, ArrayRecord
    <3>5. DOMAIN loaded = DOMAIN rest
          /\ \A k \in DOMAIN rest \ {index} : loaded[k] = rest[k]
      BY <3>1
    <3>6. QED BY <3>2, <3>4, <3>5
  <2>2. CASE ~generates
    BY <2>2, <1>2, <1>4, <1>6
  <2>3. QED BY <2>1, <2>2
<1> HIDE DEF loaded, generates
<1>10. /\ DOMAIN arrays' = DOMAIN arrays
       /\ arrays'[0] = [cloneOf(source) EXCEPT !.nativeCode = id]
       /\ arrays'[index] = CleanArray(source, NoCode)
       /\ \A k \in DOMAIN arrays \ {0, index} : arrays'[k] = given[k]
  BY <1>1, <1>5 DEF source
<1>11. /\ arrays'[0].nativeCode = id /\ arrays'[0].size = source.size
       /\ arrays'[0].platters = source.platters
  <2>1. /\ IsArray(cloneOf(source)) /\ cloneOf(source).size = source.size
        /\ cloneOf(source).platters = source.platters
    BY <1>8, CloneRecord
  <2>2. QED BY <2>1, <1>10, MovedRecord
<1>12. /\ arrays'[index].nativeCode = NoCode
       /\ arrays'[index].platters = source.platters
  BY <1>8, <1>10, ArrayRecord
<1>13. ASSUME Coherent(given, nativeCodes) PROVE Coherent(arrays', nativeCodes')
  <2>1. /\ 0 \notin DOMAIN loaded /\ DOMAIN arrays' = DOMAIN loaded \union {0}
        /\ index \in DOMAIN loaded
    BY <1>3, <1>6, <1>9, <1>10
  <2>2. \A k \in DOMAIN loaded \ {index} : arrays'[k] = loaded[k]
    BY <1>3, <1>9, <1>10
  <2>3. Coherent(loaded, nativeCodes')
    BY <1>2, <1>9, <1>13
  <2>4. QED BY <2>1, <2>2, <2>3, <1>9, <1>11, <1>12, InstallCoherent
<1>14. LinkAgrees(arrays', array0Source')
  BY <1>5, <1>11, <1>12 DEF LinkAgrees
<1>15. source.platters = arrays[index].platters
  BY <1>7 DEF source
<1>16. \A k \in DOMAIN arrays \ {0} : arrays'[k].platters = arrays[k].platters
  BY <1>7, <1>10, <1>12, <1>15
<1>17. QED BY <1>10, <1>11, <1>13, <1>14, <1>15, <1>16 DEF given

\* The steps that change the heap, and those that do not.
LEMMA HeapSteps ==
  ASSUME Next
  PROVE  \/ Run \/ ArrayAmendment \/ RunAllocation \/ RunAbandonment
         \/ RunLoadProgram \/ RunRecompile
         \/ UNCHANGED heap
<1>1. CASE Native /\ ~ArrayAmendment
  BY <1>1
     DEF Native, SetRegister, Return, Stop,
         ConditionalMove, ArrayIndex, InvalidArrayIndex,
         InvalidArrayAmendment, Addition, Multiplication, Division,
         DivisionByZero, NotAnd, Orthography, Halt, InvalidOperator,
         Allocation, AllocationResumes, Abandonment, Output, Input,
         InputResumes, Jump, JumpPastTable, LoadProgram, OutOfBoundStub,
         RecompileStub, DanglingCode
<1>2. CASE \/ RunHalt \/ AbandonmentThrows \/ AbandonmentOfNull \/ RunOutput
           \/ RunInput \/ LoadProgramThrows
  BY <1>2 DEF Stop, RunHalt, AbandonmentThrows, AbandonmentOfNull, RunOutput,
              RunInput, LoadProgramThrows
<1>3. QED BY <1>1, <1>2 DEF Next, Handler

\* There is an array 0 to compile or to load into.
LEMMA Array0There ==
  ASSUME InductiveInvariant, Run \/ RunRecompile \/ RunLoadProgram
  PROVE  0 \in DOMAIN arrays
<1>1. CASE Run
  BY <1>1 DEF Run, InductiveInvariant
<1>2. CASE RunRecompile \/ RunLoadProgram
  BY <1>2, RequestedFacts DEF RunRecompile, RunLoadProgram
<1>3. QED BY <1>1, <1>2

\* A step that does not give back what it must not keeps the heap coherent.
LEMMA CoherenceStep ==
  ASSUME InductiveInvariant, CodeCoherent, ~StaleGiveBack, Next
  PROVE  CodeCoherent'
<1> SUFFICES Coherent(arrays', nativeCodes')
  BY DEF CodeCoherent, CellCurrent, Coherent
<1>1. CASE UNCHANGED heap
  BY <1>1, CoherentIff DEF heap
<1>2. CASE Run \/ RunRecompile
  <2>1. 0 \in DOMAIN arrays
    BY <1>2, Array0There
  <2>2. PICK id \in FreshCode(nativeCodes, arrays[0]) :
          /\ nativeCodes' = generateNativeCode(nativeCodes, arrays[0], id)
          /\ arrays' = [arrays EXCEPT ![0] = CleanArray(@, id)]
    BY <1>2 DEF Run, RunRecompile
  <2>3. QED BY <2>1, <2>2, InvariantHeap, CoherentIff, GenerateCoherent
<1>3. CASE RunLoadProgram
  <2>1. /\ Requested("loadProgram") /\ returned.value1 \in DOMAIN arrays \ {0}
        /\ \E id \in CodeIds : Loads(returned.value1, id)
    BY <1>3 DEF RunLoadProgram
  <2>2. 0 \in DOMAIN arrays
    BY <1>3, Array0There
  <2>3. Coherent(GivenBack, nativeCodes)
    BY <2>1, <2>2, GivenBackCoherent DEF StaleGiveBack
  <2>4. QED BY <2>1, <2>2, <2>3, LoadsCoherent
<1>4. QED
  BY <1>1, <1>2, <1>3, HeapSteps, AmendmentCoherent, AllocationCoherent,
     AbandonmentCoherent

\* Only compiling array 0 again while it is linked may make the copies disagree.
LEMMA LinksStep ==
  ASSUME InductiveInvariant, NothingExecuted, LinkedCopiesAgree,
         ~(Requested("recompile") /\ array0Source # 0), Next
  PROVE  LinkedCopiesAgree'
<1> SUFFICES LinkAgrees(arrays', array0Source')
  BY DEF LinkedCopiesAgree, LinkAgrees
<1>1. CASE UNCHANGED heap
  BY <1>1, LinkAgreesIff DEF heap
<1>2. CASE Run \/ RunRecompile
  <2>1. array0Source = 0 /\ array0Source' = array0Source
    BY <1>2 DEF Run, RunRecompile, NothingExecuted
  <2>2. QED BY <2>1 DEF LinkAgrees
<1>3. CASE RunLoadProgram
  <2>1. /\ returned.value1 \in DOMAIN arrays \ {0}
        /\ \E id \in CodeIds : Loads(returned.value1, id)
    BY <1>3 DEF RunLoadProgram
  <2>2. 0 \in DOMAIN arrays
    BY <1>3, Array0There
  <2>3. QED BY <2>1, <2>2, LoadsCoherent
<1>4. QED
  BY <1>1, <1>2, <1>3, HeapSteps, AmendmentCoherent, AllocationCoherent,
     AbandonmentCoherent

-----------------------------------------------------------------------------
\* The universal machine seen through the mapping.

\* The words of the instance, and what is done with them, are those of Platter.
LEMMA SamePlatters ==
  /\ UM!Register = Register /\ UM!Word = Word /\ UM!AllOnes = AllOnes
  /\ \A v : UM!decode(v) = decode(v)
  /\ \A x, y : /\ UM!WordSum(x, y) = WordSum(x, y)
               /\ UM!Product(x, y) = Product(x, y)
               /\ UM!Quotient(x, y) = Quotient(x, y)
  /\ \A z, x, y : UM!IsNotAnd(z, x, y) <=> IsNotAnd(z, x, y)
<1>1. UM!Register = Register
  BY DEF UM!Register, Register
<1>2. UM!OperatorUnit = OperatorUnit /\ UM!WordSize = WordSize
  BY DEF UM!OperatorUnit, OperatorUnit, UM!WordSize, WordSize
<1>3. UM!Word = Word /\ UM!AllOnes = AllOnes
  BY <1>2 DEF UM!Word, Word, UM!AllOnes, AllOnes
<1>4. \A v : UM!decode(v) = decode(v)
  BY <1>2 DEF UM!decode, decode, UM!OrthographyFormat, OrthographyFormat,
              UM!GeneralFormat, GeneralFormat, UM!orthography, orthography
<1>5. \A x, y : /\ UM!WordSum(x, y) = WordSum(x, y)
                /\ UM!Product(x, y) = Product(x, y)
                /\ UM!Quotient(x, y) = Quotient(x, y)
  BY <1>2 DEF UM!WordSum, WordSum, UM!Product, Product, UM!Quotient, Quotient
<1>6. \A z, x, y : UM!IsNotAnd(z, x, y) <=> IsNotAnd(z, x, y)
  BY DEF UM!IsNotAnd, IsNotAnd, UM!Bit, Bit
<1>7. QED BY <1>1, <1>3, <1>4, <1>5, <1>6

\* So are the operators' numbers.
LEMMA SameOperators ==
  /\ UM!conditionalMove = conditionalMove /\ UM!arrayIndex = arrayIndex
  /\ UM!arrayAmendment = arrayAmendment /\ UM!addition = addition
  /\ UM!multiplication = multiplication /\ UM!division = division
  /\ UM!notAnd = notAnd /\ UM!halt = halt /\ UM!allocation = allocation
  /\ UM!abandonment = abandonment /\ UM!output = output /\ UM!input = input
  /\ UM!loadProgram = loadProgram /\ UM!orthography = orthography
  /\ UM!invalidOperators = invalidOperators
BY DEF UM!conditionalMove, conditionalMove, UM!arrayIndex, arrayIndex,
       UM!arrayAmendment, arrayAmendment, UM!addition, addition,
       UM!multiplication, multiplication, UM!division, division,
       UM!notAnd, notAnd, UM!halt, halt, UM!allocation, allocation,
       UM!abandonment, abandonment, UM!output, output, UM!input, input,
       UM!loadProgram, loadProgram, UM!orthography, orthography,
       UM!invalidOperators, invalidOperators

\* While native code is at the first byte of a platter.
LEMMA MappedAtPlatter ==
  status = "running" /\ 0 \in DOMAIN arrays
  /\ returned = NotReturned /\ resumeAt.offset = 0 =>
    /\ mappedFinger = resumeAt.platter
    /\ mappedRegisters = registers
    /\ mappedStatus = "running"
BY DEF mappedFinger, mappedRegisters, mappedStatus

\* The same in the next state.
LEMMA MappedAtPlatterPrimed ==
  ASSUME status' = "running", 0 \in DOMAIN arrays',
         returned' = NotReturned, resumeAt'.offset = 0
  PROVE  /\ mappedFinger' = resumeAt'.platter
         /\ mappedRegisters' = registers'
         /\ mappedStatus' = "running"
BY DEF mappedFinger, mappedRegisters, mappedStatus

\* While a request is pending, and after run() has ended.
LEMMA MappedPending ==
  status # "constructed" /\ 0 \in DOMAIN arrays /\ returned # NotReturned =>
    /\ mappedFinger = IF resumeAt.offset = 0 THEN resumeAt.platter - 1
                                             ELSE resumeAt.platter
    /\ mappedRegisters = registers
    /\ mappedStatus = IF status \in {"invalidArrayIndex", "undefined", "trapped"}
                      THEN "failed" ELSE status
BY DEF mappedFinger, mappedRegisters, mappedStatus, Executing

\* The same in the next state.
LEMMA MappedPendingPrimed ==
  ASSUME status' # "constructed", 0 \in DOMAIN arrays', returned' # NotReturned
  PROVE  /\ mappedFinger' = IF resumeAt'.offset = 0 THEN resumeAt'.platter - 1
                                                    ELSE resumeAt'.platter
         /\ mappedRegisters' = registers'
         /\ mappedStatus' =
              IF status' \in {"invalidArrayIndex", "undefined", "trapped"}
              THEN "failed" ELSE status'
BY DEF mappedFinger, mappedRegisters, mappedStatus, Executing

\* An index and an offset are allocated in the one sense and in the other.
LEMMA MappedAllocated ==
  ASSUME SafeInvariant
  PROVE  /\ DOMAIN mappedArrays = DOMAIN arrays
         /\ \A i \in DOMAIN arrays :
              /\ mappedArrays[i] = arrays[i].platters
              /\ DOMAIN mappedArrays[i] = 0 .. arrays[i].size - 1
         /\ \A i, j \in Word :
              UM!Allocated(i, j) <=> i \in DOMAIN arrays /\ j < arrays[i].size
<1>1. \A i \in DOMAIN arrays : IsArray(arrays[i])
  BY HeapFacts
<1>2. /\ DOMAIN mappedArrays = DOMAIN arrays
      /\ \A i \in DOMAIN arrays : mappedArrays[i] = arrays[i].platters
  BY DEF mappedArrays
<1>3. \A i \in DOMAIN arrays : DOMAIN mappedArrays[i] = 0 .. arrays[i].size - 1
  BY <1>1, <1>2 DEF IsArray, ArrayOf
<1>4. \A i, j \in Word :
        UM!Allocated(i, j) <=> i \in DOMAIN arrays /\ j < arrays[i].size
  BY <1>1, <1>2, <1>3, WordSizes DEF UM!Allocated, Word, IsArray
<1>5. QED BY <1>2, <1>3, <1>4

\* The universal machine fetches the platter the mapped finger is at.
LEMMA FetchesHeld ==
  ASSUME SafeInvariant, 0 \in DOMAIN arrays, mappedStatus = "running",
         NEW op, Holds(mappedFinger, op)
  PROVE  /\ UM!Does(op)
         /\ UM!a = Finger.A /\ UM!b = Finger.B /\ UM!c = Finger.C
         /\ UM!Fetched = Finger
         /\ Finger.A \in Register /\ Finger.B \in Register
         /\ Finger.C \in Register /\ Finger.value \in Word
<1>1. /\ mappedArrays[0] = arrays[0].platters
      /\ DOMAIN mappedArrays[0] = 0 .. arrays[0].size - 1
  BY MappedAllocated
<1>2. UM!Fetched = Finger
  BY <1>1, SamePlatters DEF UM!Fetched, Finger
<1>3. UM!Fetchable
  BY <1>1 DEF UM!Fetchable, UM!Running, Holds
<1>4. UM!Does(op)
  BY <1>2, <1>3 DEF UM!Does, Holds, Finger
<1>5. UM!a = Finger.A /\ UM!b = Finger.B /\ UM!c = Finger.C
  BY <1>2 DEF UM!a, UM!b, UM!c
<1>6. arrays[0].platters[mappedFinger] \in Word
  <2>1. IsArray(arrays[0])
    BY HeapFacts
  <2>2. QED BY <2>1 DEF Holds, IsArray, ArrayOf
<1>7. QED BY <1>2, <1>4, <1>5, <1>6, DecodeType DEF Finger

\* What native code executes is what the universal machine fetches.
LEMMA ExecutesMapped ==
  ASSUME SafeInvariant, NEW op, Executes(op)
  PROVE  /\ UM!Does(op)
         /\ UM!a = A /\ UM!b = B /\ UM!c = C /\ UM!Fetched.value = value
         /\ mappedFinger = resumeAt.platter /\ mappedRegisters = registers
         /\ mappedStatus = "running"
         /\ Cell = arrays[0].platters[resumeAt.platter]
         /\ Holds(resumeAt.platter, op)
<1>1. AtPlatter /\ resumeAt.offset = 0 /\ Cell # Stub /\ decode(Cell).op = op
  BY DEF Executes
<1>2. /\ status = "running" /\ returned = NotReturned /\ 0 \in DOMAIN arrays
      /\ jumpTable = arrays[0].nativeCode /\ jumpTable # NoCode
      /\ resumeAt.block = jumpTable
      /\ resumeAt.platter \in 0 .. arrays[0].size - 1
  BY <1>1, HeapFacts, AtPlatterFacts
<1>3. Cell = arrays[0].platters[resumeAt.platter]
  BY <1>1, <1>2, HeapFacts DEF Coherent, Cell, Block
<1>4. /\ mappedFinger = resumeAt.platter /\ mappedRegisters = registers
      /\ mappedStatus = "running"
  BY <1>1, <1>2, MappedAtPlatter
<1>5. Holds(resumeAt.platter, op)
  BY <1>1, <1>2, <1>3 DEF Holds
<1>6. /\ UM!Does(op)
      /\ UM!a = Finger.A /\ UM!b = Finger.B /\ UM!c = Finger.C
      /\ UM!Fetched = Finger
  BY <1>2, <1>4, <1>5, FetchesHeld
<1>7. Finger = decode(Cell)
  BY <1>3, <1>4 DEF Finger
<1>8. QED BY <1>3, <1>4, <1>5, <1>6, <1>7 DEF A, B, C, value

-----------------------------------------------------------------------------
\* Native code: each platter is a step of the universal machine, or asks for
\* one.

\* With nothing pending and nothing in eax there is nothing to agree on.
LEMMA NothingPending ==
  ASSUME \/ status' # "running"
         \/ returned' = NotReturned /\ resumeAt'.offset = 0
  PROVE  PendingAgrees' /\ AnswerAgrees'
BY DEF PendingAgrees, AnswerAgrees, Requested, Executing, NotReturned

\* A platter that only sets a register sets it there as well.
LEMMA AssignStep ==
  ASSUME SafeInvariant, NEW op, Executes(op), NEW r, NEW v, SetRegister(r, v)
  PROVE  UM!Assign(r, v) /\ PendingAgrees' /\ AnswerAgrees'
<1> USE DEF SetRegister, heap, io, locals
<1>1. /\ mappedFinger = resumeAt.platter /\ mappedRegisters = registers
      /\ mappedStatus = "running"
  BY ExecutesMapped
<1>2. /\ status = "running" /\ returned = NotReturned /\ 0 \in DOMAIN arrays
  BY HeapFacts, AtPlatterFacts DEF Executes
<1>3. resumeAt'.offset = 0 /\ resumeAt'.platter = resumeAt.platter + 1
  BY DEF NextPlatter, AddressOf
<1>4. /\ mappedFinger' = resumeAt'.platter /\ mappedRegisters' = registers'
      /\ mappedStatus' = "running"
  BY <1>2, <1>3, MappedAtPlatterPrimed
<1>5. mappedArrays' = mappedArrays
  BY DEF mappedArrays
<1>6. UM!Assign(r, v)
  BY <1>1, <1>3, <1>4, <1>5 DEF UM!Assign
<1>7. QED BY <1>2, <1>3, <1>6, NothingPending

\* A platter that returns a request leaves the finger where it is.
LEMMA AskStep ==
  ASSUME SafeInvariant, NEW op, Executes(op), NEW code, code # "none",
         NEW v1, NEW v2, NEW address, Return(code, v1, v2, address),
         \/ address = NextPlatter
         \/ \E n \in Nat \ {0} : address = [resumeAt EXCEPT !.offset = n]
  PROVE  /\ UNCHANGED UM!vars
         /\ Holds(mappedFinger, op)'
         /\ Finger' = decode(Cell)
         /\ registers' = registers
         /\ resumeAt' = address
         /\ returned' = [code |-> code, value1 |-> v1, value2 |-> v2]
         /\ \/ resumeAt'.offset = 0 /\ address = NextPlatter
            \/ Cell' = Cell /\ InsideIntactPlatter'
         /\ ~Executing'
<1> USE DEF Return, heap, io, locals
<1>1. /\ mappedFinger = resumeAt.platter /\ mappedRegisters = registers
      /\ mappedStatus = "running" /\ Holds(resumeAt.platter, op)
      /\ Cell = arrays[0].platters[resumeAt.platter]
  BY ExecutesMapped
<1>2. /\ status = "running" /\ returned = NotReturned /\ 0 \in DOMAIN arrays
      /\ resumeAt.platter \in Nat
  BY HeapFacts, AtPlatterFacts, InvariantParts DEF Executes, LocalsTyped
<1>3. returned' # NotReturned
  BY DEF NotReturned
<1>4. \/ address = NextPlatter /\ address.offset = 0
         /\ address.platter = resumeAt.platter + 1
      \/ /\ address.offset # 0 /\ address.platter = resumeAt.platter
         /\ address.block = resumeAt.block
  <2>1. resumeAt \in [ block : CodeIds \union {NoCode}, platter : Nat,
                       offset : Nat ]
    BY HeapFacts, InvariantParts DEF LocalsTyped
  <2>2. QED BY <2>1 DEF NextPlatter, AddressOf
<1>5. mappedFinger' = resumeAt.platter
  <2>1. mappedFinger' = IF resumeAt'.offset = 0 THEN resumeAt'.platter - 1
                                                ELSE resumeAt'.platter
    BY <1>2, <1>3, MappedPendingPrimed
  <2>2. QED BY <1>2, <1>4, <2>1
<1>6. mappedRegisters' = registers' /\ mappedStatus' = "running"
  BY <1>2, <1>3, MappedPendingPrimed
<1>7. mappedArrays' = mappedArrays
  BY DEF mappedArrays
<1>8. UNCHANGED UM!vars
  BY <1>1, <1>5, <1>6, <1>7 DEF UM!vars
<1>9. Holds(mappedFinger, op)' /\ Finger' = decode(Cell)
  BY <1>1, <1>5 DEF Holds, Finger
<1>10. \/ resumeAt'.offset = 0 /\ address = NextPlatter
       \/ Cell' = Cell /\ InsideIntactPlatter'
  <2>1. ASSUME address.offset # 0, address.platter = resumeAt.platter,
               address.block = resumeAt.block
        PROVE  Cell' = Cell /\ InsideIntactPlatter'
    <3>1. Cell' = Cell
      BY <2>1 DEF Cell, Block
    <3>2. QED BY <1>1, <2>1, <3>1 DEF InsideIntactPlatter
  <2>2. QED BY <1>4, <2>1
<1>11. ~Executing'
  BY <1>3 DEF Executing
<1>12. QED BY <1>8, <1>9, <1>10, <1>11

\* What has to be shown of every step.
Simulated == [UM!Next]_(UM!vars) /\ PendingAgrees' /\ AnswerAgrees'

\* Where the universal machine defines no outcome the context may do anything.
LEMMA FailStep ==
  ASSUME UM!Undefined,
         status' \in {"invalidArrayIndex", "undefined", "trapped"}
  PROVE  Simulated
<1>1. mappedStatus' = "failed"
  BY DEF mappedStatus
<1>2. UM!Next
  BY <1>1 DEF UM!Next, UM!Fail
<1>3. QED BY <1>2, NothingPending DEF Simulated

\* Conditional move, arithmetic and orthography.
LEMMA ArithmeticRefines ==
  ASSUME SafeInvariant,
         \/ ConditionalMove \/ Addition \/ Multiplication \/ Division
         \/ NotAnd \/ Orthography
  PROVE  Simulated
<1> USE SameOperators, SamePlatters, ExecutesMapped, AssignStep
<1>1. CASE ConditionalMove
  <2> DEFINE v == IF registers[C] # 0 THEN registers[B] ELSE registers[A]
  <2>1. Executes(conditionalMove) /\ SetRegister(A, v)
    BY <1>1 DEF ConditionalMove
  <2>2. v = IF mappedRegisters[UM!c] # 0 THEN mappedRegisters[UM!b]
                                         ELSE mappedRegisters[UM!a]
    BY <2>1
  <2> HIDE DEF v
  <2>3. UM!Assign(A, v) /\ PendingAgrees' /\ AnswerAgrees'
    BY <2>1
  <2>4. UM!Does(UM!conditionalMove) /\ UM!a = A
    BY <2>1
  <2>5. UM!ConditionalMove
    BY <2>2, <2>3, <2>4 DEF UM!ConditionalMove
  <2>6. QED BY <2>3, <2>5 DEF Simulated, UM!Next
<1>2. CASE Addition
  <2> DEFINE v == WordSum(registers[B], registers[C])
  <2>1. Executes(addition) /\ SetRegister(A, v)
    BY <1>2 DEF Addition
  <2>2. v = UM!WordSum(mappedRegisters[UM!b], mappedRegisters[UM!c])
    BY <2>1
  <2> HIDE DEF v
  <2>3. UM!Assign(A, v) /\ PendingAgrees' /\ AnswerAgrees'
    BY <2>1
  <2>4. UM!Does(UM!addition) /\ UM!a = A
    BY <2>1
  <2>5. UM!Arithmetic
    BY <2>2, <2>3, <2>4 DEF UM!Arithmetic
  <2>6. QED BY <2>3, <2>5 DEF Simulated, UM!Next
<1>3. CASE Multiplication
  <2> DEFINE v == Product(registers[B], registers[C])
  <2>1. Executes(multiplication) /\ SetRegister(A, v)
    BY <1>3 DEF Multiplication
  <2>2. v = UM!Product(mappedRegisters[UM!b], mappedRegisters[UM!c])
    BY <2>1
  <2> HIDE DEF v
  <2>3. UM!Assign(A, v) /\ PendingAgrees' /\ AnswerAgrees'
    BY <2>1
  <2>4. UM!Does(UM!multiplication) /\ UM!a = A
    BY <2>1
  <2>5. UM!Arithmetic
    BY <2>2, <2>3, <2>4 DEF UM!Arithmetic
  <2>6. QED BY <2>3, <2>5 DEF Simulated, UM!Next
<1>4. CASE Division
  <2> DEFINE v == Quotient(registers[B], registers[C])
  <2>1. Executes(division) /\ registers[C] # 0 /\ SetRegister(A, v)
    BY <1>4 DEF Division
  <2>2. /\ v = UM!Quotient(mappedRegisters[UM!b], mappedRegisters[UM!c])
        /\ mappedRegisters[UM!c] # 0
    BY <2>1
  <2> HIDE DEF v
  <2>3. UM!Assign(A, v) /\ PendingAgrees' /\ AnswerAgrees'
    BY <2>1
  <2>4. UM!Does(UM!division) /\ UM!a = A
    BY <2>1
  <2>5. UM!Arithmetic
    BY <2>2, <2>3, <2>4 DEF UM!Arithmetic
  <2>6. QED BY <2>3, <2>5 DEF Simulated, UM!Next
<1>5. CASE NotAnd
  <2>1. Executes(notAnd)
    BY <1>5 DEF NotAnd
  <2>2. PICK v \in Word : /\ IsNotAnd(v, registers[B], registers[C])
                          /\ SetRegister(A, v)
    BY <1>5 DEF NotAnd
  <2>3. UM!Assign(A, v) /\ PendingAgrees' /\ AnswerAgrees'
    BY <2>1, <2>2
  <2>4. /\ UM!Does(UM!notAnd) /\ UM!a = A /\ v \in UM!Word
        /\ UM!IsNotAnd(v, mappedRegisters[UM!b], mappedRegisters[UM!c])
    BY <2>1, <2>2
  <2>5. UM!Arithmetic
    BY <2>3, <2>4 DEF UM!Arithmetic
  <2>6. QED BY <2>3, <2>5 DEF Simulated, UM!Next
<1>6. CASE Orthography
  <2>1. Executes(orthography) /\ SetRegister(A, value)
    BY <1>6 DEF Orthography
  <2>2. UM!Assign(A, value) /\ PendingAgrees' /\ AnswerAgrees'
    BY <2>1
  <2>3. UM!Does(UM!orthography) /\ UM!a = A /\ UM!Fetched.value = value
    BY <2>1
  <2>4. UM!Orthography
    BY <2>2, <2>3 DEF UM!Orthography
  <2>5. QED BY <2>2, <2>4 DEF Simulated, UM!Next
<1>7. QED BY <1>1, <1>2, <1>3, <1>4, <1>5, <1>6

\* Storing the answer: the universal machine has it in the register already.
LEMMA ResumesRefines ==
  ASSUME SafeInvariant, AllocationResumes \/ InputResumes
  PROVE  Simulated
<1> USE DEF SetRegister, heap, io, locals
<1>1. AtPlatter /\ resumeAt.offset # 0
  BY DEF AllocationResumes, InputResumes, Resumes
<1>2. /\ status = "running" /\ returned = NotReturned /\ 0 \in DOMAIN arrays
  BY <1>1, HeapFacts, AtPlatterFacts
<1>3. /\ registers' = [registers EXCEPT ![Destination] = eaxValue]
      /\ resumeAt' = NextPlatter
      /\ UNCHANGED << heap, io, locals, returned, status >>
  BY DEF AllocationResumes, InputResumes, Resumes, Destination,
         allocation, input
<1>4. mappedFinger = resumeAt.platter + 1 /\ mappedRegisters = registers'
      /\ mappedStatus = "running"
  BY <1>1, <1>2, <1>3
     DEF mappedFinger, mappedRegisters, mappedStatus, Executing
<1>5. resumeAt'.offset = 0 /\ resumeAt'.platter = resumeAt.platter + 1
  BY <1>3 DEF NextPlatter, AddressOf
<1>6. /\ mappedFinger' = resumeAt'.platter /\ mappedRegisters' = registers'
      /\ mappedStatus' = "running"
  BY <1>2, <1>3, <1>5, MappedAtPlatterPrimed
<1>7. mappedArrays' = mappedArrays
  BY <1>3 DEF mappedArrays
<1>8. UNCHANGED UM!vars
  BY <1>3, <1>4, <1>5, <1>6, <1>7 DEF UM!vars
<1>9. QED BY <1>2, <1>3, <1>5, <1>8, NothingPending DEF Simulated

\* What native code can address is what is allocated, and the jump table has an
\* entry for every platter of array 0.
LEMMA AddressableMapped ==
  ASSUME SafeInvariant, NEW op, Executes(op)
  PROVE  /\ \A i, j \in Word : Addressable(i, j) <=> UM!Allocated(i, j)
         /\ \A j \in Word : Patchable(j) <=> UM!Allocated(0, j)
<1>1. AtPlatter
  BY DEF Executes
<1>2. /\ 0 \in DOMAIN arrays /\ jumpTable \in DOMAIN nativeCodes
      /\ resumeAt.block = jumpTable
      /\ Block.size = arrays[0].size
  BY <1>1, HeapFacts, AtPlatterFacts
<1>3. arraysPtr = capacity
  BY <1>1, HeapFacts, InvariantParts
     DEF AtPlatter, Executing, ControlInvariant, RunLocalsFresh
<1>4. 0 \in Word
  BY WordSizes DEF Word
<1>5. QED
  BY <1>2, <1>3, <1>4, MappedAllocated DEF Addressable, Patchable, Block

\* Reading an array.
LEMMA ArrayIndexRefines ==
  ASSUME SafeInvariant, ArrayIndex \/ InvalidArrayIndex
  PROVE  Simulated
<1> DEFINE i == registers[B]
           j == registers[C]
           v == arrays[i].platters[j]
<1>1. Executes(arrayIndex)
  BY DEF ArrayIndex, InvalidArrayIndex
<1>2. i \in Word /\ j \in Word
  BY <1>1, HeapFacts, ExecutesFacts
<1>3. /\ UM!Does(UM!arrayIndex) /\ UM!a = A
      /\ mappedRegisters[UM!b] = i /\ mappedRegisters[UM!c] = j
  BY <1>1, ExecutesMapped, SameOperators
<1>4. Addressable(i, j) <=> UM!Allocated(i, j)
  BY <1>1, <1>2, AddressableMapped
<1>5. CASE ArrayIndex
  <2>1. Addressable(i, j) /\ SetRegister(A, v)
    BY <1>5 DEF ArrayIndex
  <2>2. v = mappedArrays[i][j]
    BY <2>1, MappedAllocated DEF Addressable
  <2> HIDE DEF i, j, v
  <2>3. UM!Assign(A, v) /\ PendingAgrees' /\ AnswerAgrees'
    BY <1>1, <2>1, AssignStep
  <2>4. UM!ArrayIndex
    BY <1>3, <1>4, <2>1, <2>2, <2>3 DEF UM!ArrayIndex
  <2>5. QED BY <2>3, <2>4 DEF Simulated, UM!Next
<1>6. CASE InvalidArrayIndex
  <2>1. ~Addressable(i, j) /\ status' = "undefined"
    BY <1>6 DEF InvalidArrayIndex, Stop
  <2> HIDE DEF i, j
  <2>2. UM!Undefined
    BY <1>3, <1>4, <2>1 DEF UM!Undefined
  <2>3. QED BY <2>1, <2>2, FailStep
<1>7. QED BY <1>5, <1>6

\* Storing to an array, array 0 included: the stub is of no account.
LEMMA ArrayAmendmentRefines ==
  ASSUME SafeInvariant, ArrayAmendment \/ InvalidArrayAmendment
  PROVE  Simulated
<1> DEFINE i == registers[A]
           j == registers[B]
           v == registers[C]
<1>1. Executes(arrayAmendment)
  BY DEF ArrayAmendment, InvalidArrayAmendment
<1>2. i \in Word /\ j \in Word
  BY <1>1, HeapFacts, ExecutesFacts
<1>3. /\ UM!Does(UM!arrayAmendment) /\ mappedFinger = resumeAt.platter
      /\ mappedRegisters = registers /\ mappedRegisters[UM!a] = i
      /\ mappedRegisters[UM!b] = j /\ mappedRegisters[UM!c] = v
      /\ mappedStatus = "running"
  BY <1>1, ExecutesMapped, SameOperators
<1>4. Amendable <=> UM!Allocated(i, j)
  BY <1>1, <1>2, AddressableMapped DEF Amendable
<1>5. CASE ArrayAmendment
  <2>1. /\ Amendable
        /\ arrays' = [arrays EXCEPT ![i] = Amended(@, j, v)]
        /\ resumeAt' = NextPlatter
        /\ UNCHANGED << registers, io, returned, status >>
    BY <1>5 DEF ArrayAmendment
  <2>2. /\ status = "running" /\ returned = NotReturned /\ 0 \in DOMAIN arrays
    BY <1>1, HeapFacts, AtPlatterFacts DEF Executes
  <2>3. resumeAt'.offset = 0 /\ resumeAt'.platter = resumeAt.platter + 1
    BY <2>1 DEF NextPlatter, AddressOf
  <2>4. i \in DOMAIN arrays
    BY <2>1 DEF Amendable, Addressable
  <2> HIDE DEF i, j, v
  <2>5. /\ mappedFinger' = resumeAt'.platter /\ mappedRegisters' = registers'
        /\ mappedStatus' = "running"
    BY <2>1, <2>2, <2>3, MappedAtPlatterPrimed
  <2>6. mappedArrays' = [mappedArrays EXCEPT ![i][j] = v]
    <3>1. IsArray(arrays[i])
      BY <2>4, HeapFacts
    <3>2. Amended(arrays[i], j, v).platters = [arrays[i].platters EXCEPT ![j] = v]
      BY <3>1 DEF Amended, IsArray, ArrayOf
    <3>3. QED BY <2>1, <2>4, <3>2 DEF mappedArrays
  <2>7. UM!ArrayAmendment
    BY <1>3, <1>4, <2>1, <2>3, <2>5, <2>6 DEF UM!ArrayAmendment, io
  <2>8. PendingAgrees' /\ AnswerAgrees'
    BY <2>1, <2>2, <2>3, NothingPending
  <2>9. QED BY <2>7, <2>8 DEF Simulated, UM!Next
<1>6. CASE InvalidArrayAmendment
  <2>1. ~Amendable /\ status' = "undefined"
    BY <1>6 DEF InvalidArrayAmendment, Stop
  <2> HIDE DEF i, j
  <2>2. UM!Undefined
    BY <1>3, <1>4, <2>1 DEF UM!Undefined
  <2>3. QED BY <2>1, <2>2, FailStep
<1>7. QED BY <1>5, <1>6

\* Division by zero, which is also the processor's.
LEMMA DivisionByZeroRefines ==
  ASSUME SafeInvariant, DivisionByZero
  PROVE  Simulated
<1>1. Executes(division) /\ registers[C] = 0 /\ status' = "trapped"
  BY DEF DivisionByZero, Stop
<1>2. UM!Does(UM!division) /\ mappedRegisters[UM!c] = 0
  BY <1>1, ExecutesMapped, SameOperators
<1>3. UM!Undefined
  BY <1>2 DEF UM!Undefined
<1>4. QED BY <1>1, <1>3, FailStep

\* A load from array 0 is a jump.
LEMMA JumpRefines ==
  ASSUME SafeInvariant, Jump \/ JumpPastTable
  PROVE  Simulated
<1> DEFINE j == registers[C]
<1>1. Executes(loadProgram) /\ registers[B] = 0
  BY DEF Jump, JumpPastTable
<1>2. j \in Word
  BY <1>1, HeapFacts, ExecutesFacts
<1>3. /\ UM!Does(UM!loadProgram) /\ mappedRegisters = registers
      /\ mappedRegisters[UM!b] = 0 /\ mappedRegisters[UM!c] = j
      /\ mappedStatus = "running"
  BY <1>1, ExecutesMapped, SameOperators
<1>4. Patchable(j) <=> UM!Allocated(0, j)
  BY <1>1, <1>2, AddressableMapped
<1>5. CASE Jump
  <2>1. /\ Patchable(j) /\ resumeAt' = AddressOf(jumpTable, j)
        /\ UNCHANGED << registers, heap, io, returned, status >>
    BY <1>5 DEF Jump
  <2>2. status = "running" /\ returned = NotReturned /\ 0 \in DOMAIN arrays
    BY <1>1, HeapFacts, AtPlatterFacts DEF Executes
  <2>3. resumeAt'.offset = 0 /\ resumeAt'.platter = j
    BY <2>1 DEF AddressOf
  <2> HIDE DEF j
  <2>4. UNCHANGED << arrays, registers, eof, os, returned, status >>
    BY <2>1 DEF heap, io
  <2>5. /\ mappedFinger' = j /\ mappedRegisters' = registers'
        /\ mappedStatus' = "running"
    BY <2>2, <2>3, <2>4, MappedAtPlatterPrimed
  <2>6. mappedArrays' = [mappedArrays EXCEPT ![0] = mappedArrays[0]]
    BY <2>2, <2>4 DEF mappedArrays
  <2>7. UM!LoadProgram
    BY <1>3, <1>4, <2>1, <2>4, <2>5, <2>6 DEF UM!LoadProgram
  <2>8. PendingAgrees' /\ AnswerAgrees'
    BY <2>2, <2>3, <2>4, NothingPending
  <2>9. QED BY <2>7, <2>8 DEF Simulated, UM!Next
<1>6. CASE JumpPastTable
  <2>1. ~Patchable(j) /\ status' = "undefined"
    BY <1>6 DEF JumpPastTable, Stop
  <2> HIDE DEF j
  <2>2. UM!Undefined
    BY <1>3, <1>4, <2>1 DEF UM!Undefined
  <2>3. QED BY <2>1, <2>2, FailStep
<1>7. QED BY <1>5, <1>6


\* A platter asks at its very end and returns to the next, or asks inside its
\* code and returns there.
LEMMA AddressesDiffer ==
  ASSUME SafeInvariant, NEW n \in Nat \ {0}
  PROVE  /\ NextPlatter.offset = 0
         /\ [resumeAt EXCEPT !.offset = n].offset = n
         /\ [resumeAt EXCEPT !.offset = n] # NextPlatter
<1>1. NextPlatter.offset = 0
  BY DEF NextPlatter, AddressOf
<1>2. resumeAt \in [ block : CodeIds \union {NoCode}, platter : Nat,
                     offset : Nat ]
  BY HeapFacts, InvariantParts DEF LocalsTyped
<1>3. [resumeAt EXCEPT !.offset = n].offset = n
  BY <1>2
<1>4. QED BY <1>1, <1>3

\* A request leaves the universal machine where it is, and agrees with the
\* platter that makes it.
LEMMA RequestRefines ==
  ASSUME SafeInvariant,
         \/ Halt \/ InvalidOperator \/ Allocation \/ Abandonment
         \/ Output \/ Input \/ LoadProgram
  PROVE  Simulated
<1>0. /\ allocationReturn \in Nat \ {0} /\ inputReturn \in Nat \ {0}
  BY DEF allocationReturn, inputReturn
<1>1. NextPlatter.offset = 0
  BY <1>0, AddressesDiffer
<1>2. ASSUME NEW op, Executes(op), NEW code, code # "none", NEW v1, NEW v2,
             Return(code, v1, v2, NextPlatter)
      PROVE  /\ UNCHANGED UM!vars /\ AnswerAgrees'
             /\ Holds(mappedFinger, op)' /\ resumeAt'.offset = 0
             /\ returned' = [code |-> code, value1 |-> v1, value2 |-> v2]
             /\ registers'[Finger'.B] = registers[B]
             /\ registers'[Finger'.C] = registers[C]
  <2>1. /\ UNCHANGED UM!vars
        /\ Holds(mappedFinger, op)'
        /\ Finger' = decode(Cell) /\ registers' = registers
        /\ resumeAt' = NextPlatter
        /\ returned' = [code |-> code, value1 |-> v1, value2 |-> v2]
        /\ ~Executing'
    BY <1>2, AskStep
  <2>2. QED BY <1>1, <2>1 DEF AnswerAgrees, B, C
<1>3. ASSUME NEW op, Executes(op), NEW code, code # "none", NEW v1, NEW v2,
             NEW n \in Nat \ {0},
             Return(code, v1, v2, [resumeAt EXCEPT !.offset = n])
      PROVE  /\ UNCHANGED UM!vars /\ AnswerAgrees'
             /\ Holds(mappedFinger, op)' /\ InsideIntactPlatter'
             /\ returned' = [code |-> code, value1 |-> v1, value2 |-> v2]
             /\ registers'[Finger'.C] = registers[C]
  <2> DEFINE address == [resumeAt EXCEPT !.offset = n]
  <2>1. address # NextPlatter
    BY AddressesDiffer
  <2>2. \E m \in Nat \ {0} : address = [resumeAt EXCEPT !.offset = m]
    OBVIOUS
  <2>3. Return(code, v1, v2, address)
    BY <1>3
  <2> HIDE DEF address
  <2>4. /\ UNCHANGED UM!vars
        /\ Holds(mappedFinger, op)'
        /\ Finger' = decode(Cell) /\ registers' = registers
        /\ returned' = [code |-> code, value1 |-> v1, value2 |-> v2]
        /\ InsideIntactPlatter'
        /\ ~Executing'
    BY <1>3, <2>1, <2>2, <2>3, AskStep
  <2>5. QED BY <2>4 DEF AnswerAgrees, C
<1>4. CASE Halt
  <2>1. Executes(halt) /\ Return("halt", normalTermination, 0, NextPlatter)
    BY <1>4 DEF Halt
  <2>2. /\ UNCHANGED UM!vars /\ AnswerAgrees'
        /\ Holds(mappedFinger, halt)' /\ resumeAt'.offset = 0
        /\ returned'.code = "halt" /\ returned'.value1 = normalTermination
    BY <1>2, <2>1
  <2>3. QED BY <2>2 DEF Simulated, PendingAgrees, Requested
<1>5. CASE InvalidOperator
  <2>1. PICK op \in invalidOperators : Executes(op)
    BY <1>5 DEF InvalidOperator
  <2>2. Return("halt", invalidOperator, Cell, NextPlatter)
    BY <1>5 DEF InvalidOperator
  <2>3. /\ UNCHANGED UM!vars /\ AnswerAgrees'
        /\ Holds(mappedFinger, op)' /\ resumeAt'.offset = 0
        /\ returned'.code = "halt" /\ returned'.value1 = invalidOperator
    BY <1>2, <2>1, <2>2
  <2>4. QED BY <2>3 DEF Simulated, PendingAgrees, Requested
<1>6. CASE Allocation
  <2>1. /\ Executes(allocation)
        /\ Return("allocation", registers[C], 0,
                  [resumeAt EXCEPT !.offset = allocationReturn])
    BY <1>6 DEF Allocation
  <2>2. /\ UNCHANGED UM!vars /\ AnswerAgrees'
        /\ Holds(mappedFinger, allocation)' /\ InsideIntactPlatter'
        /\ returned'.code = "allocation"
        /\ returned'.value1 = registers'[Finger'.C]
    BY <1>0, <1>3, <2>1
  <2>3. QED BY <2>2 DEF Simulated, PendingAgrees, Requested
<1>7. CASE Abandonment
  <2>1. /\ Executes(abandonment)
        /\ Return("abandonment", registers[C], 0, NextPlatter)
    BY <1>7 DEF Abandonment
  <2>2. /\ UNCHANGED UM!vars /\ AnswerAgrees'
        /\ Holds(mappedFinger, abandonment)' /\ resumeAt'.offset = 0
        /\ returned'.code = "abandonment"
        /\ returned'.value1 = registers'[Finger'.C]
    BY <1>2, <2>1
  <2>3. QED BY <2>2 DEF Simulated, PendingAgrees, Requested
<1>8. CASE Output
  <2>1. Executes(output) /\ Return("output", registers[C], 0, NextPlatter)
    BY <1>8 DEF Output
  <2>2. /\ UNCHANGED UM!vars /\ AnswerAgrees'
        /\ Holds(mappedFinger, output)' /\ resumeAt'.offset = 0
        /\ returned'.code = "output"
        /\ returned'.value1 = registers'[Finger'.C]
    BY <1>2, <2>1
  <2>3. QED BY <2>2 DEF Simulated, PendingAgrees, Requested
<1>9. CASE Input
  <2>1. /\ Executes(input)
        /\ Return("input", 0, 0, [resumeAt EXCEPT !.offset = inputReturn])
    BY <1>9 DEF Input
  <2>2. /\ UNCHANGED UM!vars /\ AnswerAgrees'
        /\ Holds(mappedFinger, input)' /\ InsideIntactPlatter'
        /\ returned'.code = "input"
    BY <1>0, <1>3, <2>1
  <2>3. QED BY <2>2 DEF Simulated, PendingAgrees, Requested
<1>10. CASE LoadProgram
  <2>1. /\ Executes(loadProgram) /\ registers[B] # 0
        /\ Return("loadProgram", registers[B], registers[C], NextPlatter)
    BY <1>10 DEF LoadProgram
  <2>2. /\ UNCHANGED UM!vars /\ AnswerAgrees'
        /\ Holds(mappedFinger, loadProgram)' /\ resumeAt'.offset = 0
        /\ returned'.code = "loadProgram" /\ returned'.value1 # 0
        /\ returned'.value1 = registers'[Finger'.B]
        /\ returned'.value2 = registers'[Finger'.C]
    BY <1>2, <2>1
  <2>3. QED BY <2>2 DEF Simulated, PendingAgrees, Requested
<1>11. QED BY <1>4, <1>5, <1>6, <1>7, <1>8, <1>9, <1>10

\* Past the last platter there is nothing to be in the middle of.
LEMMA OutOfBoundRefines ==
  ASSUME SafeInvariant, OutOfBoundStub
  PROVE  Simulated
<1>1. /\ Executing /\ InLiveBlock /\ resumeAt.platter >= Block.size
      /\ returned' = [code |-> "halt", value1 |-> outOfBoundExecution,
                      value2 |-> 0]
      /\ resumeAt' = NextPlatter
      /\ UNCHANGED << registers, heap, io, status >>
  BY DEF OutOfBoundStub, Return
<1>2. status = "running" /\ returned = NotReturned
  BY <1>1 DEF Executing
<1>3. 0 \in DOMAIN arrays
  BY <1>1, <1>2, HeapFacts, InvariantParts
     DEF ControlInvariant, NothingAfterArray0
<1>4. /\ resumeAt.block = arrays[0].nativeCode /\ arrays[0].nativeCode # NoCode
  BY <1>2, <1>3, HeapFacts, InvariantParts DEF ControlInvariant, RunLocalsFresh
<1>5. Block.size = arrays[0].size /\ arrays[0].size \in Nat
  BY <1>3, <1>4, HeapFacts DEF Block, Sound, CodeLive, IsArray
<1>6. resumeAt.platter \in Nat
  BY HeapFacts, InvariantParts DEF LocalsTyped
<1>7. resumeAt.platter \notin 0 .. arrays[0].size - 1
  BY <1>1, <1>5, <1>6
<1>8. resumeAt.offset = 0
  BY <1>1, <1>7 DEF SafeInvariant, AnswerAgrees, Holds
<1>9. /\ mappedFinger = resumeAt.platter /\ mappedRegisters = registers
      /\ mappedStatus = "running"
  BY <1>2, <1>3, <1>8, MappedAtPlatter
<1>10. resumeAt'.offset = 0 /\ resumeAt'.platter = resumeAt.platter + 1
  BY <1>1 DEF NextPlatter, AddressOf
<1>11. returned' # NotReturned /\ returned'.code = "halt"
       /\ returned'.value1 = outOfBoundExecution
  BY <1>1 DEF NotReturned
<1>12. UNCHANGED << arrays, registers, eof, os, status >>
  BY <1>1 DEF heap, io
<1>13. mappedFinger' = resumeAt'.platter - 1 /\ mappedRegisters' = registers'
       /\ mappedStatus' = "running"
  BY <1>2, <1>3, <1>10, <1>11, <1>12, MappedPendingPrimed
<1>14. mappedFinger' = resumeAt.platter
  BY <1>6, <1>10, <1>13
<1>15. mappedArrays' = mappedArrays
  BY <1>12 DEF mappedArrays
<1>16. UNCHANGED UM!vars
  BY <1>9, <1>12, <1>13, <1>14, <1>15 DEF UM!vars
<1>17. PendingAgrees'
  BY <1>7, <1>10, <1>11, <1>12, <1>14 DEF PendingAgrees, Requested
<1>18. AnswerAgrees'
  BY <1>11 DEF AnswerAgrees, Executing
<1>19. QED BY <1>16, <1>17, <1>18 DEF Simulated

\* Nobody outside can see that a stub has been hit.
LEMMA RecompileStubRefines ==
  ASSUME SafeInvariant, RecompileStub
  PROVE  Simulated
<1> DEFINE address == [resumeAt EXCEPT !.offset = recompileStubSize]
<1>1. /\ AtPlatter /\ resumeAt.offset = 0
      /\ returned' = [code |-> "recompile", value1 |-> 0, value2 |-> 0]
      /\ resumeAt' = address
      /\ UNCHANGED << registers, heap, io, status >>
  BY DEF RecompileStub, Return
<1>2. status = "running" /\ returned = NotReturned /\ 0 \in DOMAIN arrays
  BY <1>1, HeapFacts, AtPlatterFacts
<1>3. address.offset # 0 /\ address.platter = resumeAt.platter
  <2>1. resumeAt \in [ block : CodeIds \union {NoCode}, platter : Nat,
                       offset : Nat ]
    BY HeapFacts, InvariantParts DEF LocalsTyped
  <2>2. QED BY <2>1 DEF recompileStubSize
<1> HIDE DEF address
<1>4. /\ mappedFinger = resumeAt.platter /\ mappedRegisters = registers
      /\ mappedStatus = "running"
  BY <1>1, <1>2, MappedAtPlatter
<1>5. returned' # NotReturned /\ returned'.code = "recompile"
  BY <1>1 DEF NotReturned
<1>6. UNCHANGED << arrays, registers, eof, os, status >>
  BY <1>1 DEF heap, io
<1>7. mappedFinger' = resumeAt.platter /\ mappedRegisters' = registers'
      /\ mappedStatus' = "running"
  BY <1>1, <1>2, <1>3, <1>5, <1>6, MappedPendingPrimed
<1>8. mappedArrays' = mappedArrays
  BY <1>6 DEF mappedArrays
<1>9. UNCHANGED UM!vars
  BY <1>4, <1>6, <1>7, <1>8 DEF UM!vars
<1>10. PendingAgrees' /\ AnswerAgrees'
  BY <1>5 DEF PendingAgrees, AnswerAgrees, Requested, Executing
<1>11. QED BY <1>9, <1>10 DEF Simulated

\* Code is freed under the instruction pointer only with array 0, and then the
\* universal machine has failed already.
LEMMA DanglingCodeRefines ==
  ASSUME SafeInvariant, DanglingCode
  PROVE  Simulated
<1>1. /\ status = "running" /\ ~InLiveBlock /\ status' = "undefined"
      /\ arrays' = arrays
  BY DEF DanglingCode, Executing, Stop, heap
<1>2. 0 \notin DOMAIN arrays
  BY <1>1, HeapFacts, InvariantParts
     DEF ControlInvariant, RunLocalsFresh, InLiveBlock, Sound, CodeLive
<1>3. mappedStatus = "failed" /\ mappedStatus' = "failed"
  BY <1>1, <1>2 DEF mappedStatus
<1>4. UM!Next
  BY <1>3 DEF UM!Next, UM!Failed
<1>5. QED BY <1>1, <1>4, NothingPending DEF Simulated


-----------------------------------------------------------------------------
\* The handlers: each is the step of the universal machine that the platter
\* which asked stands for.

\* While a request is pending the universal machine is running, at the platter
\* that asked.
LEMMA PendingMapped ==
  ASSUME SafeInvariant, NEW code, Requested(code), code # "none"
  PROVE  /\ status = "running" /\ returned.code = code
         /\ returned # NotReturned /\ 0 \in DOMAIN arrays
         /\ mappedFinger = IF resumeAt.offset = 0 THEN resumeAt.platter - 1
                                                  ELSE resumeAt.platter
         /\ mappedRegisters = registers
         /\ mappedStatus = "running"
<1>1. /\ status = "running" /\ returned.code = code
      /\ returned # NotReturned /\ 0 \in DOMAIN arrays
  BY HeapFacts, RequestedFacts
<1>2. QED BY <1>1, MappedPending

\* Once it is served the finger moves on, and a value in eax is in its register.
LEMMA AnswerMapped ==
  ASSUME SafeInvariant, NEW code, Requested(code), code # "none",
         returned' = NotReturned, UNCHANGED << registers, resumeAt, status >>,
         0 \in DOMAIN arrays'
  PROVE  /\ mappedFinger' = mappedFinger + 1
         /\ mappedStatus' = "running"
         /\ resumeAt.offset = 0 => mappedRegisters' = mappedRegisters
         /\ resumeAt.offset # 0 =>
              mappedRegisters' =
                [mappedRegisters EXCEPT ![Destination'] = eaxValue']
<1>1. /\ status = "running"
      /\ mappedFinger = IF resumeAt.offset = 0 THEN resumeAt.platter - 1
                                               ELSE resumeAt.platter
      /\ mappedRegisters = registers
  BY PendingMapped
<1>2. resumeAt.platter \in Nat
  BY HeapFacts, InvariantParts DEF LocalsTyped
<1>3. mappedFinger' = mappedFinger + 1
  BY <1>1, <1>2 DEF mappedFinger
<1>4. mappedStatus' = "running"
  BY <1>1 DEF mappedStatus
<1>5. QED BY <1>1, <1>3, <1>4 DEF mappedRegisters, Executing

\* Ways for run() to end.
LEMMA RunHaltRefines ==
  ASSUME SafeInvariant, RunHalt
  PROVE  Simulated
<1>1. /\ Requested("halt")
      /\ UNCHANGED << arrays, registers, eof, os, resumeAt, returned >>
  BY DEF RunHalt, Stop, heap, io
<1>2. /\ returned # NotReturned /\ 0 \in DOMAIN arrays
      /\ mappedStatus = "running" /\ mappedRegisters = registers
      /\ mappedFinger = IF resumeAt.offset = 0 THEN resumeAt.platter - 1
                                               ELSE resumeAt.platter
  BY <1>1, PendingMapped
<1>3. status' \in {"halted", "invalidOperator", "outOfBoundExecution"}
  BY DEF RunHalt, Stop
<1>4. UM!Ends(status')
  <2>1. /\ mappedFinger' = mappedFinger /\ mappedRegisters' = mappedRegisters
        /\ mappedStatus' = status'
    BY <1>1, <1>2, <1>3, MappedPendingPrimed
  <2>2. mappedArrays' = mappedArrays
    BY <1>1 DEF mappedArrays
  <2>3. QED BY <1>1, <2>1, <2>2 DEF UM!Ends
<1>5. PICK op : \/ /\ returned.value1 = normalTermination /\ op = halt
                   /\ Holds(mappedFinger, op)
                \/ /\ returned.value1 = invalidOperator
                   /\ op \in invalidOperators /\ Holds(mappedFinger, op)
                \/ /\ returned.value1 = outOfBoundExecution
                   /\ mappedFinger \notin 0 .. arrays[0].size - 1
  BY <1>1 DEF SafeInvariant, PendingAgrees
<1>6. Holds(mappedFinger, op) => UM!Does(op)
  BY <1>2, FetchesHeld
<1>7. CASE returned.value1 = normalTermination
  <2>1. status' = "halted"
    BY <1>7 DEF RunHalt, Stop, normalTermination, invalidOperator,
                outOfBoundExecution
  <2>2. UM!Does(UM!halt)
    BY <1>5, <1>6, <1>7, SameOperators
       DEF normalTermination, invalidOperator, outOfBoundExecution
  <2>3. UM!Halt
    BY <1>4, <2>1, <2>2 DEF UM!Halt
  <2>4. QED BY <1>3, <2>3, NothingPending DEF Simulated, UM!Next
<1>8. CASE returned.value1 = invalidOperator
  <2>1. status' = "invalidOperator"
    BY <1>8 DEF RunHalt, Stop, normalTermination, invalidOperator,
                outOfBoundExecution
  <2>2. op \in UM!invalidOperators /\ UM!Does(op)
    BY <1>5, <1>6, <1>8, SameOperators
       DEF normalTermination, invalidOperator, outOfBoundExecution
  <2>3. UM!InvalidOperator
    BY <1>4, <2>1, <2>2 DEF UM!InvalidOperator
  <2>4. QED BY <1>3, <2>3, NothingPending DEF Simulated, UM!Next
<1>9. CASE returned.value1 = outOfBoundExecution
  <2>1. status' = "outOfBoundExecution"
    BY <1>9 DEF RunHalt, Stop, normalTermination, invalidOperator,
                outOfBoundExecution
  <2>2. mappedFinger \notin 0 .. arrays[0].size - 1
    BY <1>5, <1>9 DEF normalTermination, invalidOperator, outOfBoundExecution
  <2>3. mappedFinger \notin DOMAIN mappedArrays[0]
    BY <1>2, <2>2, MappedAllocated
  <2>4. UM!OutOfBoundExecution
    BY <1>2, <1>4, <2>1, <2>3 DEF UM!OutOfBoundExecution, UM!Running
  <2>5. QED BY <1>3, <2>4, NothingPending DEF Simulated, UM!Next
<1>10. QED BY <1>7, <1>8, <1>9 DEF RunHalt

\* What follows holds of any answer that native code goes on with inside the
\* platter that asked.
LEMMA AnsweredInside ==
  ASSUME SafeInvariant, NEW op \in {allocation, input},
         NEW code, Requested(code), code # "none",
         Holds(mappedFinger, op), InsideIntactPlatter,
         returned' = NotReturned,
         UNCHANGED << registers, nativeCodes, resumeAt, status >>,
         0 \in DOMAIN arrays', arrays'[0] = arrays[0]
  PROVE  /\ PendingAgrees' /\ AnswerAgrees'
         /\ UM!Does(op)
         /\ UM!b = Finger.B /\ UM!c = Finger.C
         /\ mappedFinger' = mappedFinger + 1 /\ mappedStatus' = mappedStatus
         /\ mappedRegisters' =
              [mappedRegisters EXCEPT
                 ![IF op = allocation THEN UM!b ELSE UM!c] = eaxValue']
<1>1. resumeAt.offset # 0 /\ Cell = arrays[0].platters[resumeAt.platter]
  BY DEF InsideIntactPlatter
<1>2. /\ status = "running" /\ 0 \in DOMAIN arrays
      /\ mappedFinger = resumeAt.platter /\ mappedStatus = "running"
  BY <1>1, PendingMapped
<1>3. Cell' = Cell
  BY DEF Cell, Block
<1>4. Holds(resumeAt.platter, op)'
  BY <1>2 DEF Holds
<1>5. PendingAgrees'
  BY DEF PendingAgrees, Requested, NotReturned
<1>6. AnswerAgrees'
  BY <1>1, <1>3, <1>4 DEF AnswerAgrees, InsideIntactPlatter
<1>7. UM!Does(op) /\ UM!b = Finger.B /\ UM!c = Finger.C
  BY <1>2, FetchesHeld
<1>8. Finger = decode(Cell)' /\ decode(Cell)'.op = op
  BY <1>1, <1>2, <1>3 DEF Finger, Holds
<1>9. Destination' = IF op = allocation THEN Finger.B ELSE Finger.C
  BY <1>8 DEF Destination, B, C
<1>10. QED BY <1>1, <1>2, <1>5, <1>6, <1>7, <1>9, AnswerMapped

\* An allocation takes its step when the array is there.
LEMMA RunAllocationRefines ==
  ASSUME SafeInvariant, RunAllocation
  PROVE  Simulated
<1>1. /\ Requested("allocation") /\ returned' = NotReturned
      /\ UNCHANGED << registers, nativeCodes, io, resumeAt, status >>
  BY DEF RunAllocation
<1>2. PICK i \in minEmptyArrayIndex .. arraysSize :
        /\ i \notin DOMAIN arrays /\ i < MaxArrays
        /\ arrays' = Stored(arrays, i, newArray(returned.value1))
        /\ eaxValue' = i
  BY DEF RunAllocation
<1>3. /\ Holds(mappedFinger, allocation) /\ InsideIntactPlatter
      /\ returned.value1 = registers[Finger.C]
  BY <1>1 DEF SafeInvariant, PendingAgrees
<1>4. 0 \in DOMAIN arrays /\ mappedRegisters = registers
  BY <1>1, PendingMapped
<1>5. /\ DOMAIN arrays' = DOMAIN arrays \union {i}
      /\ arrays'[i] = newArray(returned.value1)
      /\ \A k \in DOMAIN arrays : arrays'[k] = arrays[k]
  BY <1>2 DEF Stored
<1>6. /\ PendingAgrees' /\ AnswerAgrees'
      /\ UM!Does(allocation) /\ UM!c = Finger.C
      /\ mappedFinger' = mappedFinger + 1 /\ mappedStatus' = mappedStatus
      /\ mappedRegisters' = [mappedRegisters EXCEPT ![UM!b] = i]
  <2>1. arrays'[0] = arrays[0] /\ 0 \in DOMAIN arrays'
    BY <1>4, <1>5
  <2>2. QED BY <1>1, <1>2, <1>3, <2>1, AnsweredInside
<1>7. i \in (0 .. MaxArrays - 1) \ ({0} \union DOMAIN mappedArrays)
  <2>1. /\ minEmptyArrayIndex \in Nat /\ arraysSize \in Nat
    BY HeapFacts, InvariantParts DEF HeapInvariant
  <2>2. DOMAIN mappedArrays = DOMAIN arrays
    BY MappedAllocated
  <2>3. QED BY <1>2, <1>4, <2>1, <2>2, ContextAssumption
<1>8. mappedArrays' = [k \in DOMAIN mappedArrays \union {i} |->
                         IF k = i
                         THEN [j \in 0 .. mappedRegisters[UM!c] - 1 |-> 0]
                         ELSE mappedArrays[k]]
  <2>1. newArray(returned.value1).platters
          = [j \in 0 .. returned.value1 - 1 |-> 0]
    BY DEF newArray
  <2>2. returned.value1 = mappedRegisters[UM!c]
    BY <1>3, <1>4, <1>6
  <2>3. QED BY <1>2, <1>5, <2>1, <2>2 DEF mappedArrays
<1>9. UM!Allocation
  BY <1>1, <1>6, <1>7, <1>8, SameOperators DEF UM!Allocation, io
<1>10. QED BY <1>6, <1>9 DEF Simulated, UM!Next

\* An input takes its step when the character is there.
LEMMA RunInputRefines ==
  ASSUME SafeInvariant, RunInput
  PROVE  Simulated
<1>1. /\ Requested("input") /\ returned' = NotReturned
      /\ UNCHANGED << registers, heap, os, resumeAt, status >>
      /\ \/ eaxValue' \in Chars /\ ~eof /\ UNCHANGED eof
         \/ eaxValue' = AllOnes /\ eof' = TRUE
  BY DEF RunInput
<1>2. Holds(mappedFinger, input) /\ InsideIntactPlatter
  BY <1>1 DEF SafeInvariant, PendingAgrees
<1>3. 0 \in DOMAIN arrays
  BY <1>1, PendingMapped
<1>4. /\ PendingAgrees' /\ AnswerAgrees'
      /\ UM!Does(input)
      /\ mappedFinger' = mappedFinger + 1 /\ mappedStatus' = mappedStatus
      /\ mappedRegisters' = [mappedRegisters EXCEPT ![UM!c] = eaxValue']
  <2>1. input # allocation
    BY DEF input, allocation
  <2>2. QED BY <1>1, <1>2, <1>3, <2>1, AnsweredInside DEF heap
<1>5. mappedArrays' = mappedArrays
  BY <1>1 DEF mappedArrays, heap
<1>6. UM!Input
  BY <1>1, <1>4, <1>5, SameOperators, SamePlatters DEF UM!Input
<1>7. QED BY <1>4, <1>6 DEF Simulated, UM!Next

\* An output takes its step when the character is written.
LEMMA RunOutputRefines ==
  ASSUME SafeInvariant, RunOutput
  PROVE  Simulated
<1>1. /\ Requested("output") /\ returned' = NotReturned
      /\ os' = Append(os, returned.value1 % 256)
      /\ UNCHANGED << registers, heap, eof, resumeAt, status >>
  BY DEF RunOutput
<1>2. /\ Holds(mappedFinger, output) /\ resumeAt.offset = 0
      /\ returned.value1 = registers[Finger.C]
  BY <1>1 DEF SafeInvariant, PendingAgrees
<1>3. /\ 0 \in DOMAIN arrays /\ mappedStatus = "running"
      /\ mappedRegisters = registers
  BY <1>1, PendingMapped
<1>4. UM!Does(UM!output) /\ UM!c = Finger.C
  BY <1>2, <1>3, FetchesHeld, SameOperators
<1>5. /\ mappedFinger' = mappedFinger + 1 /\ mappedStatus' = "running"
      /\ mappedRegisters' = mappedRegisters
  BY <1>1, <1>2, <1>3, AnswerMapped DEF heap
<1>6. mappedArrays' = mappedArrays
  BY <1>1 DEF mappedArrays, heap
<1>7. UM!Output
  BY <1>1, <1>2, <1>3, <1>4, <1>5, <1>6 DEF UM!Output
<1>8. PendingAgrees' /\ AnswerAgrees'
  BY <1>1, <1>2, NothingPending
<1>9. QED BY <1>7, <1>8 DEF Simulated, UM!Next

\* Abandoning array 0 leaves the machine without a program: it has failed.
LEMMA RunAbandonmentRefines ==
  ASSUME SafeInvariant,
         RunAbandonment \/ AbandonmentThrows \/ AbandonmentOfNull
  PROVE  Simulated
<1> DEFINE index == returned.value1
<1>1. Requested("abandonment")
  BY DEF RunAbandonment, AbandonmentThrows, AbandonmentOfNull
<1>2. /\ Holds(mappedFinger, abandonment) /\ resumeAt.offset = 0
      /\ index = registers[Finger.C]
  BY <1>1 DEF SafeInvariant, PendingAgrees
<1>3. /\ 0 \in DOMAIN arrays /\ mappedStatus = "running"
      /\ mappedRegisters = registers
  BY <1>1, PendingMapped
<1>4. UM!Does(UM!abandonment) /\ mappedRegisters[UM!c] = index
  BY <1>2, <1>3, FetchesHeld, SameOperators
<1>5. DOMAIN mappedArrays = DOMAIN arrays
  BY MappedAllocated
<1>6. CASE RunAbandonment
  <2>1. /\ index \in DOMAIN arrays /\ returned' = NotReturned
        /\ arrays' = Restrict(arrays, DOMAIN arrays \ {index})
        /\ UNCHANGED << registers, io, resumeAt, status >>
    BY <1>6 DEF RunAbandonment
  <2> HIDE DEF index
  <2>2. /\ DOMAIN arrays' = DOMAIN arrays \ {index}
        /\ \A k \in DOMAIN arrays' : arrays'[k] = arrays[k]
    BY <2>1 DEF Restrict
  <2>3. PendingAgrees' /\ AnswerAgrees'
    BY <1>2, <2>1, NothingPending
  <2>4. CASE index # 0
    <3>1. /\ mappedFinger' = mappedFinger + 1 /\ mappedStatus' = "running"
          /\ mappedRegisters' = mappedRegisters
      BY <1>1, <1>2, <1>3, <2>1, <2>2, <2>4, AnswerMapped
    <3>2. mappedArrays' = UM!Restrict(mappedArrays,
                                      DOMAIN mappedArrays \ {index})
      BY <1>5, <2>2 DEF mappedArrays, UM!Restrict
    <3>3. UM!Abandonment
      BY <1>3, <1>4, <1>5, <2>1, <2>4, <3>1, <3>2 DEF UM!Abandonment, io
    <3>4. QED BY <2>3, <3>3 DEF Simulated, UM!Next
  <2>5. CASE index = 0
    <3>1. mappedStatus' = "failed"
      BY <2>2, <2>5 DEF mappedStatus
    <3>2. UM!Fail
      BY <1>4, <2>5, <3>1 DEF UM!Fail, UM!Undefined
    <3>3. QED BY <2>3, <3>2 DEF Simulated, UM!Next
  <2>6. QED BY <2>4, <2>5
<1>7. CASE AbandonmentThrows \/ AbandonmentOfNull
  <2>1. /\ status' \in {"invalidArrayIndex", "undefined"}
        /\ index >= arraysSize \/ index \notin DOMAIN arrays
    BY <1>7 DEF AbandonmentThrows, AbandonmentOfNull, Stop
  <2>2. index \notin DOMAIN arrays
    <3>1. arraysSize \in Nat /\ DOMAIN arrays \subseteq 0 .. arraysSize - 1
      BY HeapFacts, InvariantParts DEF HeapInvariant
    <3>2. index \in Nat
      BY <1>1, HeapFacts, RequestedFacts, WordSizes DEF Word
    <3>3. QED BY <2>1, <3>1, <3>2
  <2> HIDE DEF index
  <2>3. UM!Undefined
    BY <1>4, <1>5, <2>2 DEF UM!Undefined
  <2>4. QED BY <2>1, <2>3, FailStep
<1>8. QED BY <1>6, <1>7


\* A load takes its step when the clone is in place, whoever had its code
\* before.
LEMMA RunLoadProgramRefines ==
  ASSUME SafeInvariant, RunLoadProgram \/ LoadProgramThrows
  PROVE  Simulated
<1> DEFINE index    == returned.value1
           position == returned.value2
           inRange  == position < arrays[index].size
<1>1. Requested("loadProgram")
  BY DEF RunLoadProgram, LoadProgramThrows
<1>2. /\ Holds(mappedFinger, loadProgram) /\ index # 0
      /\ index = registers[Finger.B] /\ position = registers[Finger.C]
  BY <1>1 DEF SafeInvariant, PendingAgrees
<1>3. /\ 0 \in DOMAIN arrays /\ mappedStatus = "running"
      /\ mappedRegisters = registers /\ status = "running"
  BY <1>1, PendingMapped
<1>4. /\ UM!Does(UM!loadProgram)
      /\ mappedRegisters[UM!b] = index /\ mappedRegisters[UM!c] = position
  BY <1>2, <1>3, FetchesHeld, SameOperators
<1>5. UM!Allocated(index, position)
        <=> index \in DOMAIN arrays /\ position < arrays[index].size
  BY <1>1, HeapFacts, RequestedFacts, MappedAllocated
<1>6. CASE RunLoadProgram /\ inRange
  <2>1. index \in DOMAIN arrays \ {0}
    BY <1>6 DEF RunLoadProgram
  <2>2. PICK id \in CodeIds :
          /\ Loads(index, id)
          /\ \/ /\ position < arrays[index].size
                /\ resumeAt' = AddressOf(id, position)
                /\ returned' = NotReturned
                /\ UNCHANGED status
             \/ position >= arrays[index].size
    BY <1>6 DEF RunLoadProgram
  <2>3. arrays[index].size \in Nat /\ position \in Nat
    BY <1>1, <2>1, HeapFacts, RequestedFacts, WordSizes DEF IsArray, Word
  <2>4. /\ resumeAt' = AddressOf(id, position) /\ returned' = NotReturned
        /\ UNCHANGED status
    BY <1>6, <2>2, <2>3
  <2>5. UNCHANGED << registers, io >>
    BY <1>6 DEF RunLoadProgram
  <2>6. /\ DOMAIN arrays' = DOMAIN arrays
        /\ arrays'[0].platters = arrays[index].platters
        /\ \A k \in DOMAIN arrays \ {0} :
             arrays'[k].platters = arrays[k].platters
    BY <1>3, <2>1, <2>2, HeapFacts, LoadsCoherent
  <2> HIDE DEF index, position
  <2>7. mappedArrays' = [mappedArrays EXCEPT ![0] = mappedArrays[index]]
    BY <1>3, <2>1, <2>6 DEF mappedArrays
  <2>8. resumeAt'.offset = 0 /\ resumeAt'.platter = position
    BY <2>4 DEF AddressOf
  <2>9. /\ mappedFinger' = position /\ mappedRegisters' = registers'
        /\ mappedStatus' = "running"
    BY <1>3, <2>4, <2>6, <2>8, MappedAtPlatterPrimed
  <2>10. UM!LoadProgram
    BY <1>3, <1>4, <1>5, <1>6, <2>1, <2>5, <2>7, <2>9 DEF UM!LoadProgram, io
  <2>11. PendingAgrees' /\ AnswerAgrees'
    BY <2>4, <2>8, NothingPending
  <2>12. QED BY <2>10, <2>11 DEF Simulated, UM!Next
<1>7. CASE LoadProgramThrows \/ (RunLoadProgram /\ ~inRange)
  <2>1. status' = "invalidArrayIndex"
    BY <1>7 DEF LoadProgramThrows, RunLoadProgram, Stop
  <2>2. index \notin DOMAIN arrays \/ ~(position < arrays[index].size)
    BY <1>2, <1>7 DEF LoadProgramThrows
  <2> HIDE DEF index, position
  <2>3. UM!Undefined
    BY <1>4, <1>5, <2>2 DEF UM!Undefined
  <2>4. QED BY <2>1, <2>3, FailStep
<1> HIDE DEF inRange
<1>8. QED BY <1>6, <1>7

\* Compiling array 0 changes no platter.
LEMMA CompiledSamePlatters ==
  ASSUME SafeInvariant, 0 \in DOMAIN arrays,
         NEW id \in FreshCode(nativeCodes, arrays[0]),
         arrays' = [arrays EXCEPT ![0] = CleanArray(@, id)]
  PROVE  mappedArrays' = mappedArrays /\ DOMAIN arrays' = DOMAIN arrays
<1>1. IsArray(arrays[0])
  BY HeapFacts
<1>2. CleanArray(arrays[0], id).platters = arrays[0].platters
  BY <1>1 DEF CleanArray, IsArray, ArrayOf
<1>3. QED BY <1>2 DEF mappedArrays

\* run() before its loop: the first code is generated where nobody can see it.
LEMMA RunRefines ==
  ASSUME SafeInvariant, Run
  PROVE  Simulated
<1>1. /\ status = "constructed" /\ resumeAt.offset = 0 /\ resumeAt.platter = 0
      /\ 0 \in DOMAIN arrays /\ returned = NotReturned
  BY DEF Run, SafeInvariant, InductiveInvariant, NothingExecuted
<1>2. PICK id \in FreshCode(nativeCodes, arrays[0]) :
        /\ arrays' = [arrays EXCEPT ![0] = CleanArray(@, id)]
        /\ resumeAt' = AddressOf(id, 0)
  BY DEF Run
<1>3. status' = "running" /\ UNCHANGED << registers, io, returned >>
  BY DEF Run
<1>4. mappedArrays' = mappedArrays /\ DOMAIN arrays' = DOMAIN arrays
  BY <1>1, <1>2, CompiledSamePlatters
<1>5. resumeAt'.offset = 0 /\ resumeAt'.platter = 0
  BY <1>2 DEF AddressOf
<1>6. /\ mappedFinger = 0 /\ mappedRegisters = registers
      /\ mappedStatus = "running"
  BY <1>1 DEF mappedFinger, mappedRegisters, mappedStatus, Executing
<1>7. /\ mappedFinger' = 0 /\ mappedRegisters' = registers'
      /\ mappedStatus' = "running"
  BY <1>1, <1>3, <1>4, <1>5, MappedAtPlatterPrimed
<1>8. UNCHANGED UM!vars
  BY <1>3, <1>4, <1>6, <1>7 DEF UM!vars, io
<1>9. QED BY <1>1, <1>3, <1>5, <1>8, NothingPending DEF Simulated

\* A recompilation for a stub that is not in the last platter goes on with the
\* platter whose stub was hit.
LEMMA RecompileRefines ==
  ASSUME SafeInvariant, RunRecompile, ~RestartsEarlier
  PROVE  Simulated
<1>1. Requested("recompile") /\ resumeAt.platter # arrays[0].size - 1
  BY DEF RunRecompile, RestartsEarlier
<1>2. /\ 0 \in DOMAIN arrays /\ status = "running"
      /\ returned # NotReturned
  BY <1>1, PendingMapped
<1>3. PICK id \in FreshCode(nativeCodes, arrays[0]) :
        /\ arrays' = [arrays EXCEPT ![0] = CleanArray(@, id)]
        /\ resumeAt' = AddressOf(id, fingerPositionFor(arrays[0].size, resumeAt))
  BY DEF RunRecompile
<1>4. returned' = NotReturned /\ UNCHANGED << registers, io, status >>
  BY DEF RunRecompile
<1>5. resumeAt.offset > 0 /\ resumeAt.platter < arrays[0].size
  BY <1>1, <1>2, HeapFacts, InvariantParts DEF ControlInvariant, RecompileFromInside
<1>6. /\ mappedFinger = resumeAt.platter /\ mappedRegisters = registers
      /\ mappedStatus = "running"
  BY <1>1, <1>5, PendingMapped
<1>7. fingerPositionFor(arrays[0].size, resumeAt) = resumeAt.platter
  <2>1. arrays[0].size \in Nat /\ arrays[0].size >= 2
    BY <1>1, HeapFacts, RecompilePosition
  <2>2. resumeAt.platter \in Nat
    BY HeapFacts, InvariantParts DEF LocalsTyped
  <2>3. /\ resumeAt.platter \in 0 .. arrays[0].size - 1
        /\ resumeAt.platter < arrays[0].size - 1
    BY <1>1, <1>5, <2>1, <2>2
  <2>4. QED BY <1>5, <2>1, <2>3, FingerPosition
<1>8. resumeAt'.offset = 0 /\ resumeAt'.platter = resumeAt.platter
  BY <1>3, <1>7 DEF AddressOf
<1>9. mappedArrays' = mappedArrays /\ DOMAIN arrays' = DOMAIN arrays
  BY <1>2, <1>3, CompiledSamePlatters
<1>10. /\ mappedFinger' = resumeAt.platter /\ mappedRegisters' = registers'
       /\ mappedStatus' = "running"
  BY <1>2, <1>4, <1>8, <1>9, MappedAtPlatterPrimed
<1>11. UNCHANGED UM!vars
  BY <1>4, <1>6, <1>9, <1>10 DEF UM!vars, io
<1>12. QED BY <1>4, <1>8, <1>11, NothingPending DEF Simulated

-----------------------------------------------------------------------------
\* The invariant and the simulation, of every safe behaviour.

\* The constructor establishes the invariant, in a state of the universal
\* machine that has just been loaded.
LEMMA InitSafe == Init => SafeInvariant /\ UM!Init
<1> SUFFICES ASSUME Init PROVE SafeInvariant /\ UM!Init
  OBVIOUS
<1>1. PICK s \in Scrolls :
        arrays = [i \in {0} |-> [newArray(s.size) EXCEPT !.platters = s.platters]]
  BY DEF Init
<1>2. DOMAIN arrays = {0} /\ arrays[0].platters = s.platters
      /\ arrays[0].nativeCode = NoCode
  BY <1>1 DEF newArray
<1>3. /\ resumeAt = AddressOf(NoCode, 0) /\ returned = NotReturned
      /\ status = "constructed" /\ array0Source = 0
      /\ eof = FALSE /\ os = << >> /\ registers = [i \in Register |-> 0]
  BY DEF Init
<1>4. CodeCoherent
  BY <1>2, <1>3 DEF CodeCoherent
<1>5. SafeInvariant
  BY <1>3, <1>4, InitInvariant
     DEF SafeInvariant, NothingExecuted, PendingAgrees, AnswerAgrees, Requested, Executing,
         AddressOf
<1>6. /\ mappedFinger = 0 /\ mappedRegisters = registers
      /\ mappedStatus = "running"
  BY <1>2, <1>3
     DEF mappedFinger, mappedRegisters, mappedStatus, Executing, AddressOf
<1>7. mappedArrays \in [{0} -> ZeroArrays]
  BY <1>2 DEF mappedArrays, ZeroArrays
<1>8. UM!Init
  BY <1>3, <1>6, <1>7, SamePlatters DEF UM!Init
<1>9. QED BY <1>5, <1>8

\* The safe steps are the steps of the machine but for the two that are left out.
LEMMA SafeSteps == SafeNext <=> Next /\ ~StaleGiveBack /\ ~RestartsEarlier
<1>1. Run \/ Native => returned.code \notin {"loadProgram", "recompile"}
                      \/ status = "constructed"
  BY DEF Run, Native, ConditionalMove, ArrayIndex, InvalidArrayIndex,
         ArrayAmendment, InvalidArrayAmendment, Addition, Multiplication,
         Division, DivisionByZero, NotAnd, Orthography, Halt, InvalidOperator,
         Allocation, AllocationResumes, Abandonment, Output, Input,
         InputResumes, Jump, JumpPastTable, LoadProgram, OutOfBoundStub,
         RecompileStub, DanglingCode, Executes, Resumes, AtPlatter, Executing,
         NotReturned
<1>2. RunHalt \/ RunAllocation \/ RunAbandonment \/ AbandonmentThrows
        \/ AbandonmentOfNull \/ RunOutput \/ RunInput =>
          returned.code \notin {"loadProgram", "recompile"}
  BY DEF RunHalt, RunAllocation, RunAbandonment, AbandonmentThrows,
         AbandonmentOfNull, RunOutput, RunInput, Requested
<1>3. LoadProgramThrows =>
        returned.code = "loadProgram" /\ returned.value1 \notin DOMAIN arrays \ {0}
  BY DEF LoadProgramThrows, Requested
<1>4. RunLoadProgram => returned.code = "loadProgram"
  BY DEF RunLoadProgram, Requested
<1>5. RunRecompile => returned.code = "recompile"
  BY DEF RunRecompile, Requested
<1>6. QED
  BY <1>1, <1>2, <1>3, <1>4, <1>5
     DEF SafeNext, SafeLoadProgram, SafeRecompile, Next, Handler,
         StaleGiveBack, RestartsEarlier, Requested

\* Every safe step is a step of the universal machine or invisible to it.
LEMMA NextSimulated ==
  ASSUME SafeInvariant, [SafeNext]_vars
  PROVE  Simulated
<1>1. CASE \/ ConditionalMove \/ Addition \/ Multiplication \/ Division
           \/ NotAnd \/ Orthography
  BY <1>1, ArithmeticRefines
<1>2. CASE AllocationResumes \/ InputResumes
  BY <1>2, ResumesRefines
<1>3. CASE ArrayIndex \/ InvalidArrayIndex
  BY <1>3, ArrayIndexRefines
<1>4. CASE ArrayAmendment \/ InvalidArrayAmendment
  BY <1>4, ArrayAmendmentRefines
<1>5. CASE Jump \/ JumpPastTable
  BY <1>5, JumpRefines
<1>6. CASE \/ Halt \/ InvalidOperator \/ Allocation \/ Abandonment
           \/ Output \/ Input \/ LoadProgram
  BY <1>6, RequestRefines
<1>7. CASE DivisionByZero \/ OutOfBoundStub \/ RecompileStub \/ DanglingCode
  BY <1>7, DivisionByZeroRefines, OutOfBoundRefines, RecompileStubRefines,
     DanglingCodeRefines
<1>8. CASE RunAbandonment \/ AbandonmentThrows \/ AbandonmentOfNull
  BY <1>8, RunAbandonmentRefines
<1>9. CASE RunHalt \/ RunAllocation \/ RunOutput \/ RunInput
  BY <1>9, RunHaltRefines, RunAllocationRefines, RunOutputRefines,
     RunInputRefines
<1>10. CASE SafeLoadProgram \/ LoadProgramThrows
  BY <1>10, RunLoadProgramRefines DEF SafeLoadProgram
<1>11. CASE Run \/ SafeRecompile
  BY <1>11, RunRefines, RecompileRefines DEF SafeRecompile
<1>12. CASE UNCHANGED vars
  <2>1. UNCHANGED << mappedFinger, mappedRegisters, mappedStatus, mappedArrays,
                     eof, os >>
    BY <1>12
       DEF vars, mappedFinger, mappedRegisters, mappedStatus, mappedArrays,
           Destination, Executing, Cell, Block, B, C
  <2>2. UNCHANGED UM!vars
    BY <2>1 DEF UM!vars
  <2>3. PendingAgrees'
    BY <1>12, <2>1
       DEF vars, SafeInvariant, PendingAgrees, Requested, Holds, Finger,
           InsideIntactPlatter, Cell, Block
  <2>4. AnswerAgrees'
    BY <1>12
       DEF vars, SafeInvariant, AnswerAgrees, Executing, Holds,
           InsideIntactPlatter, Cell, Block
  <2>5. QED BY <2>2, <2>3, <2>4 DEF Simulated
<1>13. QED
  BY <1>1, <1>2, <1>3, <1>4, <1>5, <1>6, <1>7, <1>8, <1>9, <1>10, <1>11, <1>12
     DEF SafeNext, Native

\* The machine is in its constructor's state only until run() has compiled.
LEMMA ConstructedStep ==
  ASSUME [Next]_vars, status' = "constructed"
  PROVE  UNCHANGED vars
<1>1. CASE Run \/ RunRecompile
  BY <1>1 DEF Run, RunRecompile, Requested
<1>2. CASE Native
  BY <1>2 DEF Native, ConditionalMove, ArrayIndex, InvalidArrayIndex,
              ArrayAmendment, InvalidArrayAmendment, Addition,
              Multiplication, Division, DivisionByZero, NotAnd, Orthography,
              Halt, InvalidOperator, Allocation, AllocationResumes,
              Abandonment, Output, Input, InputResumes, Jump, JumpPastTable,
              LoadProgram, OutOfBoundStub, RecompileStub, DanglingCode,
              Executes, Resumes, AtPlatter, Executing, SetRegister, Return,
              Stop
<1>3. CASE Handler
  BY <1>3 DEF Handler, RunHalt, RunAllocation, RunAbandonment,
              AbandonmentThrows, AbandonmentOfNull, RunOutput, RunInput,
              RunLoadProgram, LoadProgramThrows, Requested, Stop
<1>4. QED BY <1>1, <1>2, <1>3 DEF Next

\* Nothing is executed before run() has compiled.
LEMMA NothingExecutedStep ==
  ASSUME NothingExecuted, [Next]_vars
  PROVE  NothingExecuted'
BY ConstructedStep DEF NothingExecuted, vars

\* Every safe step preserves the invariant.
LEMMA NextSafe ==
  ASSUME SafeInvariant, [SafeNext]_vars
  PROVE  SafeInvariant'
<1>1. [Next]_vars
  BY SafeSteps
<1>2. InductiveInvariant'
  BY <1>1, NextInvariant DEF SafeInvariant
<1>3. CodeCoherent'
  <2>1. CASE UNCHANGED vars
    BY <2>1 DEF vars, SafeInvariant, CodeCoherent, CellCurrent
  <2>2. CASE SafeNext
    BY <2>2, SafeSteps, CoherenceStep DEF SafeInvariant
  <2>3. QED BY <2>1, <2>2
<1>4. NothingExecuted'
  BY <1>1, NothingExecutedStep DEF SafeInvariant
<1>5. PendingAgrees' /\ AnswerAgrees'
  BY NextSimulated DEF Simulated
<1>6. QED BY <1>2, <1>3, <1>4, <1>5 DEF SafeInvariant

\* Until code is given back that must not be, or a recompilation goes back, native
\* code is coherent and a pending request is that of the platter under the finger.
THEOREM SafeInvariance == SafeSpec => []SafeInvariant
<1>1. Init => SafeInvariant
  BY InitSafe
<1>2. SafeInvariant /\ [SafeNext]_vars => SafeInvariant'
  BY NextSafe
<1>3. QED BY <1>1, <1>2, PTL DEF SafeSpec

\* In every behaviour of the context, those with recompilations of linked arrays and
\* of last platters included, the native code of every array stays that of the
\* platters the array has until the code of array 0 is given back to a source that
\* has other platters: no other step loses an amendment.
THEOREM CoherentCode == Spec => CoherenceKept
<1>1. ASSUME InductiveInvariant, [Next]_vars
      PROVE  [CodeCoherent /\ ~StaleGiveBack => CodeCoherent']_vars
  BY <1>1, CoherenceStep
<1>2. QED BY <1>1, Invariance, PTL DEF Spec, CoherenceKept

\* In every behaviour of the context the two copies of a loaded program agree, or
\* one of them is marked amended, until array 0 is compiled again while its source
\* is recorded.
THEOREM CopiesAgree == Spec => LinksKept
<1>1. Init => NothingExecuted
  BY DEF Init, NothingExecuted, AddressOf
<1>2. NothingExecuted /\ [Next]_vars => NothingExecuted'
  BY NothingExecutedStep
<1>3. ASSUME InductiveInvariant, NothingExecuted, [Next]_vars
      PROVE  [LinkedCopiesAgree /\ ~(Requested("recompile") /\ array0Source # 0) =>
                LinkedCopiesAgree']_vars
  BY <1>3, LinksStep
<1>4. QED BY <1>1, <1>2, <1>3, Invariance, PTL DEF Spec, LinksKept

\* context::run implements the universal machine but for the two steps SafeSpec leaves
\* out: a program that meets neither of them cannot tell native code from the
\* interpreter.
THEOREM Refinement == SafeSpec => ImplementsUniversalMachine
<1>1. Init => UM!Init
  BY InitSafe
<1>2. SafeInvariant /\ [SafeNext]_vars => [UM!Next]_(UM!vars)
  BY NextSimulated DEF Simulated
<1>3. QED
  BY <1>1, <1>2, SafeInvariance, PTL
     DEF SafeSpec, ImplementsUniversalMachine, UM!Spec

===============================================================================
