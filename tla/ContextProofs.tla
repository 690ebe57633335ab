---------------------------- MODULE ContextProofs ----------------------------
(***************************************************************************)
(* The safety properties of class context, proved for every program, every *)
(* input, every width of the words and any number of arrays.               *)
(*                                                                         *)
(* What the heap operations do to arrays and native code comes first.  The *)
(* ownership of native code and the place of the stubs are stated of any   *)
(* map of arrays and any map of blocks, so that the operations that the    *)
(* handlers of run() put together (generateNativeCode, array::destroy,     *)
(* array::create, giving code back, installing it, amending) are each shown*)
(* to preserve them once, whatever the intermediate state.                 *)
(*                                                                         *)
(* InductiveInvariant is split in three: what it says of the heap          *)
(* (HeapInvariant), of the types of everything else (LocalsTyped) and of   *)
(* the place execution is at (ControlInvariant).  Each action has a lemma; *)
(* most platters leave the heap alone and share PlatterStep, and the       *)
(* handlers that go back to native code share ServedStep.                  *)
(***************************************************************************)
EXTENDS Context, TLAPS

-----------------------------------------------------------------------------
\* What decoding and register arithmetic return, for every width of the fields:
\* register numbers stay register numbers and words stay words.

\* The operator unit and the word size are positive, and a value fits a word.
LEMMA WordSizes ==
  /\ OperatorUnit \in Nat \ {0}
  /\ ValueCount <= OperatorUnit
  /\ WordSize \in Nat \ {0}
  /\ ValueCount <= WordSize
<1>1. RegisterCount \in Nat \ {0} /\ ValueCount \in Nat \ {0}
  BY PlatterAssumption
<1>2. \A m, n \in Nat \ {0} : m * n \in Nat \ {0} /\ n <= m * n
  OBVIOUS
<1>3. OperatorUnit \in Nat \ {0} /\ ValueCount <= OperatorUnit
  BY <1>1, <1>2 DEF OperatorUnit
<1>4. QED BY <1>1, <1>3 DEF WordSize

\* A remainder is below its positive modulus.
LEMMA ModRange ==
  ASSUME NEW x \in Int, NEW n \in Nat \ {0}
  PROVE  x % n \in 0 .. n - 1
OBVIOUS

\* Reducing modulo the word size makes a word.
LEMMA ModWord ==
  ASSUME NEW x \in Int
  PROVE  x % WordSize \in Word
BY WordSizes, ModRange DEF Word

\* The sum of two words, as add leaves it, is a word.
LEMMA SumType ==
  ASSUME NEW x \in Word, NEW y \in Word
  PROVE  WordSum(x, y) \in Word
<1>1. x + y \in Int
  BY WordSizes DEF Word
<1>2. QED BY <1>1, ModWord DEF WordSum

\* The low half of the product of two words is a word.
LEMMA ProductType ==
  ASSUME NEW x \in Word, NEW y \in Word
  PROVE  Product(x, y) \in Word
<1>1. x \in Int /\ y \in Int
  BY WordSizes DEF Word
<1>2. x * y \in Int
  BY <1>1
<1>3. QED BY <1>2, ModWord DEF Product

\* A quotient is at most its dividend.
LEMMA QuotientType ==
  ASSUME NEW x \in Word, NEW y \in Word, y # 0
  PROVE  Quotient(x, y) \in Word
<1>1. x \in Nat /\ y \in Nat \ {0} /\ x < WordSize
  BY WordSizes DEF Word
<1>2. \A m \in Nat, n \in Nat \ {0} : m \div n \in 0 .. m
  OBVIOUS
<1>3. x \div y \in 0 .. x
  BY <1>1, <1>2
<1>4. QED BY <1>1, <1>3, WordSizes DEF Quotient, Word

\* What decode finds in a word: register numbers, and a value that is a word.
LEMMA DecodeType ==
  ASSUME NEW v \in Word
  PROVE  /\ decode(v).A \in Register
         /\ decode(v).B \in Register
         /\ decode(v).C \in Register
         /\ decode(v).value \in Word
<1>1. v \in Nat
  BY WordSizes DEF Word
<1>2. RegisterCount \in Nat \ {0} /\ ValueCount \in Nat \ {0}
  BY PlatterAssumption
<1>3. \A m \in Nat, n \in Nat \ {0} : m \div n \in Nat
  OBVIOUS
<1>4. RegisterCount * RegisterCount \in Nat \ {0}
  BY <1>2
<1>5. \A m \in Nat : m % RegisterCount \in Register
  BY <1>2, ModRange DEF Register
<1>6. v % ValueCount \in Word
  BY <1>1, <1>2, ModRange, WordSizes DEF Word
<1>7. 0 \in Register /\ 0 \in Word
  BY <1>2, WordSizes DEF Register, Word
<1>8. CASE v \div OperatorUnit = orthography
  <2>1. decode(v) = OrthographyFormat(v)
    BY <1>8 DEF decode
  <2>2. (v \div ValueCount) % RegisterCount \in Register
    BY <1>1, <1>2, <1>3, <1>5
  <2>3. QED BY <2>1, <2>2, <1>6, <1>7 DEF OrthographyFormat
<1>9. CASE v \div OperatorUnit # orthography
  <2>1. decode(v) = GeneralFormat(v)
    BY <1>9 DEF decode
  <2>2. /\ (v \div (RegisterCount * RegisterCount)) % RegisterCount \in Register
        /\ (v \div RegisterCount) % RegisterCount \in Register
        /\ v % RegisterCount \in Register
    BY <1>1, <1>2, <1>3, <1>4, <1>5
  <2>3. QED BY <2>1, <2>2, <1>7 DEF GeneralFormat
<1>10. QED BY <1>8, <1>9

-----------------------------------------------------------------------------
\* What the operations make of the record of one array.

\* An array with its code replaced and its modifications compiled in is an
\* array; nothing else of it changes.
LEMMA ArrayRecord ==
  \A a, id : IsArray(a) /\ id \in CodeIds \union {NoCode} =>
    /\ IsArray(CleanArray(a, id))
    /\ CleanArray(a, id).size = a.size
    /\ CleanArray(a, id).dirty = FALSE
    /\ CleanArray(a, id).nativeCode = id
    /\ CleanArray(a, id).platters = a.platters
BY DEF IsArray, ArrayOf, CleanArray

\* An amended array is an array, dirty, with one platter replaced.
LEMMA AmendedRecord ==
  \A a, j, v : IsArray(a) /\ v \in Word =>
    /\ IsArray(Amended(a, j, v))
    /\ Amended(a, j, v).size = a.size
    /\ Amended(a, j, v).dirty = TRUE
    /\ Amended(a, j, v).nativeCode = a.nativeCode
    /\ Amended(a, j, v).platters = [a.platters EXCEPT ![j] = v]
<1> TAKE a, j, v
<1> HAVE IsArray(a) /\ v \in Word
<1> QED BY DEF IsArray, ArrayOf, Amended

\* Replacing the code of an array changes nothing else of it.
LEMMA MovedRecord ==
  \A a, id : IsArray(a) /\ id \in CodeIds \union {NoCode} =>
    /\ IsArray([a EXCEPT !.nativeCode = id])
    /\ [a EXCEPT !.nativeCode = id].size = a.size
    /\ [a EXCEPT !.nativeCode = id].dirty = a.dirty
    /\ [a EXCEPT !.nativeCode = id].nativeCode = id
    /\ [a EXCEPT !.nativeCode = id].platters = a.platters
BY DEF IsArray, ArrayOf

\* A clone has the size and the platters of the original and is not dirty.
LEMMA CloneRecord ==
  \A a : IsArray(a) =>
    /\ IsArray(cloneOf(a))
    /\ cloneOf(a).size = a.size
    /\ cloneOf(a).dirty = FALSE
    /\ cloneOf(a).platters = a.platters
BY DEF IsArray, ArrayOf, cloneOf

\* A created array is clean, has no code, and is filled with zeros.
LEMMA NewArrayRecord ==
  \A n \in Nat :
    /\ IsArray(newArray(n))
    /\ newArray(n).size = n
    /\ newArray(n).dirty = FALSE
    /\ newArray(n).nativeCode = NoCode
    /\ newArray(n).platters = [i \in 0 .. n - 1 |-> 0]
BY WordSizes DEF IsArray, ArrayOf, newArray, Word

\* Storing at a key adds the key and leaves the other keys alone.
LEMMA StoredFunction ==
  \A f, x, v :
    /\ DOMAIN Stored(f, x, v) = DOMAIN f \union {x}
    /\ Stored(f, x, v)[x] = v
    /\ \A y \in DOMAIN f : y # x => Stored(f, x, v)[y] = f[y]
BY DEF Stored

\* Releasing a block removes it and leaves the other blocks alone.
LEMMA ReleasedFunction ==
  \A codes, id :
    /\ DOMAIN Released(codes, id) = DOMAIN codes \ {id}
    /\ \A y \in DOMAIN codes \ {id} : Released(codes, id)[y] = codes[y]
BY DEF Released, Restrict

\* A stub written over a cell leaves a block of the same size, and the other
\* cells of it alone.
LEMMA StubbedRecord ==
  \A b, j : IsBlock(b) =>
    /\ IsBlock(Stubbed(b, j))
    /\ Stubbed(b, j).size = b.size
    /\ \A k \in DOMAIN b.code \ {j} : Stubbed(b, j).code[k] = b.code[k]
<1>1. Stub \in Stub .. AllOnes
  BY WordSizes DEF Stub, AllOnes
<1>2. QED BY <1>1 DEF IsBlock, BlockOf, Stubbed

-----------------------------------------------------------------------------
\* Every array is an array and every block a block.
HeapTyped(arrs, codes) ==
  /\ \A i \in DOMAIN arrs : IsArray(arrs[i])
  /\ DOMAIN codes \subseteq CodeIds
  /\ \A id \in DOMAIN codes : IsBlock(codes[id])

\* The three parts of CodeOwnership: code pointers are live and of the size of
\* their array, no two arrays share one, and every block has an owner.
CodeLive(arrs, codes) ==
  \A i \in DOMAIN arrs :
    arrs[i].nativeCode # NoCode =>
      /\ arrs[i].nativeCode \in DOMAIN codes
      /\ codes[arrs[i].nativeCode].size = arrs[i].size

CodeUnshared(arrs) ==
  \A i, j \in DOMAIN arrs :
    arrs[i].nativeCode = arrs[j].nativeCode =>
      i = j \/ arrs[i].nativeCode = NoCode

CodeReachable(arrs, codes) ==
  \A id \in DOMAIN codes : \E i \in DOMAIN arrs : arrs[i].nativeCode = id

\* StubsOnlyInDirtyArray0.
StubsConfined(arrs, codes) ==
  \A i \in DOMAIN arrs :
    arrs[i].nativeCode # NoCode =>
      \A j \in 0 .. arrs[i].size - 1 :
        codes[arrs[i].nativeCode].code[j] = Stub => i = 0 /\ arrs[0].dirty

\* What every heap operation preserves.
Sound(arrs, codes) ==
  /\ HeapTyped(arrs, codes)
  /\ CodeLive(arrs, codes) /\ CodeUnshared(arrs) /\ CodeReachable(arrs, codes)
  /\ StubsConfined(arrs, codes)

\* The stub is not the code of any word.
LEMMA StubNoWord == Stub \notin Word
BY WordSizes DEF Stub, Word

\* generateNativeCode on array i: the old block is released, the new one is owned
\* by i alone, and it has no stub.
LEMMA GenerateSound ==
  ASSUME NEW arrs, NEW codes, Sound(arrs, codes), NEW i \in DOMAIN arrs,
         NEW id \in FreshCode(codes, arrs[i])
  PROVE  /\ Sound([arrs EXCEPT ![i] = CleanArray(@, id)],
                  generateNativeCode(codes, arrs[i], id))
         /\ id \in CodeIds /\ id # NoCode
<1> DEFINE as == [arrs EXCEPT ![i] = CleanArray(@, id)]
           cs == generateNativeCode(codes, arrs[i], id)
           old == arrs[i].nativeCode
           block == [size |-> arrs[i].size, code |-> arrs[i].platters]
<1>0. /\ HeapTyped(arrs, codes) /\ StubsConfined(arrs, codes)
      /\ CodeLive(arrs, codes) /\ CodeUnshared(arrs)
      /\ CodeReachable(arrs, codes)
  BY DEF Sound
<1>1. id \in CodeIds /\ id # NoCode /\ id \notin DOMAIN codes \ {old}
  BY ContextAssumption, ReleasedFunction DEF FreshCode
<1>2. /\ DOMAIN cs = (DOMAIN codes \ {old}) \union {id}
      /\ cs[id] = block
      /\ \A k \in DOMAIN codes \ {old} : k # id => cs[k] = codes[k]
  <2> DEFINE rel == Released(codes, old)
  <2>1. /\ DOMAIN rel = DOMAIN codes \ {old}
        /\ \A k \in DOMAIN codes \ {old} : rel[k] = codes[k]
    BY DEF Released, Restrict
  <2>2. cs = Stored(rel, id, block)
    BY DEF generateNativeCode
  <2> HIDE DEF rel, cs, block
  <2>3. /\ DOMAIN cs = DOMAIN rel \union {id}
        /\ cs[id] = block
        /\ \A k \in DOMAIN rel : k # id => cs[k] = rel[k]
    BY <2>2 DEF Stored
  <2>4. QED BY <2>1, <2>3
<1>3. /\ DOMAIN as = DOMAIN arrs
      /\ as[i] = CleanArray(arrs[i], id)
      /\ \A k \in DOMAIN arrs : k # i => as[k] = arrs[k]
  OBVIOUS
<1>4. /\ IsArray(as[i]) /\ as[i].size = arrs[i].size
      /\ as[i].dirty = FALSE /\ as[i].nativeCode = id
  <2>1. IsArray(arrs[i])
    BY <1>0 DEF HeapTyped
  <2>2. QED BY <2>1, <1>1, <1>3, ArrayRecord
<1>5. IsBlock(block) /\ block.size = arrs[i].size /\ block.code = arrs[i].platters
  BY <1>0 DEF HeapTyped, IsArray, ArrayOf, IsBlock, BlockOf, Word, AllOnes, Stub
<1>6. \A k \in 0 .. arrs[i].size - 1 : block.code[k] # Stub
  BY <1>0, StubNoWord DEF HeapTyped, IsArray, ArrayOf
<1> HIDE DEF as, cs, block
<1>7. \A k \in DOMAIN arrs : k # i =>
        /\ arrs[k].nativeCode # id
        /\ arrs[k].nativeCode # NoCode => arrs[k].nativeCode # old
  <2> SUFFICES ASSUME NEW k \in DOMAIN arrs, k # i
               PROVE  /\ arrs[k].nativeCode # id
                      /\ arrs[k].nativeCode # NoCode => arrs[k].nativeCode # old
    OBVIOUS
  <2>1. arrs[k].nativeCode # NoCode => arrs[k].nativeCode # old
    BY <1>0 DEF CodeUnshared
  <2>2. arrs[k].nativeCode # NoCode => arrs[k].nativeCode \in DOMAIN codes
    BY <1>0 DEF CodeLive
  <2>3. QED BY <2>1, <2>2, <1>1
<1>8. HeapTyped(as, cs)
  BY <1>0, <1>1, <1>2, <1>3, <1>4, <1>5 DEF HeapTyped
<1>9. CodeLive(as, cs)
  <2> SUFFICES ASSUME NEW k \in DOMAIN as, as[k].nativeCode # NoCode
               PROVE  /\ as[k].nativeCode \in DOMAIN cs
                      /\ cs[as[k].nativeCode].size = as[k].size
    BY DEF CodeLive
  <2>1. CASE k = i
    BY <2>1, <1>2, <1>4, <1>5
  <2>2. CASE k # i
    <3>1. as[k] = arrs[k]
      BY <2>2, <1>3
    <3>2. arrs[k].nativeCode \in DOMAIN codes
          /\ codes[arrs[k].nativeCode].size = arrs[k].size
      BY <3>1, <1>0, <1>3 DEF CodeLive
    <3>3. QED BY <2>2, <3>1, <3>2, <1>2, <1>3, <1>7
  <2>3. QED BY <2>1, <2>2
<1>10. CodeUnshared(as)
  <2> SUFFICES ASSUME NEW k \in DOMAIN as, NEW l \in DOMAIN as,
                      as[k].nativeCode = as[l].nativeCode, k # l
               PROVE  as[k].nativeCode = NoCode
    BY DEF CodeUnshared
  <2>1. CASE k # i /\ l # i
    <3>1. as[k] = arrs[k] /\ as[l] = arrs[l]
      BY <2>1, <1>3
    <3>2. QED BY <3>1, <1>0, <1>3 DEF CodeUnshared
  <2>2. CASE k = i \/ l = i
    BY <2>2, <1>3, <1>4, <1>7
  <2>3. QED BY <2>1, <2>2
<1>11. CodeReachable(as, cs)
  <2> SUFFICES ASSUME NEW k \in DOMAIN cs
               PROVE  \E m \in DOMAIN as : as[m].nativeCode = k
    BY DEF CodeReachable
  <2>1. CASE k = id
    BY <2>1, <1>3, <1>4
  <2>2. CASE k # id
    <3>1. PICK m \in DOMAIN arrs : arrs[m].nativeCode = k
      BY <2>2, <1>0, <1>2 DEF CodeReachable
    <3>2. m # i
      BY <3>1, <2>2, <1>2
    <3>3. QED BY <3>1, <3>2, <1>3
  <2>3. QED BY <2>1, <2>2
<1>12. StubsConfined(as, cs)
  <2> SUFFICES ASSUME NEW k \in DOMAIN as, as[k].nativeCode # NoCode,
                      NEW j \in 0 .. as[k].size - 1,
                      cs[as[k].nativeCode].code[j] = Stub
               PROVE  k = 0 /\ as[0].dirty
    BY DEF StubsConfined
  <2>1. k # i
    BY <1>2, <1>4, <1>6
  <2>2. as[k] = arrs[k] /\ as[k].nativeCode # id /\ as[k].nativeCode # old
    BY <2>1, <1>3, <1>7
  <2>3. as[k].nativeCode \in DOMAIN codes
    BY <2>2, <1>0, <1>3 DEF CodeLive
  <2>4. cs[as[k].nativeCode] = codes[arrs[k].nativeCode]
    BY <2>2, <2>3, <1>2
  <2>5. k = 0 /\ arrs[0].dirty
    BY <2>2, <2>4, <1>0, <1>3 DEF StubsConfined
  <2>6. QED BY <2>1, <2>2, <2>5
<1>13. QED
  BY <1>1, <1>8, <1>9, <1>10, <1>11, <1>12 DEF Sound, as, cs

\* array::destroy: the block goes with its only owner.
LEMMA DestroySound ==
  ASSUME NEW arrs, NEW codes, Sound(arrs, codes), NEW i \in DOMAIN arrs
  PROVE  Sound(Restrict(arrs, DOMAIN arrs \ {i}),
               Released(codes, arrs[i].nativeCode))
<1> DEFINE as == Restrict(arrs, DOMAIN arrs \ {i})
           cs == Released(codes, arrs[i].nativeCode)
<1>0. /\ HeapTyped(arrs, codes) /\ StubsConfined(arrs, codes)
      /\ CodeLive(arrs, codes) /\ CodeUnshared(arrs)
      /\ CodeReachable(arrs, codes)
  BY DEF Sound
<1>1. /\ DOMAIN as = DOMAIN arrs \ {i}
      /\ \A k \in DOMAIN as : as[k] = arrs[k]
  BY DEF Restrict
<1>2. /\ DOMAIN cs = DOMAIN codes \ {arrs[i].nativeCode}
      /\ \A k \in DOMAIN cs : cs[k] = codes[k]
  BY DEF Released, Restrict
<1> HIDE DEF as, cs
<1>3. HeapTyped(as, cs)
  BY <1>0, <1>1, <1>2 DEF HeapTyped
<1>4. \A k \in DOMAIN as : as[k].nativeCode # NoCode =>
        /\ as[k].nativeCode \in DOMAIN cs
        /\ codes[as[k].nativeCode].size = as[k].size
  <2> SUFFICES ASSUME NEW k \in DOMAIN as, as[k].nativeCode # NoCode
               PROVE  /\ as[k].nativeCode \in DOMAIN cs
                      /\ codes[as[k].nativeCode].size = as[k].size
    OBVIOUS
  <2>1. as[k] = arrs[k] /\ k \in DOMAIN arrs /\ k # i
    BY <1>1
  <2>2. arrs[k].nativeCode # arrs[i].nativeCode
    BY <2>1, <1>0 DEF CodeUnshared
  <2>3. /\ arrs[k].nativeCode \in DOMAIN codes
        /\ codes[arrs[k].nativeCode].size = arrs[k].size
    BY <2>1, <1>0 DEF CodeLive
  <2>4. QED BY <2>1, <2>2, <2>3, <1>2
<1>5. CodeLive(as, cs)
  BY <1>2, <1>4 DEF CodeLive
<1>6. CodeUnshared(as)
  BY <1>0, <1>1 DEF CodeUnshared
<1>7. CodeReachable(as, cs)
  BY <1>0, <1>1, <1>2 DEF CodeReachable
<1>8. StubsConfined(as, cs)
  <2> SUFFICES ASSUME NEW k \in DOMAIN as, as[k].nativeCode # NoCode,
                      NEW j \in 0 .. as[k].size - 1,
                      cs[as[k].nativeCode].code[j] = Stub
               PROVE  k = 0 /\ as[0].dirty
    BY DEF StubsConfined
  <2>1. cs[as[k].nativeCode] = codes[arrs[k].nativeCode]
    BY <1>1, <1>2, <1>4
  <2>2. QED BY <2>1, <1>0, <1>1 DEF StubsConfined
<1>9. QED BY <1>3, <1>5, <1>6, <1>7, <1>8 DEF Sound, as, cs

\* array::create in an empty slot: a new array owns nothing.
LEMMA StoreSound ==
  ASSUME NEW arrs, NEW codes, Sound(arrs, codes), NEW i, i \notin DOMAIN arrs,
         NEW n \in Nat
  PROVE  Sound(Stored(arrs, i, newArray(n)), codes)
<1> DEFINE as == Stored(arrs, i, newArray(n))
<1>0. /\ HeapTyped(arrs, codes) /\ StubsConfined(arrs, codes)
      /\ CodeLive(arrs, codes) /\ CodeUnshared(arrs)
      /\ CodeReachable(arrs, codes)
  BY DEF Sound
<1>1. /\ DOMAIN as = DOMAIN arrs \union {i}
      /\ IsArray(as[i]) /\ as[i].nativeCode = NoCode
      /\ \A k \in DOMAIN arrs : as[k] = arrs[k]
  <2>1. IsArray(newArray(n)) /\ newArray(n).nativeCode = NoCode
    BY NewArrayRecord
  <2>2. /\ DOMAIN as = DOMAIN arrs \union {i}
        /\ as[i] = newArray(n)
        /\ \A k \in DOMAIN arrs : k # i => as[k] = arrs[k]
    BY DEF Stored
  <2>3. QED BY <2>1, <2>2
<1> HIDE DEF as
<1>2. HeapTyped(as, codes)
  BY <1>0, <1>1 DEF HeapTyped
<1>3. CodeLive(as, codes)
  <2> SUFFICES ASSUME NEW k \in DOMAIN as, as[k].nativeCode # NoCode
               PROVE  /\ as[k].nativeCode \in DOMAIN codes
                      /\ codes[as[k].nativeCode].size = as[k].size
    BY DEF CodeLive
  <2>1. k \in DOMAIN arrs /\ as[k] = arrs[k]
    BY <1>1
  <2>2. QED BY <2>1, <1>0 DEF CodeLive
<1>4. CodeUnshared(as)
  BY <1>0, <1>1 DEF CodeUnshared
<1>5. CodeReachable(as, codes)
  BY <1>0, <1>1 DEF CodeReachable
<1>6. StubsConfined(as, codes)
  <2> SUFFICES ASSUME NEW k \in DOMAIN as, as[k].nativeCode # NoCode,
                      NEW j \in 0 .. as[k].size - 1,
                      codes[as[k].nativeCode].code[j] = Stub
               PROVE  k = 0 /\ as[0].dirty
    BY DEF StubsConfined
  <2>1. k \in DOMAIN arrs /\ as[k] = arrs[k]
    BY <1>1
  <2>2. k = 0 /\ arrs[0].dirty
    BY <2>1, <1>0 DEF StubsConfined
  <2>3. QED BY <2>1, <2>2
<1>7. QED BY <1>2, <1>3, <1>4, <1>5, <1>6 DEF Sound, as

\* The code of a clean array 0 moves to an array of its size that has none.
LEMMA GiveBackSound ==
  ASSUME NEW arrs, NEW codes, Sound(arrs, codes),
         0 \in DOMAIN arrs, NEW x \in DOMAIN arrs \ {0},
         ~arrs[0].dirty,
         arrs[x].nativeCode = NoCode, arrs[x].size = arrs[0].size
  PROVE  Sound([arrs EXCEPT
                  ![x] = [@ EXCEPT !.nativeCode = arrs[0].nativeCode],
                  ![0] = [@ EXCEPT !.nativeCode = NoCode]], codes)
<1> DEFINE as == [arrs EXCEPT
                    ![x] = [@ EXCEPT !.nativeCode = arrs[0].nativeCode],
                    ![0] = [@ EXCEPT !.nativeCode = NoCode]]
<1>0. /\ HeapTyped(arrs, codes) /\ StubsConfined(arrs, codes)
      /\ CodeLive(arrs, codes) /\ CodeUnshared(arrs)
      /\ CodeReachable(arrs, codes)
  BY DEF Sound
<1>1. IsArray(arrs[0]) /\ IsArray(arrs[x])
  BY <1>0 DEF HeapTyped
<1>2. arrs[0].nativeCode \in CodeIds \union {NoCode}
  BY <1>1 DEF IsArray, ArrayOf
<1>3. /\ DOMAIN as = DOMAIN arrs
      /\ as[x] = [arrs[x] EXCEPT !.nativeCode = arrs[0].nativeCode]
      /\ as[0] = [arrs[0] EXCEPT !.nativeCode = NoCode]
      /\ \A k \in DOMAIN arrs \ {0, x} : as[k] = arrs[k]
  OBVIOUS
<1> HIDE DEF as
<1>4. /\ IsArray(as[x]) /\ as[x].nativeCode = arrs[0].nativeCode
      /\ as[x].size = arrs[0].size
  BY <1>1, <1>2, <1>3, MovedRecord
<1>5. IsArray(as[0]) /\ as[0].nativeCode = NoCode
  BY <1>1, <1>3, MovedRecord
<1>6. HeapTyped(as, codes)
  BY <1>0, <1>3, <1>4, <1>5 DEF HeapTyped
<1>7. CodeLive(as, codes)
  <2> SUFFICES ASSUME NEW k \in DOMAIN as, as[k].nativeCode # NoCode
               PROVE  /\ as[k].nativeCode \in DOMAIN codes
                      /\ codes[as[k].nativeCode].size = as[k].size
    BY DEF CodeLive
  <2>1. CASE k = x
    BY <2>1, <1>0, <1>4 DEF CodeLive
  <2>2. CASE k # x
    <3>1. k # 0 /\ as[k] = arrs[k]
      BY <2>2, <1>3, <1>5
    <3>2. QED BY <3>1, <1>0, <1>3 DEF CodeLive
  <2>3. QED BY <2>1, <2>2
<1>8. \A k \in DOMAIN arrs \ {0, x} :
        arrs[k].nativeCode = arrs[0].nativeCode => arrs[k].nativeCode = NoCode
  BY <1>0 DEF CodeUnshared
<1>9. CodeUnshared(as)
  <2> SUFFICES ASSUME NEW k \in DOMAIN as, NEW l \in DOMAIN as,
                      as[k].nativeCode = as[l].nativeCode, k # l
               PROVE  as[k].nativeCode = NoCode
    BY DEF CodeUnshared
  <2>1. CASE k = 0 \/ l = 0
    BY <2>1, <1>5
  <2>2. CASE k = x /\ l \notin {0, x}
    <3>1. as[l] = arrs[l] /\ l \in DOMAIN arrs \ {0, x}
      BY <2>2, <1>3
    <3>2. QED BY <2>2, <3>1, <1>4, <1>8
  <2>5. CASE l = x /\ k \notin {0, x}
    <3>1. as[k] = arrs[k] /\ k \in DOMAIN arrs \ {0, x}
      BY <2>5, <1>3
    <3>2. QED BY <2>5, <3>1, <1>4, <1>8
  <2>3. CASE k \notin {0, x} /\ l \notin {0, x}
    <3>1. as[k] = arrs[k] /\ as[l] = arrs[l]
      BY <2>3, <1>3
    <3>2. QED BY <3>1, <1>0, <1>3 DEF CodeUnshared
  <2>4. QED BY <2>1, <2>2, <2>3, <2>5
<1>10. CodeReachable(as, codes)
  <2> SUFFICES ASSUME NEW id \in DOMAIN codes
               PROVE  \E m \in DOMAIN as : as[m].nativeCode = id
    BY DEF CodeReachable
  <2>1. PICK m \in DOMAIN arrs : arrs[m].nativeCode = id
    BY <1>0 DEF CodeReachable
  <2>2. id # NoCode
    BY <1>0, ContextAssumption DEF HeapTyped
  <2>3. CASE m = 0
    BY <2>1, <2>3, <1>3, <1>4
  <2>4. CASE m # 0
    BY <2>1, <2>2, <2>4, <1>3
  <2>5. QED BY <2>3, <2>4
<1>11. StubsConfined(as, codes)
  <2> SUFFICES ASSUME NEW k \in DOMAIN as, as[k].nativeCode # NoCode,
                      NEW j \in 0 .. as[k].size - 1,
                      codes[as[k].nativeCode].code[j] = Stub
               PROVE  FALSE
    BY DEF StubsConfined
  <2>1. CASE k = x
    BY <2>1, <1>0, <1>4 DEF StubsConfined
  <2>2. CASE k # x
    <3>1. k # 0 /\ as[k] = arrs[k]
      BY <2>2, <1>3, <1>5
    <3>2. QED BY <3>1, <1>0, <1>3 DEF StubsConfined
  <2>3. QED BY <2>1, <2>2
<1>12. QED BY <1>6, <1>7, <1>9, <1>10, <1>11 DEF Sound, as

\* An array gives its code to a clone of itself in slot 0, which was empty.
LEMMA InstallSound ==
  ASSUME NEW arrs, NEW codes, Sound(arrs, codes), 0 \notin DOMAIN arrs,
         NEW x \in DOMAIN arrs, arrs[x].nativeCode # NoCode,
         NEW as, DOMAIN as = DOMAIN arrs \union {0},
         IsArray(as[0]), as[0].nativeCode = arrs[x].nativeCode,
         as[0].size = arrs[x].size,
         IsArray(as[x]), as[x].nativeCode = NoCode,
         \A k \in DOMAIN arrs \ {x} : as[k] = arrs[k]
  PROVE  Sound(as, codes)
<1>0. /\ HeapTyped(arrs, codes) /\ StubsConfined(arrs, codes)
      /\ CodeLive(arrs, codes) /\ CodeUnshared(arrs)
      /\ CodeReachable(arrs, codes)
  BY DEF Sound
<1>1. HeapTyped(as, codes)
  BY <1>0 DEF HeapTyped
<1>2. CodeLive(as, codes)
  <2> SUFFICES ASSUME NEW k \in DOMAIN as, as[k].nativeCode # NoCode
               PROVE  /\ as[k].nativeCode \in DOMAIN codes
                      /\ codes[as[k].nativeCode].size = as[k].size
    BY DEF CodeLive
  <2>1. CASE k = 0
    BY <2>1, <1>0 DEF CodeLive
  <2>2. CASE k # 0
    <3>1. k \in DOMAIN arrs \ {x} /\ as[k] = arrs[k]
      BY <2>2
    <3>2. QED BY <3>1, <1>0 DEF CodeLive
  <2>3. QED BY <2>1, <2>2
<1>3. \A k \in DOMAIN arrs \ {x} : arrs[k].nativeCode # arrs[x].nativeCode
  BY <1>0 DEF CodeUnshared
<1>4. CodeUnshared(as)
  <2> SUFFICES ASSUME NEW k \in DOMAIN as, NEW l \in DOMAIN as,
                      as[k].nativeCode = as[l].nativeCode, k # l
               PROVE  as[k].nativeCode = NoCode
    BY DEF CodeUnshared
  <2>1. CASE k = x \/ l = x
    BY <2>1
  <2>2. CASE k # x /\ l # x /\ (k = 0 \/ l = 0)
    BY <2>2, <1>3
  <2>3. CASE k \notin {0, x} /\ l \notin {0, x}
    <3>1. as[k] = arrs[k] /\ as[l] = arrs[l]
      BY <2>3
    <3>2. QED BY <2>3, <3>1, <1>0 DEF CodeUnshared
  <2>4. QED BY <2>1, <2>2, <2>3
<1>5. CodeReachable(as, codes)
  <2> SUFFICES ASSUME NEW id \in DOMAIN codes
               PROVE  \E m \in DOMAIN as : as[m].nativeCode = id
    BY DEF CodeReachable
  <2>1. PICK m \in DOMAIN arrs : arrs[m].nativeCode = id
    BY <1>0 DEF CodeReachable
  <2>2. CASE m = x
    BY <2>1, <2>2
  <2>3. CASE m # x
    BY <2>1, <2>3
  <2>4. QED BY <2>2, <2>3
<1>6. StubsConfined(as, codes)
  <2> SUFFICES ASSUME NEW k \in DOMAIN as, as[k].nativeCode # NoCode,
                      NEW j \in 0 .. as[k].size - 1,
                      codes[as[k].nativeCode].code[j] = Stub
               PROVE  FALSE
    BY DEF StubsConfined
  <2>1. CASE k = 0
    BY <2>1, <1>0 DEF StubsConfined
  <2>2. CASE k # 0
    <3>1. k \in DOMAIN arrs \ {x} /\ as[k] = arrs[k]
      BY <2>2
    <3>2. QED BY <3>1, <1>0 DEF StubsConfined
  <2>3. QED BY <2>1, <2>2
<1>7. QED BY <1>1, <1>2, <1>4, <1>5, <1>6 DEF Sound

\* An amendment: in array 0 it makes it dirty and puts a stub in its code; in
\* another array it leaves the code alone.
LEMMA AmendSound ==
  ASSUME NEW arrs, NEW codes, Sound(arrs, codes), NEW i \in DOMAIN arrs,
         NEW j, NEW v \in Word,
         NEW cs,
         \/ i # 0 /\ cs = codes
         \/ i = 0 /\ arrs[0].nativeCode # NoCode
            /\ cs = Patched(codes, arrs[0].nativeCode, j)
  PROVE  Sound([arrs EXCEPT ![i] = Amended(@, j, v)], cs)
<1> DEFINE as == [arrs EXCEPT ![i] = Amended(@, j, v)]
<1>0. /\ HeapTyped(arrs, codes) /\ StubsConfined(arrs, codes)
      /\ CodeLive(arrs, codes) /\ CodeUnshared(arrs)
      /\ CodeReachable(arrs, codes)
  BY DEF Sound
<1>1. /\ DOMAIN as = DOMAIN arrs
      /\ as[i] = Amended(arrs[i], j, v)
      /\ \A k \in DOMAIN arrs : k # i => as[k] = arrs[k]
  OBVIOUS
<1>2. IsArray(arrs[i])
  BY <1>0 DEF HeapTyped
<1>3. /\ IsArray(as[i]) /\ as[i].size = arrs[i].size
      /\ as[i].dirty = TRUE /\ as[i].nativeCode = arrs[i].nativeCode
  <2>1. /\ IsArray(Amended(arrs[i], j, v))
        /\ Amended(arrs[i], j, v).size = arrs[i].size
        /\ Amended(arrs[i], j, v).dirty = TRUE
        /\ Amended(arrs[i], j, v).nativeCode = arrs[i].nativeCode
    <3>1. IsArray(Amended(arrs[i], j, v))
      BY <1>2, AmendedRecord
    <3>2. Amended(arrs[i], j, v).size = arrs[i].size
      BY <1>2 DEF Amended, IsArray, ArrayOf
    <3>3. Amended(arrs[i], j, v).dirty = TRUE
      BY <1>2, AmendedRecord
    <3>4. Amended(arrs[i], j, v).nativeCode = arrs[i].nativeCode
      BY <1>2 DEF Amended, IsArray, ArrayOf
    <3>5. QED BY <3>1, <3>2, <3>3, <3>4
  <2>2. QED BY <1>1, <2>1
<1> HIDE DEF as
<1>4. \A k \in DOMAIN arrs :
        /\ IsArray(as[k]) /\ as[k].size = arrs[k].size
        /\ as[k].nativeCode = arrs[k].nativeCode
  BY <1>0, <1>1, <1>3 DEF HeapTyped
<1>5. /\ DOMAIN cs = DOMAIN codes
      /\ \A id \in DOMAIN codes : IsBlock(cs[id]) /\ cs[id].size = codes[id].size
  <2>1. CASE cs = codes
    BY <2>1, <1>0 DEF HeapTyped
  <2>2. CASE cs = Patched(codes, arrs[0].nativeCode, j)
    <3>1. DOMAIN cs = DOMAIN codes
      BY <2>2 DEF Patched
    <3>2. ASSUME NEW id \in DOMAIN codes
          PROVE  IsBlock(cs[id]) /\ cs[id].size = codes[id].size
      <4>1. IsBlock(codes[id])
        BY <1>0 DEF HeapTyped
      <4>2. CASE id = arrs[0].nativeCode
        <5>1. cs[id] = Stubbed(codes[id], j)
          BY <2>2, <4>2 DEF Patched
        <5>2. QED BY <4>1, <5>1, StubbedRecord
      <4>3. CASE id # arrs[0].nativeCode
        <5>1. cs[id] = codes[id]
          BY <2>2, <4>3 DEF Patched
        <5>2. QED BY <4>1, <5>1
      <4>4. QED BY <4>2, <4>3
    <3>3. QED BY <3>1, <3>2
  <2>3. QED BY <2>1, <2>2
<1>6. HeapTyped(as, cs)
  BY <1>0, <1>1, <1>4, <1>5 DEF HeapTyped
<1>7. CodeLive(as, cs)
  <2> SUFFICES ASSUME NEW k \in DOMAIN as, as[k].nativeCode # NoCode
               PROVE  /\ as[k].nativeCode \in DOMAIN cs
                      /\ cs[as[k].nativeCode].size = as[k].size
    BY DEF CodeLive
  <2>1. /\ arrs[k].nativeCode \in DOMAIN codes
        /\ codes[arrs[k].nativeCode].size = arrs[k].size
    BY <1>0, <1>1, <1>4 DEF CodeLive
  <2>2. QED BY <2>1, <1>1, <1>4, <1>5
<1>8. CodeUnshared(as)
  BY <1>0, <1>1, <1>4 DEF CodeUnshared
<1>9. CodeReachable(as, cs)
  <2> SUFFICES ASSUME NEW id \in DOMAIN cs
               PROVE  \E k \in DOMAIN as : as[k].nativeCode = id
    BY DEF CodeReachable
  <2>1. PICK k \in DOMAIN arrs : arrs[k].nativeCode = id
    BY <1>0, <1>5 DEF CodeReachable
  <2>2. QED BY ONLY <1>1, <1>4, <2>1
<1>10. StubsConfined(as, cs)
  <2> SUFFICES ASSUME NEW k \in DOMAIN as, as[k].nativeCode # NoCode,
                      NEW l \in 0 .. as[k].size - 1,
                      cs[as[k].nativeCode].code[l] = Stub,
                      ~(i = 0 /\ k = 0)
               PROVE  k = 0 /\ as[0].dirty
    BY <1>3 DEF StubsConfined
  <2>1. cs[arrs[k].nativeCode] = codes[arrs[k].nativeCode]
    <3>1. CASE cs = codes
      BY <3>1
    <3>2. CASE i = 0 /\ cs = Patched(codes, arrs[0].nativeCode, j)
      <4>1. arrs[k].nativeCode # arrs[0].nativeCode
        BY <3>2, <1>0, <1>1, <1>4 DEF CodeUnshared
      <4>2. arrs[k].nativeCode \in DOMAIN codes
        BY <1>0, <1>1, <1>4 DEF CodeLive
      <4>3. QED BY <3>2, <4>1, <4>2 DEF Patched
    <3>3. QED BY <3>1, <3>2
  <2>2. k = 0 /\ arrs[0].dirty
    BY <2>1, <1>0, <1>1, <1>4 DEF StubsConfined
  <2>3. QED BY <2>2, <1>1
<1>11. QED BY <1>6, <1>7, <1>8, <1>9, <1>10 DEF Sound, as

-----------------------------------------------------------------------------
\* The part of the invariant about arrays and native code.
HeapInvariant ==
  /\ Sound(arrays, nativeCodes)
  /\ arraysSize \in Nat /\ capacity \in Nat
  /\ DOMAIN arrays \subseteq 0 .. arraysSize - 1
  /\ array0Source \in Nat /\ minEmptyArrayIndex \in Nat
  /\ SourceLink
  /\ MinEmptyIsSmallest

\* The types of the registers, the streams and the locals of run().
LocalsTyped ==
  /\ registers \in [Register -> Word]
  /\ eof \in BOOLEAN /\ os \in Seq(0 .. 255)
  /\ arraysPtr \in Nat /\ jumpTable \in CodeIds \union {NoCode}
  /\ resumeAt \in [ block : CodeIds \union {NoCode}, platter : Nat,
                    offset : Nat ]
  /\ eaxValue \in Word
  /\ returned \in [code : ReturnCodes, value1 : Word, value2 : Word]
  /\ status \in {"constructed", "running"} \union Outcomes

\* The part of the invariant about the place execution is at.
ControlInvariant ==
  /\ status = "constructed" => 0 \in DOMAIN arrays /\ returned = NotReturned
  /\ RunLocalsFresh
  /\ NothingAfterArray0
  /\ SinglePlatterNotRestarted
  /\ RecompileFromInside

\* Soundness of the heap of the context is the heap's part of the invariant.
LEMMA SoundIff ==
  Sound(arrays, nativeCodes)
    <=> /\ \A i \in DOMAIN arrays : IsArray(arrays[i])
        /\ DOMAIN nativeCodes \subseteq CodeIds
        /\ \A id \in DOMAIN nativeCodes : IsBlock(nativeCodes[id])
        /\ CodeOwnership
        /\ StubsOnlyInDirtyArray0
BY DEF Sound, HeapTyped, CodeLive, CodeUnshared, CodeReachable, StubsConfined,
       CodeOwnership, Owns, StubsOnlyInDirtyArray0

\* The invariant, as what it says of the heap, of the types of the locals and of
\* the place in run().
LEMMA InvariantParts ==
  InductiveInvariant <=> HeapInvariant /\ LocalsTyped /\ ControlInvariant
BY SoundIff DEF InductiveInvariant, HeapInvariant, LocalsTyped,
                ControlInvariant, TypeOK

\* The same in the next state.
LEMMA InvariantPartsPrimed ==
  HeapInvariant' /\ LocalsTyped' /\ ControlInvariant' => InductiveInvariant'
BY InvariantParts, PTL

-----------------------------------------------------------------------------
\* The constructor establishes the invariant.
LEMMA InitInvariant == Init => InductiveInvariant
<1> SUFFICES ASSUME Init PROVE InductiveInvariant
  OBVIOUS
<1> USE DEF Init
<1>1. PICK s \in Scrolls :
        arrays = [i \in {0} |-> [newArray(s.size) EXCEPT !.platters = s.platters]]
  OBVIOUS
<1>2. s.size \in Nat /\ s.platters \in [0 .. s.size - 1 -> Word]
  BY ContextAssumption
<1>3. /\ DOMAIN arrays = {0}
      /\ IsArray(arrays[0])
      /\ arrays[0].nativeCode = NoCode
  BY <1>1, <1>2 DEF IsArray, ArrayOf, newArray
<1>4. DOMAIN nativeCodes = {}
  OBVIOUS
<1>5. Sound(arrays, nativeCodes)
  BY <1>3, <1>4 DEF Sound, HeapTyped, CodeLive, CodeUnshared, CodeReachable,
                    StubsConfined
<1>6. HeapInvariant
  <2>1. SourceLink
    BY DEF SourceLink
  <2>2. MinEmptyIsSmallest
    BY <1>3 DEF MinEmptyIsSmallest
  <2>3. DOMAIN arrays \subseteq 0 .. arraysSize - 1
    BY <1>3
  <2>4. /\ arraysSize \in Nat /\ capacity \in Nat
        /\ array0Source \in Nat /\ minEmptyArrayIndex \in Nat
    OBVIOUS
  <2>5. QED BY <1>5, <2>1, <2>2, <2>3, <2>4 DEF HeapInvariant
<1>7. LocalsTyped
  <2>1. 0 \in Word
    BY WordSizes DEF Word
  <2>2. registers \in [Register -> Word]
    BY <2>1
  <2>3. returned \in [code : ReturnCodes, value1 : Word, value2 : Word]
    BY <2>1 DEF NotReturned, ReturnCodes
  <2>4. resumeAt \in [ block : CodeIds \union {NoCode}, platter : Nat,
                       offset : Nat ]
    BY DEF AddressOf
  <2>5. /\ arraysPtr \in Nat /\ jumpTable \in CodeIds \union {NoCode}
        /\ eof \in BOOLEAN /\ eaxValue \in Word
    BY <2>1
  <2>6. os \in Seq(0 .. 255)
    OBVIOUS
  <2>7. status \in {"constructed", "running"} \union Outcomes
    OBVIOUS
  <2>8. QED BY <2>2, <2>3, <2>4, <2>5, <2>6, <2>7 DEF LocalsTyped
<1>8. ControlInvariant
  BY <1>3 DEF ControlInvariant, RunLocalsFresh, NothingAfterArray0,
              SinglePlatterNotRestarted, RecompileFromInside, Requested
<1>9. QED BY <1>6, <1>7, <1>8, InvariantParts

\* A step that ends run() disturbs nothing.
LEMMA StopStep ==
  ASSUME InductiveInvariant, NEW outcome \in Outcomes, Stop(outcome)
  PROVE  InductiveInvariant'
<1> USE DEF Stop, heap, io, locals
<1>1. HeapInvariant'
  BY InvariantParts
     DEF HeapInvariant, SourceLink, MinEmptyIsSmallest
<1>2. LocalsTyped'
  BY InvariantParts DEF LocalsTyped
<1>3. status' # "running" /\ status' # "constructed"
  BY DEF Outcomes
<1>4. ControlInvariant'
  BY <1>3 DEF ControlInvariant, RunLocalsFresh, NothingAfterArray0,
              SinglePlatterNotRestarted, RecompileFromInside, Requested
<1>5. QED BY <1>1, <1>2, <1>4, InvariantPartsPrimed

\* What the invariant says while a platter of native code executes: the
\* instruction pointer is in the live block of array 0, on one of its platters.
LEMMA AtPlatterFacts ==
  ASSUME InductiveInvariant, AtPlatter
  PROVE  /\ status = "running" /\ returned = NotReturned
         /\ 0 \in DOMAIN arrays
         /\ jumpTable = arrays[0].nativeCode /\ jumpTable # NoCode
         /\ resumeAt.block = jumpTable /\ jumpTable \in DOMAIN nativeCodes
         /\ IsBlock(Block) /\ Block.size = arrays[0].size
         /\ resumeAt.platter \in 0 .. arrays[0].size - 1
         /\ ~(/\ arrays[0].size = 1
              /\ nativeCodes[arrays[0].nativeCode].code[0] = Stub)
<1> USE InvariantParts
<1>1. status = "running" /\ returned = NotReturned /\ InLiveBlock
      /\ resumeAt.platter < Block.size
  BY DEF AtPlatter, Executing
<1>2. 0 \in DOMAIN arrays
  BY <1>1 DEF ControlInvariant, NothingAfterArray0
<1>3. /\ jumpTable = arrays[0].nativeCode /\ jumpTable # NoCode
      /\ resumeAt.block = jumpTable
  BY <1>1, <1>2 DEF ControlInvariant, RunLocalsFresh
<1>4. jumpTable \in DOMAIN nativeCodes
  BY <1>1, <1>3 DEF InLiveBlock
<1>5. IsBlock(Block)
  BY <1>3, <1>4 DEF Block, HeapInvariant, Sound, HeapTyped
<1>6. Block.size = arrays[0].size
  BY <1>2, <1>3 DEF Block, HeapInvariant, Sound, CodeLive
<1>7. resumeAt.platter \in Nat
  BY DEF LocalsTyped
<1>8. resumeAt.platter \in 0 .. arrays[0].size - 1
  BY <1>1, <1>5, <1>6, <1>7 DEF IsBlock
<1>9. ~(/\ arrays[0].size = 1
        /\ nativeCodes[arrays[0].nativeCode].code[0] = Stub)
  BY <1>1, <1>2, <1>8 DEF ControlInvariant, SinglePlatterNotRestarted
<1>10. QED BY <1>1, <1>2, <1>3, <1>4, <1>5, <1>6, <1>8, <1>9

\* The address of the next platter is an address in the same block.
LEMMA NextPlatterType ==
  ASSUME InductiveInvariant
  PROVE  /\ NextPlatter \in [ block : CodeIds \union {NoCode}, platter : Nat,
                              offset : Nat ]
         /\ NextPlatter.block = resumeAt.block
         /\ NextPlatter.platter = resumeAt.platter + 1
<1>1. resumeAt.block \in CodeIds \union {NoCode} /\ resumeAt.platter \in Nat
  BY InvariantParts DEF LocalsTyped
<1>2. QED BY <1>1 DEF NextPlatter, AddressOf

\* What the invariant says while an intact platter executes: its word decodes to
\* registers, and registers hold words.
LEMMA ExecutesFacts ==
  ASSUME InductiveInvariant, NEW op, Executes(op)
  PROVE  /\ AtPlatter
         /\ Cell \in Word
         /\ A \in Register /\ B \in Register /\ C \in Register
         /\ value \in Word
         /\ registers[A] \in Word /\ registers[B] \in Word
         /\ registers[C] \in Word
<1>1. AtPlatter /\ Cell # Stub
  BY DEF Executes
<1>2. IsBlock(Block) /\ resumeAt.platter \in 0 .. Block.size - 1
  BY <1>1, AtPlatterFacts
<1>3. Cell \in Stub .. AllOnes
  BY <1>2 DEF Cell, IsBlock, BlockOf
<1>4. Cell \in Word
  BY <1>1, <1>3, WordSizes DEF Stub, Word, AllOnes
<1>5. A \in Register /\ B \in Register /\ C \in Register /\ value \in Word
  BY <1>4, DecodeType DEF A, B, C, value
<1>6. registers \in [Register -> Word]
  BY InvariantParts DEF LocalsTyped
<1>7. QED BY <1>1, <1>4, <1>5, <1>6

\* A step of native code that leaves the heap alone.
LEMMA PlatterStep ==
  ASSUME InductiveInvariant, AtPlatter,
         UNCHANGED << heap, arraysPtr, jumpTable, status >>,
         LocalsTyped',
         resumeAt'.block = resumeAt.block,
         \/ returned'.code # "recompile"
         \/ /\ resumeAt'.offset > 0 /\ resumeAt'.platter = resumeAt.platter
            /\ Cell = Stub
  PROVE  InductiveInvariant'
<1> USE DEF heap
<1>1. HeapInvariant'
  BY InvariantParts DEF HeapInvariant, SourceLink, MinEmptyIsSmallest
<1>2. /\ status = "running" /\ 0 \in DOMAIN arrays
      /\ jumpTable = arrays[0].nativeCode /\ jumpTable # NoCode
      /\ resumeAt.block = jumpTable
      /\ resumeAt.platter \in 0 .. arrays[0].size - 1
      /\ ~(/\ arrays[0].size = 1
           /\ nativeCodes[arrays[0].nativeCode].code[0] = Stub)
  BY AtPlatterFacts
<1>3. RunLocalsFresh'
  BY <1>2, InvariantParts DEF ControlInvariant, RunLocalsFresh
<1>4. NothingAfterArray0'
  BY <1>2 DEF NothingAfterArray0
<1>5. SinglePlatterNotRestarted'
  BY <1>2 DEF SinglePlatterNotRestarted
<1>6. RecompileFromInside'
  <2>1. resumeAt.platter < arrays[0].size
    BY <1>2, InvariantParts DEF HeapInvariant, Sound, HeapTyped, IsArray
  <2>2. Cell = nativeCodes[arrays[0].nativeCode].code[resumeAt.platter]
    BY <1>2 DEF Cell, Block
  <2>3. QED BY <2>1, <2>2 DEF RecompileFromInside, Requested
<1>7. ControlInvariant'
  BY <1>2, <1>3, <1>4, <1>5, <1>6 DEF ControlInvariant
<1>8. QED BY <1>1, <1>7, InvariantPartsPrimed

\* A platter that only sets a register.
LEMMA SetRegisterStep ==
  ASSUME InductiveInvariant, AtPlatter, NEW r, NEW v \in Word,
         SetRegister(r, v)
  PROVE  InductiveInvariant'
<1> USE DEF SetRegister, heap, io, locals
<1>1. LocalsTyped'
  <2>1. registers' \in [Register -> Word]
    BY InvariantParts DEF LocalsTyped
  <2>2. resumeAt' \in [ block : CodeIds \union {NoCode}, platter : Nat,
                        offset : Nat ]
    BY NextPlatterType
  <2>3. QED BY <2>1, <2>2, InvariantParts DEF LocalsTyped
<1>2. resumeAt'.block = resumeAt.block
  BY NextPlatterType
<1>3. returned'.code # "recompile"
  BY AtPlatterFacts DEF NotReturned
<1>4. UNCHANGED << heap, arraysPtr, jumpTable, status >>
  OBVIOUS
<1>5. QED
  <2> HIDE DEF SetRegister, heap
  <2>1. QED BY <1>1, <1>2, <1>3, <1>4, PlatterStep

\* A platter that returns a request to run().
LEMMA ReturnStep ==
  ASSUME InductiveInvariant, AtPlatter, NEW code \in ReturnCodes,
         NEW value1 \in Word, NEW value2 \in Word, NEW address,
         Return(code, value1, value2, address),
         address \in [ block : CodeIds \union {NoCode}, platter : Nat,
                       offset : Nat ],
         address.block = resumeAt.block,
         \/ code # "recompile"
         \/ /\ address.offset > 0 /\ address.platter = resumeAt.platter
            /\ Cell = Stub
  PROVE  InductiveInvariant'
<1> USE DEF Return, heap, io, locals
<1>1. LocalsTyped'
  <2>1. returned' \in [code : ReturnCodes, value1 : Word, value2 : Word]
    OBVIOUS
  <2>2. resumeAt' = address
    OBVIOUS
  <2>3. QED BY <2>1, <2>2, InvariantParts DEF LocalsTyped
<1>2. UNCHANGED << heap, arraysPtr, jumpTable, status >>
  OBVIOUS
<1>3. returned'.code = code /\ resumeAt' = address
  OBVIOUS
<1>4. QED
  <2> HIDE DEF Return, heap
  <2>1. QED BY <1>1, <1>2, <1>3, PlatterStep

-----------------------------------------------------------------------------
\* Native code preserves the invariant.
LEMMA ArithmeticStep ==
  ASSUME InductiveInvariant,
         \/ ConditionalMove \/ Addition \/ Multiplication \/ Division
         \/ NotAnd \/ Orthography
  PROVE  InductiveInvariant'
<1>1. CASE ConditionalMove
  <2>1. Executes(conditionalMove)
    BY <1>1 DEF ConditionalMove
  <2> DEFINE v == IF registers[C] # 0 THEN registers[B] ELSE registers[A]
  <2>2. v \in Word
    BY <2>1, ExecutesFacts
  <2>3. SetRegister(A, v)
    BY <1>1 DEF ConditionalMove
  <2> HIDE DEF v
  <2>4. QED BY <2>1, <2>2, <2>3, ExecutesFacts, SetRegisterStep
<1>2. CASE Addition
  <2>1. Executes(addition) /\ SetRegister(A, WordSum(registers[B], registers[C]))
    BY <1>2 DEF Addition
  <2>2. QED BY <2>1, ExecutesFacts, SumType, SetRegisterStep
<1>3. CASE Multiplication
  <2>1. /\ Executes(multiplication)
        /\ SetRegister(A, Product(registers[B], registers[C]))
    BY <1>3 DEF Multiplication
  <2>2. QED BY <2>1, ExecutesFacts, ProductType, SetRegisterStep
<1>4. CASE Division
  <2>1. /\ Executes(division) /\ registers[C] # 0
        /\ SetRegister(A, Quotient(registers[B], registers[C]))
    BY <1>4 DEF Division
  <2>2. QED BY <2>1, ExecutesFacts, QuotientType, SetRegisterStep
<1>5. CASE NotAnd
  <2>1. Executes(notAnd)
    BY <1>5 DEF NotAnd
  <2>2. PICK x \in Word : SetRegister(A, x)
    BY <1>5 DEF NotAnd
  <2>3. QED BY <2>1, <2>2, ExecutesFacts, SetRegisterStep
<1>6. CASE Orthography
  <2>1. Executes(orthography) /\ SetRegister(A, value)
    BY <1>6 DEF Orthography
  <2>2. QED BY <2>1, ExecutesFacts, SetRegisterStep
<1>7. QED BY <1>1, <1>2, <1>3, <1>4, <1>5, <1>6

\* A word read from an array is a word.
LEMMA ArrayIndexStep ==
  ASSUME InductiveInvariant, ArrayIndex
  PROVE  InductiveInvariant'
<1> DEFINE i == registers[B]
           j == registers[C]
<1>1. /\ Executes(arrayIndex) /\ Addressable(i, j)
      /\ SetRegister(A, arrays[i].platters[j])
  BY DEF ArrayIndex
<1>2. i \in Word /\ j \in Word /\ AtPlatter
  BY <1>1, ExecutesFacts
<1> HIDE DEF i, j
<1>3. i \in DOMAIN arrays /\ j < arrays[i].size
  BY <1>1 DEF Addressable
<1>4. IsArray(arrays[i])
  BY <1>3, InvariantParts DEF HeapInvariant, Sound, HeapTyped
<1>5. j \in 0 .. arrays[i].size - 1
  BY <1>2, <1>3, <1>4, WordSizes DEF IsArray, Word
<1>6. arrays[i].platters[j] \in Word
  BY <1>4, <1>5 DEF IsArray, ArrayOf
<1>7. QED BY <1>1, <1>2, <1>6, SetRegisterStep

\* eax is stored to a register.
LEMMA ResumesStep ==
  ASSUME InductiveInvariant, AllocationResumes \/ InputResumes
  PROVE  InductiveInvariant'
<1>1. eaxValue \in Word
  BY InvariantParts DEF LocalsTyped
<1>2. CASE AllocationResumes
  <2>1. AtPlatter /\ SetRegister(B, eaxValue)
    BY <1>2 DEF AllocationResumes, Resumes
  <2>2. QED BY <1>1, <2>1, SetRegisterStep
<1>3. CASE InputResumes
  <2>1. AtPlatter /\ SetRegister(C, eaxValue)
    BY <1>3 DEF InputResumes, Resumes
  <2>2. QED BY <1>1, <2>1, SetRegisterStep
<1>4. QED BY <1>2, <1>3

\* Every request keeps the return address in the block of array 0.
LEMMA RequestStep ==
  ASSUME InductiveInvariant,
         \/ Halt \/ InvalidOperator \/ Allocation \/ Abandonment
         \/ Output \/ Input \/ LoadProgram \/ RecompileStub
  PROVE  InductiveInvariant'
<1> DEFINE Addresses == [ block : CodeIds \union {NoCode}, platter : Nat,
                          offset : Nat ]
           Inside(offset) == [resumeAt EXCEPT !.offset = offset]
<1>1. 0 \in Word /\ normalTermination \in Word /\ invalidOperator \in Word
  BY WordSizes, PlatterAssumption
     DEF Word, WordSize, OperatorUnit, normalTermination, invalidOperator
<1>2. NextPlatter \in Addresses /\ NextPlatter.block = resumeAt.block
  BY NextPlatterType
<1>3. \A offset \in Nat :
        /\ Inside(offset) \in Addresses
        /\ Inside(offset).block = resumeAt.block
        /\ Inside(offset).platter = resumeAt.platter
        /\ Inside(offset).offset = offset
  BY InvariantParts DEF LocalsTyped
<1>4. allocationReturn \in Nat /\ inputReturn \in Nat
      /\ recompileStubSize \in Nat /\ recompileStubSize > 0
  BY DEF allocationReturn, inputReturn, recompileStubSize
<1>5. {"halt", "allocation", "abandonment", "output", "input", "loadProgram",
       "recompile"} \subseteq ReturnCodes
  BY DEF ReturnCodes
<1> HIDE DEF Addresses, Inside
<1>6. ASSUME NEW op, Executes(op), NEW code \in ReturnCodes \ {"recompile"},
             NEW v1 \in Word, NEW v2 \in Word,
             Return(code, v1, v2, NextPlatter)
      PROVE  InductiveInvariant'
  BY <1>2, <1>6, ExecutesFacts, ReturnStep DEF Addresses
<1>7. ASSUME NEW op, Executes(op), NEW code \in ReturnCodes \ {"recompile"},
             NEW v1 \in Word, NEW v2 \in Word, NEW offset \in Nat,
             Return(code, v1, v2, Inside(offset))
      PROVE  InductiveInvariant'
  BY <1>3, <1>7, ExecutesFacts, ReturnStep DEF Addresses
<1>8. CASE Halt
  BY <1>1, <1>5, <1>6, <1>8 DEF Halt
<1>9. CASE InvalidOperator
  <2>1. PICK op \in invalidOperators : Executes(op)
    BY <1>9 DEF InvalidOperator
  <2>2. Return("halt", invalidOperator, Cell, NextPlatter)
    BY <1>9 DEF InvalidOperator
  <2>3. Cell \in Word
    BY <2>1, ExecutesFacts
  <2>4. QED BY <1>1, <1>5, <1>6, <2>1, <2>2, <2>3
<1>10. CASE Allocation
  <2>1. Executes(allocation)
        /\ Return("allocation", registers[C], 0, Inside(allocationReturn))
    BY <1>10 DEF Allocation, Inside
  <2>2. QED BY <1>1, <1>4, <1>5, <1>7, <2>1, ExecutesFacts
<1>11. CASE Abandonment
  <2>1. Executes(abandonment)
        /\ Return("abandonment", registers[C], 0, NextPlatter)
    BY <1>11 DEF Abandonment
  <2>2. QED BY <1>1, <1>5, <1>6, <2>1, ExecutesFacts
<1>12. CASE Output
  <2>1. Executes(output) /\ Return("output", registers[C], 0, NextPlatter)
    BY <1>12 DEF Output
  <2>2. QED BY <1>1, <1>5, <1>6, <2>1, ExecutesFacts
<1>13. CASE Input
  <2>1. Executes(input) /\ Return("input", 0, 0, Inside(inputReturn))
    BY <1>13 DEF Input, Inside
  <2>2. QED BY <1>1, <1>4, <1>5, <1>7, <2>1, ExecutesFacts
<1>14. CASE LoadProgram
  <2>1. Executes(loadProgram)
        /\ Return("loadProgram", registers[B], registers[C], NextPlatter)
    BY <1>14 DEF LoadProgram
  <2>2. QED BY <1>5, <1>6, <2>1, ExecutesFacts
<1>15. CASE RecompileStub
  <2>1. AtPlatter /\ Cell = Stub
        /\ Return("recompile", 0, 0, Inside(recompileStubSize))
    BY <1>15 DEF RecompileStub, Inside
  <2>2. QED BY <1>1, <1>3, <1>4, <1>5, <2>1, ReturnStep DEF Addresses
<1>16. QED BY <1>8, <1>9, <1>10, <1>11, <1>12, <1>13, <1>14, <1>15

\* A jump stays in the block of array 0.
LEMMA JumpStep ==
  ASSUME InductiveInvariant, Jump
  PROVE  InductiveInvariant'
<1>1. /\ AtPlatter /\ jumpTable = resumeAt.block /\ returned = NotReturned
      /\ registers[C] \in Word /\ resumeAt' = AddressOf(jumpTable, registers[C])
      /\ UNCHANGED << registers, heap, io, locals, returned, status >>
  BY ExecutesFacts, AtPlatterFacts DEF Jump
<1>2. registers[C] \in Nat
  BY <1>1, WordSizes DEF Word
<1>3. LocalsTyped'
  BY <1>1, <1>2, InvariantParts DEF LocalsTyped, AddressOf, io, locals
<1>4. UNCHANGED << heap, arraysPtr, jumpTable, status >>
  BY <1>1 DEF locals
<1>5. resumeAt'.block = resumeAt.block /\ returned'.code # "recompile"
  BY <1>1 DEF AddressOf, NotReturned
<1>6. QED BY <1>1, <1>3, <1>4, <1>5, PlatterStep

\* Running past the last platter, whatever the size of the program.
LEMMA OutOfBoundStep ==
  ASSUME InductiveInvariant, OutOfBoundStub
  PROVE  InductiveInvariant'
<1>1. /\ status = "running" /\ InLiveBlock /\ returned = NotReturned
      /\ returned' = [code |-> "halt", value1 |-> outOfBoundExecution,
                      value2 |-> 0]
      /\ resumeAt' = NextPlatter
      /\ UNCHANGED << registers, heap, io, locals, status >>
  BY DEF OutOfBoundStub, Executing, Return
<1>2. HeapInvariant'
  BY <1>1, InvariantParts
     DEF HeapInvariant, SourceLink, MinEmptyIsSmallest, heap
<1>3. LocalsTyped'
  <2>1. 0 \in Word /\ outOfBoundExecution \in Word
    BY WordSizes, PlatterAssumption
       DEF Word, WordSize, OperatorUnit, outOfBoundExecution
  <2>2. returned' \in [code : ReturnCodes, value1 : Word, value2 : Word]
    BY <1>1, <2>1 DEF ReturnCodes
  <2>3. QED
    BY <1>1, <2>2, NextPlatterType, InvariantParts DEF LocalsTyped, io, locals
<1>4. 0 \in DOMAIN arrays
  BY <1>1, InvariantParts DEF ControlInvariant, NothingAfterArray0
<1>5. RunLocalsFresh'
  BY <1>1, NextPlatterType, InvariantParts
     DEF ControlInvariant, RunLocalsFresh, heap, locals
<1>6. returned'.code = "halt" /\ resumeAt'.platter > 0
  <2>1. resumeAt.platter \in Nat
    BY InvariantParts DEF LocalsTyped
  <2>2. QED BY <1>1, <2>1, NextPlatterType
<1>7. ControlInvariant'
  BY <1>1, <1>4, <1>5, <1>6
     DEF ControlInvariant, NothingAfterArray0, SinglePlatterNotRestarted,
         RecompileFromInside, Requested, heap
<1>8. QED BY <1>2, <1>3, <1>7, InvariantPartsPrimed

\* A word stored to an array: in array 0 the stub goes over the platter that
\* has just been modified, and array 0 is dirty from then on.
LEMMA ArrayAmendmentStep ==
  ASSUME InductiveInvariant, ArrayAmendment
  PROVE  InductiveInvariant'
<1> DEFINE i == registers[A]
           j == registers[B]
           v == registers[C]
<1>1. /\ Executes(arrayAmendment)
      /\ arrays' = [arrays EXCEPT ![i] = Amended(@, j, v)]
      /\ nativeCodes' = IF i = 0 THEN Patched(nativeCodes, jumpTable, j)
                                 ELSE nativeCodes
      /\ i \in DOMAIN arrays
  BY DEF ArrayAmendment, Amendable, Addressable
<1>2. /\ resumeAt' = NextPlatter
      /\ UNCHANGED << registers, arraysSize, capacity, array0Source,
                      minEmptyArrayIndex, io, locals, returned, status >>
  BY DEF ArrayAmendment
<1>3. v \in Word /\ AtPlatter
  BY <1>1, ExecutesFacts
<1> HIDE DEF i, j, v
<1>4. /\ status = "running" /\ returned = NotReturned /\ 0 \in DOMAIN arrays
      /\ jumpTable = arrays[0].nativeCode /\ jumpTable # NoCode
      /\ resumeAt.block = jumpTable
  BY <1>3, AtPlatterFacts
<1>5. /\ Sound(arrays, nativeCodes) /\ SourceLink /\ MinEmptyIsSmallest
      /\ arraysSize \in Nat /\ capacity \in Nat
      /\ DOMAIN arrays \subseteq 0 .. arraysSize - 1
      /\ array0Source \in Nat /\ minEmptyArrayIndex \in Nat
  BY InvariantParts DEF HeapInvariant
<1>6. Sound(arrays', nativeCodes')
  <2>1. \/ i # 0 /\ nativeCodes' = nativeCodes
        \/ i = 0 /\ arrays[0].nativeCode # NoCode
           /\ nativeCodes' = Patched(nativeCodes, arrays[0].nativeCode, j)
    BY <1>1, <1>4
  <2>2. QED BY <1>1, <1>3, <1>5, <2>1, AmendSound
<1>7. DOMAIN arrays' = DOMAIN arrays
  BY <1>1
<1>8. \A k \in DOMAIN arrays :
        /\ arrays'[k].size = arrays[k].size
        /\ arrays'[k].nativeCode = arrays[k].nativeCode
  <2> TAKE k \in DOMAIN arrays
  <2>1. IsArray(arrays[k])
    BY <1>5 DEF Sound, HeapTyped
  <2>2. CASE k = i
    <3>1. arrays'[k] = Amended(arrays[k], j, v)
      BY <1>1, <2>2
    <3>2. arrays'[k].size = arrays[k].size
      BY <2>1, <3>1 DEF Amended, IsArray, ArrayOf
    <3>3. arrays'[k].nativeCode = arrays[k].nativeCode
      BY <2>1, <3>1 DEF Amended, IsArray, ArrayOf
    <3>4. QED BY <3>2, <3>3
  <2>3. CASE k # i
    BY <1>1, <2>3
  <2>4. QED BY <2>2, <2>3
<1>9. HeapInvariant'
  <2>1. SourceLink'
    BY <1>2, <1>5, <1>7, <1>8 DEF SourceLink
  <2>2. MinEmptyIsSmallest'
    BY <1>2, <1>5, <1>7 DEF MinEmptyIsSmallest
  <2>3. QED BY <1>2, <1>5, <1>6, <1>7, <2>1, <2>2 DEF HeapInvariant
<1>10. LocalsTyped'
  BY <1>2, NextPlatterType, InvariantParts DEF LocalsTyped, io, locals
<1>11. RunLocalsFresh'
  <2>1. arraysPtr = capacity
    BY <1>4, InvariantParts DEF ControlInvariant, RunLocalsFresh
  <2>2. QED
    BY <1>2, <1>4, <1>7, <1>8, <2>1, NextPlatterType
       DEF RunLocalsFresh, locals
<1>12. SinglePlatterNotRestarted'
  <2>1. resumeAt.platter \in Nat
    BY InvariantParts DEF LocalsTyped
  <2>2. resumeAt'.platter > 0
    BY <1>2, <2>1, NextPlatterType
  <2>3. QED BY <1>2, <1>4, <2>2 DEF SinglePlatterNotRestarted, NotReturned
<1>13. ControlInvariant'
  BY <1>2, <1>4, <1>7, <1>11, <1>12
     DEF ControlInvariant, NothingAfterArray0, RecompileFromInside, Requested,
         NotReturned
<1>14. QED BY <1>9, <1>10, <1>13, InvariantPartsPrimed

\* The steps that end run(), or end what the model can say.
LEMMA EndStep ==
  ASSUME InductiveInvariant,
         \/ InvalidArrayIndex \/ InvalidArrayAmendment \/ DivisionByZero
         \/ JumpPastTable \/ DanglingCode \/ RunHalt
         \/ AbandonmentThrows \/ AbandonmentOfNull \/ LoadProgramThrows
  PROVE  InductiveInvariant'
<1>1. PICK outcome \in Outcomes : Stop(outcome)
  <2> USE DEF Outcomes
  <2>1. CASE InvalidArrayIndex \/ InvalidArrayAmendment \/ JumpPastTable
    BY <2>1 DEF InvalidArrayIndex, InvalidArrayAmendment, JumpPastTable
  <2>2. CASE DivisionByZero \/ DanglingCode
    BY <2>2 DEF DivisionByZero, DanglingCode
  <2>3. CASE RunHalt
    BY <2>3 DEF RunHalt
  <2>4. CASE AbandonmentThrows \/ AbandonmentOfNull \/ LoadProgramThrows
    BY <2>4 DEF AbandonmentThrows, AbandonmentOfNull, LoadProgramThrows
  <2>5. QED BY <2>1, <2>2, <2>3, <2>4
<1>2. QED BY <1>1, StopStep

-----------------------------------------------------------------------------
\* The handlers of run() preserve the invariant.

\* While a request other than a halt is pending, array 0 is there.
LEMMA RequestedFacts ==
  ASSUME InductiveInvariant, NEW code, Requested(code), code # "none"
  PROVE  /\ status = "running" /\ returned.code = code
         /\ returned # NotReturned
         /\ returned.value1 \in Word /\ returned.value2 \in Word
         /\ 0 \in DOMAIN arrays
         /\ arraysPtr = capacity
         /\ jumpTable = arrays[0].nativeCode /\ jumpTable # NoCode
         /\ resumeAt.block = jumpTable
<1>1. status = "running" /\ returned.code = code /\ returned # NotReturned
  BY DEF Requested, NotReturned
<1>2. returned.value1 \in Word /\ returned.value2 \in Word
  BY InvariantParts DEF LocalsTyped
<1>3. 0 \in DOMAIN arrays
  BY <1>1, InvariantParts DEF ControlInvariant, NothingAfterArray0
<1>4. QED
  BY <1>1, <1>2, <1>3, InvariantParts DEF ControlInvariant, RunLocalsFresh

\* Output and input leave the heap alone.
LEMMA StreamStep ==
  ASSUME InductiveInvariant, RunOutput \/ RunInput
  PROVE  InductiveInvariant'
<1>1. PICK code \in {"output", "input"} : Requested(code)
  BY DEF RunOutput, RunInput
<1>2. /\ returned' = NotReturned
      /\ UNCHANGED << registers, heap, arraysPtr, jumpTable, resumeAt, status >>
  BY DEF RunOutput, RunInput, locals
<1>3. 0 \in Word
  BY WordSizes DEF Word
<1>4. NotReturned \in [code : ReturnCodes, value1 : Word, value2 : Word]
  BY <1>3 DEF NotReturned, ReturnCodes
<1>5. os' \in Seq(0 .. 255) /\ eof' \in BOOLEAN /\ eaxValue' \in Word
  <2>1. os \in Seq(0 .. 255) /\ eof \in BOOLEAN /\ eaxValue \in Word
    BY InvariantParts DEF LocalsTyped
  <2>2. CASE RunOutput
    <3>1. returned.value1 \in Int
      BY <1>1, RequestedFacts, WordSizes DEF Word
    <3>2. \A x \in Int : x % 256 \in 0 .. 255
      OBVIOUS
    <3>3. os' = Append(os, returned.value1 % 256) /\ UNCHANGED << eof, eaxValue >>
      BY <2>2 DEF RunOutput, locals
    <3>4. returned.value1 % 256 \in 0 .. 255
      BY <3>1, <3>2
    <3>5. QED BY <2>1, <3>3, <3>4
  <2>3. CASE RunInput
    <3>1. AllOnes \in Word
      BY WordSizes DEF AllOnes, Word
    <3>2. QED BY <2>1, <2>3, <3>1, ContextAssumption DEF RunInput
  <2>4. QED BY <2>2, <2>3
<1>6. LocalsTyped'
  BY <1>2, <1>4, <1>5, InvariantParts DEF LocalsTyped
<1>7. HeapInvariant'
  BY <1>2, InvariantParts
     DEF HeapInvariant, SourceLink, MinEmptyIsSmallest, heap
<1>8. ControlInvariant'
  <2>1. 0 \in DOMAIN arrays /\ status = "running"
    BY <1>1, RequestedFacts
  <2>2. returned.code \notin {"none", "halt"}
    BY <1>1 DEF Requested
  <2>3. RunLocalsFresh'
    BY <1>2, InvariantParts DEF ControlInvariant, RunLocalsFresh, heap
  <2>4. SinglePlatterNotRestarted'
    BY <1>2, <2>2, InvariantParts
       DEF ControlInvariant, SinglePlatterNotRestarted, heap
  <2>5. QED BY <1>2, <2>1, <2>3, <2>4
       DEF ControlInvariant, NothingAfterArray0, RecompileFromInside,
           Requested, NotReturned, heap
<1>9. QED BY <1>6, <1>7, <1>8, InvariantPartsPrimed

\* A request has been served and native code is entered again.  The heap and
\* the types are given; what is left is that the locals of run() are fresh and
\* that a program of one platter does not meet its own stub.
LEMMA ServedStep ==
  ASSUME HeapInvariant', LocalsTyped', RunLocalsFresh',
         status' = "running", returned' = NotReturned,
         0 \notin DOMAIN arrays' => ~InLiveBlock',
         0 \in DOMAIN arrays' =>
           ~(/\ arrays'[0].size = 1
             /\ nativeCodes'[arrays'[0].nativeCode].code[0] = Stub)
  PROVE  InductiveInvariant'
<1>1. NothingAfterArray0' /\ SinglePlatterNotRestarted'
  BY DEF NothingAfterArray0, SinglePlatterNotRestarted
<1>2. RecompileFromInside'
  BY DEF RecompileFromInside, Requested, NotReturned
<1>3. ControlInvariant'
  BY <1>1, <1>2 DEF ControlInvariant
<1>4. QED BY <1>3, InvariantPartsPrimed

\* An array that is not dirty has no stub in its code.
LEMMA CleanHasNoStub ==
  ASSUME NEW arrs, NEW codes, Sound(arrs, codes), 0 \in DOMAIN arrs,
         ~arrs[0].dirty, arrs[0].nativeCode # NoCode
  PROVE  ~(/\ arrs[0].size = 1
           /\ codes[arrs[0].nativeCode].code[0] = Stub)
<1>1. SUFFICES ASSUME arrs[0].size = 1 PROVE 0 \in 0 .. arrs[0].size - 1
  BY DEF Sound, StubsConfined
<1>2. QED BY <1>1

\* No program of one platter has met its own stub while it asks for anything.
LEMMA RequestedSinglePlatter ==
  ASSUME InductiveInvariant, NEW code, Requested(code),
         code \notin {"none", "halt"}
  PROVE  ~(/\ arrays[0].size = 1
           /\ nativeCodes[arrays[0].nativeCode].code[0] = Stub)
<1>1. status = "running" /\ 0 \in DOMAIN arrays /\ returned.code = code
  BY RequestedFacts
<1>2. QED BY <1>1, InvariantParts
             DEF ControlInvariant, SinglePlatterNotRestarted

\* A word to leave in returned when nothing is pending.
LEMMA NotReturnedType ==
  NotReturned \in [code : ReturnCodes, value1 : Word, value2 : Word]
<1>1. 0 \in Word
  BY WordSizes DEF Word
<1>2. QED BY <1>1 DEF NotReturned, ReturnCodes

\* Allocation: the first empty slot is taken, the vector grows when there is none
\* and the pointer to it is refreshed.
LEMMA AllocationStep ==
  ASSUME InductiveInvariant, RunAllocation
  PROVE  InductiveInvariant'
<1>1. Requested("allocation")
  BY DEF RunAllocation
<1>2. /\ status = "running" /\ 0 \in DOMAIN arrays /\ returned.value1 \in Word
      /\ jumpTable = arrays[0].nativeCode /\ jumpTable # NoCode
      /\ resumeAt.block = jumpTable
  BY <1>1, RequestedFacts
<1>3. /\ Sound(arrays, nativeCodes) /\ SourceLink /\ MinEmptyIsSmallest
      /\ arraysSize \in Nat /\ capacity \in Nat
      /\ DOMAIN arrays \subseteq 0 .. arraysSize - 1
      /\ array0Source \in Nat /\ minEmptyArrayIndex \in Nat
  BY InvariantParts DEF HeapInvariant
<1>4. PICK i \in minEmptyArrayIndex .. arraysSize :
        /\ \A j \in minEmptyArrayIndex .. i - 1 : j \in DOMAIN arrays
        /\ i \notin DOMAIN arrays
        /\ i < MaxArrays
        /\ minEmptyArrayIndex' = i
        /\ arraysSize' = IF i = arraysSize THEN arraysSize + 1 ELSE arraysSize
        /\ capacity' = IF i = arraysSize /\ arraysSize = capacity
                       THEN Grown(capacity) ELSE capacity
        /\ arrays' = Stored(arrays, i, newArray(returned.value1))
        /\ eaxValue' = i
  BY DEF RunAllocation
<1>5. /\ arraysPtr' = capacity' /\ returned' = NotReturned
      /\ UNCHANGED << registers, nativeCodes, array0Source, io, jumpTable,
                      resumeAt, status >>
  BY DEF RunAllocation, ArraysPointer
<1>6. returned.value1 \in Nat
  BY <1>2, WordSizes DEF Word
<1>7. Sound(arrays', nativeCodes')
  BY <1>3, <1>4, <1>5, <1>6, StoreSound
<1>8. /\ DOMAIN arrays' = DOMAIN arrays \union {i}
      /\ \A k \in DOMAIN arrays : arrays'[k] = arrays[k]
  <2>1. arrays' = Stored(arrays, i, newArray(returned.value1))
    BY <1>4
  <2>2. i \notin DOMAIN arrays
    BY <1>4
  <2>3. QED BY <2>1, <2>2 DEF Stored
<1>9. i \in Nat /\ arraysSize' \in Nat /\ capacity' \in Nat
  <2>1. Grown(capacity) \in Nat
    BY <1>3 DEF Grown
  <2>2. QED BY <2>1, <1>3, <1>4
<1>10. DOMAIN arrays' \subseteq 0 .. arraysSize' - 1
  BY <1>3, <1>4, <1>8
<1>11. SourceLink'
  BY <1>2, <1>3, <1>5, <1>8 DEF SourceLink
<1>12. MinEmptyIsSmallest'
  <2>1. minEmptyArrayIndex' <= arraysSize'
    BY <1>3, <1>4
  <2>2. \A k \in 0 .. i - 1 : k \in DOMAIN arrays
    <3>1. \A k \in 0 .. i - 1 :
            k \in 0 .. minEmptyArrayIndex - 1 \/ k \in minEmptyArrayIndex .. i - 1
      BY <1>3, <1>9
    <3>2. QED BY <3>1, <1>3, <1>4 DEF MinEmptyIsSmallest
  <2>3. QED BY <2>1, <2>2, <1>4, <1>8 DEF MinEmptyIsSmallest
<1>13. HeapInvariant'
  BY <1>3, <1>4, <1>5, <1>7, <1>9, <1>10, <1>11, <1>12 DEF HeapInvariant
<1>14. LocalsTyped'
  <2>1. eaxValue' \in Word
    BY <1>4, <1>9, ContextAssumption, WordSizes DEF Word
  <2>2. QED BY <2>1, <1>5, <1>9, NotReturnedType, InvariantParts
            DEF LocalsTyped, io
<1>15. RunLocalsFresh'
  BY <1>2, <1>5, <1>8 DEF RunLocalsFresh
<1>16. ~(/\ arrays'[0].size = 1
         /\ nativeCodes'[arrays'[0].nativeCode].code[0] = Stub)
  BY <1>1, <1>2, <1>5, <1>8, RequestedSinglePlatter
<1>17. QED BY <1>2, <1>5, <1>8, <1>13, <1>14, <1>15, <1>16, ServedStep

\* Abandoning array 0 itself frees the code under the instruction pointer;
\* abandoning the source of array 0 unlinks it first.
LEMMA AbandonmentStep ==
  ASSUME InductiveInvariant, RunAbandonment
  PROVE  InductiveInvariant'
<1> DEFINE index == returned.value1
<1>1. Requested("abandonment") /\ index \in DOMAIN arrays
  BY DEF RunAbandonment
<1>2. /\ array0Source' = IF array0Source = index THEN 0 ELSE array0Source
      /\ nativeCodes' = Released(nativeCodes, arrays[index].nativeCode)
      /\ arrays' = Restrict(arrays, DOMAIN arrays \ {index})
      /\ minEmptyArrayIndex' = IF index < minEmptyArrayIndex
                               THEN index ELSE minEmptyArrayIndex
  BY DEF RunAbandonment, SourceAfterAbandonment, MinEmptyAfterAbandonment
<1>3. /\ arraysPtr' = capacity /\ returned' = NotReturned
      /\ UNCHANGED << registers, arraysSize, capacity, io, jumpTable, resumeAt,
                      eaxValue, status >>
  BY DEF RunAbandonment, ArraysPointer
<1>4. index \in Nat
  BY <1>1, RequestedFacts, WordSizes DEF Word
<1> HIDE DEF index
<1>5. /\ status = "running" /\ 0 \in DOMAIN arrays
      /\ jumpTable = arrays[0].nativeCode /\ jumpTable # NoCode
      /\ resumeAt.block = jumpTable
  BY <1>1, RequestedFacts
<1>6. /\ Sound(arrays, nativeCodes) /\ SourceLink /\ MinEmptyIsSmallest
      /\ arraysSize \in Nat /\ capacity \in Nat
      /\ DOMAIN arrays \subseteq 0 .. arraysSize - 1
      /\ array0Source \in Nat /\ minEmptyArrayIndex \in Nat
  BY InvariantParts DEF HeapInvariant
<1>7. Sound(arrays', nativeCodes')
  BY <1>1, <1>2, <1>6, DestroySound
<1>8. /\ DOMAIN arrays' = DOMAIN arrays \ {index}
      /\ \A k \in DOMAIN arrays \ {index} : arrays'[k] = arrays[k]
  BY <1>2 DEF Restrict
<1>9. /\ DOMAIN nativeCodes' = DOMAIN nativeCodes \ {arrays[index].nativeCode}
      /\ \A id \in DOMAIN nativeCodes' : nativeCodes'[id] = nativeCodes[id]
  BY <1>2, ReleasedFunction
<1>10. SourceLink'
  BY <1>2, <1>6, <1>8 DEF SourceLink
<1>11. MinEmptyIsSmallest'
  BY <1>2, <1>3, <1>4, <1>6, <1>8 DEF MinEmptyIsSmallest
<1>12. HeapInvariant'
  BY <1>2, <1>3, <1>4, <1>6, <1>7, <1>8, <1>10, <1>11 DEF HeapInvariant
<1>13. LocalsTyped'
  BY <1>3, <1>6, NotReturnedType, InvariantParts DEF LocalsTyped, io
<1>14. RunLocalsFresh'
  BY <1>3, <1>5, <1>8 DEF RunLocalsFresh
<1>15. ASSUME 0 \notin DOMAIN arrays'
       PROVE  ~InLiveBlock'
  <2>1. index = 0
    BY <1>15, <1>5, <1>8
  <2>2. QED BY <2>1, <1>3, <1>5, <1>9 DEF InLiveBlock
<1>16. ASSUME 0 \in DOMAIN arrays'
       PROVE  ~(/\ arrays'[0].size = 1
                /\ nativeCodes'[arrays'[0].nativeCode].code[0] = Stub)
  <2>1. arrays'[0] = arrays[0]
    BY <1>8, <1>16
  <2>2. arrays'[0].nativeCode \in DOMAIN nativeCodes'
    BY <2>1, <1>5, <1>7, <1>16 DEF Sound, CodeLive
  <2>3. QED BY <2>1, <2>2, <1>1, <1>9, RequestedSinglePlatter
<1>17. QED BY <1>3, <1>5, <1>12, <1>13, <1>14, <1>15, <1>16, ServedStep

\* Array 0 has been compiled, with everything that was modified in it.
LEMMA CompiledHeap ==
  ASSUME InductiveInvariant, 0 \in DOMAIN arrays,
         NEW id \in FreshCode(nativeCodes, arrays[0]),
         nativeCodes' = generateNativeCode(nativeCodes, arrays[0], id),
         arrays' = [arrays EXCEPT ![0] = CleanArray(@, id)],
         UNCHANGED << arraysSize, capacity, array0Source, minEmptyArrayIndex >>
  PROVE  /\ HeapInvariant'
         /\ id \in CodeIds /\ id # NoCode
         /\ 0 \in DOMAIN arrays' /\ arrays'[0].nativeCode = id
         /\ ~(/\ arrays'[0].size = 1
              /\ nativeCodes'[arrays'[0].nativeCode].code[0] = Stub)
<1>1. /\ Sound(arrays, nativeCodes) /\ SourceLink /\ MinEmptyIsSmallest
      /\ arraysSize \in Nat /\ capacity \in Nat
      /\ DOMAIN arrays \subseteq 0 .. arraysSize - 1
      /\ array0Source \in Nat /\ minEmptyArrayIndex \in Nat
  BY InvariantParts DEF HeapInvariant
<1>2. Sound(arrays', nativeCodes') /\ id \in CodeIds /\ id # NoCode
  BY <1>1, GenerateSound
<1>3. /\ DOMAIN arrays' = DOMAIN arrays
      /\ arrays'[0] = CleanArray(arrays[0], id)
      /\ \A k \in DOMAIN arrays \ {0} : arrays'[k] = arrays[k]
  OBVIOUS
<1>4. /\ arrays'[0].size = arrays[0].size
      /\ arrays'[0].dirty = FALSE /\ arrays'[0].nativeCode = id
  <2>1. IsArray(arrays[0])
    BY <1>1 DEF Sound, HeapTyped
  <2>2. QED BY <2>1, <1>2, <1>3, ArrayRecord
<1>5. SourceLink'
  BY <1>1, <1>3, <1>4 DEF SourceLink
<1>6. MinEmptyIsSmallest'
  BY <1>1, <1>3 DEF MinEmptyIsSmallest
<1>7. HeapInvariant'
  BY <1>1, <1>2, <1>3, <1>5, <1>6 DEF HeapInvariant
<1>8. ~(/\ arrays'[0].size = 1
        /\ nativeCodes'[arrays'[0].nativeCode].code[0] = Stub)
  BY <1>2, <1>3, <1>4, CleanHasNoStub
<1>9. QED BY <1>2, <1>3, <1>4, <1>7, <1>8

\* run() before its loop: array 0 gets its first native code.
LEMMA RunStep ==
  ASSUME InductiveInvariant, Run
  PROVE  InductiveInvariant'
<1>1. 0 \in DOMAIN arrays /\ returned = NotReturned
  BY InvariantParts DEF Run, ControlInvariant
<1>2. PICK id \in FreshCode(nativeCodes, arrays[0]) :
        /\ nativeCodes' = generateNativeCode(nativeCodes, arrays[0], id)
        /\ arrays' = [arrays EXCEPT ![0] = CleanArray(@, id)]
        /\ jumpTable' = id
        /\ resumeAt' = AddressOf(id, 0)
  BY DEF Run
<1>3. /\ arraysPtr' = capacity /\ eaxValue' = 0 /\ status' = "running"
      /\ UNCHANGED << registers, arraysSize, capacity, array0Source,
                      minEmptyArrayIndex, io, returned >>
  BY DEF Run, ArraysPointer
<1>4. /\ HeapInvariant'
      /\ id \in CodeIds /\ id # NoCode
      /\ 0 \in DOMAIN arrays' /\ arrays'[0].nativeCode = id
      /\ ~(/\ arrays'[0].size = 1
           /\ nativeCodes'[arrays'[0].nativeCode].code[0] = Stub)
  BY <1>1, <1>2, <1>3, CompiledHeap
<1>5. LocalsTyped'
  <2>1. 0 \in Word /\ capacity \in Nat
    BY InvariantParts, WordSizes DEF Word, HeapInvariant
  <2>2. QED BY <2>1, <1>2, <1>3, <1>4, InvariantParts
            DEF LocalsTyped, AddressOf, io
<1>6. RunLocalsFresh'
  BY <1>2, <1>3, <1>4 DEF RunLocalsFresh, AddressOf
<1>7. QED BY <1>1, <1>3, <1>4, <1>5, <1>6, ServedStep

\* context::fingerPositionFor, for every program of two platters or more: from
\* a return address inside platter i it finds i, except in the last platter,
\* where it finds the one before.
LEMMA FingerPosition ==
  ASSUME NEW n \in Nat, n >= 2, NEW address,
         address.platter \in 0 .. n - 1,
         address.offset > 0
  PROVE  fingerPositionFor(n, address)
           = IF address.platter < n - 1 THEN address.platter ELSE n - 2
<1> DEFINE p == address.platter
           found(k) == /\ \A i \in 0 .. k - 1 : Below(i, address)
                       /\ k = n - 1 \/ ~Below(k, address)
           expected == IF p < n - 1 THEN p + 1 ELSE n - 1
<1>1. \A i \in Int : Below(i, address) <=> i <= p
  BY DEF Below
<1>2. p \in Int /\ 0 <= p /\ p <= n - 1
  OBVIOUS
<1> HIDE DEF p
<1>3. expected \in 0 .. n - 1 /\ found(expected)
  BY <1>1, <1>2
<1>4. \A k \in 0 .. n - 1 : found(k) => k = expected
  <2> TAKE k \in 0 .. n - 1
  <2> HAVE found(k)
  <2>1. k = n - 1 \/ k > p
    BY <1>1, <1>2
  <2>2. k <= p + 1
    <3> SUFFICES ASSUME k > p + 1 PROVE FALSE
      BY <1>2
    <3>1. p + 1 \in 0 .. k - 1
      BY <1>2 DEF p
    <3>2. QED BY <3>1, <1>1, <1>2
  <2>3. QED BY <2>1, <2>2, <1>2 DEF p
<1>5. lowerBound(n, address) = CHOOSE k \in 0 .. n - 1 : found(k)
  BY DEF lowerBound
<1> HIDE DEF found, expected
<1>6. lowerBound(n, address) = expected
  BY <1>3, <1>4, <1>5
<1>7. QED BY <1>6, <1>2 DEF fingerPositionFor, expected, p

\* When a stub has been hit the position is one of array 0's.
LEMMA RecompilePosition ==
  ASSUME InductiveInvariant, Requested("recompile")
  PROVE  /\ arrays[0].size \in Nat /\ arrays[0].size >= 2
         /\ fingerPositionFor(arrays[0].size, resumeAt) \in 0 .. arrays[0].size - 1
<1>1. /\ 0 \in DOMAIN arrays /\ jumpTable = arrays[0].nativeCode
      /\ returned.code = "recompile" /\ status = "running"
  BY RequestedFacts
<1>2. /\ resumeAt.offset > 0 /\ resumeAt.platter < arrays[0].size
      /\ nativeCodes[arrays[0].nativeCode].code[resumeAt.platter] = Stub
  BY <1>1, InvariantParts DEF ControlInvariant, RecompileFromInside
<1>3. arrays[0].size \in Nat
  BY <1>1, InvariantParts DEF HeapInvariant, Sound, HeapTyped, IsArray
<1>4. resumeAt.platter \in Nat
  BY InvariantParts DEF LocalsTyped
<1>5. ~(/\ arrays[0].size = 1
        /\ nativeCodes[arrays[0].nativeCode].code[0] = Stub)
  BY RequestedSinglePlatter
<1>6. arrays[0].size # 1
  <2>1. SUFFICES ASSUME arrays[0].size = 1 PROVE resumeAt.platter = 0
    BY <1>2, <1>5
  <2>2. QED BY <2>1, <1>2, <1>4
<1>7. arrays[0].size >= 2 /\ resumeAt.platter \in 0 .. arrays[0].size - 1
  BY <1>2, <1>3, <1>4, <1>6
<1>8. fingerPositionFor(arrays[0].size, resumeAt)
        = IF resumeAt.platter < arrays[0].size - 1
          THEN resumeAt.platter ELSE arrays[0].size - 2
  BY <1>2, <1>3, <1>7, FingerPosition
<1>9. QED BY <1>3, <1>4, <1>7, <1>8

\* Compiling array 0 again: the locals of run() follow its new block.
LEMMA RecompileStep ==
  ASSUME InductiveInvariant, RunRecompile
  PROVE  InductiveInvariant'
<1> DEFINE position == fingerPositionFor(arrays[0].size, resumeAt)
<1>1. Requested("recompile")
  BY DEF RunRecompile
<1>2. PICK id \in FreshCode(nativeCodes, arrays[0]) :
        /\ nativeCodes' = generateNativeCode(nativeCodes, arrays[0], id)
        /\ arrays' = [arrays EXCEPT ![0] = CleanArray(@, id)]
        /\ jumpTable' = id
        /\ resumeAt' = AddressOf(id, position)
  BY DEF RunRecompile
<1>3. /\ returned' = NotReturned
      /\ UNCHANGED << registers, arraysSize, capacity, array0Source,
                      minEmptyArrayIndex, io, arraysPtr, eaxValue, status >>
  BY DEF RunRecompile
<1>4. /\ status = "running" /\ 0 \in DOMAIN arrays /\ arraysPtr = capacity
  BY <1>1, RequestedFacts
<1>5. position \in Nat
  BY <1>1, RecompilePosition
<1> HIDE DEF position
<1>6. /\ HeapInvariant'
      /\ id \in CodeIds /\ id # NoCode
      /\ 0 \in DOMAIN arrays' /\ arrays'[0].nativeCode = id
      /\ ~(/\ arrays'[0].size = 1
           /\ nativeCodes'[arrays'[0].nativeCode].code[0] = Stub)
  BY <1>2, <1>3, <1>4, CompiledHeap
<1>7. LocalsTyped'
  BY <1>2, <1>3, <1>5, <1>6, NotReturnedType, InvariantParts
     DEF LocalsTyped, AddressOf, io
<1>8. RunLocalsFresh'
  BY <1>2, <1>3, <1>4, <1>6 DEF RunLocalsFresh, AddressOf
<1>9. QED BY <1>3, <1>4, <1>6, <1>7, <1>8, ServedStep

-----------------------------------------------------------------------------
\* loadProgram gives back, destroys, generates and installs, in this order.

\* Giving the code of array 0 back to its source, when it is given back.
LEMMA GivenBackSound ==
  ASSUME InductiveInvariant, 0 \in DOMAIN arrays
  PROVE  /\ Sound(GivenBack, nativeCodes)
         /\ DOMAIN GivenBack = DOMAIN arrays
         /\ \A k \in DOMAIN arrays :
              /\ GivenBack[k].size = arrays[k].size
              /\ GivenBack[k].platters = arrays[k].platters
<1>1. Sound(arrays, nativeCodes) /\ SourceLink
  BY InvariantParts DEF HeapInvariant
<1>2. CASE ~GivesBack
  BY <1>1, <1>2 DEF GivenBack
<1>3. CASE GivesBack
  <2> DEFINE x == array0Source
  <2>1. /\ x \in DOMAIN arrays \ {0} /\ ~arrays[0].dirty
        /\ arrays[x].nativeCode = NoCode /\ arrays[x].size = arrays[0].size
    BY <1>1, <1>3 DEF GivesBack, SourceLink
  <2>2. GivenBack = [arrays EXCEPT
                       ![x] = [@ EXCEPT !.nativeCode = arrays[0].nativeCode],
                       ![0] = [@ EXCEPT !.nativeCode = NoCode]]
    BY <1>3 DEF GivenBack
  <2> HIDE DEF x
  <2>3. Sound(GivenBack, nativeCodes)
    BY <1>1, <2>1, <2>2, GiveBackSound
  <2>4. DOMAIN GivenBack = DOMAIN arrays
    BY <2>2
  <2>5. ASSUME NEW k \in DOMAIN arrays
        PROVE  /\ GivenBack[k].size = arrays[k].size
               /\ GivenBack[k].platters = arrays[k].platters
    <3>1. IsArray(arrays[k])
      BY <1>1 DEF Sound, HeapTyped
    <3>2. CASE k = x
      <4>1. GivenBack[k] = [arrays[k] EXCEPT !.nativeCode = arrays[0].nativeCode]
        BY <3>2, <2>1, <2>2
      <4>2. QED BY <3>1, <4>1 DEF IsArray, ArrayOf
    <3>3. CASE k = 0
      <4>1. GivenBack[k] = [arrays[k] EXCEPT !.nativeCode = NoCode]
        BY <3>3, <2>1, <2>2
      <4>2. QED BY <3>1, <4>1 DEF IsArray, ArrayOf
    <3>4. CASE k \notin {0, x}
      BY <3>4, <2>2
    <3>5. QED BY <3>2, <3>3, <3>4
  <2>6. QED BY <2>3, <2>4, <2>5
<1>4. QED BY <1>2, <1>3

\* What loadProgram leaves: array 0 is a clean copy of the array with code of
\* its own, and the array it was copied from has none.
LEMMA LoadsSound ==
  ASSUME InductiveInvariant, 0 \in DOMAIN arrays,
         NEW index \in DOMAIN arrays \ {0}, NEW id \in CodeIds,
         Loads(index, id)
  PROVE  /\ Sound(arrays', nativeCodes')
         /\ DOMAIN arrays' = DOMAIN arrays
         /\ arrays'[0].nativeCode = id /\ arrays'[0].dirty = FALSE
         /\ arrays'[index].nativeCode = NoCode
         /\ arrays'[index].size = arrays'[0].size
         /\ id # NoCode
<1> DEFINE given     == GivenBack
           source    == given[index]
           destroyed == Released(nativeCodes, given[0].nativeCode)
           rest      == Restrict(given, DOMAIN given \ {0})
           generates == source.dirty \/ source.nativeCode = NoCode
           loaded    == IF generates
                        THEN [rest EXCEPT ![index] = CleanArray(@, id)]
                        ELSE rest
<1>1. Sound(given, nativeCodes) /\ DOMAIN given = DOMAIN arrays
  BY GivenBackSound
<1>2. Sound(rest, destroyed)
  BY <1>1, DestroySound
<1>3. /\ DOMAIN rest = DOMAIN arrays \ {0}
      /\ \A k \in DOMAIN arrays \ {0} : rest[k] = given[k]
  BY <1>1 DEF Restrict
<1>4. \/ /\ generates
         /\ id \in FreshCode(destroyed, source)
         /\ nativeCodes' = generateNativeCode(destroyed, source, id)
      \/ /\ ~generates
         /\ id = source.nativeCode
         /\ nativeCodes' = destroyed
  BY DEF Loads
<1>5. arrays' = [given EXCEPT
                   ![0] = [cloneOf(source) EXCEPT !.nativeCode = id],
                   ![index] = CleanArray(@, NoCode)]
  BY DEF Loads
<1>6. rest[index] = source /\ index \in DOMAIN rest
  BY <1>3
<1>7. id # NoCode
  BY ContextAssumption
<1>8. IsArray(source)
  BY <1>2, <1>6 DEF Sound, HeapTyped
<1> HIDE DEF given, rest, destroyed, source
<1>9. /\ Sound(loaded, nativeCodes') /\ DOMAIN loaded = DOMAIN rest
      /\ loaded[index].nativeCode = id /\ loaded[index].size = source.size
      /\ \A k \in DOMAIN rest \ {index} : loaded[k] = rest[k]
  <2>1. CASE generates
    <3>1. loaded = [rest EXCEPT ![index] = CleanArray(@, id)]
      BY <2>1
    <3>2. Sound(loaded, nativeCodes')
      BY <2>1, <3>1, <1>2, <1>4, <1>6, GenerateSound
    <3>3. loaded[index] = CleanArray(source, id)
      BY <3>1, <1>6
    <3>4. loaded[index].nativeCode = id /\ loaded[index].size = source.size
      BY <3>3, <1>8, ArrayRecord
    <3>5. DOMAIN loaded = DOMAIN rest
          /\ \A k \in DOMAIN rest \ {index} : loaded[k] = rest[k]
      BY <3>1
    <3>6. QED BY <3>2, <3>4, <3>5
  <2>2. CASE ~generates
    BY <2>2, <1>2, <1>4, <1>6
  <2>3. QED BY <2>1, <2>2
<1> HIDE DEF loaded, generates
<1>10. /\ DOMAIN arrays' = DOMAIN arrays
       /\ arrays'[0] = [cloneOf(source) EXCEPT !.nativeCode = id]
       /\ arrays'[index] = CleanArray(given[index], NoCode)
       /\ \A k \in DOMAIN arrays \ {0, index} : arrays'[k] = given[k]
  BY <1>1, <1>5
<1>11. /\ IsArray(arrays'[0]) /\ arrays'[0].nativeCode = id
       /\ arrays'[0].size = source.size /\ arrays'[0].dirty = FALSE
  <2>1. /\ IsArray(cloneOf(source)) /\ cloneOf(source).size = source.size
        /\ cloneOf(source).dirty = FALSE
    BY <1>8, CloneRecord
  <2>2. QED BY <2>1, <1>10, MovedRecord
<1>12. /\ IsArray(arrays'[index]) /\ arrays'[index].nativeCode = NoCode
       /\ arrays'[index].size = source.size
  <2>1. given[index] = source
    BY DEF source
  <2>2. QED BY <2>1, <1>8, <1>10, ArrayRecord
<1>13. Sound(arrays', nativeCodes')
  <2>1. 0 \notin DOMAIN loaded /\ DOMAIN arrays' = DOMAIN loaded \union {0}
    BY <1>3, <1>9, <1>10
  <2>2. \A k \in DOMAIN loaded \ {index} : arrays'[k] = loaded[k]
    BY <1>3, <1>9, <1>10
  <2>3. index \in DOMAIN loaded
    BY <1>6, <1>9
  <2>4. QED BY <2>1, <2>2, <2>3, <1>7, <1>9, <1>11, <1>12, InstallSound
<1>14. QED BY <1>7, <1>10, <1>11, <1>12, <1>13

\* Loading an array: the locals of run() follow the block of the new array 0, or
\* the exception leaves the loop with the heap sound.
LEMMA LoadProgramStep ==
  ASSUME InductiveInvariant, RunLoadProgram
  PROVE  InductiveInvariant'
<1> DEFINE index  == returned.value1
           finger == returned.value2
<1>1. Requested("loadProgram") /\ index \in DOMAIN arrays \ {0}
  BY DEF RunLoadProgram
<1>2. PICK id \in CodeIds :
        /\ Loads(index, id)
        /\ \/ /\ jumpTable' = id
              /\ resumeAt' = AddressOf(id, finger)
              /\ returned' = NotReturned
              /\ UNCHANGED status
           \/ /\ status' = "invalidArrayIndex"
              /\ UNCHANGED << jumpTable, resumeAt, returned >>
  BY DEF RunLoadProgram
<1>3. UNCHANGED << registers, arraysSize, capacity, minEmptyArrayIndex, io,
                   arraysPtr, eaxValue >>
  BY DEF RunLoadProgram
<1>4. /\ status = "running" /\ 0 \in DOMAIN arrays /\ arraysPtr = capacity
      /\ index \in Nat /\ finger \in Nat
  BY <1>1, RequestedFacts, WordSizes DEF Word
<1>5. array0Source' = index
  BY <1>2 DEF Loads
<1> HIDE DEF index, finger
<1>6. /\ arraysSize \in Nat /\ capacity \in Nat /\ MinEmptyIsSmallest
      /\ DOMAIN arrays \subseteq 0 .. arraysSize - 1
      /\ minEmptyArrayIndex \in Nat
  BY InvariantParts DEF HeapInvariant
<1>7. /\ Sound(arrays', nativeCodes')
      /\ DOMAIN arrays' = DOMAIN arrays
      /\ arrays'[0].nativeCode = id /\ arrays'[0].dirty = FALSE
      /\ arrays'[index].nativeCode = NoCode
      /\ arrays'[index].size = arrays'[0].size
      /\ id # NoCode
  BY <1>1, <1>2, <1>4, LoadsSound
<1>8. HeapInvariant'
  <2>1. SourceLink'
    BY <1>1, <1>5, <1>7 DEF SourceLink
  <2>2. MinEmptyIsSmallest'
    BY <1>3, <1>6, <1>7 DEF MinEmptyIsSmallest
  <2>3. QED BY <2>1, <2>2, <1>3, <1>4, <1>5, <1>6, <1>7 DEF HeapInvariant
<1>9. CASE /\ jumpTable' = id
           /\ resumeAt' = AddressOf(id, finger)
           /\ returned' = NotReturned
           /\ UNCHANGED status
  <2>1. LocalsTyped'
    BY <1>3, <1>4, <1>9, NotReturnedType, InvariantParts
       DEF LocalsTyped, AddressOf, io
  <2>2. RunLocalsFresh'
    BY <1>3, <1>4, <1>7, <1>9 DEF RunLocalsFresh, AddressOf
  <2>3. ~(/\ arrays'[0].size = 1
          /\ nativeCodes'[arrays'[0].nativeCode].code[0] = Stub)
    BY <1>4, <1>7, CleanHasNoStub
  <2>4. QED BY <1>4, <1>7, <1>8, <1>9, <2>1, <2>2, <2>3, ServedStep
<1>10. CASE /\ status' = "invalidArrayIndex"
            /\ UNCHANGED << jumpTable, resumeAt, returned >>
  <2>1. LocalsTyped'
    BY <1>3, <1>10, InvariantParts DEF LocalsTyped, io, Outcomes
  <2>2. ControlInvariant'
    BY <1>10 DEF ControlInvariant, RunLocalsFresh, NothingAfterArray0,
                 SinglePlatterNotRestarted, RecompileFromInside, Requested
  <2>3. QED BY <1>8, <2>1, <2>2, InvariantPartsPrimed
<1>11. QED BY <1>2, <1>9, <1>10

-----------------------------------------------------------------------------
\* Every step preserves the invariant.
LEMMA NextInvariant == InductiveInvariant /\ [Next]_vars => InductiveInvariant'
<1> SUFFICES ASSUME InductiveInvariant, [Next]_vars
             PROVE  InductiveInvariant'
  OBVIOUS
<1>1. CASE Run
  BY <1>1, RunStep
<1>2. CASE Native
  <2>1. CASE \/ ConditionalMove \/ Addition \/ Multiplication \/ Division
             \/ NotAnd \/ Orthography
    BY <2>1, ArithmeticStep
  <2>2. CASE ArrayIndex
    BY <2>2, ArrayIndexStep
  <2>3. CASE ArrayAmendment
    BY <2>3, ArrayAmendmentStep
  <2>4. CASE AllocationResumes \/ InputResumes
    BY <2>4, ResumesStep
  <2>5. CASE \/ Halt \/ InvalidOperator \/ Allocation \/ Abandonment
             \/ Output \/ Input \/ LoadProgram \/ RecompileStub
    BY <2>5, RequestStep
  <2>6. CASE Jump
    BY <2>6, JumpStep
  <2>7. CASE OutOfBoundStub
    BY <2>7, OutOfBoundStep
  <2>8. CASE \/ InvalidArrayIndex \/ InvalidArrayAmendment \/ DivisionByZero
             \/ JumpPastTable \/ DanglingCode
    BY <2>8, EndStep
  <2>9. QED
    BY <1>2, <2>1, <2>2, <2>3, <2>4, <2>5, <2>6, <2>7, <2>8 DEF Native
<1>3. CASE Handler
  <2>1. CASE RunHalt \/ AbandonmentThrows \/ AbandonmentOfNull \/ LoadProgramThrows
    BY <2>1, EndStep
  <2>2. CASE RunAllocation
    BY <2>2, AllocationStep
  <2>3. CASE RunAbandonment
    BY <2>3, AbandonmentStep
  <2>4. CASE RunOutput \/ RunInput
    BY <2>4, StreamStep
  <2>5. CASE RunLoadProgram
    BY <2>5, LoadProgramStep
  <2>6. QED BY <1>3, <2>1, <2>2, <2>3, <2>4, <2>5 DEF Handler
<1>4. CASE RunRecompile
  BY <1>4, RecompileStep
<1>5. CASE UNCHANGED vars
  <2>1. HeapInvariant'
    BY <1>5, InvariantParts
       DEF vars, HeapInvariant, SourceLink, MinEmptyIsSmallest
  <2>2. LocalsTyped'
    BY <1>5, InvariantParts DEF vars, LocalsTyped
  <2>3. ControlInvariant'
    BY <1>5, InvariantParts
       DEF vars, ControlInvariant, RunLocalsFresh, NothingAfterArray0,
           SinglePlatterNotRestarted, RecompileFromInside, Requested,
           InLiveBlock
  <2>4. QED BY <2>1, <2>2, <2>3, InvariantPartsPrimed
<1>6. QED BY <1>1, <1>2, <1>3, <1>4, <1>5 DEF Next

\* The invariant holds in every state of every run, whatever the programs, the
\* input, the width of the words, the number and the size of the arrays and the
\* addresses native code is allocated at.
THEOREM Invariance == Spec => []InductiveInvariant
<1>1. QED BY InitInvariant, NextInvariant, PTL DEF Spec

\* Registers and platters stay machine words and a block of native code has one
\* cell per platter.
THEOREM TypeCorrect == Spec => []TypeOK
<1>1. InductiveInvariant => TypeOK
  BY DEF InductiveInvariant
<1>2. QED BY <1>1, Invariance, PTL

\* No block of native code is shared, leaked, or freed while it has an owner.
THEOREM OwnershipOfCode == Spec => []CodeOwnership
<1>1. InductiveInvariant => CodeOwnership
  BY DEF InductiveInvariant
<1>2. QED BY <1>1, Invariance, PTL

\* run() never enters native code with a stale &_arrays[0], jump table or
\* address.
THEOREM FreshLocals == Spec => []RunLocalsFresh
<1>1. InductiveInvariant => RunLocalsFresh
  BY DEF InductiveInvariant
<1>2. QED BY <1>1, Invariance, PTL

\* The recorded source of array 0 is an allocated array of its size that has no
\* native code.
THEOREM SourceLinked == Spec => []SourceLink
<1>1. InductiveInvariant => SourceLink
  BY DEF InductiveInvariant
<1>2. QED BY <1>1, Invariance, PTL

\* Every index below _minEmptyArrayIndex is allocated.
THEOREM SmallestEmpty == Spec => []MinEmptyIsSmallest
<1>1. InductiveInvariant => MinEmptyIsSmallest
  BY DEF InductiveInvariant
<1>2. QED BY <1>1, Invariance, PTL

\* The assertions of fingerPositionFor never fail: a program of one platter is
\* never asked to be compiled again.
THEOREM PositionInTable == Spec => []FingerPositionInTable
<1>1. InductiveInvariant => FingerPositionInTable
  <2> SUFFICES ASSUME InductiveInvariant, Requested("recompile")
               PROVE  /\ 0 \in DOMAIN arrays
                      /\ arrays[0].size > 0
                      /\ fingerPositionFor(arrays[0].size, resumeAt)
                           \in 0 .. arrays[0].size - 1
    BY DEF FingerPositionInTable
  <2>1. 0 \in DOMAIN arrays
    BY RequestedFacts
  <2>2. QED BY <2>1, RecompilePosition
<1>2. QED BY <1>1, Invariance, PTL

\* Only compiling array 0 again serves a stub that has been hit.
LEMMA RecompileServed ==
  ASSUME Requested("recompile"), Next
  PROVE  RunRecompile
<1>1. status = "running" /\ returned.code = "recompile" /\ returned # NotReturned
  BY DEF Requested, NotReturned
<1>2. ~Run
  BY <1>1 DEF Run
<1>3. ~Executing
  BY <1>1 DEF Executing
<1>4. ~Native
  BY <1>3
     DEF Native, AtPlatter, Executes, Resumes,
         ConditionalMove, ArrayIndex, InvalidArrayIndex, ArrayAmendment,
         InvalidArrayAmendment, Addition, Multiplication, Division,
         DivisionByZero, NotAnd, Orthography, Halt, InvalidOperator,
         Allocation, AllocationResumes, Abandonment, Output, Input,
         InputResumes, Jump, JumpPastTable, LoadProgram, OutOfBoundStub,
         RecompileStub, DanglingCode
<1>5. Handler \/ RunRecompile
  BY <1>2, <1>4 DEF Next
<1>6. QED
  BY <1>1, <1>5
     DEF Handler, Requested, RunHalt, RunAllocation, RunAbandonment,
         AbandonmentThrows, AbandonmentOfNull, RunOutput, RunInput,
         RunLoadProgram, LoadProgramThrows

\* Compiling array 0 again puts resumeAt at the platter the stub was hit in.
LEMMA EarlierPlatterRestarts ==
  ASSUME InductiveInvariant, Next, Requested("recompile"),
         resumeAt.platter < arrays[0].size - 1
  PROVE  resumeAt' = AddressOf(arrays'[0].nativeCode, resumeAt.platter)
<1>1. RunRecompile
  BY RecompileServed
<1>2. PICK id \in FreshCode(nativeCodes, arrays[0]) :
        /\ nativeCodes' = generateNativeCode(nativeCodes, arrays[0], id)
        /\ arrays' = [arrays EXCEPT ![0] = CleanArray(@, id)]
        /\ resumeAt' = AddressOf(id, fingerPositionFor(arrays[0].size, resumeAt))
  BY <1>1 DEF RunRecompile
<1>3. UNCHANGED << arraysSize, capacity, array0Source, minEmptyArrayIndex >>
  BY <1>1 DEF RunRecompile
<1>4. 0 \in DOMAIN arrays
  BY RequestedFacts
<1>5. arrays'[0].nativeCode = id
  BY <1>2, <1>3, <1>4, CompiledHeap
<1>6. arrays[0].size \in Nat /\ arrays[0].size >= 2
  BY RecompilePosition
<1>7. resumeAt.offset > 0 /\ resumeAt.platter \in Nat
  BY InvariantParts DEF ControlInvariant, RecompileFromInside, LocalsTyped
<1>8. fingerPositionFor(arrays[0].size, resumeAt) = resumeAt.platter
  BY <1>6, <1>7, FingerPosition
<1>9. QED BY <1>2, <1>5, <1>8

\* A stub that is hit in any platter but the last of array 0 is compiled away
\* and execution goes on with that very platter.
THEOREM EarlierPlattersRestart == Spec => RecompileRestartsEarlierPlatter
<1> DEFINE Restarts ==
      Requested("recompile") /\ resumeAt.platter < arrays[0].size - 1
      /\ status' = "running" =>
        resumeAt' = AddressOf(arrays'[0].nativeCode, resumeAt.platter)
<1>1. InductiveInvariant /\ [Next]_vars => [Restarts]_vars
  BY EarlierPlatterRestarts
<1>2. QED
  BY <1>1, Invariance, PTL DEF Spec, RecompileRestartsEarlierPlatter
==============================================================================
