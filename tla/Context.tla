------------------------------- MODULE Context -------------------------------
(***************************************************************************)
(* class context: the virtual machine.  It owns the registers, the vector  *)
(* of arrays and the native code generated for them, and alternates        *)
(* between executing native code and serving, in the loop of run(), the    *)
(* requests native code returns with.                                      *)
(*                                                                         *)
(* Native code is modelled at the granularity of a platter: a block has    *)
(* one cell per platter, which holds the word the cell was generated from  *)
(* or the recompile stub that an array amendment wrote over it.  A native  *)
(* address is a triple [block, platter, offset]; addresses inside a block  *)
(* are ordered as the pairs <<platter, offset>>, because codeFor emits the *)
(* platters in order and at least recompileStubSize bytes for each.        *)
(*                                                                         *)
(* A pointer that is null is an index outside the domain of arrays; a      *)
(* vector slot i < arraysSize outside that domain is _arrays[i] = 0.       *)
(* Where the C++ or x86 semantics of a step end (an access through a null  *)
(* or dangling pointer, out of an array, a division by zero) status        *)
(* becomes "undefined" or "trapped" and the model stops.                   *)
(***************************************************************************)
EXTENDS Platter, Sequences, Functions

CONSTANTS
  Scrolls,       \* the zero arrays the context may be constructed with
  Chars,         \* the characters the input stream may deliver
  CodeIds,       \* the addresses a nativeCode object may have
  NoCode,        \* the null nativeCode pointer
  MaxArrays,     \* bound: entries of the vector of arrays
  MaxArraySize,  \* bound: platters in an allocated array
  MaxOutput      \* bound: characters written to the output stream

ASSUME ContextAssumption ==
  /\ \A s \in Scrolls : s.size \in Nat /\ s.platters \in [0 .. s.size - 1 -> Word]
  /\ Chars \subseteq Word
  /\ NoCode \notin CodeIds
  /\ MaxArrays \in Nat /\ MaxArrays <= WordSize
  /\ MaxArraySize \in Nat

VARIABLES
  registers,           \* _registers
  arrays,              \* the allocated arrays, by index in _arrays
  arraysSize,          \* _arrays.size()
  capacity,            \* _arrays.capacity(): identifies the vector's buffer
  nativeCodes,         \* the live nativeCode objects, by address
  array0Source,        \* _array0Source
  minEmptyArrayIndex,  \* _minEmptyArrayIndex
  eof,                 \* _is has reached its end
  os,                  \* the characters written to _os
  arraysPtr,           \* run(): arrays (edi), the buffer it points into
  jumpTable,           \* run(): jumpTable (ebp), the block it belongs to
  resumeAt,            \* run(): resumeAt; also the native instruction pointer
  eaxValue,            \* run(): eaxValue
  returned,            \* run(): returnCode, value1, value2
  status               \* how run() ended, or "running"

vars == << registers, arrays, arraysSize, capacity, nativeCodes, array0Source,
           minEmptyArrayIndex, eof, os, arraysPtr, jumpTable, resumeAt,
           eaxValue, returned, status >>

heap   == << arrays, arraysSize, capacity, nativeCodes, array0Source,
             minEmptyArrayIndex >>
io     == << eof, os >>
locals == << arraysPtr, jumpTable, eaxValue >>

-----------------------------------------------------------------------------
\* Native code blocks

Stub == -1              \* a cell overwritten by the recompile stub
recompileStubSize == 7  \* bytes of the stub: its return address is 7 past it

\* Return addresses inside a platter's code: after the call edx of an
\* allocation and of an input.  Every other operator returns at its very end,
\* which is the first byte of the next platter.
allocationReturn == 10
inputReturn      == 7

AddressOf(block, i) == [block |-> block, platter |-> i, offset |-> 0]

NotReturned == [code |-> "none", value1 |-> 0, value2 |-> 0]

\* haltReturnCodes
normalTermination   == 0
invalidOperator     == 1
outOfBoundExecution == 2

Stored(f, x, v) == [y \in DOMAIN f \union {x} |-> IF y = x THEN v ELSE f[y]]

\* nativeCode::destroy; destroying through a null pointer is guarded by the
\* callers and does nothing.
NeverReleased(codes, id) == codes
Released(codes, id) == Restrict(codes, DOMAIN codes \ {id})

\* array::create
newArrayOneTooLong(size) ==
  [ size |-> size, dirty |-> FALSE, nativeCode |-> NoCode,
    platters |-> [i \in 0 .. size |-> 0] ]

newArray(size) ==
  [ size |-> size, dirty |-> FALSE, nativeCode |-> NoCode,
    platters |-> [i \in 0 .. size - 1 |-> 0] ]

\* The addresses generateNativeCode may get for the new block of array a: the
\* old block has been released by then.
FreshCode(codes, a) == CodeIds \ DOMAIN Released(codes, a.nativeCode)

\* generateNativeCode: what it leaves in the array and in the heap.  One cell
\* per platter, and a jump table with as many entries.
CleanArray(a, id) == [a EXCEPT !.dirty = FALSE, !.nativeCode = id]

generateNativeCode(codes, a, id) ==
  Stored(Released(codes, a.nativeCode), id,
         [size |-> a.size, code |-> a.platters])

\* context::fingerPositionFor.  lower_bound searches the jump table without
\* its last entry for the first entry that is not below the return address.
BelowIgnoringOffset(i, address) == i < address.platter
Below(i, address) ==
  i < address.platter \/ (i = address.platter /\ address.offset > 0)

lowerBound(size, address) ==
  CHOOSE k \in 0 .. size - 1 :
    /\ \A i \in 0 .. k - 1 : Below(i, address)
    /\ k = size - 1 \/ ~Below(k, address)

fingerPositionFor(size, address) == lowerBound(size, address) - 1

-----------------------------------------------------------------------------
\* The constructor: the vector holds the zero array and nothing else.
Init ==
  /\ \E s \in Scrolls :
       arrays = [i \in {0} |-> [newArray(s.size) EXCEPT !.platters = s.platters]]
  /\ arraysSize = 1 /\ capacity = 1
  /\ registers = [i \in Register |-> 0]
  /\ nativeCodes = << >>
  /\ array0Source = 0
  /\ minEmptyArrayIndex = 1
  /\ eof = FALSE /\ os = << >>
  /\ arraysPtr = 0 /\ jumpTable = NoCode /\ resumeAt = AddressOf(NoCode, 0)
  /\ eaxValue = 0
  /\ returned = NotReturned
  /\ status = "constructed"

\* &_arrays[0]
StaleArraysPointer(buffer) == arraysPtr
ArraysPointer(buffer) == buffer

\* run() before its loop.
Run ==
  /\ status = "constructed"
  /\ \E id \in FreshCode(nativeCodes, arrays[0]) :
       /\ nativeCodes' = generateNativeCode(nativeCodes, arrays[0], id)
       /\ arrays' = [arrays EXCEPT ![0] = CleanArray(@, id)]
       /\ jumpTable' = id
       /\ resumeAt' = AddressOf(id, 0)
  /\ arraysPtr' = ArraysPointer(capacity)
  /\ eaxValue' = 0
  /\ status' = "running"
  /\ UNCHANGED << registers, arraysSize, capacity, array0Source,
                  minEmptyArrayIndex, io, returned >>

-----------------------------------------------------------------------------
\* Native code, one action per operator

Executing == status = "running" /\ returned = NotReturned

\* The instruction pointer is in a block that has not been freed.
InLiveBlock == resumeAt.block \in DOMAIN nativeCodes

Block == nativeCodes[resumeAt.block]
Cell  == Block.code[resumeAt.platter]

AtPlatter ==
  /\ Executing
  /\ InLiveBlock
  /\ resumeAt.platter < Block.size

A     == decode(Cell).A
B     == decode(Cell).B
C     == decode(Cell).C
value == decode(Cell).value

\* At the first byte of the code of an intact platter with operator op.
Executes(op) ==
  /\ AtPlatter
  /\ resumeAt.offset = 0
  /\ Cell # Stub
  /\ decode(Cell).op = op

\* Back in the code of operator op after its call edx has been served.
Resumes(op) ==
  /\ AtPlatter
  /\ resumeAt.offset # 0
  /\ decode(Cell).op = op

NextPlatter == AddressOf(resumeAt.block, resumeAt.platter + 1)

SetRegister(r, v) ==
  /\ registers' = [registers EXCEPT ![r] = v]
  /\ resumeAt' = NextPlatter
  /\ UNCHANGED << heap, io, locals, returned, status >>

\* pop edx, call edx: run() gets eax, ebx, ecx and the return address.
Return(code, value1, value2, address) ==
  /\ returned' = [code |-> code, value1 |-> value1, value2 |-> value2]
  /\ resumeAt' = address
  /\ UNCHANGED << registers, heap, io, locals, status >>

\* run() ends, or what happens next is not up to the program any more.
Stop(outcome) ==
  /\ status' = outcome
  /\ UNCHANGED << registers, heap, io, locals, resumeAt, returned >>

ConditionalMove ==
  /\ Executes(conditionalMove)
  /\ SetRegister(A, IF registers[C] # 0 THEN registers[B] ELSE registers[A])

\* [edi + index * 4], then [+ j * 4 + _plattersOffset], is a platter.
Addressable(index, j) ==
  /\ arraysPtr = capacity
  /\ index \in DOMAIN arrays
  /\ j < arrays[index].size

ArrayIndex ==
  /\ Executes(arrayIndex)
  /\ Addressable(registers[B], registers[C])
  /\ SetRegister(A, arrays[registers[B]].platters[registers[C]])

InvalidArrayIndex ==
  /\ Executes(arrayIndex)
  /\ ~Addressable(registers[B], registers[C])
  /\ Stop("undefined")

\* The stub goes where entry j of the jump table in ebp points.
Patchable(j) ==
  /\ jumpTable \in DOMAIN nativeCodes
  /\ j < nativeCodes[jumpTable].size

Amendable ==
  /\ Addressable(registers[A], registers[B])
  /\ registers[A] = 0 => Patchable(registers[B])

AmendedSilently(a, j, v) == [a EXCEPT !.platters = [@ EXCEPT ![j] = v]]
Amended(a, j, v) ==
  [a EXCEPT !.dirty = TRUE, !.platters = [@ EXCEPT ![j] = v]]

\* The recompile stub written over the code of platter j.
Stubbed(b, j) == [b EXCEPT !.code = [@ EXCEPT ![j] = Stub]]

Unpatched(codes, id, j) == codes
Patched(codes, id, j)   == [codes EXCEPT ![id] = Stubbed(@, j)]

ArrayAmendment ==
  /\ Executes(arrayAmendment)
  /\ Amendable
  /\ arrays' = [arrays EXCEPT
                  ![registers[A]] = Amended(@, registers[B], registers[C])]
  /\ nativeCodes' = IF registers[A] = 0
                    THEN Patched(nativeCodes, jumpTable, registers[B])
                    ELSE nativeCodes
  /\ resumeAt' = NextPlatter
  /\ UNCHANGED << registers, arraysSize, capacity, array0Source,
                  minEmptyArrayIndex, io, locals, returned, status >>

InvalidArrayAmendment ==
  /\ Executes(arrayAmendment)
  /\ ~Amendable
  /\ Stop("undefined")

Addition ==
  /\ Executes(addition)
  /\ SetRegister(A, WordSum(registers[B], registers[C]))

Multiplication ==
  /\ Executes(multiplication)
  /\ SetRegister(A, Product(registers[B], registers[C]))

Division ==
  /\ Executes(division)
  /\ registers[C] # 0
  /\ SetRegister(A, Quotient(registers[B], registers[C]))

DivisionByZero ==
  /\ Executes(division)
  /\ registers[C] = 0
  /\ Stop("trapped")

NotAnd ==
  /\ Executes(notAnd)
  /\ \E x \in Word :
       /\ IsNotAnd(x, registers[B], registers[C])
       /\ SetRegister(A, x)

Orthography ==
  /\ Executes(orthography)
  /\ SetRegister(A, value)

Halt ==
  /\ Executes(halt)
  /\ Return("halt", normalTermination, 0, NextPlatter)

InvalidOperator ==
  /\ \E op \in invalidOperators : Executes(op)
  /\ Return("halt", invalidOperator, Cell, NextPlatter)

Allocation ==
  /\ Executes(allocation)
  /\ Return("allocation", registers[C], 0,
            [resumeAt EXCEPT !.offset = allocationReturn])

AllocationResumes ==
  /\ Resumes(allocation)
  /\ SetRegister(B, eaxValue)

Abandonment ==
  /\ Executes(abandonment)
  /\ Return("abandonment", registers[C], 0, NextPlatter)

Output ==
  /\ Executes(output)
  /\ Return("output", registers[C], 0, NextPlatter)

Input ==
  /\ Executes(input)
  /\ Return("input", 0, 0, [resumeAt EXCEPT !.offset = inputReturn])

InputResumes ==
  /\ Resumes(input)
  /\ SetRegister(C, eaxValue)

\* B = 0: jumpTable[C], with no look at the size of array 0.
Jump ==
  /\ Executes(loadProgram)
  /\ registers[B] = 0
  /\ Patchable(registers[C])
  /\ resumeAt' = AddressOf(jumpTable, registers[C])
  /\ UNCHANGED << registers, heap, io, locals, returned, status >>

JumpPastTable ==
  /\ Executes(loadProgram)
  /\ registers[B] = 0
  /\ ~Patchable(registers[C])
  /\ Stop("undefined")

LoadProgram ==
  /\ Executes(loadProgram)
  /\ registers[B] # 0
  /\ Return("loadProgram", registers[B], registers[C], NextPlatter)

\* The code codeForOOBStub emits after the last platter.
OutOfBoundStub ==
  /\ Executing
  /\ InLiveBlock
  /\ resumeAt.platter >= Block.size
  /\ Return("halt", outOfBoundExecution, 0, NextPlatter)

RecompileStub ==
  /\ AtPlatter
  /\ resumeAt.offset = 0
  /\ Cell = Stub
  /\ Return("recompile", 0, 0, [resumeAt EXCEPT !.offset = recompileStubSize])

\* The block under the instruction pointer has been freed.
DanglingCode ==
  /\ Executing
  /\ ~InLiveBlock
  /\ Stop("undefined")

-----------------------------------------------------------------------------
\* run(): the switch on the return code

Requested(code) == status = "running" /\ returned.code = code

RunHalt ==
  /\ Requested("halt")
  /\ \/ returned.value1 = normalTermination   /\ Stop("halted")
     \/ returned.value1 = invalidOperator     /\ Stop("invalidOperator")
     \/ returned.value1 = outOfBoundExecution /\ Stop("outOfBoundExecution")

\* std::vector::push_back when the buffer is full.
Grown(n) == IF n + 1 > n + n \div 2 THEN n + 1 ELSE n + n \div 2

RunAllocation ==
  /\ Requested("allocation")
  /\ returned.value1 <= MaxArraySize
  /\ \E i \in minEmptyArrayIndex .. arraysSize :
       /\ \A j \in minEmptyArrayIndex .. i - 1 : j \in DOMAIN arrays
       /\ i \notin DOMAIN arrays
       /\ i < MaxArrays
       /\ minEmptyArrayIndex' = i
       /\ arraysSize' = IF i = arraysSize THEN arraysSize + 1 ELSE arraysSize
       /\ capacity' = IF i = arraysSize /\ arraysSize = capacity
                      THEN Grown(capacity) ELSE capacity
       /\ arrays' = Stored(arrays, i, newArray(returned.value1))
       /\ eaxValue' = i
  /\ arraysPtr' = ArraysPointer(capacity')
  /\ returned' = NotReturned
  /\ UNCHANGED << registers, nativeCodes, array0Source, io, jumpTable,
                  resumeAt, status >>

KeptSource(index) == array0Source
SourceAfterAbandonment(index) ==
  IF array0Source = index THEN 0 ELSE array0Source

KeptMinEmpty(index) == minEmptyArrayIndex
MinEmptyAfterAbandonment(index) ==
  IF index < minEmptyArrayIndex THEN index ELSE minEmptyArrayIndex

RunAbandonment ==
  /\ Requested("abandonment")
  /\ LET index == returned.value1 IN
       /\ index \in DOMAIN arrays
       /\ array0Source' = SourceAfterAbandonment(index)
       /\ nativeCodes' = Released(nativeCodes, arrays[index].nativeCode)
       /\ arrays' = Restrict(arrays, DOMAIN arrays \ {index})
       /\ minEmptyArrayIndex' = MinEmptyAfterAbandonment(index)
  /\ arraysPtr' = ArraysPointer(capacity)
  /\ returned' = NotReturned
  /\ UNCHANGED << registers, arraysSize, capacity, io, jumpTable, resumeAt,
                  eaxValue, status >>

AbandonmentThrows ==
  /\ Requested("abandonment")
  /\ returned.value1 >= arraysSize
  /\ Stop("invalidArrayIndex")

\* _arrays[index]->destroy(_mm) through a null pointer.
AbandonmentOfNull ==
  /\ Requested("abandonment")
  /\ returned.value1 < arraysSize
  /\ returned.value1 \notin DOMAIN arrays
  /\ Stop("undefined")

RunOutput ==
  /\ Requested("output")
  /\ Len(os) < MaxOutput
  /\ os' = Append(os, returned.value1 % 256)
  /\ returned' = NotReturned
  /\ UNCHANGED << registers, heap, eof, locals, resumeAt, status >>

\* A stream that has reached its end stays there.
RunInput ==
  /\ Requested("input")
  /\ \/ \E c \in Chars :
          /\ ~eof
          /\ eaxValue' = c
          /\ UNCHANGED eof
     \/ /\ eaxValue' = AllOnes
        /\ eof' = TRUE
  /\ returned' = NotReturned
  /\ UNCHANGED << registers, heap, os, arraysPtr, jumpTable, resumeAt, status >>

LoadProgramThrows ==
  /\ Requested("loadProgram")
  /\ returned.value1 \notin DOMAIN arrays \ {0}
  /\ Stop("invalidArrayIndex")

\* Array 0 was copied from an array and neither has been amended since.
GivesBack ==
  ~arrays[0].dirty /\ array0Source # 0 /\ ~arrays[array0Source].dirty

\* The arrays after the native code of array 0 has been given back.
GivenBack ==
  IF GivesBack
  THEN [arrays EXCEPT
          ![array0Source] = [@ EXCEPT !.nativeCode = arrays[0].nativeCode],
          ![0] = [@ EXCEPT !.nativeCode = NoCode]]
  ELSE arrays

\* array::clone
cloneOf(a) == [a EXCEPT !.dirty = FALSE]

\* loadProgram(index), whose code ends up in array 0 at address id.
Loads(index, id) ==
  LET source    == GivenBack[index]
      destroyed == Released(nativeCodes, GivenBack[0].nativeCode)
      generates == source.dirty \/ source.nativeCode = NoCode
  IN /\ \/ /\ generates
           /\ id \in FreshCode(destroyed, source)
           /\ nativeCodes' = generateNativeCode(destroyed, source, id)
        \/ /\ ~generates
           /\ id = source.nativeCode
           /\ nativeCodes' = destroyed
     /\ arrays' = [GivenBack EXCEPT
                     ![0] = [cloneOf(source) EXCEPT !.nativeCode = id],
                     ![index] = CleanArray(@, NoCode)]
     /\ array0Source' = index

RunLoadProgram ==
  /\ Requested("loadProgram")
  /\ returned.value1 \in DOMAIN arrays \ {0}
  /\ \E id \in CodeIds :
       /\ Loads(returned.value1, id)
       /\ \/ /\ returned.value2 < arrays[returned.value1].size
             /\ jumpTable' = id
             /\ resumeAt' = AddressOf(id, returned.value2)
             /\ returned' = NotReturned
             /\ UNCHANGED status
          \/ /\ returned.value2 >= arrays[returned.value1].size
             /\ status' = "invalidArrayIndex"
             /\ UNCHANGED << jumpTable, resumeAt, returned >>
  /\ UNCHANGED << registers, arraysSize, capacity, minEmptyArrayIndex, io,
                  arraysPtr, eaxValue >>

RunRecompile ==
  /\ Requested("recompile")
  /\ \E id \in FreshCode(nativeCodes, arrays[0]) :
       /\ nativeCodes' = generateNativeCode(nativeCodes, arrays[0], id)
       /\ arrays' = [arrays EXCEPT ![0] = CleanArray(@, id)]
       /\ jumpTable' = id
       /\ resumeAt' = AddressOf(id, fingerPositionFor(arrays[0].size, resumeAt))
  /\ returned' = NotReturned
  /\ UNCHANGED << registers, arraysSize, capacity, array0Source,
                  minEmptyArrayIndex, io, arraysPtr, eaxValue, status >>

-----------------------------------------------------------------------------
Native ==
  \/ ConditionalMove \/ ArrayIndex \/ InvalidArrayIndex
  \/ ArrayAmendment \/ InvalidArrayAmendment
  \/ Addition \/ Multiplication \/ Division \/ DivisionByZero \/ NotAnd
  \/ Orthography \/ Halt \/ InvalidOperator
  \/ Allocation \/ AllocationResumes \/ Abandonment
  \/ Output \/ Input \/ InputResumes
  \/ Jump \/ JumpPastTable \/ LoadProgram
  \/ OutOfBoundStub \/ RecompileStub \/ DanglingCode

Handler ==
  \/ RunHalt \/ RunAllocation
  \/ RunAbandonment \/ AbandonmentThrows \/ AbandonmentOfNull
  \/ RunOutput \/ RunInput
  \/ RunLoadProgram \/ LoadProgramThrows

Next == Run \/ Native \/ Handler \/ RunRecompile

Spec == Init /\ [][Next]_vars

\* run() is a loop of one thread: it goes on as long as it can, and the input
\* stream eventually answers.
FairSpec == Spec /\ WF_vars(Next)

-----------------------------------------------------------------------------
\* Properties

ArrayOf(size) ==
  [ size : {size}, dirty : BOOLEAN, nativeCode : CodeIds \union {NoCode},
    platters : [0 .. size - 1 -> Word] ]

BlockOf(size) ==
  [ size : {size}, code : [0 .. size - 1 -> Stub .. AllOnes] ]

IsArray(a) == a.size \in Nat /\ a \in ArrayOf(a.size)
IsBlock(b) == b.size \in Nat /\ b \in BlockOf(b.size)

ReturnCodes == { "none", "halt", "allocation", "abandonment", "output", "input",
                 "loadProgram", "recompile" }

Outcomes == { "halted", "invalidOperator", "outOfBoundExecution",
              "invalidArrayIndex", "undefined", "trapped", "outOfMemory" }

\* The type of every variable: registers and platters are machine words, a
\* block of native code has exactly one cell per platter.
TypeOK ==
  /\ registers \in [Register -> Word]
  /\ arraysSize \in Nat /\ capacity \in Nat
  /\ DOMAIN arrays \subseteq 0 .. arraysSize - 1
  /\ \A i \in DOMAIN arrays : IsArray(arrays[i])
  /\ DOMAIN nativeCodes \subseteq CodeIds
  /\ \A id \in DOMAIN nativeCodes : IsBlock(nativeCodes[id])
  /\ array0Source \in Nat /\ minEmptyArrayIndex \in Nat
  /\ eof \in BOOLEAN /\ os \in Seq(0 .. 255)
  /\ arraysPtr \in Nat /\ jumpTable \in CodeIds \union {NoCode}
  /\ resumeAt \in [ block : CodeIds \union {NoCode}, platter : Nat,
                    offset : Nat ]
  /\ eaxValue \in Word
  /\ returned \in [code : ReturnCodes, value1 : Word, value2 : Word]
  /\ status \in {"constructed", "running"} \union Outcomes

\* Native code is moved between arrays and never shared: a pointer that is
\* not null points to a live block of the size of its array, no two arrays
\* point to the same block, and no live block has lost its owner.  A block
\* freed twice, leaked, or freed while another array still has it breaks one
\* of the three (context::loadProgram, generateNativeCode, array::destroy).
Owns(i, id) == i \in DOMAIN arrays /\ arrays[i].nativeCode = id

CodeOwnership ==
  /\ \A i \in DOMAIN arrays :
       arrays[i].nativeCode # NoCode =>
         /\ arrays[i].nativeCode \in DOMAIN nativeCodes
         /\ nativeCodes[arrays[i].nativeCode].size = arrays[i].size
  /\ \A i, j \in DOMAIN arrays :
       arrays[i].nativeCode = arrays[j].nativeCode =>
         i = j \/ arrays[i].nativeCode = NoCode
  /\ \A id \in DOMAIN nativeCodes : \E i \in DOMAIN arrays : Owns(i, id)

\* The copies run() keeps of &_arrays[0], of the jump table and of the place
\* to resume at are never stale when native code is entered: the vector's
\* buffer is the current one, and as long as array 0 has not been abandoned
\* the jump table and the instruction pointer are those of array 0.
RunLocalsFresh ==
  status = "running" =>
    /\ arraysPtr = capacity
    /\ 0 \in DOMAIN arrays =>
         /\ jumpTable = arrays[0].nativeCode
         /\ jumpTable # NoCode
         /\ resumeAt.block = jumpTable

\* A recorded source is an allocated array other than array 0, of array 0's
\* size, and it has no native code that giving array 0's code back would leak
\* (context.h:51-60).
SourceLink ==
  array0Source # 0 /\ 0 \in DOMAIN arrays =>
    /\ array0Source \in DOMAIN arrays
    /\ arrays[array0Source].nativeCode = NoCode
    /\ arrays[array0Source].size = arrays[0].size

\* Every index below _minEmptyArrayIndex is allocated, so that allocation,
\* which starts its search there, returns the smallest free index
\* (context.h:66-70), and the search never starts past the vector's end.
MinEmptyIsSmallest ==
  /\ minEmptyArrayIndex <= arraysSize
  /\ 0 .. minEmptyArrayIndex - 1 \subseteq DOMAIN arrays

\* Once array 0 itself has been abandoned no request is served any more: the
\* next thing to execute is code that has been freed.
NothingAfterArray0 ==
  0 \notin DOMAIN arrays /\ status = "running" =>
    returned = NotReturned /\ ~InLiveBlock

\* Stubs are found in the code of array 0 only, and only while it is dirty, so
\* that code which is moved to another array is free of them.
StubsOnlyInDirtyArray0 ==
  \A i \in DOMAIN arrays :
    arrays[i].nativeCode # NoCode =>
      \A j \in 0 .. arrays[i].size - 1 :
        nativeCodes[arrays[i].nativeCode].code[j] = Stub =>
          i = 0 /\ arrays[0].dirty

\* A program of one platter that has amended itself has run past its end.
SinglePlatterNotRestarted ==
  /\ status = "running"
  /\ 0 \in DOMAIN arrays
  /\ arrays[0].size = 1
  /\ nativeCodes[arrays[0].nativeCode].code[0] = Stub
  => resumeAt.platter > 0 /\ returned.code \in {"none", "halt"}

\* A stub returns from inside the platter it replaced.
RecompileFromInside ==
  Requested("recompile") =>
    /\ resumeAt.offset > 0
    /\ 0 \in DOMAIN arrays =>
         /\ resumeAt.platter < arrays[0].size
         /\ nativeCodes[arrays[0].nativeCode].code[resumeAt.platter] = Stub

\* What every step preserves, given that it holds before: the properties above
\* are each other's reasons.
InductiveInvariant ==
  /\ TypeOK
  /\ status = "constructed" => 0 \in DOMAIN arrays /\ returned = NotReturned
  /\ CodeOwnership
  /\ RunLocalsFresh
  /\ SourceLink
  /\ MinEmptyIsSmallest
  /\ NothingAfterArray0
  /\ StubsOnlyInDirtyArray0
  /\ SinglePlatterNotRestarted
  /\ RecompileFromInside

\* Cell j of the code of array i is what executing platter j should run: the
\* platter itself, or, in array 0, a stub that has it compiled again.  An
\* array other than 0 that has been amended is compiled before it is used.
CellCurrent(i, j) ==
  LET cell == nativeCodes[arrays[i].nativeCode].code[j] IN
  \/ cell = arrays[i].platters[j]
  \/ i = 0 /\ arrays[0].dirty /\ cell = Stub
  \/ i # 0 /\ arrays[i].dirty

\* The native code of every array is that of the platters it has now.
CodeCoherent ==
  \A i \in DOMAIN arrays :
    arrays[i].nativeCode # NoCode =>
      \A j \in 0 .. arrays[i].size - 1 : CellCurrent(i, j)

\* While the code of array 0 may still be given back, the source has the very
\* platters array 0 has, which are those the code was generated from.
LinkedCopiesAgree ==
  array0Source \in DOMAIN arrays \ {0} /\ 0 \in DOMAIN arrays =>
    (~arrays[0].dirty /\ ~arrays[array0Source].dirty =>
       arrays[0].platters = arrays[array0Source].platters)

\* The code of array 0 is about to be given back to a source whose platters are
\* not those it was generated from (context.cpp:862).
StaleGiveBack ==
  /\ Requested("loadProgram")
  /\ returned.value1 \in DOMAIN arrays \ {0}
  /\ GivesBack
  /\ arrays[0].platters # arrays[array0Source].platters

\* Whatever is allocated, abandoned, amended, loaded or compiled again, the native
\* code of every array stays that of its platters, as long as the code of array 0
\* is not given back to a source it is not the code of.
CoherenceKept ==
  [][CodeCoherent /\ ~StaleGiveBack => CodeCoherent']_vars

\* The two copies of a program come to disagree unnoticed in one way only: array 0
\* is compiled again while its source is recorded, which clears its mark.
LinksKept ==
  [][LinkedCopiesAgree /\ ~(Requested("recompile") /\ array0Source # 0) =>
       LinkedCopiesAgree']_vars

\* A stub is compiled away and execution restarts from the same platter
\* (context.cpp:69-71).
RecompileRestartsSamePlatter ==
  [][Requested("recompile") =>
       resumeAt'.platter = resumeAt.platter]_vars

\* In every platter but the last that is what happens: the first byte of the
\* platter's new code is where execution goes on, if it goes on.
RecompileRestartsEarlierPlatter ==
  [][Requested("recompile") /\ resumeAt.platter < arrays[0].size - 1
     /\ status' = "running" =>
       resumeAt' = AddressOf(arrays'[0].nativeCode, resumeAt.platter)]_vars

\* fingerPositionFor's two assertions (context.cpp:258, 269): when a recompile
\* stub has been hit array 0 is not empty and lower_bound does not stop at the
\* first entry of the jump table; and the position it computes is in range.
FingerPositionInTable ==
  Requested("recompile") =>
    /\ 0 \in DOMAIN arrays
    /\ arrays[0].size > 0
    /\ fingerPositionFor(arrays[0].size, resumeAt) \in 0 .. arrays[0].size - 1

\* The source array of array 0 gets native code back only if it is the code of
\* its own platters: neither has been modified (context.h:51-60).
GivenBackUnmodified == ~StaleGiveBack

\* A program without a jump, that loads nothing but an array of zeroes, runs forward
\* and so ends, however it amends itself, if every stub restarts its own platter
\* (context.cpp:69-71).
RunEnds == <>(status \notin {"constructed", "running"})

\* The last platter is being amended by the one before it, which is where execution
\* goes on when the stub is hit (context.cpp:261-271).
AmendsLastFromSecondLast ==
  /\ Executes(arrayAmendment)
  /\ registers[A] = 0
  /\ registers[B] = Block.size - 1
  /\ resumeAt.platter = Block.size - 2

\* That is the only way such a program runs for ever: whatever else it amends,
\* ahead of it, behind it or its own platters, recompilations make it run no
\* platter again without end.
RunEndsOrAmendsLast == RunEnds \/ []<>AmendsLastFromSecondLast

\* Abandoning an array that is not allocated, or is not any more, throws
\* invalidArrayIndex (context.h:118-122).
AbandonmentOfUnallocatedThrows ==
  [][Requested("abandonment") /\ returned.value1 \notin DOMAIN arrays =>
       status' = "invalidArrayIndex"]_vars
=============================================================================
