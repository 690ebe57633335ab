---------------------------- MODULE NativeMachine ----------------------------
(***************************************************************************)
(* Native code one x86 instruction at a time: the block generateNativeCode *)
(* fills for array 0, byte by byte, the processor that executes it, and    *)
(* the call of run() that enters it and that it comes back to.  An         *)
(* instruction can be executed where its bytes are all in place: code that *)
(* is jumped into the middle of, or half overwritten, cannot.              *)
(*                                                                         *)
(* Context takes a platter as one step.  Here it is a dozen, the recompile *)
(* stub is written in two, and the return address is the one call edx      *)
(* pushes.  The variable platterStart is a history variable: what Context  *)
(* sees, as it was when the platter began.                                 *)
(*                                                                         *)
(* Of run() there are the call and the recompilation.  The requests that   *)
(* leave the code of array 0 alone are answered with any value; those that *)
(* do not (loadProgram, abandonment, halt) end the behaviour.              *)
(***************************************************************************)
EXTENDS CodeGen, FiniteSets

CONSTANTS
  Heaps,          \* the arrays, as [size, platters] records, by index
  RegisterFiles,  \* the registers when native code is entered
  Answers         \* what allocation and input may answer

\* An index is a word, and array 0 is the program.
ASSUME NativeAssumption ==
  /\ \A h \in Heaps :
       /\ 0 \in DOMAIN h /\ DOMAIN h \subseteq Word
       /\ \A i \in DOMAIN h :
            h[i].size \in Nat /\ h[i].platters \in [0 .. h[i].size - 1 -> Word]
  /\ RegisterFiles \subseteq [Register -> Word]
  /\ Answers \subseteq Word

VARIABLES
  registers,     \* _registers, behind esi
  arrays,        \* the arrays behind edi
  memory,        \* the bytes of array 0's native code; address a is memory[a + 1]
  jumpTable,     \* the jump table behind ebp, and where the code after it begins
  compiled,      \* history: the platters the code was generated from
  cpu,           \* eip, eax, ebx, ecx, edx and the zero flag
  stack,         \* return addresses
  resumeAt,      \* run(): resumeAt
  eaxValue,      \* run(): eaxValue
  returned,      \* run(): returnCode, value1, value2
  mode,          \* "entering", "native", "serving", or how it ended
  platterStart   \* history: Context's state when the platter began

code  == << memory, jumpTable, compiled >>
frame == << resumeAt, eaxValue, returned >>

RunAddress == -1   \* the instruction in run() after call ecx

\* Return addresses go on the top of the stack.
Pushed(address) == << address >> \o stack

Generates(a) ==
  /\ memory' = blockFor(a.size, a.platters)
  /\ jumpTable' = jumpTableFor(a.size, a.platters)
  /\ compiled' = a.platters

-----------------------------------------------------------------------------
\* What Context sees

StubCell == -1
Torn     == -2   \* neither the code of the platter nor the stub

Spells(address, bs) ==
  /\ address + Len(bs) <= Len(memory)
  /\ SubSeq(memory, address + 1, address + Len(bs)) = bs

CellAt(j) ==
  IF Spells(jumpTable[j], stubBytes) THEN StubCell
  ELSE IF Spells(jumpTable[j], platterBytes[compiled[j]]) THEN compiled[j]
  ELSE Torn

\* The platter an address is in, and how far.  A stub may fill its platter, and
\* then returns to the first byte of the next one.
PlatterAt(address) ==
  IF address = Len(memory) THEN arrays[0].size + 1
  ELSE CHOOSE j \in 0 .. arrays[0].size :
         /\ jumpTable[j] <= address
         /\ j < arrays[0].size => address < jumpTable[j + 1]

Position(address) ==
  [ block |-> "code", platter |-> PlatterAt(address),
    offset |-> IF address = Len(memory) THEN 0
               ELSE address - jumpTable[PlatterAt(address)] ]

PositionAfterStub(address) ==
  [Position(address - Len(stubBytes)) EXCEPT !.offset = Len(stubBytes)]

NameOf(n) == CHOOSE c \in DOMAIN ReturnCode : ReturnCode[c] = n

ReturnedToRun ==
  LET c == NameOf(returned.eax) IN
  [ code   |-> c,
    value1 |-> IF c \in {"input", "recompile"} THEN 0 ELSE returned.ebx,
    value2 |-> IF c = "loadProgram" \/ (c = "halt" /\ returned.ebx = 1)
               THEN returned.ecx ELSE 0 ]

Nothing == [ code |-> "none", value1 |-> 0, value2 |-> 0 ]

View ==
  [ registers |-> registers,
    arrays    |-> [i \in DOMAIN arrays |->
                     [arrays[i] EXCEPT !.nativeCode =
                        IF i = 0 THEN "code" ELSE "null"]],
    cells     |-> [j \in 0 .. arrays[0].size - 1 |-> CellAt(j)],
    eaxValue  |-> eaxValue,
    returned  |-> IF mode = "serving" THEN ReturnedToRun ELSE Nothing,
    resumeAt  |-> IF mode = "native" THEN Position(cpu.eip)
                  ELSE IF mode = "serving" /\ ReturnedToRun.code = "recompile"
                  THEN PositionAfterStub(resumeAt)
                  ELSE Position(resumeAt) ]

\* Native code is at the first byte of a platter, or of what follows the last.
AtPlatterStart ==
  \/ mode \in {"entering", "serving"}
  \/ mode = "native" /\ \E j \in DOMAIN jumpTable : cpu.eip = jumpTable[j]

Remembers ==
  platterStart' = IF AtPlatterStart' THEN View' ELSE platterStart

-----------------------------------------------------------------------------
\* Array 0 has just been loaded and its code generated.
Init ==
  /\ \E h \in Heaps :
       /\ arrays = [i \in DOMAIN h |-> [ size |-> h[i].size, dirty |-> FALSE,
                                         nativeCode |-> "null",
                                         platters |-> h[i].platters ]]
       /\ memory = blockFor(h[0].size, h[0].platters)
       /\ jumpTable = jumpTableFor(h[0].size, h[0].platters)
       /\ compiled = h[0].platters
  /\ registers \in RegisterFiles
  /\ cpu = [ eip |-> RunAddress, eax |-> 0, ebx |-> 0, ecx |-> 0, edx |-> 0,
             zero |-> FALSE ]
  /\ stack = << >>
  /\ resumeAt = 0 /\ eaxValue = 0
  /\ returned = [ eax |-> 0, ebx |-> 0, ecx |-> 0 ]
  /\ mode = "entering"
  /\ platterStart = View

\* mov eax, eaxValue; mov ecx, resumeAt; mov ebx, jumpTable; call ecx
Enter ==
  /\ mode = "entering"
  /\ mode' = "native"
  /\ stack' = Pushed(RunAddress)
  /\ cpu' = [cpu EXCEPT !.eip = resumeAt, !.eax = eaxValue, !.ecx = resumeAt]
  /\ UNCHANGED << registers, arrays, code, frame >>

\* pop edx; the registers are stored in the locals of run().
Leave ==
  /\ mode = "native" /\ cpu.eip = RunAddress
  /\ mode' = "serving"
  /\ resumeAt' = Head(stack) /\ stack' = Tail(stack)
  /\ returned' = [ eax |-> cpu.eax, ebx |-> cpu.ebx, ecx |-> cpu.ecx ]
  /\ UNCHANGED << registers, arrays, code, cpu, eaxValue >>

-----------------------------------------------------------------------------
\* The processor

\* All the bytes of an instruction are in place.
Executable(address) ==
  /\ address \in 0 .. Len(memory) - 1
  /\ Spells(address, bytesOf(memory[address + 1][1]))

Fetched == memory[cpu.eip + 1][1]

Executes(name) ==
  /\ mode = "native"
  /\ Executable(cpu.eip)
  /\ Fetched.name = name

Following == cpu.eip + Fetched.length

\* Leaves the processor in state c and goes to address.
Goes(c, address) ==
  /\ cpu' = [c EXCEPT !.eip = address]
  /\ UNCHANGED << mode, frame >>

Sets(reg, v) ==
  /\ Goes([cpu EXCEPT ![reg] = v], Following)
  /\ UNCHANGED << registers, arrays, code, stack >>

Ends(outcome) ==
  /\ mode' = outcome
  /\ UNCHANGED << registers, arrays, code, cpu, stack, frame >>

Load == Executes("load") /\ Sets(Fetched.reg, registers[Fetched.m])

Stores(m, v) ==
  /\ registers' = [registers EXCEPT ![m] = v]
  /\ Goes(cpu, Following)
  /\ UNCHANGED << arrays, code, stack >>

Store      == Executes("store") /\ Stores(Fetched.m, cpu.eax)
StoreValue == Executes("storeValue") /\ Stores(Fetched.m, Fetched.n)

Operand == registers[Fetched.m]

\* Every bit of x is the conjunction of those of a and b.
IsConjunction(x, a, b) ==
  \A i \in 0 .. WordBits - 1 : Bit(x, i) = Bit(a, i) * Bit(b, i)

Add        == Executes("add") /\ Sets("eax", WordSum(cpu.eax, Operand))
Conjoin    ==
  /\ Executes("and")
  /\ \E x \in Word : IsConjunction(x, cpu.eax, Operand) /\ Sets("eax", x)
Complement == Executes("not") /\ Sets("eax", AllOnes - cpu.eax)

Mul ==
  /\ Executes("mul")
  /\ Goes([cpu EXCEPT !.eax = (@ * Operand) % WordSize,
                      !.edx = (cpu.eax * Operand) \div WordSize], Following)
  /\ UNCHANGED << registers, arrays, code, stack >>

\* A quotient that does not fit traps, like a division by zero.
Dividend == cpu.edx * WordSize + cpu.eax
Divides  == Operand # 0 /\ Dividend \div Operand < WordSize

Div ==
  /\ Executes("div")
  /\ Divides
  /\ Goes([cpu EXCEPT !.eax = Dividend \div Operand,
                      !.edx = Dividend % Operand], Following)
  /\ UNCHANGED << registers, arrays, code, stack >>

DivTraps == Executes("div") /\ ~Divides /\ Ends("trapped")

Clear    == Executes("clear") /\ Sets(Fetched.reg, 0)
MoveWord == Executes("moveWord") /\ Sets("ecx", Fetched.n)
LowByte  ==
  /\ Executes("lowByte")
  /\ Sets(Fetched.reg, (cpu[Fetched.reg] - (cpu[Fetched.reg] % 256)) + Fetched.n)

Compare == Executes("cmp") /\ Sets("zero", cpu[Fetched.reg] = 0)

Jumps(taken) ==
  /\ Goes(cpu, IF taken THEN Following + Fetched.n ELSE Following)
  /\ UNCHANGED << registers, arrays, code, stack >>

JumpIfEcxZero == Executes("jecxz") /\ Jumps(cpu.ecx = 0)
JumpIfNotZero == Executes("jnz") /\ Jumps(~cpu.zero)
JumpShort     == Executes("jmp") /\ Jumps(TRUE)

JumpToEax ==
  /\ Executes("jmpEax")
  /\ Goes(cpu, cpu.eax)
  /\ UNCHANGED << registers, arrays, code, stack >>

PopEdx ==
  /\ Executes("popEdx")
  /\ stack # << >>
  /\ Goes([cpu EXCEPT !.edx = Head(stack)], Following)
  /\ stack' = Tail(stack)
  /\ UNCHANGED << registers, arrays, code >>

CallEdx ==
  /\ Executes("callEdx")
  /\ Goes(cpu, cpu.edx)
  /\ stack' = Pushed(Following)
  /\ UNCHANGED << registers, arrays, code >>

\* A pointer to an array is the index it has; past the vector's end and for an
\* array that is not allocated there is none.
ArrayOf ==
  /\ Executes("arrayOf")
  /\ IF cpu[Fetched.reg] \in DOMAIN arrays
     THEN Sets("eax", cpu[Fetched.reg])
     ELSE Ends("undefined")

LoadPlatter ==
  /\ Executes("loadPlatter")
  /\ IF cpu.ecx < arrays[cpu.eax].size
     THEN Sets("eax", arrays[cpu.eax].platters[cpu.ecx])
     ELSE Ends("undefined")

OrDirty ==
  /\ Executes("orDirty")
  /\ arrays' = [arrays EXCEPT ![cpu.eax].dirty = TRUE]
  /\ Goes(cpu, Following)
  /\ UNCHANGED << registers, code, stack >>

StorePlatter ==
  /\ Executes("storePlatter")
  /\ IF cpu.ebx < arrays[cpu.eax].size
     THEN /\ arrays' = [arrays EXCEPT ![cpu.eax].platters[cpu.ebx] = cpu.edx]
          /\ Goes(cpu, Following)
          /\ UNCHANGED << registers, code, stack >>
     ELSE Ends("undefined")

CodeOf ==
  /\ Executes("codeOf")
  /\ IF cpu[Fetched.reg] < arrays[0].size
     THEN Sets("eax", jumpTable[cpu[Fetched.reg]])
     ELSE Ends("undefined")

\* mov [address], imm32: four bytes, which the block may have been too short for.
Writes(address, bs) ==
  /\ address + 4 <= Len(memory)
  /\ memory' = [k \in DOMAIN memory |->
                  IF k - address \in 1 .. 4 THEN bs[k - address] ELSE memory[k]]
  /\ Goes(cpu, Following)
  /\ UNCHANGED << registers, arrays, jumpTable, compiled, stack >>

\* The fourth byte of the first word is zero, and the second word goes over it.
ZeroByte == << Ins("zero", 0, "none", 0, 0), 1 >>

StubHead ==
  /\ Executes("stubHead")
  /\ Writes(cpu.eax, SubSeq(stubBytes, 1, 3) \o << ZeroByte >>)

StubTail ==
  /\ Executes("stubTail")
  /\ Writes(cpu.eax + 3, SubSeq(stubBytes, 4, 7))

-----------------------------------------------------------------------------
\* run()

Requested(c) == mode = "serving" /\ returned.eax = ReturnCode[c]

RunAnswers ==
  /\ \/ Requested("allocation") /\ eaxValue' \in Answers
     \/ Requested("input")      /\ eaxValue' \in Answers
     \/ Requested("output")     /\ UNCHANGED eaxValue
  /\ mode' = "entering"
  /\ UNCHANGED << registers, arrays, code, cpu, stack, resumeAt, returned >>

\* lower_bound over the jump table without its last entry.
lowerBound(address) ==
  CHOOSE k \in 0 .. arrays[0].size - 1 :
    /\ \A j \in 0 .. k - 1 : jumpTable[j] < address
    /\ k = arrays[0].size - 1 \/ jumpTable[k] >= address

fingerPositionFor(address) == lowerBound(address) - 1

Recompile ==
  /\ Requested("recompile")
  /\ arrays' = [arrays EXCEPT ![0].dirty = FALSE]
  /\ Generates(arrays[0])
  /\ resumeAt' = jumpTable'[fingerPositionFor(resumeAt)]
  /\ mode' = "entering"
  /\ UNCHANGED << registers, cpu, stack, eaxValue, returned >>

Processor ==
  \/ Load \/ Store \/ StoreValue \/ Add \/ Conjoin \/ Complement \/ Mul \/ Div \/ DivTraps
  \/ Clear \/ MoveWord \/ LowByte \/ Compare
  \/ JumpIfEcxZero \/ JumpIfNotZero \/ JumpShort \/ JumpToEax
  \/ PopEdx \/ CallEdx
  \/ ArrayOf \/ LoadPlatter \/ OrDirty \/ StorePlatter \/ CodeOf
  \/ StubHead \/ StubTail

Next == (Enter \/ Leave \/ Processor \/ RunAnswers \/ Recompile) /\ Remembers

vars == << registers, arrays, code, cpu, stack, frame, mode, platterStart >>

Spec == Init /\ [][Next]_vars

-----------------------------------------------------------------------------
\* Properties

TypeOK ==
  /\ registers \in [Register -> Word]
  /\ \A i \in DOMAIN arrays :
       /\ arrays[i].platters \in [0 .. arrays[i].size - 1 -> Word]
       /\ arrays[i].dirty \in BOOLEAN
  /\ cpu.eip \in RunAddress .. Len(memory)
  /\ cpu.ebx \in Word /\ cpu.eax \in Nat /\ cpu.ecx \in Nat
  /\ resumeAt \in 0 .. Len(memory) /\ eaxValue \in Word
  /\ mode \in {"entering", "native", "serving", "undefined", "trapped"}

\* The processor is never in the middle of an instruction or of code that has
\* been half overwritten, and it is back in run() with its return address as
\* the only word native code has left on the stack (codeFor: the displacements
\* its BOOST_ASSERTs count out, pop edx before call edx).
OnTheRails ==
  mode = "native" =>
    IF cpu.eip = RunAddress THEN Len(stack) = 1 ELSE Executable(cpu.eip)

\* Where a platter begins, the code of every platter is whole: the code it was
\* compiled to or a recompile stub, and the stub after the last platter is
\* intact.  A stub that is longer than the code it goes over runs into the next
\* platter (context.cpp:339-344).
CodeWhole ==
  AtPlatterStart =>
    /\ \A j \in 0 .. arrays[0].size - 1 : platterStart.cells[j] # Torn
    /\ Spells(jumpTable[arrays[0].size], OOBStubBytes)

-----------------------------------------------------------------------------
\* The refinement

ContextStatus == IF mode \in {"undefined", "trapped"} THEN mode ELSE "running"

C == INSTANCE Context WITH
       Scrolls <- {}, Chars <- {}, CodeIds <- {"code"}, NoCode <- "null",
       MaxArrays <- 0, MaxArraySize <- 0, MaxOutput <- 0,
       registers <- platterStart.registers,
       arrays <- platterStart.arrays,
       arraysSize <- Cardinality(DOMAIN platterStart.arrays),
       capacity <- Cardinality(DOMAIN platterStart.arrays),
       nativeCodes <-
         [id \in {"code"} |->
            [ size |-> platterStart.arrays[0].size, code |-> platterStart.cells ]],
       array0Source <- 0, minEmptyArrayIndex <- 1,
       eof <- FALSE, os <- << >>,
       arraysPtr <- Cardinality(DOMAIN platterStart.arrays),
       jumpTable <- "code",
       resumeAt <- platterStart.resumeAt,
       eaxValue <- platterStart.eaxValue,
       returned <- platterStart.returned,
       status <- ContextStatus

\* The requests answered from outside: Context's handlers change what eax will
\* hold, and nothing else that the code of array 0 depends on.
Answered ==
  /\ platterStart.returned.code \in {"allocation", "input", "output"}
  /\ \E v \in Answers \union {eaxValue} :
       platterStart' = [platterStart EXCEPT !.returned = C!NotReturned, !.eaxValue = v]
  /\ UNCHANGED ContextStatus

\* Every platter's x86 code does what Context's action for it says, to the
\* registers, the arrays, the native code, the values and the address run()
\* gets back; and so does the recompilation, at byte addresses.
ImplementsContext ==
  [][C!Native \/ C!RunRecompile \/ Answered]_(C!vars)
=============================================================================
