------------------------------- MODULE CodeGen -------------------------------
(***************************************************************************)
(* context::codeFor: the x86 instructions each platter is compiled to.     *)
(*                                                                         *)
(* An instruction is a record: what it does, how many bytes codeFor emits  *)
(* for it, the CPU register it is about (or "none"), the machine register  *)
(* m behind [esi + disp8] and the constant n: immediate or displacement.   *)
(* The bytes themselves are pairs <<instruction, i>>, i its i-th byte: all *)
(* that matters of a byte is which instruction it belongs to.              *)
(***************************************************************************)
EXTENDS Platter, SequencesExt

Ins(name, length, reg, m, n) ==
  [ name |-> name, length |-> length, reg |-> reg, m |-> m, n |-> n ]

\* [esi + disp8] is machine register m.
load(reg, m)     == Ins("load", 3, reg, m, 0)                \* mov reg, [esi + m]
store(m)         == Ins("store", 3, "eax", m, 0)             \* mov [esi + m], eax
storeValue(m, v) == Ins("storeValue", 7, "none", m, v)       \* mov [esi + m], imm32
add(m)           == Ins("add", 3, "eax", m, 0)               \* add eax, [esi + m]
mul(m)           == Ins("mul", 3, "eax", m, 0)               \* mul edx:eax, [esi + m]
div(m)           == Ins("div", 3, "eax", m, 0)               \* div edx:eax, [esi + m]
and(m)           == Ins("and", 3, "eax", m, 0)               \* and eax, [esi + m]
not              == Ins("not", 2, "eax", 0, 0)               \* not eax
clear(reg)       == Ins("clear", 2, reg, 0, 0)               \* xor reg, reg
lowByte(reg, v)  == Ins("lowByte", 2, reg, 0, v)             \* mov al/bl, imm8
moveWord(v)      == Ins("moveWord", 5, "ecx", 0, v)          \* mov ecx, imm32
jecxz(d)         == Ins("jecxz", 2, "ecx", 0, d)             \* jecxz rel8
cmp(reg)         == Ins("cmp", 3, reg, 0, 0)                 \* cmp reg, imm8 (0)
jnz(d)           == Ins("jnz", 2, "none", 0, d)              \* jnz rel8
jmp(d)           == Ins("jmp", 2, "none", 0, d)              \* jmp rel8
jmpEax           == Ins("jmpEax", 2, "eax", 0, 0)            \* jmp eax
popEdx           == Ins("popEdx", 1, "edx", 0, 0)            \* pop edx
callEdx          == Ins("callEdx", 2, "edx", 0, 0)           \* call edx
arrayOf(reg)     == Ins("arrayOf", 3, reg, 0, 0)             \* mov eax, [edi + reg * 4]
loadPlatter      == Ins("loadPlatter", 4, "eax", 0, 0)       \* mov eax, [eax + ecx * 4 + d]
storePlatter     == Ins("storePlatter", 4, "edx", 0, 0)      \* mov [eax + ebx * 4 + d], edx
orDirty          == Ins("orDirty", 7, "eax", 0, 0)           \* or [eax + _flags], dirty
codeOf(reg)      == Ins("codeOf", 4, reg, 0, 0)              \* mov eax, [ebp + reg * 4]
stubHead         == Ins("stubHead", 6, "eax", 0, 0)          \* mov [eax], imm32
stubTail         == Ins("stubTail", 7, "eax", 0, 3)          \* mov [eax + 3], imm32

\* nativeCodeReturnValue
ReturnCode == [ halt |-> 1, allocation |-> 2, abandonment |-> 3, output |-> 4,
                input |-> 5, loadProgram |-> 6, recompile |-> 7 ]

return == << popEdx, callEdx >>

\* eax: the return code.
ReturnedDirtily(code) == << lowByte("eax", ReturnCode[code]) >>
Returned(code) == << clear("eax"), lowByte("eax", ReturnCode[code]) >>

codeForInvalidOperator(w) ==
  Returned("halt") \o << clear("ebx"), lowByte("ebx", 1), moveWord(w) >> \o return

\* if (C != 0), whose displacement is counted by hand in the emitted bytes.
SkipsTheLoad     == jecxz(3)
SkipsTheBranch   == jecxz(6)

codeForConditionalMove(A, B, C) ==
  << load("ecx", C), SkipsTheBranch, load("eax", B), store(A) >>

codeForArrayIndex(A, B, C) ==
  << load("ebx", B), arrayOf("ebx"), load("ecx", C), loadPlatter, store(A) >>

\* C is loaded only once edx, which pop edx left the return address in, is stored.
codeForHastyAmendment(A, B, C) ==
  << load("ecx", A), load("ebx", B), arrayOf("ecx"), orDirty,
     storePlatter, load("edx", C), cmp("ecx"), jnz(19), codeOf("ebx"), stubHead, stubTail, jmp(0) >>

codeForArrayAmendment(A, B, C) ==
  << load("ecx", A), load("ebx", B), load("edx", C), arrayOf("ecx"), orDirty,
     storePlatter, cmp("ecx"), jnz(19), codeOf("ebx"), stubHead, stubTail, jmp(0) >>

\* if (B == 0)
SkipsTheEntry == jnz(4)
SkipsTheJump  == jnz(6)

codeForLoadProgram(B, C) ==
  << load("ebx", B), load("ecx", C), cmp("ebx"), SkipsTheJump, codeOf("ecx"), jmpEax >>
  \o Returned("loadProgram") \o return

\* Five bytes would do for a zero.
codeForSmallValue(A, v) ==
  IF v = 0 THEN << clear("eax"), store(A) >> ELSE << storeValue(A, v) >>
codeForOrthography(A, v) == << storeValue(A, v) >>

Calls(code, C) == Returned(code) \o << load("ebx", C) >> \o return

codeFor(w) ==
  LET p == decode(w)
      A == p.A
      B == p.B
      C == p.C
  IN CASE p.op = conditionalMove -> codeForConditionalMove(A, B, C)
       [] p.op = arrayIndex      -> codeForArrayIndex(A, B, C)
       [] p.op = arrayAmendment  -> codeForArrayAmendment(A, B, C)
       [] p.op = addition        -> << load("eax", B), add(C), store(A) >>
       [] p.op = multiplication  -> << load("eax", B), mul(C), store(A) >>
       [] p.op = division        ->
            << load("eax", B), clear("edx"), div(C), store(A) >>
       [] p.op = notAnd          -> << load("eax", B), and(C), not, store(A) >>
       [] p.op = halt            -> Returned("halt") \o << clear("ebx") >> \o return
       [] p.op = allocation      -> Calls("allocation", C) \o << store(B) >>
       [] p.op = abandonment     -> Calls("abandonment", C)
       [] p.op = output          -> Calls("output", C)
       [] p.op = input           -> Returned("input") \o return \o << store(C) >>
       [] p.op = loadProgram     -> codeForLoadProgram(B, C)
       [] p.op = orthography     -> codeForOrthography(A, p.value)
       [] p.op \in invalidOperators -> codeForInvalidOperator(w)

codeForOOBStub ==
  Returned("halt") \o << clear("ebx"), lowByte("ebx", 2) >> \o return

\* What an amendment of array 0 writes over the code of a platter.
recompileStub == Returned("recompile") \o return

-----------------------------------------------------------------------------
\* Bytes

bytesOf(ins) == [k \in 1 .. ins.length |-> << ins, k >>]

bytes(code) == FlattenSeq([i \in DOMAIN code |-> bytesOf(code[i])])

\* What codeFor writes for every word, and how many bytes it says that is.
platterBytes == [w \in Word |-> bytes(codeFor(w))]

OOBStubBytes == bytes(codeForOOBStub)
stubBytes    == bytes(recompileStub)

\* The two loops of generateNativeCode over an array of n platters: where the
\* code of each platter begins, and that of the stub after the last; and the
\* bytes of the block.
jumpTableFor(n, platters) ==
  LET begin[i \in 0 .. n] ==
        IF i = 0 THEN 0 ELSE begin[i - 1] + Len(platterBytes[platters[i - 1]])
  IN begin

blockFor(n, platters) ==
  FlattenSeq([i \in 1 .. n |-> platterBytes[platters[i - 1]]] \o << OOBStubBytes >>)
=============================================================================
