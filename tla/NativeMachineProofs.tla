------------------------- MODULE NativeMachineProofs -------------------------
(***************************************************************************)
(* The native code of array 0 in the processor, proved for every program,  *)
(* any number of arrays and every width of the words: types stay, the      *)
(* processor fetches nothing but whole instructions, and the code of every *)
(* platter is at each platter's start what was compiled or a stub.         *)
(*                                                                         *)
(* First, what codeFor emits for a platter, whichever the platter, is code *)
(* the processor can execute: before each instruction the registers hold   *)
(* what the instruction needs, a jump lands on an instruction of the same  *)
(* code, and what a stub overwrites is not resumed in                      *)
(* (EveryPlatterGenerated).                                                *)
(*                                                                         *)
(* The invariant then says what is in memory byte by byte (Layout, Tails)  *)
(* and where the processor is (Control): before an instruction of the code *)
(* of some platter, with the registers it needs, in a stub, or back in     *)
(* run() with a return code.  The lemmas follow one instruction: what it   *)
(* does to what is known of the registers, where it goes on, and, for the  *)
(* two that write a stub, what they overwrite.                             *)
(***************************************************************************)
EXTENDS NativeMachine, SequenceFacts

-----------------------------------------------------------------------------
\* A set with every instruction in it, and one with every byte.
InstructionNames ==
  { "load", "store", "storeValue", "add", "mul", "div", "and", "not", "clear", "lowByte",
    "moveWord", "jecxz", "cmp", "jnz", "jmp", "jmpEax", "popEdx", "callEdx", "arrayOf",
    "loadPlatter", "storePlatter", "orDirty", "codeOf", "stubHead", "stubTail", "zero" }
RegisterNames == { "eax", "ebx", "ecx", "edx", "none" }
Instruction ==
  [ name : InstructionNames, length : Nat, reg : RegisterNames, m : Int, n : Int ]
Byte == Instruction \X Int

\* How many bytes the first n instructions have, for every n.
Offsets(is) ==
  LET o[n \in 0 .. Len(is)] == IF n = 0 THEN 0 ELSE o[n - 1] + is[n].length
  IN o

\* The instructions in their order, and how many bytes come before each.
LEMMA OffsetFacts ==
  ASSUME NEW is \in Seq(Instruction)
  PROVE  /\ Len(is) \in Nat
         /\ \A n \in 1 .. Len(is) : is[n] \in Instruction /\ is[n].length \in Nat
         /\ Offsets(is) \in [0 .. Len(is) -> Nat]
         /\ Offsets(is)[0] = 0
         /\ \A n \in 1 .. Len(is) : Offsets(is)[n] = Offsets(is)[n - 1] + is[n].length
<1> DEFINE N == Len(is)
           d == [n \in 1 .. N |-> is[n].length]
<1>1. N \in Nat /\ \A n \in 1 .. N : is[n] \in Instruction
  BY LenProperties, ElementOfSeq
<1>2. \A n \in 1 .. N : is[n].length \in Nat
  BY <1>1 DEF Instruction
<1>3. d \in [1 .. N -> Nat] /\ \A n \in 1 .. N : d[n] = is[n].length
  BY <1>2
<1> HIDE DEF d, N
<1>4. PICK f \in [0 .. N -> Nat] : f = [n \in 0 .. N |-> IF n = 0 THEN 0 ELSE f[n - 1] + d[n]]
  BY ONLY <1>1, <1>3, PartialSums
<1>5. f = [n \in 0 .. N |-> IF n = 0 THEN 0 ELSE f[n - 1] + is[n].length]
  <2>1. \A n \in 0 .. N : n # 0 => n \in 1 .. N
    BY <1>1
  <2>2. \A n \in 0 .. N : f[n] = IF n = 0 THEN 0 ELSE f[n - 1] + is[n].length
    BY <1>3, <1>4, <2>1
  <2> QED BY <1>4, <2>2
<1> DEFINE o == Offsets(is)
<1>6. o = [n \in 0 .. N |-> IF n = 0 THEN 0 ELSE o[n - 1] + is[n].length]
  BY <1>5 DEF Offsets, N
<1> HIDE DEF o
<1>7. o[0] = 0 /\ \A n \in 1 .. N : o[n] = o[n - 1] + is[n].length
  <2>1. 0 \in 0 .. N /\ \A n \in 1 .. N : n \in 0 .. N /\ n # 0
    BY <1>1
  <2>2. \A n \in 0 .. N : o[n] = IF n = 0 THEN 0 ELSE o[n - 1] + is[n].length
    BY <1>6
  <2> QED BY <2>1, <2>2
<1> DEFINE T == { n \in 0 .. N : o[n] \in Nat }
<1>8. 0 \in T
  BY <1>1, <1>7
<1>9. ASSUME NEW n \in 1 .. N, n - 1 \in T PROVE n \in T
  <2>1. o[n - 1] \in Nat /\ n \in 0 .. N
    BY <1>1, <1>9
  <2>2. o[n] \in Nat
    BY <1>2, <1>7, <2>1
  <2> QED BY <2>1, <2>2
<1> HIDE DEF T
<1>10. 0 .. N \subseteq T
  BY <1>1, <1>8, <1>9, IntervalInduction
<1>11. o \in [0 .. N -> Nat]
  <2>1. \A n \in 0 .. N : o[n] \in Nat
    BY <1>10 DEF T
  <2> QED BY <1>6, <2>1
<1> QED BY <1>1, <1>2, <1>7, <1>11 DEF o, N

\* Instructions further on have more before them.
LEMMA OffsetsGrow ==
  ASSUME NEW is \in Seq(Instruction), NEW m \in 0 .. Len(is), NEW n \in m .. Len(is)
  PROVE  Offsets(is)[m] <= Offsets(is)[n]
<1> DEFINE N == Len(is)
           d == [k \in 1 .. N |-> is[k].length]
           o == Offsets(is)
<1>1. /\ N \in Nat
      /\ d \in [1 .. N -> Nat]
      /\ o \in [0 .. N -> Nat]
      /\ \A k \in 1 .. N : o[k] = o[k - 1] + d[k]
  BY OffsetFacts
<1> HIDE DEF d, o
<1>2. m \in 0 .. N /\ n \in m .. N
  OBVIOUS
<1> HIDE DEF N
<1>3. o[m] <= o[n]
  BY ONLY <1>1, <1>2, SumsGrow
<1> QED BY <1>3 DEF o

\* The bytes of an instruction.
LEMMA BytesOfFacts ==
  ASSUME NEW ins \in Instruction
  PROVE  /\ bytesOf(ins) \in Seq(Byte)
         /\ Len(bytesOf(ins)) = ins.length
         /\ ins.length \in Nat
         /\ \A k \in 1 .. ins.length : bytesOf(ins)[k] = << ins, k >>
<1>1. ins.length \in Nat
  BY DEF Instruction
<1>2. bytesOf(ins) \in [1 .. ins.length -> Byte]
  BY DEF bytesOf, Byte
<1>3. bytesOf(ins) \in Seq(Byte) /\ Len(bytesOf(ins)) = ins.length
  <2> DEFINE b == bytesOf(ins)
             N == ins.length
  <2>1. N \in Nat /\ b \in [1 .. N -> Byte]
    BY <1>1, <1>2
  <2> HIDE DEF b, N
  <2>2. b \in Seq(Byte) /\ Len(b) = N
    BY <2>1
  <2> QED BY <2>2 DEF b, N
<1> QED BY <1>1, <1>3 DEF bytesOf

\* The bytes of code: each instruction's where it begins.
LEMMA BytesFacts ==
  ASSUME NEW is \in Seq(Instruction), Len(is) # 0
  PROVE  /\ bytes(is) \in Seq(Byte)
         /\ Len(bytes(is)) = Offsets(is)[Len(is)]
         /\ \A n \in 1 .. Len(is) : \A k \in 1 .. is[n].length :
              bytes(is)[Offsets(is)[n - 1] + k] = << is[n], k >>
<1> DEFINE N == Len(is)
           e == Offsets(is)
           seqs == [n \in DOMAIN is |-> bytesOf(is[n])]
<1>1. /\ N \in Nat \ {0}
      /\ \A n \in 1 .. N : is[n] \in Instruction
      /\ e \in [0 .. N -> Nat] /\ e[0] = 0
      /\ \A n \in 1 .. N : e[n] = e[n - 1] + is[n].length
  BY OffsetFacts
<1>2. DOMAIN is = 1 .. N
  BY LenProperties
<1>3. \A n \in 1 .. N : /\ bytesOf(is[n]) \in Seq(Byte)
                        /\ Len(bytesOf(is[n])) = is[n].length
                        /\ \A k \in 1 .. is[n].length : bytesOf(is[n])[k] = << is[n], k >>
  BY <1>1, BytesOfFacts
<1>4. seqs \in [1 .. N -> Seq(Byte)] /\ \A n \in 1 .. N : seqs[n] = bytesOf(is[n])
  BY <1>2, <1>3
<1> HIDE DEF seqs, e, N
<1>5. seqs \in Seq(Seq(Byte)) /\ Len(seqs) = N
  <2> DEFINE S == Seq(Byte)
  <2>1. seqs \in [1 .. N -> S]
    BY <1>4
  <2> HIDE DEF S
  <2>2. seqs \in Seq(S) /\ Len(seqs) = N
    BY <1>1, <2>1
  <2> QED BY <2>2 DEF S
<1>6. Parts(Byte, seqs, e)
  <2>1. \A n \in 1 .. N : e[n] = e[n - 1] + Len(seqs[n])
    BY <1>1, <1>3, <1>4
  <2> QED BY <1>1, <1>5, <2>1 DEF Parts
<1>7. /\ FlattenSeq(seqs) \in Seq(Byte)
      /\ Len(FlattenSeq(seqs)) = e[N]
      /\ \A n \in 1 .. N : \A k \in 1 .. Len(seqs[n]) :
           FlattenSeq(seqs)[e[n - 1] + k] = seqs[n][k]
  <2>1. /\ FlattenSeq(seqs) \in Seq(Byte)
        /\ Len(FlattenSeq(seqs)) = e[Len(seqs)]
        /\ \A n \in 1 .. Len(seqs) : \A k \in 1 .. Len(seqs[n]) :
             FlattenSeq(seqs)[e[n - 1] + k] = seqs[n][k]
    BY <1>6, FlattenFacts
  <2> QED BY <1>5, <2>1
<1>8. bytes(is) = FlattenSeq(seqs)
  BY DEF bytes, seqs
<1>9. ASSUME NEW n \in 1 .. N, NEW k \in 1 .. is[n].length
      PROVE  bytes(is)[e[n - 1] + k] = << is[n], k >>
  <2>1. k \in 1 .. Len(seqs[n]) /\ seqs[n][k] = << is[n], k >>
    BY <1>3, <1>4
  <2> QED BY <1>7, <1>8, <2>1
<1> QED BY <1>7, <1>8, <1>9 DEF e, N

-----------------------------------------------------------------------------
\* What is known of the CPU registers before an instruction: eax holds a word,
\* zero, an array, the address of a platter's code, or a return code; ebx zero;
\* edx a word, zero or the return address.  "half": the stub's first word is
\* written and its second is not.

Kind(a, b, d) == [ eax |-> a, ebx |-> b, edx |-> d ]
Eax(a) == Kind(a, "any", "any")
Fresh  == Eax("any")
Holding == Eax("word")
Run(a) == Kind(a, "any", "run")
Halting == Kind("halt", "zero", "any")

Codes == DOMAIN ReturnCode

Weaker(l, k) ==
  /\ l.eax \in {"any", k.eax} /\ l.ebx \in {"any", k.ebx} /\ l.edx \in {"any", k.edx}
  /\ l.edx = "run" <=> k.edx = "run"
  /\ l.eax = "half" <=> k.eax = "half"

\* An instruction that is executed where k holds leaves what l says, if it does
\* not jump.
Fits(ins, k, l) ==
  /\ k.eax = "half" <=> ins.name = "stubTail"
  /\ ins.name = "load" =>
       /\ ins.m \in Register
       /\ \/ ins.reg = "ecx" /\ Weaker(l, k)
          \/ /\ k.edx # "run"
             /\ \/ ins.reg = "eax" /\ Weaker(l, Kind("word", k.ebx, k.edx))
                \/ ins.reg = "ebx" /\ Weaker(l, Kind(k.eax, "any", k.edx))
                \/ ins.reg = "edx" /\ Weaker(l, Kind(k.eax, k.ebx, "word"))
  /\ ins.name = "store" => ins.m \in Register /\ k.eax = "word" /\ Weaker(l, k)
  /\ ins.name = "storeValue" => ins.m \in Register /\ ins.n \in Word /\ Weaker(l, k)
  /\ ins.name \in {"add", "and", "not"} =>
       ins.m \in Register /\ k.eax = "word" /\ Weaker(l, k)
  /\ ins.name = "mul" =>
       /\ ins.m \in Register /\ k.eax = "word" /\ k.edx # "run"
       /\ Weaker(l, Kind(k.eax, k.ebx, "any"))
  /\ ins.name = "div" =>
       /\ ins.m \in Register /\ k.eax = "word" /\ k.edx = "zero"
       /\ Weaker(l, Kind(k.eax, k.ebx, "any"))
  /\ ins.name = "clear" =>
       /\ k.edx # "run"
       /\ \/ ins.reg = "eax" /\ Weaker(l, Kind("zero", k.ebx, k.edx))
          \/ ins.reg = "ebx" /\ Weaker(l, Kind(k.eax, "zero", k.edx))
          \/ ins.reg = "edx" /\ Weaker(l, Kind(k.eax, k.ebx, "zero"))
  /\ ins.name = "moveWord" => ins.n \in Word /\ Weaker(l, k)
  /\ ins.name = "lowByte" =>
       \/ /\ ins.reg = "eax" /\ k.eax = "zero"
          /\ \E c \in Codes : ins.n = ReturnCode[c] /\ Weaker(l, Kind(c, k.ebx, k.edx))
       \/ /\ ins.reg = "ebx" /\ k.ebx = "zero" /\ ins.n \in {1, 2}
          /\ Weaker(l, Kind(k.eax, "any", k.edx))
  /\ ins.name \in {"cmp", "jecxz", "jnz", "jmp"} => Weaker(l, k)
  /\ ins.name = "cmp" => ins.reg \in {"ebx", "ecx"}
  /\ ins.name = "jmpEax" => k.eax = "entry" /\ k.edx # "run"
  /\ ins.name = "popEdx" => k.edx # "run" /\ l = Run(k.eax)
  /\ ins.name = "callEdx" => k.edx = "run" /\ k.eax \in Codes /\ l \in {Fresh, Holding}
  /\ ins.name = "arrayOf" =>
       ins.reg \in {"ebx", "ecx"} /\ Weaker(l, Kind("array", k.ebx, k.edx))
  /\ ins.name = "loadPlatter" => k.eax = "array" /\ Weaker(l, Kind("word", k.ebx, k.edx))
  /\ ins.name = "orDirty" => k.eax = "array" /\ Weaker(l, k)
  /\ ins.name = "storePlatter" => k.eax = "array" /\ k.edx = "word" /\ Weaker(l, k)
  /\ ins.name = "codeOf" =>
       ins.reg \in {"ebx", "ecx"} /\ Weaker(l, Kind("entry", k.ebx, k.edx))
  /\ ins.name = "stubHead" => k.eax = "entry" /\ l = Kind("half", k.ebx, k.edx)
  /\ ins.name = "stubTail" => l = Kind("any", k.ebx, k.edx)

\* A jump goes forward to an instruction of the code, or past its end.
Lands(is, ks, n) ==
  is[n].name \in {"jecxz", "jnz", "jmp"} =>
    \E t \in n + 1 .. Len(is) + 1 :
      Offsets(is)[t - 1] = Offsets(is)[n] + is[n].n /\ Weaker(ks[t], ks[n])

TypedCode(is, ks) ==
  /\ is \in Seq(Instruction) /\ Len(is) # 0
  /\ ks[1] = Fresh /\ ks[Len(is) + 1] = Fresh
  /\ \A n \in 1 .. Len(is) :
       is[n].length # 0 /\ Fits(is[n], ks[n], ks[n + 1]) /\ Lands(is, ks, n)

StubSize == 7

\* What codeFor emits.
PlatterCode(is, ks) ==
  /\ Offsets(is)[Len(is)] >= StubSize
  /\ \A n \in 1 .. Len(is) :
       /\ is[n].name \in {"stubHead", "stubTail"} => Offsets(is)[n - 1] >= StubSize
       /\ is[n].name = "stubHead" => n < Len(is) /\ is[n + 1].name = "stubTail"
       /\ is[n].name = "stubTail" => n < Len(is) /\ is[n + 1].name = "jmp"
       /\ is[n].name = "jmp" => n = Len(is)
       /\ is[n].name = "callEdx" =>
            ks[n].eax # "recompile" /\ Offsets(is)[n] >= StubSize

OOBCode(is, ks) ==
  \A n \in 1 .. Len(is) :
    /\ is[n].name \notin {"stubHead", "stubTail", "jmp", "jmpEax", "jecxz", "jnz"}
    /\ is[n].name = "callEdx" <=> n = Len(is)
    /\ is[n].name = "callEdx" => ks[n].eax = "halt"

StubCode(is, ks) ==
  /\ Offsets(is)[Len(is)] = StubSize
  /\ \A n \in 1 .. Len(is) :
       /\ is[n].name \notin {"stubHead", "stubTail", "jmp", "jmpEax", "jecxz", "jnz"}
       /\ is[n].name = "callEdx" <=> n = Len(is)
       /\ is[n].name = "callEdx" => ks[n].eax = "recompile"

\* The kinds between the instructions of codeFor.
Amending == Kind("array", "any", "word")
Storing  == Kind("any", "any", "word")
Dividing == Kind("word", "any", "zero")
Indexing == Eax("array")
Entering == Eax("entry")

\* The instructions that return to run().
LEMMA CallsFit ==
  /\ Fits(clear("eax"), Fresh, Eax("zero"))
  /\ \A c \in Codes : /\ Fits(lowByte("eax", ReturnCode[c]), Eax("zero"), Eax(c))
                      /\ Fits(popEdx, Eax(c), Run(c))
                      /\ Fits(callEdx, Run(c), Fresh)
                      /\ Fits(callEdx, Run(c), Holding)
                      /\ \A m \in Register : Fits(load("ebx", m), Eax(c), Eax(c))
  /\ Fits(clear("ebx"), Eax("halt"), Halting)
  /\ Fits(popEdx, Halting, Run("halt"))
  /\ \A v \in {1, 2} : Fits(lowByte("ebx", v), Halting, Eax("halt"))
  /\ \A v \in Word : Fits(moveWord(v), Eax("halt"), Eax("halt"))
<1>1. \A c \in Codes : c # "half"
  BY DEF Codes, ReturnCode
<1>2. "halt" \in Codes
  BY DEF Codes, ReturnCode
<1> USE DEF Fits, Ins, Fresh, Holding, Halting, Run, Eax, Kind, Weaker
<1>3. Fits(clear("eax"), Fresh, Eax("zero")) /\ Fits(clear("ebx"), Eax("halt"), Halting)
  BY DEF clear
<1>4. ASSUME NEW c \in Codes
      PROVE  /\ Fits(popEdx, Eax(c), Run(c)) /\ Fits(callEdx, Run(c), Fresh)
             /\ Fits(callEdx, Run(c), Holding)
  <2>1. Fits(popEdx, Eax(c), Run(c))
    BY <1>1 DEF popEdx
  <2>2. Fits(callEdx, Run(c), Fresh) /\ Fits(callEdx, Run(c), Holding)
    BY <1>1 DEF callEdx
  <2> HIDE DEF Fits, Eax, Run, Kind, Fresh, Holding
  <2> QED BY <2>1, <2>2
<1>5. ASSUME NEW c \in Codes, NEW m \in Register PROVE Fits(load("ebx", m), Eax(c), Eax(c))
  BY <1>1 DEF load
<1>6. Fits(popEdx, Halting, Run("halt"))
  BY DEF popEdx
<1>7. ASSUME NEW v \in Word PROVE Fits(moveWord(v), Eax("halt"), Eax("halt"))
  BY DEF moveWord
<1>8. ASSUME NEW c \in Codes PROVE Fits(lowByte("eax", ReturnCode[c]), Eax("zero"), Eax(c))
  BY <1>1 DEF lowByte
<1>9. ASSUME NEW v \in {1, 2} PROVE Fits(lowByte("ebx", v), Halting, Eax("halt"))
  BY DEF lowByte
<1> HIDE DEF Fits, Ins, Fresh, Holding, Halting, Run, Eax, Kind, Weaker
<1> QED BY <1>3, <1>4, <1>5, <1>6, <1>7, <1>8, <1>9

\* The other instructions, where codeFor emits them.
LEMMA InstructionsFit ==
  /\ \A m \in Register :
       /\ Fits(load("ecx", m), Fresh, Fresh) /\ Fits(load("ebx", m), Fresh, Fresh)
       /\ Fits(load("eax", m), Fresh, Holding) /\ Fits(load("edx", m), Fresh, Storing)
       /\ Fits(load("ecx", m), Indexing, Indexing)
       /\ Fits(store(m), Holding, Fresh)
       /\ Fits(add(m), Holding, Holding) /\ Fits(mul(m), Holding, Holding)
       /\ Fits(and(m), Holding, Holding) /\ Fits(div(m), Dividing, Holding)
       /\ \A v \in Word : Fits(storeValue(m, v), Fresh, Fresh)
  /\ Fits(not, Holding, Holding) /\ Fits(clear("edx"), Holding, Dividing)
  /\ Fits(arrayOf("ebx"), Fresh, Indexing) /\ Fits(loadPlatter, Indexing, Holding)
  /\ Fits(arrayOf("ecx"), Storing, Amending) /\ Fits(orDirty, Amending, Amending)
  /\ Fits(storePlatter, Amending, Fresh)
  /\ Fits(cmp("ebx"), Fresh, Fresh) /\ Fits(cmp("ecx"), Fresh, Fresh)
  /\ Fits(codeOf("ebx"), Fresh, Entering) /\ Fits(codeOf("ecx"), Fresh, Entering)
  /\ Fits(jmpEax, Entering, Fresh)
  /\ Fits(stubHead, Entering, Eax("half")) /\ Fits(stubTail, Eax("half"), Fresh)
  /\ \A d \in Int : /\ Fits(jecxz(d), Fresh, Fresh) /\ Fits(jnz(d), Fresh, Fresh)
                    /\ Fits(jmp(d), Fresh, Fresh)
<1> USE DEF Fits, Ins, Fresh, Holding, Storing, Amending, Dividing, Indexing, Entering,
            Eax, Kind, Weaker
<1>1. ASSUME NEW m \in Register
      PROVE  /\ Fits(load("ecx", m), Fresh, Fresh) /\ Fits(load("ebx", m), Fresh, Fresh)
             /\ Fits(load("eax", m), Fresh, Holding) /\ Fits(load("edx", m), Fresh, Storing)
             /\ Fits(load("ecx", m), Indexing, Indexing)
  <2>1. Fits(load("ecx", m), Fresh, Fresh) /\ Fits(load("ebx", m), Fresh, Fresh)
    BY DEF load
  <2>2. Fits(load("eax", m), Fresh, Holding)
    BY DEF load
  <2>3. Fits(load("edx", m), Fresh, Storing)
    BY DEF load
  <2>4. Fits(load("ecx", m), Indexing, Indexing)
    BY DEF load
  <2> HIDE DEF Fits, Fresh, Holding, Storing, Amending, Dividing, Indexing, Entering, Eax, Kind
  <2> QED BY <2>1, <2>2, <2>3, <2>4
<1>2. ASSUME NEW m \in Register
      PROVE  /\ Fits(store(m), Holding, Fresh)
             /\ Fits(add(m), Holding, Holding) /\ Fits(mul(m), Holding, Holding)
             /\ Fits(and(m), Holding, Holding) /\ Fits(div(m), Dividing, Holding)
  <2>1. Fits(store(m), Holding, Fresh)
    BY DEF store
  <2>2. Fits(add(m), Holding, Holding)
    BY DEF add
  <2>3. Fits(mul(m), Holding, Holding)
    BY DEF mul
  <2>4. Fits(and(m), Holding, Holding)
    BY DEF and
  <2>5. Fits(div(m), Dividing, Holding)
    BY DEF div
  <2> HIDE DEF Fits, Fresh, Holding, Storing, Amending, Dividing, Indexing, Entering, Eax, Kind
  <2> QED BY <2>1, <2>2, <2>3, <2>4, <2>5
<1>3. ASSUME NEW m \in Register, NEW v \in Word PROVE Fits(storeValue(m, v), Fresh, Fresh)
  BY DEF storeValue
<1>4. Fits(not, Holding, Holding)
  BY PlatterAssumption DEF not, Register
<1>8. Fits(clear("edx"), Holding, Dividing)
  BY DEF clear
<1>9. Fits(arrayOf("ebx"), Fresh, Indexing) /\ Fits(arrayOf("ecx"), Storing, Amending)
  <2>1. Fits(arrayOf("ebx"), Fresh, Indexing)
    BY DEF arrayOf
  <2>2. Fits(arrayOf("ecx"), Storing, Amending)
    BY DEF arrayOf
  <2> HIDE DEF Fits, Fresh, Holding, Storing, Amending, Dividing, Indexing, Entering, Eax, Kind
  <2> QED BY <2>1, <2>2
<1>10. Fits(loadPlatter, Indexing, Holding) /\ Fits(orDirty, Amending, Amending)
  <2>1. Fits(loadPlatter, Indexing, Holding)
    BY DEF loadPlatter
  <2>2. Fits(orDirty, Amending, Amending)
    BY DEF orDirty
  <2> HIDE DEF Fits, Fresh, Holding, Storing, Amending, Dividing, Indexing, Entering, Eax, Kind
  <2> QED BY <2>1, <2>2
<1>5. /\ Fits(storePlatter, Amending, Fresh)
      /\ Fits(cmp("ebx"), Fresh, Fresh) /\ Fits(cmp("ecx"), Fresh, Fresh)
      /\ Fits(codeOf("ebx"), Fresh, Entering) /\ Fits(codeOf("ecx"), Fresh, Entering)
      /\ Fits(jmpEax, Entering, Fresh)
  <2>1. Fits(storePlatter, Amending, Fresh)
    BY DEF storePlatter
  <2>2. Fits(cmp("ebx"), Fresh, Fresh) /\ Fits(cmp("ecx"), Fresh, Fresh)
    BY DEF cmp
  <2>3. Fits(codeOf("ebx"), Fresh, Entering) /\ Fits(codeOf("ecx"), Fresh, Entering)
    BY DEF codeOf
  <2>4. Fits(jmpEax, Entering, Fresh)
    BY DEF jmpEax
  <2> HIDE DEF Fits, Fresh, Holding, Storing, Amending, Dividing, Indexing, Entering, Eax, Kind
  <2> QED BY <2>1, <2>2, <2>3, <2>4
<1>6. Fits(stubHead, Entering, Eax("half")) /\ Fits(stubTail, Eax("half"), Fresh)
  <2>1. Fits(stubHead, Entering, Eax("half"))
    BY DEF stubHead
  <2>2. Fits(stubTail, Eax("half"), Fresh)
    BY DEF stubTail
  <2> HIDE DEF Fits, Fresh, Holding, Storing, Amending, Dividing, Indexing, Entering, Eax, Kind
  <2> QED BY <2>1, <2>2
<1>7. ASSUME NEW d \in Int
      PROVE  /\ Fits(jecxz(d), Fresh, Fresh) /\ Fits(jnz(d), Fresh, Fresh)
             /\ Fits(jmp(d), Fresh, Fresh)
  <2>1. Fits(jecxz(d), Fresh, Fresh)
    BY DEF jecxz
  <2>2. Fits(jnz(d), Fresh, Fresh)
    BY DEF jnz
  <2>3. Fits(jmp(d), Fresh, Fresh)
    BY DEF jmp
  <2> HIDE DEF Fits, Fresh, Holding, Storing, Amending, Dividing, Indexing, Entering, Eax, Kind
  <2> QED BY <2>1, <2>2, <2>3
<1> HIDE DEF Fits, Ins, Fresh, Holding, Storing, Amending, Dividing, Indexing, Entering,
             Eax, Kind, Weaker
<1> QED BY <1>1, <1>2, <1>3, <1>4, <1>5, <1>6, <1>7, <1>8, <1>9, <1>10

\* What codeFor emits are instructions.
LEMMA InstructionTypes ==
  /\ \A reg \in RegisterNames, m \in Int : load(reg, m) \in Instruction
  /\ \A reg \in RegisterNames : /\ cmp(reg) \in Instruction /\ arrayOf(reg) \in Instruction
                         /\ codeOf(reg) \in Instruction /\ clear(reg) \in Instruction
                         /\ \A v \in Int : lowByte(reg, v) \in Instruction
  /\ \A m \in Int : /\ store(m) \in Instruction /\ add(m) \in Instruction
                    /\ mul(m) \in Instruction /\ div(m) \in Instruction /\ and(m) \in Instruction
                    /\ jecxz(m) \in Instruction /\ jnz(m) \in Instruction /\ jmp(m) \in Instruction
                    /\ moveWord(m) \in Instruction
                    /\ \A v \in Int : storeValue(m, v) \in Instruction
  /\ { not, jmpEax, popEdx, callEdx, loadPlatter, storePlatter, orDirty, stubHead, stubTail }
       \subseteq Instruction
<1>1. \A name \in InstructionNames, length \in Nat, reg \in RegisterNames, m \in Int, n \in Int :
        Ins(name, length, reg, m, n) \in Instruction
  BY DEF Instruction, Ins
<1>2. {"eax", "ebx", "ecx", "edx", "none"} \subseteq RegisterNames
  BY DEF RegisterNames
<1> QED BY <1>1, <1>2
  DEF InstructionNames, load, cmp, arrayOf, codeOf, clear, lowByte, store, add, mul, div, and,
   jecxz, jnz, jmp, moveWord, storeValue, not, jmpEax, popEdx, callEdx, loadPlatter,
   storePlatter, orDirty, stubHead, stubTail

Generated(is, ks) == TypedCode(is, ks) /\ PlatterCode(is, ks)

\* A jump to where nothing is known.
LEMMA FreshWeaker == Weaker(Fresh, Fresh)
BY DEF Weaker, Fresh, Eax, Kind

\* if (C != 0) A = B
LEMMA ConditionalMoveCode ==
  ASSUME NEW rA \in Register, NEW rB \in Register, NEW rC \in Register
  PROVE  \E ks : Generated(codeForConditionalMove(rA, rB, rC), ks)
<1> DEFINE is == codeForConditionalMove(rA, rB, rC)
           ks == << Fresh, Fresh, Fresh, Holding, Fresh >>
           o == Offsets(is)
<1>0. {rA, rB, rC} \subseteq Register \cap Int /\ {"eax", "ebx", "ecx", "edx"} \subseteq RegisterNames
      /\ 6 \in Int
  BY PlatterAssumption DEF Register, RegisterNames, Word, WordSize, OperatorUnit
<1>1. is \in Seq(Instruction)
  BY <1>0, InstructionTypes DEF codeForConditionalMove, SkipsTheBranch
<1>2. /\ Len(is) = 4 /\ is[1] = load("ecx", rC) /\ is[2] = SkipsTheBranch
      /\ is[3] = load("eax", rB) /\ is[4] = store(rA)
  BY DEF codeForConditionalMove
<1> HIDE DEF is, o
<1>3. /\ is[1].length = 3 /\ is[2].length = 2 /\ is[3].length = 3
      /\ is[4].length = 3
      /\ is[1].name = "load" /\ is[2].name = "jecxz" /\ is[3].name = "load"
      /\ is[4].name = "store"
      /\ is[2].n = 6
  BY <1>2 DEF jecxz, load, store, Ins, SkipsTheBranch
<1>4. /\ o[1] = 3 /\ o[2] = 5 /\ o[3] = 8 /\ o[4] = 11
  <2>1. o[0] = 0 /\ \A n \in 1 .. 4 : o[n] = o[n - 1] + is[n].length
    BY <1>1, <1>2, OffsetFacts DEF o
  <2> QED BY <1>3, <2>1
<1>5. \A n \in 1 .. 4 : Fits(is[n], ks[n], ks[n + 1])
  <2>1. /\ Fits(is[1], ks[1], ks[2]) /\ Fits(is[2], ks[2], ks[3])
        /\ Fits(is[3], ks[3], ks[4]) /\ Fits(is[4], ks[4], ks[5])
    BY <1>0, <1>2, InstructionsFit DEF SkipsTheBranch
  <2> QED BY <2>1
<1>6. Lands(is, ks, 2)
  <2>1. /\ o[4] = o[2] + is[2].n /\ 5 \in 2 + 1 .. Len(is) + 1
    BY <1>2, <1>3, <1>4
  <2>2. Weaker(ks[5], ks[2])
    BY FreshWeaker
  <2> QED BY <2>1, <2>2 DEF Lands, o
<1>7. \A n \in 1 .. 4 : Lands(is, ks, n)
  <2>1. \A n \in (1 .. 4) \ {2} : Lands(is, ks, n)
    BY <1>3 DEF Lands
  <2> QED BY <1>6, <2>1
<1>8. TypedCode(is, ks)
  <2>1. \A n \in 1 .. 4 : is[n].length # 0
    BY <1>3
  <2> QED BY <1>1, <1>2, <1>5, <1>7, <2>1 DEF TypedCode
<1>9. PlatterCode(is, ks)
  BY <1>2, <1>3, <1>4 DEF PlatterCode, StubSize, o
<1> QED BY <1>8, <1>9 DEF is, Generated

\* A = B[C]
LEMMA ArrayIndexCode ==
  ASSUME NEW rA \in Register, NEW rB \in Register, NEW rC \in Register
  PROVE  \E ks : Generated(codeForArrayIndex(rA, rB, rC), ks)
<1> DEFINE is == codeForArrayIndex(rA, rB, rC)
           ks == << Fresh, Fresh, Indexing, Indexing, Holding, Fresh >>
           o == Offsets(is)
<1>0. {rA, rB, rC} \subseteq Register \cap Int /\ {"eax", "ebx", "ecx", "edx"} \subseteq RegisterNames
  BY PlatterAssumption DEF Register, RegisterNames, Word, WordSize, OperatorUnit
<1>1. is \in Seq(Instruction)
  BY <1>0, InstructionTypes DEF codeForArrayIndex
<1>2. /\ Len(is) = 5 /\ is[1] = load("ebx", rB) /\ is[2] = arrayOf("ebx")
      /\ is[3] = load("ecx", rC) /\ is[4] = loadPlatter /\ is[5] = store(rA)
  BY DEF codeForArrayIndex
<1> HIDE DEF is, o
<1>3. /\ is[1].length = 3 /\ is[2].length = 3 /\ is[3].length = 3
      /\ is[4].length = 4 /\ is[5].length = 3
      /\ is[1].name = "load" /\ is[2].name = "arrayOf" /\ is[3].name = "load"
      /\ is[4].name = "loadPlatter" /\ is[5].name = "store"
  BY <1>2 DEF arrayOf, load, loadPlatter, store, Ins
<1>4. /\ o[1] = 3 /\ o[2] = 6 /\ o[3] = 9 /\ o[4] = 13 /\ o[5] = 16
  <2>1. o[0] = 0 /\ \A n \in 1 .. 5 : o[n] = o[n - 1] + is[n].length
    BY <1>1, <1>2, OffsetFacts DEF o
  <2> QED BY <1>3, <2>1
<1>5. \A n \in 1 .. 5 : Fits(is[n], ks[n], ks[n + 1])
  <2>1. /\ Fits(is[1], ks[1], ks[2]) /\ Fits(is[2], ks[2], ks[3])
        /\ Fits(is[3], ks[3], ks[4]) /\ Fits(is[4], ks[4], ks[5])
        /\ Fits(is[5], ks[5], ks[6])
    BY <1>0, <1>2, InstructionsFit
  <2> QED BY <2>1
<1>7. \A n \in 1 .. 5 : Lands(is, ks, n)
  BY <1>3 DEF Lands
<1>8. TypedCode(is, ks)
  <2>1. \A n \in 1 .. 5 : is[n].length # 0
    BY <1>3
  <2> QED BY <1>1, <1>2, <1>5, <1>7, <2>1 DEF TypedCode
<1>9. PlatterCode(is, ks)
  BY <1>2, <1>3, <1>4 DEF PlatterCode, StubSize, o
<1> QED BY <1>8, <1>9 DEF is, Generated

\* A[B] = C
LEMMA ArrayAmendmentCode ==
  ASSUME NEW rA \in Register, NEW rB \in Register, NEW rC \in Register
  PROVE  \E ks : Generated(codeForArrayAmendment(rA, rB, rC), ks)
<1> DEFINE is == codeForArrayAmendment(rA, rB, rC)
           ks == << Fresh, Fresh, Fresh, Storing, Amending, Amending, Fresh,
                    Fresh, Fresh, Entering, Eax("half"), Fresh, Fresh >>
           o == Offsets(is)
<1>0. {rA, rB, rC} \subseteq Register \cap Int /\ {"eax", "ebx", "ecx", "edx"} \subseteq RegisterNames
      /\ {0, 19} \subseteq Int
  BY PlatterAssumption DEF Register, RegisterNames, Word, WordSize, OperatorUnit
<1>1. is \in Seq(Instruction)
  BY <1>0, InstructionTypes DEF codeForArrayAmendment
<1>2. /\ Len(is) = 12 /\ is[1] = load("ecx", rA) /\ is[2] = load("ebx", rB)
      /\ is[3] = load("edx", rC) /\ is[4] = arrayOf("ecx") /\ is[5] = orDirty
      /\ is[6] = storePlatter /\ is[7] = cmp("ecx") /\ is[8] = jnz(19)
      /\ is[9] = codeOf("ebx") /\ is[10] = stubHead /\ is[11] = stubTail
      /\ is[12] = jmp(0)
  BY DEF codeForArrayAmendment
<1> HIDE DEF is, o
<1>3. /\ is[1].length = 3 /\ is[2].length = 3 /\ is[3].length = 3
      /\ is[4].length = 3 /\ is[5].length = 7 /\ is[6].length = 4
      /\ is[7].length = 3 /\ is[8].length = 2 /\ is[9].length = 4
      /\ is[10].length = 6 /\ is[11].length = 7 /\ is[12].length = 2
      /\ is[1].name = "load" /\ is[2].name = "load" /\ is[3].name = "load"
      /\ is[4].name = "arrayOf" /\ is[5].name = "orDirty"
      /\ is[6].name = "storePlatter" /\ is[7].name = "cmp" /\ is[8].name = "jnz"
      /\ is[9].name = "codeOf" /\ is[10].name = "stubHead"
      /\ is[11].name = "stubTail" /\ is[12].name = "jmp"
      /\ is[8].n = 19 /\ is[12].n = 0
  BY <1>2 DEF arrayOf, cmp, codeOf, jmp, jnz, load, orDirty, storePlatter, stubHead, stubTail,
     Ins
<1>4. /\ o[1] = 3 /\ o[2] = 6 /\ o[3] = 9 /\ o[4] = 12 /\ o[5] = 19 /\ o[6] = 23
      /\ o[7] = 26 /\ o[8] = 28 /\ o[9] = 32 /\ o[10] = 38 /\ o[11] = 45
      /\ o[12] = 47
  <2>1. o[0] = 0 /\ \A n \in 1 .. 12 : o[n] = o[n - 1] + is[n].length
    BY <1>1, <1>2, OffsetFacts DEF o
  <2> QED BY <1>3, <2>1
<1>5. \A n \in 1 .. 12 : Fits(is[n], ks[n], ks[n + 1])
  <2>1. /\ Fits(is[1], ks[1], ks[2]) /\ Fits(is[2], ks[2], ks[3])
        /\ Fits(is[3], ks[3], ks[4]) /\ Fits(is[4], ks[4], ks[5])
        /\ Fits(is[5], ks[5], ks[6]) /\ Fits(is[6], ks[6], ks[7])
        /\ Fits(is[7], ks[7], ks[8]) /\ Fits(is[8], ks[8], ks[9])
        /\ Fits(is[9], ks[9], ks[10]) /\ Fits(is[10], ks[10], ks[11])
        /\ Fits(is[11], ks[11], ks[12]) /\ Fits(is[12], ks[12], ks[13])
    BY <1>0, <1>2, InstructionsFit
  <2> QED BY <2>1
<1>6. Lands(is, ks, 8) /\ Lands(is, ks, 12)
  <2>1. /\ o[12] = o[8] + is[8].n /\ o[12] = o[12] + is[12].n
        /\ 13 \in 8 + 1 .. Len(is) + 1 /\ 13 \in 12 + 1 .. Len(is) + 1
    BY <1>2, <1>3, <1>4
  <2>2. ks[8] = Fresh /\ ks[12] = Fresh /\ ks[13] = Fresh
    OBVIOUS
  <2> HIDE DEF ks
  <2>3. Weaker(ks[13], ks[8]) /\ Weaker(ks[13], ks[12])
    BY <2>2, FreshWeaker
  <2> QED BY <2>1, <2>3 DEF Lands, o
<1>7. \A n \in 1 .. 12 : Lands(is, ks, n)
  <2>1. \A n \in (1 .. 12) \ {8, 12} : Lands(is, ks, n)
    BY <1>3 DEF Lands
  <2> QED BY <1>6, <2>1
<1>8. TypedCode(is, ks)
  <2>1. \A n \in 1 .. 12 : is[n].length # 0
    BY <1>3
  <2> QED BY <1>1, <1>2, <1>5, <1>7, <2>1 DEF TypedCode
<1>9. PlatterCode(is, ks)
  BY <1>2, <1>3, <1>4 DEF PlatterCode, StubSize, o
<1> QED BY <1>8, <1>9 DEF is, Generated

\* A = B + C
LEMMA AdditionCode ==
  ASSUME NEW rA \in Register, NEW rB \in Register, NEW rC \in Register
  PROVE  \E ks : Generated(<< load("eax", rB), add(rC), store(rA) >>, ks)
<1> DEFINE is == << load("eax", rB), add(rC), store(rA) >>
           ks == << Fresh, Holding, Holding, Fresh >>
           o == Offsets(is)
<1>0. {rA, rB, rC} \subseteq Register \cap Int /\ {"eax", "ebx", "ecx", "edx"} \subseteq RegisterNames
  BY PlatterAssumption DEF Register, RegisterNames, Word, WordSize, OperatorUnit
<1>1. is \in Seq(Instruction)
  BY <1>0, InstructionTypes
<1>2. /\ Len(is) = 3 /\ is[1] = load("eax", rB) /\ is[2] = add(rC) /\ is[3] = store(rA)
  OBVIOUS
<1> HIDE DEF is, o
<1>3. /\ is[1].length = 3 /\ is[2].length = 3 /\ is[3].length = 3
      /\ is[1].name = "load" /\ is[2].name = "add" /\ is[3].name = "store"
  BY <1>2 DEF add, load, store, Ins
<1>4. /\ o[1] = 3 /\ o[2] = 6 /\ o[3] = 9
  <2>1. o[0] = 0 /\ \A n \in 1 .. 3 : o[n] = o[n - 1] + is[n].length
    BY <1>1, <1>2, OffsetFacts DEF o
  <2> QED BY <1>3, <2>1
<1>5. \A n \in 1 .. 3 : Fits(is[n], ks[n], ks[n + 1])
  <2>1. /\ Fits(is[1], ks[1], ks[2]) /\ Fits(is[2], ks[2], ks[3])
        /\ Fits(is[3], ks[3], ks[4])
    BY <1>0, <1>2, InstructionsFit
  <2> QED BY <2>1
<1>7. \A n \in 1 .. 3 : Lands(is, ks, n)
  BY <1>3 DEF Lands
<1>8. TypedCode(is, ks)
  <2>1. \A n \in 1 .. 3 : is[n].length # 0
    BY <1>3
  <2> QED BY <1>1, <1>2, <1>5, <1>7, <2>1 DEF TypedCode
<1>9. PlatterCode(is, ks)
  BY <1>2, <1>3, <1>4 DEF PlatterCode, StubSize, o
<1> QED BY <1>8, <1>9 DEF is, Generated

\* A = B * C
LEMMA MultiplicationCode ==
  ASSUME NEW rA \in Register, NEW rB \in Register, NEW rC \in Register
  PROVE  \E ks : Generated(<< load("eax", rB), mul(rC), store(rA) >>, ks)
<1> DEFINE is == << load("eax", rB), mul(rC), store(rA) >>
           ks == << Fresh, Holding, Holding, Fresh >>
           o == Offsets(is)
<1>0. {rA, rB, rC} \subseteq Register \cap Int /\ {"eax", "ebx", "ecx", "edx"} \subseteq RegisterNames
  BY PlatterAssumption DEF Register, RegisterNames, Word, WordSize, OperatorUnit
<1>1. is \in Seq(Instruction)
  BY <1>0, InstructionTypes
<1>2. /\ Len(is) = 3 /\ is[1] = load("eax", rB) /\ is[2] = mul(rC) /\ is[3] = store(rA)
  OBVIOUS
<1> HIDE DEF is, o
<1>3. /\ is[1].length = 3 /\ is[2].length = 3 /\ is[3].length = 3
      /\ is[1].name = "load" /\ is[2].name = "mul" /\ is[3].name = "store"
  BY <1>2 DEF load, mul, store, Ins
<1>4. /\ o[1] = 3 /\ o[2] = 6 /\ o[3] = 9
  <2>1. o[0] = 0 /\ \A n \in 1 .. 3 : o[n] = o[n - 1] + is[n].length
    BY <1>1, <1>2, OffsetFacts DEF o
  <2> QED BY <1>3, <2>1
<1>5. \A n \in 1 .. 3 : Fits(is[n], ks[n], ks[n + 1])
  <2>1. /\ Fits(is[1], ks[1], ks[2]) /\ Fits(is[2], ks[2], ks[3])
        /\ Fits(is[3], ks[3], ks[4])
    BY <1>0, <1>2, InstructionsFit
  <2> QED BY <2>1
<1>7. \A n \in 1 .. 3 : Lands(is, ks, n)
  BY <1>3 DEF Lands
<1>8. TypedCode(is, ks)
  <2>1. \A n \in 1 .. 3 : is[n].length # 0
    BY <1>3
  <2> QED BY <1>1, <1>2, <1>5, <1>7, <2>1 DEF TypedCode
<1>9. PlatterCode(is, ks)
  BY <1>2, <1>3, <1>4 DEF PlatterCode, StubSize, o
<1> QED BY <1>8, <1>9 DEF is, Generated

\* A = B / C
LEMMA DivisionCode ==
  ASSUME NEW rA \in Register, NEW rB \in Register, NEW rC \in Register
  PROVE  \E ks : Generated(<< load("eax", rB), clear("edx"), div(rC), store(rA) >>, ks)
<1> DEFINE is == << load("eax", rB), clear("edx"), div(rC), store(rA) >>
           ks == << Fresh, Holding, Dividing, Holding, Fresh >>
           o == Offsets(is)
<1>0. {rA, rB, rC} \subseteq Register \cap Int /\ {"eax", "ebx", "ecx", "edx"} \subseteq RegisterNames
  BY PlatterAssumption DEF Register, RegisterNames, Word, WordSize, OperatorUnit
<1>1. is \in Seq(Instruction)
  BY <1>0, InstructionTypes
<1>2. /\ Len(is) = 4 /\ is[1] = load("eax", rB) /\ is[2] = clear("edx")
      /\ is[3] = div(rC) /\ is[4] = store(rA)
  OBVIOUS
<1> HIDE DEF is, o
<1>3. /\ is[1].length = 3 /\ is[2].length = 2 /\ is[3].length = 3
      /\ is[4].length = 3
      /\ is[1].name = "load" /\ is[2].name = "clear" /\ is[3].name = "div"
      /\ is[4].name = "store"
  BY <1>2 DEF clear, div, load, store, Ins
<1>4. /\ o[1] = 3 /\ o[2] = 5 /\ o[3] = 8 /\ o[4] = 11
  <2>1. o[0] = 0 /\ \A n \in 1 .. 4 : o[n] = o[n - 1] + is[n].length
    BY <1>1, <1>2, OffsetFacts DEF o
  <2> QED BY <1>3, <2>1
<1>5. \A n \in 1 .. 4 : Fits(is[n], ks[n], ks[n + 1])
  <2>1. /\ Fits(is[1], ks[1], ks[2]) /\ Fits(is[2], ks[2], ks[3])
        /\ Fits(is[3], ks[3], ks[4]) /\ Fits(is[4], ks[4], ks[5])
    BY <1>0, <1>2, InstructionsFit
  <2> QED BY <2>1
<1>7. \A n \in 1 .. 4 : Lands(is, ks, n)
  BY <1>3 DEF Lands
<1>8. TypedCode(is, ks)
  <2>1. \A n \in 1 .. 4 : is[n].length # 0
    BY <1>3
  <2> QED BY <1>1, <1>2, <1>5, <1>7, <2>1 DEF TypedCode
<1>9. PlatterCode(is, ks)
  BY <1>2, <1>3, <1>4 DEF PlatterCode, StubSize, o
<1> QED BY <1>8, <1>9 DEF is, Generated

\* A = ~(B & C)
LEMMA NotAndCode ==
  ASSUME NEW rA \in Register, NEW rB \in Register, NEW rC \in Register
  PROVE  \E ks : Generated(<< load("eax", rB), and(rC), not, store(rA) >>, ks)
<1> DEFINE is == << load("eax", rB), and(rC), not, store(rA) >>
           ks == << Fresh, Holding, Holding, Holding, Fresh >>
           o == Offsets(is)
<1>0. {rA, rB, rC} \subseteq Register \cap Int /\ {"eax", "ebx", "ecx", "edx"} \subseteq RegisterNames
  BY PlatterAssumption DEF Register, RegisterNames, Word, WordSize, OperatorUnit
<1>1. is \in Seq(Instruction)
  BY <1>0, InstructionTypes
<1>2. /\ Len(is) = 4 /\ is[1] = load("eax", rB) /\ is[2] = and(rC) /\ is[3] = not
      /\ is[4] = store(rA)
  OBVIOUS
<1> HIDE DEF is, o
<1>3. /\ is[1].length = 3 /\ is[2].length = 3 /\ is[3].length = 2
      /\ is[4].length = 3
      /\ is[1].name = "load" /\ is[2].name = "and" /\ is[3].name = "not"
      /\ is[4].name = "store"
  BY <1>2 DEF and, load, not, store, Ins
<1>4. /\ o[1] = 3 /\ o[2] = 6 /\ o[3] = 8 /\ o[4] = 11
  <2>1. o[0] = 0 /\ \A n \in 1 .. 4 : o[n] = o[n - 1] + is[n].length
    BY <1>1, <1>2, OffsetFacts DEF o
  <2> QED BY <1>3, <2>1
<1>5. \A n \in 1 .. 4 : Fits(is[n], ks[n], ks[n + 1])
  <2>1. /\ Fits(is[1], ks[1], ks[2]) /\ Fits(is[2], ks[2], ks[3])
        /\ Fits(is[3], ks[3], ks[4]) /\ Fits(is[4], ks[4], ks[5])
    BY <1>0, <1>2, InstructionsFit
  <2> QED BY <2>1
<1>7. \A n \in 1 .. 4 : Lands(is, ks, n)
  BY <1>3 DEF Lands
<1>8. TypedCode(is, ks)
  <2>1. \A n \in 1 .. 4 : is[n].length # 0
    BY <1>3
  <2> QED BY <1>1, <1>2, <1>5, <1>7, <2>1 DEF TypedCode
<1>9. PlatterCode(is, ks)
  BY <1>2, <1>3, <1>4 DEF PlatterCode, StubSize, o
<1> QED BY <1>8, <1>9 DEF is, Generated

\* A = v
LEMMA OrthographyCode ==
  ASSUME NEW rA \in Register, NEW v \in Word
  PROVE  \E ks : Generated(codeForOrthography(rA, v), ks)
<1> DEFINE is == codeForOrthography(rA, v)
           ks == << Fresh, Fresh >>
           o == Offsets(is)
<1>0. rA \in Register \cap Int /\ v \in Word \cap Int
  BY PlatterAssumption DEF Register, RegisterNames, Word, WordSize, OperatorUnit
<1>1. is \in Seq(Instruction)
  BY <1>0, InstructionTypes DEF codeForOrthography
<1>2. /\ Len(is) = 1 /\ is[1] = storeValue(rA, v)
  BY DEF codeForOrthography
<1> HIDE DEF is, o
<1>3. /\ is[1].length = 7
      /\ is[1].name = "storeValue"
  BY <1>2 DEF storeValue, Ins
<1>4. /\ o[1] = 7
  <2>1. o[0] = 0 /\ \A n \in 1 .. 1 : o[n] = o[n - 1] + is[n].length
    BY <1>1, <1>2, OffsetFacts DEF o
  <2> QED BY <1>3, <2>1
<1>5. \A n \in 1 .. 1 : Fits(is[n], ks[n], ks[n + 1])
  <2>1. /\ Fits(is[1], ks[1], ks[2])
    BY <1>0, <1>2, InstructionsFit
  <2> QED BY <2>1
<1>7. \A n \in 1 .. 1 : Lands(is, ks, n)
  BY <1>3 DEF Lands
<1>8. TypedCode(is, ks)
  <2>1. \A n \in 1 .. 1 : is[n].length # 0
    BY <1>3
  <2> QED BY <1>1, <1>2, <1>5, <1>7, <2>1 DEF TypedCode
<1>9. PlatterCode(is, ks)
  BY <1>2, <1>3, <1>4 DEF PlatterCode, StubSize, o
<1> QED BY <1>8, <1>9 DEF is, Generated

\* The operator unit and the word size are positive, and a value fits a word.
LEMMA WordSizes ==
  /\ OperatorUnit \in Nat \ {0}
  /\ ValueCount <= OperatorUnit
  /\ WordSize \in Nat \ {0}
  /\ ValueCount <= WordSize
<1>1. RegisterCount \in Nat \ {0} /\ ValueCount \in Nat \ {0}
  BY PlatterAssumption
<1>2. \A m, n \in Nat \ {0} : m * n \in Nat \ {0} /\ n <= m * n
  OBVIOUS
<1>3. OperatorUnit \in Nat \ {0} /\ ValueCount <= OperatorUnit
  BY <1>1, <1>2 DEF OperatorUnit
<1>4. QED BY <1>1, <1>3 DEF WordSize

\* A remainder is below its positive modulus.
LEMMA ModRange ==
  ASSUME NEW x \in Int, NEW n \in Nat \ {0}
  PROVE  x % n \in 0 .. n - 1
OBVIOUS

\* Reducing modulo the word size makes a word.
LEMMA ModWord ==
  ASSUME NEW x \in Int
  PROVE  x % WordSize \in Word
BY WordSizes, ModRange DEF Word

\* What decode finds in a word: register numbers, and a value that is a word.
LEMMA DecodeType ==
  ASSUME NEW v \in Word
  PROVE  /\ decode(v).A \in Register
         /\ decode(v).B \in Register
         /\ decode(v).C \in Register
         /\ decode(v).value \in Word
<1>1. v \in Nat
  BY WordSizes DEF Word
<1>2. RegisterCount \in Nat \ {0} /\ ValueCount \in Nat \ {0}
  BY PlatterAssumption
<1>3. \A m \in Nat, n \in Nat \ {0} : m \div n \in Nat
  OBVIOUS
<1>4. RegisterCount * RegisterCount \in Nat \ {0}
  BY <1>2
<1>5. \A m \in Nat : m % RegisterCount \in Register
  BY <1>2, ModRange DEF Register
<1>6. v % ValueCount \in Word
  BY <1>1, <1>2, ModRange, WordSizes DEF Word
<1>7. 0 \in Register /\ 0 \in Word
  BY <1>2, WordSizes DEF Register, Word
<1>8. CASE v \div OperatorUnit = orthography
  <2>1. decode(v) = OrthographyFormat(v)
    BY <1>8 DEF decode
  <2>2. (v \div ValueCount) % RegisterCount \in Register
    BY <1>1, <1>2, <1>3, <1>5
  <2>3. QED BY <2>1, <2>2, <1>6, <1>7 DEF OrthographyFormat
<1>9. CASE v \div OperatorUnit # orthography
  <2>1. decode(v) = GeneralFormat(v)
    BY <1>9 DEF decode
  <2>2. /\ (v \div (RegisterCount * RegisterCount)) % RegisterCount \in Register
        /\ (v \div RegisterCount) % RegisterCount \in Register
        /\ v % RegisterCount \in Register
    BY <1>1, <1>2, <1>3, <1>4, <1>5
  <2>3. QED BY <2>1, <2>2, <1>7 DEF GeneralFormat
<1>10. QED BY <1>8, <1>9

GeneratedLast(is, ks) == TypedCode(is, ks) /\ OOBCode(is, ks)
GeneratedStub(is, ks) == TypedCode(is, ks) /\ StubCode(is, ks)

\* Instructions put together.
LEMMA InstructionParts ==
  ASSUME NEW r \in Seq(Instruction), NEW s \in Seq(Instruction), NEW t \in Seq(Instruction)
  PROVE  /\ r \o s \o t \in Seq(Instruction)
         /\ Len(r \o s \o t) = Len(r) + Len(s) + Len(t)
         /\ \A i \in 1 .. Len(r) : (r \o s \o t)[i] = r[i]
         /\ \A i \in 1 .. Len(s) : (r \o s \o t)[Len(r) + i] = s[i]
         /\ \A i \in 1 .. Len(t) : (r \o s \o t)[Len(r) + Len(s) + i] = t[i]
<1> DEFINE S == Instruction
<1>1. r \in Seq(S) /\ s \in Seq(S) /\ t \in Seq(S)
  OBVIOUS
<1> HIDE DEF S
<1>2. r \o s \o t \in Seq(S)
  BY ONLY <1>1, ThreeParts
<1>3. Len(r \o s \o t) = Len(r) + Len(s) + Len(t)
  BY ONLY <1>1, ThreeParts
<1>4. \A i \in 1 .. Len(r) : (r \o s \o t)[i] = r[i]
  BY ONLY <1>1, ThreeParts
<1>5. \A i \in 1 .. Len(s) : (r \o s \o t)[Len(r) + i] = s[i]
  BY ONLY <1>1, ThreeParts
<1>6. \A i \in 1 .. Len(t) : (r \o s \o t)[Len(r) + Len(s) + i] = t[i]
  BY ONLY <1>1, ThreeParts
<1> QED BY <1>2, <1>3, <1>4, <1>5, <1>6 DEF S

\* The parts of the code that returns to run().
LEMMA ReturnFacts ==
  ASSUME NEW c \in Codes
  PROVE  /\ Returned(c) \in Seq(Instruction) /\ return \in Seq(Instruction)
         /\ Len(Returned(c)) = 2 /\ Len(return) = 2
         /\ Returned(c)[1] = clear("eax") /\ Returned(c)[2] = lowByte("eax", ReturnCode[c])
         /\ return[1] = popEdx /\ return[2] = callEdx
<1>1. ReturnCode[c] \in Int /\ "eax" \in RegisterNames
  BY DEF Codes, ReturnCode, RegisterNames
<1> QED BY <1>1, InstructionTypes DEF Returned, return

CallingLayout(is, c, between) ==
  /\ is \in Seq(Instruction) /\ Len(between) \in Nat /\ Len(is) = Len(between) + 4
  /\ is[1] = clear("eax") /\ is[2] = lowByte("eax", ReturnCode[c])
  /\ \A i \in 1 .. Len(between) : is[2 + i] = between[i]
  /\ is[Len(between) + 3] = popEdx /\ is[Len(between) + 4] = callEdx

\* Between the return code and the return there may be other instructions.
LEMMA CallingParts ==
  ASSUME NEW c \in Codes, NEW between \in Seq(Instruction)
  PROVE  CallingLayout(Returned(c) \o between \o return, c, between)
<1> DEFINE r == Returned(c)
           t == return
           is == r \o between \o t
<1>1. r \in Seq(Instruction) /\ t \in Seq(Instruction)
  BY ReturnFacts
<1>2. /\ Len(r) = 2 /\ r[1] = clear("eax") /\ r[2] = lowByte("eax", ReturnCode[c])
      /\ Len(t) = 2 /\ t[1] = popEdx /\ t[2] = callEdx
  BY ReturnFacts
<1> HIDE DEF r, t
<1>3. /\ is \in Seq(Instruction)
      /\ Len(is) = Len(r) + Len(between) + Len(t)
      /\ \A i \in 1 .. Len(r) : is[i] = r[i]
      /\ \A i \in 1 .. Len(between) : is[Len(r) + i] = between[i]
      /\ \A i \in 1 .. Len(t) : is[Len(r) + Len(between) + i] = t[i]
  BY <1>1, InstructionParts
<1>4. Len(between) \in Nat
  BY LenProperties
<1> HIDE DEF is
<1>5. /\ Len(is) = Len(between) + 4 /\ is[1] = clear("eax") /\ is[2] = lowByte("eax", ReturnCode[c])
      /\ \A i \in 1 .. Len(between) : is[2 + i] = between[i]
  BY <1>2, <1>3, <1>4
<1>6. is[Len(between) + 3] = popEdx /\ is[Len(between) + 4] = callEdx
  <2>1. 2 + Len(between) + 1 = Len(between) + 3 /\ 2 + Len(between) + 2 = Len(between) + 4
    BY <1>4
  <2>2. is[2 + Len(between) + 1] = t[1] /\ is[2 + Len(between) + 2] = t[2]
    BY <1>2, <1>3
  <2> QED BY <1>2, <2>1, <2>2
<1>7. CallingLayout(is, c, between)
  BY <1>3, <1>4, <1>5, <1>6 DEF CallingLayout
<1> QED BY <1>7 DEF is, r, t

\* The instruction that is executed when run() has answered.
LEMMA OneMore ==
  ASSUME NEW S, NEW s \in Seq(S), NEW x \in S
  PROVE  /\ s \o << x >> \in Seq(S) /\ Len(s \o << x >>) = Len(s) + 1
         /\ \A i \in 1 .. Len(s) : (s \o << x >>)[i] = s[i]
         /\ (s \o << x >>)[Len(s) + 1] = x
<1> DEFINE t == << x >>
<1>1. t \in Seq(S) /\ Len(t) = 1 /\ t[1] = x /\ Len(s) \in Nat
  BY LenProperties
<1> HIDE DEF t
<1>2. /\ s \o t \in Seq(S) /\ Len(s \o t) = Len(s) + 1
      /\ \A i \in 1 .. Len(s) + 1 : (s \o t)[i] = IF i <= Len(s) THEN s[i] ELSE t[i - Len(s)]
  <2>1. t \in Seq(S)
    BY <1>1
  <2>2. /\ s \o t \in Seq(S) /\ Len(s \o t) = Len(s) + Len(t)
        /\ \A i \in 1 .. Len(s) + Len(t) : (s \o t)[i] = IF i <= Len(s) THEN s[i] ELSE t[i - Len(s)]
    BY <2>1, ConcatProperties
  <2> QED BY <1>1, <2>2
<1>3. Len(s) + 1 \in 1 .. Len(s) + 1 /\ ~(Len(s) + 1 <= Len(s)) /\ Len(s) + 1 - Len(s) = 1
  BY <1>1
<1>4. (s \o t)[Len(s) + 1] = x
  BY <1>1, <1>2, <1>3
<1>5. \A i \in 1 .. Len(s) : i \in 1 .. Len(s) + 1 /\ i <= Len(s)
  BY <1>1
<1> QED BY <1>2, <1>4, <1>5 DEF t

\* The code of operator 7, halt.
LEMMA HaltCode ==
  \E ks : Generated(Returned("halt") \o << clear("ebx") >> \o return, ks)
<1> DEFINE is == Returned("halt") \o << clear("ebx") >> \o return
           ks == << Fresh, Eax("zero"), Eax("halt"), Halting, Run("halt"), Fresh >>
           o == Offsets(is)
<1>0. {"eax", "ebx", "ecx", "edx"} \subseteq RegisterNames /\ "halt" \in Codes
  BY PlatterAssumption DEF Register, RegisterNames, Word, WordSize, OperatorUnit, Codes, ReturnCode
<1> DEFINE between == << clear("ebx") >>
<1>a. between \in Seq(Instruction) /\ Len(between) = 1 /\ between[1] = clear("ebx")
  BY <1>0, InstructionTypes
<1>b. is = Returned("halt") \o between \o return
  OBVIOUS
<1> HIDE DEF between
<1>c. CallingLayout(is, "halt", between)
  <2>1. "halt" \in Codes /\ between \in Seq(Instruction)
    BY <1>0, <1>a
  <2> QED BY <1>b, <2>1, CallingParts
<1> HIDE DEF is
<1>1. is \in Seq(Instruction)
  BY <1>c DEF CallingLayout
<1>2. /\ Len(is) = 5 /\ is[1] = clear("eax")
      /\ is[2] = lowByte("eax", ReturnCode["halt"]) /\ is[3] = clear("ebx")
      /\ is[4] = popEdx /\ is[5] = callEdx
  <2>1. /\ Len(is) = 1 + 4
        /\ is[1] = clear("eax") /\ is[2] = lowByte("eax", ReturnCode["halt"])
        /\ \A i \in 1 .. 1 : is[2 + i] = between[i]
        /\ is[1 + 3] = popEdx /\ is[1 + 4] = callEdx
    BY <1>a, <1>c DEF CallingLayout
  <2> QED BY <1>a, <2>1
<1> HIDE DEF is, o
<1>3. /\ is[1].length = 2 /\ is[2].length = 2 /\ is[3].length = 2
      /\ is[4].length = 1 /\ is[5].length = 2
      /\ is[1].name = "clear" /\ is[2].name = "lowByte" /\ is[3].name = "clear"
      /\ is[4].name = "popEdx" /\ is[5].name = "callEdx"
  BY <1>2 DEF callEdx, clear, lowByte, popEdx, Ins
<1>4. /\ o[1] = 2 /\ o[2] = 4 /\ o[3] = 6 /\ o[4] = 7 /\ o[5] = 9
  <2>1. o[0] = 0 /\ \A n \in 1 .. 5 : o[n] = o[n - 1] + is[n].length
    BY <1>1, <1>2, OffsetFacts DEF o
  <2> QED BY <1>3, <2>1
<1>5. \A n \in 1 .. 5 : Fits(is[n], ks[n], ks[n + 1])
  <2>1. /\ Fits(is[1], ks[1], ks[2]) /\ Fits(is[2], ks[2], ks[3])
        /\ Fits(is[3], ks[3], ks[4]) /\ Fits(is[4], ks[4], ks[5])
        /\ Fits(is[5], ks[5], ks[6])
    BY <1>0, <1>2, CallsFit, InstructionsFit
  <2> QED BY <2>1
<1>7. \A n \in 1 .. 5 : Lands(is, ks, n)
  BY <1>3 DEF Lands
<1>8. TypedCode(is, ks)
  <2>1. \A n \in 1 .. 5 : is[n].length # 0
    BY <1>3
  <2> QED BY <1>1, <1>2, <1>5, <1>7, <2>1 DEF TypedCode
<1>9. PlatterCode(is, ks)
  BY <1>2, <1>3, <1>4 DEF PlatterCode, StubSize, o, Run, Kind, Codes, ReturnCode
<1> QED BY <1>8, <1>9 DEF is, Generated

\* The code of an invalid operator.
LEMMA InvalidOperatorCode ==
  ASSUME NEW w \in Word
  PROVE  \E ks : Generated(codeForInvalidOperator(w), ks)
<1> DEFINE is == codeForInvalidOperator(w)
           ks == << Fresh, Eax("zero"), Eax("halt"), Halting, Eax("halt"),
                    Eax("halt"), Run("halt"), Fresh >>
           o == Offsets(is)
<1>0. {"eax", "ebx", "ecx", "edx"} \subseteq RegisterNames /\ "halt" \in Codes /\ w \in Int /\ 1 \in Int
  BY PlatterAssumption DEF Register, RegisterNames, Word, WordSize, OperatorUnit, Codes, ReturnCode
<1> DEFINE between == << clear("ebx"), lowByte("ebx", 1), moveWord(w) >>
<1>a. between \in Seq(Instruction) /\ Len(between) = 3
      /\ between[1] = clear("ebx") /\ between[2] = lowByte("ebx", 1)
      /\ between[3] = moveWord(w)
  BY <1>0, InstructionTypes
<1>b. is = Returned("halt") \o between \o return
  BY DEF codeForInvalidOperator
<1> HIDE DEF between
<1>c. CallingLayout(is, "halt", between)
  <2>1. "halt" \in Codes /\ between \in Seq(Instruction)
    BY <1>0, <1>a
  <2> QED BY <1>b, <2>1, CallingParts
<1> HIDE DEF is
<1>1. is \in Seq(Instruction)
  BY <1>c DEF CallingLayout
<1>2. /\ Len(is) = 7 /\ is[1] = clear("eax")
      /\ is[2] = lowByte("eax", ReturnCode["halt"]) /\ is[3] = clear("ebx")
      /\ is[4] = lowByte("ebx", 1) /\ is[5] = moveWord(w) /\ is[6] = popEdx
      /\ is[7] = callEdx
  <2>1. /\ Len(is) = 3 + 4
        /\ is[1] = clear("eax") /\ is[2] = lowByte("eax", ReturnCode["halt"])
        /\ \A i \in 1 .. 3 : is[2 + i] = between[i]
        /\ is[3 + 3] = popEdx /\ is[3 + 4] = callEdx
    BY <1>a, <1>c DEF CallingLayout
  <2> QED BY <1>a, <2>1
<1> HIDE DEF is, o
<1>3. /\ is[1].length = 2 /\ is[2].length = 2 /\ is[3].length = 2
      /\ is[4].length = 2 /\ is[5].length = 5 /\ is[6].length = 1
      /\ is[7].length = 2
      /\ is[1].name = "clear" /\ is[2].name = "lowByte" /\ is[3].name = "clear"
      /\ is[4].name = "lowByte" /\ is[5].name = "moveWord" /\ is[6].name = "popEdx"
      /\ is[7].name = "callEdx"
  BY <1>2 DEF callEdx, clear, lowByte, moveWord, popEdx, Ins
<1>4. /\ o[1] = 2 /\ o[2] = 4 /\ o[3] = 6 /\ o[4] = 8 /\ o[5] = 13 /\ o[6] = 14
      /\ o[7] = 16
  <2>1. o[0] = 0 /\ \A n \in 1 .. 7 : o[n] = o[n - 1] + is[n].length
    BY <1>1, <1>2, OffsetFacts DEF o
  <2> QED BY <1>3, <2>1
<1>5. \A n \in 1 .. 7 : Fits(is[n], ks[n], ks[n + 1])
  <2>1. /\ Fits(is[1], ks[1], ks[2]) /\ Fits(is[2], ks[2], ks[3])
        /\ Fits(is[3], ks[3], ks[4]) /\ Fits(is[4], ks[4], ks[5])
        /\ Fits(is[5], ks[5], ks[6]) /\ Fits(is[6], ks[6], ks[7])
        /\ Fits(is[7], ks[7], ks[8])
    BY <1>0, <1>2, CallsFit, InstructionsFit
  <2> QED BY <2>1
<1>7. \A n \in 1 .. 7 : Lands(is, ks, n)
  BY <1>3 DEF Lands
<1>8. TypedCode(is, ks)
  <2>1. \A n \in 1 .. 7 : is[n].length # 0
    BY <1>3
  <2> QED BY <1>1, <1>2, <1>5, <1>7, <2>1 DEF TypedCode
<1>9. PlatterCode(is, ks)
  BY <1>2, <1>3, <1>4 DEF PlatterCode, StubSize, o, Run, Kind, Codes, ReturnCode
<1> QED BY <1>8, <1>9 DEF is, Generated

\* The code of abandonment and output: a request, and nothing after it.
LEMMA CallCode ==
  ASSUME NEW c \in Codes \ {"recompile"}, NEW rC \in Register
  PROVE  \E ks : Generated(Calls(c, rC), ks)
<1> DEFINE is == Calls(c, rC)
           ks == << Fresh, Eax("zero"), Eax(c), Eax(c), Run(c), Fresh >>
           o == Offsets(is)
<1>0. {"eax", "ebx", "ecx", "edx"} \subseteq RegisterNames /\ c \in Codes /\ rC \in Int
  BY PlatterAssumption DEF Register, RegisterNames, Word, WordSize, OperatorUnit, Codes, ReturnCode
<1> DEFINE between == << load("ebx", rC) >>
<1>a. between \in Seq(Instruction) /\ Len(between) = 1 /\ between[1] = load("ebx", rC)
  BY <1>0, InstructionTypes
<1>b. is = Returned(c) \o between \o return
  BY DEF Calls
<1> HIDE DEF between
<1>c. CallingLayout(is, c, between)
  <2>1. c \in Codes /\ between \in Seq(Instruction)
    BY <1>0, <1>a
  <2> QED BY <1>b, <2>1, CallingParts
<1> HIDE DEF is
<1>1. is \in Seq(Instruction)
  BY <1>c DEF CallingLayout
<1>2. /\ Len(is) = 5 /\ is[1] = clear("eax")
      /\ is[2] = lowByte("eax", ReturnCode[c]) /\ is[3] = load("ebx", rC)
      /\ is[4] = popEdx /\ is[5] = callEdx
  <2>1. /\ Len(is) = 1 + 4
        /\ is[1] = clear("eax") /\ is[2] = lowByte("eax", ReturnCode[c])
        /\ \A i \in 1 .. 1 : is[2 + i] = between[i]
        /\ is[1 + 3] = popEdx /\ is[1 + 4] = callEdx
    BY <1>a, <1>c DEF CallingLayout
  <2> QED BY <1>a, <2>1
<1> HIDE DEF is, o
<1>3. /\ is[1].length = 2 /\ is[2].length = 2 /\ is[3].length = 3
      /\ is[4].length = 1 /\ is[5].length = 2
      /\ is[1].name = "clear" /\ is[2].name = "lowByte" /\ is[3].name = "load"
      /\ is[4].name = "popEdx" /\ is[5].name = "callEdx"
  BY <1>2 DEF callEdx, clear, load, lowByte, popEdx, Ins
<1>4. /\ o[1] = 2 /\ o[2] = 4 /\ o[3] = 7 /\ o[4] = 8 /\ o[5] = 10
  <2>1. o[0] = 0 /\ \A n \in 1 .. 5 : o[n] = o[n - 1] + is[n].length
    BY <1>1, <1>2, OffsetFacts DEF o
  <2> QED BY <1>3, <2>1
<1>5. \A n \in 1 .. 5 : Fits(is[n], ks[n], ks[n + 1])
  <2>1. /\ Fits(is[1], ks[1], ks[2]) /\ Fits(is[2], ks[2], ks[3])
        /\ Fits(is[3], ks[3], ks[4]) /\ Fits(is[4], ks[4], ks[5])
        /\ Fits(is[5], ks[5], ks[6])
    BY <1>0, <1>2, CallsFit, InstructionsFit
  <2> QED BY <2>1
<1>7. \A n \in 1 .. 5 : Lands(is, ks, n)
  BY <1>3 DEF Lands
<1>8. TypedCode(is, ks)
  <2>1. \A n \in 1 .. 5 : is[n].length # 0
    BY <1>3
  <2> QED BY <1>1, <1>2, <1>5, <1>7, <2>1 DEF TypedCode
<1>9. PlatterCode(is, ks)
  BY <1>2, <1>3, <1>4 DEF PlatterCode, StubSize, o, Run, Kind, Codes, ReturnCode
<1> QED BY <1>8, <1>9 DEF is, Generated

\* The code of allocation: run() resumes at a store of its answer.
LEMMA AllocationCode ==
  ASSUME NEW rB \in Register, NEW rC \in Register
  PROVE  \E ks : Generated(Calls("allocation", rC) \o << store(rB) >>, ks)
<1> DEFINE is == Calls("allocation", rC) \o << store(rB) >>
           ks == << Fresh, Eax("zero"), Eax("allocation"), Eax("allocation"),
                    Run("allocation"), Holding, Fresh >>
           o == Offsets(is)
<1>0. {"eax", "ebx", "ecx", "edx"} \subseteq RegisterNames /\ "allocation" \in Codes /\ {rB, rC} \subseteq Int
  BY PlatterAssumption DEF Register, RegisterNames, Codes, ReturnCode
<1> DEFINE between == << load("ebx", rC) >>
           calls == Calls("allocation", rC)
<1>a. between \in Seq(Instruction) /\ Len(between) = 1 /\ between[1] = load("ebx", rC)
  BY <1>0, InstructionTypes
<1>b. calls = Returned("allocation") \o between \o return
  BY DEF Calls
<1> HIDE DEF between, calls
<1>f. CallingLayout(calls, "allocation", between)
  <2>1. "allocation" \in Codes /\ between \in Seq(Instruction)
    BY <1>0, <1>a
  <2> QED BY <1>b, <2>1, CallingParts
<1>c. /\ calls \in Seq(Instruction) /\ Len(calls) = 5
      /\ calls[1] = clear("eax") /\ calls[2] = lowByte("eax", ReturnCode["allocation"])
      /\ calls[3] = load("ebx", rC) /\ calls[4] = popEdx /\ calls[5] = callEdx
  <2>1. /\ calls \in Seq(Instruction) /\ Len(calls) = 1 + 4
        /\ calls[1] = clear("eax") /\ calls[2] = lowByte("eax", ReturnCode["allocation"])
        /\ \A i \in 1 .. 1 : calls[2 + i] = between[i]
        /\ calls[1 + 3] = popEdx /\ calls[1 + 4] = callEdx
    BY <1>a, <1>f DEF CallingLayout
  <2> QED BY <1>a, <2>1
<1>d. store(rB) \in Instruction
  BY <1>0, InstructionTypes
<1>e. /\ calls \o << store(rB) >> \in Seq(Instruction) /\ Len(calls \o << store(rB) >>) = Len(calls) + 1
      /\ \A i \in 1 .. Len(calls) : (calls \o << store(rB) >>)[i] = calls[i]
      /\ (calls \o << store(rB) >>)[Len(calls) + 1] = store(rB)
  <2>1. calls \in Seq(Instruction) /\ store(rB) \in Instruction
    BY <1>c, <1>d
  <2> QED BY ONLY <2>1, OneMore
<1>1. is \in Seq(Instruction)
  BY <1>e DEF calls
<1>2. /\ Len(is) = 6 /\ is[1] = clear("eax")
      /\ is[2] = lowByte("eax", ReturnCode["allocation"]) /\ is[3] = load("ebx", rC)
      /\ is[4] = popEdx /\ is[5] = callEdx /\ is[6] = store(rB)
  <2>1. is = calls \o << store(rB) >>
    BY DEF calls
  <2> HIDE DEF is
  <2> QED BY <1>c, <1>e, <2>1
<1> HIDE DEF is, o
<1>3. /\ is[1].length = 2 /\ is[2].length = 2 /\ is[3].length = 3
      /\ is[4].length = 1 /\ is[5].length = 2 /\ is[6].length = 3
      /\ is[1].name = "clear" /\ is[2].name = "lowByte" /\ is[3].name = "load"
      /\ is[4].name = "popEdx" /\ is[5].name = "callEdx" /\ is[6].name = "store"
  BY <1>2 DEF callEdx, clear, load, lowByte, popEdx, store, Ins
<1>4. /\ o[1] = 2 /\ o[2] = 4 /\ o[3] = 7 /\ o[4] = 8 /\ o[5] = 10 /\ o[6] = 13
  <2>1. o[0] = 0 /\ \A n \in 1 .. 6 : o[n] = o[n - 1] + is[n].length
    BY <1>1, <1>2, OffsetFacts DEF o
  <2> QED BY <1>3, <2>1
<1>5. \A n \in 1 .. 6 : Fits(is[n], ks[n], ks[n + 1])
  <2>1. /\ Fits(is[1], ks[1], ks[2]) /\ Fits(is[2], ks[2], ks[3])
        /\ Fits(is[3], ks[3], ks[4]) /\ Fits(is[4], ks[4], ks[5])
        /\ Fits(is[5], ks[5], ks[6]) /\ Fits(is[6], ks[6], ks[7])
    BY <1>0, <1>2, CallsFit, InstructionsFit
  <2> QED BY <2>1
<1>7. \A n \in 1 .. 6 : Lands(is, ks, n)
  BY <1>3 DEF Lands
<1>8. TypedCode(is, ks)
  <2>1. \A n \in 1 .. 6 : is[n].length # 0
    BY <1>3
  <2> QED BY <1>1, <1>2, <1>5, <1>7, <2>1 DEF TypedCode
<1>9. PlatterCode(is, ks)
  BY <1>2, <1>3, <1>4 DEF PlatterCode, StubSize, o, Run, Kind, Codes, ReturnCode
<1> QED BY <1>8, <1>9 DEF is, Generated

\* The code of input: the same, with register C not passed.
LEMMA InputCode ==
  ASSUME NEW rC \in Register
  PROVE  \E ks : Generated(Returned("input") \o return \o << store(rC) >>, ks)
<1> DEFINE is == Returned("input") \o return \o << store(rC) >>
           ks == << Fresh, Eax("zero"), Eax("input"), Run("input"), Holding,
                    Fresh >>
           o == Offsets(is)
<1>0. "input" \in Codes /\ rC \in Int
  BY PlatterAssumption DEF Register, Codes, ReturnCode
<1> DEFINE r == Returned("input")
           t == return
           a == << store(rC) >>
<1>a. /\ r \in Seq(Instruction) /\ Len(r) = 2
      /\ r[1] = clear("eax") /\ r[2] = lowByte("eax", ReturnCode["input"])
      /\ t \in Seq(Instruction) /\ Len(t) = 2 /\ t[1] = popEdx /\ t[2] = callEdx
  BY <1>0, ReturnFacts
<1>b. a \in Seq(Instruction) /\ Len(a) = 1 /\ a[1] = store(rC)
  BY <1>0, InstructionTypes
<1> HIDE DEF r, t, a
<1>c. /\ r \o t \o a \in Seq(Instruction) /\ Len(r \o t \o a) = Len(r) + Len(t) + Len(a)
      /\ \A i \in 1 .. Len(r) : (r \o t \o a)[i] = r[i]
      /\ \A i \in 1 .. Len(t) : (r \o t \o a)[Len(r) + i] = t[i]
      /\ \A i \in 1 .. Len(a) : (r \o t \o a)[Len(r) + Len(t) + i] = a[i]
  <2>1. r \in Seq(Instruction) /\ t \in Seq(Instruction) /\ a \in Seq(Instruction)
    BY <1>a, <1>b
  <2> QED BY ONLY <2>1, InstructionParts
<1>1. is \in Seq(Instruction)
  BY <1>c DEF r, t, a
<1>2. /\ Len(is) = 5 /\ is[1] = clear("eax")
      /\ is[2] = lowByte("eax", ReturnCode["input"]) /\ is[3] = popEdx
      /\ is[4] = callEdx /\ is[5] = store(rC)
  <2>1. is = r \o t \o a
    BY DEF r, t, a
  <2> HIDE DEF is
  <2> QED BY <1>a, <1>b, <1>c, <2>1
<1> HIDE DEF is, o
<1>3. /\ is[1].length = 2 /\ is[2].length = 2 /\ is[3].length = 1
      /\ is[4].length = 2 /\ is[5].length = 3
      /\ is[1].name = "clear" /\ is[2].name = "lowByte" /\ is[3].name = "popEdx"
      /\ is[4].name = "callEdx" /\ is[5].name = "store"
  BY <1>2 DEF callEdx, clear, lowByte, popEdx, store, Ins
<1>4. /\ o[1] = 2 /\ o[2] = 4 /\ o[3] = 5 /\ o[4] = 7 /\ o[5] = 10
  <2>1. o[0] = 0 /\ \A n \in 1 .. 5 : o[n] = o[n - 1] + is[n].length
    BY <1>1, <1>2, OffsetFacts DEF o
  <2> QED BY <1>3, <2>1
<1>5. \A n \in 1 .. 5 : Fits(is[n], ks[n], ks[n + 1])
  <2>1. /\ Fits(is[1], ks[1], ks[2]) /\ Fits(is[2], ks[2], ks[3])
        /\ Fits(is[3], ks[3], ks[4]) /\ Fits(is[4], ks[4], ks[5])
        /\ Fits(is[5], ks[5], ks[6])
    BY <1>0, <1>2, CallsFit, InstructionsFit
  <2> QED BY <2>1
<1>7. \A n \in 1 .. 5 : Lands(is, ks, n)
  BY <1>3 DEF Lands
<1>8. TypedCode(is, ks)
  <2>1. \A n \in 1 .. 5 : is[n].length # 0
    BY <1>3
  <2> QED BY <1>1, <1>2, <1>5, <1>7, <2>1 DEF TypedCode
<1>9. PlatterCode(is, ks)
  BY <1>2, <1>3, <1>4 DEF PlatterCode, StubSize, o, Run, Kind, Codes, ReturnCode
<1> QED BY <1>8, <1>9 DEF is, Generated

\* The code of loadProgram: a jump when array 0 is loaded, or else a request.
LEMMA LoadProgramCode ==
  ASSUME NEW rB \in Register, NEW rC \in Register
  PROVE  \E ks : Generated(codeForLoadProgram(rB, rC), ks)
<1> DEFINE is == codeForLoadProgram(rB, rC)
           ks == << Fresh, Fresh, Fresh, Fresh, Fresh, Entering, Fresh,
                    Eax("zero"), Eax("loadProgram"), Run("loadProgram"), Fresh >>
           o == Offsets(is)
<1>0. /\ {"eax", "ebx", "ecx", "edx"} \subseteq RegisterNames /\ "loadProgram" \in Codes
      /\ {rB, rC, 6} \subseteq Int
  BY PlatterAssumption DEF Register, RegisterNames, Codes, ReturnCode
<1> DEFINE a == << load("ebx", rB), load("ecx", rC), cmp("ebx"), SkipsTheJump, codeOf("ecx"), jmpEax >>
           r == Returned("loadProgram")
           t == return
<1>a. /\ r \in Seq(Instruction) /\ Len(r) = 2
      /\ r[1] = clear("eax") /\ r[2] = lowByte("eax", ReturnCode["loadProgram"])
      /\ t \in Seq(Instruction) /\ Len(t) = 2 /\ t[1] = popEdx /\ t[2] = callEdx
  BY <1>0, ReturnFacts
<1>b. /\ a \in Seq(Instruction) /\ Len(a) = 6 /\ a[1] = load("ebx", rB) /\ a[2] = load("ecx", rC)
      /\ a[3] = cmp("ebx") /\ a[4] = SkipsTheJump /\ a[5] = codeOf("ecx") /\ a[6] = jmpEax
  BY <1>0, InstructionTypes DEF SkipsTheJump
<1>d. is = a \o r \o t
  BY DEF codeForLoadProgram
<1> HIDE DEF r, t, a, is
<1>c. /\ a \o r \o t \in Seq(Instruction) /\ Len(a \o r \o t) = Len(a) + Len(r) + Len(t)
      /\ \A i \in 1 .. Len(a) : (a \o r \o t)[i] = a[i]
      /\ \A i \in 1 .. Len(r) : (a \o r \o t)[Len(a) + i] = r[i]
      /\ \A i \in 1 .. Len(t) : (a \o r \o t)[Len(a) + Len(r) + i] = t[i]
  <2>1. r \in Seq(Instruction) /\ t \in Seq(Instruction) /\ a \in Seq(Instruction)
    BY <1>a, <1>b
  <2> QED BY ONLY <2>1, InstructionParts
<1>1. is \in Seq(Instruction)
  BY <1>c, <1>d
<1>2. /\ Len(is) = 10 /\ is[1] = load("ebx", rB) /\ is[2] = load("ecx", rC)
      /\ is[3] = cmp("ebx") /\ is[4] = SkipsTheJump /\ is[5] = codeOf("ecx")
      /\ is[6] = jmpEax /\ is[7] = clear("eax")
      /\ is[8] = lowByte("eax", ReturnCode["loadProgram"]) /\ is[9] = popEdx
      /\ is[10] = callEdx
  <2>0. Len(a) = 6 /\ Len(r) = 2 /\ Len(t) = 2
    BY <1>a, <1>b
  <2>1. Len(is) = 6 + 2 + 2 /\ \A i \in 1 .. 6 : is[i] = a[i]
    BY ONLY <1>c, <1>d, <2>0
  <2>2. \A i \in 1 .. 2 : is[6 + i] = r[i] /\ is[6 + 2 + i] = t[i]
    BY ONLY <1>c, <1>d, <2>0
  <2>3. is[7] = r[1] /\ is[8] = r[2] /\ is[9] = t[1] /\ is[10] = t[2]
    BY <2>2
  <2> QED BY <1>a, <1>b, <2>1, <2>3
<1> HIDE DEF is, o
<1>3. /\ is[1].length = 3 /\ is[2].length = 3 /\ is[3].length = 3
      /\ is[4].length = 2 /\ is[5].length = 4 /\ is[6].length = 2
      /\ is[7].length = 2 /\ is[8].length = 2 /\ is[9].length = 1
      /\ is[10].length = 2
      /\ is[1].name = "load" /\ is[2].name = "load" /\ is[3].name = "cmp"
      /\ is[4].name = "jnz" /\ is[5].name = "codeOf" /\ is[6].name = "jmpEax"
      /\ is[7].name = "clear" /\ is[8].name = "lowByte" /\ is[9].name = "popEdx"
      /\ is[10].name = "callEdx"
      /\ is[4].n = 6
  BY <1>2 DEF callEdx, clear, cmp, codeOf, jmpEax, jnz, load, lowByte, popEdx, Ins,
     SkipsTheJump
<1>4. /\ o[1] = 3 /\ o[2] = 6 /\ o[3] = 9 /\ o[4] = 11 /\ o[5] = 15 /\ o[6] = 17
      /\ o[7] = 19 /\ o[8] = 21 /\ o[9] = 22 /\ o[10] = 24
  <2>1. o[0] = 0 /\ \A n \in 1 .. 10 : o[n] = o[n - 1] + is[n].length
    BY <1>1, <1>2, OffsetFacts DEF o
  <2> QED BY <1>3, <2>1
<1>5. \A n \in 1 .. 10 : Fits(is[n], ks[n], ks[n + 1])
  <2>1. /\ Fits(is[1], ks[1], ks[2]) /\ Fits(is[2], ks[2], ks[3])
        /\ Fits(is[3], ks[3], ks[4]) /\ Fits(is[4], ks[4], ks[5])
        /\ Fits(is[5], ks[5], ks[6]) /\ Fits(is[6], ks[6], ks[7])
        /\ Fits(is[7], ks[7], ks[8]) /\ Fits(is[8], ks[8], ks[9])
        /\ Fits(is[9], ks[9], ks[10]) /\ Fits(is[10], ks[10], ks[11])
    BY <1>0, <1>2, CallsFit, InstructionsFit DEF SkipsTheJump
  <2> QED BY <2>1
<1>6. Lands(is, ks, 4)
  <2>1. /\ o[6] = o[4] + is[4].n /\ 7 \in 4 + 1 .. Len(is) + 1
    BY <1>2, <1>3, <1>4
  <2>2. Weaker(ks[7], ks[4])
    BY FreshWeaker
  <2> QED BY <2>1, <2>2 DEF Lands, o
<1>7. \A n \in 1 .. 10 : Lands(is, ks, n)
  <2>1. \A n \in (1 .. 10) \ {4} : Lands(is, ks, n)
    BY <1>3 DEF Lands
  <2> QED BY <1>6, <2>1
<1>8. TypedCode(is, ks)
  <2>1. \A n \in 1 .. 10 : is[n].length # 0
    BY <1>3
  <2> QED BY <1>1, <1>2, <1>5, <1>7, <2>1 DEF TypedCode
<1>9. PlatterCode(is, ks)
  BY <1>2, <1>3, <1>4 DEF PlatterCode, StubSize, o, Run, Kind, Codes, ReturnCode
<1> QED BY <1>8, <1>9 DEF is, Generated

\* The code after the last platter.
LEMMA OOBStubCode ==
  \E ks : GeneratedLast(codeForOOBStub, ks)
<1> DEFINE is == codeForOOBStub
           ks == << Fresh, Eax("zero"), Eax("halt"), Halting, Eax("halt"),
                    Run("halt"), Fresh >>
           o == Offsets(is)
<1>0. {"eax", "ebx", "ecx", "edx"} \subseteq RegisterNames /\ "halt" \in Codes /\ 2 \in Int
  BY PlatterAssumption DEF Register, RegisterNames, Word, WordSize, OperatorUnit, Codes, ReturnCode
<1> DEFINE between == << clear("ebx"), lowByte("ebx", 2) >>
<1>a. between \in Seq(Instruction) /\ Len(between) = 2
      /\ between[1] = clear("ebx") /\ between[2] = lowByte("ebx", 2)
  BY <1>0, InstructionTypes
<1>b. is = Returned("halt") \o between \o return
  BY DEF codeForOOBStub
<1> HIDE DEF between
<1>c. CallingLayout(is, "halt", between)
  <2>1. "halt" \in Codes /\ between \in Seq(Instruction)
    BY <1>0, <1>a
  <2> QED BY <1>b, <2>1, CallingParts
<1> HIDE DEF is
<1>1. is \in Seq(Instruction)
  BY <1>c DEF CallingLayout
<1>2. /\ Len(is) = 6 /\ is[1] = clear("eax")
      /\ is[2] = lowByte("eax", ReturnCode["halt"]) /\ is[3] = clear("ebx")
      /\ is[4] = lowByte("ebx", 2) /\ is[5] = popEdx /\ is[6] = callEdx
  <2>1. /\ Len(is) = 2 + 4
        /\ is[1] = clear("eax") /\ is[2] = lowByte("eax", ReturnCode["halt"])
        /\ \A i \in 1 .. 2 : is[2 + i] = between[i]
        /\ is[2 + 3] = popEdx /\ is[2 + 4] = callEdx
    BY <1>a, <1>c DEF CallingLayout
  <2> QED BY <1>a, <2>1
<1> HIDE DEF is, o
<1>3. /\ is[1].length = 2 /\ is[2].length = 2 /\ is[3].length = 2
      /\ is[4].length = 2 /\ is[5].length = 1 /\ is[6].length = 2
      /\ is[1].name = "clear" /\ is[2].name = "lowByte" /\ is[3].name = "clear"
      /\ is[4].name = "lowByte" /\ is[5].name = "popEdx" /\ is[6].name = "callEdx"
  BY <1>2 DEF callEdx, clear, lowByte, popEdx, Ins
<1>4. /\ o[1] = 2 /\ o[2] = 4 /\ o[3] = 6 /\ o[4] = 8 /\ o[5] = 9 /\ o[6] = 11
  <2>1. o[0] = 0 /\ \A n \in 1 .. 6 : o[n] = o[n - 1] + is[n].length
    BY <1>1, <1>2, OffsetFacts DEF o
  <2> QED BY <1>3, <2>1
<1>5. \A n \in 1 .. 6 : Fits(is[n], ks[n], ks[n + 1])
  <2>1. /\ Fits(is[1], ks[1], ks[2]) /\ Fits(is[2], ks[2], ks[3])
        /\ Fits(is[3], ks[3], ks[4]) /\ Fits(is[4], ks[4], ks[5])
        /\ Fits(is[5], ks[5], ks[6]) /\ Fits(is[6], ks[6], ks[7])
    BY <1>0, <1>2, CallsFit, InstructionsFit
  <2> QED BY <2>1
<1>7. \A n \in 1 .. 6 : Lands(is, ks, n)
  BY <1>3 DEF Lands
<1>8. TypedCode(is, ks)
  <2>1. \A n \in 1 .. 6 : is[n].length # 0
    BY <1>3
  <2> QED BY <1>1, <1>2, <1>5, <1>7, <2>1 DEF TypedCode
<1>9. OOBCode(is, ks)
  BY <1>2, <1>3 DEF OOBCode, Run, Kind, Codes, ReturnCode
<1> QED BY <1>8, <1>9 DEF is, GeneratedLast

\* The stub that replaces the code of an amended platter.
LEMMA RecompileStubCode ==
  \E ks : GeneratedStub(recompileStub, ks)
<1> DEFINE is == recompileStub
           ks == << Fresh, Eax("zero"), Eax("recompile"), Run("recompile"),
                    Fresh >>
           o == Offsets(is)
<1>0. "recompile" \in Codes
  BY DEF Codes, ReturnCode
<1> DEFINE r == Returned("recompile")
           t == return
<1>a. /\ r \in Seq(Instruction) /\ Len(r) = 2
      /\ r[1] = clear("eax") /\ r[2] = lowByte("eax", ReturnCode["recompile"])
      /\ t \in Seq(Instruction) /\ Len(t) = 2 /\ t[1] = popEdx /\ t[2] = callEdx
  BY <1>0, ReturnFacts
<1> HIDE DEF r, t
<1>c. /\ r \o t \in Seq(Instruction) /\ Len(r \o t) = 2 + 2
      /\ \A i \in 1 .. 2 + 2 : (r \o t)[i] = IF i <= 2 THEN r[i] ELSE t[i - 2]
  <2>1. r \in Seq(Instruction) /\ t \in Seq(Instruction)
    BY <1>a
  <2>2. /\ r \o t \in Seq(Instruction) /\ Len(r \o t) = Len(r) + Len(t)
        /\ \A i \in 1 .. Len(r) + Len(t) : (r \o t)[i] = IF i <= Len(r) THEN r[i] ELSE t[i - Len(r)]
    BY <2>1, ConcatProperties
  <2> QED BY <1>a, <2>2
<1>1. is \in Seq(Instruction)
  BY <1>c DEF recompileStub, r, t
<1>2. /\ Len(is) = 4 /\ is[1] = clear("eax")
      /\ is[2] = lowByte("eax", ReturnCode["recompile"]) /\ is[3] = popEdx
      /\ is[4] = callEdx
  <2>1. is = r \o t
    BY DEF recompileStub, r, t
  <2> HIDE DEF is
  <2> QED BY <1>a, <1>c, <2>1
<1> HIDE DEF is, o
<1>3. /\ is[1].length = 2 /\ is[2].length = 2 /\ is[3].length = 1
      /\ is[4].length = 2
      /\ is[1].name = "clear" /\ is[2].name = "lowByte" /\ is[3].name = "popEdx"
      /\ is[4].name = "callEdx"
  BY <1>2 DEF callEdx, clear, lowByte, popEdx, Ins
<1>4. /\ o[1] = 2 /\ o[2] = 4 /\ o[3] = 5 /\ o[4] = 7
  <2>1. o[0] = 0 /\ \A n \in 1 .. 4 : o[n] = o[n - 1] + is[n].length
    BY <1>1, <1>2, OffsetFacts DEF o
  <2> QED BY <1>3, <2>1
<1>5. \A n \in 1 .. 4 : Fits(is[n], ks[n], ks[n + 1])
  <2>1. /\ Fits(is[1], ks[1], ks[2]) /\ Fits(is[2], ks[2], ks[3])
        /\ Fits(is[3], ks[3], ks[4]) /\ Fits(is[4], ks[4], ks[5])
    BY <1>0, <1>2, CallsFit, InstructionsFit
  <2> QED BY <2>1
<1>7. \A n \in 1 .. 4 : Lands(is, ks, n)
  BY <1>3 DEF Lands
<1>8. TypedCode(is, ks)
  <2>1. \A n \in 1 .. 4 : is[n].length # 0
    BY <1>3
  <2> QED BY <1>1, <1>2, <1>5, <1>7, <2>1 DEF TypedCode
<1>9. StubCode(is, ks)
  BY <1>2, <1>3, <1>4 DEF StubCode, StubSize, Run, Kind, Codes, ReturnCode, o
<1> QED BY <1>8, <1>9 DEF is, GeneratedStub

\* An operator number has four bits.
LEMMA OperatorNumber ==
  ASSUME NEW w \in Word
  PROVE  decode(w).op \in 0 .. 15
<1>1. OperatorUnit \in Nat \ {0} /\ w \in Nat /\ w < 16 * OperatorUnit
  BY WordSizes DEF Word, WordSize
<1>2. \A v \in Nat, u \in Nat \ {0} : v < 16 * u => v \div u \in 0 .. 15
  OBVIOUS
<1>3. w \div OperatorUnit \in 0 .. 15
  BY <1>1, <1>2
<1> QED BY <1>3 DEF decode, OrthographyFormat, GeneralFormat, orthography

\* The code of every platter.
THEOREM EveryPlatterGenerated ==
  ASSUME NEW w \in Word
  PROVE  \E ks : Generated(codeFor(w), ks)
<1> DEFINE p == decode(w)
           op == p.op
<1>1. op \in 0 .. 15 /\ p.A \in Register /\ p.B \in Register /\ p.C \in Register /\ p.value \in Word
  BY OperatorNumber, DecodeType
<1> USE DEF conditionalMove, arrayIndex, arrayAmendment, addition, multiplication, division,
            notAnd, halt, allocation, abandonment, output, input, loadProgram, orthography,
            invalidOperators
<1>2. CASE op = conditionalMove
  BY <1>1, <1>2, ConditionalMoveCode DEF codeFor
<1>3. CASE op = arrayIndex
  BY <1>1, <1>3, ArrayIndexCode DEF codeFor
<1>4. CASE op = arrayAmendment
  BY <1>1, <1>4, ArrayAmendmentCode DEF codeFor
<1>5. CASE op = addition
  BY <1>1, <1>5, AdditionCode DEF codeFor
<1>6. CASE op = multiplication
  BY <1>1, <1>6, MultiplicationCode DEF codeFor
<1>7. CASE op = division
  BY <1>1, <1>7, DivisionCode DEF codeFor
<1>8. CASE op = notAnd
  BY <1>1, <1>8, NotAndCode DEF codeFor
<1>9. CASE op = halt
  BY <1>1, <1>9, HaltCode DEF codeFor
<1>10. CASE op = allocation
  BY <1>1, <1>10, AllocationCode DEF codeFor
<1>11. CASE op \in {abandonment, output}
  <2>1. "abandonment" \in Codes \ {"recompile"} /\ "output" \in Codes \ {"recompile"}
    BY DEF Codes, ReturnCode
  <2>2. codeFor(w) = Calls("abandonment", p.C) \/ codeFor(w) = Calls("output", p.C)
    BY <1>11 DEF codeFor
  <2> QED BY <1>1, <2>1, <2>2, CallCode
<1>12. CASE op = input
  BY <1>1, <1>12, InputCode DEF codeFor
<1>13. CASE op = loadProgram
  BY <1>1, <1>13, LoadProgramCode DEF codeFor
<1>14. CASE op = orthography
  BY <1>1, <1>14, OrthographyCode DEF codeFor
<1>15. CASE op \in invalidOperators
  BY <1>1, <1>15, InvalidOperatorCode DEF codeFor
<1> QED BY <1>1, <1>2, <1>3, <1>4, <1>5, <1>6, <1>7, <1>8, <1>9, <1>10, <1>11, <1>12,
           <1>13, <1>14, <1>15

-----------------------------------------------------------------------------
\* The invariant

size == arrays[0].size

KindsOf(is) == CHOOSE ks : Generated(is, ks)
OOBKinds    == CHOOSE ks : GeneratedLast(codeForOOBStub, ks)
stubKinds   == CHOOSE ks : GeneratedStub(recompileStub, ks)

\* The code that begins at each entry of the jump table.
CodeIn(n, platters, j) == IF j = n THEN codeForOOBStub ELSE codeFor(platters[j])
CodeAt(j)  == CodeIn(size, compiled, j)
KindsAt(j) == IF j = size THEN OOBKinds ELSE KindsOf(CodeAt(j))
Extent(is) == Offsets(is)[Len(is)]

\* A jump table and a block are laid out for n platters.
TableFor(n, platters, table) ==
  /\ table \in [0 .. n -> Nat]
  /\ table[0] = 0
  /\ \A j \in 0 .. n - 1 : table[j + 1] = table[j] + Extent(CodeIn(n, platters, j))

BlockFor(n, platters, table, block) ==
  /\ block \in Seq(Byte)
  /\ Len(block) = table[n] + Extent(codeForOOBStub)
  /\ \A j \in 0 .. n : \A i \in 1 .. Len(CodeIn(n, platters, j)) :
       \A k \in 1 .. CodeIn(n, platters, j)[i].length :
         block[table[j] + Offsets(CodeIn(n, platters, j))[i - 1] + k]
           = << CodeIn(n, platters, j)[i], k >>

ArraysTyped ==
  /\ DOMAIN arrays \subseteq Word /\ 0 \in DOMAIN arrays
  /\ \A i \in DOMAIN arrays :
       /\ DOMAIN arrays[i] = {"size", "dirty", "nativeCode", "platters"}
       /\ arrays[i].size \in Nat
       /\ arrays[i].platters \in [0 .. arrays[i].size - 1 -> Word]
       /\ arrays[i].dirty \in BOOLEAN

CpuTyped ==
  /\ DOMAIN cpu = {"eip", "eax", "ebx", "ecx", "edx", "zero"}
  /\ cpu.eax \in Nat /\ cpu.ebx \in Word /\ cpu.ecx \in Nat

Types ==
  /\ registers \in [Register -> Word]
  /\ ArraysTyped
  /\ CpuTyped
  /\ eaxValue \in Word

Layout ==
  /\ compiled \in [0 .. size - 1 -> Word]
  /\ TableFor(size, compiled, jumpTable)
  /\ memory \in Seq(Byte)
  /\ Len(memory) = jumpTable[size] + Extent(codeForOOBStub)

\* Code is in memory, byte by byte.
ByteAt(base, is, n, k) == memory[base + Offsets(is)[n - 1] + k] = << is[n], k >>

Written(base, is) ==
  \A n \in 1 .. Len(is) : \A k \in 1 .. is[n].length : ByteAt(base, is, n, k)

WrittenAfter(base, is, first) ==
  \A n \in 1 .. Len(is) : \A k \in 1 .. is[n].length :
    Offsets(is)[n - 1] + k > first => ByteAt(base, is, n, k)

Whole(j)       == Written(jumpTable[j], CodeAt(j))
Stubbed(j)     == Written(jumpTable[j], recompileStub)
HalfWritten(j) == \A k \in 1 .. 3 : memory[jumpTable[j] + k] = stubBytes[k]

Tails ==
  /\ \A j \in 0 .. size - 1 : WrittenAfter(jumpTable[j], CodeAt(j), StubSize)
  /\ Whole(size)

HeadsBut(S) == \A j \in (0 .. size - 1) \ S : Whole(j) \/ Stubbed(j)

\* What a kind says of the CPU c and the stack s; where there are arrays, and
\* where platters begin.
Entries == { jumpTable[j] : j \in 0 .. size - 1 }

HoldsIn(k, c, s, indices, entries) ==
  /\ k.eax = "word" => c.eax \in Word
  /\ k.eax = "zero" => c.eax = 0
  /\ k.eax = "array" => c.eax \in indices
  /\ k.eax = "entry" => c.eax \in entries
  /\ k.eax \in Codes => c.eax = ReturnCode[k.eax]
  /\ k.ebx = "zero" => c.ebx = 0
  /\ k.edx = "zero" => c.edx = 0
  /\ k.edx = "word" => c.edx \in Word
  /\ k.edx = "run" => c.edx = RunAddress /\ s = << >>
  /\ k.edx # "run" => s = << RunAddress >>

Holds(k) == HoldsIn(k, cpu, stack, DOMAIN arrays, Entries)

At(base, is, ks, n) ==
  /\ n \in 1 .. Len(is)
  /\ cpu.eip = base + Offsets(is)[n - 1]
  /\ Holds(ks[n])

Heads(k) ==
  IF k.eax = "half"
  THEN \E j \in 0 .. size - 1 :
         cpu.eax = jumpTable[j] /\ HalfWritten(j) /\ HeadsBut({j})
  ELSE HeadsBut({})

\* With one platter in the array there is none to resume before.
NoWayBack(j, n) ==
  size = 1 => Whole(0) \/ j = 1 \/ CodeAt(j)[n].name \in {"stubTail", "jmp"}

Inside(j, n) ==
  /\ At(jumpTable[j], CodeAt(j), KindsAt(j), n)
  /\ Whole(j) \/ (j # size /\ Offsets(CodeAt(j))[n - 1] >= StubSize)
  /\ Heads(KindsAt(j)[n])
  /\ NoWayBack(j, n)

InPlatter == \E j \in 0 .. size : \E n \in 1 .. Len(CodeAt(j)) : Inside(j, n)

InStub ==
  /\ HeadsBut({})
  /\ size > 1
  /\ \E j \in 0 .. size - 1 : \E n \in 1 .. Len(recompileStub) :
       /\ Stubbed(j)
       /\ At(jumpTable[j], recompileStub, stubKinds, n)

\* run() may go on at a.
Resumes(a) ==
  /\ size = 1 => Whole(0)
  /\ \E j \in 0 .. size : \E n \in 1 .. Len(CodeAt(j)) :
       /\ a = jumpTable[j] + Offsets(CodeAt(j))[n - 1]
       /\ KindsAt(j)[n] \in {Fresh, Holding}
       /\ n = 1 \/ (j # size /\ Offsets(CodeAt(j))[n - 1] >= StubSize)

Returns(c, a) ==
  /\ a \in 0 .. Len(memory)
  /\ c \in {ReturnCode[x] : x \in {"allocation", "input", "output"}} => Resumes(a)
  /\ c = ReturnCode["recompile"] =>
       /\ size > 1
       /\ \E j \in 0 .. size - 1 : a = jumpTable[j] + StubSize
  /\ HeadsBut({})

Native ==
  \/ InPlatter
  \/ InStub
  \/ cpu.eip = RunAddress /\ stack = << stack[1] >> /\ Returns(cpu.eax, stack[1])

Control ==
  /\ mode \in {"entering", "native", "serving", "undefined", "trapped"}
  /\ mode = "native" => Native
  /\ mode \in {"entering", "serving"} => cpu.eip = RunAddress
  /\ mode \in {"undefined", "trapped"} => cpu.eip \in RunAddress .. Len(memory)
  /\ resumeAt \in 0 .. Len(memory)
  /\ mode = "serving" => stack = << >> /\ Returns(returned.eax, resumeAt)
  /\ mode = "entering" => stack = << >> /\ HeadsBut({}) /\ Resumes(resumeAt)

NativeInvariant ==
  /\ Types /\ Layout /\ Tails /\ Control
  /\ AtPlatterStart => platterStart = View

-----------------------------------------------------------------------------
\* The code, whatever the platters.
LEMMA StaticFacts ==
  /\ \A w \in Word : Generated(codeFor(w), KindsOf(codeFor(w)))
  /\ GeneratedLast(codeForOOBStub, OOBKinds)
  /\ GeneratedStub(recompileStub, stubKinds)
<1>1. ASSUME NEW w \in Word PROVE Generated(codeFor(w), KindsOf(codeFor(w)))
  BY EveryPlatterGenerated DEF KindsOf
<1> QED BY <1>1, OOBStubCode, RecompileStubCode DEF OOBKinds, stubKinds

\* The bytes of typed code.
LEMMA TypedBytes ==
  ASSUME NEW is, NEW ks, TypedCode(is, ks)
  PROVE  /\ bytes(is) \in Seq(Byte)
         /\ Len(bytes(is)) = Extent(is) /\ Extent(is) \in Nat
         /\ \A n \in 1 .. Len(is) : \A k \in 1 .. is[n].length :
              bytes(is)[Offsets(is)[n - 1] + k] = << is[n], k >>
<1>1. is \in Seq(Instruction) /\ Len(is) # 0
  BY DEF TypedCode
<1>2. Len(is) \in 0 .. Len(is) /\ Offsets(is)[Len(is)] \in Nat
  BY <1>1, OffsetFacts
<1> QED BY <1>1, <1>2, BytesFacts DEF Extent

\* The jump table of jumpTableFor.
LEMMA TableFacts ==
  ASSUME NEW n \in Nat, NEW platters \in [0 .. n - 1 -> Word]
  PROVE  TableFor(n, platters, jumpTableFor(n, platters))
<1> DEFINE long(i) == Len(platterBytes[platters[i - 1]])
           d == [i \in 1 .. n |-> long(i)]
           t == jumpTableFor(n, platters)
<1>1. \A j \in 0 .. n - 1 : /\ Extent(CodeIn(n, platters, j)) = long(j + 1)
                            /\ Extent(CodeIn(n, platters, j)) \in Nat
  <2> TAKE j \in 0 .. n - 1
  <2>1. platters[j] \in Word /\ j # n /\ (j + 1) - 1 = j
    OBVIOUS
  <2>2. TypedCode(codeFor(platters[j]), KindsOf(codeFor(platters[j])))
    BY <2>1, StaticFacts DEF Generated
  <2>3. Len(bytes(codeFor(platters[j]))) = Extent(codeFor(platters[j]))
        /\ Extent(codeFor(platters[j])) \in Nat
    BY <2>2, TypedBytes
  <2>4. platterBytes[platters[j]] = bytes(codeFor(platters[j]))
    BY <2>1 DEF platterBytes
  <2> QED BY <2>1, <2>3, <2>4 DEF CodeIn
<1>2. \A i \in 1 .. n : long(i) \in Nat
  <2> TAKE i \in 1 .. n
  <2>1. i - 1 \in 0 .. n - 1 /\ (i - 1) + 1 = i
    OBVIOUS
  <2>2. long((i - 1) + 1) \in Nat
    <3> HIDE DEF long
    <3> QED BY <1>1, <2>1
  <2> QED BY <2>1, <2>2
<1>3. d \in [1 .. n -> Nat] /\ \A i \in 1 .. n : d[i] = long(i)
  BY <1>2
<1> HIDE DEF d
<1>4. PICK f \in [0 .. n -> Nat] : f = [i \in 0 .. n |-> IF i = 0 THEN 0 ELSE f[i - 1] + d[i]]
  BY ONLY <1>3, n \in Nat, PartialSums
<1>5. f = [i \in 0 .. n |-> IF i = 0 THEN 0 ELSE f[i - 1] + long(i)]
  <2> HIDE DEF long
  <2>1. \A i \in 0 .. n : i # 0 => i \in 1 .. n
    OBVIOUS
  <2>2. \A i \in 0 .. n : f[i] = IF i = 0 THEN 0 ELSE f[i - 1] + long(i)
    BY <1>3, <1>4, <2>1
  <2> QED BY <1>4, <2>2
<1>6. t = [i \in 0 .. n |-> IF i = 0 THEN 0 ELSE t[i - 1] + long(i)]
  BY <1>5 DEF jumpTableFor
<1> HIDE DEF t, long
<1>7. t[0] = 0 /\ \A i \in 1 .. n : t[i] = t[i - 1] + long(i)
  <2>1. 0 \in 0 .. n /\ \A i \in 1 .. n : i \in 0 .. n /\ i # 0
    OBVIOUS
  <2>2. \A i \in 0 .. n : t[i] = IF i = 0 THEN 0 ELSE t[i - 1] + long(i)
    BY <1>6
  <2> QED BY <2>1, <2>2
<1> DEFINE T == { i \in 0 .. n : t[i] \in Nat }
<1>8. 0 \in T
  BY <1>7
<1>9. ASSUME NEW i \in 1 .. n, i - 1 \in T PROVE i \in T
  <2>1. t[i - 1] \in Nat /\ i \in 0 .. n /\ long(i) \in Nat
    BY <1>2, <1>9
  <2>2. t[i] \in Nat
    BY <1>7, <2>1
  <2> QED BY <2>1, <2>2
<1> HIDE DEF T
<1>10. 0 .. n \subseteq T
  BY <1>8, <1>9, IntervalInduction
<1>11. t \in [0 .. n -> Nat]
  <2>1. \A i \in 0 .. n : t[i] \in Nat
    BY <1>10 DEF T
  <2> QED BY <1>6, <2>1
<1>12. ASSUME NEW j \in 0 .. n - 1
       PROVE  t[j + 1] = t[j] + Extent(CodeIn(n, platters, j))
  <2>1. j + 1 \in 1 .. n /\ (j + 1) - 1 = j
    OBVIOUS
  <2>2. t[j + 1] = t[(j + 1) - 1] + long(j + 1)
    BY <1>7, <2>1
  <2> QED BY <1>1, <2>1, <2>2
<1> QED BY <1>7, <1>11, <1>12 DEF TableFor, t

\* The bytes of blockFor, wherever they are.
LEMMA BlockFacts ==
  ASSUME NEW n \in Nat, NEW platters \in [0 .. n - 1 -> Word]
  PROVE  BlockFor(n, platters, jumpTableFor(n, platters), blockFor(n, platters))
<1> DEFINE t == jumpTableFor(n, platters)
           of == [i \in 1 .. n |-> platterBytes[platters[i - 1]]]
           seqs == of \o << OOBStubBytes >>
           codeOfPart(i) == CodeIn(n, platters, i - 1)
<1>1. TableFor(n, platters, t)
  BY TableFacts
<1> HIDE DEF t
<1>2. ASSUME NEW j \in 0 .. n PROVE \E ks : TypedCode(CodeIn(n, platters, j), ks)
  <2>1. CASE j = n
    BY <2>1, StaticFacts DEF CodeIn, GeneratedLast
  <2>2. CASE j # n
    <3>1. platters[j] \in Word
      BY <2>2
    <3> QED BY <2>2, <3>1, StaticFacts DEF CodeIn, Generated
  <2> QED BY <2>1, <2>2
<1>3. ASSUME NEW i \in 1 .. n
      PROVE  of[i] = bytes(codeOfPart(i)) /\ of[i] \in Seq(Byte)
  <2>1. i - 1 \in 0 .. n - 1 /\ i - 1 \in 0 .. n /\ i - 1 # n /\ platters[i - 1] \in Word
    OBVIOUS
  <2>2. of[i] = bytes(codeOfPart(i))
    BY <2>1 DEF platterBytes, CodeIn
  <2>3. PICK ks : TypedCode(codeOfPart(i), ks)
    BY <1>2, <2>1
  <2> QED BY <2>2, <2>3, TypedBytes
<1>4. OOBStubBytes = bytes(codeOfPart(n + 1)) /\ OOBStubBytes \in Seq(Byte)
  <2>1. PICK ks : TypedCode(CodeIn(n, platters, n), ks)
    BY <1>2
  <2>2. OOBStubBytes = bytes(codeOfPart(n + 1))
    BY DEF OOBStubBytes, CodeIn
  <2>3. bytes(CodeIn(n, platters, n)) \in Seq(Byte)
    BY <2>1, TypedBytes
  <2> QED BY <2>2, <2>3 DEF CodeIn, OOBStubBytes
<1>5. /\ seqs \in Seq(Seq(Byte)) /\ Len(seqs) = n + 1
      /\ \A i \in 1 .. n : seqs[i] = of[i]
      /\ seqs[n + 1] = OOBStubBytes
  <2> DEFINE S == Seq(Byte)
             x == OOBStubBytes
  <2>1. of \in [1 .. n -> S]
    BY <1>3
  <2>2. x \in S
    BY <1>4
  <2> HIDE DEF of, S, x
  <2>3. of \in Seq(S) /\ Len(of) = n
    BY <2>1
  <2>4. /\ of \o << x >> \in Seq(S) /\ Len(of \o << x >>) = Len(of) + 1
        /\ \A i \in 1 .. Len(of) : (of \o << x >>)[i] = of[i]
        /\ (of \o << x >>)[Len(of) + 1] = x
    BY <2>2, <2>3, OneMore
  <2> QED BY <2>3, <2>4 DEF S, x
<1> HIDE DEF of, seqs
<1>6. \A i \in 1 .. n + 1 : seqs[i] = bytes(codeOfPart(i))
  <2> HIDE DEF codeOfPart
  <2>1. \A i \in 1 .. n : seqs[i] = bytes(codeOfPart(i))
    BY <1>3, <1>5
  <2>2. seqs[n + 1] = bytes(codeOfPart(n + 1))
    BY <1>4, <1>5
  <2>3. \A i \in 1 .. n + 1 : i \in 1 .. n \/ i = n + 1
    OBVIOUS
  <2> QED BY <2>1, <2>2, <2>3
<1> DEFINE e == [i \in 0 .. n + 1 |-> IF i = n + 1 THEN t[n] + Extent(codeForOOBStub) ELSE t[i]]
<1>7. Extent(codeForOOBStub) \in Nat
  <2>1. PICK ks : TypedCode(codeForOOBStub, ks)
    BY StaticFacts DEF GeneratedLast
  <2> QED BY <2>1, TypedBytes
<1>8. /\ e \in [0 .. n + 1 -> Nat]
      /\ \A i \in 0 .. n : e[i] = t[i]
      /\ e[n + 1] = t[n] + Extent(codeForOOBStub)
  BY <1>1, <1>7 DEF TableFor
<1> HIDE DEF e
<1>9. \A i \in 1 .. n + 1 : Len(seqs[i]) = Extent(codeOfPart(i))
  <2> TAKE i \in 1 .. n + 1
  <2>1. i - 1 \in 0 .. n
    OBVIOUS
  <2>2. PICK ks : TypedCode(codeOfPart(i), ks)
    BY <1>2, <2>1
  <2> QED BY <1>6, <2>2, TypedBytes
<1>10. Parts(Byte, seqs, e)
  <2>1. ASSUME NEW i \in 1 .. n + 1 PROVE e[i] = e[i - 1] + Len(seqs[i])
    <3>1. CASE i = n + 1
      <4>1. codeOfPart(i) = codeForOOBStub
        BY <3>1 DEF CodeIn
      <4> QED BY <1>8, <1>9, <3>1, <4>1
    <3>2. CASE i # n + 1
      <4>1. i - 1 \in 0 .. n - 1 /\ i \in 0 .. n /\ i - 1 \in 0 .. n /\ (i - 1) + 1 = i
        BY <3>2
      <4>2. t[(i - 1) + 1] = t[i - 1] + Extent(CodeIn(n, platters, i - 1))
        BY <1>1, <4>1 DEF TableFor
      <4> QED BY <1>8, <1>9, <4>1, <4>2
    <3> QED BY <3>1, <3>2
  <2>2. e[0] = 0
    BY <1>1, <1>8 DEF TableFor
  <2> QED BY <1>5, <1>8, <2>1, <2>2 DEF Parts
<1> DEFINE b == FlattenSeq(seqs)
<1>11. /\ b \in Seq(Byte)
       /\ Len(b) = e[Len(seqs)]
       /\ \A i \in 1 .. Len(seqs) : \A k \in 1 .. Len(seqs[i]) :
            b[e[i - 1] + k] = seqs[i][k]
  BY <1>10, FlattenFacts
<1>12. blockFor(n, platters) = b
  BY DEF blockFor, seqs, of
<1> HIDE DEF b
<1>13. ASSUME NEW j \in 0 .. n, NEW i \in 1 .. Len(CodeIn(n, platters, j)),
              NEW k \in 1 .. CodeIn(n, platters, j)[i].length
       PROVE  b[t[j] + Offsets(CodeIn(n, platters, j))[i - 1] + k]
                = << CodeIn(n, platters, j)[i], k >>
  <2> DEFINE is == CodeIn(n, platters, j)
             o == Offsets(is)
  <2>1. PICK ks : TypedCode(is, ks)
    BY <1>2
  <2>2. /\ Len(bytes(is)) = Extent(is) /\ Extent(is) \in Nat
        /\ bytes(is)[o[i - 1] + k] = << is[i], k >>
    BY <2>1, TypedBytes
  <2>3. o[i - 1] + k \in 1 .. Extent(is) /\ o[i - 1] \in Nat /\ k \in Nat
    <3>1. /\ is \in Seq(Instruction) /\ Len(is) \in Nat
          /\ o \in [0 .. Len(is) -> Nat]
          /\ o[i] = o[i - 1] + is[i].length /\ is[i].length \in Nat
      <4>1. is \in Seq(Instruction)
        BY <2>1 DEF TypedCode
      <4> QED BY <4>1, OffsetFacts
    <3>2. i \in 0 .. Len(is) /\ Len(is) \in i .. Len(is) /\ i - 1 \in 0 .. Len(is)
      BY <3>1
    <3>3. o[i] <= Extent(is)
      BY <3>1, <3>2, OffsetsGrow DEF Extent
    <3>4. o[i - 1] \in Nat /\ o[i] \in Nat
      BY <3>1, <3>2
    <3>5. \A p \in Nat, q \in Nat, l \in Nat, N \in Nat : \A x \in 1 .. l :
            q = p + l /\ q <= N => p + x \in 1 .. N /\ x \in Nat
      OBVIOUS
    <3> QED BY <2>2, <3>1, <3>3, <3>4, <3>5
  <2>4. j + 1 \in 1 .. Len(seqs) /\ (j + 1) - 1 = j /\ j + 1 \in 1 .. n + 1
    BY <1>5
  <2>5. codeOfPart(j + 1) = is
    BY <2>4
  <2>6. seqs[j + 1] = bytes(is) /\ Len(seqs[j + 1]) = Extent(is)
    BY <1>6, <1>9, <2>4, <2>5
  <2>7. e[j] = t[j] /\ t[j] \in Nat
    BY <1>1, <1>8 DEF TableFor
  <2> HIDE DEF is, o
  <2>8. b[t[j] + (o[i - 1] + k)] = seqs[j + 1][o[i - 1] + k]
    <3> DEFINE x == o[i - 1] + k
               y == j + 1
    <3>1. y \in 1 .. Len(seqs) /\ y - 1 = j /\ x \in 1 .. Len(seqs[y])
      BY <2>3, <2>4, <2>6
    <3> HIDE DEF x, y
    <3>2. b[e[y - 1] + x] = seqs[y][x]
      BY <1>11, <3>1
    <3>3. b[t[j] + x] = seqs[y][x]
      BY <2>7, <3>1, <3>2
    <3> QED BY <3>3 DEF x, y
  <2>9. t[j] + (o[i - 1] + k) = t[j] + o[i - 1] + k
    BY <2>3, <2>7
  <2> QED BY <2>2, <2>6, <2>8, <2>9 DEF is, o
<1>14. Len(b) = t[n] + Extent(codeForOOBStub)
  BY <1>5, <1>8, <1>11
<1> QED BY <1>11, <1>12, <1>13, <1>14 DEF BlockFor, t

\* The lengths of typed code, and what comes before each instruction.
LEMMA TypedOffsets ==
  ASSUME NEW is, NEW ks, TypedCode(is, ks)
  PROVE  /\ Len(is) \in Nat \ {0} /\ Extent(is) \in Nat
         /\ Offsets(is) \in [0 .. Len(is) -> Nat] /\ Offsets(is)[0] = 0
         /\ \A n \in 1 .. Len(is) : /\ is[n] \in Instruction /\ is[n].length \in Nat \ {0}
                                    /\ Offsets(is)[n] = Offsets(is)[n - 1] + is[n].length
         /\ \A m \in 0 .. Len(is), n \in 0 .. Len(is) :
              m <= n => Offsets(is)[m] <= Offsets(is)[n]
<1>1. is \in Seq(Instruction) /\ Len(is) # 0 /\ \A n \in 1 .. Len(is) : is[n].length # 0
  BY DEF TypedCode
<1>2. /\ Len(is) \in Nat
      /\ \A n \in 1 .. Len(is) : is[n] \in Instruction /\ is[n].length \in Nat
      /\ Offsets(is) \in [0 .. Len(is) -> Nat]
      /\ Offsets(is)[0] = 0
      /\ \A n \in 1 .. Len(is) : Offsets(is)[n] = Offsets(is)[n - 1] + is[n].length
  BY <1>1, OffsetFacts
<1>3. ASSUME NEW m \in 0 .. Len(is), NEW n \in 0 .. Len(is), m <= n
      PROVE  Offsets(is)[m] <= Offsets(is)[n]
  <2>1. n \in m .. Len(is)
    BY <1>2, <1>3
  <2> QED BY <1>1, <2>1, OffsetsGrow
<1>4. Extent(is) \in Nat
  BY <1>2 DEF Extent
<1> QED BY <1>1, <1>2, <1>3, <1>4

\* The code of array 0: typed, in the block, one platter's after the other's.
CodeKnown ==
  /\ size \in Nat
  /\ \A j \in 0 .. size : /\ TypedCode(CodeAt(j), KindsAt(j))
                          /\ jumpTable[j] \in Nat
                          /\ jumpTable[j] + Extent(CodeAt(j)) <= Len(memory)
  /\ \A j \in 0 .. size - 1 : PlatterCode(CodeAt(j), KindsAt(j))
  /\ CodeAt(size) = codeForOOBStub /\ OOBCode(CodeAt(size), KindsAt(size))
  /\ \A j \in 0 .. size - 1 : jumpTable[j + 1] = jumpTable[j] + Extent(CodeAt(j))
  /\ \A i \in 0 .. size, j \in 0 .. size : i <= j => jumpTable[i] <= jumpTable[j]
  /\ jumpTable[0] = 0 /\ Len(memory) \in Nat

\* Where the codes of the platters are in the block.
LEMMA CodeFacts == Types /\ Layout => CodeKnown
<1> SUFFICES ASSUME Types, Layout PROVE CodeKnown
  OBVIOUS
<1>1. size \in Nat
  BY DEF Types, ArraysTyped, size
<1>2. /\ compiled \in [0 .. size - 1 -> Word] /\ TableFor(size, compiled, jumpTable)
      /\ memory \in Seq(Byte) /\ Len(memory) = jumpTable[size] + Extent(codeForOOBStub)
  BY DEF Layout
<1>3. CodeAt(size) = codeForOOBStub /\ TypedCode(CodeAt(size), KindsAt(size))
      /\ OOBCode(CodeAt(size), KindsAt(size))
  BY StaticFacts DEF CodeAt, CodeIn, KindsAt, GeneratedLast
<1>4. \A j \in 0 .. size - 1 :
        TypedCode(CodeAt(j), KindsAt(j)) /\ PlatterCode(CodeAt(j), KindsAt(j))
  <2> TAKE j \in 0 .. size - 1
  <2>1. j # size /\ compiled[j] \in Word
    BY <1>1, <1>2
  <2>2. CodeAt(j) = codeFor(compiled[j]) /\ KindsAt(j) = KindsOf(CodeAt(j))
    BY <2>1 DEF CodeAt, CodeIn, KindsAt
  <2> QED BY <2>1, <2>2, StaticFacts DEF Generated
<1>5. \A j \in 0 .. size : TypedCode(CodeAt(j), KindsAt(j)) /\ Extent(CodeAt(j)) \in Nat
  <2>1. \A j \in 0 .. size : TypedCode(CodeAt(j), KindsAt(j))
    BY <1>1, <1>3, <1>4
  <2> QED BY <2>1, TypedOffsets
<1> DEFINE t == jumpTable
           d == [j \in 1 .. size |-> Extent(CodeAt(j - 1))]
<1>6. t \in [0 .. size -> Nat] /\ t[0] = 0
      /\ \A j \in 0 .. size - 1 : t[j + 1] = t[j] + Extent(CodeAt(j))
  BY <1>2 DEF TableFor, CodeAt
<1>7. d \in [1 .. size -> Nat] /\ \A j \in 1 .. size : t[j] = t[j - 1] + d[j]
  <2>1. ASSUME NEW j \in 1 .. size
        PROVE  Extent(CodeAt(j - 1)) \in Nat /\ t[j] = t[j - 1] + Extent(CodeAt(j - 1))
    <3>1. j - 1 \in 0 .. size /\ j - 1 \in 0 .. size - 1 /\ (j - 1) + 1 = j
      BY <1>1
    <3>2. t[(j - 1) + 1] = t[j - 1] + Extent(CodeAt(j - 1))
      BY <1>6, <3>1
    <3> QED BY <1>5, <3>1, <3>2
  <2> QED BY <2>1
<1> HIDE DEF d, t
<1>8. ASSUME NEW i \in 0 .. size, NEW j \in 0 .. size, i <= j PROVE t[i] <= t[j]
  <2>1. j \in i .. size
    BY <1>1, <1>8
  <2> HIDE DEF size
  <2>2. t \in [0 .. size -> Nat] /\ d \in [1 .. size -> Nat] /\ \A k \in 1 .. size : t[k] = t[k - 1] + d[k]
    BY <1>6, <1>7
  <2> QED BY ONLY <1>1, <2>1, <2>2, i \in 0 .. size, SumsGrow
<1>9. ASSUME NEW j \in 0 .. size PROVE t[j] \in Nat /\ t[j] + Extent(CodeAt(j)) <= Len(memory)
  <2>1. t[j] \in Nat /\ t[size] \in Nat /\ size \in 0 .. size
    BY <1>1, <1>6
  <2>2. Extent(codeForOOBStub) \in Nat
    BY <1>3, <1>5, <2>1
  <2>3. CASE j = size
    BY <1>2, <1>3, <2>1, <2>2, <2>3 DEF t
  <2>4. CASE j # size
    <3>1. j \in 0 .. size - 1 /\ j + 1 \in 0 .. size /\ j + 1 <= size
      BY <1>1, <2>4
    <3>2. t[j + 1] = t[j] + Extent(CodeAt(j)) /\ t[j + 1] <= t[size]
      BY <1>6, <1>8, <2>1, <3>1
    <3>3. t[j + 1] \in Nat /\ Len(memory) = t[size] + Extent(codeForOOBStub)
      BY <1>2, <1>6, <3>1 DEF t
    <3> QED BY <2>1, <2>2, <3>2, <3>3
  <2> QED BY <2>3, <2>4
<1>10. Len(memory) \in Nat
  BY <1>2, LenProperties
<1> QED BY <1>1, <1>3, <1>4, <1>5, <1>6, <1>8, <1>9, <1>10 DEF CodeKnown, t

-----------------------------------------------------------------------------
\* The processor is before instruction n of code that begins at base, and the
\* bytes of the instruction are there.
Here(base, is, ks, n) ==
  /\ TypedCode(is, ks)
  /\ At(base, is, ks, n)
  /\ base \in Nat /\ base + Extent(is) <= Len(memory)
  /\ \A k \in 1 .. is[n].length : ByteAt(base, is, n, k)

\* What the processor fetches where some code is.
LEMMA HereFacts ==
  ASSUME memory \in Seq(Byte), NEW base, NEW is, NEW ks, NEW n, Here(base, is, ks, n)
  PROVE  /\ Executable(cpu.eip)
         /\ Fetched = is[n] /\ Following = base + Offsets(is)[n]
         /\ n \in 1 .. Len(is) /\ Len(is) \in Nat /\ is[n] \in Instruction
         /\ Fits(is[n], ks[n], ks[n + 1]) /\ Lands(is, ks, n) /\ Holds(ks[n])
<1> DEFINE o == Offsets(is)
           ins == is[n]
           bs == bytesOf(ins)
           a == cpu.eip
<1>1. /\ n \in 1 .. Len(is) /\ Len(is) \in Nat /\ base \in Nat
      /\ a = base + o[n - 1] /\ Holds(ks[n]) /\ TypedCode(is, ks)
      /\ Fits(ins, ks[n], ks[n + 1]) /\ Lands(is, ks, n)
      /\ base + Extent(is) <= Len(memory)
  <2>1. TypedCode(is, ks) /\ n \in 1 .. Len(is)
    BY DEF Here, At
  <2>2. Len(is) \in Nat
    BY <2>1, TypedOffsets
  <2>3. Fits(ins, ks[n], ks[n + 1]) /\ Lands(is, ks, n)
    BY <2>1 DEF TypedCode
  <2> QED BY <2>1, <2>2, <2>3 DEF Here, At
<1>2. /\ ins \in Instruction /\ ins.length \in Nat \ {0}
      /\ o[n] = o[n - 1] + ins.length /\ o[n] <= Extent(is)
      /\ o[n - 1] \in Nat /\ o[n] \in Nat /\ Extent(is) \in Nat
  <2>1. n \in 0 .. Len(is) /\ Len(is) \in 0 .. Len(is) /\ n - 1 \in 0 .. Len(is) /\ n <= Len(is)
    BY <1>1
  <2> QED BY <1>1, <2>1, TypedOffsets DEF Extent
<1>3. \A k \in 1 .. ins.length : memory[a + k] = << ins, k >>
  <2>1. \A k \in 1 .. ins.length : memory[base + o[n - 1] + k] = << ins, k >>
    BY DEF Here, ByteAt
  <2> QED BY <1>1, <2>1
<1>4. /\ bs \in Seq(Byte) /\ Len(bs) = ins.length
      /\ \A k \in 1 .. ins.length : bs[k] = << ins, k >>
  BY <1>2, BytesOfFacts
<1> HIDE DEF ins, bs, a, o
<1>5. Len(memory) \in Nat /\ a \in Nat /\ a + Len(bs) <= Len(memory)
  <2>1. Len(memory) \in Nat
    BY LenProperties
  <2>2. a + ins.length <= Len(memory) /\ a \in Nat
    <3>1. /\ a = base + o[n - 1] /\ base \in Nat /\ o[n - 1] \in Nat /\ o[n] = o[n - 1] + ins.length
          /\ ins.length \in Nat /\ o[n] <= Extent(is) /\ base + Extent(is) <= Len(memory)
          /\ Extent(is) \in Nat
      BY <1>1, <1>2
    <3> QED BY ONLY <3>1, <2>1
  <2> QED BY <1>4, <2>1, <2>2
<1>6. memory[a + 1] = << ins, 1 >> /\ Fetched = ins
  <2>1. 1 \in 1 .. ins.length
    BY <1>2
  <2>2. memory[a + 1] = << ins, 1 >>
    BY <1>3, <2>1
  <2> QED BY <2>2 DEF Fetched, a
<1>7. SubSeq(memory, a + 1, a + Len(bs)) = bs
  <2> DEFINE m == a + 1
             l == a + Len(bs)
             s == SubSeq(memory, m, l)
  <2>1. Len(bs) \in Nat \ {0}
    BY <1>2, <1>4
  <2>2. /\ m \in 1 .. Len(memory) + 1 /\ l \in 0 .. Len(memory) /\ l - m + 1 = Len(bs) /\ m <= l
    BY ONLY <1>5, <2>1
  <2>3. /\ s \in Seq(Byte) /\ Len(s) = IF m <= l THEN l - m + 1 ELSE 0
        /\ \A i \in 1 .. l - m + 1 : s[i] = memory[m + i - 1]
    <3> HIDE DEF m, l
    <3> QED BY <2>2, PartOf
  <2> HIDE DEF s
  <2>4. Len(s) = Len(bs)
    BY <2>2, <2>3
  <2>5. \A i \in 1 .. Len(bs) : s[i] = bs[i]
    <3> TAKE i \in 1 .. Len(bs)
    <3>1. i \in 1 .. l - m + 1 /\ m + i - 1 = a + i
      <4>1. i \in Int
        OBVIOUS
      <4>2. m + i - 1 = a + i
        BY ONLY <4>1, <1>5
      <4> QED BY <2>2, <4>2
    <3>2. s[i] = memory[a + i]
      BY <2>3, <3>1
    <3> QED BY <1>3, <1>4, <3>2
  <2>6. s = bs
    BY <1>4, <2>3, <2>4, <2>5, SeqEqual
  <2> QED BY <2>6 DEF s
<1>8. Executable(a)
  <2>1. memory[a + 1][1] = ins
    BY <1>6
  <2>2. a \in 0 .. Len(memory) - 1
    BY <1>2, <1>4, <1>5
  <2> QED BY <1>5, <1>7, <2>1, <2>2 DEF Executable, Spells, bs
<1>9. Following = base + o[n]
  <2>1. Following = a + ins.length
    BY <1>6 DEF Following, a
  <2>2. /\ a = base + o[n - 1] /\ base \in Nat /\ o[n - 1] \in Nat /\ o[n] = o[n - 1] + ins.length
        /\ ins.length \in Nat
    BY <1>1, <1>2
  <2> QED BY ONLY <2>1, <2>2
<1> QED BY <1>1, <1>2, <1>6, <1>8, <1>9 DEF ins, a, o

-----------------------------------------------------------------------------
\* What an instruction does to what is known

\* The processor fetches ins where k holds.
Fetches(ins, k, l) ==
  /\ Fetched = ins /\ ins \in Instruction
  /\ Fits(ins, k, l) /\ Holds(k)

\* It goes on to address, where l holds, with the code as it was.
Moves(address, l) ==
  /\ UNCHANGED << mode, code, frame >>
  /\ DOMAIN arrays' = DOMAIN arrays /\ size' = size
  /\ Types'
  /\ cpu'.eip = address
  /\ HoldsIn(l, cpu', stack', DOMAIN arrays, Entries)
  /\ l.eax # "half"

Stops ==
  /\ mode' \in {"undefined", "trapped"}
  /\ UNCHANGED << registers, arrays, code, cpu, stack, frame >>

\* The return codes differ.
LEMMA CodesFacts ==
  /\ Codes = {"halt", "allocation", "abandonment", "output", "input", "loadProgram",
              "recompile"}
  /\ \A c \in Codes : ReturnCode[c] \in 1 .. 7
  /\ \A c \in Codes, d \in Codes : ReturnCode[c] = ReturnCode[d] => c = d
BY DEF Codes, ReturnCode

\* A weaker kind holds where a stronger one does.
LEMMA Weakens ==
  ASSUME NEW l, NEW k, NEW c, NEW s, NEW A, NEW E,
         Weaker(l, k), HoldsIn(k, c, s, A, E)
  PROVE  HoldsIn(l, c, s, A, E)
<1>1. "any" \notin Codes
  BY CodesFacts
<1> QED BY <1>1 DEF Weaker, HoldsIn

\* What a kind says depends on three of the registers.
LEMMA HoldsAfter ==
  ASSUME NEW k, NEW c, NEW d, NEW s, NEW A, NEW E,
         HoldsIn(k, c, s, A, E), d.eax = c.eax, d.ebx = c.ebx, d.edx = c.edx
  PROVE  HoldsIn(k, d, s, A, E)
BY DEF HoldsIn

\* What is in eax, ebx or edx gives way to what is known of the new value.
LEMMA HoldsNewEax ==
  ASSUME NEW k, NEW a, NEW c, NEW d, NEW s, NEW A, NEW E,
         HoldsIn(k, c, s, A, E), d.ebx = c.ebx, d.edx = c.edx,
         a = "word" => d.eax \in Word,
         a = "zero" => d.eax = 0,
         a = "array" => d.eax \in A,
         a = "entry" => d.eax \in E,
         a \in Codes => d.eax = ReturnCode[a]
  PROVE  HoldsIn(Kind(a, k.ebx, k.edx), d, s, A, E)
BY DEF HoldsIn, Kind

\* A new ebx.
LEMMA HoldsNewEbx ==
  ASSUME NEW k, NEW b \in {"any", "zero"}, NEW c, NEW d, NEW s, NEW A, NEW E,
         HoldsIn(k, c, s, A, E), d.eax = c.eax, d.edx = c.edx, b = "zero" => d.ebx = 0
  PROVE  HoldsIn(Kind(k.eax, b, k.edx), d, s, A, E)
BY DEF HoldsIn, Kind

\* A new edx, but not the return address.
LEMMA HoldsNewEdx ==
  ASSUME NEW k, NEW e \in {"any", "zero", "word"}, NEW c, NEW d, NEW s, NEW A, NEW E,
         HoldsIn(k, c, s, A, E), k.edx # "run", d.eax = c.eax, d.ebx = c.ebx,
         e = "zero" => d.edx = 0, e = "word" => d.edx \in Word
  PROVE  HoldsIn(Kind(k.eax, k.ebx, e), d, s, A, E)
BY DEF HoldsIn, Kind

\* No weaker kind is half a stub.
LEMMA WeakerFacts ==
  ASSUME NEW l, NEW a, NEW b, NEW d, Weaker(l, Kind(a, b, d)), a # "half"
  PROVE  l.eax # "half"
BY DEF Weaker, Kind

GeneralRegister == {"eax", "ebx", "ecx", "edx", "zero"}

\* One register is set.
LEMMA SetFacts ==
  ASSUME CpuTyped, NEW reg \in GeneralRegister, NEW v, NEW address,
         Goes([cpu EXCEPT ![reg] = v], address)
  PROVE  /\ cpu'.eip = address /\ cpu'[reg] = v
         /\ \A r \in GeneralRegister : r # reg => cpu'[r] = cpu[r]
         /\ DOMAIN cpu' = DOMAIN cpu
         /\ UNCHANGED << mode, frame >>
<1>1. DOMAIN cpu = {"eip", "eax", "ebx", "ecx", "edx", "zero"}
  BY DEF CpuTyped
<1>2. reg \in DOMAIN cpu /\ reg # "eip" /\ "eip" \in DOMAIN cpu
  BY <1>1 DEF GeneralRegister
<1>3. cpu' = [[cpu EXCEPT ![reg] = v] EXCEPT !.eip = address] /\ UNCHANGED << mode, frame >>
  BY DEF Goes
<1>4. ASSUME NEW r \in GeneralRegister, r # reg PROVE cpu'[r] = cpu[r]
  <2>1. r \in DOMAIN cpu /\ r # "eip"
    BY <1>1 DEF GeneralRegister
  <2> QED BY <1>3, <1>4, <2>1
<1> QED BY <1>2, <1>3, <1>4

\* It only goes on.
LEMMA GoFacts ==
  ASSUME CpuTyped, NEW address, Goes(cpu, address)
  PROVE  /\ cpu'.eip = address
         /\ \A r \in GeneralRegister : cpu'[r] = cpu[r]
         /\ DOMAIN cpu' = DOMAIN cpu
         /\ UNCHANGED << mode, frame >>
<1>1. DOMAIN cpu = {"eip", "eax", "ebx", "ecx", "edx", "zero"}
  BY DEF CpuTyped
<1>2. cpu' = [cpu EXCEPT !.eip = address] /\ UNCHANGED << mode, frame >>
  BY DEF Goes
<1>3. ASSUME NEW r \in GeneralRegister PROVE cpu'[r] = cpu[r]
  <2>1. r \in DOMAIN cpu /\ r # "eip"
    BY <1>1 DEF GeneralRegister
  <2> QED BY <1>2, <2>1
<1> QED BY <1>1, <1>2, <1>3

\* What every move has in common.
LEMMA TypedMove ==
  ASSUME Types, UNCHANGED << arrays, code, mode, frame >>,
         registers' \in [Register -> Word], CpuTyped',
         NEW address, cpu'.eip = address,
         NEW l, HoldsIn(l, cpu', stack', DOMAIN arrays, Entries), l.eax # "half"
  PROVE  Moves(address, l)
<1>1. ArraysTyped'
  BY DEF Types, ArraysTyped
<1>2. eaxValue' \in Word
  BY DEF Types, frame
<1>3. Types'
  BY <1>1, <1>2 DEF Types
<1>4. size' = size
  BY DEF size
<1> QED BY <1>3, <1>4 DEF Moves

\* A register is set to a value of its type.
LEMMA SetsMoves ==
  ASSUME Types, NEW reg \in GeneralRegister, NEW v, Sets(reg, v),
         reg \in {"eax", "ecx"} => v \in Nat, reg = "ebx" => v \in Word,
         NEW l, HoldsIn(l, cpu', stack', DOMAIN arrays, Entries), l.eax # "half"
  PROVE  Moves(Following, l)
<1>1. CpuTyped /\ registers \in [Register -> Word]
  BY DEF Types
<1>2. Goes([cpu EXCEPT ![reg] = v], Following) /\ UNCHANGED << registers, arrays, code, stack >>
  BY DEF Sets
<1>3. /\ cpu'.eip = Following /\ cpu'[reg] = v
      /\ \A r \in GeneralRegister : r # reg => cpu'[r] = cpu[r]
      /\ DOMAIN cpu' = DOMAIN cpu
      /\ UNCHANGED << mode, frame >>
  BY <1>1, <1>2, SetFacts
<1>4. CpuTyped'
  <2>1. {"eax", "ebx", "ecx"} \subseteq GeneralRegister
    BY DEF GeneralRegister
  <2>2. cpu.eax \in Nat /\ cpu.ebx \in Word /\ cpu.ecx \in Nat
    BY <1>1 DEF CpuTyped
  <2>3. cpu'.eax \in Nat
    BY <1>3, <2>1, <2>2
  <2>4. cpu'.ebx \in Word
    BY <1>3, <2>1, <2>2
  <2>5. cpu'.ecx \in Nat
    BY <1>3, <2>1, <2>2
  <2> QED BY <1>1, <1>3, <2>3, <2>4, <2>5 DEF CpuTyped
<1> QED BY <1>1, <1>2, <1>3, <1>4, TypedMove

\* eax, ebx, ecx or edx is set: what is known is what is known of the value.
LEMMA SetsEax ==
  ASSUME Types, NEW v \in Nat, Sets("eax", v), NEW k, NEW l, NEW a,
         Holds(k), Weaker(l, Kind(a, k.ebx, k.edx)), a # "half",
         a = "word" => v \in Word,
         a = "zero" => v = 0,
         a = "array" => v \in DOMAIN arrays,
         a = "entry" => v \in Entries,
         a \in Codes => v = ReturnCode[a]
  PROVE  Moves(Following, l)
<1>1. /\ cpu'.eax = v /\ cpu'.ebx = cpu.ebx /\ cpu'.edx = cpu.edx /\ stack' = stack
  BY SetFacts DEF Types, Sets, GeneralRegister
<1>2. HoldsIn(Kind(a, k.ebx, k.edx), cpu', stack', DOMAIN arrays, Entries)
  <2>1. HoldsIn(k, cpu, stack, DOMAIN arrays, Entries)
    BY DEF Holds
  <2> QED BY ONLY <1>1, <2>1, HoldsNewEax, a = "word" => v \in Word, a = "zero" => v = 0,
             a = "array" => v \in DOMAIN arrays, a = "entry" => v \in Entries,
             a \in Codes => v = ReturnCode[a]
<1>3. HoldsIn(l, cpu', stack', DOMAIN arrays, Entries)
  BY <1>2, Weakens
<1>4. l.eax # "half"
  BY WeakerFacts
<1> QED BY <1>3, <1>4, SetsMoves DEF GeneralRegister

\* The same for ebx.
LEMMA SetsEbx ==
  ASSUME Types, NEW v \in Word, Sets("ebx", v), NEW k, NEW l, NEW b \in {"any", "zero"},
         Holds(k), Weaker(l, Kind(k.eax, b, k.edx)), k.eax # "half", b = "zero" => v = 0
  PROVE  Moves(Following, l)
<1>1. /\ cpu'.ebx = v /\ cpu'.eax = cpu.eax /\ cpu'.edx = cpu.edx /\ stack' = stack
  BY SetFacts DEF Types, Sets, GeneralRegister
<1>2. HoldsIn(Kind(k.eax, b, k.edx), cpu', stack', DOMAIN arrays, Entries)
  <2>1. HoldsIn(k, cpu, stack, DOMAIN arrays, Entries)
    BY DEF Holds
  <2> QED BY <1>1, <2>1, HoldsNewEbx
<1>3. HoldsIn(l, cpu', stack', DOMAIN arrays, Entries)
  BY <1>2, Weakens
<1>4. l.eax # "half"
  BY WeakerFacts
<1> QED BY <1>3, <1>4, SetsMoves DEF GeneralRegister

\* The same for edx.
LEMMA SetsEdx ==
  ASSUME Types, NEW v, Sets("edx", v), NEW k, NEW l, NEW e \in {"any", "zero", "word"},
         Holds(k), Weaker(l, Kind(k.eax, k.ebx, e)), k.eax # "half", k.edx # "run",
         e = "zero" => v = 0, e = "word" => v \in Word
  PROVE  Moves(Following, l)
<1>1. /\ cpu'.edx = v /\ cpu'.eax = cpu.eax /\ cpu'.ebx = cpu.ebx /\ stack' = stack
  BY SetFacts DEF Types, Sets, GeneralRegister
<1>2. HoldsIn(Kind(k.eax, k.ebx, e), cpu', stack', DOMAIN arrays, Entries)
  <2>1. HoldsIn(k, cpu, stack, DOMAIN arrays, Entries)
    BY DEF Holds
  <2> QED BY <1>1, <2>1, HoldsNewEdx
<1>3. HoldsIn(l, cpu', stack', DOMAIN arrays, Entries)
  BY <1>2, Weakens
<1>4. l.eax # "half"
  BY WeakerFacts
<1> QED BY <1>3, <1>4, SetsMoves DEF GeneralRegister

\* ecx and the zero flag are in no kind.
LEMMA SetsOther ==
  ASSUME Types, NEW reg \in {"ecx", "zero"}, NEW v, reg = "ecx" => v \in Nat,
         Sets(reg, v), NEW k, NEW l, Holds(k), Weaker(l, k), k.eax # "half"
  PROVE  Moves(Following, l)
<1>1. cpu'.edx = cpu.edx /\ cpu'.eax = cpu.eax /\ cpu'.ebx = cpu.ebx /\ stack' = stack
  BY SetFacts DEF Types, Sets, GeneralRegister
<1>2. HoldsIn(k, cpu', stack', DOMAIN arrays, Entries)
  <2>1. HoldsIn(k, cpu, stack, DOMAIN arrays, Entries)
    BY DEF Holds
  <2> QED BY <1>1, <2>1, HoldsAfter
<1>3. HoldsIn(l, cpu', stack', DOMAIN arrays, Entries)
  BY <1>2, Weakens
<1>4. l.eax # "half"
  BY DEF Weaker
<1> QED BY <1>3, <1>4, SetsMoves DEF GeneralRegister

-----------------------------------------------------------------------------
\* One instruction after the other

\* Words are numbers, and small numbers are words.
LEMMA WordFacts ==
  /\ WordSize \in Nat /\ 16 <= WordSize
  /\ \A w \in Word : w \in Nat /\ w \in Int
  /\ {0, 1, 2} \subseteq Word
<1>1. OperatorUnit \in Nat /\ 1 <= OperatorUnit
  BY WordSizes
<1>2. WordSize \in Nat /\ 16 <= WordSize
  BY <1>1 DEF WordSize
<1> QED BY <1>2 DEF Word

\* What an instruction finds in a machine register.
LEMMA OperandFacts ==
  ASSUME Types, NEW ins, Fetched = ins, ins.m \in Register
  PROVE  Operand \in Word /\ registers[ins.m] \in Word
BY DEF Types, Operand

\* mov reg, [ebp + 4 * m].
LEMMA LoadMoves ==
  ASSUME Types, NEW ins, NEW k, NEW l, Fetches(ins, k, l), Load
  PROVE  Moves(Following, l)
<1>1. Fetched = ins /\ ins.name = "load" /\ Holds(k) /\ k.eax # "half"
  BY DEF Fetches, Load, Executes, Fits
<1>2. /\ ins.m \in Register
      /\ \/ ins.reg = "ecx" /\ Weaker(l, k)
         \/ /\ k.edx # "run"
            /\ \/ ins.reg = "eax" /\ Weaker(l, Kind("word", k.ebx, k.edx))
               \/ ins.reg = "ebx" /\ Weaker(l, Kind(k.eax, "any", k.edx))
               \/ ins.reg = "edx" /\ Weaker(l, Kind(k.eax, k.ebx, "word"))
  BY <1>1 DEF Fetches, Fits
<1> DEFINE v == registers[ins.m]
<1>3. v \in Word /\ v \in Nat /\ Sets(ins.reg, v)
  BY <1>1, <1>2, OperandFacts, WordFacts DEF Load
<1> HIDE DEF v
<1>4. CASE ins.reg = "ecx" /\ Weaker(l, k)
  BY <1>1, <1>3, <1>4, SetsOther
<1>5. CASE ins.reg = "eax" /\ Weaker(l, Kind("word", k.ebx, k.edx))
  BY <1>1, <1>3, <1>5, SetsEax, CodesFacts
<1>6. CASE ins.reg = "ebx" /\ Weaker(l, Kind(k.eax, "any", k.edx))
  BY <1>1, <1>3, <1>6, SetsEbx
<1>7. CASE k.edx # "run" /\ ins.reg = "edx" /\ Weaker(l, Kind(k.eax, k.ebx, "word"))
  BY <1>1, <1>3, <1>7, SetsEdx
<1> QED BY <1>2, <1>4, <1>5, <1>6, <1>7

\* Nothing known is disturbed by going on.
LEMMA GoesMoves ==
  ASSUME Types, NEW address, Goes(cpu, address), UNCHANGED << arrays, code, stack >>,
         registers' \in [Register -> Word],
         NEW k, NEW l, Holds(k), Weaker(l, k), k.eax # "half"
  PROVE  Moves(address, l)
<1>1. /\ cpu'.eip = address /\ DOMAIN cpu' = DOMAIN cpu
      /\ cpu'.eax = cpu.eax /\ cpu'.ebx = cpu.ebx /\ cpu'.ecx = cpu.ecx /\ cpu'.edx = cpu.edx
      /\ UNCHANGED << mode, frame >>
  BY GoFacts DEF Types, GeneralRegister
<1>2. CpuTyped'
  BY <1>1 DEF Types, CpuTyped
<1>3. HoldsIn(k, cpu', stack', DOMAIN arrays, Entries)
  <2>1. HoldsIn(k, cpu, stack, DOMAIN arrays, Entries)
    BY DEF Holds
  <2> QED BY <1>1, <2>1, HoldsAfter
<1>4. HoldsIn(l, cpu', stack', DOMAIN arrays, Entries) /\ l.eax # "half"
  BY <1>3, Weakens DEF Weaker
<1> QED BY <1>1, <1>2, <1>4, TypedMove

\* mov [ebp + 4 * m], eax, and the same with a constant.
LEMMA StoreMoves ==
  ASSUME Types, NEW ins, NEW k, NEW l, Fetches(ins, k, l), Store \/ StoreValue
  PROVE  Moves(Following, l)
<1>1. Fetched = ins /\ Holds(k) /\ k.eax # "half" /\ ins.m \in Register /\ Weaker(l, k)
      /\ \E v \in Word : Stores(ins.m, v)
  <2>1. CASE Store
    <3>1. Fetched = ins /\ ins.name = "store" /\ Holds(k) /\ Fits(ins, k, l)
      BY <2>1 DEF Fetches, Store, Executes
    <3>2. ins.m \in Register /\ k.eax = "word" /\ Weaker(l, k)
      BY <3>1 DEF Fits
    <3>3. cpu.eax \in Word
      BY <3>1, <3>2 DEF Holds, HoldsIn
    <3> QED BY <2>1, <3>1, <3>2, <3>3 DEF Store
  <2>2. CASE StoreValue
    <3>1. Fetched = ins /\ ins.name = "storeValue" /\ Holds(k) /\ Fits(ins, k, l)
      BY <2>2 DEF Fetches, StoreValue, Executes
    <3>2. ins.m \in Register /\ ins.n \in Word /\ Weaker(l, k) /\ k.eax # "half"
      BY <3>1 DEF Fits
    <3> QED BY <2>2, <3>1, <3>2 DEF StoreValue
  <2> QED BY <2>1, <2>2
<1>2. /\ registers' \in [Register -> Word] /\ Goes(cpu, Following)
      /\ UNCHANGED << arrays, code, stack >>
  BY <1>1 DEF Stores, Types
<1> QED BY <1>1, <1>2, GoesMoves

\* add, and, not: eax stays a word.
LEMMA AddMoves ==
  ASSUME Types, NEW ins, NEW k, NEW l, Fetches(ins, k, l), Add \/ Conjoin \/ Complement
  PROVE  Moves(Following, l)
<1>1. Fetched = ins /\ ins.name \in {"add", "and", "not"} /\ Holds(k) /\ k.eax # "half"
  BY DEF Fetches, Add, Conjoin, Complement, Executes, Fits
<1>2. ins.m \in Register /\ k.eax = "word" /\ Weaker(l, k)
  BY <1>1 DEF Fetches, Fits
<1>3. cpu.eax \in Word /\ Operand \in Word
  BY <1>1, <1>2, OperandFacts DEF Holds, HoldsIn
<1>4. \E v \in Word : Sets("eax", v)
  <2>1. CASE Add
    <3>1. cpu.eax + Operand \in Int
      BY <1>3, WordFacts
    <3>2. WordSum(cpu.eax, Operand) \in Word
      BY <3>1, ModWord DEF WordSum
    <3> QED BY <2>1, <3>2 DEF Add
  <2>2. CASE Conjoin
    BY <2>2 DEF Conjoin
  <2>3. CASE Complement
    <3>1. AllOnes - cpu.eax \in Word
      BY <1>3, WordFacts DEF Word, AllOnes
    <3> QED BY <2>3, <3>1 DEF Complement
  <2> QED BY <2>1, <2>2, <2>3
<1>5. Weaker(l, Kind("word", k.ebx, k.edx))
  BY <1>2 DEF Weaker, Kind
<1>6. PICK v \in Word : Sets("eax", v)
  BY <1>4
<1>7. v \in Nat
  BY WordFacts
<1> QED BY <1>1, <1>5, <1>6, <1>7, SetsEax, CodesFacts

\* mul and div set eax and edx.
LEMMA SetsBoth ==
  ASSUME Types, NEW v \in Word, NEW u,
         Goes([cpu EXCEPT !.eax = v, !.edx = u], Following),
         UNCHANGED << registers, arrays, code, stack >>,
         NEW k, NEW l, Holds(k), k.eax = "word", k.edx # "run",
         Weaker(l, Kind("word", k.ebx, "any"))
  PROVE  Moves(Following, l)
<1>1. DOMAIN cpu = {"eip", "eax", "ebx", "ecx", "edx", "zero"}
  BY DEF Types, CpuTyped
<1>2. /\ cpu' = [[cpu EXCEPT !.eax = v, !.edx = u] EXCEPT !.eip = Following]
      /\ UNCHANGED << mode, frame >>
  BY DEF Goes
<1>3. /\ cpu'.eip = Following /\ cpu'.eax = v /\ cpu'.ebx = cpu.ebx /\ cpu'.ecx = cpu.ecx
      /\ DOMAIN cpu' = DOMAIN cpu
  BY <1>1, <1>2
<1>4. CpuTyped' /\ registers' \in [Register -> Word]
  BY <1>3, WordFacts DEF Types, CpuTyped
<1>5. HoldsIn(Kind("word", k.ebx, "any"), cpu', stack', DOMAIN arrays, Entries)
  BY <1>3, CodesFacts DEF Holds, HoldsIn, Kind
<1>6. HoldsIn(l, cpu', stack', DOMAIN arrays, Entries) /\ l.eax # "half"
  BY <1>5, Weakens, WeakerFacts
<1> QED BY <1>2, <1>3, <1>4, <1>6, TypedMove

\* mul sets edx too.
LEMMA MulMoves ==
  ASSUME Types, NEW ins, NEW k, NEW l, Fetches(ins, k, l), Mul
  PROVE  Moves(Following, l)
<1>1. Fetched = ins /\ ins.name = "mul" /\ Holds(k)
  BY DEF Fetches, Mul, Executes
<1>2. ins.m \in Register /\ k.eax = "word" /\ k.edx # "run" /\ Weaker(l, Kind(k.eax, k.ebx, "any"))
  BY <1>1 DEF Fetches, Fits
<1>3. cpu.eax \in Word /\ Operand \in Word
  BY <1>1, <1>2, OperandFacts DEF Holds, HoldsIn
<1>4. (cpu.eax * Operand) % WordSize \in Word
  <2>1. \A x, y \in Int : x * y \in Int
    OBVIOUS
  <2>2. cpu.eax * Operand \in Int
    BY <1>3, <2>1, WordFacts
  <2> QED BY <2>2, ModWord
<1>5. Goes([cpu EXCEPT !.eax = (cpu.eax * Operand) % WordSize,
                       !.edx = (cpu.eax * Operand) \div WordSize], Following)
      /\ UNCHANGED << registers, arrays, code, stack >>
  BY DEF Mul
<1> QED BY <1>1, <1>2, <1>4, <1>5, SetsBoth

\* div, after edx has been cleared.
LEMMA DivMoves ==
  ASSUME Types, NEW ins, NEW k, NEW l, Fetches(ins, k, l), Div
  PROVE  Moves(Following, l)
<1>1. Fetched = ins /\ ins.name = "div" /\ Holds(k)
  BY DEF Fetches, Div, Executes
<1>2. ins.m \in Register /\ k.eax = "word" /\ k.edx = "zero" /\ Weaker(l, Kind(k.eax, k.ebx, "any"))
  BY <1>1 DEF Fetches, Fits
<1>3. cpu.eax \in Word /\ Operand \in Word /\ cpu.edx = 0
  BY <1>1, <1>2, OperandFacts DEF Holds, HoldsIn
<1>4. Dividend \div Operand \in Word
  <2>1. Dividend = cpu.eax
    BY <1>3, WordFacts DEF Dividend
  <2>2. Operand \in Nat \ {0} /\ Dividend \in Nat /\ Dividend \div Operand < WordSize
    BY <1>3, <2>1, WordFacts DEF Div, Divides
  <2>3. \A x \in Nat, y \in Nat \ {0} : x \div y \in Nat
    OBVIOUS
  <2> QED BY <2>2, <2>3, WordFacts DEF Word
<1>5. Goes([cpu EXCEPT !.eax = Dividend \div Operand, !.edx = Dividend % Operand], Following)
      /\ UNCHANGED << registers, arrays, code, stack >>
  BY DEF Div
<1> QED BY <1>1, <1>2, <1>4, <1>5, SetsBoth

\* xor reg, reg.
LEMMA ClearMoves ==
  ASSUME Types, NEW ins, NEW k, NEW l, Fetches(ins, k, l), Clear
  PROVE  Moves(Following, l)
<1>1. Fetched = ins /\ ins.name = "clear" /\ Holds(k) /\ k.eax # "half" /\ Sets(ins.reg, 0)
  BY DEF Fetches, Clear, Executes, Fits
<1>2. /\ k.edx # "run"
      /\ \/ ins.reg = "eax" /\ Weaker(l, Kind("zero", k.ebx, k.edx))
         \/ ins.reg = "ebx" /\ Weaker(l, Kind(k.eax, "zero", k.edx))
         \/ ins.reg = "edx" /\ Weaker(l, Kind(k.eax, k.ebx, "zero"))
  BY <1>1 DEF Fetches, Fits
<1>3. 0 \in Word /\ 0 \in Nat
  BY WordFacts
<1>4. CASE ins.reg = "eax" /\ Weaker(l, Kind("zero", k.ebx, k.edx))
  BY <1>1, <1>3, <1>4, SetsEax, CodesFacts
<1>5. CASE ins.reg = "ebx" /\ Weaker(l, Kind(k.eax, "zero", k.edx))
  BY <1>1, <1>3, <1>5, SetsEbx
<1>6. CASE ins.reg = "edx" /\ Weaker(l, Kind(k.eax, k.ebx, "zero"))
  BY <1>1, <1>2, <1>3, <1>6, SetsEdx
<1> QED BY <1>2, <1>4, <1>5, <1>6

\* What sets no register that is known.
LEMMA CompareMoves ==
  ASSUME Types, NEW ins, NEW k, NEW l, Fetches(ins, k, l), MoveWord \/ Compare
  PROVE  Moves(Following, l)
<1>1. Fetched = ins /\ ins.name \in {"moveWord", "cmp"} /\ Holds(k) /\ k.eax # "half"
  BY DEF Fetches, MoveWord, Compare, Executes, Fits
<1>2. Weaker(l, k) /\ (ins.name = "moveWord" => ins.n \in Word)
  BY <1>1 DEF Fetches, Fits
<1>3. CASE MoveWord
  <2>1. ins.n \in Nat /\ Sets("ecx", ins.n)
    BY <1>1, <1>2, <1>3, WordFacts DEF MoveWord, Executes
  <2> QED BY <1>1, <1>2, <2>1, SetsOther
<1>4. CASE Compare
  <2>1. \E v : Sets("zero", v)
    BY <1>4 DEF Compare
  <2> QED BY <1>1, <1>2, <2>1, SetsOther
<1> QED BY <1>3, <1>4

\* mov al, code and mov bl, value.
LEMMA LowByteMoves ==
  ASSUME Types, NEW ins, NEW k, NEW l, Fetches(ins, k, l), LowByte
  PROVE  Moves(Following, l)
<1>1. Fetched = ins /\ ins.name = "lowByte" /\ Holds(k) /\ k.eax # "half"
      /\ Sets(ins.reg, (cpu[ins.reg] - (cpu[ins.reg] % 256)) + ins.n)
  BY DEF Fetches, LowByte, Executes, Fits
<1>2. \/ /\ ins.reg = "eax" /\ k.eax = "zero"
         /\ \E c \in Codes : ins.n = ReturnCode[c] /\ Weaker(l, Kind(c, k.ebx, k.edx))
      \/ /\ ins.reg = "ebx" /\ k.ebx = "zero" /\ ins.n \in {1, 2}
         /\ Weaker(l, Kind(k.eax, "any", k.edx))
  BY <1>1 DEF Fetches, Fits
<1>3. cpu[ins.reg] = 0
  BY <1>1, <1>2 DEF Holds, HoldsIn
<1>4. Sets(ins.reg, ins.n)
  <2>1. ins.n \in Int
    BY DEF Fetches, Instruction
  <2>2. (0 - (0 % 256)) + ins.n = ins.n
    BY ONLY <2>1
  <2> QED BY <1>1, <1>3, <2>2
<1>5. CASE /\ ins.reg = "eax"
           /\ \E c \in Codes : ins.n = ReturnCode[c] /\ Weaker(l, Kind(c, k.ebx, k.edx))
  <2>1. PICK c \in Codes : ins.n = ReturnCode[c] /\ Weaker(l, Kind(c, k.ebx, k.edx))
    BY <1>5
  <2>2. ins.n \in Nat /\ c \notin {"half", "word", "zero", "array", "entry"}
    BY <2>1, CodesFacts
  <2> QED BY <1>1, <1>4, <1>5, <2>1, <2>2, SetsEax
<1>6. CASE ins.reg = "ebx" /\ ins.n \in {1, 2} /\ Weaker(l, Kind(k.eax, "any", k.edx))
  <2>1. ins.n \in Word
    BY <1>6, WordFacts
  <2> QED BY <1>1, <1>4, <1>6, <2>1, SetsEbx
<1> QED BY <1>2, <1>5, <1>6

\* A jump lands where its target's kind holds; a jump not taken goes on.
LEMMA JumpMoves ==
  ASSUME Types, NEW ins, NEW k, NEW l, Fetches(ins, k, l),
         JumpIfEcxZero \/ JumpIfNotZero \/ JumpShort
  PROVE  /\ ins.name \in {"jecxz", "jnz", "jmp"}
         /\ \/ Moves(Following, l)
            \/ \A m : Weaker(m, k) => Moves(Following + ins.n, m)
<1>1. Fetched = ins /\ ins.name \in {"jecxz", "jnz", "jmp"} /\ Holds(k) /\ k.eax # "half"
  BY DEF Fetches, JumpIfEcxZero, JumpIfNotZero, JumpShort, Executes, Fits
<1>2. Weaker(l, k)
  BY <1>1 DEF Fetches, Fits
<1>3. /\ Goes(cpu, Following) \/ Goes(cpu, Following + ins.n)
      /\ UNCHANGED << registers, arrays, code, stack >>
  BY <1>1 DEF JumpIfEcxZero, JumpIfNotZero, JumpShort, Jumps
<1>4. registers' \in [Register -> Word]
  BY <1>3 DEF Types
<1>5. CASE Goes(cpu, Following)
  BY <1>1, <1>2, <1>3, <1>4, <1>5, GoesMoves
<1>6. CASE Goes(cpu, Following + ins.n)
  <2>1. ASSUME NEW m, Weaker(m, k) PROVE Moves(Following + ins.n, m)
    BY <1>1, <1>3, <1>4, <1>6, <2>1, GoesMoves
  <2> QED BY <1>1, <2>1
<1> QED BY <1>3, <1>5, <1>6

-----------------------------------------------------------------------------
\* Jumps and calls

\* jmp eax goes to where a platter begins.
LEMMA JumpToEaxMoves ==
  ASSUME Types, NEW ins, NEW k, NEW l, Fetches(ins, k, l), JumpToEax
  PROVE  cpu.eax \in Entries /\ Moves(cpu.eax, Fresh)
<1>1. Fetched = ins /\ ins.name = "jmpEax" /\ Holds(k)
  BY DEF Fetches, JumpToEax, Executes
<1>2. k.eax = "entry" /\ k.edx # "run"
  BY <1>1 DEF Fetches, Fits
<1>3. Weaker(Fresh, Kind("any", "any", "any")) /\ Fresh.eax # "half"
  BY DEF Weaker, Kind, Fresh, Eax
<1>4. /\ Goes(cpu, cpu.eax) /\ UNCHANGED << arrays, code, stack >>
      /\ registers' \in [Register -> Word]
  BY DEF JumpToEax, Types
<1>5. Weaker(Fresh, k)
  BY <1>2 DEF Weaker, Kind, Fresh, Eax
<1>6. cpu.eax \in Entries
  BY <1>1, <1>2 DEF Holds, HoldsIn
<1> QED BY <1>1, <1>2, <1>4, <1>5, <1>6, GoesMoves

\* pop edx takes run()'s return address.
LEMMA PopEdxMoves ==
  ASSUME Types, NEW ins, NEW k, NEW l, Fetches(ins, k, l), PopEdx
  PROVE  Moves(Following, l)
<1>1. Fetched = ins /\ ins.name = "popEdx" /\ Holds(k) /\ k.eax # "half"
  BY DEF Fetches, PopEdx, Executes, Fits
<1>2. k.edx # "run" /\ l = Run(k.eax)
  BY <1>1 DEF Fetches, Fits
<1>3. stack = << RunAddress >>
  BY <1>1, <1>2 DEF Holds, HoldsIn
<1>4. Head(stack) = RunAddress /\ Tail(stack) = << >>
  BY <1>3
<1>5. /\ Goes([cpu EXCEPT !.edx = RunAddress], Following) /\ stack' = << >>
      /\ UNCHANGED << registers, arrays, code >>
  BY <1>4 DEF PopEdx
<1>6. /\ cpu'.eip = Following /\ cpu'.edx = RunAddress /\ DOMAIN cpu' = DOMAIN cpu
      /\ cpu'.eax = cpu.eax /\ cpu'.ebx = cpu.ebx /\ cpu'.ecx = cpu.ecx
      /\ UNCHANGED << mode, frame >>
  BY <1>5, SetFacts DEF Types, GeneralRegister
<1>7. CpuTyped' /\ registers' \in [Register -> Word]
  BY <1>5, <1>6 DEF Types, CpuTyped
<1>8. HoldsIn(l, cpu', stack', DOMAIN arrays, Entries) /\ l.eax # "half"
  BY <1>1, <1>2, <1>5, <1>6 DEF Holds, HoldsIn, Run, Kind
<1> QED BY <1>5, <1>6, <1>7, <1>8, TypedMove

\* What native code comes back to run() with.
CallsRun(k, address) ==
  /\ UNCHANGED << mode, code, frame, arrays >>
  /\ Types'
  /\ cpu'.eip = RunAddress /\ stack' = << address >>
  /\ k.eax \in Codes /\ cpu'.eax = ReturnCode[k.eax]

\* call edx returns to run() with a return code.
LEMMA CallEdxCalls ==
  ASSUME Types, NEW ins, NEW k, NEW l, Fetches(ins, k, l), CallEdx
  PROVE  CallsRun(k, Following)
<1>1. Fetched = ins /\ ins.name = "callEdx" /\ Holds(k)
  BY DEF Fetches, CallEdx, Executes
<1>2. k.edx = "run" /\ k.eax \in Codes
  BY <1>1 DEF Fetches, Fits
<1>3. stack = << >> /\ cpu.edx = RunAddress /\ cpu.eax = ReturnCode[k.eax]
  BY <1>1, <1>2 DEF Holds, HoldsIn
<1>4. /\ Goes(cpu, RunAddress) /\ stack' = << Following >>
      /\ UNCHANGED << registers, arrays, code >>
  BY <1>3 DEF CallEdx, Pushed
<1>5. /\ cpu'.eip = RunAddress /\ DOMAIN cpu' = DOMAIN cpu
      /\ cpu'.eax = cpu.eax /\ cpu'.ebx = cpu.ebx /\ cpu'.ecx = cpu.ecx
      /\ UNCHANGED << mode, frame >>
  BY <1>4, GoFacts DEF Types, GeneralRegister
<1>6. Types'
  <2>1. CpuTyped'
    BY <1>5 DEF Types, CpuTyped
  <2>2. ArraysTyped' /\ registers' \in [Register -> Word] /\ eaxValue' \in Word
    BY <1>4, <1>5 DEF Types, ArraysTyped, frame
  <2> QED BY <2>1, <2>2 DEF Types
<1> QED BY <1>2, <1>3, <1>4, <1>5, <1>6 DEF CallsRun

-----------------------------------------------------------------------------
\* Arrays

\* An array that is not allocated stops the program.
LEMMA ArrayOfMoves ==
  ASSUME Types, NEW ins, NEW k, NEW l, Fetches(ins, k, l), ArrayOf
  PROVE  Moves(Following, l) \/ Stops
<1>1. Fetched = ins /\ ins.name = "arrayOf" /\ Holds(k)
  BY DEF Fetches, ArrayOf, Executes
<1>2. Weaker(l, Kind("array", k.ebx, k.edx))
  BY <1>1 DEF Fetches, Fits
<1> DEFINE v == cpu[ins.reg]
<1>3. CASE v \in DOMAIN arrays
  <2>1. v \in Nat /\ Sets("eax", v)
    BY <1>1, <1>3, WordFacts DEF ArrayOf, Types, ArraysTyped
  <2> HIDE DEF v
  <2> QED BY <1>1, <1>2, <1>3, <2>1, SetsEax, CodesFacts
<1>4. CASE v \notin DOMAIN arrays
  BY <1>1, <1>4 DEF ArrayOf, Ends, Stops
<1> QED BY <1>3, <1>4

\* So does a platter outside the array.
LEMMA LoadPlatterMoves ==
  ASSUME Types, NEW ins, NEW k, NEW l, Fetches(ins, k, l), LoadPlatter
  PROVE  Moves(Following, l) \/ Stops
<1>1. Fetched = ins /\ ins.name = "loadPlatter" /\ Holds(k)
  BY DEF Fetches, LoadPlatter, Executes
<1>2. k.eax = "array" /\ Weaker(l, Kind("word", k.ebx, k.edx))
  BY <1>1 DEF Fetches, Fits
<1> DEFINE a == arrays[cpu.eax]
           v == a.platters[cpu.ecx]
<1>3. CASE cpu.ecx < a.size
  <2>1. cpu.eax \in DOMAIN arrays /\ cpu.ecx \in Nat
    BY <1>1, <1>2 DEF Holds, HoldsIn, Types, CpuTyped
  <2>2. a.size \in Nat /\ a.platters \in [0 .. a.size - 1 -> Word]
    BY <2>1 DEF Types, ArraysTyped
  <2>3. cpu.ecx \in 0 .. a.size - 1
    BY <1>3, <2>1, <2>2
  <2>4. v \in Word /\ v \in Nat
    BY <2>2, <2>3, WordFacts
  <2>5. Sets("eax", v)
    BY <1>3 DEF LoadPlatter
  <2> HIDE DEF v
  <2> QED BY <1>1, <1>2, <2>4, <2>5, SetsEax, CodesFacts
<1>4. CASE ~(cpu.ecx < a.size)
  BY <1>4 DEF LoadPlatter, Ends, Stops
<1> QED BY <1>3, <1>4

\* The jump table has an entry for every platter of array 0.
LEMMA CodeOfMoves ==
  ASSUME Types, Layout, NEW ins, NEW k, NEW l, Fetches(ins, k, l), CodeOf
  PROVE  Moves(Following, l) \/ Stops
<1>1. Fetched = ins /\ ins.name = "codeOf" /\ Holds(k)
  BY DEF Fetches, CodeOf, Executes
<1>2. ins.reg \in {"ebx", "ecx"} /\ Weaker(l, Kind("entry", k.ebx, k.edx))
  BY <1>1 DEF Fetches, Fits
<1> DEFINE i == cpu[ins.reg]
           v == jumpTable[i]
<1>3. CASE i < size
  <2>1. i \in Nat /\ size \in Nat
    BY <1>2, WordFacts DEF Types, CpuTyped, ArraysTyped, size
  <2>2. i \in 0 .. size - 1 /\ i \in 0 .. size
    BY <1>3, <2>1
  <2>3. v \in Nat /\ v \in Entries
    BY <2>2 DEF Layout, TableFor, Entries
  <2>4. Sets("eax", v)
    BY <1>1, <1>3 DEF CodeOf, size
  <2> HIDE DEF v
  <2> QED BY <1>1, <1>2, <2>3, <2>4, SetsEax, CodesFacts
<1>4. CASE ~(i < size)
  BY <1>1, <1>4 DEF CodeOf, Ends, Stops, size
<1> QED BY <1>3, <1>4

\* An array is written to and keeps its size.
LEMMA Amends ==
  ASSUME Types, Goes(cpu, Following), UNCHANGED << registers, code, stack >>,
         NEW i \in DOMAIN arrays, NEW a, arrays' = [arrays EXCEPT ![i] = a],
         DOMAIN a = DOMAIN arrays[i], a.size = arrays[i].size,
         a.platters \in [0 .. arrays[i].size - 1 -> Word], a.dirty \in BOOLEAN,
         NEW k, NEW l, Holds(k), Weaker(l, k), k.eax # "half"
  PROVE  Moves(Following, l)
<1>1. /\ cpu'.eip = Following /\ DOMAIN cpu' = DOMAIN cpu
      /\ cpu'.eax = cpu.eax /\ cpu'.ebx = cpu.ebx /\ cpu'.ecx = cpu.ecx /\ cpu'.edx = cpu.edx
      /\ UNCHANGED << mode, frame >>
  BY GoFacts DEF Types, GeneralRegister
<1>2. /\ DOMAIN arrays' = DOMAIN arrays /\ arrays'[i] = a
      /\ \A j \in DOMAIN arrays : j # i => arrays'[j] = arrays[j]
  OBVIOUS
<1>3. ArraysTyped
  BY DEF Types
<1>4. ArraysTyped'
  <2>1. DOMAIN arrays' \subseteq Word /\ 0 \in DOMAIN arrays'
    BY <1>2, <1>3 DEF ArraysTyped
  <2>2. ASSUME NEW j \in DOMAIN arrays'
        PROVE  /\ DOMAIN arrays'[j] = {"size", "dirty", "nativeCode", "platters"}
               /\ arrays'[j].size \in Nat
               /\ arrays'[j].platters \in [0 .. arrays'[j].size - 1 -> Word]
               /\ arrays'[j].dirty \in BOOLEAN
    <3>1. CASE j = i
      <4>1. DOMAIN arrays[i] = {"size", "dirty", "nativeCode", "platters"} /\ arrays[i].size \in Nat
        BY <1>3 DEF ArraysTyped
      <4> QED BY <1>2, <3>1, <4>1
    <3>2. CASE j # i
      BY <1>2, <1>3, <3>2 DEF ArraysTyped
    <3> QED BY <3>1, <3>2
  <2> QED BY <2>1, <2>2 DEF ArraysTyped
<1>5. Types'
  <2>1. CpuTyped'
    BY <1>1 DEF Types, CpuTyped
  <2>2. registers' \in [Register -> Word] /\ eaxValue' \in Word
    BY <1>1 DEF Types, frame
  <2> QED BY <1>4, <2>1, <2>2 DEF Types
<1>6. size' = size
  <2>1. 0 \in DOMAIN arrays
    BY <1>3 DEF ArraysTyped
  <2>2. arrays'[0].size = arrays[0].size
    BY <1>2, <2>1
  <2> QED BY <2>2 DEF size
<1>7. HoldsIn(k, cpu', stack', DOMAIN arrays, Entries)
  <2>1. HoldsIn(k, cpu, stack, DOMAIN arrays, Entries) /\ stack' = stack
    BY DEF Holds
  <2> QED BY <1>1, <2>1, HoldsAfter
<1>8. HoldsIn(l, cpu', stack', DOMAIN arrays, Entries) /\ l.eax # "half"
  BY <1>7, Weakens DEF Weaker
<1> QED BY <1>1, <1>2, <1>5, <1>6, <1>8 DEF Moves

\* or [eax + dirty], 1.
LEMMA OrDirtyMoves ==
  ASSUME Types, NEW ins, NEW k, NEW l, Fetches(ins, k, l), OrDirty
  PROVE  Moves(Following, l)
<1>1. Fetched = ins /\ ins.name = "orDirty" /\ Holds(k)
  BY DEF Fetches, OrDirty, Executes
<1>2. k.eax = "array" /\ Weaker(l, k)
  BY <1>1 DEF Fetches, Fits
<1> DEFINE i == cpu.eax
           a == [arrays[i] EXCEPT !.dirty = TRUE]
<1>3. i \in DOMAIN arrays
  BY <1>1, <1>2 DEF Holds, HoldsIn
<1>4. /\ DOMAIN arrays[i] = {"size", "dirty", "nativeCode", "platters"}
      /\ arrays[i].platters \in [0 .. arrays[i].size - 1 -> Word]
  BY <1>3 DEF Types, ArraysTyped
<1>5. /\ DOMAIN a = DOMAIN arrays[i] /\ a.size = arrays[i].size
      /\ a.platters = arrays[i].platters /\ a.dirty = TRUE
  BY <1>4
<1>6. /\ Goes(cpu, Following) /\ UNCHANGED << registers, code, stack >>
      /\ arrays' = [arrays EXCEPT ![i] = a]
  BY DEF OrDirty
<1> HIDE DEF a, i
<1> QED BY <1>1, <1>2, <1>3, <1>4, <1>5, <1>6, Amends

\* An amended platter stays a word.
LEMMA StorePlatterMoves ==
  ASSUME Types, NEW ins, NEW k, NEW l, Fetches(ins, k, l), StorePlatter
  PROVE  Moves(Following, l) \/ Stops
<1>1. Fetched = ins /\ ins.name = "storePlatter" /\ Holds(k)
  BY DEF Fetches, StorePlatter, Executes
<1>2. k.eax = "array" /\ k.edx = "word" /\ Weaker(l, k)
  BY <1>1 DEF Fetches, Fits
<1> DEFINE i == cpu.eax
           a == [arrays[i] EXCEPT !.platters = [arrays[i].platters EXCEPT ![cpu.ebx] = cpu.edx]]
<1>3. i \in DOMAIN arrays /\ cpu.edx \in Word
  BY <1>1, <1>2 DEF Holds, HoldsIn
<1>4. /\ DOMAIN arrays[i] = {"size", "dirty", "nativeCode", "platters"}
      /\ arrays[i].platters \in [0 .. arrays[i].size - 1 -> Word]
      /\ arrays[i].dirty \in BOOLEAN
  BY <1>3 DEF Types, ArraysTyped
<1>5. CASE cpu.ebx < arrays[i].size
  <2>1. /\ DOMAIN a = DOMAIN arrays[i] /\ a.size = arrays[i].size
        /\ a.platters = [arrays[i].platters EXCEPT ![cpu.ebx] = cpu.edx]
        /\ a.dirty = arrays[i].dirty
    BY <1>4
  <2>2. a.platters \in [0 .. arrays[i].size - 1 -> Word]
    BY <1>3, <1>4, <2>1
  <2>3. /\ Goes(cpu, Following) /\ UNCHANGED << registers, code, stack >>
        /\ arrays' = [arrays EXCEPT ![i] = a]
    BY <1>5 DEF StorePlatter
  <2> HIDE DEF a, i
  <2> QED BY <1>1, <1>2, <1>3, <1>4, <2>1, <2>2, <2>3, Amends
<1>6. CASE ~(cpu.ebx < arrays[i].size)
  BY <1>6 DEF StorePlatter, Ends, Stops
<1> QED BY <1>5, <1>6

-----------------------------------------------------------------------------
\* Where the processor is after instruction n of some code

Steps(base, is, ks, n) ==
  \E t \in n + 1 .. Len(is) + 1 :
    /\ t = n + 1 \/ is[n].name \in {"jecxz", "jnz", "jmp"}
    /\ t = n + 1 => is[n].name \notin {"jmpEax", "callEdx", "stubHead", "stubTail"}
    /\ Moves(base + Offsets(is)[t - 1], ks[t])

\* Whatever the instruction, the processor goes on inside the code, stops, jumps to
\* a platter, returns to run() or writes half of a stub.
LEMMA ProcessorSteps ==
  ASSUME Types, Layout, NEW base, NEW is, NEW ks, NEW n, Here(base, is, ks, n), Processor
  PROVE  \/ Steps(base, is, ks, n)
         \/ Stops
         \/ is[n].name = "jmpEax" /\ cpu.eax \in Entries /\ Moves(cpu.eax, Fresh)
         \/ is[n].name = "callEdx" /\ CallsRun(ks[n], base + Offsets(is)[n])
         \/ is[n].name = "stubHead" /\ StubHead
         \/ is[n].name = "stubTail" /\ StubTail
<1> DEFINE ins == is[n]
           k == ks[n]
           l == ks[n + 1]
<1>1. /\ Fetched = ins /\ Following = base + Offsets(is)[n]
      /\ n \in 1 .. Len(is) /\ Len(is) \in Nat
      /\ Lands(is, ks, n) /\ Fetches(ins, k, l)
  BY HereFacts DEF Layout, Fetches
<1> HIDE DEF ins, k, l
<1>2. ASSUME ins.name \notin {"jmpEax", "callEdx", "stubHead", "stubTail"}, Moves(Following, l)
      PROVE  Steps(base, is, ks, n)
  <2>1. n + 1 \in n + 1 .. Len(is) + 1 /\ (n + 1) - 1 = n
    BY <1>1
  <2>2. Moves(base + Offsets(is)[(n + 1) - 1], ks[n + 1])
    BY <1>1, <1>2, <2>1 DEF l
  <2> QED BY <1>2, <2>1, <2>2 DEF Steps, ins
<1>3. CASE Load
  BY <1>1, <1>2, <1>3, LoadMoves DEF Load, Executes
<1>4. CASE Store \/ StoreValue
  BY <1>1, <1>2, <1>4, StoreMoves DEF Store, StoreValue, Executes
<1>5. CASE Add \/ Conjoin \/ Complement
  BY <1>1, <1>2, <1>5, AddMoves DEF Add, Conjoin, Complement, Executes
<1>6. CASE Mul
  BY <1>1, <1>2, <1>6, MulMoves DEF Mul, Executes
<1>7. CASE Div
  BY <1>1, <1>2, <1>7, DivMoves DEF Div, Executes
<1>8. CASE DivTraps
  BY <1>8 DEF DivTraps, Ends, Stops
<1>9. CASE Clear
  BY <1>1, <1>2, <1>9, ClearMoves DEF Clear, Executes
<1>10. CASE MoveWord \/ Compare
  BY <1>1, <1>2, <1>10, CompareMoves DEF MoveWord, Compare, Executes
<1>11. CASE LowByte
  BY <1>1, <1>2, <1>11, LowByteMoves DEF LowByte, Executes
<1>12. CASE JumpIfEcxZero \/ JumpIfNotZero \/ JumpShort
  <2>1. /\ ins.name \in {"jecxz", "jnz", "jmp"}
        /\ \/ Moves(Following, l)
           \/ \A m : Weaker(m, k) => Moves(Following + ins.n, m)
    BY <1>1, <1>12, JumpMoves
  <2>2. CASE Moves(Following, l)
    BY <1>2, <2>1, <2>2
  <2>3. CASE \A m : Weaker(m, k) => Moves(Following + ins.n, m)
    <3>1. PICK t \in n + 1 .. Len(is) + 1 :
            Offsets(is)[t - 1] = Offsets(is)[n] + is[n].n /\ Weaker(ks[t], ks[n])
      BY <1>1, <2>1 DEF Lands, ins
    <3>2. Moves(Following + ins.n, ks[t])
      BY <2>3, <3>1 DEF k
    <3>3. Following + ins.n = base + Offsets(is)[t - 1]
      <4>1. base \in Nat /\ Offsets(is)[n] \in Nat /\ is[n].n \in Int
        <5>1. TypedCode(is, ks) /\ base \in Nat /\ n \in 0 .. Len(is)
          BY <1>1 DEF Here
        <5>2. Offsets(is)[n] \in Nat /\ is[n] \in Instruction
          BY <1>1, <5>1, TypedOffsets
        <5> QED BY <5>1, <5>2 DEF Instruction
      <4>2. ins.n = is[n].n /\ Following = base + Offsets(is)[n]
        BY <1>1 DEF ins
      <4> QED BY ONLY <3>1, <4>1, <4>2
    <3> QED BY <2>1, <3>2, <3>3 DEF Steps, ins
  <2> QED BY <2>1, <2>2, <2>3
<1>13. CASE JumpToEax
  BY <1>1, <1>13, JumpToEaxMoves DEF JumpToEax, Executes, ins
<1>14. CASE PopEdx
  BY <1>1, <1>2, <1>14, PopEdxMoves DEF PopEdx, Executes
<1>15. CASE CallEdx
  BY <1>1, <1>15, CallEdxCalls DEF CallEdx, Executes, ins, k
<1>16. CASE ArrayOf
  BY <1>1, <1>2, <1>16, ArrayOfMoves DEF ArrayOf, Executes
<1>17. CASE LoadPlatter
  BY <1>1, <1>2, <1>17, LoadPlatterMoves DEF LoadPlatter, Executes
<1>18. CASE OrDirty
  BY <1>1, <1>2, <1>18, OrDirtyMoves DEF OrDirty, Executes
<1>19. CASE StorePlatter
  BY <1>1, <1>2, <1>19, StorePlatterMoves DEF StorePlatter, Executes
<1>20. CASE CodeOf
  BY <1>1, <1>2, <1>20, CodeOfMoves DEF CodeOf, Executes
<1>21. CASE StubHead \/ StubTail
  BY <1>1, <1>21 DEF StubHead, StubTail, Executes, ins
<1> QED BY <1>3, <1>4, <1>5, <1>6, <1>7, <1>8, <1>9, <1>10, <1>11, <1>12, <1>13, <1>14,
           <1>15, <1>16, <1>17, <1>18, <1>19, <1>20, <1>21 DEF Processor

-----------------------------------------------------------------------------
\* Where in the block the processor is

\* The bytes of an instruction are among those of its code.
LEMMA InsideCode ==
  ASSUME NEW is, NEW ks, TypedCode(is, ks), NEW n \in 1 .. Len(is)
  PROVE  /\ n - 1 \in 0 .. Len(is) /\ n \in 0 .. Len(is) /\ Len(is) \in Nat
         /\ Offsets(is)[n - 1] \in Nat /\ Offsets(is)[n] \in Nat /\ Extent(is) \in Nat
         /\ is[n].length \in Nat \ {0}
         /\ Offsets(is)[n - 1] < Offsets(is)[n] /\ Offsets(is)[n] <= Extent(is)
         /\ \A k \in 1 .. is[n].length :
              /\ Offsets(is)[n - 1] + k \in 1 .. Extent(is)
              /\ Offsets(is)[n - 1] + k > Offsets(is)[n - 1]
<1>1. /\ Len(is) \in Nat /\ Extent(is) \in Nat
      /\ Offsets(is) \in [0 .. Len(is) -> Nat]
      /\ is[n].length \in Nat \ {0} /\ Offsets(is)[n] = Offsets(is)[n - 1] + is[n].length
  BY TypedOffsets
<1>2. n - 1 \in 0 .. Len(is) /\ n \in 0 .. Len(is) /\ Len(is) \in 0 .. Len(is) /\ n <= Len(is)
  BY <1>1
<1>3. Offsets(is)[n - 1] \in Nat /\ Offsets(is)[n] \in Nat /\ Offsets(is)[n] <= Extent(is)
  BY <1>1, <1>2, TypedOffsets DEF Extent
<1> QED BY <1>1, <1>2, <1>3

\* The stub, wherever it is written.
LEMMA StubFacts ==
  /\ TypedCode(recompileStub, stubKinds) /\ StubCode(recompileStub, stubKinds)
  /\ Extent(recompileStub) = StubSize
  /\ stubBytes \in Seq(Byte) /\ Len(stubBytes) = 7
<1>1. TypedCode(recompileStub, stubKinds) /\ StubCode(recompileStub, stubKinds)
  BY StaticFacts DEF GeneratedStub
<1>2. Extent(recompileStub) = StubSize
  BY <1>1 DEF StubCode, Extent
<1>3. stubBytes \in Seq(Byte) /\ Len(stubBytes) = StubSize
  BY <1>1, <1>2, TypedBytes DEF stubBytes
<1> QED BY <1>1, <1>2, <1>3 DEF StubSize

\* In the code of a platter, the processor fetches what was compiled.
LEMMA HereInPlatter ==
  ASSUME Types, Layout, Tails, NEW j \in 0 .. size, NEW n \in 1 .. Len(CodeAt(j)),
         At(jumpTable[j], CodeAt(j), KindsAt(j), n),
         Whole(j) \/ (j # size /\ Offsets(CodeAt(j))[n - 1] >= StubSize)
  PROVE  Here(jumpTable[j], CodeAt(j), KindsAt(j), n)
<1> DEFINE is == CodeAt(j)
           base == jumpTable[j]
           o == Offsets(is)[n - 1]
<1>1. /\ TypedCode(is, KindsAt(j)) /\ base \in Nat /\ base + Extent(is) <= Len(memory)
      /\ size \in Nat
  BY CodeFacts DEF CodeKnown
<1>2. \A k \in 1 .. is[n].length : ByteAt(base, is, n, k)
  <2>1. CASE Whole(j)
    BY <2>1 DEF Whole, Written
  <2>2. CASE j # size /\ o >= StubSize
    <3>1. j \in 0 .. size - 1
      BY <1>1, <2>2
    <3>2. WrittenAfter(base, is, StubSize)
      BY <3>1 DEF Tails
    <3>3. \A k \in 1 .. is[n].length : o + k > o /\ o \in Nat /\ o + k \in Nat
      BY <1>1, InsideCode
    <3>4. \A k \in 1 .. is[n].length : o + k > StubSize
      BY <2>2, <3>3 DEF StubSize
    <3> QED BY <3>2, <3>4 DEF WrittenAfter
  <2> QED BY <2>1, <2>2
<1> QED BY <1>1, <1>2 DEF Here

\* In a stub, the processor fetches the stub.
LEMMA HereInStub ==
  ASSUME Types, Layout, NEW j \in 0 .. size - 1, NEW n \in 1 .. Len(recompileStub),
         Stubbed(j), At(jumpTable[j], recompileStub, stubKinds, n)
  PROVE  Here(jumpTable[j], recompileStub, stubKinds, n)
<1>1. size \in Nat /\ Len(memory) \in Nat
  BY CodeFacts DEF CodeKnown
<1>2. j \in 0 .. size
  BY <1>1
<1>3. /\ jumpTable[j] \in Nat /\ jumpTable[j] + Extent(CodeAt(j)) <= Len(memory)
      /\ TypedCode(CodeAt(j), KindsAt(j)) /\ PlatterCode(CodeAt(j), KindsAt(j))
  BY <1>2, CodeFacts DEF CodeKnown
<1>4. Extent(CodeAt(j)) \in Nat /\ Extent(CodeAt(j)) >= StubSize
  BY <1>3, TypedOffsets DEF PlatterCode, Extent
<1>5. jumpTable[j] + Extent(recompileStub) <= Len(memory)
  BY <1>1, <1>3, <1>4, StubFacts DEF StubSize
<1> QED BY <1>3, <1>5, StubFacts DEF Here, Stubbed, Written

\* The processor has come to the code of a platter, or to what follows the last.
Arrived(i) ==
  /\ cpu.eip = jumpTable[i] /\ Holds(Fresh)
  /\ HeadsBut({})
  /\ size = 1 => Whole(0) \/ i = 1

Arrival == \A i \in 0 .. size : Arrived(i) => InPlatter \/ InStub

\* There it finds the platter's code or a stub.
LEMMA ArrivalFacts == Types /\ Layout /\ Tails => Arrival
<1> SUFFICES ASSUME Types, Layout, Tails, NEW i \in 0 .. size, Arrived(i)
             PROVE  InPlatter \/ InStub
  BY DEF Arrival
<1>1. /\ TypedCode(CodeAt(i), KindsAt(i)) /\ jumpTable[i] \in Nat /\ size \in Nat
  BY CodeFacts DEF CodeKnown
<1>2. CASE Whole(i)
  <2>1. /\ 1 \in 1 .. Len(CodeAt(i)) /\ Offsets(CodeAt(i))[1 - 1] = 0
        /\ KindsAt(i)[1] = Fresh
    BY <1>1, TypedOffsets DEF TypedCode
  <2>2. jumpTable[i] + Offsets(CodeAt(i))[1 - 1] = jumpTable[i]
    BY <1>1, <2>1
  <2>3. At(jumpTable[i], CodeAt(i), KindsAt(i), 1)
    BY <2>1, <2>2 DEF At, Arrived
  <2>4. Heads(KindsAt(i)[1])
    BY <2>1 DEF Heads, Arrived, Fresh, Eax, Kind
  <2>5. NoWayBack(i, 1)
    BY DEF NoWayBack, Arrived
  <2> QED BY <1>2, <2>1, <2>3, <2>4, <2>5 DEF InPlatter, Inside
<1>3. CASE ~Whole(i)
  <2>1. i \in 0 .. size - 1
    BY <1>1, <1>3 DEF Tails
  <2>2. Stubbed(i)
    BY <1>3, <2>1 DEF HeadsBut, Arrived
  <2>3. size > 1
    <3>1. size = 1 => i = 0
      BY <2>1
    <3>2. size # 1
      BY <1>3, <3>1 DEF Arrived
    <3> QED BY <1>1, <2>1, <3>2
  <2>4. /\ 1 \in 1 .. Len(recompileStub) /\ Offsets(recompileStub)[1 - 1] = 0
        /\ stubKinds[1] = Fresh
    BY StubFacts, TypedOffsets DEF TypedCode
  <2>5. At(jumpTable[i], recompileStub, stubKinds, 1)
    BY <1>1, <2>4 DEF At, Arrived
  <2> QED BY <2>1, <2>2, <2>3, <2>4, <2>5 DEF InStub, Arrived
<1> QED BY <1>2, <1>3

-----------------------------------------------------------------------------
\* Steps that leave the code alone

\* What is known of the code.
LEMMA SameCode ==
  ASSUME UNCHANGED code, size' = size
  PROVE  /\ \A j : /\ CodeAt(j)' = CodeAt(j) /\ KindsAt(j)' = KindsAt(j)
                   /\ Whole(j)' = Whole(j) /\ Stubbed(j)' = Stubbed(j)
                   /\ HalfWritten(j)' = HalfWritten(j)
         /\ \A S : HeadsBut(S)' = HeadsBut(S)
         /\ Tails' = Tails /\ Layout' = Layout /\ Entries' = Entries
         /\ jumpTable' = jumpTable /\ memory' = memory
<1>1. jumpTable' = jumpTable /\ memory' = memory /\ compiled' = compiled
  BY DEF code
<1>2. ASSUME NEW j PROVE CodeAt(j)' = CodeAt(j) /\ KindsAt(j)' = KindsAt(j)
  BY <1>1 DEF CodeAt, KindsAt
<1>5. ASSUME NEW j
      PROVE  /\ Whole(j)' = Whole(j) /\ Stubbed(j)' = Stubbed(j)
             /\ HalfWritten(j)' = HalfWritten(j)
  <2>1. Whole(j)' = Whole(j)
    BY <1>1 DEF Whole, Written, ByteAt, CodeAt
  <2>2. Stubbed(j)' = Stubbed(j)
    BY <1>1 DEF Stubbed, Written, ByteAt
  <2>3. HalfWritten(j)' = HalfWritten(j)
    BY <1>1 DEF HalfWritten
  <2> QED BY <2>1, <2>2, <2>3
<1>6. ASSUME NEW S PROVE HeadsBut(S)' = HeadsBut(S)
  BY <1>5 DEF HeadsBut
<1>7. Tails' = Tails
  <2>1. ASSUME NEW j
        PROVE  WrittenAfter(jumpTable[j], CodeAt(j), StubSize)'
                 = WrittenAfter(jumpTable[j], CodeAt(j), StubSize)
    BY <1>1 DEF WrittenAfter, ByteAt, CodeAt
  <2> QED BY <1>5, <2>1 DEF Tails
<1>8. Layout' = Layout
  BY <1>1 DEF Layout, TableFor
<1>9. Entries' = Entries
  BY <1>1 DEF Entries
<1> QED BY <1>1, <1>2, <1>5, <1>6, <1>7, <1>8, <1>9

-----------------------------------------------------------------------------
\* From one instruction to the next

\* What every instruction of native code keeps, but for those that end it.
GoesOn ==
  /\ Types' /\ Layout' /\ Tails' /\ Native'
  /\ UNCHANGED << mode, frame >> /\ Len(memory') = Len(memory)

\* What is known inside the code of a platter.
LEMMA InsideFacts ==
  ASSUME Types, Layout, Tails, NEW j \in 0 .. size, NEW n \in 1 .. Len(CodeAt(j)), Inside(j, n)
  PROVE  /\ Here(jumpTable[j], CodeAt(j), KindsAt(j), n)
         /\ TypedCode(CodeAt(j), KindsAt(j)) /\ size \in Nat
         /\ j # size => j \in 0 .. size - 1 /\ j + 1 \in 0 .. size
                        /\ PlatterCode(CodeAt(j), KindsAt(j))
                        /\ jumpTable[j + 1] = jumpTable[j] + Extent(CodeAt(j))
         /\ j = size => OOBCode(CodeAt(j), KindsAt(j))
         /\ KindsAt(j)[n].eax = "half" <=> CodeAt(j)[n].name = "stubTail"
         /\ CodeAt(j)[n].name # "stubTail" => HeadsBut({})
<1>1. Here(jumpTable[j], CodeAt(j), KindsAt(j), n)
  BY HereInPlatter DEF Inside
<1>2. TypedCode(CodeAt(j), KindsAt(j)) /\ size \in Nat
  BY CodeFacts DEF CodeKnown
<1>3. ASSUME j # size
      PROVE  j \in 0 .. size - 1 /\ j + 1 \in 0 .. size /\ PlatterCode(CodeAt(j), KindsAt(j))
             /\ jumpTable[j + 1] = jumpTable[j] + Extent(CodeAt(j))
  <2>1. j \in 0 .. size - 1 /\ j + 1 \in 0 .. size
    BY <1>2, <1>3
  <2> QED BY <2>1, CodeFacts DEF CodeKnown
<1>4. ASSUME j = size PROVE OOBCode(CodeAt(j), KindsAt(j))
  BY <1>4, CodeFacts DEF CodeKnown
<1>5. KindsAt(j)[n].eax = "half" <=> CodeAt(j)[n].name = "stubTail"
  BY <1>2 DEF TypedCode, Fits
<1>6. CodeAt(j)[n].name # "stubTail" => HeadsBut({})
  BY <1>5 DEF Inside, Heads
<1> QED BY <1>1, <1>2, <1>3, <1>4, <1>5, <1>6

\* On to the next instruction or the next platter.
LEMMA StepsInPlatter ==
  ASSUME Types, Layout, Tails, NEW j \in 0 .. size, NEW n \in 1 .. Len(CodeAt(j)), Inside(j, n),
         Steps(jumpTable[j], CodeAt(j), KindsAt(j), n)
  PROVE  GoesOn
<1> DEFINE is == CodeAt(j)
           ks == KindsAt(j)
<1>1. /\ TypedCode(is, ks) /\ size \in Nat /\ Len(is) \in Nat
      /\ j # size => j \in 0 .. size - 1 /\ j + 1 \in 0 .. size /\ PlatterCode(is, ks)
                     /\ jumpTable[j + 1] = jumpTable[j] + Extent(is)
      /\ j = size => OOBCode(is, ks)
      /\ ks[n].eax = "half" <=> is[n].name = "stubTail"
      /\ is[n].name # "stubTail" => HeadsBut({})
  BY InsideFacts, TypedOffsets
<1>2. PICK t \in n + 1 .. Len(is) + 1 :
        /\ t = n + 1 \/ is[n].name \in {"jecxz", "jnz", "jmp"}
        /\ t = n + 1 => is[n].name \notin {"jmpEax", "callEdx", "stubHead", "stubTail"}
        /\ Moves(jumpTable[j] + Offsets(is)[t - 1], ks[t])
  BY DEF Steps
<1>3. /\ UNCHANGED << mode, code, frame >> /\ DOMAIN arrays' = DOMAIN arrays /\ size' = size
      /\ Types' /\ cpu'.eip = jumpTable[j] + Offsets(is)[t - 1]
      /\ HoldsIn(ks[t], cpu', stack', DOMAIN arrays, Entries) /\ ks[t].eax # "half"
  BY <1>2 DEF Moves
<1>4. HeadsBut({}) /\ is[n].name # "stubTail"
  BY <1>1, <1>2
<1>5. /\ CodeAt(j)' = is /\ KindsAt(j)' = ks /\ (Whole(j))' = Whole(j) /\ (Whole(0))' = Whole(0)
      /\ (HeadsBut({}))' = HeadsBut({}) /\ Tails' /\ Layout' /\ Entries' = Entries
      /\ jumpTable' = jumpTable /\ memory' = memory
  BY <1>3, SameCode
<1>6. (Holds(ks[t]))'
  BY <1>3, <1>5 DEF Holds
<1>7. CASE t \in 1 .. Len(is)
  <2>1. At(jumpTable[j], is, ks, t)'
    BY <1>3, <1>5, <1>6, <1>7 DEF At
  <2>2. Whole(j) \/ (j # size /\ Offsets(is)[t - 1] >= StubSize)
    <3>1. Offsets(is)[n - 1] <= Offsets(is)[t - 1] /\ Offsets(is)[n - 1] \in Nat
          /\ Offsets(is)[t - 1] \in Nat
      <4>1. n - 1 \in 0 .. Len(is) /\ t - 1 \in 0 .. Len(is) /\ n - 1 <= t - 1
        BY <1>1, <1>7
      <4> QED BY <1>1, <4>1, TypedOffsets
    <3>2. Whole(j) \/ (j # size /\ Offsets(is)[n - 1] >= StubSize)
      BY DEF Inside
    <3> QED BY <3>1, <3>2 DEF StubSize
  <2>3. Heads(ks[t])'
    BY <1>3, <1>4, <1>5 DEF Heads
  <2>4. NoWayBack(j, t)'
    <3>1. is[n].name # "jmp"
      <4>1. CASE j = size
        BY <1>1, <4>1 DEF OOBCode
      <4>2. CASE j # size
        <5>1. is[n].name = "jmp" => n = Len(is)
          BY <1>1, <4>2 DEF PlatterCode
        <5> QED BY <1>1, <1>7, <5>1
      <4> QED BY <4>1, <4>2
    <3>2. size = 1 => Whole(0) \/ j = 1
      BY <1>4, <3>1 DEF Inside, NoWayBack
    <3> QED BY <1>3, <1>5, <3>2 DEF NoWayBack
  <2>5. Inside(j, t)'
    BY <1>3, <1>5, <2>1, <2>2, <2>3, <2>4 DEF Inside
  <2>6. InPlatter'
    BY <1>3, <1>5, <1>7, <2>5 DEF InPlatter
  <2> QED BY <1>3, <1>5, <2>6 DEF GoesOn, Native
<1>8. CASE t = Len(is) + 1
  <2>1. j # size
    <3>1. j = size =>
            /\ is[n].name \notin {"jecxz", "jnz", "jmp"}
            /\ is[n].name = "callEdx" <=> n = Len(is)
      BY <1>1 DEF OOBCode
    <3>2. j = size => t = n + 1 /\ n = Len(is)
      BY <1>1, <1>2, <1>8, <3>1
    <3> QED BY <1>2, <3>1, <3>2
  <2>2. /\ j \in 0 .. size - 1 /\ j + 1 \in 0 .. size
        /\ jumpTable[j + 1] = jumpTable[j] + Extent(is) /\ PlatterCode(is, ks)
    BY <1>1, <2>1
  <2>3. cpu'.eip = jumpTable[j + 1]
    BY <1>1, <1>3, <1>8, <2>2 DEF Extent
  <2>4. ks[t] = Fresh
    BY <1>1, <1>8 DEF TypedCode
  <2>5. size = 1 => Whole(0) \/ j + 1 = 1
    BY <1>1, <2>2
  <2>6. Arrived(j + 1)'
    BY <1>3, <1>4, <1>5, <1>6, <2>3, <2>4, <2>5 DEF Arrived
  <2>7. Arrival'
    BY <1>3, <1>5, ArrivalFacts, PTL
  <2>8. InPlatter' \/ InStub'
    BY <1>3, <2>2, <2>6, <2>7 DEF Arrival
  <2> QED BY <1>3, <1>5, <2>8 DEF GoesOn, Native
<1>9. t \in 1 .. Len(is) \/ t = Len(is) + 1
  BY <1>1, <1>2
<1> QED BY <1>7, <1>8, <1>9

\* To the code of another platter (loadProgram of array 0).
LEMMA JumpsToPlatter ==
  ASSUME Types, Layout, Tails, NEW j \in 0 .. size, NEW n \in 1 .. Len(CodeAt(j)), Inside(j, n),
         CodeAt(j)[n].name = "jmpEax", cpu.eax \in Entries, Moves(cpu.eax, Fresh)
  PROVE  GoesOn
<1>1. /\ UNCHANGED << mode, code, frame >> /\ DOMAIN arrays' = DOMAIN arrays /\ size' = size
      /\ Types' /\ cpu'.eip = cpu.eax
      /\ HoldsIn(Fresh, cpu', stack', DOMAIN arrays, Entries)
  BY DEF Moves
<1>2. HeadsBut({}) /\ size \in Nat
  BY InsideFacts
<1>3. /\ (HeadsBut({}))' = HeadsBut({}) /\ (Whole(0))' = Whole(0) /\ Tails' /\ Layout'
      /\ Entries' = Entries /\ jumpTable' = jumpTable /\ memory' = memory
  BY <1>1, SameCode
<1>4. (Holds(Fresh))'
  BY <1>1, <1>3 DEF Holds
<1>5. PICK i \in 0 .. size - 1 : cpu.eax = jumpTable[i]
  BY DEF Entries
<1>6. size = 1 => Whole(0)
  <2>1. j # size
    BY InsideFacts DEF OOBCode
  <2>2. j # 1 \/ size # 1
    BY <2>1
  <2> QED BY <2>2 DEF Inside, NoWayBack
<1>7. Arrived(i)'
  BY <1>1, <1>2, <1>3, <1>4, <1>5, <1>6 DEF Arrived
<1>8. Arrival'
  BY <1>1, <1>3, ArrivalFacts, PTL
<1>9. InPlatter' \/ InStub'
  <2>1. i \in 0 .. size'
    BY <1>1, <1>2
  <2> QED BY <1>7, <1>8, <2>1 DEF Arrival
<1> QED BY <1>1, <1>3, <1>9 DEF GoesOn, Native

\* Where run() may go on once it has served the request.
LEMMA ResumesAfter ==
  ASSUME Types, Layout, Tails, NEW j \in 0 .. size, NEW n \in 1 .. Len(CodeAt(j)), Inside(j, n),
         CodeAt(j)[n].name = "callEdx", j # size
  PROVE  Resumes(jumpTable[j] + Offsets(CodeAt(j))[n])
<1> DEFINE is == CodeAt(j)
           ks == KindsAt(j)
           a == jumpTable[j] + Offsets(is)[n]
<1>1. /\ TypedCode(is, ks) /\ size \in Nat /\ Len(is) \in Nat
      /\ j \in 0 .. size - 1 /\ j + 1 \in 0 .. size /\ PlatterCode(is, ks)
      /\ jumpTable[j + 1] = jumpTable[j] + Extent(is)
  BY InsideFacts, TypedOffsets
<1>2. Offsets(is)[n] >= StubSize
  BY <1>1 DEF PlatterCode
<1>3. size = 1 => Whole(0)
  <2>1. j # 1 \/ size # 1
    BY <1>1
  <2> QED BY <2>1 DEF Inside, NoWayBack
<1>4. CASE n = Len(is)
  <2>1. a = jumpTable[j + 1]
    BY <1>1, <1>4 DEF Extent
  <2>2. TypedCode(CodeAt(j + 1), KindsAt(j + 1)) /\ jumpTable[j + 1] \in Nat
    BY <1>1, CodeFacts DEF CodeKnown
  <2>3. /\ KindsAt(j + 1)[1] = Fresh /\ 1 \in 1 .. Len(CodeAt(j + 1))
        /\ Offsets(CodeAt(j + 1))[1 - 1] = 0
    BY <2>2, TypedOffsets DEF TypedCode
  <2>4. a = jumpTable[j + 1] + Offsets(CodeAt(j + 1))[1 - 1]
    BY <2>1, <2>2, <2>3
  <2> QED BY <1>1, <1>3, <2>3, <2>4 DEF Resumes
<1>5. CASE n # Len(is)
  <2>1. n + 1 \in 1 .. Len(is) /\ (n + 1) - 1 = n
    BY <1>1, <1>5
  <2>2. ks[n + 1] \in {Fresh, Holding}
    BY <1>1 DEF TypedCode, Fits
  <2>3. a = jumpTable[j] + Offsets(is)[(n + 1) - 1] /\ Offsets(is)[(n + 1) - 1] >= StubSize
    BY <1>2, <2>1
  <2> QED BY <1>1, <1>3, <2>1, <2>2, <2>3 DEF Resumes
<1> QED BY <1>4, <1>5

\* A request made of code that is as it was.
LEMMA SameReturns ==
  ASSUME UNCHANGED code, size' = size, NEW c, NEW a
  PROVE  Resumes(a)' = Resumes(a) /\ Returns(c, a)' = Returns(c, a)
<1>1. /\ \A j : CodeAt(j)' = CodeAt(j) /\ KindsAt(j)' = KindsAt(j)
      /\ (Whole(0))' = Whole(0) /\ (HeadsBut({}))' = HeadsBut({})
      /\ jumpTable' = jumpTable /\ memory' = memory
  BY SameCode
<1>2. Resumes(a)' = Resumes(a)
  BY <1>1 DEF Resumes
<1>3. Returns(c, a)' = Returns(c, a)
  BY <1>1, <1>2 DEF Returns
<1> QED BY <1>2, <1>3

\* Back to run() with address, from code where k holds.
LEMMA ReturnsToRun ==
  ASSUME Types, Layout, Tails, NEW k, NEW address, CallsRun(k, address),
         Returns(ReturnCode[k.eax], address)
  PROVE  GoesOn
<1>1. /\ UNCHANGED << mode, code, frame, arrays >> /\ Types'
      /\ cpu'.eip = RunAddress /\ stack' = << address >> /\ cpu'.eax = ReturnCode[k.eax]
  BY DEF CallsRun
<1>2. size' = size
  BY <1>1 DEF size
<1>3. Layout' /\ Tails' /\ memory' = memory
  BY <1>1, <1>2, SameCode
<1>4. Returns(ReturnCode[k.eax], address)'
  BY <1>1, <1>2, SameReturns
<1>5. Returns(cpu.eax, stack[1])'
  <2>1. stack'[1] = address
    BY <1>1
  <2> QED BY <1>1, <1>4, <2>1
<1>6. cpu'.eip = RunAddress /\ stack' = << stack'[1] >>
  BY <1>1
<1>7. Native'
  BY <1>5, <1>6 DEF Native
<1> QED BY <1>1, <1>3, <1>7 DEF GoesOn

\* A call of run() from the code of a platter.
LEMMA CallsFromPlatter ==
  ASSUME Types, Layout, Tails, NEW j \in 0 .. size, NEW n \in 1 .. Len(CodeAt(j)), Inside(j, n),
         CodeAt(j)[n].name = "callEdx",
         CallsRun(KindsAt(j)[n], jumpTable[j] + Offsets(CodeAt(j))[n])
  PROVE  GoesOn
<1> DEFINE is == CodeAt(j)
           k == KindsAt(j)[n]
           a == jumpTable[j] + Offsets(is)[n]
<1>1. k.eax \in Codes
  BY DEF CallsRun
<1>2. /\ TypedCode(is, KindsAt(j)) /\ size \in Nat /\ HeadsBut({})
      /\ j # size => PlatterCode(is, KindsAt(j))
      /\ j = size => OOBCode(is, KindsAt(j))
  BY InsideFacts
<1>3. a \in 0 .. Len(memory)
  <2>1. /\ Offsets(is)[n] \in Nat /\ Extent(is) \in Nat /\ Offsets(is)[n] <= Extent(is)
        /\ jumpTable[j] \in Nat /\ jumpTable[j] + Extent(is) <= Len(memory) /\ Len(memory) \in Nat
    BY <1>2, InsideCode, CodeFacts DEF CodeKnown
  <2> QED BY <2>1
<1>4. CASE j = size
  <2>1. k.eax = "halt"
    BY <1>2, <1>4 DEF OOBCode
  <2>2. /\ ReturnCode[k.eax] \notin {ReturnCode[x] : x \in {"allocation", "input", "output"}}
        /\ ReturnCode[k.eax] # ReturnCode["recompile"]
    BY <2>1 DEF ReturnCode
  <2>3. Returns(ReturnCode[k.eax], a)
    BY <1>2, <1>3, <2>2 DEF Returns
  <2> QED BY <2>3, ReturnsToRun
<1>5. CASE j # size
  <2>1. k.eax # "recompile"
    BY <1>2, <1>5 DEF PlatterCode
  <2>2. ReturnCode[k.eax] # ReturnCode["recompile"]
    BY <1>1, <2>1, CodesFacts
  <2>3. Resumes(a)
    BY <1>5, ResumesAfter
  <2>4. Returns(ReturnCode[k.eax], a)
    BY <1>2, <1>3, <2>2, <2>3 DEF Returns
  <2> QED BY <2>4, ReturnsToRun
<1> QED BY <1>4, <1>5

-----------------------------------------------------------------------------
\* A recompile stub

\* Every instruction of a stub.
LEMMA StubGoes ==
  ASSUME Types, Layout, Tails, HeadsBut({}), size > 1, NEW j \in 0 .. size - 1,
         NEW n \in 1 .. Len(recompileStub), Stubbed(j),
         At(jumpTable[j], recompileStub, stubKinds, n), Processor
  PROVE  GoesOn \/ Stops
<1> DEFINE is == recompileStub
           ks == stubKinds
<1>1. Here(jumpTable[j], is, ks, n)
  BY HereInStub
<1>2. TypedCode(is, ks) /\ StubCode(is, ks) /\ Extent(is) = StubSize /\ Len(is) \in Nat
  BY StubFacts, TypedOffsets
<1>3. /\ is[n].name \notin {"stubHead", "stubTail", "jmp", "jmpEax", "jecxz", "jnz"}
      /\ is[n].name = "callEdx" <=> n = Len(is)
      /\ is[n].name = "callEdx" => ks[n].eax = "recompile"
  BY <1>2 DEF StubCode
<1>4. \/ Steps(jumpTable[j], is, ks, n)
      \/ Stops
      \/ is[n].name = "callEdx" /\ CallsRun(ks[n], jumpTable[j] + Offsets(is)[n])
  BY <1>1, <1>3, ProcessorSteps
<1>5. CASE Steps(jumpTable[j], is, ks, n)
  <2>1. PICK t \in n + 1 .. Len(is) + 1 :
          /\ t = n + 1 /\ is[n].name # "callEdx"
          /\ Moves(jumpTable[j] + Offsets(is)[t - 1], ks[t])
    BY <1>3, <1>5 DEF Steps
  <2>2. t \in 1 .. Len(is)
    BY <1>2, <1>3, <2>1
  <2>3. /\ UNCHANGED << mode, code, frame >> /\ DOMAIN arrays' = DOMAIN arrays /\ size' = size
        /\ Types' /\ cpu'.eip = jumpTable[j] + Offsets(is)[t - 1]
        /\ HoldsIn(ks[t], cpu', stack', DOMAIN arrays, Entries)
    BY <2>1 DEF Moves
  <2>4. /\ (Stubbed(j))' = Stubbed(j) /\ (HeadsBut({}))' = HeadsBut({}) /\ Tails' /\ Layout'
        /\ Entries' = Entries /\ jumpTable' = jumpTable /\ memory' = memory
    BY <2>3, SameCode
  <2>5. (Holds(ks[t]))'
    BY <2>3, <2>4 DEF Holds
  <2>6. At(jumpTable[j], is, ks, t)'
    BY <2>2, <2>3, <2>4, <2>5 DEF At
  <2>7. InStub'
    BY <2>2, <2>3, <2>4, <2>6 DEF InStub
  <2> QED BY <2>3, <2>4, <2>7 DEF GoesOn, Native
<1>6. CASE is[n].name = "callEdx" /\ CallsRun(ks[n], jumpTable[j] + Offsets(is)[n])
  <2>1. n = Len(is) /\ Offsets(is)[n] = StubSize /\ ks[n].eax = "recompile"
    BY <1>2, <1>3, <1>6 DEF Extent
  <2>2. jumpTable[j] + StubSize \in 0 .. Len(memory)
    <3>1. j \in 0 .. size /\ PlatterCode(CodeAt(j), KindsAt(j)) /\ TypedCode(CodeAt(j), KindsAt(j))
          /\ jumpTable[j] \in Nat /\ jumpTable[j] + Extent(CodeAt(j)) <= Len(memory)
          /\ Len(memory) \in Nat
      <4>1. size \in Nat
        BY CodeFacts DEF CodeKnown
      <4>2. j \in 0 .. size
        BY <4>1
      <4> QED BY <4>2, CodeFacts DEF CodeKnown
    <3>2. Extent(CodeAt(j)) \in Nat /\ Extent(CodeAt(j)) >= 7
      BY <3>1, TypedOffsets DEF PlatterCode, Extent, StubSize
    <3> QED BY <3>1, <3>2 DEF StubSize
  <2>3. Returns(ReturnCode["recompile"], jumpTable[j] + StubSize)
    <3>1. ReturnCode["recompile"] \notin {ReturnCode[x] : x \in {"allocation", "input", "output"}}
      BY DEF ReturnCode
    <3> QED BY <2>2, <3>1 DEF Returns
  <2> QED BY <1>6, <2>1, <2>3, ReturnsToRun
<1> QED BY <1>4, <1>5, <1>6

-----------------------------------------------------------------------------
\* The stub is written

\* What is written over the beginning of one platter is in no other.
LEMMA Apart ==
  ASSUME Types, Layout, NEW i \in 0 .. size - 1, NEW j \in 0 .. size,
         NEW e \in 1 .. Extent(CodeAt(j)), j # i \/ e > StubSize
  PROVE  /\ jumpTable[j] + e \in 1 .. Len(memory)
         /\ jumpTable[j] + e \notin jumpTable[i] + 1 .. jumpTable[i] + StubSize
<1>1. size \in Nat /\ Len(memory) \in Nat /\ i \in 0 .. size
  BY CodeFacts DEF CodeKnown
<1>2. /\ TypedCode(CodeAt(j), KindsAt(j)) /\ TypedCode(CodeAt(i), KindsAt(i))
      /\ PlatterCode(CodeAt(i), KindsAt(i))
      /\ jumpTable[i] \in Nat /\ jumpTable[j] \in Nat
      /\ jumpTable[j] + Extent(CodeAt(j)) <= Len(memory)
  BY <1>1, CodeFacts DEF CodeKnown
<1>3. Extent(CodeAt(i)) \in Nat /\ Extent(CodeAt(j)) \in Nat /\ Extent(CodeAt(i)) >= StubSize
  BY <1>2, TypedOffsets DEF PlatterCode, Extent
<1>4. jumpTable[j] + e \in 1 .. Len(memory)
  BY <1>1, <1>2, <1>3
<1>5. CASE j = i
  <2>1. e > 7 /\ e \in Nat
    BY <1>3, <1>5 DEF StubSize
  <2> QED BY <1>2, <1>4, <1>5, <2>1 DEF StubSize
<1>6. CASE j < i
  <2>1. j \in 0 .. size - 1 /\ j + 1 \in 0 .. size /\ j + 1 <= i
    BY <1>1, <1>6
  <2>2. /\ jumpTable[j + 1] = jumpTable[j] + Extent(CodeAt(j))
        /\ jumpTable[j + 1] <= jumpTable[i]
    BY <1>1, <2>1, CodeFacts DEF CodeKnown
  <2>3. jumpTable[j] + e <= jumpTable[i]
    BY <1>2, <1>3, <2>2
  <2> QED BY <1>2, <1>4, <2>3
<1>7. CASE i < j
  <2>1. i + 1 \in 0 .. size /\ i + 1 <= j
    BY <1>1, <1>7
  <2>2. /\ jumpTable[i + 1] = jumpTable[i] + Extent(CodeAt(i))
        /\ jumpTable[i + 1] <= jumpTable[j]
    BY <2>1, CodeFacts DEF CodeKnown
  <2>3. jumpTable[i] + StubSize < jumpTable[j] + e
    <3>1. \A p \in Nat, q \in Nat, r \in Nat, s \in Nat :
            r >= 7 /\ p + r <= q /\ s >= 1 => p + 7 < q + s
      OBVIOUS
    <3>2. e \in Nat /\ e >= 1
      BY <1>3
    <3> QED BY <1>2, <1>3, <2>2, <3>1, <3>2 DEF StubSize
  <2> QED BY <1>2, <1>4, <2>3 DEF StubSize
<1> QED BY <1>1, <1>4, <1>5, <1>6, <1>7

\* Four bytes of memory change, for others.
LEMMA MemoryWritten ==
  ASSUME memory \in Seq(Byte), NEW address \in Nat, NEW bs, Writes(address, bs),
         \A k \in 1 .. 4 : bs[k] \in Byte
  PROVE  /\ memory' \in Seq(Byte) /\ Len(memory') = Len(memory)
         /\ \A k \in 1 .. 4 : memory'[address + k] = bs[k]
         /\ \A x \in 1 .. Len(memory) :
              x \notin address + 1 .. address + 4 => memory'[x] = memory[x]
<1> DEFINE N == Len(memory)
<1>1. /\ N \in Nat /\ DOMAIN memory = 1 .. N /\ \A x \in 1 .. N : memory[x] \in Byte
  BY LenProperties, ElementOfSeq
<1>2. /\ address + 4 <= N
      /\ memory' = [k \in 1 .. N |-> IF k - address \in 1 .. 4 THEN bs[k - address] ELSE memory[k]]
  BY <1>1 DEF Writes
<1> HIDE DEF N
<1>3. \A x \in 1 .. N : memory'[x] = IF x - address \in 1 .. 4 THEN bs[x - address] ELSE memory[x]
  BY <1>2
<1>4. \A x \in 1 .. N : memory'[x] \in Byte
  BY <1>1, <1>3
<1>5. memory' \in [1 .. N -> Byte]
  BY <1>2, <1>4
<1>6. memory' \in Seq(Byte) /\ Len(memory') = N
  <2> DEFINE m == memory'
             S == Byte
  <2>1. m \in [1 .. N -> S] /\ N \in Nat
    BY <1>1, <1>5
  <2> HIDE DEF m, S
  <2>2. m \in Seq(S) /\ Len(m) = N
    BY <2>1
  <2> QED BY <2>2 DEF m, S
<1>7. ASSUME NEW k \in 1 .. 4 PROVE memory'[address + k] = bs[k]
  <2>1. address + k \in 1 .. N /\ (address + k) - address = k
    BY <1>1, <1>2
  <2> QED BY <1>3, <2>1
<1>8. ASSUME NEW x \in 1 .. N, x \notin address + 1 .. address + 4 PROVE memory'[x] = memory[x]
  <2>1. x - address \notin 1 .. 4
    BY <1>8
  <2> QED BY <1>3, <2>1
<1> QED BY <1>6, <1>7, <1>8 DEF N

\* Only the code of platter i is overwritten, and of that its first bytes.
LEMMA OnlyOne ==
  ASSUME Types, Layout, Tails, NEW i \in 0 .. size - 1,
         NEW address, address \in jumpTable[i] .. jumpTable[i] + 3,
         NEW bs, Writes(address, bs), \A k \in 1 .. 4 : bs[k] \in Byte, size' = size
  PROVE  /\ Layout' /\ Tails' /\ Len(memory') = Len(memory)
         /\ \A j : CodeAt(j)' = CodeAt(j) /\ KindsAt(j)' = KindsAt(j)
         /\ \A j \in 0 .. size - 1 :
              j # i => (Whole(j) => Whole(j)') /\ (Stubbed(j) => Stubbed(j)')
<1>1. jumpTable' = jumpTable /\ compiled' = compiled
  BY DEF Writes
<1>2. /\ size \in Nat /\ i \in 0 .. size /\ jumpTable[i] \in Nat /\ memory \in Seq(Byte)
  <2>1. size \in Nat
    BY CodeFacts DEF CodeKnown
  <2>2. i \in 0 .. size
    BY <2>1
  <2> QED BY <2>1, <2>2, CodeFacts DEF CodeKnown, Layout
<1>3. address \in Nat
  BY <1>2
<1>4. /\ memory' \in Seq(Byte) /\ Len(memory') = Len(memory)
      /\ \A x \in 1 .. Len(memory) :
           x \notin address + 1 .. address + 4 => memory'[x] = memory[x]
  BY <1>2, <1>3, MemoryWritten
<1>5. ASSUME NEW j PROVE CodeAt(j)' = CodeAt(j) /\ KindsAt(j)' = KindsAt(j)
  BY <1>1 DEF CodeAt, KindsAt
<1>6. Layout'
  BY <1>1, <1>4 DEF Layout, TableFor
<1>7. ASSUME NEW j \in 0 .. size, NEW e \in 1 .. Extent(CodeAt(j)), j # i \/ e > StubSize
      PROVE  memory'[jumpTable[j] + e] = memory[jumpTable[j] + e]
  <2>1. /\ jumpTable[j] + e \in 1 .. Len(memory)
        /\ jumpTable[j] + e \notin jumpTable[i] + 1 .. jumpTable[i] + StubSize
    BY <1>7, Apart
  <2>2. jumpTable[j] + e \notin address + 1 .. address + 4
    <3>1. \A t \in Nat : \A a \in t .. t + 3 : \A x \in Int :
            x \notin t + 1 .. t + 7 => x \notin a + 1 .. a + 4
      OBVIOUS
    <3>2. jumpTable[j] + e \in Int
      BY <2>1
    <3> QED BY <1>2, <2>1, <3>1, <3>2 DEF StubSize
  <2> QED BY <1>4, <2>1, <2>2
<1>8. ASSUME NEW j \in 0 .. size PROVE jumpTable[j] \in Nat /\ TypedCode(CodeAt(j), KindsAt(j))
  BY CodeFacts DEF CodeKnown
<1>9. ASSUME NEW j \in 0 .. size, NEW n \in 1 .. Len(CodeAt(j)), NEW k \in 1 .. CodeAt(j)[n].length,
             j # i \/ Offsets(CodeAt(j))[n - 1] + k > StubSize,
             ByteAt(jumpTable[j], CodeAt(j), n, k)
      PROVE  memory'[jumpTable[j] + Offsets(CodeAt(j))[n - 1] + k] = << CodeAt(j)[n], k >>
  <2> DEFINE o == Offsets(CodeAt(j))[n - 1]
  <2>1. o + k \in 1 .. Extent(CodeAt(j)) /\ o \in Nat /\ k \in Nat
    BY <1>8, InsideCode
  <2>2. memory'[jumpTable[j] + (o + k)] = memory[jumpTable[j] + (o + k)]
    <3> DEFINE e == o + k
    <3>1. e \in 1 .. Extent(CodeAt(j)) /\ (j # i \/ e > StubSize)
      BY <1>9, <2>1
    <3> HIDE DEF e
    <3>2. memory'[jumpTable[j] + e] = memory[jumpTable[j] + e]
      BY <1>7, <3>1
    <3> QED BY <3>2 DEF e
  <2>3. jumpTable[j] + (o + k) = jumpTable[j] + o + k
    BY <1>8, <2>1
  <2> QED BY <1>9, <2>2, <2>3 DEF ByteAt
<1>10. ASSUME NEW j \in 0 .. size, j # i, Whole(j) PROVE Whole(j)'
  <2>1. \A n \in 1 .. Len(CodeAt(j)) : \A k \in 1 .. CodeAt(j)[n].length :
          memory'[jumpTable[j] + Offsets(CodeAt(j))[n - 1] + k] = << CodeAt(j)[n], k >>
    BY <1>9, <1>10 DEF Whole, Written
  <2>2. CodeAt(j)' = CodeAt(j)
    BY <1>5
  <2> QED BY <1>1, <2>1, <2>2 DEF Whole, Written, ByteAt
<1>11. ASSUME NEW j \in 0 .. size - 1
       PROVE  WrittenAfter(jumpTable[j], CodeAt(j), StubSize)'
  <2>1. j \in 0 .. size /\ WrittenAfter(jumpTable[j], CodeAt(j), StubSize)
    BY <1>2 DEF Tails
  <2>2. \A n \in 1 .. Len(CodeAt(j)) : \A k \in 1 .. CodeAt(j)[n].length :
          Offsets(CodeAt(j))[n - 1] + k > StubSize =>
            memory'[jumpTable[j] + Offsets(CodeAt(j))[n - 1] + k] = << CodeAt(j)[n], k >>
    BY <1>9, <2>1 DEF WrittenAfter
  <2>3. CodeAt(j)' = CodeAt(j)
    BY <1>5
  <2> QED BY <1>1, <2>2, <2>3 DEF WrittenAfter, ByteAt
<1>12. Tails'
  <2>1. size \in 0 .. size /\ size # i /\ Whole(size)
    BY <1>2 DEF Tails
  <2>2. Whole(size)'
    BY <1>10, <2>1
  <2> QED BY <1>11, <2>2 DEF Tails
<1>13. ASSUME NEW j \in 0 .. size - 1, j # i, Stubbed(j) PROVE Stubbed(j)'
  <2>1. /\ j \in 0 .. size /\ Extent(CodeAt(j)) \in Nat /\ Extent(CodeAt(j)) >= StubSize
        /\ jumpTable[j] \in Nat
    <3>1. j \in 0 .. size
      BY <1>2
    <3>2. TypedCode(CodeAt(j), KindsAt(j)) /\ PlatterCode(CodeAt(j), KindsAt(j))
      BY CodeFacts, <3>1 DEF CodeKnown
    <3> QED BY <1>8, <3>1, <3>2, TypedOffsets DEF PlatterCode, Extent
  <2>2. ASSUME NEW n \in 1 .. Len(recompileStub), NEW k \in 1 .. recompileStub[n].length
        PROVE  memory'[jumpTable[j] + Offsets(recompileStub)[n - 1] + k] = << recompileStub[n], k >>
    <3> DEFINE e == Offsets(recompileStub)[n - 1] + k
    <3>1. e \in 1 .. StubSize /\ Offsets(recompileStub)[n - 1] \in Nat /\ k \in Nat
      BY StubFacts, InsideCode
    <3>2. jumpTable[j] + e = jumpTable[j] + Offsets(recompileStub)[n - 1] + k
      BY <2>1, <3>1
    <3> HIDE DEF e
    <3>3. e \in 1 .. Extent(CodeAt(j))
      BY <2>1, <3>1 DEF StubSize
    <3>4. memory'[jumpTable[j] + e] = memory[jumpTable[j] + e]
      BY <1>7, <1>13, <2>1, <3>3
    <3> QED BY <1>13, <3>2, <3>4 DEF Stubbed, Written, ByteAt
  <2> QED BY <1>1, <2>2 DEF Stubbed, Written, ByteAt
<1>14. \A j \in 0 .. size - 1 : j # i => (Whole(j) => Whole(j)') /\ (Stubbed(j) => Stubbed(j)')
  <2>1. \A j \in 0 .. size - 1 : j \in 0 .. size
    BY <1>2
  <2> QED BY <1>10, <1>13, <2>1
<1> QED BY <1>4, <1>5, <1>6, <1>12, <1>14

\* What the first half of the stub writes: three bytes of it and a zero.
LEMMA HeadBytes ==
  LET bs == SubSeq(stubBytes, 1, 3) \o << ZeroByte >> IN
  (\A k \in 1 .. 4 : bs[k] \in Byte) /\ (\A k \in 1 .. 3 : bs[k] = stubBytes[k])
<1> DEFINE s == SubSeq(stubBytes, 1, 3)
           z == ZeroByte
<1>1. stubBytes \in Seq(Byte) /\ Len(stubBytes) = 7
  BY StubFacts
<1>2. z \in Byte
  BY DEF ZeroByte, Byte, Instruction, Ins, InstructionNames, RegisterNames
<1>3. s \in Seq(Byte) /\ Len(s) = 3 /\ \A i \in 1 .. 3 : s[i] = stubBytes[i]
  <2>1. 1 \in 1 .. Len(stubBytes) + 1 /\ 3 \in 0 .. Len(stubBytes)
    BY <1>1
  <2>2. /\ s \in Seq(Byte) /\ Len(s) = IF 1 <= 3 THEN 3 - 1 + 1 ELSE 0
        /\ \A i \in 1 .. 3 - 1 + 1 : s[i] = stubBytes[1 + i - 1]
    BY <1>1, <2>1, PartOf
  <2>3. \A i \in 1 .. 3 : 1 + i - 1 = i /\ i \in 1 .. 3 - 1 + 1
    OBVIOUS
  <2>4. \A i \in 1 .. 3 : s[i] = stubBytes[i]
    BY <2>2, <2>3
  <2> QED BY <2>2, <2>4
<1> HIDE DEF s, z
<1>4. /\ \A i \in 1 .. Len(s) : (s \o << z >>)[i] = s[i]
      /\ (s \o << z >>)[Len(s) + 1] = z
  <2>1. s \in Seq(Byte)
    BY <1>3
  <2> QED BY ONLY <1>2, <2>1, OneMore
<1>5. \A i \in 1 .. 3 : s[i] \in Byte
  BY <1>3, ElementOfSeq
<1>6. \A k \in 1 .. 3 : (s \o << z >>)[k] = s[k]
  BY <1>3, <1>4
<1>7. (s \o << z >>)[4] = z
  <2>1. Len(s) + 1 = 4
    BY <1>3
  <2> QED BY <1>4, <2>1
<1>8. \A k \in 1 .. 4 : (s \o << z >>)[k] \in Byte
  <2>1. \A k \in 1 .. 4 : k \in 1 .. 3 \/ k = 4
    OBVIOUS
  <2> QED BY <1>2, <1>5, <1>6, <1>7, <2>1
<1> QED BY <1>3, <1>6, <1>8 DEF s, z

\* What the second half writes: the four others.
LEMMA TailBytes ==
  /\ \A k \in 1 .. 4 : SubSeq(stubBytes, 4, 7)[k] \in Byte
  /\ \A k \in 1 .. 4 : SubSeq(stubBytes, 4, 7)[k] = stubBytes[3 + k]
<1> DEFINE s == SubSeq(stubBytes, 4, 7)
<1>1. stubBytes \in Seq(Byte) /\ Len(stubBytes) = 7
  BY StubFacts
<1>2. 4 \in 1 .. Len(stubBytes) + 1 /\ 7 \in 0 .. Len(stubBytes)
  BY <1>1
<1>3. /\ s \in Seq(Byte) /\ Len(s) = IF 4 <= 7 THEN 7 - 4 + 1 ELSE 0
      /\ \A i \in 1 .. 7 - 4 + 1 : s[i] = stubBytes[4 + i - 1]
  BY <1>1, <1>2, PartOf
<1> HIDE DEF s
<1>4. \A k \in 1 .. 4 : 4 + k - 1 = 3 + k /\ k \in 1 .. 7 - 4 + 1
  OBVIOUS
<1>5. \A k \in 1 .. 4 : s[k] = stubBytes[3 + k]
  BY <1>3, <1>4
<1>6. Len(s) = 4
  BY <1>3
<1>7. \A k \in 1 .. 4 : s[k] \in Byte
  BY <1>3, <1>6, ElementOfSeq
<1> QED BY <1>5, <1>7 DEF s

\* The whole stub, byte by byte.
LEMMA StubWritten ==
  ASSUME NEW base \in Nat, NEW m, \A x \in 1 .. 7 : m[base + x] = stubBytes[x]
  PROVE  \A n \in 1 .. Len(recompileStub) : \A k \in 1 .. recompileStub[n].length :
           m[base + Offsets(recompileStub)[n - 1] + k] = << recompileStub[n], k >>
<1> DEFINE is == recompileStub
<1>1. TypedCode(is, stubKinds) /\ Extent(is) = 7
  BY StubFacts DEF StubSize
<1> SUFFICES ASSUME NEW n \in 1 .. Len(is), NEW k \in 1 .. is[n].length
             PROVE  m[base + Offsets(is)[n - 1] + k] = << is[n], k >>
  OBVIOUS
<1> DEFINE x == Offsets(is)[n - 1] + k
<1>2. x \in 1 .. 7 /\ Offsets(is)[n - 1] \in Nat /\ k \in Nat
  <2> HIDE DEF is
  <2>1. /\ Offsets(is)[n - 1] \in Nat /\ is[n].length \in Nat
        /\ Offsets(is)[n - 1] + k \in 1 .. Extent(is)
    BY <1>1, InsideCode
  <2>2. k \in Nat
    BY <2>1
  <2> QED BY ONLY <1>1, <2>1, <2>2
<1>3. stubBytes[x] = << is[n], k >>
  BY <1>1, TypedBytes DEF stubBytes
<1>4. base + x = base + Offsets(is)[n - 1] + k
  <2>1. \A a \in Nat, b \in Nat, c \in Nat : a + (b + c) = a + b + c
    OBVIOUS
  <2> QED BY <1>2, <2>1
<1> HIDE DEF x
<1>5. m[base + x] = stubBytes[x]
  BY <1>2
<1> QED BY <1>3, <1>4, <1>5

\* What writing leaves alone.
LEMMA WriteFacts ==
  ASSUME Types, NEW address, NEW bs, Writes(address, bs)
  PROVE  /\ Types' /\ size' = size /\ UNCHANGED << mode, frame >>
         /\ UNCHANGED << registers, arrays, jumpTable, compiled, stack >>
         /\ cpu'.eip = Following /\ cpu'.eax = cpu.eax /\ cpu'.ebx = cpu.ebx /\ cpu'.edx = cpu.edx
         /\ Entries' = Entries
<1>1. Goes(cpu, Following) /\ UNCHANGED << registers, arrays, jumpTable, compiled, stack >>
  BY DEF Writes
<1>2. /\ cpu'.eip = Following /\ DOMAIN cpu' = DOMAIN cpu
      /\ cpu'.eax = cpu.eax /\ cpu'.ebx = cpu.ebx /\ cpu'.ecx = cpu.ecx /\ cpu'.edx = cpu.edx
      /\ UNCHANGED << mode, frame >>
  BY <1>1, GoFacts DEF Types, GeneralRegister
<1>3. CpuTyped'
  BY <1>2 DEF Types, CpuTyped
<1>4. ArraysTyped' /\ registers' \in [Register -> Word] /\ eaxValue' \in Word
  BY <1>1, <1>2 DEF Types, ArraysTyped, frame
<1>5. size' = size
  BY <1>1 DEF size
<1>6. Entries' = Entries
  BY <1>1, <1>5 DEF Entries
<1> QED BY <1>1, <1>2, <1>3, <1>4, <1>5, <1>6 DEF Types

\* On to the next instruction of the platter, in the middle of the writing.
LEMMA WritesOn ==
  ASSUME Types, Layout, Tails, NEW j \in 0 .. size, NEW n \in 1 .. Len(CodeAt(j)), Inside(j, n),
         CodeAt(j)[n].name \in {"stubHead", "stubTail"},
         NEW address, NEW bs, Writes(address, bs), Layout', Tails', Len(memory') = Len(memory),
         \A i : CodeAt(i)' = CodeAt(i) /\ KindsAt(i)' = KindsAt(i),
         n + 1 \in 1 .. Len(CodeAt(j)), CodeAt(j)[n + 1].name \in {"stubTail", "jmp"},
         HoldsIn(KindsAt(j)[n + 1], cpu', stack', DOMAIN arrays, Entries),
         Heads(KindsAt(j)[n + 1])'
  PROVE  GoesOn
<1> DEFINE is == CodeAt(j)
           ks == KindsAt(j)
<1>1. /\ Types' /\ size' = size /\ UNCHANGED << mode, frame >> /\ arrays' = arrays
      /\ jumpTable' = jumpTable /\ cpu'.eip = Following /\ Entries' = Entries
  BY WriteFacts
<1>2. /\ j # size /\ PlatterCode(is, ks) /\ Here(jumpTable[j], is, ks, n) /\ TypedCode(is, ks)
  <2>1. j # size
    BY InsideFacts DEF OOBCode
  <2> QED BY <2>1, InsideFacts
<1>3. cpu'.eip = jumpTable[j] + Offsets(is)[(n + 1) - 1]
  <2>1. Following = jumpTable[j] + Offsets(is)[n]
    BY <1>2, HereFacts DEF Layout
  <2>2. (n + 1) - 1 = n
    OBVIOUS
  <2> QED BY <1>1, <2>1, <2>2
<1>4. Offsets(is)[(n + 1) - 1] >= StubSize
  <2>1. Offsets(is)[n - 1] >= StubSize
    BY <1>2 DEF PlatterCode
  <2>2. /\ Offsets(is)[n - 1] \in Nat /\ Offsets(is)[n] \in Nat
        /\ Offsets(is)[n - 1] < Offsets(is)[n]
    BY <1>2, InsideCode
  <2>3. (n + 1) - 1 = n
    OBVIOUS
  <2> QED BY <2>1, <2>2, <2>3 DEF StubSize
<1>5. At(jumpTable[j], is, ks, n + 1)'
  <2>1. Holds(ks[n + 1])'
    BY <1>1 DEF Holds
  <2> QED BY <1>1, <1>3, <2>1 DEF At
<1>6. NoWayBack(j, n + 1)'
  BY DEF NoWayBack
<1>7. Inside(j, n + 1)'
  BY <1>1, <1>2, <1>4, <1>5, <1>6 DEF Inside
<1>8. InPlatter'
  BY <1>1, <1>7 DEF InPlatter
<1> QED BY <1>1, <1>8 DEF GoesOn, Native

\* The first half of the stub is written.
LEMMA StubHeadGoes ==
  ASSUME Types, Layout, Tails, NEW j \in 0 .. size, NEW n \in 1 .. Len(CodeAt(j)), Inside(j, n),
         CodeAt(j)[n].name = "stubHead", StubHead
  PROVE  GoesOn
<1> DEFINE is == CodeAt(j)
           ks == KindsAt(j)
           bs == SubSeq(stubBytes, 1, 3) \o << ZeroByte >>
<1>1. /\ j # size /\ PlatterCode(is, ks) /\ Here(jumpTable[j], is, ks, n) /\ TypedCode(is, ks)
      /\ HeadsBut({}) /\ size \in Nat
  <2>1. j # size
    BY InsideFacts DEF OOBCode
  <2> QED BY <2>1, InsideFacts
<1>2. /\ Holds(ks[n]) /\ Fits(is[n], ks[n], ks[n + 1])
  BY <1>1, HereFacts DEF Layout
<1>3. ks[n].eax = "entry" /\ ks[n + 1] = Kind("half", ks[n].ebx, ks[n].edx)
  BY <1>2 DEF Fits
<1>4. PICK i \in 0 .. size - 1 : cpu.eax = jumpTable[i]
  BY <1>2, <1>3 DEF Holds, HoldsIn, Entries
<1>5. /\ Writes(cpu.eax, bs) /\ (\A k \in 1 .. 4 : bs[k] \in Byte)
      /\ (\A k \in 1 .. 3 : bs[k] = stubBytes[k])
  BY HeadBytes DEF StubHead
<1> HIDE DEF bs
<1>6. /\ Types' /\ size' = size /\ jumpTable' = jumpTable /\ stack' = stack /\ arrays' = arrays
      /\ cpu'.eax = cpu.eax /\ cpu'.ebx = cpu.ebx /\ cpu'.edx = cpu.edx
  BY <1>5, WriteFacts
<1>7. jumpTable[i] \in Nat /\ cpu.eax \in jumpTable[i] .. jumpTable[i] + 3
  <2>1. i \in 0 .. size
    BY <1>1
  <2>2. jumpTable[i] \in Nat
    BY <2>1, CodeFacts DEF CodeKnown
  <2> QED BY <1>4, <2>2
<1>8. /\ Layout' /\ Tails' /\ Len(memory') = Len(memory)
      /\ \A x : CodeAt(x)' = CodeAt(x) /\ KindsAt(x)' = KindsAt(x)
      /\ \A x \in 0 .. size - 1 :
           x # i => (Whole(x) => Whole(x)') /\ (Stubbed(x) => Stubbed(x)')
  BY <1>5, <1>6, <1>7, OnlyOne
<1>9. HalfWritten(i)'
  <2>1. \A k \in 1 .. 4 : memory'[cpu.eax + k] = bs[k]
    BY <1>4, <1>5, <1>7, MemoryWritten DEF Layout
  <2>2. \A k \in 1 .. 3 : memory'[jumpTable[i] + k] = stubBytes[k]
    BY <1>4, <1>5, <2>1
  <2> QED BY <1>6, <2>2 DEF HalfWritten
<1>10. HeadsBut({i})'
  BY <1>1, <1>6, <1>8 DEF HeadsBut
<1>11. Heads(ks[n + 1])'
  <2>1. cpu'.eax = jumpTable'[i]
    BY <1>4, <1>6
  <2>2. (ks[n + 1])' = Kind("half", ks[n].ebx, ks[n].edx)
    BY <1>3, <1>8
  <2>3. \E x \in 0 .. size' - 1 :
          cpu'.eax = jumpTable'[x] /\ HalfWritten(x)' /\ HeadsBut({x})'
    BY <1>6, <1>9, <1>10, <2>1
  <2>4. (ks[n + 1])'.eax = "half"
    BY <2>2 DEF Kind
  <2> QED BY <2>3, <2>4 DEF Heads
<1>12. HoldsIn(ks[n + 1], cpu', stack', DOMAIN arrays, Entries)
  <2>1. HoldsIn(ks[n], cpu, stack, DOMAIN arrays, Entries)
    BY <1>2 DEF Holds
  <2>2. "half" \notin Codes
    BY CodesFacts
  <2>3. HoldsIn(Kind("half", ks[n].ebx, ks[n].edx), cpu', stack', DOMAIN arrays, Entries)
    BY <1>6, <2>1, <2>2, HoldsNewEax
  <2> QED BY <1>3, <2>3
<1>13. n + 1 \in 1 .. Len(is) /\ is[n + 1].name = "stubTail"
  <2>1. n < Len(is) /\ is[n + 1].name = "stubTail"
    BY <1>1 DEF PlatterCode
  <2>2. Len(is) \in Nat
    BY <1>1, TypedOffsets
  <2> QED BY <2>1, <2>2
<1> QED BY <1>5, <1>8, <1>11, <1>12, <1>13, WritesOn

\* The second half is written: the stub is whole.
LEMMA StubTailGoes ==
  ASSUME Types, Layout, Tails, NEW j \in 0 .. size, NEW n \in 1 .. Len(CodeAt(j)), Inside(j, n),
         CodeAt(j)[n].name = "stubTail", StubTail
  PROVE  GoesOn
<1> DEFINE is == CodeAt(j)
           ks == KindsAt(j)
           bs == SubSeq(stubBytes, 4, 7)
<1>1. /\ j # size /\ PlatterCode(is, ks) /\ Here(jumpTable[j], is, ks, n) /\ TypedCode(is, ks)
      /\ ks[n].eax = "half" /\ size \in Nat
  <2>1. j # size
    BY InsideFacts DEF OOBCode
  <2> QED BY <2>1, InsideFacts
<1>2. /\ Holds(ks[n]) /\ Fits(is[n], ks[n], ks[n + 1])
  BY <1>1, HereFacts DEF Layout
<1>3. ks[n + 1] = Kind("any", ks[n].ebx, ks[n].edx)
  BY <1>2 DEF Fits
<1>4. PICK i \in 0 .. size - 1 : cpu.eax = jumpTable[i] /\ HalfWritten(i) /\ HeadsBut({i})
  BY <1>1 DEF Inside, Heads
<1>5. /\ Writes(cpu.eax + 3, bs) /\ (\A k \in 1 .. 4 : bs[k] \in Byte)
      /\ (\A k \in 1 .. 4 : bs[k] = stubBytes[3 + k])
  BY TailBytes DEF StubTail
<1> HIDE DEF bs
<1>6. /\ Types' /\ size' = size /\ jumpTable' = jumpTable /\ stack' = stack /\ arrays' = arrays
      /\ cpu'.eax = cpu.eax /\ cpu'.ebx = cpu.ebx /\ cpu'.edx = cpu.edx
  BY <1>5, WriteFacts
<1>7. /\ jumpTable[i] \in Nat /\ cpu.eax + 3 \in Nat
      /\ cpu.eax + 3 \in jumpTable[i] .. jumpTable[i] + 3
      /\ jumpTable[i] + 7 <= Len(memory) /\ Len(memory) \in Nat
  <2>1. i \in 0 .. size
    BY <1>1
  <2>2. /\ jumpTable[i] \in Nat /\ TypedCode(CodeAt(i), KindsAt(i)) /\ PlatterCode(CodeAt(i), KindsAt(i))
        /\ jumpTable[i] + Extent(CodeAt(i)) <= Len(memory) /\ Len(memory) \in Nat
    BY <2>1, CodeFacts DEF CodeKnown
  <2>3. Extent(CodeAt(i)) \in Nat /\ Extent(CodeAt(i)) >= 7
    BY <2>2, TypedOffsets DEF PlatterCode, Extent, StubSize
  <2> QED BY <1>4, <2>2, <2>3
<1>8. /\ Layout' /\ Tails' /\ Len(memory') = Len(memory)
      /\ \A x : CodeAt(x)' = CodeAt(x) /\ KindsAt(x)' = KindsAt(x)
      /\ \A x \in 0 .. size - 1 :
           x # i => (Whole(x) => Whole(x)') /\ (Stubbed(x) => Stubbed(x)')
  BY <1>5, <1>6, <1>7, OnlyOne
<1>9. \A x \in 1 .. 7 : memory'[jumpTable[i] + x] = stubBytes[x]
  <2> DEFINE a == cpu.eax + 3
  <2>1. /\ \A k \in 1 .. 4 : memory'[a + k] = bs[k]
        /\ \A x \in 1 .. Len(memory) : x \notin a + 1 .. a + 4 => memory'[x] = memory[x]
    <3>1. Writes(a, bs) /\ a \in Nat
      BY <1>5, <1>7
    <3> HIDE DEF a
    <3> QED BY <1>5, <3>1, MemoryWritten DEF Layout
  <2> HIDE DEF a
  <2>2. ASSUME NEW x \in 1 .. 3 PROVE memory'[jumpTable[i] + x] = stubBytes[x]
    <3>1. jumpTable[i] + x \in 1 .. Len(memory) /\ jumpTable[i] + x \notin a + 1 .. a + 4
      <4>1. /\ a = jumpTable[i] + 3 /\ jumpTable[i] \in Nat
            /\ jumpTable[i] + 7 <= Len(memory) /\ Len(memory) \in Nat
        BY <1>4, <1>7 DEF a
      <4>2. \A t \in Nat, N \in Nat : t + 7 <= N =>
              t + x \in 1 .. N /\ t + x \notin t + 3 + 1 .. t + 3 + 4
        OBVIOUS
      <4> QED BY <4>1, <4>2
    <3>2. memory[jumpTable[i] + x] = stubBytes[x]
      BY <1>4 DEF HalfWritten
    <3> QED BY <2>1, <3>1, <3>2
  <2>3. ASSUME NEW x \in 4 .. 7 PROVE memory'[jumpTable[i] + x] = stubBytes[x]
    <3>1. x - 3 \in 1 .. 4 /\ a + (x - 3) = jumpTable[i] + x /\ 3 + (x - 3) = x
      <4>1. a = jumpTable[i] + 3 /\ jumpTable[i] \in Nat
        BY <1>4, <1>7 DEF a
      <4>2. \A t \in Nat : t + 3 + (x - 3) = t + x /\ x - 3 \in 1 .. 4 /\ 3 + (x - 3) = x
        OBVIOUS
      <4> QED BY <4>1, <4>2
    <3>2. memory'[a + (x - 3)] = stubBytes[3 + (x - 3)]
      BY <1>5, <2>1, <3>1
    <3> QED BY <3>1, <3>2
  <2>4. \A x \in 1 .. 7 : x \in 1 .. 3 \/ x \in 4 .. 7
    OBVIOUS
  <2> QED BY <2>2, <2>3, <2>4
<1>10. Stubbed(i)'
  <2>1. \A x \in 1 .. Len(recompileStub) : \A k \in 1 .. recompileStub[x].length :
          memory'[jumpTable[i] + Offsets(recompileStub)[x - 1] + k] = << recompileStub[x], k >>
    <3> DEFINE m == memory'
               base == jumpTable[i]
    <3>1. base \in Nat /\ \A x \in 1 .. 7 : m[base + x] = stubBytes[x]
      BY <1>7, <1>9
    <3> HIDE DEF m, base
    <3>2. \A x \in 1 .. Len(recompileStub) : \A k \in 1 .. recompileStub[x].length :
            m[base + Offsets(recompileStub)[x - 1] + k] = << recompileStub[x], k >>
      BY ONLY <3>1, StubWritten
    <3> QED BY <3>2 DEF m, base
  <2> QED BY <1>6, <2>1 DEF Stubbed, Written, ByteAt
<1>11. Heads(ks[n + 1])'
  <2>1. HeadsBut({})'
    BY <1>4, <1>6, <1>8, <1>10 DEF HeadsBut
  <2>2. (ks[n + 1])' = Kind("any", ks[n].ebx, ks[n].edx)
    BY <1>3, <1>8
  <2> QED BY <2>1, <2>2 DEF Heads, Kind
<1>12. HoldsIn(ks[n + 1], cpu', stack', DOMAIN arrays, Entries)
  <2>1. HoldsIn(ks[n], cpu, stack, DOMAIN arrays, Entries)
    BY <1>2 DEF Holds
  <2>2. "any" \notin Codes
    BY CodesFacts
  <2>3. HoldsIn(Kind("any", ks[n].ebx, ks[n].edx), cpu', stack', DOMAIN arrays, Entries)
    BY <1>6, <2>1, <2>2, HoldsNewEax
  <2> QED BY <1>3, <2>3
<1>13. n + 1 \in 1 .. Len(is) /\ is[n + 1].name = "jmp"
  <2>1. n < Len(is) /\ is[n + 1].name = "jmp"
    BY <1>1 DEF PlatterCode
  <2>2. Len(is) \in Nat
    BY <1>1, TypedOffsets
  <2> QED BY <2>1, <2>2
<1> QED BY <1>5, <1>8, <1>11, <1>12, <1>13, WritesOn

-----------------------------------------------------------------------------
\* Whatever instruction the processor executes, it stays where the invariant
\* says, or native code is at an end.
LEMMA ProcessorGoes ==
  ASSUME Types, Layout, Tails, Native, Processor
  PROVE  GoesOn \/ Stops
<1>1. ASSUME NEW j \in 0 .. size, NEW n \in 1 .. Len(CodeAt(j)), Inside(j, n)
      PROVE  GoesOn \/ Stops
  <2>1. Here(jumpTable[j], CodeAt(j), KindsAt(j), n)
    BY <1>1, InsideFacts
  <2>2. \/ Steps(jumpTable[j], CodeAt(j), KindsAt(j), n)
        \/ Stops
        \/ CodeAt(j)[n].name = "jmpEax" /\ cpu.eax \in Entries /\ Moves(cpu.eax, Fresh)
        \/ /\ CodeAt(j)[n].name = "callEdx"
           /\ CallsRun(KindsAt(j)[n], jumpTable[j] + Offsets(CodeAt(j))[n])
        \/ CodeAt(j)[n].name = "stubHead" /\ StubHead
        \/ CodeAt(j)[n].name = "stubTail" /\ StubTail
    BY <2>1, ProcessorSteps
  <2> QED BY <1>1, <2>2, StepsInPlatter, JumpsToPlatter, CallsFromPlatter, StubHeadGoes, StubTailGoes
<1>2. CASE InPlatter
  BY <1>1, <1>2 DEF InPlatter
<1>3. CASE InStub
  BY <1>3, StubGoes DEF InStub
<1>4. CASE cpu.eip = RunAddress
  <2>1. Executable(cpu.eip)
    BY DEF Processor, Executes, Load, Store, StoreValue, Add, Conjoin, Complement, Mul, Div, DivTraps,
       Clear, MoveWord, LowByte, Compare, JumpIfEcxZero, JumpIfNotZero, JumpShort, JumpToEax,
       PopEdx, CallEdx, ArrayOf, LoadPlatter, OrDirty, StorePlatter, CodeOf, StubHead, StubTail
  <2> QED BY <1>4, <2>1 DEF Executable, RunAddress
<1> QED BY <1>2, <1>3, <1>4 DEF Native

-----------------------------------------------------------------------------
\* run()

\* What is known where native code is entered.
LEMMA EnterGoes ==
  ASSUME Types, Layout, Tails, Control, Enter
  PROVE  Types' /\ Layout' /\ Tails' /\ Control'
<1>1. /\ stack = << >> /\ HeadsBut({}) /\ Resumes(resumeAt) /\ resumeAt \in 0 .. Len(memory)
  BY DEF Control, Enter
<1>2. /\ mode' = "native" /\ stack' = << RunAddress >>
      /\ cpu' = [cpu EXCEPT !.eip = resumeAt, !.eax = eaxValue, !.ecx = resumeAt]
      /\ UNCHANGED << registers, arrays, code, frame >>
  BY <1>1 DEF Enter, Pushed
<1>3. /\ DOMAIN cpu' = DOMAIN cpu /\ cpu'.eip = resumeAt /\ cpu'.eax = eaxValue
      /\ cpu'.ebx = cpu.ebx /\ cpu'.ecx = resumeAt
  BY <1>2 DEF Types, CpuTyped
<1>4. size' = size
  BY <1>2 DEF size
<1>5. eaxValue \in Word /\ eaxValue' = eaxValue /\ resumeAt' = resumeAt /\ resumeAt \in Nat
  BY <1>1, <1>2 DEF Types, frame
<1>6. Types'
  <2>1. CpuTyped'
    BY <1>3, <1>5, WordFacts DEF Types, CpuTyped
  <2>2. ArraysTyped' /\ registers' \in [Register -> Word]
    BY <1>2 DEF Types, ArraysTyped
  <2> QED BY <1>5, <2>1, <2>2 DEF Types
<1>7. /\ \A j : /\ CodeAt(j)' = CodeAt(j) /\ KindsAt(j)' = KindsAt(j)
                /\ Whole(j)' = Whole(j)
      /\ HeadsBut({})' /\ Tails' /\ Layout' /\ Entries' = Entries
      /\ jumpTable' = jumpTable /\ memory' = memory
  BY <1>1, <1>2, <1>4, SameCode
<1>8. ASSUME NEW k \in {Fresh, Holding} PROVE (Holds(k))'
  <2>1. HoldsIn(k, cpu', stack', DOMAIN arrays', Entries')
    BY <1>2, <1>3, <1>5, CodesFacts DEF HoldsIn, Fresh, Holding, Eax, Kind
  <2> QED BY <2>1 DEF Holds
<1>9. PICK j \in 0 .. size : \E n \in 1 .. Len(CodeAt(j)) :
        /\ resumeAt = jumpTable[j] + Offsets(CodeAt(j))[n - 1]
        /\ KindsAt(j)[n] \in {Fresh, Holding}
        /\ n = 1 \/ (j # size /\ Offsets(CodeAt(j))[n - 1] >= StubSize)
  BY <1>1 DEF Resumes
<1>10. PICK n \in 1 .. Len(CodeAt(j)) :
        /\ resumeAt = jumpTable[j] + Offsets(CodeAt(j))[n - 1]
        /\ KindsAt(j)[n] \in {Fresh, Holding}
        /\ n = 1 \/ (j # size /\ Offsets(CodeAt(j))[n - 1] >= StubSize)
  BY <1>9
<1>11. TypedCode(CodeAt(j), KindsAt(j)) /\ jumpTable[j] \in Nat
  BY CodeFacts DEF CodeKnown
<1>12. size = 1 => Whole(0)'
  BY <1>1, <1>7 DEF Resumes
<1>13. ASSUME n = 1 PROVE Native'
  <2>1. cpu'.eip = jumpTable[j]
    <3>1. Offsets(CodeAt(j))[1 - 1] = 0
      BY <1>11, TypedOffsets
    <3> QED BY <1>3, <1>10, <1>11, <1>13, <3>1
  <2>2. (Holds(Fresh))'
    BY <1>8
  <2>3. Arrived(j)'
    BY <1>4, <1>7, <1>12, <2>1, <2>2 DEF Arrived
  <2>4. Arrival'
    BY <1>6, <1>7, ArrivalFacts, PTL
  <2>5. InPlatter' \/ InStub'
    BY <1>4, <2>3, <2>4 DEF Arrival
  <2> QED BY <2>5 DEF Native
<1>14. ASSUME j # size, Offsets(CodeAt(j))[n - 1] >= StubSize PROVE Native'
  <2>1. (Holds(KindsAt(j)[n]))'
    <3>1. (KindsAt(j)[n])' \in {Fresh, Holding}
      BY <1>7, <1>10
    <3>2. HoldsIn((KindsAt(j)[n])', cpu', stack', DOMAIN arrays', Entries')
      BY <1>8, <3>1 DEF Holds
    <3> QED BY <3>2 DEF Holds
  <2>2. At(jumpTable[j], CodeAt(j), KindsAt(j), n)'
    BY <1>3, <1>7, <1>10, <2>1 DEF At
  <2>3. Heads(KindsAt(j)[n])'
    <3>1. (KindsAt(j)[n])'.eax # "half"
      BY <1>7, <1>10 DEF Fresh, Holding, Eax, Kind
    <3> QED BY <1>7, <3>1 DEF Heads
  <2>4. NoWayBack(j, n)'
    BY <1>4, <1>12 DEF NoWayBack
  <2>5. Inside(j, n)'
    BY <1>4, <1>7, <1>14, <2>2, <2>3, <2>4 DEF Inside
  <2>6. InPlatter'
    BY <1>4, <1>7, <2>5 DEF InPlatter
  <2> QED BY <2>6 DEF Native
<1>15. Native'
  BY <1>10, <1>13, <1>14
<1>16. Control'
  BY <1>1, <1>2, <1>5, <1>7, <1>15 DEF Control
<1> QED BY <1>6, <1>7, <1>16

\* run() is returned to, with a request.
LEMMA LeaveGoes ==
  ASSUME Types, Layout, Tails, Control, Leave
  PROVE  Types' /\ Layout' /\ Tails' /\ Control'
<1>1. Native /\ cpu.eip = RunAddress
  BY DEF Control, Leave
<1>2. stack = << stack[1] >> /\ Returns(cpu.eax, stack[1])
  <2>1. ~InPlatter
    <3>1. ASSUME NEW j \in 0 .. size, NEW n \in 1 .. Len(CodeAt(j)), Inside(j, n) PROVE FALSE
      <4>1. Executable(cpu.eip)
        BY <3>1, InsideFacts, HereFacts DEF Layout
      <4> QED BY <1>1, <4>1 DEF Executable, RunAddress
    <3> QED BY <3>1 DEF InPlatter
  <2>2. ~InStub
    <3>1. ASSUME NEW j \in 0 .. size - 1, NEW n \in 1 .. Len(recompileStub), Stubbed(j),
                 At(jumpTable[j], recompileStub, stubKinds, n)
          PROVE  FALSE
      <4>1. Executable(cpu.eip)
        BY <3>1, HereInStub, HereFacts DEF Layout
      <4> QED BY <1>1, <4>1 DEF Executable, RunAddress
    <3> QED BY <3>1 DEF InStub
  <2> QED BY <1>1, <2>1, <2>2 DEF Native
<1>3. Head(stack) = stack[1] /\ Tail(stack) = << >>
  <2> DEFINE a == stack[1]
  <2>1. stack = << a >>
    BY <1>2
  <2> HIDE DEF a
  <2>2. Head(stack) = a /\ Tail(stack) = << >>
    BY <2>1
  <2> QED BY <2>2 DEF a
<1>4. /\ mode' = "serving" /\ resumeAt' = stack[1] /\ stack' = << >>
      /\ returned'.eax = cpu.eax
      /\ UNCHANGED << registers, arrays, code, cpu, eaxValue >>
  BY <1>3 DEF Leave
<1>5. size' = size
  BY <1>4 DEF size
<1>6. Types'
  BY <1>4 DEF Types, ArraysTyped, CpuTyped
<1>7. Tails' /\ Layout' /\ memory' = memory
  BY <1>4, <1>5, SameCode
<1>9. Returns(returned.eax, resumeAt)'
  <2>1. ASSUME NEW c, NEW a, Returns(c, a) PROVE Returns(c, a)'
    BY <1>4, <1>5, <2>1, SameReturns
  <2>2. \A c, a : Returns(c, a) => Returns(c, a)'
    BY <2>1
  <2> QED BY <1>2, <1>4, <2>2
<1>10. resumeAt' \in 0 .. Len(memory') /\ cpu'.eip = RunAddress
  BY <1>1, <1>2, <1>4, <1>7 DEF Returns
<1> QED BY <1>4, <1>6, <1>7, <1>9, <1>10 DEF Control

\* Code that has just been generated is all there.
Anew ==
  /\ size \in Nat /\ compiled \in [0 .. size - 1 -> Word]
  /\ jumpTable = jumpTableFor(size, compiled)
  /\ memory = blockFor(size, compiled)

Begun ==
  /\ Layout /\ Tails /\ HeadsBut({}) /\ jumpTable[0] = 0
  /\ \A j \in 0 .. size : Whole(j) /\ Resumes(jumpTable[j]) /\ jumpTable[j] \in 0 .. Len(memory)

\* It can be entered at every platter.
LEMMA AnewFacts == Types /\ Anew => Begun
<1> SUFFICES ASSUME Types, Anew PROVE Begun
  OBVIOUS
<1>1. size \in Nat /\ compiled \in [0 .. size - 1 -> Word]
  BY DEF Anew
<1>2. TableFor(size, compiled, jumpTable) /\ BlockFor(size, compiled, jumpTable, memory)
  BY <1>1, TableFacts, BlockFacts DEF Anew
<1>3. Layout /\ jumpTable[0] = 0
  BY <1>1, <1>2 DEF Layout, TableFor, BlockFor
<1>4. ASSUME NEW j \in 0 .. size PROVE Whole(j)
  BY <1>2 DEF BlockFor, Whole, Written, ByteAt, CodeAt
<1>5. HeadsBut({})
  <2>1. \A j \in 0 .. size - 1 : j \in 0 .. size
    BY <1>1
  <2> QED BY <1>4, <2>1 DEF HeadsBut
<1>6. Tails
  <2>1. \A j \in 0 .. size - 1 : Whole(j)
    <3>1. \A j \in 0 .. size - 1 : j \in 0 .. size
      BY <1>1
    <3> QED BY <1>4, <3>1
  <2>2. size \in 0 .. size
    BY <1>1
  <2> QED BY <1>4, <2>1, <2>2 DEF Tails, Whole, Written, WrittenAfter
<1>7. ASSUME NEW j \in 0 .. size
      PROVE  Resumes(jumpTable[j]) /\ jumpTable[j] \in 0 .. Len(memory)
  <2>1. /\ TypedCode(CodeAt(j), KindsAt(j)) /\ jumpTable[j] \in Nat
        /\ jumpTable[j] + Extent(CodeAt(j)) <= Len(memory) /\ Len(memory) \in Nat
    BY <1>3, CodeFacts DEF CodeKnown
  <2>2. /\ KindsAt(j)[1] = Fresh /\ 1 \in 1 .. Len(CodeAt(j))
        /\ Offsets(CodeAt(j))[1 - 1] = 0 /\ Extent(CodeAt(j)) \in Nat
    BY <2>1, TypedOffsets DEF TypedCode
  <2>3. jumpTable[j] = jumpTable[j] + Offsets(CodeAt(j))[1 - 1]
    BY <2>1, <2>2
  <2>4. 0 \in 0 .. size
    BY <1>1
  <2>5. jumpTable[j] \in 0 .. Len(memory)
    BY <2>1, <2>2
  <2> QED BY <1>4, <2>2, <2>3, <2>4, <2>5 DEF Resumes
<1> QED BY <1>3, <1>4, <1>5, <1>6, <1>7 DEF Begun

\* run() answers a request and goes on after the call.
LEMMA AnswersGo ==
  ASSUME Types, Layout, Tails, Control, RunAnswers
  PROVE  Types' /\ Layout' /\ Tails' /\ Control'
<1>1. /\ mode = "serving" /\ mode' = "entering" /\ eaxValue' \in Word
      /\ returned.eax \in {ReturnCode[x] : x \in {"allocation", "input", "output"}}
      /\ UNCHANGED << registers, arrays, code, cpu, stack, resumeAt >>
  BY NativeAssumption DEF RunAnswers, Requested, Types
<1>2. stack = << >> /\ Resumes(resumeAt) /\ HeadsBut({})
  BY <1>1 DEF Control, Returns
<1>3. size' = size
  BY <1>1 DEF size
<1>4. Types'
  BY <1>1 DEF Types, ArraysTyped, CpuTyped
<1>5. Layout' /\ Tails' /\ HeadsBut({})' /\ memory' = memory
  BY <1>1, <1>2, <1>3, SameCode
<1>6. Resumes(resumeAt)'
  <2>1. ASSUME NEW a, Resumes(a) PROVE Resumes(a)'
    BY <1>1, <1>3, <2>1, SameReturns
  <2>2. \A a : Resumes(a) => Resumes(a)'
    BY <2>1
  <2> QED BY <1>1, <1>2, <2>2
<1>7. resumeAt' \in 0 .. Len(memory') /\ cpu'.eip = RunAddress
  BY <1>1, <1>5 DEF Control
<1> QED BY <1>1, <1>2, <1>4, <1>5, <1>6, <1>7 DEF Control

\* lower_bound finds a platter past the first where an address is past the
\* first platter's beginning.
LEMMA LowerBoundFacts ==
  ASSUME Types, Layout, size > 1, NEW a \in Nat, a > 0
  PROVE  lowerBound(a) \in 1 .. size - 1
<1> DEFINE P(k) == /\ \A j \in 0 .. k - 1 : jumpTable[j] < a
                   /\ k = size - 1 \/ jumpTable[k] >= a
           T == { k \in 0 .. size - 1 : k = size - 1 \/ jumpTable[k] >= a }
<1>1. size \in Nat /\ jumpTable[0] = 0 /\ \A j \in 0 .. size : jumpTable[j] \in Nat
  BY CodeFacts DEF CodeKnown
<1>2. T \subseteq Nat /\ size - 1 \in T
  BY <1>1
<1>3. PICK m \in T : \A k \in T : m <= k
  <2> HIDE DEF T
  <2> QED BY <1>2, LeastNumber
<1>4. \E k \in 0 .. size - 1 : P(k)
  <2>1. m \in 0 .. size - 1 /\ (m = size - 1 \/ jumpTable[m] >= a)
    OBVIOUS
  <2>2. ASSUME NEW j \in 0 .. m - 1 PROVE jumpTable[j] < a
    <3>1. j \in 0 .. size - 1 /\ j < m /\ j \in 0 .. size
      BY <1>1, <2>1
    <3>2. j \notin T
      BY <1>3, <3>1
    <3>3. ~(jumpTable[j] >= a)
      BY <3>1, <3>2
    <3> QED BY <1>1, <3>1, <3>3
  <2> QED BY <2>1, <2>2
<1>5. lowerBound(a) = CHOOSE k \in 0 .. size - 1 : P(k)
  BY DEF lowerBound, size
<1>6. lowerBound(a) \in 0 .. size - 1 /\ P(lowerBound(a))
  <2> HIDE DEF P
  <2> QED BY <1>4, <1>5
<1>7. lowerBound(a) # 0
  BY <1>1, <1>6
<1> QED BY <1>1, <1>6, <1>7

\* run() generates the code of array 0 anew, and goes on at the platter before.
LEMMA RecompileGoes ==
  ASSUME Types, Layout, Tails, Control, Recompile
  PROVE  Types' /\ Layout' /\ Tails' /\ Control'
<1>1. /\ mode = "serving" /\ mode' = "entering" /\ returned.eax = ReturnCode["recompile"]
      /\ arrays' = [arrays EXCEPT ![0].dirty = FALSE]
      /\ memory' = blockFor(arrays[0].size, arrays[0].platters)
      /\ jumpTable' = jumpTableFor(arrays[0].size, arrays[0].platters)
      /\ compiled' = arrays[0].platters
      /\ resumeAt' = jumpTable'[fingerPositionFor(resumeAt)]
      /\ UNCHANGED << registers, cpu, stack, eaxValue >>
  BY DEF Recompile, Requested, Generates
<1>2. /\ stack = << >> /\ size > 1 /\ cpu.eip = RunAddress
      /\ \E j \in 0 .. size - 1 : resumeAt = jumpTable[j] + StubSize
  BY <1>1 DEF Control, Returns
<1>3. /\ ArraysTyped /\ 0 \in DOMAIN arrays
      /\ DOMAIN arrays[0] = {"size", "dirty", "nativeCode", "platters"}
      /\ arrays[0].size \in Nat /\ arrays[0].platters \in [0 .. arrays[0].size - 1 -> Word]
  BY DEF Types, ArraysTyped
<1>4. /\ DOMAIN arrays' = DOMAIN arrays /\ arrays'[0] = [arrays[0] EXCEPT !.dirty = FALSE]
      /\ \A i \in DOMAIN arrays : i # 0 => arrays'[i] = arrays[i]
  BY <1>1, <1>3
<1>5. /\ DOMAIN arrays'[0] = DOMAIN arrays[0] /\ arrays'[0].size = arrays[0].size
      /\ arrays'[0].platters = arrays[0].platters /\ arrays'[0].dirty = FALSE
  BY <1>3, <1>4
<1>6. size' = size
  BY <1>5 DEF size
<1>7. Types'
  <2>1. ArraysTyped'
    <3>1. ASSUME NEW i \in DOMAIN arrays'
          PROVE  /\ DOMAIN arrays'[i] = {"size", "dirty", "nativeCode", "platters"}
                 /\ arrays'[i].size \in Nat
                 /\ arrays'[i].platters \in [0 .. arrays'[i].size - 1 -> Word]
                 /\ arrays'[i].dirty \in BOOLEAN
      <4>1. CASE i = 0
        BY <1>3, <1>5, <4>1
      <4>2. CASE i # 0
        BY <1>3, <1>4, <4>2 DEF ArraysTyped
      <4> QED BY <4>1, <4>2
    <3> QED BY <1>3, <1>4, <3>1 DEF ArraysTyped
  <2> QED BY <1>1, <2>1 DEF Types, CpuTyped
<1>8. Anew'
  BY <1>1, <1>3, <1>5 DEF Anew, size
<1>9. Begun'
  BY <1>7, <1>8, AnewFacts, PTL
<1>10. /\ resumeAt \in Nat /\ resumeAt > 0 /\ size \in Nat
  <2>1. PICK j \in 0 .. size - 1 : resumeAt = jumpTable[j] + StubSize
    BY <1>2
  <2>2. size \in Nat
    BY CodeFacts DEF CodeKnown
  <2>3. j \in 0 .. size
    BY <2>2
  <2>4. jumpTable[j] \in Nat
    BY <2>3, CodeFacts DEF CodeKnown
  <2> QED BY <2>1, <2>2, <2>4 DEF StubSize
<1>11. fingerPositionFor(resumeAt) \in 0 .. size
  <2>1. lowerBound(resumeAt) \in 1 .. size - 1
    BY <1>2, <1>10, LowerBoundFacts
  <2> QED BY <1>10, <2>1 DEF fingerPositionFor
<1>12. /\ Layout' /\ Tails' /\ HeadsBut({})' /\ Resumes(resumeAt)' /\ resumeAt' \in 0 .. Len(memory')
  <2>1. PICK j \in 0 .. size : resumeAt' = jumpTable'[j]
    BY <1>1, <1>11
  <2>2. Resumes(jumpTable[j])' /\ jumpTable'[j] \in 0 .. Len(memory')
    BY <1>6, <1>9 DEF Begun
  <2> QED BY <1>9, <2>1, <2>2 DEF Begun
<1> QED BY <1>1, <1>2, <1>7, <1>12 DEF Control

-----------------------------------------------------------------------------
\* The invariant

\* The history variable is a view of the rest.
Seen == AtPlatterStart => platterStart = View

\* It holds when native code is entered for the first time.
LEMMA InitHolds == Init => NativeInvariant
<1> SUFFICES ASSUME Init PROVE NativeInvariant
  OBVIOUS
<1>1. PICK h \in Heaps :
       /\ arrays = [i \in DOMAIN h |-> [ size |-> h[i].size, dirty |-> FALSE,
                                         nativeCode |-> "null",
                                         platters |-> h[i].platters ]]
       /\ memory = blockFor(h[0].size, h[0].platters)
       /\ jumpTable = jumpTableFor(h[0].size, h[0].platters)
       /\ compiled = h[0].platters
  BY DEF Init
<1>2. /\ 0 \in DOMAIN h /\ DOMAIN h \subseteq Word
      /\ \A i \in DOMAIN h :
           h[i].size \in Nat /\ h[i].platters \in [0 .. h[i].size - 1 -> Word]
  BY NativeAssumption
<1>3. /\ DOMAIN arrays = DOMAIN h
      /\ \A i \in DOMAIN h :
           /\ DOMAIN arrays[i] = {"size", "dirty", "nativeCode", "platters"}
           /\ arrays[i].size = h[i].size /\ arrays[i].platters = h[i].platters
           /\ arrays[i].dirty = FALSE
  BY <1>1
<1>4. ArraysTyped
  BY <1>2, <1>3 DEF ArraysTyped
<1>5. Types
  <2>1. /\ registers \in [Register -> Word] /\ 0 \in Word /\ eaxValue \in Word
    BY NativeAssumption, WordFacts DEF Init
  <2>2. CpuTyped
    BY <2>1 DEF Init, CpuTyped
  <2> QED BY <1>4, <2>1, <2>2 DEF Types
<1>6. size = h[0].size
  BY <1>2, <1>3 DEF size
<1>7. Anew
  BY <1>1, <1>2, <1>6 DEF Anew
<1>8. Begun
  BY <1>5, <1>7, AnewFacts
<1>9. 0 \in 0 .. size
  BY <1>2, <1>6
<1>10. Resumes(jumpTable[0]) /\ jumpTable[0] = 0 /\ jumpTable[0] \in 0 .. Len(memory)
  BY <1>8, <1>9 DEF Begun
<1>11. Control
  <2>1. resumeAt = 0 /\ mode = "entering" /\ stack = << >> /\ cpu.eip = RunAddress
    BY DEF Init
  <2> QED BY <1>8, <1>10, <2>1 DEF Control, Begun
<1>12. platterStart = View
  BY DEF Init
<1> QED BY <1>5, <1>8, <1>11, <1>12 DEF NativeInvariant, Begun

\* A step of the processor, with what holds about run().
LEMMA ProcessorKeeps ==
  ASSUME Types, Layout, Tails, Control, Processor
  PROVE  Types' /\ Layout' /\ Tails' /\ Control'
<1>1. mode = "native" /\ Executable(cpu.eip)
  BY DEF Processor, Executes, Load, Store, StoreValue, Add, Conjoin, Complement, Mul, Div, DivTraps,
     Clear, MoveWord, LowByte, Compare, JumpIfEcxZero, JumpIfNotZero, JumpShort, JumpToEax,
     PopEdx, CallEdx, ArrayOf, LoadPlatter, OrDirty, StorePlatter, CodeOf, StubHead, StubTail
<1>2. GoesOn \/ Stops
  BY <1>1, ProcessorGoes DEF Control
<1>3. CASE GoesOn
  BY <1>1, <1>3 DEF GoesOn, Control, frame
<1>4. CASE Stops
  <2>1. /\ mode' \in {"undefined", "trapped"}
        /\ UNCHANGED << registers, arrays, code, cpu, stack, frame >>
    BY <1>4 DEF Stops
  <2>2. size' = size
    BY <2>1 DEF size
  <2>3. Layout' /\ Tails' /\ memory' = memory
    BY <2>1, <2>2, SameCode
  <2>4. Types'
    BY <2>1 DEF Types, ArraysTyped, CpuTyped, frame
  <2>5. cpu'.eip \in RunAddress .. Len(memory')
    <3>1. Len(memory) \in Nat
      BY CodeFacts DEF CodeKnown
    <3> QED BY <1>1, <2>1, <2>3, <3>1 DEF Executable, RunAddress
  <2> QED BY <2>1, <2>3, <2>4, <2>5 DEF Control, frame
<1> QED BY <1>2, <1>3, <1>4

\* Nothing happens.
LEMMA StutterKeeps ==
  ASSUME Types, Layout, Tails, Control, Seen, UNCHANGED vars
  PROVE  Types' /\ Layout' /\ Tails' /\ Control' /\ Seen'
<1>1. UNCHANGED << registers, arrays, code, cpu, stack, frame, mode, platterStart >>
  BY DEF vars
<1>2. size' = size
  BY <1>1 DEF size
<1>3. /\ \A j : /\ CodeAt(j)' = CodeAt(j) /\ KindsAt(j)' = KindsAt(j)
                /\ Whole(j)' = Whole(j) /\ Stubbed(j)' = Stubbed(j)
                /\ HalfWritten(j)' = HalfWritten(j)
      /\ \A S : HeadsBut(S)' = HeadsBut(S)
      /\ Tails' /\ Layout' /\ Entries' = Entries
      /\ jumpTable' = jumpTable /\ memory' = memory
  BY <1>1, <1>2, SameCode
<1>4. Types'
  BY <1>1 DEF Types, ArraysTyped, CpuTyped, frame
<1>5. \A a : Resumes(a)' = Resumes(a)
  BY <1>1, <1>2, SameReturns
<1>6. \A c, a : Returns(c, a)' = Returns(c, a)
  BY <1>1, <1>2, SameReturns
<1>7. ASSUME Native PROVE Native'
  <2>1. ASSUME InPlatter PROVE InPlatter'
    <3>1. PICK j \in 0 .. size : \E n \in 1 .. Len(CodeAt(j)) : Inside(j, n)
      BY <2>1 DEF InPlatter
    <3>2. PICK n \in 1 .. Len(CodeAt(j)) : Inside(j, n)
      BY <3>1
    <3>3. At(jumpTable[j], CodeAt(j), KindsAt(j), n)'
      BY <1>1, <1>3, <3>2 DEF Inside, At, Holds
    <3>4. Heads(KindsAt(j)[n])'
      BY <1>1, <1>2, <1>3, <3>2 DEF Inside, Heads
    <3>5. NoWayBack(j, n)'
      BY <1>1, <1>2, <1>3, <3>2 DEF Inside, NoWayBack
    <3>6. Inside(j, n)'
      BY <1>2, <1>3, <3>2, <3>3, <3>4, <3>5 DEF Inside
    <3> QED BY <1>2, <1>3, <3>6 DEF InPlatter
  <2>2. ASSUME InStub PROVE InStub'
    <3>1. PICK j \in 0 .. size - 1 : \E n \in 1 .. Len(recompileStub) :
            Stubbed(j) /\ At(jumpTable[j], recompileStub, stubKinds, n)
      BY <2>2 DEF InStub
    <3>2. PICK n \in 1 .. Len(recompileStub) :
            Stubbed(j) /\ At(jumpTable[j], recompileStub, stubKinds, n)
      BY <3>1
    <3>3. At(jumpTable[j], recompileStub, stubKinds, n)'
      BY <1>1, <1>3, <3>2 DEF At, Holds
    <3> QED BY <1>2, <1>3, <2>2, <3>2, <3>3 DEF InStub
  <2>3. ASSUME Returns(cpu.eax, stack[1]) PROVE Returns(cpu.eax, stack[1])'
    BY <1>1, <1>6, <2>3
  <2> QED BY <1>1, <1>7, <2>1, <2>2, <2>3 DEF Native
<1>8. resumeAt' = resumeAt /\ returned' = returned
  BY <1>1 DEF frame
<1>9. Resumes(resumeAt) => Resumes(resumeAt)'
  BY <1>5, <1>8
<1>10. Returns(returned.eax, resumeAt) => Returns(returned.eax, resumeAt)'
  BY <1>6, <1>8
<1>11. Control'
  BY <1>1, <1>3, <1>7, <1>8, <1>9, <1>10 DEF Control
<1>12. Seen'
  <2>1. AtPlatterStart' = AtPlatterStart
    BY <1>1, <1>3 DEF AtPlatterStart
  <2>2. View' = View
    BY <1>1 DEF View, CellAt, Spells, ReturnedToRun, PositionAfterStub, Position, PlatterAt,
       code, frame
  <2> QED BY <1>1, <2>1, <2>2 DEF Seen
<1> QED BY <1>3, <1>4, <1>11, <1>12

\* Every step keeps it.
LEMMA NextKeeps == NativeInvariant /\ [Next]_vars => NativeInvariant'
<1> SUFFICES ASSUME NativeInvariant, [Next]_vars PROVE NativeInvariant'
  OBVIOUS
<1>1. Types /\ Layout /\ Tails /\ Control /\ Seen
  BY DEF NativeInvariant, Seen
<1>2. CASE UNCHANGED vars
  BY <1>1, <1>2, StutterKeeps DEF NativeInvariant, Seen
<1>3. CASE Next
  <2>1. Types' /\ Layout' /\ Tails' /\ Control'
    BY <1>1, <1>3, EnterGoes, LeaveGoes, ProcessorKeeps, AnswersGo, RecompileGoes DEF Next
  <2>2. Seen'
    BY <1>3 DEF Next, Remembers, Seen
  <2> QED BY <2>1, <2>2 DEF NativeInvariant, Seen
<1> QED BY <1>2, <1>3

\* The inductive invariant of native code and of run()'s calls of it.
THEOREM NativeInvariantHolds == Spec => []NativeInvariant
<1>1. Init => NativeInvariant
  BY InitHolds
<1>2. NativeInvariant /\ [Next]_vars => NativeInvariant'
  BY NextKeeps
<1> QED BY <1>1, <1>2, PTL DEF Spec

-----------------------------------------------------------------------------
\* What follows from it

\* Code that is in memory instruction by instruction is there byte by byte.
LEMMA WrittenSpells ==
  ASSUME memory \in Seq(Byte), NEW is, NEW ks, TypedCode(is, ks), NEW base \in Nat,
         base + Extent(is) <= Len(memory), Written(base, is)
  PROVE  Spells(base, bytes(is))
<1> DEFINE bs == bytes(is)
           E == Extent(is)
           m == base + 1
           l == base + Len(bs)
           s == SubSeq(memory, m, l)
<1>1. /\ bs \in Seq(Byte) /\ Len(bs) = E /\ E \in Nat /\ Len(memory) \in Nat
      /\ \A n \in 1 .. Len(is) : \A k \in 1 .. is[n].length :
           bs[Offsets(is)[n - 1] + k] = << is[n], k >>
  BY TypedBytes, LenProperties
<1>2. ASSUME NEW x \in 1 .. E PROVE memory[base + x] = bs[x]
  <2> DEFINE T == { n \in 0 .. Len(is) : x <= Offsets(is)[n] }
  <2>1. /\ Len(is) \in Nat \ {0} /\ Offsets(is)[0] = 0
        /\ \A n \in 0 .. Len(is) : Offsets(is)[n] \in Nat
        /\ \A n \in 1 .. Len(is) : /\ is[n].length \in Nat
                                   /\ Offsets(is)[n] = Offsets(is)[n - 1] + is[n].length
    BY TypedOffsets
  <2>2. T \subseteq Nat /\ Len(is) \in T
    BY <1>2, <2>1 DEF Extent
  <2>3. PICK n \in T : \A k \in T : n <= k
    <3> HIDE DEF T
    <3> QED BY <2>2, LeastNumber
  <2>4. n \in 1 .. Len(is) /\ n - 1 \in 0 .. Len(is)
    <3>1. n \in 0 .. Len(is) /\ x <= Offsets(is)[n]
      OBVIOUS
    <3>2. n # 0
      BY <1>1, <1>2, <2>1, <3>1
    <3> QED BY <2>1, <3>1, <3>2
  <2>5. ~(x <= Offsets(is)[n - 1])
    <3>1. n - 1 \notin T
      BY <2>1, <2>3, <2>4
    <3> QED BY <2>4, <3>1
  <2> DEFINE k == x - Offsets(is)[n - 1]
  <2>6. k \in 1 .. is[n].length /\ Offsets(is)[n - 1] + k = x
        /\ base + Offsets(is)[n - 1] + k = base + x
    <3>1. /\ Offsets(is)[n - 1] \in Nat /\ Offsets(is)[n] \in Nat /\ is[n].length \in Nat
          /\ Offsets(is)[n] = Offsets(is)[n - 1] + is[n].length /\ x <= Offsets(is)[n]
          /\ x \in Nat
      <4>1. Offsets(is)[n - 1] \in Nat /\ Offsets(is)[n] \in Nat
        BY <2>1, <2>4
      <4>2. x <= Offsets(is)[n] /\ x \in Nat
        BY <1>2
      <4> QED BY <2>1, <2>4, <4>1, <4>2
    <3> QED BY <2>5, <3>1
  <2> HIDE DEF k
  <2>7. memory[base + Offsets(is)[n - 1] + k] = << is[n], k >>
    BY <2>4, <2>6 DEF Written, ByteAt
  <2>8. bs[Offsets(is)[n - 1] + k] = << is[n], k >>
    BY <1>1, <2>4, <2>6
  <2> QED BY <2>6, <2>7, <2>8
<1> HIDE DEF bs, E
<1>3. base + Len(bs) <= Len(memory)
  BY <1>1 DEF E
<1>4. s = bs
  <2>1. CASE E = 0
    <3>1. m \in 1 .. Len(memory) + 1 /\ l \in 0 .. Len(memory) /\ ~(m <= l)
      BY <1>1, <1>3, <2>1
    <3>2. s \in Seq(Byte) /\ Len(s) = IF m <= l THEN l - m + 1 ELSE 0
      <4> HIDE DEF m, l
      <4> QED BY <3>1, PartOf
    <3>3. s \in Seq(Byte) /\ Len(s) = Len(bs) /\ \A i \in 1 .. Len(bs) : s[i] = bs[i]
      BY <1>1, <2>1, <3>1, <3>2
    <3> HIDE DEF s
    <3> QED BY <1>1, <3>3, SeqEqual
  <2>2. CASE E # 0
    <3>1. /\ m \in 1 .. Len(memory) + 1 /\ l \in 0 .. Len(memory) /\ m <= l /\ l - m + 1 = Len(bs)
      BY <1>1, <1>3, <2>2
    <3>2. /\ s \in Seq(Byte) /\ Len(s) = IF m <= l THEN l - m + 1 ELSE 0
          /\ \A i \in 1 .. l - m + 1 : s[i] = memory[m + i - 1]
      <4> HIDE DEF m, l
      <4> QED BY <3>1, PartOf
    <3> HIDE DEF s
    <3>3. ASSUME NEW i \in 1 .. Len(bs) PROVE s[i] = bs[i]
      <4>1. i \in 1 .. l - m + 1 /\ i \in 1 .. E
        BY <1>1, <3>1
      <4>2. m + i - 1 = base + i
        OBVIOUS
      <4>3. s[i] = memory[base + i]
        BY <3>2, <4>1, <4>2
      <4> QED BY <1>2, <4>1, <4>3
    <3>4. Len(s) = Len(bs)
      BY <3>1, <3>2
    <3> QED BY <1>1, <3>2, <3>3, <3>4, SeqEqual
  <2> QED BY <2>1, <2>2
<1> QED BY <1>3, <1>4 DEF Spells, bs

\* At the start of a platter no code is half written: only the last two
\* instructions of an amendment find it so, and they are not where one begins.
LEMMA NoneHalfWritten ==
  ASSUME NativeInvariant, AtPlatterStart
  PROVE  HeadsBut({})
<1>1. Types /\ Layout /\ Tails /\ Control
  BY DEF NativeInvariant
<1>2. CASE mode = "entering"
  BY <1>1, <1>2 DEF Control
<1>3. CASE mode = "serving"
  BY <1>1, <1>3 DEF Control, Returns
<1>4. CASE mode = "native" /\ \E i \in DOMAIN jumpTable : cpu.eip = jumpTable[i]
  <2>1. Native
    BY <1>1, <1>4 DEF Control
  <2>2. ASSUME NEW j \in 0 .. size, NEW n \in 1 .. Len(CodeAt(j)), Inside(j, n)
        PROVE  HeadsBut({})
    <3>1. SUFFICES ASSUME CodeAt(j)[n].name = "stubTail" PROVE FALSE
      BY <1>1, <2>2, InsideFacts
    <3>2. /\ TypedCode(CodeAt(j), KindsAt(j)) /\ size \in Nat
          /\ j \in 0 .. size - 1 /\ j + 1 \in 0 .. size /\ PlatterCode(CodeAt(j), KindsAt(j))
          /\ jumpTable[j + 1] = jumpTable[j] + Extent(CodeAt(j))
      <4>1. j # size
        BY <1>1, <2>2, <3>1, InsideFacts DEF OOBCode
      <4> QED BY <1>1, <2>2, <4>1, InsideFacts
    <3> DEFINE o == Offsets(CodeAt(j))[n - 1]
    <3>3. o \in Nat /\ o > 0 /\ o < Extent(CodeAt(j)) /\ Extent(CodeAt(j)) \in Nat
      <4>1. o >= StubSize
        BY <3>1, <3>2 DEF PlatterCode
      <4>2. /\ o \in Nat /\ Offsets(CodeAt(j))[n] \in Nat /\ Extent(CodeAt(j)) \in Nat
            /\ o < Offsets(CodeAt(j))[n] /\ Offsets(CodeAt(j))[n] <= Extent(CodeAt(j))
        BY <3>2, InsideCode
      <4> QED BY <4>1, <4>2 DEF StubSize
    <3>4. cpu.eip = jumpTable[j] + o
      BY <2>2 DEF Inside, At
    <3> HIDE DEF o
    <3>5. PICK i \in 0 .. size : cpu.eip = jumpTable[i]
      <4>1. DOMAIN jumpTable = 0 .. size
        BY <1>1 DEF Layout, TableFor
      <4> QED BY <1>4, <4>1
    <3>6. jumpTable[i] \in Nat /\ jumpTable[j] \in Nat /\ jumpTable[j + 1] \in Nat
      BY <1>1, <3>2, CodeFacts DEF CodeKnown
    <3>7. i <= j => jumpTable[i] <= jumpTable[j]
      BY <1>1, CodeFacts DEF CodeKnown
    <3>8. j + 1 <= i => jumpTable[j + 1] <= jumpTable[i]
      BY <1>1, <3>2, CodeFacts DEF CodeKnown
    <3>9. i <= j \/ j + 1 <= i
      BY <3>2
    <3>10. jumpTable[j] < jumpTable[i] /\ jumpTable[i] < jumpTable[j + 1]
      BY <3>2, <3>3, <3>4, <3>5, <3>6
    <3> QED BY <3>6, <3>7, <3>8, <3>9, <3>10
  <2>3. InPlatter => HeadsBut({})
    BY <2>2 DEF InPlatter
  <2> QED BY <2>1, <2>3 DEF Native, InStub, Returns
<1> QED BY <1>2, <1>3, <1>4 DEF AtPlatterStart

-----------------------------------------------------------------------------
\* Every register and every platter stays a word, run() resumes inside the
\* block, and the processor is nowhere but in it or back in run() (the code
\* that codeFor emits, the calls of run()).
THEOREM NativeTypeCorrect == Spec => []TypeOK
<1>1. NativeInvariant => TypeOK
  <2> SUFFICES ASSUME NativeInvariant PROVE TypeOK
    OBVIOUS
  <2>1. Types /\ Layout /\ Tails /\ Control
    BY DEF NativeInvariant
  <2>2. Len(memory) \in Nat
    BY <2>1, CodeFacts DEF CodeKnown
  <2>3. cpu.eip \in RunAddress .. Len(memory)
    <3>1. CASE mode = "native"
      <4>1. ASSUME Executable(cpu.eip) PROVE cpu.eip \in RunAddress .. Len(memory)
        BY <2>2, <4>1 DEF Executable, RunAddress
      <4>2. ASSUME NEW j \in 0 .. size, NEW n \in 1 .. Len(CodeAt(j)), Inside(j, n)
            PROVE  Executable(cpu.eip)
        BY <2>1, <4>2, InsideFacts, HereFacts DEF Layout
      <4>3. ASSUME NEW j \in 0 .. size - 1, NEW n \in 1 .. Len(recompileStub), Stubbed(j),
                   At(jumpTable[j], recompileStub, stubKinds, n)
            PROVE  Executable(cpu.eip)
        BY <2>1, <4>3, HereInStub, HereFacts DEF Layout
      <4>4. CASE InPlatter
        BY <4>1, <4>2, <4>4 DEF InPlatter
      <4>5. CASE InStub
        BY <4>1, <4>3, <4>5 DEF InStub
      <4>6. CASE cpu.eip = RunAddress
        BY <2>2, <4>6 DEF RunAddress
      <4> QED BY <2>1, <3>1, <4>4, <4>5, <4>6 DEF Control, Native
    <3>2. CASE mode \in {"entering", "serving"}
      BY <2>1, <2>2, <3>2 DEF Control, RunAddress
    <3>3. CASE mode \in {"undefined", "trapped"}
      BY <2>1, <3>3 DEF Control
    <3> QED BY <2>1, <3>1, <3>2, <3>3 DEF Control
  <2> QED BY <2>1, <2>3 DEF TypeOK, Types, ArraysTyped, CpuTyped, Control
<1> QED BY <1>1, NativeInvariantHolds, PTL

\* The processor finds every instruction it comes to whole, wherever jumps, the
\* writing of stubs and run()'s resumptions have brought it, and run() finds
\* its return address alone on the stack (codeFor, its displacements and its
\* pop edx before call edx).
THEOREM StaysOnTheRails == Spec => []OnTheRails
<1>1. NativeInvariant => OnTheRails
  <2> SUFFICES ASSUME NativeInvariant, mode = "native"
               PROVE  IF cpu.eip = RunAddress THEN Len(stack) = 1 ELSE Executable(cpu.eip)
    BY DEF OnTheRails
  <2>1. Types /\ Layout /\ Tails /\ Native
    BY DEF NativeInvariant, Control
  <2>2. ASSUME NEW j \in 0 .. size, NEW n \in 1 .. Len(CodeAt(j)), Inside(j, n)
        PROVE  Executable(cpu.eip)
    BY <2>1, <2>2, InsideFacts, HereFacts DEF Layout
  <2>3. ASSUME NEW j \in 0 .. size - 1, NEW n \in 1 .. Len(recompileStub), Stubbed(j),
               At(jumpTable[j], recompileStub, stubKinds, n)
        PROVE  Executable(cpu.eip)
    BY <2>1, <2>3, HereInStub, HereFacts DEF Layout
  <2>4. ASSUME Executable(cpu.eip) PROVE cpu.eip # RunAddress
    BY <2>4 DEF Executable, RunAddress
  <2>5. CASE InPlatter
    BY <2>2, <2>4, <2>5 DEF InPlatter
  <2>6. CASE InStub
    BY <2>3, <2>4, <2>6 DEF InStub
  <2>7. CASE cpu.eip = RunAddress /\ stack = << stack[1] >>
    <3>1. Len(<< stack[1] >>) = 1
      OBVIOUS
    <3> QED BY <2>7, <3>1
  <2> QED BY <2>1, <2>5, <2>6, <2>7 DEF Native
<1> QED BY <1>1, NativeInvariantHolds, PTL

\* Whatever amendments of array 0 have written, every platter's code is at each
\* platter's start the code it was compiled to or a recompile stub, and the code
\* after the last platter is untouched (generateNativeCode, codeFor).
THEOREM CodeStaysWhole == Spec => []CodeWhole
<1>1. NativeInvariant => CodeWhole
  <2> SUFFICES ASSUME NativeInvariant, AtPlatterStart
               PROVE  /\ \A j \in 0 .. arrays[0].size - 1 : platterStart.cells[j] # Torn
                      /\ Spells(jumpTable[arrays[0].size], OOBStubBytes)
    BY DEF CodeWhole
  <2>1. Types /\ Layout /\ Tails /\ HeadsBut({}) /\ platterStart = View
    BY NoneHalfWritten DEF NativeInvariant
  <2>2. memory \in Seq(Byte) /\ compiled \in [0 .. size - 1 -> Word] /\ size \in Nat
    BY <2>1, CodeFacts DEF Layout, CodeKnown
  <2>3. ASSUME NEW j \in 0 .. size, Whole(j) PROVE Spells(jumpTable[j], bytes(CodeAt(j)))
    <3>1. /\ TypedCode(CodeAt(j), KindsAt(j)) /\ jumpTable[j] \in Nat
          /\ jumpTable[j] + Extent(CodeAt(j)) <= Len(memory)
      BY <2>1, CodeFacts DEF CodeKnown
    <3> QED BY <2>2, <2>3, <3>1, WrittenSpells DEF Whole
  <2>4. ASSUME NEW j \in 0 .. size - 1 PROVE platterStart.cells[j] # Torn
    <3>1. platterStart.cells[j] = CellAt(j)
      BY <2>1 DEF View, size
    <3>2. j \in 0 .. size /\ j # size /\ compiled[j] \in Word
      BY <2>2
    <3>3. CASE Stubbed(j)
      <4>1. /\ jumpTable[j] \in Nat /\ jumpTable[j] + Extent(CodeAt(j)) <= Len(memory)
            /\ TypedCode(CodeAt(j), KindsAt(j)) /\ PlatterCode(CodeAt(j), KindsAt(j))
            /\ Len(memory) \in Nat
        BY <2>1, <3>2, CodeFacts DEF CodeKnown
      <4>2. Extent(CodeAt(j)) \in Nat /\ Extent(CodeAt(j)) >= StubSize
        BY <4>1, TypedOffsets DEF PlatterCode, Extent
      <4>3. TypedCode(recompileStub, stubKinds) /\ Extent(recompileStub) = StubSize
        BY StubFacts
      <4>4. jumpTable[j] + Extent(recompileStub) <= Len(memory)
        BY <4>1, <4>2, <4>3 DEF StubSize
      <4>5. Spells(jumpTable[j], stubBytes)
        BY <2>2, <3>3, <4>1, <4>3, <4>4, WrittenSpells DEF Stubbed, stubBytes
      <4> QED BY <3>1, <4>5 DEF CellAt, StubCell, Torn
    <3>4. CASE Whole(j)
      <4>1. platterBytes[compiled[j]] = bytes(CodeAt(j))
        BY <3>2 DEF platterBytes, CodeAt, CodeIn
      <4>2. Spells(jumpTable[j], platterBytes[compiled[j]])
        BY <2>3, <3>2, <3>4, <4>1
      <4>3. compiled[j] # Torn
        BY <3>2, WordFacts DEF Torn
      <4> QED BY <3>1, <4>2, <4>3 DEF CellAt, StubCell, Torn
    <3> QED BY <2>1, <3>3, <3>4 DEF HeadsBut
  <2>5. Spells(jumpTable[size], OOBStubBytes)
    <3>1. size \in 0 .. size /\ Whole(size) /\ CodeAt(size) = codeForOOBStub
      BY <2>1, <2>2, CodeFacts DEF Tails, CodeKnown
    <3> QED BY <2>3, <3>1 DEF OOBStubBytes
  <2> QED BY <2>4, <2>5 DEF size
<1> QED BY <1>1, NativeInvariantHolds, PTL
==============================================================================
