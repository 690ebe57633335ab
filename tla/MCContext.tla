------------------------------ MODULE MCContext ------------------------------
(***************************************************************************)
(* Programs for the small machine TLC runs.                                *)
(*                                                                         *)
(* The boot loader is a universal machine program: it allocates arrays 1   *)
(* and 2, fills them with code words it picks by the characters it reads,  *)
(* and loads array 1.  A character is the offset in array 0 of a word of   *)
(* the vocabulary that follows the loader, so that the input enumerates    *)
(* every pair of programs over the vocabulary.                             *)
(***************************************************************************)
EXTENDS ContextRefinement, Assembler, TLC

CONSTANTS
  Program1Size,  \* platters in array 1
  Program2Size   \* platters in array 2

Scroll(code) ==
  [ size |-> Len(code), platters |-> [i \in 0 .. Len(code) - 1 |-> code[i + 1]] ]

\* Registers 0, 1, 2 hold 0, 1, 2; register 3 holds a word of the vocabulary.
Load(i)        == Op(loadProgram, 0, i, 0)
JumpTo(i)      == Op(loadProgram, 0, 0, i)
Amend(i, j)    == Op(arrayAmendment, i, j, 3)
Abandon(i)     == Op(abandonment, 0, 0, i)
Allocate(n)    == Op(allocation, 0, RegisterCount - 1, n)
Write(i)       == Op(output, 0, 0, i)
Stops          == Op(halt, 0, 0, 0)

ReadWord(r) == << Op(input, 0, 0, 5), Op(arrayIndex, r, 0, 5) >>

FillWord(array, j) ==
  ReadWord(6) \o << Orth(7, j), Op(arrayAmendment, array, 7, 6) >>

Fill(array, size) ==
  FoldFunction(LAMBDA code, rest : code \o rest, << >>,
               [j \in 1 .. size |-> FillWord(array, size - j)])

\* The loader leaves in register 3 the word at offset third of its scroll.
BootLoader(third) ==
  << Orth(1, 1), Orth(2, 2),
     Orth(3, Program1Size), Op(allocation, 0, 4, 3),
     Orth(3, Program2Size), Op(allocation, 0, 4, 3) >>
  \o Fill(1, Program1Size) \o Fill(2, Program2Size)
  \o << Orth(5, third), Op(arrayIndex, 3, 0, 5), Load(1) >>

BootSize == Len(BootLoader(0))

\* A scroll without platters, and one of a single platter that amends itself.
SmallScrolls == { Scroll(<< >>), Scroll(<< Op(arrayAmendment, 0, 0, 0) >>) }

\* The words that load, share, give back and free native code, and the jump
\* that comes back to an amended platter; register 3 holds one of the first two.
BootVocabulary ==
  << Load(2), JumpTo(1), Load(1), Amend(0, 1), Amend(1, 1), Abandon(1), Abandon(2),
     Allocate(1) >>

BootScrolls ==
  { Scroll(BootLoader(BootSize + k) \o BootVocabulary) : k \in {0, 1} }
  \union SmallScrolls

BootChars == { BootSize + k - 1 : k \in 1 .. Len(BootVocabulary) }

-----------------------------------------------------------------------------
\* Short programs over every operator, on registers 1 and 2 that hold small
\* values.  Register 3 holds the word `halt', register 0 holds 0.  NotAnd, which TLC
\* looks for among all words, comes first: what it makes of small values is a
\* large one for the operators that follow.
Nand == Op(notAnd, 1, 1, 2)

OperatorVocabulary ==
  { Op(conditionalMove, 1, 2, 1), Op(addition, 1, 1, 1),
    Op(multiplication, 2, 1, 1), Op(division, 1, 3, 2), Nand,
    Op(arrayIndex, 3, 0, 2), Op(arrayIndex, 2, 1, 1), Amend(0, 2), Amend(1, 0),
    Abandon(0), Abandon(1), Allocate(2), Write(1), Op(input, 0, 0, 2),
    Op(loadProgram, 0, 1, 0), Op(loadProgram, 0, 1, 2), JumpTo(2), Stops,
    14 * OperatorUnit + 5 }

OperatorScroll(y, first, w) ==
  Scroll(<< Orth(1, 1), Orth(2, y), Orth(3, 7), Op(arrayIndex, 3, 0, 3),
            first, w[1], w[2], Stops >>)

OperatorScrolls ==
  LET Rest == OperatorVocabulary \ {Nand}
  IN  { OperatorScroll(y, first, w) :
          y \in {0, 5}, first \in Rest, w \in [1 .. 2 -> Rest] }
      \union { OperatorScroll(5, Nand, w) : w \in [1 .. 2 -> Rest] }

MachineScrolls ==
  { Scroll(BootLoader(BootSize + 1) \o BootVocabulary) }
  \union SmallScrolls \union OperatorScrolls

-----------------------------------------------------------------------------
\* Programs that amend the platters ahead of them and behind them, the halt they
\* end in included, and load no program, or at their end a new array, all zeroes.
LoadNew == Op(loadProgram, 0, RegisterCount - 1, 0)

StraightLineVocabulary ==
  { Amend(0, 1), Amend(0, 2), Amend(0, 4), Amend(0, 5), Allocate(1),
    Op(input, 0, 0, 4), Op(addition, 4, 1, 2), Orth(5, 6) }

StraightLineScrolls ==
  { Scroll(<< Orth(1, 4), Orth(2, 5), Op(arrayIndex, 3, 0, 1),
              w[1], w[2], w[3], Stops >>) :
      w \in [1 .. 3 -> StraightLineVocabulary] }
  \union { Scroll(<< Orth(1, 4), Orth(2, 5), Op(arrayIndex, 3, 0, 1),
                     Allocate(1), w, LoadNew, Stops >>) :
             w \in StraightLineVocabulary }
  \union SmallScrolls

StraightLineChars == {3, 5}

Symmetry == Permutations(CodeIds)
=============================================================================
