--------------------------- MODULE MCNativeMachine ---------------------------
(***************************************************************************)
(* Programs for the x86 machine: every operator over the registers as the  *)
(* first platter, then one that amends, jumps back or leaves; and programs *)
(* that overwrite their first platter and jump to it.                      *)
(***************************************************************************)
EXTENDS NativeMachine, Assembler

Everything ==
  { Op(op, a, b, c) : op \in 0 .. 12, a \in 0 .. 2, b \in Register, c \in Register }
  \union { Orth(1, 0), Orth(3, 15), 14 * OperatorUnit + 5, 15 * OperatorUnit }

\* One word of each operator.
Samples == { Op(op, 1, 1, 2) : op \in 0 .. 12 } \union { Orth(1, 0), 14 * OperatorUnit }

JumpBack == Op(loadProgram, 0, 0, 2)
AmendsFirst == Op(arrayAmendment, 0, 0, 3)

Array(w) == [ size |-> Len(w), platters |-> [j \in 0 .. Len(w) - 1 |-> w[j + 1]] ]

\* Array 1 has a single platter.
SmallHeaps ==
  { [i \in {0, 1} |-> IF i = 0 THEN Array(w) ELSE Array(<< AllOnes - 1 >>)] :
      w \in (Everything \X { JumpBack, AmendsFirst, Op(output, 0, 0, 3) })
            \union (Samples \X {AmendsFirst} \X {JumpBack}) }

\* Register 0 holds 0, register 3 a word an amendment may store.
SmallRegisters ==
  { [r \in Register |-> << 0, x, y, z >>[r + 1]] :
      x \in {1, 5}, y \in {0, 1}, z \in {Op(halt, 0, 0, 0), Op(input, 0, 0, 1)} }

SmallAnswers == {0, 255, AllOnes}
=============================================================================
