------------------------------- MODULE Platter -------------------------------
(***************************************************************************)
(* The platter: the word of the universal machine, how it is decoded into  *)
(* an operator, and the arithmetic the operators do on registers.          *)
(*                                                                         *)
(* The layout of platter::decode is kept field by field: the operator      *)
(* number on top, then (orthography) the register A and the value, or      *)
(* (every other operator) the registers A, B, C at the bottom.  Only the   *)
(* widths are parameters: the program has RegisterCount = 8 and            *)
(* ValueCount = 2^25, which make WordSize = 2^32.                          *)
(***************************************************************************)
EXTENDS Integers

CONSTANTS
  RegisterCount,  \* number of registers (8)
  ValueCount,     \* number of values an orthography platter can carry (2^25)
  WordBits        \* number of bits in a word (32)

\* The three register fields fit under the operator number, as bits 0..8 fit
\* under bit 28.
ASSUME PlatterAssumption ==
  /\ RegisterCount \in Nat \ {0}
  /\ ValueCount \in Nat \ {0}
  /\ RegisterCount * RegisterCount <= ValueCount

Register == 0 .. RegisterCount - 1

OperatorUnit == RegisterCount * ValueCount   \* weight of the operator number

WordSize == 16 * OperatorUnit

Word == 0 .. WordSize - 1

ASSUME WordBitsAssumption == WordBits \in Nat /\ 2^WordBits = WordSize

AllOnes == WordSize - 1   \* ~0, what an input at end of file delivers

-----------------------------------------------------------------------------
\* platter::operator_::value

conditionalMove == 0
arrayIndex      == 1
arrayAmendment  == 2
addition        == 3
multiplication  == 4
division        == 5
notAnd          == 6
halt            == 7
allocation      == 8
abandonment     == 9
output          == 10
input           == 11
loadProgram     == 12
orthography     == 13

\* 14 and 15 decode to no operator: platter::decode throws
\* invalidOperatorFormat.
invalidOperators == {14, 15}

GeneralFormat(v) ==
  [ op    |-> v \div OperatorUnit,
    A     |-> (v \div (RegisterCount * RegisterCount)) % RegisterCount,
    B     |-> (v \div RegisterCount) % RegisterCount,
    C     |-> v % RegisterCount,
    value |-> 0 ]

OrthographyFormat(v) ==
  [ op    |-> orthography,
    A     |-> (v \div ValueCount) % RegisterCount,
    B     |-> 0,
    C     |-> 0,
    value |-> v % ValueCount ]

decode(v) ==
  IF v \div OperatorUnit = orthography THEN OrthographyFormat(v)
                                       ELSE GeneralFormat(v)

-----------------------------------------------------------------------------
\* What the native code of an arithmetic operator leaves in register A.

WordSum(b, c)  == (b + c) % WordSize     \* add keeps the low word
Product(b, c)  == (b * c) % WordSize     \* mul keeps eax, edx is dropped
Quotient(b, c) == b \div c               \* div of edx:eax with edx cleared

Bit(w, i) == (w \div 2^i) % 2

\* "and" then "not": every bit of x is the negated conjunction.
IsNotAnd(x, b, c) ==
  \A i \in 0 .. WordBits - 1 :
    Bit(x, i) = 1 - Bit(b, i) * Bit(c, i)
=============================================================================
