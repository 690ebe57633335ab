------------------------------ MODULE Assembler ------------------------------
(***************************************************************************)
(* Words of the universal machine, for the programs the MC modules run.    *)
(***************************************************************************)
EXTENDS Platter

Op(op, a, b, c) ==
  op * OperatorUnit + (a * RegisterCount + b) * RegisterCount + c

Orth(a, v) == orthography * OperatorUnit + a * ValueCount + v
=============================================================================
