---------------------------- MODULE MCAlgorithms ----------------------------
(***************************************************************************)
(* The parts of the program that run by themselves: generateNativeCode,    *)
(* main and the scroll reader, an exception and what is done to it, and    *)
(* the two helpers of utils.cpp.  One of them runs, on any of its inputs;  *)
(* the others stay in an initial state.                                    *)
(***************************************************************************)
EXTENDS Generation, CodeGen, Assembler, ScrollLoading, MCCommandLine,
        MCPathCreation, MCSystemError

VARIABLE subject  \* which part runs

-----------------------------------------------------------------------------
\* generateNativeCode: a word of every code length there is.
Samples == { Op(op, 1, 1, 2) : op \in {conditionalMove, arrayIndex, arrayAmendment,
               addition, allocation, output, loadProgram} } \union { Orth(1, 0) }

SampleSizes == [w \in Samples |-> Len(platterBytes[w])]
SmallSizes  == 0 .. 3
StubLength  == Len(stubBytes)
OOBLength   == Len(OOBStubBytes)

\* The samples have all the lengths, and each has room for a stub.
ASSUME LengthsSampled ==
  /\ \A w \in Word : Len(platterBytes[w]) >= Len(stubBytes)
  /\ { Len(platterBytes[w]) : w \in Word } = { SampleSizes[w] : w \in Samples }

-----------------------------------------------------------------------------
\* Scrolls of up to three platters, and one that a size_t cannot count, over two
\* patterns of bytes, whole or cut before the last byte of a platter; read in
\* pieces that are not whole platters.
Long == { [n \in 1 .. 16 |-> (x * n) % 256] : x \in {1, 77} }

Scrolls == { SubSeq(s, 1, n) : s \in Long, n \in {0, 7, 8, 12, 16} }

SomePieces == {3, 8}

-----------------------------------------------------------------------------
\* What the helpers are known to go wrong on stays with runs of its own.
ASSUME TextsAreUnambiguous == UnambiguousTexts

ASSUME NamesAreLong == LongNames

-----------------------------------------------------------------------------
allVars == << vars, subject, loadingVars, errorVars, pathVars, quotingVars >>

PartsInit ==
  /\ subject \in {"code", "scroll", "error", "path", "argument"}
  /\ Init /\ (subject # "code" => size = 0)
  /\ LoadingInit /\ (subject # "scroll" => file = Missing)
  /\ ErrorInit /\ (subject # "error" => errorCode = NotSet /\ msg = << >>)
  /\ PathInit /\ (subject # "path" => path = SomePath /\ dirs = {<< >>} /\ files = {})
  /\ QuotingInit /\ (subject # "argument" => original = << Quote >>)

Code ==
  /\ subject = "code" /\ Next
  /\ UNCHANGED << subject, loadingVars, errorVars, pathVars, quotingVars >>

Load ==
  /\ subject = "scroll" /\ LoadingNext
  /\ UNCHANGED << subject, vars, errorVars, pathVars, quotingVars >>

Error ==
  /\ subject = "error" /\ ErrorNext
  /\ UNCHANGED << subject, vars, loadingVars, pathVars, quotingVars >>

Path ==
  /\ subject = "path" /\ PathNext
  /\ UNCHANGED << subject, vars, loadingVars, errorVars, quotingVars >>

Argument ==
  /\ subject = "argument" /\ QuotingNext
  /\ UNCHANGED << subject, vars, loadingVars, errorVars, pathVars >>

PartsNext == Code \/ Load \/ Error \/ Path \/ Argument

PartsSpec == PartsInit /\ [][PartsNext]_allVars
=============================================================================
