---------------------------- MODULE MCSystemError ----------------------------
(***************************************************************************)
(* An exception by itself: two codes the system knows and four it does not, *)
(* in a language that is not English; messages of one and two characters,  *)
(* one of them the English text of a code.                                 *)
(***************************************************************************)
EXTENDS SystemError

KnownCodes   == {"5", "8"}
SomeCodes    == KnownCodes \union {"996", "997", "998", "999"}
LocalTexts   == [c \in KnownCodes |-> << c, "lokal" >>]
EnglishTexts == [c \in KnownCodes |-> << c >>]
UnknownText  == << "unknown" >>
SomeMessages == { << "x" >>, << "x", "y" >>, << "5" >>, << "z" >> }
SomeText     == SomeCodes \union {"lokal", "unknown", "x", "y", "z"}
=============================================================================
