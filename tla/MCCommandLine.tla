---------------------------- MODULE MCCommandLine ----------------------------
(***************************************************************************)
(* quoteAsCommandComponent by itself, on every string of up to five of     *)
(* the characters it and the reader tell apart, and one they do not.       *)
(***************************************************************************)
EXTENDS CommandLine

CONSTANT Letter   \* any character that is not special

SomeCharacters == {Quote, Backslash, Space, Tab, Letter}

ShortStrings == UNION { [1 .. n -> SomeCharacters] : n \in 0 .. 5 }
=============================================================================
