---------------------------- MODULE MCPathCreation ----------------------------
(***************************************************************************)
(* ensurePathExists by itself: paths of one or three components, absolute  *)
(* ones and relative ones.                                                 *)
(***************************************************************************)
EXTENDS PathCreation

\* Names of three characters or more, and what is skipped.
Names == { << "a", "b", "c" >>, << "d", "e", "f", "g" >>,
           << >>, << "." >>, << ".", "." >> }

SomePaths ==
  [ drive : BOOLEAN,
    components : { << x, y, z >> : x \in Names, y \in Names, z \in Names }
                 \union { << x >> : x \in Names \ {<< >>} } ]
  \union { [ drive |-> TRUE, components |-> << << >> >> ] }

SomePath == [ drive |-> FALSE, components |-> << << "a", "b", "c" >> >> ]

NamesOf == {"a", "b", "c", "d", "e", "f", "g", "."}
=============================================================================
