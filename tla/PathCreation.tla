---------------------------- MODULE PathCreation ----------------------------
(***************************************************************************)
(* ensurePathExists: creates the directories of a path one by one, on a    *)
(* file system other processes use.                                        *)
(*                                                                         *)
(* A path is the sequence of its components, each a sequence of            *)
(* characters, as the backslashes (every slash has become one) divide it.  *)
(* After a drive letter the first component keeps the backslash it begins  *)
(* with.  Names are resolved the way the system does, "." and ".." going   *)
(* before anything is looked up.                                           *)
(***************************************************************************)
EXTENDS Integers, SequencesExt

CONSTANTS
  NameCharacters,  \* the characters of a name
  Paths            \* the paths to create: records [drive, components]

ASSUME PathAssumption ==
  Paths \subseteq [ drive : BOOLEAN, components : Seq(Seq(NameCharacters)) \ {<< >>} ]

\* The paths ensurePathExists does not go wrong on: not the empty one, and no
\* names of one or two characters but "." and "..", as others are skipped like
\* these (utils.cpp:138-145).
LongNames ==
  \A q \in Paths :
    /\ q.drive \/ q.components # << << >> >>
    /\ \A n \in DOMAIN q.components :
         q.components[n] \in { << >>, << "." >>, << ".", "." >> }
         \/ Len(q.components[n]) >= 3

VARIABLES
  path,      \* the path without its drive letter
  position,  \* the component between i and j
  dirs,      \* the directories there are, resolved
  files,     \* the files there are, resolved
  outcome    \* "running", "returned", or the error code thrown

pathVars == << path, position, dirs, files, outcome >>

\* Where a component leads from the directory of that name.
Enter(name, c) ==
  IF c \in { << >>, << "." >> } THEN name
  ELSE IF c = << ".", "." >> THEN (IF name = << >> THEN name ELSE Front(name))
  ELSE Append(name, c)

\* What the first n components lead to, for every n.
Resolved(components) ==
  LET name[n \in 0 .. Len(components)] ==
        IF n = 0 THEN << >> ELSE Enter(name[n - 1], components[n])
  IN name

Target == Resolved(path.components)[Len(path.components)]

IsEmpty == ~path.drive /\ path.components = << << >> >>

\* Some of the directories of the path exist already, or a file of that name.
PathInit ==
  /\ path \in Paths
  /\ position = 1
  /\ \E n \in 0 .. Len(Target) :
       /\ dirs = { SubSeq(Target, 1, m) : m \in 0 .. n }
       /\ files \in { {}, { SubSeq(Target, 1, m) : m \in {n + 1} \intersect 1 .. Len(Target) } }
  /\ outcome = "running"

\* The characters from i to j: of the first component after a drive letter the
\* backslash is one.
Piece ==
  IF path.drive /\ position = 1
  THEN << "\\" >> \o path.components[position]
  ELSE path.components[position]

IsLast == position = Len(path.components)

\* "C:\" and nothing else, or any path of a single character.
NothingToDo == Len(path.components) = 1 /\ Len(Piece) = 1

\* Three characters are skipped as well.
SkipsShortPiece == ~IsLast /\ Len(Piece) <= 3

\* Sequences of backslashes, "." and ".." are what the comment says is skipped;
\* the condition skips every other name of one or two characters.
SkipsPiece ==
  /\ ~IsLast
  /\ \/ Piece = << >>
     \/ Len(Piece) = 1 /\ Piece[1] # "."
     \/ Len(Piece) = 2 /\ Piece[1] # "." /\ Piece[2] # "."

Running == outcome = "running" /\ ~NothingToDo

Advances ==
  IF IsLast THEN outcome' = "returned" /\ UNCHANGED position
            ELSE position' = position + 1 /\ UNCHANGED outcome

ReturnsAtOnce ==
  /\ outcome = "running" /\ NothingToDo
  /\ outcome' = "returned"
  /\ UNCHANGED << path, position, dirs, files >>

Skip ==
  /\ Running
  /\ SkipsPiece
  /\ Advances
  /\ UNCHANGED << path, dirs, files >>

\* CreateDirectoryW with the path up to the component.
Created == Resolved(path.components)[position]

Present == Created \in dirs \union files

ParentMissing == IsEmpty \/ (Created # << >> /\ Front(Created) \notin dirs)

CreateDirectory ==
  /\ Running
  /\ ~SkipsPiece
  /\ ~Present /\ ~ParentMissing
  /\ dirs' = dirs \union {Created}
  /\ Advances
  /\ UNCHANGED << path, files >>

\* Whatever it is that exists already, the error is ignored.
IgnoresErrors   == TRUE
IgnoresPresence == Present /\ ~IsEmpty

AlreadyExists ==
  /\ Running
  /\ ~SkipsPiece
  /\ IgnoresPresence
  /\ Advances
  /\ UNCHANGED << path, dirs, files >>

Throws ==
  /\ Running
  /\ ~SkipsPiece
  /\ \/ ParentMissing /\ (IsEmpty \/ ~Present) /\ outcome' = "ERROR_PATH_NOT_FOUND"
     \/ ~Present /\ outcome' = "ERROR_ACCESS_DENIED"
  /\ UNCHANGED << path, position, dirs, files >>

\* Another process creates a directory of the path at the same time.
OtherCreates ==
  /\ outcome = "running"
  /\ \E n \in 1 .. Len(Target) :
       LET name == SubSeq(Target, 1, n) IN
       /\ Front(name) \in dirs
       /\ name \notin dirs \union files
       /\ dirs' = dirs \union {name}
  /\ UNCHANGED << path, position, files, outcome >>

PathNext ==
  \/ ReturnsAtOnce \/ Skip \/ CreateDirectory \/ AlreadyExists \/ Throws
  \/ OtherCreates

PathSpec == PathInit /\ [][PathNext]_pathVars

-----------------------------------------------------------------------------
\* Properties

\* When ensurePathExists returns, the directory is there, so that a file can be
\* created in it (utils.cpp:99-102, utils.h:32-35), unless a file has its name: then
\* the function returns all the same, as CreateDirectoryW has the same error for a
\* file and for a directory that exist (utils.cpp:159).
DirectoryUnlessFile ==
  outcome = "returned" /\ Target \notin files => Target \in dirs

\* A directory is not asked for before the one it is in exists, unless that is
\* a file: all the missing ones are created (utils.cpp:99-102, utils.h:32-35).
ParentsFirst ==
  outcome = "ERROR_PATH_NOT_FOUND" =>
    \E n \in 1 .. Len(Target) : SubSeq(Target, 1, n) \in files
=============================================================================
