---------------------------- MODULE ScrollLoading ----------------------------
(***************************************************************************)
(* main() and scrollReader::readLegacy: from the command line to the call  *)
(* of context::run.                                                        *)
(*                                                                         *)
(* The scroll is a file other processes may replace, extend, cut or remove *)
(* between any two steps: main looks at it four times, and reads it in     *)
(* pieces, each as the file is when it is fetched.  A platter is the       *)
(* sequence of its four bytes, the most significant first; memory holds    *)
(* them the other way round.                                               *)
(***************************************************************************)
EXTENDS Integers, SequencesExt

CONSTANTS
  Contents,    \* what a scroll file may contain: sequences of bytes
  Missing,     \* there is no such file
  Directory,   \* there is, and it is not a regular one
  Pieces,      \* how many bytes a stream may fetch at once
  SizeCount    \* number of values of a size_t (2^32)

ASSUME LoadingAssumption ==
  /\ Contents \subseteq Seq(0 .. 255)
  /\ Pieces \subseteq Nat \ {0}
  /\ SizeCount \in Nat \ {0}
  /\ SizeCount % 4 = 0

VARIABLES
  file,          \* what the path names: a regular file is a sequence of bytes
  touched,       \* history: whether another process has changed the file
  scrollSize,    \* main: scrollSize; readLegacy: size once it has been cast
  platterCount,  \* platters of the array, as readLegacy computes them
  platters,      \* the array's memory: its bytes, in platters of four
  allocated,     \* the array is allocated
  filled,        \* how many bytes of the scroll have been read
  sources,       \* history: what the file was whenever bytes were fetched
  step,          \* what main does next, or "exited"
  exitCode

loadingVars == << file, touched, scrollSize, platterCount, platters, allocated,
                  filled, sources, step, exitCode >>

result == << platters, allocated, filled, sources >>

IsRegular(f) == f \in Contents

LoadingInit ==
  /\ file \in Contents \union {Missing, Directory}
  /\ touched = FALSE
  /\ scrollSize = 0 /\ platterCount = 0
  /\ platters = << >> /\ allocated = FALSE
  /\ filled = 0 /\ sources = {}
  /\ step = "exists" /\ exitCode = -1

\* Another process, before the file has been read: also while it is.
Touch ==
  /\ step \in {"exists", "regular", "size", "open", "create", "read"}
  /\ file' \in (Contents \union {Missing, Directory}) \ {file}
  /\ touched' = TRUE
  /\ UNCHANGED << scrollSize, platterCount, result, step, exitCode >>

Goes(next) == step' = next /\ UNCHANGED << file, touched, exitCode >>

\* return, or an exception that main reports.
Exits(code) ==
  /\ step' = "exited"
  /\ exitCode' = code
  /\ UNCHANGED << file, touched >>

Exists ==
  /\ step = "exists"
  /\ IF file = Missing THEN Exits(2) ELSE Goes("regular")
  /\ UNCHANGED << scrollSize, platterCount, result >>

\* A file that has disappeared is not a regular one either.
IsRegularFile ==
  /\ step = "regular"
  /\ IF IsRegular(file) THEN Goes("size") ELSE Exits(2)
  /\ UNCHANGED << scrollSize, platterCount, result >>

FileSize ==
  /\ step = "size"
  /\ IF IsRegular(file)
     THEN scrollSize' = Len(file) /\ Goes("open")
     ELSE UNCHANGED scrollSize /\ Exits(2)
  /\ UNCHANGED << platterCount, result >>

\* The size is cast to size_t when readLegacy is called.
Uncast(n) == n
Cast(n) == n % SizeCount

Open ==
  /\ step = "open"
  /\ IF IsRegular(file)
     THEN scrollSize' = Cast(scrollSize) /\ Goes("create")
     ELSE UNCHANGED scrollSize /\ Exits(2)
  /\ UNCHANGED << platterCount, result >>

-----------------------------------------------------------------------------
\* scrollReader::readLegacy

NotMultipleOf4 ==
  /\ step = "create"
  /\ scrollSize % 4 # 0
  /\ Exits(2)
  /\ UNCHANGED << scrollSize, platterCount, result >>

CreateArray ==
  /\ step = "create"
  /\ scrollSize % 4 = 0
  /\ platterCount' = scrollSize \div 4
  /\ allocated' = TRUE
  /\ platters' = [i \in 1 .. platterCount' |-> << 0, 0, 0, 0 >>]
  /\ Goes("read")
  /\ UNCHANGED << scrollSize, filled, sources >>

CreateArrayFails ==
  /\ step = "create"
  /\ scrollSize % 4 = 0
  /\ Exits(2)
  /\ UNCHANGED << scrollSize, platterCount, result >>

\* A file that is removed once it is open can still be read: it is empty at
\* worst.
Readable == IF IsRegular(file) THEN file ELSE << >>

Smaller(a, b) == IF a < b THEN a ELSE b

\* How much istream::read fetches at a time is the stream's and the system's
\* business.  It goes on until it has what it was asked for, or finds no more.
\* Byte 4 * i + 1 - k of the scroll is byte k of platter i, as memory has it.
Fetch ==
  /\ step = "read"
  /\ filled < Smaller(Len(Readable), scrollSize)
  /\ \E piece \in Pieces :
       filled' = Smaller(filled + piece, Smaller(Len(Readable), scrollSize))
  /\ platters' = [i \in 1 .. platterCount |-> [k \in 1 .. 4 |->
                    LET n == 4 * i + 1 - k
                    IN  IF n \in filled + 1 .. filled' THEN Readable[n] ELSE platters[i][k]]]
  /\ sources' = sources \union {Readable}
  /\ UNCHANGED << scrollSize, platterCount, allocated, file, touched, step, exitCode >>

CompleteOrEnded == filled = scrollSize \/ filled >= Len(Readable)
Complete        == filled = scrollSize

ReadEnds ==
  /\ step = "read"
  /\ Complete
  /\ Goes("swap")
  /\ UNCHANGED << scrollSize, platterCount, result >>

ForgetsDestroy == allocated' = allocated
DestroysArray  == allocated' = FALSE

ReadFails ==
  /\ step = "read"
  /\ ~Complete
  /\ filled >= Len(Readable)
  /\ DestroysArray
  /\ Exits(2)
  /\ UNCHANGED << scrollSize, platterCount, platters, filled, sources >>

\* _byteswap_ulong
KeepsOrder(word) == word
Byteswap(word) == Reverse(word)

Swap ==
  /\ step = "swap"
  /\ platters' = [i \in 1 .. platterCount |-> Byteswap(platters[i])]
  /\ Goes("run")
  /\ UNCHANGED << scrollSize, platterCount, allocated, filled, sources >>

-----------------------------------------------------------------------------
\* context::run returns or throws: Context says which.
RunEnds ==
  /\ step = "run"
  /\ \E code \in {0, 2} : Exits(code)
  /\ UNCHANGED << scrollSize, platterCount, result >>

Main ==
  \/ Exists \/ IsRegularFile \/ FileSize \/ Open
  \/ NotMultipleOf4 \/ CreateArray \/ CreateArrayFails
  \/ Fetch \/ ReadEnds \/ ReadFails \/ Swap
  \/ RunEnds

LoadingNext == Main \/ Touch

LoadingSpec == LoadingInit /\ [][LoadingNext]_loadingVars

-----------------------------------------------------------------------------
\* Properties

\* The platters the bytes of a scroll stand for, as platter's own constructor
\* reads them: the first byte is the most significant (platter.cpp:15-30).
Scroll(bytes, n) == [i \in 1 .. n |-> SubSeq(bytes, 4 * i - 3, 4 * i)]

\* b was byte n of the file when bytes were fetched from it.
WasThere(b, n) == \E bytes \in sources : n <= Len(bytes) /\ b = bytes[n]

\* What is executed was in the file, however the file changed while main looked
\* at it: every byte was at its place in the file at some moment of the reading,
\* never a zero instead of what was cut off, and never with the bytes of a
\* platter in the wrong order.  It is not said that they were there together:
\* the file may change between two fetches.  And the scroll is no longer than
\* main's cast to size_t lets it be (main.cpp:89).
RunsWhatWasThere ==
  step = "run" =>
    /\ Len(platters) = platterCount /\ 4 * platterCount < SizeCount
    /\ \A i \in 1 .. platterCount : \A k \in 1 .. 4 :
         WasThere(platters[i][k], 4 * i - 4 + k)

\* A scroll that nobody touches is executed to its last platter, unless it is
\* longer than a size_t can say (main.cpp:90).
RunsWholeScroll ==
  step = "run" /\ ~touched /\ Len(file) < SizeCount =>
    /\ Len(file) = 4 * Len(platters)
    /\ platters = Scroll(file, Len(platters))

\* run() has an array and nobody else keeps one: it is destroyed when the
\* scroll turns out to be too short, as main never learns of it
\* (scrollReader.cpp:31-36).
NothingLeftBehind ==
  /\ step = "run" => allocated
  /\ step = "exited" /\ allocated => filled = scrollSize
=============================================================================
