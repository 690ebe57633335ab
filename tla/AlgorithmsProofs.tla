-------------------------- MODULE AlgorithmsProofs ---------------------------
(***************************************************************************)
(* What main hands to context::run, for scroll files of any contents and   *)
(* any width of a size_t, whatever other processes do to the file; and the *)
(* helpers of utils.cpp and systemError, for strings, paths, codes and     *)
(* messages of any length: which strings quoteAsCommandComponent makes     *)
(* into what is read back as they were, what is there when                 *)
(* ensurePathExists returns, and when what() is about the error.           *)
(***************************************************************************)
EXTENDS ScrollLoading, CommandLine, PathCreation, SystemError, SequenceFacts

-----------------------------------------------------------------------------
\* main and scrollReader

\* The memory of the array: platters of four bytes.
MemoryShape == platters \in [1 .. platterCount -> [1 .. 4 -> 0 .. 255]]

\* Byte n of the scroll, as it is in memory before the platters are swapped, for
\* all that has been read.
FilledFromFile ==
  \A i \in 1 .. platterCount : \A k \in 1 .. 4 :
    4 * i + 1 - k <= filled => WasThere(platters[i][k], 4 * i + 1 - k)

\* The same after the swap: all of it, in the order of the file.
SwappedFromFile ==
  \A i \in 1 .. platterCount : \A k \in 1 .. 4 :
    WasThere(platters[i][k], 4 * i - 4 + k)

\* The variables' types, and how far the reader has come at each step: from
\* "create" on the size fits in a size_t, from "read" on the array has the
\* platters for it, and at "swap" its memory has been read to the end.
LoadingState ==
  /\ file \in Contents \union {Missing, Directory}
  /\ touched \in BOOLEAN
  /\ scrollSize \in Nat /\ filled \in Nat
  /\ sources \subseteq Contents \union {<< >>}
  /\ step \in {"exists", "regular", "size", "open", "create", "read", "swap", "run",
               "exited"}
  /\ step \in {"exists", "regular", "size", "open", "create"} => ~allocated /\ filled = 0
  /\ step \in {"create", "read", "swap", "run"} => scrollSize < SizeCount
  /\ step \in {"read", "swap", "run"} =>
       allocated /\ platterCount \in Nat /\ scrollSize = 4 * platterCount /\ MemoryShape
  /\ step \in {"read", "swap"} => FilledFromFile
  /\ step = "read" => filled <= scrollSize
  /\ step \in {"swap", "run"} => filled = scrollSize
  /\ step = "run" => SwappedFromFile
  /\ step = "exited" /\ allocated => filled = scrollSize

\* As long as nobody touches the file, the size is its own and what was read
\* was in it.
UntouchedState ==
  ~touched =>
    /\ step \in {"size", "open", "create", "read", "swap", "run"} => file \in Contents
    /\ step = "open" => scrollSize = Len(file)
    /\ step \in {"create", "read", "swap", "run"} => scrollSize = Len(file) % SizeCount
    /\ sources \subseteq {file}

LoadingInvariant == LoadingState /\ UntouchedState

-----------------------------------------------------------------------------
\* A file is a sequence of bytes.
LEMMA ContentsAreBytes ==
  ASSUME NEW bytes \in Contents \union {<< >>}
  PROVE  bytes \in Seq(0 .. 255) /\ Len(bytes) \in Nat
<1>1. << >> \in Seq(0 .. 255)
  BY EmptySeq
<1>2. bytes \in Seq(0 .. 255)
  BY <1>1, LoadingAssumption
<1> QED BY <1>2, LenProperties

\* The bytes of a platter in memory, reversed.
LEMMA SwappedPlatter ==
  ASSUME NEW word \in [1 .. 4 -> 0 .. 255]
  PROVE  /\ Byteswap(word) \in [1 .. 4 -> 0 .. 255]
         /\ \A k \in 1 .. 4 : Byteswap(word)[k] = word[5 - k]
<1>1. word \in Seq(0 .. 255) /\ Len(word) = 4
  <2>1. word = [k \in 1 .. 4 |-> word[k]] /\ \A k \in 1 .. 4 : word[k] \in 0 .. 255
    OBVIOUS
  <2> QED BY <2>1
<1>2. Byteswap(word) = [k \in 1 .. 4 |-> word[(4 - k) + 1]]
  BY <1>1 DEF Byteswap, Reverse
<1>3. \A k \in 1 .. 4 : 5 - k \in 1 .. 4 /\ (4 - k) + 1 = 5 - k
  OBVIOUS
<1> QED BY <1>2, <1>3

-----------------------------------------------------------------------------
\* main starts before it has looked at anything.
LEMMA InitLoading ==
  ASSUME LoadingInit
  PROVE  LoadingInvariant
BY DEF LoadingInit, LoadingInvariant, LoadingState, UntouchedState

\* Another process spoils what main has learnt of the file, but not what it has
\* read from it.
LEMMA TouchLoading ==
  ASSUME LoadingInvariant, Touch
  PROVE  LoadingInvariant'
BY DEF LoadingInvariant, LoadingState, UntouchedState, Touch, result,
       MemoryShape, FilledFromFile, SwappedFromFile, WasThere

\* The checks of main leave with an exception or go on with the same file.
LEMMA ChecksLoading ==
  ASSUME LoadingInvariant, Exists \/ IsRegularFile
  PROVE  LoadingInvariant'
BY DEF LoadingInvariant, LoadingState, UntouchedState, Exists, IsRegularFile,
       IsRegular, Goes, Exits, result

\* The size is that of the file at this moment.
LEMMA FileSizeLoading ==
  ASSUME LoadingInvariant, FileSize
  PROVE  LoadingInvariant'
<1>1. \A bytes \in Contents : Len(bytes) \in Nat
  BY ContentsAreBytes
<1> QED BY <1>1 DEF LoadingInvariant, LoadingState, UntouchedState, FileSize,
                    IsRegular, Goes, Exits, result

\* The cast brings the size into the range of a size_t.
LEMMA OpenLoading ==
  ASSUME LoadingInvariant, Open
  PROVE  LoadingInvariant'
<1>1. SizeCount \in Nat \ {0}
  BY LoadingAssumption
<1>2. \A n \in Nat : Cast(n) = n % SizeCount /\ Cast(n) \in Nat /\ Cast(n) < SizeCount
  BY <1>1 DEF Cast
<1> QED BY <1>2 DEF LoadingInvariant, LoadingState, UntouchedState, Open,
                    IsRegular, Goes, Exits, result

\* The array gets the platters the size divides into.
LEMMA CreateLoading ==
  ASSUME LoadingInvariant,
         NotMultipleOf4 \/ CreateArray \/ CreateArrayFails
  PROVE  LoadingInvariant'
<1>1. \A n \in Nat : n % 4 = 0 => n \div 4 \in Nat /\ n = 4 * (n \div 4)
  OBVIOUS
<1>2. CASE NotMultipleOf4 \/ CreateArrayFails
  BY <1>2 DEF LoadingInvariant, LoadingState, UntouchedState, NotMultipleOf4,
              CreateArrayFails, Exits, result
<1>3. CASE CreateArray
  <2>1. /\ step = "create" /\ step' = "read" /\ scrollSize % 4 = 0
        /\ platterCount' = scrollSize \div 4 /\ allocated'
        /\ platters' = [i \in 1 .. platterCount' |-> << 0, 0, 0, 0 >>]
        /\ UNCHANGED << scrollSize, filled, sources, file, touched >>
    BY <1>3 DEF CreateArray, Goes
  <2>2. scrollSize \in Nat /\ filled = 0
    BY <2>1 DEF LoadingInvariant, LoadingState
  <2>3. platterCount' \in Nat /\ scrollSize' = 4 * platterCount'
    BY <1>1, <2>1, <2>2
  <2>4. MemoryShape'
    <3>1. << 0, 0, 0, 0 >> \in [1 .. 4 -> 0 .. 255]
      OBVIOUS
    <3> QED BY <2>1, <3>1 DEF MemoryShape
  <2>5. FilledFromFile'
    BY <2>1, <2>2, <2>3 DEF FilledFromFile
  <2> QED BY <2>1, <2>2, <2>3, <2>4, <2>5 DEF LoadingInvariant, LoadingState, UntouchedState
<1> QED BY <1>2, <1>3

\* What is fetched is in the file as it is now, and goes to its place; what was
\* fetched before stays where it is.
LEMMA FetchLoading ==
  ASSUME LoadingInvariant, Fetch
  PROVE  LoadingInvariant'
<1> DEFINE end == Smaller(Len(Readable), scrollSize)
<1>1. Readable \in Contents \union {<< >>} /\ Readable \in Seq(0 .. 255)
        /\ Len(Readable) \in Nat
  BY ContentsAreBytes DEF Readable, IsRegular
<1>2. /\ step = "read" /\ filled < end
      /\ sources' = sources \union {Readable}
      /\ UNCHANGED << scrollSize, platterCount, allocated, file, touched, step >>
  BY DEF Fetch
<1>3. PICK piece \in Pieces : filled' = Smaller(filled + piece, end)
  BY DEF Fetch
<1>4. /\ filled \in Nat /\ scrollSize \in Nat /\ platterCount \in Nat
      /\ MemoryShape /\ FilledFromFile
  BY <1>2 DEF LoadingInvariant, LoadingState
<1>5. filled' \in Nat /\ filled < filled' /\ filled' <= scrollSize /\ filled' <= Len(Readable)
  BY <1>1, <1>2, <1>3, <1>4, LoadingAssumption DEF Smaller
<1>6. ASSUME NEW i \in 1 .. platterCount, NEW k \in 1 .. 4
      PROVE  platters'[i][k] = IF 4 * i + 1 - k \in filled + 1 .. filled'
                               THEN Readable[4 * i + 1 - k] ELSE platters[i][k]
  BY DEF Fetch
<1>7. platters' \in [1 .. platterCount -> [1 .. 4 -> 0 .. 255]]
  <2>1. ASSUME NEW i \in 1 .. platterCount, NEW k \in 1 .. 4
        PROVE  platters'[i][k] \in 0 .. 255
    <3>1. platters[i][k] \in 0 .. 255
      <4>1. platters[i] \in [1 .. 4 -> 0 .. 255]
        BY <1>4 DEF MemoryShape
      <4> QED BY <4>1
    <3>2. 4 * i + 1 - k \in filled + 1 .. filled' => 4 * i + 1 - k \in 1 .. Len(Readable)
      BY <1>1, <1>4, <1>5
    <3>3. \A n \in 1 .. Len(Readable) : Readable[n] \in 0 .. 255
      BY <1>1, ElementOfSeq
    <3>4. CASE 4 * i + 1 - k \in filled + 1 .. filled'
      <4>1. platters'[i][k] = Readable[4 * i + 1 - k]
        BY <1>6, <3>4
      <4> QED BY <3>2, <3>3, <3>4, <4>1
    <3>5. CASE 4 * i + 1 - k \notin filled + 1 .. filled'
      <4>1. platters'[i][k] = platters[i][k]
        BY <1>6, <3>5
      <4> QED BY <3>1, <4>1
    <3> QED BY <3>4, <3>5
  <2>2. \E f : platters' = [i \in 1 .. platterCount |-> [k \in 1 .. 4 |-> f[i][k]]]
    <3> DEFINE g == [i \in 1 .. platterCount |-> [k \in 1 .. 4 |->
                       IF 4 * i + 1 - k \in filled + 1 .. filled'
                       THEN Readable[4 * i + 1 - k] ELSE platters[i][k]]]
    <3>1. \A i \in 1 .. platterCount : \A k \in 1 .. 4 :
            g[i][k] = IF 4 * i + 1 - k \in filled + 1 .. filled'
                      THEN Readable[4 * i + 1 - k] ELSE platters[i][k]
      OBVIOUS
    <3> HIDE DEF g
    <3>2. platters' = [i \in 1 .. platterCount |-> [k \in 1 .. 4 |-> g[i][k]]]
      BY <3>1 DEF Fetch
    <3> QED BY <3>2
  <2>3. PICK f : platters' = [i \in 1 .. platterCount |-> [k \in 1 .. 4 |-> f[i][k]]]
    BY <2>2
  <2> QED BY <2>1, <2>3
<1>8. FilledFromFile'
  <2> SUFFICES ASSUME NEW i \in 1 .. platterCount, NEW k \in 1 .. 4,
                      4 * i + 1 - k <= filled'
               PROVE  WasThere(platters[i][k], 4 * i + 1 - k)'
    BY <1>2 DEF FilledFromFile
  <2>1. 4 * i + 1 - k \in Nat \ {0}
    BY <1>4
  <2>2. CASE 4 * i + 1 - k <= filled
    <3>1. WasThere(platters[i][k], 4 * i + 1 - k)
      BY <1>4, <2>2 DEF FilledFromFile
    <3>2. platters'[i][k] = platters[i][k]
      BY <1>6, <2>2, <1>4, <2>1
    <3> QED BY <3>1, <3>2, <1>2 DEF WasThere
  <2>3. CASE ~(4 * i + 1 - k <= filled)
    <3>1. 4 * i + 1 - k \in filled + 1 .. filled' /\ 4 * i + 1 - k <= Len(Readable)
      BY <1>1, <1>4, <1>5, <2>1, <2>3
    <3>2. platters'[i][k] = Readable[4 * i + 1 - k]
      BY <1>6, <3>1
    <3> QED BY <3>1, <3>2, <1>2 DEF WasThere
  <2> QED BY <2>2, <2>3
<1>9. ~touched => Readable = file
  BY <1>2 DEF LoadingInvariant, UntouchedState, Readable, IsRegular
<1>10. MemoryShape'
  BY <1>7, <1>2 DEF MemoryShape
<1> HIDE DEF end
<1>11. LoadingState'
  BY <1>1, <1>2, <1>4, <1>5, <1>8, <1>10 DEF LoadingInvariant, LoadingState
<1>12. UntouchedState'
  BY <1>2, <1>9 DEF LoadingInvariant, UntouchedState
<1> QED BY <1>11, <1>12 DEF LoadingInvariant

\* The reader leaves the loop with all it asked for; or the array goes.
LEMMA ReadLoading ==
  ASSUME LoadingInvariant, ReadEnds \/ ReadFails
  PROVE  LoadingInvariant'
<1>1. CASE ReadEnds
  <2>1. FilledFromFile' = FilledFromFile /\ MemoryShape' = MemoryShape
    BY <1>1 DEF ReadEnds, result, FilledFromFile, MemoryShape, WasThere
  <2> QED BY <1>1, <2>1 DEF LoadingInvariant, LoadingState, UntouchedState, ReadEnds,
                            Complete, Goes, result
<1>2. CASE ReadFails
  BY <1>2 DEF LoadingInvariant, LoadingState, UntouchedState, ReadFails,
              DestroysArray, Exits
<1> QED BY <1>1, <1>2

\* The bytes of every platter change places.
LEMMA SwapLoading ==
  ASSUME LoadingInvariant, Swap
  PROVE  LoadingInvariant'
<1>1. /\ step = "swap" /\ step' = "run"
      /\ platters' = [i \in 1 .. platterCount |-> Byteswap(platters[i])]
      /\ UNCHANGED << scrollSize, platterCount, allocated, filled, sources, file, touched >>
  BY DEF Swap, Goes
<1>2. /\ platterCount \in Nat /\ scrollSize = 4 * platterCount /\ filled = scrollSize
      /\ MemoryShape /\ FilledFromFile
  BY <1>1 DEF LoadingInvariant, LoadingState
<1>3. ASSUME NEW i \in 1 .. platterCount
      PROVE  /\ platters'[i] \in [1 .. 4 -> 0 .. 255]
             /\ \A k \in 1 .. 4 : platters'[i][k] = platters[i][5 - k]
  <2>1. platters[i] \in [1 .. 4 -> 0 .. 255]
    BY <1>2 DEF MemoryShape
  <2> QED BY <1>1, <2>1, SwappedPlatter
<1>4. MemoryShape'
  BY <1>1, <1>3 DEF MemoryShape
<1>5. SwappedFromFile'
  <2> SUFFICES ASSUME NEW i \in 1 .. platterCount, NEW k \in 1 .. 4
               PROVE  WasThere(platters[i][k], 4 * i - 4 + k)'
    BY <1>1 DEF SwappedFromFile
  <2>1. /\ 5 - k \in 1 .. 4 /\ 4 * i + 1 - (5 - k) = 4 * i - 4 + k
        /\ 4 * i + 1 - (5 - k) <= filled
    BY <1>2
  <2>2. WasThere(platters[i][5 - k], 4 * i - 4 + k)
    BY <1>2, <2>1 DEF FilledFromFile
  <2> QED BY <1>1, <1>3, <2>2 DEF WasThere
<1> QED BY <1>1, <1>2, <1>4, <1>5 DEF LoadingInvariant, LoadingState, UntouchedState

\* The machine runs on what it was given, and main ends.
LEMMA RunLoading ==
  ASSUME LoadingInvariant, RunEnds
  PROVE  LoadingInvariant'
BY LoadingAssumption DEF LoadingInvariant, LoadingState, UntouchedState, RunEnds,
                         Exits, result

\* Every step of main, and every change of the file by others.
LEMMA NextLoading ==
  ASSUME LoadingInvariant, [LoadingNext]_loadingVars
  PROVE  LoadingInvariant'
<1>1. CASE UNCHANGED loadingVars
  <2>1. UNCHANGED << file, touched, scrollSize, platterCount, platters, allocated,
                     filled, sources, step, exitCode >>
    BY <1>1 DEF loadingVars
  <2>2. /\ MemoryShape' = MemoryShape /\ FilledFromFile' = FilledFromFile
        /\ SwappedFromFile' = SwappedFromFile
    BY <2>1 DEF MemoryShape, FilledFromFile, SwappedFromFile, WasThere
  <2> QED BY <2>1, <2>2 DEF LoadingInvariant, LoadingState, UntouchedState
<1> QED BY <1>1, TouchLoading, ChecksLoading, FileSizeLoading, OpenLoading,
           CreateLoading, FetchLoading, ReadLoading, SwapLoading, RunLoading DEF LoadingNext, Main

-----------------------------------------------------------------------------
\* What main and the reader know at each step, after any changes of the file
\* by other processes.
THEOREM LoadingInvariance == LoadingSpec => []LoadingInvariant
<1>1. LoadingInit => LoadingInvariant
  BY InitLoading
<1>2. LoadingInvariant /\ [LoadingNext]_loadingVars => LoadingInvariant'
  BY NextLoading
<1> QED BY <1>1, <1>2, PTL DEF LoadingSpec

\* Every byte that is executed was at its place in the file when it was fetched,
\* and in the right place of its platter; nothing is executed that was never
\* read (scrollReader::readLegacy).
THEOREM ExecutesFileContents == LoadingSpec => []RunsWhatWasThere
<1>1. ASSUME LoadingInvariant PROVE RunsWhatWasThere
  <2> SUFFICES ASSUME step = "run"
               PROVE  /\ Len(platters) = platterCount /\ 4 * platterCount < SizeCount
                      /\ SwappedFromFile
    BY DEF RunsWhatWasThere, SwappedFromFile
  <2>1. /\ platterCount \in Nat /\ scrollSize = 4 * platterCount
        /\ scrollSize < SizeCount /\ MemoryShape /\ SwappedFromFile
    BY <1>1 DEF LoadingInvariant, LoadingState
  <2> QED BY <2>1 DEF MemoryShape
<1> QED BY <1>1, LoadingInvariance, PTL

\* A scroll nobody touches is executed to its last platter (main).
THEOREM ExecutesWholeScroll == LoadingSpec => []RunsWholeScroll
<1>1. ASSUME LoadingInvariant PROVE RunsWholeScroll
  <2> SUFFICES ASSUME step = "run", ~touched, Len(file) < SizeCount
               PROVE  /\ Len(file) = 4 * Len(platters)
                      /\ platters = Scroll(file, Len(platters))
    BY DEF RunsWholeScroll
  <2>1. /\ file \in Contents /\ scrollSize = Len(file) % SizeCount
        /\ sources \subseteq {file} /\ SwappedFromFile /\ MemoryShape
        /\ platterCount \in Nat /\ scrollSize = 4 * platterCount
    BY <1>1 DEF LoadingInvariant, LoadingState, UntouchedState
  <2>2. /\ file \in Seq(0 .. 255) /\ Len(file) \in Nat /\ SizeCount \in Nat \ {0}
        /\ DOMAIN file = 1 .. Len(file)
    BY <2>1, ContentsAreBytes, LoadingAssumption
  <2>3. Len(file) = 4 * platterCount
    <3>1. \A n \in Nat : \A m \in Nat \ {0} : n < m => n % m = n
      OBVIOUS
    <3>2. Len(file) % SizeCount = Len(file)
      BY <2>2, <3>1, Zenon
    <3> QED BY <2>1, <3>2, Zenon
  <2>4. Len(platters) = platterCount
    BY <2>1 DEF MemoryShape
  <2>5. ASSUME NEW i \in 1 .. platterCount
        PROVE  platters[i] = SubSeq(file, 4 * i - 3, 4 * i)
    <3>1. \A k \in 1 .. 4 : platters[i][k] = file[4 * i - 4 + k]
      BY <2>1 DEF SwappedFromFile, WasThere
    <3>2. platters[i] = [k \in 1 .. 4 |-> platters[i][k]]
      BY <2>1 DEF MemoryShape
    <3>3. SubSeq(file, 4 * i - 3, 4 * i) = [k \in 1 .. 4 |-> file[4 * i - 4 + k]]
      <4>1. 4 * i - 3 \in 1 .. Len(file) /\ 4 * i \in 1 .. Len(file)
        BY <2>1, <2>3
      <4> QED BY <2>2, <4>1
    <3> QED BY <3>1, <3>2, <3>3
  <2>6. platters = Scroll(file, platterCount)
    BY <2>1, <2>5 DEF Scroll, MemoryShape
  <2> QED BY <2>3, <2>4, <2>6
<1> QED BY <1>1, LoadingInvariance, PTL

\* A scroll that turns out too short leaves no array behind that nobody has
\* (scrollReader::readLegacy).
THEOREM NoArrayForgotten == LoadingSpec => []NothingLeftBehind
<1>1. LoadingInvariant => NothingLeftBehind
  BY DEF LoadingInvariant, LoadingState, NothingLeftBehind
<1> QED BY <1>1, LoadingInvariance, PTL

-----------------------------------------------------------------------------
\* quoteAsCommandComponent

\* s is the argument with n backslashes in front of character f, or at the end,
\* said index by index.
Inserted(s, f, n) ==
  /\ Len(s) = Len(original) + n
  /\ \A i \in 1 .. f - 1 : s[i] = original[i]
  /\ \A i \in f .. f + n - 1 : s[i] = Backslash
  /\ \A i \in f + n .. Len(s) : s[i] = original[i - n]

\* The loop has not come to a quote yet; or it is at the first one there is, f,
\* for good, n backslashes further to the right.
Searching == p = 1 /\ arg = original

AtQuote(f, n) ==
  /\ p = f + n
  /\ original[f] = Quote
  /\ Inserted(arg, f, n)

\* What the function makes of a string without quotes.
TrailingBackslash ==
  IF original # << >> /\ Last(original) = Backslash THEN << Backslash >> ELSE << >>

Quoted == << Quote >> \o original \o TrailingBackslash \o << Quote >>

HasNoQuote == \A i \in DOMAIN original : original[i] # Quote

\* The string is only touched at the first quote, and only a string without one is
\* ever finished.
QuotingInvariant ==
  /\ original \in Arguments
  /\ arg \in Seq(Characters)
  /\ quoting \in {"check", "escape", "length_error", "close", "done"}
  /\ quoting = "check" => Searching
  /\ quoting \in {"escape", "length_error"} =>
       Searching \/ \E f \in 1 .. Len(original), n \in Nat : AtQuote(f, n)
  /\ quoting \in {"escape", "close"} => NeedsQuotes(original)
  /\ quoting = "close" => HasNoQuote /\ arg = original
  /\ quoting = "done" => IF NeedsQuotes(original) THEN HasNoQuote /\ arg = Quoted
                                                  ELSE arg = original

\* Backslashes are characters.
LEMMA BackslashesType ==
  ASSUME NEW n \in Nat
  PROVE  /\ Backslashes(n) \in Seq(Characters)
         /\ Len(Backslashes(n)) = n
         /\ \A i \in 1 .. n : Backslashes(n)[i] = Backslash
<1>1. Backslash \in Characters
  BY CommandLineAssumption
<1>2. Backslashes(n) \in [1 .. n -> Characters]
  BY <1>1 DEF Backslashes
<1> QED BY <1>2 DEF Backslashes

\* What is said index by index is what NothingLost says.
LEMMA InsertedParts ==
  ASSUME NEW s \in Seq(Characters), original \in Seq(Characters),
         NEW f \in 1 .. Len(original) + 1, NEW n \in Nat, Inserted(s, f, n)
  PROVE  s = SubSeq(original, 1, f - 1) \o Backslashes(n)
             \o SubSeq(original, f, Len(original))
<1> DEFINE before == SubSeq(original, 1, f - 1)
           after == SubSeq(original, f, Len(original))
           added == Backslashes(n)
           whole == before \o added \o after
<1>1. Len(original) \in Nat /\ Len(s) = Len(original) + n
  BY LenProperties DEF Inserted
<1>2. /\ before \in Seq(Characters) /\ Len(before) = f - 1
      /\ \A i \in 1 .. f - 1 : before[i] = original[i]
  <2>1. 1 \in 1 .. Len(original) + 1 /\ f - 1 \in 0 .. Len(original)
    BY <1>1
  <2> QED BY <1>1, <2>1, PartOf
<1>3. /\ after \in Seq(Characters) /\ Len(after) = Len(original) - f + 1
      /\ \A i \in 1 .. Len(original) - f + 1 : after[i] = original[f + i - 1]
  <2>1. Len(original) \in 0 .. Len(original)
    BY <1>1
  <2> QED BY <1>1, <2>1, PartOf
<1>4. /\ added \in Seq(Characters) /\ Len(added) = n
      /\ \A i \in 1 .. n : added[i] = Backslash
  BY BackslashesType
<1> HIDE DEF before, after, added
<1>5. /\ whole \in Seq(Characters)
      /\ Len(whole) = Len(before) + Len(added) + Len(after)
      /\ \A i \in 1 .. Len(before) : whole[i] = before[i]
      /\ \A i \in 1 .. Len(added) : whole[Len(before) + i] = added[i]
      /\ \A i \in 1 .. Len(after) : whole[Len(before) + Len(added) + i] = after[i]
  <2>1. before \in Seq(Characters) /\ added \in Seq(Characters) /\ after \in Seq(Characters)
    BY <1>2, <1>3, <1>4
  <2> QED BY ONLY <2>1, ThreeParts
<1> HIDE DEF whole
<1>6. Len(whole) = Len(s)
  BY <1>1, <1>2, <1>3, <1>4, <1>5
<1>7. ASSUME NEW i \in 1 .. Len(s)
      PROVE  s[i] = whole[i]
  <2>1. CASE i \in 1 .. f - 1
    BY <1>2, <1>5, <2>1 DEF Inserted
  <2>2. CASE i \in f .. f + n - 1
    <3> DEFINE j == i - (f - 1)
    <3>1. j \in 1 .. n /\ (f - 1) + j = i
      BY <2>2
    <3> HIDE DEF j
    <3>2. whole[(f - 1) + j] = added[j]
      BY <1>2, <1>4, <1>5, <3>1
    <3> QED BY <1>4, <2>2, <3>1, <3>2 DEF Inserted
  <2>3. CASE i \in f + n .. Len(s)
    <3> DEFINE j == i - (f + n - 1)
    <3>1. j \in 1 .. Len(original) - f + 1 /\ (f - 1) + n + j = i /\ f + j - 1 = i - n
      BY <1>1, <2>3
    <3> HIDE DEF j
    <3>2. whole[(f - 1) + n + j] = after[j]
      BY <1>2, <1>3, <1>4, <1>5, <3>1
    <3>3. after[j] = original[f + j - 1]
      BY <1>3, <3>1
    <3> QED BY <2>3, <3>1, <3>2, <3>3 DEF Inserted
  <2> QED BY <1>1, <2>1, <2>2, <2>3
<1>8. s = whole
  BY <1>5, <1>6, <1>7, SeqEqual
<1> QED BY <1>8 DEF whole, before, after, added

\* One replacement at the quote: one backslash more before it.
LEMMA EscapeOnce ==
  ASSUME NEW s \in Seq(Characters), original \in Seq(Characters),
         NEW f \in 1 .. Len(original), NEW n \in Nat,
         original[f] = Quote, Inserted(s, f, n)
  PROVE  LET t == SubSeq(s, 1, f + n - 1) \o Replacement \o SubSeq(s, f + n + 1, Len(s))
         IN  t \in Seq(Characters) /\ Inserted(t, f, n + 1)
<1> DEFINE before == SubSeq(s, 1, f + n - 1)
           after == SubSeq(s, f + n + 1, Len(s))
           t == before \o Replacement \o after
<1>1. Len(original) \in Nat /\ Len(s) = Len(original) + n
  BY LenProperties DEF Inserted
<1>2. /\ before \in Seq(Characters) /\ Len(before) = f + n - 1
      /\ \A i \in 1 .. f + n - 1 : before[i] = s[i]
  <2>1. 1 \in 1 .. Len(s) + 1 /\ f + n - 1 \in 0 .. Len(s)
    BY <1>1
  <2> QED BY <1>1, <2>1, PartOf
<1>3. /\ after \in Seq(Characters) /\ Len(after) = Len(original) - f
      /\ \A i \in 1 .. Len(original) - f : after[i] = s[f + n + i]
  <2>1. Len(s) \in 0 .. Len(s) /\ f + n + 1 \in 1 .. Len(s) + 1
    BY <1>1
  <2> QED BY <1>1, <2>1, PartOf
<1>4. /\ Replacement \in Seq(Characters) /\ Len(Replacement) = 2
      /\ Replacement[1] = Backslash /\ Replacement[2] = Quote
  BY CommandLineAssumption DEF Replacement
<1> HIDE DEF before, after
<1>5. /\ t \in Seq(Characters)
      /\ Len(t) = Len(before) + Len(Replacement) + Len(after)
      /\ \A i \in 1 .. Len(before) : t[i] = before[i]
      /\ \A i \in 1 .. Len(Replacement) : t[Len(before) + i] = Replacement[i]
      /\ \A i \in 1 .. Len(after) : t[Len(before) + Len(Replacement) + i] = after[i]
  <2>1. /\ before \in Seq(Characters) /\ Replacement \in Seq(Characters)
        /\ after \in Seq(Characters)
    BY <1>2, <1>3, <1>4
  <2> QED BY ONLY <2>1, ThreeParts
<1> HIDE DEF t
<1>6. Len(t) = Len(original) + (n + 1)
  BY <1>1, <1>2, <1>3, <1>4, <1>5
<1>7. t[f + n] = Backslash /\ t[f + n + 1] = Quote
  <2>1. (f + n - 1) + 1 = f + n /\ (f + n - 1) + 2 = f + n + 1
    OBVIOUS
  <2>2. t[(f + n - 1) + 1] = Replacement[1] /\ t[(f + n - 1) + 2] = Replacement[2]
    <3>1. 1 \in 1 .. Len(Replacement) /\ 2 \in 1 .. Len(Replacement)
      BY <1>4
    <3> QED BY <1>2, <1>5, <3>1
  <2> QED BY <1>4, <2>1, <2>2
<1>8. \A i \in 1 .. f + n - 1 : t[i] = s[i]
  BY <1>2, <1>5
<1>9. ASSUME NEW i \in f + n + 2 .. Len(t) PROVE t[i] = s[i - 1]
  <2> DEFINE j == i - (f + n + 1)
  <2>1. j \in 1 .. Len(original) - f /\ (f + n - 1) + 2 + j = i /\ f + n + j = i - 1
    BY <1>1, <1>6
  <2> HIDE DEF j
  <2>2. t[(f + n - 1) + 2 + j] = after[j]
    BY <1>2, <1>3, <1>4, <1>5, <2>1
  <2>3. after[j] = s[f + n + j]
    BY <1>3, <2>1
  <2> QED BY <2>1, <2>2, <2>3
<1>10. \A i \in 1 .. f - 1 : t[i] = original[i]
  <2> TAKE i \in 1 .. f - 1
  <2>1. i \in 1 .. f + n - 1 /\ s[i] = original[i]
    BY DEF Inserted
  <2> QED BY <1>8, <2>1
<1>11. ASSUME NEW i \in f .. f + (n + 1) - 1 PROVE t[i] = Backslash
  <2>1. CASE i = f + n
    BY <1>7, <2>1
  <2>2. CASE i # f + n
    <3>1. i \in f .. f + n - 1 /\ i \in 1 .. f + n - 1
      BY <2>2
    <3> QED BY <1>8, <3>1 DEF Inserted
  <2> QED BY <2>1, <2>2
<1>12. ASSUME NEW i \in f + (n + 1) .. Len(t) PROVE t[i] = original[i - (n + 1)]
  <2>1. CASE i = f + n + 1
    <3>1. i - (n + 1) = f
      BY <2>1
    <3> QED BY <1>7, <2>1, <3>1
  <2>2. CASE i # f + n + 1
    <3>1. i \in f + n + 2 .. Len(t) /\ i - 1 \in f + n .. Len(s)
          /\ (i - 1) - n = i - (n + 1)
      BY <1>1, <1>6, <2>2
    <3> QED BY <1>9, <3>1 DEF Inserted
  <2> QED BY <2>1, <2>2
<1>13. Inserted(t, f, n + 1)
  BY <1>6, <1>10, <1>11, <1>12 DEF Inserted
<1> QED BY <1>5, <1>13 DEF t, before, after

-----------------------------------------------------------------------------
\* How what quoteAsCommandComponent makes is read.

Places == {"before", "outside", "inside", "past"}

ReaderState == [ text : Seq(Characters), pending : Nat, place : Places ]

\* A state of the reader, and its fields.
ReaderAt(text, pending, place) == [ text |-> text, pending |-> pending, place |-> place ]

LEMMA ReadFields ==
  ASSUME NEW t, NEW k, NEW w
  PROVE  /\ ReaderAt(t, k, w).text = t
         /\ ReaderAt(t, k, w).pending = k
         /\ ReaderAt(t, k, w).place = w
         /\ t \in Seq(Characters) /\ k \in Nat /\ w \in Places
              => ReaderAt(t, k, w) \in ReaderState
BY DEF ReaderAt, ReaderState

\* Where the reader is after a character that is part of the component.
LEMMA BegunPlace ==
  ASSUME NEW w \in Places
  PROVE  /\ Begun(w) \in Places
         /\ Begun(Begun(w)) = Begun(w)
         /\ w # "past" => Begun(w) \in {"outside", "inside"}
         /\ w # "before" => Begun(w) = w
         /\ Begun(w) = "inside" <=> w = "inside"
BY DEF Begun, Places

\* The reader's state after one more character.
LEMMA ReadOne ==
  ASSUME NEW r \in ReaderState, NEW c \in Characters
  PROVE  /\ ReadCharacter(r, c) \in ReaderState
         /\ r.place = "past" => ReadCharacter(r, c) = r
         /\ r.place # "past" /\ c = Backslash => ReadCharacter(r, c) =
              ReaderAt(r.text, r.pending + 1, Begun(r.place))
         /\ r.place # "past" /\ c = Quote /\ r.pending % 2 = 0 => ReadCharacter(r, c) =
              ReaderAt(r.text \o Backslashes(r.pending \div 2), 0, AcrossQuote[r.place])
         /\ r.place # "past" /\ c = Quote /\ r.pending % 2 = 1 =>
              ReadCharacter(r, c).place = r.place
         /\ c \in Separators /\ r.place # "inside" =>
              /\ ReadCharacter(r, c).text = r.text
              /\ ReadCharacter(r, c).place \in {"before", "past"}
         /\ /\ r.place # "past" /\ c # Backslash /\ c # Quote
            /\ c \notin Separators \/ r.place = "inside"
            => ReadCharacter(r, c) =
                 ReaderAt(r.text \o Backslashes(r.pending) \o << c >>, 0, Begun(r.place))
<1>1. /\ r.text \in Seq(Characters) /\ r.pending \in Nat
      /\ r.place \in Places
      /\ r = ReaderAt(r.text, r.pending, r.place)
  BY DEF ReaderState, ReaderAt
<1>2. r.pending \div 2 \in Nat /\ r.pending % 2 \in {0, 1}
  BY <1>1
<1>3. Backslashes(r.pending) \in Seq(Characters)
      /\ Backslashes(r.pending \div 2) \in Seq(Characters)
  BY <1>1, <1>2, BackslashesType
<1>0. /\ Begun(r.place) \in Places
      /\ r.place # "past" => AcrossQuote[r.place] \in Places
  BY <1>1 DEF Begun, Places, AcrossQuote
<1>12. /\ Backslash # Quote /\ Backslash \notin Separators /\ Quote \notin Separators
  BY CommandLineAssumption DEF Separators
<1> DEFINE halved == r.text \o Backslashes(r.pending \div 2)
           whole == r.text \o Backslashes(r.pending) \o << c >>
<1>4. halved \in Seq(Characters) /\ Append(halved, Quote) \in Seq(Characters)
  <2>1. halved \in Seq(Characters)
    BY <1>1, <1>3, ConcatProperties
  <2> HIDE DEF halved
  <2> QED BY <2>1, CommandLineAssumption, AppendProperties
<1>5. whole \in Seq(Characters)
  <2>1. << c >> \in Seq(Characters)
    OBVIOUS
  <2> QED BY <1>1, <1>3, <2>1, ThreeParts
<1>6. CASE r.place = "past"
  <2>1. ReadCharacter(r, c) = r
    BY <1>6 DEF ReadCharacter
  <2> QED BY <1>6, <2>1
<1>7. CASE r.place # "past" /\ c = Backslash
  <2>1. ReadCharacter(r, c) = [r EXCEPT !.pending = @ + 1, !.place = Begun(@)]
    BY <1>7 DEF ReadCharacter
  <2>2. ReadCharacter(r, c) = ReaderAt(r.text, r.pending + 1, Begun(r.place))
    BY <1>1, <2>1 DEF ReaderAt
  <2>3. ReadCharacter(r, c) \in ReaderState
    BY <1>0, <1>1, <2>2, ReadFields
  <2> QED BY <1>7, <1>12, <2>2, <2>3
<1>8. CASE r.place # "past" /\ c = Quote
  <2> DEFINE half == [r EXCEPT !.text = @ \o Backslashes(r.pending \div 2), !.pending = 0]
  <2>1. ReadCharacter(r, c) = IF r.pending % 2 = 1 THEN [half EXCEPT !.text = Append(@, Quote)]
                              ELSE [half EXCEPT !.place = AcrossQuote[@]]
    BY <1>8, <1>12 DEF ReadCharacter
  <2>2. half = ReaderAt(halved, 0, r.place)
    <3> HIDE DEF halved
    <3>1. half = [r EXCEPT !.text = halved, !.pending = 0]
      BY DEF halved
    <3> HIDE DEF half
    <3> QED BY <1>1, <3>1 DEF ReaderAt
  <2> HIDE DEF half, halved
  <2>3. CASE r.pending % 2 = 1
    <3> DEFINE longer == Append(halved, Quote)
    <3>1. ReadCharacter(r, c) = ReaderAt(longer, 0, r.place)
      BY <2>1, <2>2, <2>3 DEF ReaderAt
    <3>0. longer \in Seq(Characters)
      BY <1>4
    <3> HIDE DEF longer
    <3>2. ReadCharacter(r, c) \in ReaderState /\ ReadCharacter(r, c).place = r.place
      BY <1>1, <3>0, <3>1, ReadFields
    <3> QED BY <1>8, <1>12, <2>3, <3>2
  <2>4. CASE r.pending % 2 = 0
    <3>1. ReadCharacter(r, c) = ReaderAt(halved, 0, AcrossQuote[r.place])
      BY <2>1, <2>2, <2>4 DEF ReaderAt
    <3>2. ReadCharacter(r, c) \in ReaderState
      BY <1>0, <1>4, <1>8, <3>1, ReadFields
    <3> QED BY <1>8, <1>12, <2>4, <3>1, <3>2 DEF halved
  <2> QED BY <1>2, <2>3, <2>4
<1>9. CASE r.place # "past" /\ c \in Separators /\ r.place # "inside"
  <2> DEFINE w == IF r.place = "before" THEN r.place ELSE "past"
  <2>1. ReadCharacter(r, c) = [r EXCEPT !.place = IF @ = "before" THEN @ ELSE "past"]
    BY <1>9, <1>12 DEF ReadCharacter
  <2>2. w \in {"before", "past"} /\ w \in Places
    BY DEF Places
  <2>3. ReadCharacter(r, c) = ReaderAt(r.text, r.pending, w)
    BY <1>1, <2>1 DEF ReaderAt
  <2> HIDE DEF w
  <2>4. /\ ReadCharacter(r, c) \in ReaderState /\ ReadCharacter(r, c).text = r.text
        /\ ReadCharacter(r, c).place \in {"before", "past"}
    BY <1>1, <2>2, <2>3, ReadFields
  <2> QED BY <1>9, <1>12, <2>4
<1>10. CASE /\ r.place # "past" /\ c # Backslash /\ c # Quote
            /\ c \notin Separators \/ r.place = "inside"
  <2>1. ReadCharacter(r, c) =
          [r EXCEPT !.text = @ \o Backslashes(r.pending) \o << c >>, !.pending = 0,
                    !.place = Begun(@)]
    BY <1>10 DEF ReadCharacter
  <2>2. ReadCharacter(r, c) = ReaderAt(whole, 0, Begun(r.place))
    BY <1>1, <2>1 DEF ReaderAt
  <2> HIDE DEF whole
  <2>3. ReadCharacter(r, c) \in ReaderState
    BY <1>0, <1>5, <2>2, ReadFields
  <2> QED BY <1>10, <2>2, <2>3 DEF whole
<1> QED BY <1>6, <1>7, <1>8, <1>9, <1>10

\* What Reading is said to be it is.
LEMMA ReadingSteps ==
  ASSUME NEW s \in Seq(Characters)
  PROVE  /\ Len(s) \in Nat
         /\ Reading(s)[0] = ReaderInit
         /\ \A n \in 0 .. Len(s) : Reading(s)[n] \in ReaderState
         /\ \A n \in 1 .. Len(s) :
              /\ s[n] \in Characters
              /\ Reading(s)[n] = ReadCharacter(Reading(s)[n - 1], s[n])
<1> DEFINE N == Len(s)
           turn == [n \in 1 .. N |-> [r \in ReaderState |-> ReadCharacter(r, s[n])]]
<1>1. N \in Nat /\ \A n \in 1 .. N : s[n] \in Characters
  BY LenProperties, ElementOfSeq
<1>2. turn \in [1 .. N -> [ReaderState -> ReaderState]]
  BY <1>1, ReadOne
<1>3. \A n \in 1 .. N, r \in ReaderState : turn[n][r] = ReadCharacter(r, s[n])
  OBVIOUS
<1>4. ReaderInit \in ReaderState
  BY DEF ReaderInit, ReaderState, Places
<1> HIDE DEF N, turn
<1>5. PICK f \in [0 .. N -> ReaderState] :
        f[0] = ReaderInit /\ \A n \in 1 .. N : f[n] = turn[n][f[n - 1]]
  <2> DEFINE State == ReaderState
  <2>1. ReaderInit \in State /\ N \in Nat /\ turn \in [1 .. N -> [State -> State]]
    BY <1>1, <1>2, <1>4
  <2> HIDE DEF State
  <2>2. \E f \in [0 .. N -> State] :
          f[0] = ReaderInit /\ \A n \in 1 .. N : f[n] = turn[n][f[n - 1]]
    BY ONLY <2>1, FoldExists
  <2> QED BY <2>2 DEF State
<1>6. \A n \in 1 .. N : n - 1 \in 0 .. N /\ f[n - 1] \in ReaderState
  BY <1>1, <1>5
<1>7. \A n \in 1 .. N : f[n] = ReadCharacter(f[n - 1], s[n])
  BY <1>3, <1>5, <1>6
<1>8. f = [n \in 0 .. N |-> IF n = 0 THEN ReaderInit ELSE ReadCharacter(f[n - 1], s[n])]
  <2> DEFINE g == [n \in 0 .. N |->
                     IF n = 0 THEN ReaderInit ELSE ReadCharacter(f[n - 1], s[n])]
  <2>1. ASSUME NEW n \in 0 .. N PROVE f[n] = g[n]
    BY <1>1, <1>5, <1>7
  <2>2. f = [n \in 0 .. N |-> f[n]] /\ g = [n \in 0 .. N |-> g[n]]
    BY <1>5
  <2> HIDE DEF g
  <2>3. f = g
    BY <2>1, <2>2
  <2> QED BY <2>3 DEF g
<1> DEFINE r == Reading(s)
<1>9. r = [n \in 0 .. N |-> IF n = 0 THEN ReaderInit ELSE ReadCharacter(r[n - 1], s[n])]
  BY <1>8 DEF Reading, N
<1> HIDE DEF r
<1>10. r[0] = ReaderInit /\ \A n \in 1 .. N : r[n] = ReadCharacter(r[n - 1], s[n])
  <2>1. \A n \in 0 .. N : r[n] = IF n = 0 THEN ReaderInit ELSE ReadCharacter(r[n - 1], s[n])
    BY <1>9
  <2>2. 0 \in 0 .. N /\ \A n \in 1 .. N : n \in 0 .. N /\ n # 0
    BY <1>1
  <2> QED BY <2>1, <2>2
<1> DEFINE T == { n \in 0 .. N : r[n] \in ReaderState }
<1>11. 0 \in T
  BY <1>1, <1>4, <1>10
<1>12. \A n \in 1 .. N : n - 1 \in T => n \in T
  <2> SUFFICES ASSUME NEW n \in 1 .. N, r[n - 1] \in ReaderState PROVE r[n] \in ReaderState
    OBVIOUS
  <2>1. ReadCharacter(r[n - 1], s[n]) \in ReaderState
    BY <1>1, ReadOne
  <2> QED BY <1>10, <2>1
<1> HIDE DEF T
<1>13. 0 .. N \subseteq T
  BY <1>1, <1>11, <1>12, IntervalInduction
<1>14. \A n \in 0 .. N : r[n] \in ReaderState
  BY <1>13 DEF T
<1> QED BY <1>1, <1>10, <1>14 DEF r, N

\* The reader has read what stands between the b-th and the n-th character: the
\* text and the backslashes that are pending, index by index.
HasRead(r, s, b, n) ==
  /\ r.pending <= n - b
  /\ Len(r.text) = n - b - r.pending
  /\ \A j \in 1 .. Len(r.text) : r.text[j] = s[b + j]
  /\ \A j \in n - r.pending + 1 .. n : s[j] = Backslash
  /\ n > b /\ s[n] = Backslash => r.pending >= 1
  /\ r.place # "past"

\* No quote is read, and no separator outside of quotes.
LEMMA ReadPlain ==
  ASSUME NEW s \in Seq(Characters), NEW b \in 0 .. Len(s), NEW e \in b .. Len(s),
         HasRead(Reading(s)[b], s, b, b),
         \A n \in b + 1 .. e :
           s[n] # Quote /\ (s[n] \notin Separators \/ Reading(s)[b].place = "inside")
  PROVE  /\ HasRead(Reading(s)[e], s, b, e)
         /\ Reading(s)[e].place =
              IF e = b THEN Reading(s)[b].place ELSE Begun(Reading(s)[b].place)
<1> DEFINE r == Reading(s)
           v == r[b].place
           now(k) == IF k = 0 THEN v ELSE Begun(v)
           T == { k \in 0 .. e - b : HasRead(r[b + k], s, b, b + k) /\ r[b + k].place = now(k) }
<1>1. /\ Len(s) \in Nat
      /\ \A n \in 0 .. Len(s) : r[n] \in ReaderState
      /\ \A n \in 1 .. Len(s) : s[n] \in Characters /\ r[n] = ReadCharacter(r[n - 1], s[n])
  BY ReadingSteps
<1> HIDE DEF r
<1>2. 0 \in T
  BY <1>1 DEF r
<1>3. ASSUME NEW k \in 1 .. e - b, k - 1 \in T PROVE k \in T
  <2> DEFINE n == b + k
             q == r[n - 1]
             c == s[n]
  <2>1. n \in 1 .. Len(s) /\ n - 1 \in 0 .. Len(s) /\ n \in b + 1 .. e /\ n - 1 = b + (k - 1)
    BY <1>1
  <2>2. /\ q \in ReaderState /\ c \in Characters /\ r[n] = ReadCharacter(q, c)
        /\ c # Quote /\ (c \notin Separators \/ v = "inside")
    BY <1>1, <2>1 DEF r
  <2>3. HasRead(q, s, b, n - 1) /\ q.place = now(k - 1)
    BY <1>3, <2>1
  <2>8. /\ q.place \in Places /\ q.place # "past" /\ Begun(q.place) # "past"
        /\ Begun(q.place) = now(k) /\ (c \notin Separators \/ q.place = "inside")
    <3>1. v \in Places
      BY <1>1 DEF ReaderState
    <3>2. k # 0
      OBVIOUS
    <3>3. q.place \in Places /\ q.place # "past"
      BY <2>2, <2>3 DEF ReaderState, HasRead
    <3>4. /\ Begun(q.place) = now(k) /\ Begun(q.place) # "past"
          /\ v = "inside" => q.place = "inside"
      BY <2>3, <3>1, <3>2, <3>3 DEF Begun, Places
    <3> QED BY <2>2, <3>3, <3>4
  <2> DEFINE w == now(k)
  <2>9. Begun(q.place) = w /\ w # "past"
    BY <2>8
  <2> HIDE DEF T, v, n, q, c, w, now
  <2>4. /\ q.text \in Seq(Characters) /\ Len(q.text) \in Nat
        /\ q.pending \in Nat
    <3>1. q.text \in Seq(Characters) /\ q.pending \in Nat
      BY <2>2 DEF ReaderState
    <3> QED BY <3>1, LenProperties
  <2> DEFINE m == Len(q.text)
             d == q.pending
  <2>5. /\ n \in Int /\ b \in Int /\ m \in Nat /\ d \in Nat /\ b + 1 <= n
        /\ d <= (n - 1) - b /\ m = (n - 1) - b - d
    <3>1. n \in Int /\ b \in Int /\ b + 1 <= n
      BY <1>1, <2>1
    <3>2. d <= (n - 1) - b /\ m = (n - 1) - b - d
      BY <2>3 DEF HasRead
    <3> QED BY <2>4, <3>1, <3>2
  <2>6. \A j \in (n - 1) - d + 1 .. n - 1 : s[j] = Backslash
    BY <2>3 DEF HasRead
  <2> HIDE DEF m, d
  <2>7. HasRead(r[n], s, b, n) /\ r[n].place = w
    <3>1. CASE c = Backslash
      <4>1. r[n] = ReaderAt(q.text, q.pending + 1, w)
        BY <2>2, <2>8, <2>9, <3>1, ReadOne
      <4>2. /\ r[n].text = q.text /\ r[n].pending = q.pending + 1
            /\ r[n].place = w /\ w # "past"
        BY <2>4, <2>9, <4>1, ReadFields
      <4>3. s[n] = Backslash
        BY <3>1 DEF c
      <4>4. ASSUME NEW j \in n - (q.pending + 1) + 1 .. n PROVE s[j] = Backslash
        <5>1. CASE j = n
          BY <4>3, <5>1
        <5>2. CASE j # n
          <6>2. j \in n - (d + 1) + 1 .. n
            BY DEF d
          <6>1. j \in (n - 1) - d + 1 .. n - 1
            BY <2>5, <5>2, <6>2
          <6> QED BY <2>6, <6>1
        <5> QED BY <5>1, <5>2
      <4>5. /\ q.pending <= (n - 1) - b /\ Len(q.text) = (n - 1) - b - q.pending
            /\ \A j \in 1 .. Len(q.text) : q.text[j] = s[b + j]
        BY <2>3 DEF HasRead
      <4>6. /\ q.pending + 1 <= n - b
            /\ Len(q.text) = n - b - (q.pending + 1)
            /\ q.pending + 1 >= 1
        <5>1. n \in Int /\ b \in Int
          BY <1>1, <2>1
        <5> QED BY <2>4, <4>5, <5>1
      <4> QED BY <2>3, <4>2, <4>4, <4>5, <4>6 DEF HasRead
    <3>2. CASE c # Backslash
      <4> DEFINE added == Backslashes(q.pending)
                 last == << c >>
                 new == q.text \o added \o last
      <4>1. r[n] = ReaderAt(new, 0, w)
        BY <2>2, <2>8, <2>9, <3>2, ReadOne
      <4>2. /\ added \in Seq(Characters) /\ Len(added) = q.pending
            /\ \A i \in 1 .. q.pending : added[i] = Backslash
        BY <2>4, BackslashesType
      <4>3. last \in Seq(Characters) /\ Len(last) = 1 /\ last[1] = c
        BY <2>2
      <4> HIDE DEF added, last
      <4>4. /\ Len(new) = Len(q.text) + Len(added) + Len(last)
            /\ \A i \in 1 .. Len(q.text) : new[i] = q.text[i]
            /\ \A i \in 1 .. Len(added) : new[Len(q.text) + i] = added[i]
            /\ \A i \in 1 .. Len(last) : new[Len(q.text) + Len(added) + i] = last[i]
        <5> DEFINE before == q.text
        <5>1. before \in Seq(Characters) /\ added \in Seq(Characters)
              /\ last \in Seq(Characters)
          BY <2>4, <4>2, <4>3
        <5> HIDE DEF before
        <5>2. /\ Len(before \o added \o last) = Len(before) + Len(added) + Len(last)
              /\ \A i \in 1 .. Len(before) : (before \o added \o last)[i] = before[i]
              /\ \A i \in 1 .. Len(added) :
                   (before \o added \o last)[Len(before) + i] = added[i]
              /\ \A i \in 1 .. Len(last) :
                   (before \o added \o last)[Len(before) + Len(added) + i] = last[i]
          BY ONLY <5>1, ThreeParts
        <5> QED BY <5>2 DEF before
      <4>5. new[Len(q.text) + Len(added) + 1] = c
        BY <4>3, <4>4
      <4> HIDE DEF new
      <4>6. Len(new) = m + d + 1 /\ Len(new) = n - b
        <5>1. Len(new) = m + d + 1
          BY <4>2, <4>3, <4>4 DEF m, d
        <5> QED BY <2>5, <5>1
      <4>7. ASSUME NEW j \in 1 .. Len(new) PROVE new[j] = s[b + j]
        <5>0. j \in 1 .. m + d + 1
          BY <4>6
        <5>1. CASE j \in 1 .. m
          <6>1. new[j] = q.text[j]
            BY <4>4, <5>1 DEF m
          <6> QED BY <2>3, <5>1, <6>1 DEF HasRead, m
        <5>2. CASE j \in m + 1 .. m + d
          <6> DEFINE i == j - m
          <6>1. i \in 1 .. d /\ m + i = j
            BY <2>5, <5>2
          <6>2. b + j \in (n - 1) - d + 1 .. n - 1
            BY <2>5, <5>2
          <6> HIDE DEF i
          <6>3. new[m + i] = Backslash
            BY <4>2, <4>4, <6>1 DEF m, d
          <6> QED BY <2>6, <6>1, <6>2, <6>3
        <5>3. CASE j = m + d + 1
          <6>1. b + j = n
            BY <2>5, <5>3
          <6>2. new[m + d + 1] = c
            BY <4>2, <4>5 DEF m, d
          <6> QED BY <5>3, <6>1, <6>2 DEF c
        <5> QED BY <2>5, <5>0, <5>1, <5>2, <5>3
      <4>8. /\ r[n].text = new /\ r[n].pending = 0 /\ r[n].place = w
            /\ w # "past"
        BY <2>9, <4>1, ReadFields
      <4>9. s[n] # Backslash
        BY <3>2 DEF c
      <4> QED BY <2>1, <2>3, <4>6, <4>7, <4>8, <4>9 DEF HasRead
    <3> QED BY <3>1, <3>2
  <2> QED BY <2>7 DEF T, n, w
<1> HIDE DEF T, v, now
<1>4. 0 .. e - b \subseteq T
  <2>1. e - b \in Nat
    BY <1>1
  <2> QED BY <1>2, <1>3, <2>1, IntervalInduction
<1>5. e - b \in T /\ b + (e - b) = e
  BY <1>1, <1>4
<1>6. HasRead(r[e], s, b, e) /\ r[e].place = now(e - b)
  BY <1>5 DEF T
<1>7. now(e - b) = IF e = b THEN v ELSE Begun(v)
  BY <1>1 DEF now
<1> QED BY <1>6, <1>7 DEF v, r

\* t stands in s after the b-th character.
Stands(t, s, b) == \A i \in 1 .. Len(t) : s[b + i] = t[i]

\* What has been read, put together.
LEMMA TextRead ==
  ASSUME NEW r \in ReaderState, NEW s, NEW b \in Nat, NEW n \in Nat, HasRead(r, s, b, n),
         NEW t \in Seq(Characters), Len(t) = n - b, Stands(t, s, b)
  PROVE  r.text \o Backslashes(r.pending) = t
<1> DEFINE text == r.text
           k == r.pending
           added == Backslashes(k)
           whole == text \o added
<1>1. text \in Seq(Characters) /\ Len(text) \in Nat /\ k \in Nat
  <2>1. text \in Seq(Characters) /\ k \in Nat
    BY DEF ReaderState
  <2> HIDE DEF text
  <2> QED BY <2>1, LenProperties
<1>2. /\ Len(text) = n - b - k
      /\ \A j \in 1 .. Len(text) : text[j] = s[b + j]
      /\ \A j \in n - k + 1 .. n : s[j] = Backslash
  BY DEF HasRead
<1> HIDE DEF text, k
<1>3. /\ added \in Seq(Characters) /\ Len(added) = k
      /\ \A i \in 1 .. k : added[i] = Backslash
  BY <1>1, BackslashesType
<1> HIDE DEF added
<1>4. /\ whole \in Seq(Characters) /\ Len(whole) = Len(text) + Len(added)
      /\ \A i \in 1 .. Len(text) + Len(added) :
           whole[i] = IF i <= Len(text) THEN text[i] ELSE added[i - Len(text)]
  BY <1>1, <1>3, ConcatProperties
<1> HIDE DEF whole
<1>5. Len(whole) = Len(t) /\ Len(t) \in Nat
  BY <1>1, <1>2, <1>3, <1>4
<1>6. ASSUME NEW i \in 1 .. Len(t) PROVE whole[i] = t[i]
  <2>1. CASE i <= Len(text)
    <3>1. i \in 1 .. Len(text) /\ i \in 1 .. Len(text) + Len(added)
      BY <1>1, <1>3, <2>1
    <3> QED BY <1>2, <1>4, <2>1, <3>1 DEF Stands
  <2>2. CASE ~(i <= Len(text))
    <3>1. i - Len(text) \in 1 .. k /\ b + i \in n - k + 1 .. n
          /\ i \in 1 .. Len(text) + Len(added)
      BY <1>1, <1>2, <1>3, <1>5, <2>2
    <3>2. whole[i] = Backslash
      BY <1>3, <1>4, <2>2, <3>1
    <3>3. s[b + i] = Backslash
      BY <1>2, <3>1
    <3> QED BY <3>2, <3>3 DEF Stands
  <2> QED BY <2>1, <2>2
<1>7. whole = t
  BY <1>4, <1>5, <1>6, SeqEqual
<1> QED BY <1>7 DEF whole, added, text, k

\* No backslashes.
LEMMA NoBackslashes ==
  ASSUME NEW t \in Seq(Characters)
  PROVE  t \o Backslashes(0) = t
<1> DEFINE added == Backslashes(0)
<1>1. added \in Seq(Characters) /\ Len(added) = 0
  BY BackslashesType
<1> HIDE DEF added
<1>2. added = << >>
  BY <1>1, EmptySeq
<1> QED BY <1>2, ConcatEmptySeq DEF added

\* The reader has read nothing yet, at the beginning or after a quote.
LEMMA NothingRead ==
  ASSUME NEW s, NEW b \in Nat, NEW r, NEW w \in {"before", "inside"}, r = ReaderAt(<< >>, 0, w)
  PROVE  HasRead(r, s, b, b) /\ r.place = w
<1> DEFINE empty == << >>
<1>1. Len(empty) = 0
  OBVIOUS
<1>2. r = ReaderAt(empty, 0, w)
  OBVIOUS
<1> HIDE DEF empty
<1>3. r.text = empty /\ r.pending = 0 /\ r.place = w
  BY <1>2, ReadFields
<1> QED BY <1>1, <1>3 DEF HasRead

\* A string without quotes and separators is read as it is, if it has a character.
LEMMA ReadsUnquoted ==
  ASSUME NEW s \in Seq(Characters), ~NeedsQuotes(s), s # << >>,
         \A i \in DOMAIN s : s[i] # Tab
  PROVE  ReadBackAs(s, s)
<1> DEFINE r == Reading(s)
           N == Len(s)
           q == r[N]
<1>1. /\ N \in Nat /\ r[0] = ReaderInit /\ r[0] \in ReaderState /\ q \in ReaderState
      /\ 0 \in 0 .. N /\ N \in 0 .. N /\ N # 0
  <2>1. N \in Nat /\ N # 0
    BY LenProperties, EmptySeq
  <2> QED BY <2>1, ReadingSteps
<1>2. \A n \in 1 .. N : s[n] # Quote /\ s[n] \notin Separators
  <2>1. DOMAIN s = 1 .. N
    BY LenProperties
  <2> QED BY <2>1 DEF NeedsQuotes, Separators
<1>3. HasRead(r[0], s, 0, 0) /\ r[0].place = "before"
  <2>1. r[0] = ReaderAt(<< >>, 0, "before")
    BY <1>1 DEF ReaderInit, ReaderAt
  <2> HIDE DEF r
  <2> QED BY <2>1, NothingRead
<1>4. HasRead(q, s, 0, N) /\ q.place = "outside"
  <2>1. \A n \in 0 + 1 .. N : s[n] # Quote /\ (s[n] \notin Separators \/ r[0].place = "inside")
    BY <1>2
  <2>2. HasRead(q, s, 0, N) /\ q.place = IF N = 0 THEN r[0].place ELSE Begun(r[0].place)
    BY <1>1, <1>3, <2>1, ReadPlain
  <2> QED BY <1>1, <1>3, <2>2 DEF Begun
<1>5. Stands(s, s, 0)
  BY DEF Stands
<1> HIDE DEF r
<1>6. q.text \o Backslashes(q.pending) = s
  <2>1. /\ q \in ReaderState /\ 0 \in Nat /\ N \in Nat /\ HasRead(q, s, 0, N)
        /\ s \in Seq(Characters) /\ Len(s) = N - 0
        /\ Stands(s, s, 0)
    BY <1>1, <1>4, <1>5
  <2> HIDE DEF q, N
  <2> QED BY ONLY <2>1, TextRead
<1> QED BY <1>4, <1>6 DEF ReadBackAs, r

\* The empty string is no component.
LEMMA ReadsNothing == ~ReadBackAs(<< >>, << >>)
<1> DEFINE s == << >>
<1>1. s \in Seq(Characters) /\ Len(s) = 0
  OBVIOUS
<1> HIDE DEF s
<1>2. Reading(s)[Len(s)] = ReaderInit
  BY <1>1, ReadingSteps
<1>3. ReaderInit.place = "before"
  BY DEF ReaderInit
<1>4. ~ReadBackAs(s, s)
  BY <1>2, <1>3 DEF ReadBackAs
<1> QED BY <1>4 DEF s

\* Outside of quotes no tab is read into the text.
NoTab(r) == r.place # "inside" /\ \A j \in 1 .. Len(r.text) : r.text[j] # Tab

LEMMA NoTabAppended ==
  ASSUME NEW t \in Seq(Characters), \A j \in 1 .. Len(t) : t[j] # Tab,
         NEW k \in Nat, NEW e \in Seq(Characters), \A j \in 1 .. Len(e) : e[j] # Tab
  PROVE  \A j \in 1 .. Len(t \o Backslashes(k) \o e) : (t \o Backslashes(k) \o e)[j] # Tab
<1> DEFINE b == Backslashes(k)
           w == t \o b \o e
<1>1. b \in Seq(Characters) /\ Len(b) = k /\ \A j \in 1 .. k : b[j] = Backslash
  BY BackslashesType
<1> HIDE DEF b
<1>2. /\ Len(w) = Len(t) + Len(b) + Len(e)
      /\ \A i \in 1 .. Len(t) : w[i] = t[i]
      /\ \A i \in 1 .. Len(b) : w[Len(t) + i] = b[i]
      /\ \A i \in 1 .. Len(e) : w[Len(t) + Len(b) + i] = e[i]
  <2>1. t \in Seq(Characters) /\ b \in Seq(Characters) /\ e \in Seq(Characters)
    BY <1>1
  <2> QED BY ONLY <2>1, ThreeParts
<1>3. Len(t) \in Nat /\ Len(e) \in Nat
  BY LenProperties
<1> HIDE DEF w
<1>4. ASSUME NEW j \in 1 .. Len(w) PROVE w[j] # Tab
  <2>1. CASE j \in 1 .. Len(t)
    BY <1>2, <2>1
  <2>2. CASE j \in Len(t) + 1 .. Len(t) + k
    <3>1. j - Len(t) \in 1 .. k /\ Len(t) + (j - Len(t)) = j
      BY <1>3, <2>2
    <3>2. w[j] = b[j - Len(t)]
      BY <1>1, <1>2, <3>1
    <3> QED BY <1>1, <3>1, <3>2, CommandLineAssumption
  <2>3. CASE j \in Len(t) + k + 1 .. Len(w)
    <3>1. j - (Len(t) + k) \in 1 .. Len(e) /\ Len(t) + k + (j - (Len(t) + k)) = j
      BY <1>1, <1>2, <1>3, <2>3
    <3>2. w[j] = e[j - (Len(t) + k)]
      BY <1>1, <1>2, <3>1
    <3> QED BY <3>1, <3>2
  <2> QED BY <1>1, <1>2, <1>3, <2>1, <2>2, <2>3
<1> QED BY <1>4 DEF w, b

\* So a string that is left without quotes although it has a tab is read as
\* something else.
LEMMA ReadsNoTab ==
  ASSUME NEW s \in Seq(Characters), ~NeedsQuotes(s),
         NEW i \in DOMAIN s, s[i] = Tab
  PROVE  ~ReadBackAs(s, s)
<1> DEFINE r == Reading(s)
           N == Len(s)
           T == { n \in 0 .. N : NoTab(r[n]) }
<1>1. /\ N \in Nat /\ r[0] = ReaderInit
      /\ \A n \in 0 .. N : r[n] \in ReaderState
      /\ \A n \in 1 .. N : s[n] \in Characters /\ r[n] = ReadCharacter(r[n - 1], s[n])
  BY ReadingSteps
<1>2. DOMAIN s = 1 .. N
  BY LenProperties
<1>3. \A n \in 1 .. N : s[n] # Quote
  BY <1>2 DEF NeedsQuotes
<1> HIDE DEF r, N
<1>4. 0 \in T
  <2>1. NoTab(ReaderInit)
    BY DEF NoTab, ReaderInit
  <2> QED BY <1>1, <2>1
<1>5. ASSUME NEW n \in 1 .. N, n - 1 \in T PROVE n \in T
  <2> DEFINE q == r[n - 1]
             c == s[n]
  <2>1. n - 1 \in 0 .. N
    BY <1>1
  <2>2. /\ q \in ReaderState /\ c \in Characters /\ c # Quote /\ NoTab(q)
        /\ r[n] = ReadCharacter(q, c)
    BY <1>1, <1>3, <1>5, <2>1
  <2> HIDE DEF q, c
  <2>3. q.text \in Seq(Characters) /\ q.pending \in Nat /\ q.place \in Places
    BY <2>2 DEF ReaderState
  <2>4. q.place # "inside" /\ \A j \in 1 .. Len(q.text) : q.text[j] # Tab
    BY <2>2 DEF NoTab
  <2>9. NoTab(r[n])
    <3>1. CASE q.place = "past"
      <4>1. r[n] = q
        BY <2>2, <3>1, ReadOne
      <4> QED BY <2>2, <4>1
    <3>2. CASE q.place # "past" /\ c = Backslash
      <4>1. r[n] = ReaderAt(q.text, q.pending + 1, Begun(q.place))
        BY <2>2, <3>2, ReadOne
      <4>2. r[n].text = q.text /\ r[n].place = Begun(q.place)
        BY <4>1, ReadFields
      <4>3. Begun(q.place) # "inside"
        BY <2>3, <2>4, BegunPlace
      <4> QED BY <2>4, <4>2, <4>3 DEF NoTab
    <3>3. CASE c \in Separators
      <4>1. /\ ReadCharacter(q, c).text = q.text
            /\ ReadCharacter(q, c).place \in {"before", "past"}
        <5>1. q \in ReaderState /\ c \in Characters
          BY <2>2
        <5>2. c \in Separators /\ q.place # "inside"
          BY <2>4, <3>3
        <5> QED BY ONLY <5>1, <5>2, ReadOne
      <4>2. r[n].text = q.text /\ r[n].place \in {"before", "past"}
        BY <2>2, <4>1
      <4> QED BY <2>4, <4>2 DEF NoTab
    <3>4. CASE q.place # "past" /\ c # Backslash /\ c \notin Separators
      <4> DEFINE w == q.text \o Backslashes(q.pending) \o << c >>
      <4>1. r[n] = ReaderAt(w, 0, Begun(q.place))
        BY <2>2, <3>4, ReadOne
      <4>2. \A j \in 1 .. Len(w) : w[j] # Tab
        <5> DEFINE e == << c >>
        <5>1. e \in Seq(Characters) /\ \A j \in 1 .. Len(e) : e[j] # Tab
          BY <2>2, <3>4 DEF Separators
        <5> HIDE DEF e
        <5>2. \A j \in 1 .. Len(q.text \o Backslashes(q.pending) \o e) :
                (q.text \o Backslashes(q.pending) \o e)[j] # Tab
          BY <2>3, <2>4, <5>1, NoTabAppended
        <5> QED BY <5>2 DEF e
      <4> HIDE DEF w
      <4>3. r[n].text = w /\ r[n].place = Begun(q.place)
        BY <4>1, ReadFields
      <4>4. Begun(q.place) # "inside"
        BY <2>3, <2>4, BegunPlace
      <4> QED BY <4>2, <4>3, <4>4 DEF NoTab
    <3> QED BY <3>1, <3>2, <3>3, <3>4
  <2> QED BY <2>9
<1> HIDE DEF T
<1>6. N \in T
  <2>0. N \in Nat
    BY <1>1
  <2>1. \A n \in 1 .. N : n - 1 \in T => n \in T
    BY <1>5
  <2>2. 0 .. N \subseteq T
    BY ONLY <2>0, <2>1, <1>4, IntervalInduction
  <2> QED BY <1>1, <2>2
<1>7. NoTab(r[N]) /\ r[N] \in ReaderState
  BY <1>1, <1>6 DEF T
<1> DEFINE q == r[N]
           none == << >>
           whole == q.text \o Backslashes(q.pending)
<1>8. q.text \in Seq(Characters) /\ q.pending \in Nat
  BY <1>7 DEF ReaderState
<1>9. whole \in Seq(Characters) /\ whole \o none = whole
  BY <1>8, BackslashesType, ConcatProperties, ConcatEmptySeq
<1>10. \A j \in 1 .. Len(whole) : whole[j] # Tab
  <2>1. none \in Seq(Characters) /\ \A j \in 1 .. Len(none) : none[j] # Tab
    OBVIOUS
  <2> HIDE DEF none
  <2>2. \A j \in 1 .. Len(whole \o none) : (whole \o none)[j] # Tab
    BY <1>7, <1>8, <2>1, NoTabAppended DEF NoTab
  <2> QED BY <1>9, <2>2
<1> HIDE DEF whole
<1>11. whole # s
  BY <1>2, <1>10 DEF N
<1> QED BY <1>11 DEF ReadBackAs, whole, r, N

\* The same, index by index.
LEMMA QuotedParts ==
  ASSUME original \in Seq(Characters)
  PROVE  LET N == Len(original)
             d == Len(TrailingBackslash)
         IN  /\ N \in Nat /\ d \in {0, 1}
             /\ d = 1 <=> N >= 1 /\ original[N] = Backslash
             /\ Quoted \in Seq(Characters) /\ Len(Quoted) = N + d + 2
             /\ Quoted[1] = Quote
             /\ \A i \in 1 .. N : Quoted[1 + i] = original[i]
             /\ d = 1 => Quoted[N + 2] = Backslash
             /\ Quoted[N + d + 2] = Quote
<1> DEFINE N == Len(original)
           quote == << Quote >>
           t == TrailingBackslash
           most == quote \o original \o t
           d == Len(t)
<1>1. N \in Nat
  BY LenProperties
<1>2. quote \in Seq(Characters) /\ Len(quote) = 1 /\ quote[1] = Quote
  BY CommandLineAssumption
<1>3. t \in Seq(Characters) /\ d \in {0, 1} /\ (d = 1 => t[1] = Backslash)
  BY CommandLineAssumption DEF TrailingBackslash
<1>4. d = 1 <=> N >= 1 /\ original[N] = Backslash
  <2>1. original # << >> <=> N >= 1
    BY <1>1, EmptySeq
  <2> QED BY <2>1 DEF TrailingBackslash, Last
<1> HIDE DEF quote, t, N
<1>5. /\ most \in Seq(Characters)
      /\ Len(most) = Len(quote) + N + d
      /\ \A i \in 1 .. Len(quote) : most[i] = quote[i]
      /\ \A i \in 1 .. N : most[Len(quote) + i] = original[i]
      /\ \A i \in 1 .. d : most[Len(quote) + N + i] = t[i]
  <2>1. /\ most \in Seq(Characters)
        /\ Len(most) = Len(quote) + Len(original) + Len(t)
        /\ \A i \in 1 .. Len(quote) : most[i] = quote[i]
        /\ \A i \in 1 .. Len(original) : most[Len(quote) + i] = original[i]
        /\ \A i \in 1 .. Len(t) : most[Len(quote) + Len(original) + i] = t[i]
    <3>1. quote \in Seq(Characters) /\ original \in Seq(Characters) /\ t \in Seq(Characters)
      BY <1>2, <1>3
    <3> QED BY ONLY <3>1, ThreeParts
  <2> QED BY <2>1 DEF N
<1> HIDE DEF most, d
<1>6. /\ most[1] = Quote
      /\ \A i \in 1 .. N : most[1 + i] = original[i]
      /\ d = 1 => most[N + 2] = Backslash
  <2>1. 1 \in 1 .. Len(quote)
    BY <1>2
  <2>2. most[1] = Quote /\ \A i \in 1 .. N : most[1 + i] = original[i]
    BY <1>2, <1>5, <2>1
  <2>3. ASSUME d = 1 PROVE most[N + 2] = Backslash
    <3>1. 1 \in 1 .. d /\ Len(quote) + N + 1 = N + 2
      BY <1>1, <1>2, <2>3
    <3> QED BY <1>3, <1>5, <2>3, <3>1
  <2> QED BY <2>2, <2>3
<1> DEFINE all == most \o quote
<1>7. /\ all \in Seq(Characters) /\ Len(all) = Len(most) + Len(quote)
      /\ \A i \in 1 .. Len(most) + Len(quote) :
           all[i] = IF i <= Len(most) THEN most[i] ELSE quote[i - Len(most)]
  BY <1>2, <1>5, ConcatProperties
<1> HIDE DEF all
<1>8. Len(most) = N + d + 1 /\ Len(all) = N + d + 2
  BY <1>1, <1>2, <1>3, <1>5, <1>7
<1>9. \A i \in 1 .. N + d + 1 : all[i] = most[i]
  BY <1>1, <1>2, <1>3, <1>7, <1>8
<1>10. all[N + d + 2] = Quote
  <2>1. /\ N + d + 2 \in 1 .. Len(most) + Len(quote) /\ ~(N + d + 2 <= Len(most))
        /\ N + d + 2 - Len(most) = 1
    BY <1>1, <1>2, <1>3, <1>8
  <2> QED BY <1>2, <1>7, <2>1
<1>11. all[1] = Quote
  BY <1>1, <1>3, <1>6, <1>9
<1>12. \A i \in 1 .. N : all[1 + i] = original[i]
  <2> SUFFICES ASSUME NEW i \in 1 .. N PROVE all[1 + i] = original[i]
    OBVIOUS
  <2>1. 1 + i \in 1 .. N + d + 1
    BY <1>1, <1>3
  <2> QED BY <1>6, <1>9, <2>1
<1>13. ASSUME d = 1 PROVE all[N + 2] = Backslash
  BY <1>1, <1>6, <1>9, <1>13
<1>14. all = Quoted
  BY DEF all, most, quote, t, Quoted
<1> QED BY <1>1, <1>3, <1>4, <1>7, <1>8, <1>10, <1>11, <1>12, <1>13, <1>14 DEF N, d, t

\* What is between the quotes, and before a backslash that has been added, is read
\* as it is.
LEMMA ReadsBetween ==
  ASSUME original \in Seq(Characters), HasNoQuote, NEW n \in 0 .. Len(original)
  PROVE  LET q == Reading(Quoted)[n + 1] IN
         /\ q \in ReaderState /\ q.pending \in Nat /\ q.text \in Seq(Characters)
         /\ HasRead(q, Quoted, 1, n + 1) /\ q.place = "inside"
<1> DEFINE N == Len(original)
           d == Len(TrailingBackslash)
           s == Quoted
           r == Reading(s)
           q == r[n + 1]
<1>1. /\ N \in Nat /\ d \in {0, 1}
      /\ s \in Seq(Characters) /\ Len(s) = N + d + 2
      /\ s[1] = Quote
      /\ \A i \in 1 .. N : s[1 + i] = original[i]
  BY QuotedParts
<1> HIDE DEF s
<1>2. /\ r[0] = ReaderInit
      /\ \A m \in 0 .. Len(s) : r[m] \in ReaderState
      /\ \A m \in 1 .. Len(s) : s[m] \in Characters /\ r[m] = ReadCharacter(r[m - 1], s[m])
  BY <1>1, ReadingSteps
<1>3. \A i \in 1 .. N : original[i] # Quote
  BY LenProperties DEF HasNoQuote
<1>0. n \in 0 .. N
  OBVIOUS
<1> HIDE DEF d, N
<1>4. HasRead(r[1], s, 1, 1) /\ r[1].place = "inside"
  <2>1. 1 \in 1 .. Len(s) /\ 0 \in 0 .. Len(s)
    BY <1>1
  <2>2. r[1] = ReadCharacter(ReaderInit, Quote) /\ ReaderInit \in ReaderState
    BY <1>1, <1>2, <2>1
  <2>3. /\ ReaderInit.text = << >> /\ ReaderInit.pending = 0
        /\ ReaderInit.place = "before" /\ AcrossQuote["before"] = "inside"
    BY DEF ReaderInit, AcrossQuote
  <2>4. ReaderInit.pending % 2 = 0 /\ ReaderInit.pending \div 2 = 0
    BY <2>3
  <2>5. r[1] = ReaderAt(<< >> \o Backslashes(0), 0, "inside")
    <3>1. Quote \in Characters /\ ReaderInit.place # "past"
      BY <2>3, CommandLineAssumption
    <3>2. ReadCharacter(ReaderInit, Quote) =
            ReaderAt(ReaderInit.text \o Backslashes(ReaderInit.pending \div 2), 0,
                 AcrossQuote[ReaderInit.place])
      BY <2>2, <2>4, <3>1, ReadOne
    <3> QED BY <2>2, <2>3, <2>4, <3>2
  <2>6. << >> \o Backslashes(0) = << >>
    <3>1. << >> \in Seq(Characters)
      OBVIOUS
    <3> QED BY <3>1, NoBackslashes
  <2>7. r[1] = ReaderAt(<< >>, 0, "inside")
    BY <2>5, <2>6
  <2> HIDE DEF r
  <2> QED BY <2>7, NothingRead
<1>5. HasRead(q, s, 1, n + 1) /\ q.place = "inside"
  <2> DEFINE e == n + 1
  <2>1. 1 \in 0 .. Len(s) /\ e \in 1 .. Len(s)
    BY <1>0, <1>1
  <2>2. \A m \in 1 + 1 .. e : s[m] # Quote /\ (s[m] \notin Separators \/ r[1].place = "inside")
    <3> SUFFICES ASSUME NEW m \in 1 + 1 .. e PROVE s[m] # Quote
      BY <1>4
    <3>1. m - 1 \in 1 .. N /\ 1 + (m - 1) = m
      BY <1>0, <1>1
    <3> QED BY <1>1, <1>3, <3>1
  <2> HIDE DEF e
  <2>3. /\ HasRead(r[e], s, 1, e)
        /\ r[e].place = IF e = 1 THEN r[1].place ELSE Begun(r[1].place)
    BY <1>1, <1>4, <2>1, <2>2, ReadPlain
  <2>4. r[e].place = "inside"
    BY <1>4, <2>3 DEF Begun
  <2> QED BY <2>3, <2>4 DEF e
<1> HIDE DEF r
<1>6. q \in ReaderState /\ q.pending \in Nat /\ q.text \in Seq(Characters)
  <2>1. n + 1 \in 0 .. Len(s)
    BY <1>0, <1>1
  <2>2. q \in ReaderState
    BY <1>2, <2>1
  <2> HIDE DEF q
  <2> QED BY <2>2 DEF ReaderState
<1> QED BY <1>5, <1>6 DEF r, s

\* All of it, put together.
LEMMA BetweenIsOriginal ==
  ASSUME original \in Seq(Characters), HasNoQuote
  PROVE  LET q == Reading(Quoted)[Len(original) + 1] IN
         q.text \o Backslashes(q.pending) = original
<1> DEFINE N == Len(original)
           n == N + 1
           s == Quoted
           q == Reading(s)[N + 1]
<1>1. N \in Nat /\ \A i \in 1 .. N : s[1 + i] = original[i]
  BY QuotedParts
<1>2. q \in ReaderState /\ HasRead(q, s, 1, n)
  <2>1. N \in 0 .. N
    BY <1>1
  <2> QED BY <2>1, ReadsBetween
<1>3. Stands(original, s, 1)
  BY <1>1 DEF Stands
<1>4. n \in Nat /\ Len(original) = n - 1
  BY <1>1
<1> HIDE DEF n, q, s
<1>5. q.text \o Backslashes(q.pending) = original
  BY <1>2, <1>3, <1>4, TextRead
<1> QED BY <1>5 DEF q, s

\* A string in quotes is read as what is between them: the backslash at its end,
\* if there is one, has been doubled.
LEMMA ReadsQuoted ==
  ASSUME original \in Seq(Characters), HasNoQuote, ~EndsInTwo(original)
  PROVE  ReadBackAs(Quoted, original)
<1> DEFINE N == Len(original)
           d == Len(TrailingBackslash)
           s == Quoted
           r == Reading(s)
           q == r[N + 1]
<1>1. /\ N \in Nat /\ d \in {0, 1}
      /\ d = 1 <=> N >= 1 /\ original[N] = Backslash
      /\ s \in Seq(Characters) /\ Len(s) = N + d + 2
      /\ s[1] = Quote
      /\ \A i \in 1 .. N : s[1 + i] = original[i]
      /\ d = 1 => s[N + 2] = Backslash
      /\ s[N + d + 2] = Quote
  BY QuotedParts
<1>5. /\ q \in ReaderState /\ q.pending \in Nat /\ q.text \in Seq(Characters)
      /\ HasRead(q, s, 1, N + 1) /\ q.place = "inside"
  <2>1. N \in 0 .. N
    BY <1>1
  <2> QED BY <2>1, ReadsBetween
<1>7. q.text \o Backslashes(q.pending) = original
  BY BetweenIsOriginal
<1> HIDE DEF s
<1>2. /\ \A n \in 0 .. Len(s) : r[n] \in ReaderState
      /\ \A n \in 1 .. Len(s) : s[n] \in Characters /\ r[n] = ReadCharacter(r[n - 1], s[n])
  BY <1>1, ReadingSteps
<1>3. ~(N >= 2 /\ original[N] = Backslash /\ original[N - 1] = Backslash)
  BY DEF EndsInTwo
<1> HIDE DEF d, N, r
<1>8. q.pending = d
  <2>1. /\ q.pending <= (N + 1) - 1
        /\ \A j \in (N + 1) - q.pending + 1 .. N + 1 : s[j] = Backslash
        /\ N + 1 > 1 /\ s[N + 1] = Backslash => q.pending >= 1
    BY <1>5 DEF HasRead
  <2> DEFINE k == q.pending
  <2>2. k \in Nat
    BY <1>5
  <2> HIDE DEF k, q
  <2>3. k >= 1 => N >= 1 /\ original[N] = Backslash
    <3> SUFFICES ASSUME k >= 1 PROVE N >= 1 /\ original[N] = Backslash
      OBVIOUS
    <3>1. N + 1 \in (N + 1) - k + 1 .. N + 1 /\ N \in 1 .. N
      BY <1>1, <2>1, <2>2 DEF k
    <3>2. s[N + 1] = Backslash /\ s[1 + N] = original[N] /\ 1 + N = N + 1
      BY <1>1, <2>1, <3>1 DEF k
    <3> QED BY <1>1, <3>1, <3>2
  <2>4. ~(k >= 2)
    <3> SUFFICES ASSUME k >= 2 PROVE FALSE
      OBVIOUS
    <3>1. N \in (N + 1) - k + 1 .. N + 1 /\ N - 1 \in 1 .. N /\ N >= 2 /\ 1 + (N - 1) = N
      BY <1>1, <2>1, <2>2 DEF k
    <3>2. s[N] = Backslash /\ s[1 + (N - 1)] = original[N - 1]
      BY <1>1, <2>1, <3>1 DEF k
    <3>3. original[N - 1] = Backslash /\ original[N] = Backslash
      BY <2>2, <2>3, <3>1, <3>2
    <3> QED BY <1>3, <3>1, <3>3
  <2>5. d = 1 => k >= 1
    <3> SUFFICES ASSUME d = 1 PROVE k >= 1
      OBVIOUS
    <3>1. N \in 1 .. N /\ N + 1 > 1 /\ 1 + N = N + 1 /\ original[N] = Backslash
      BY <1>1
    <3>2. s[N + 1] = Backslash
      BY <1>1, <3>1
    <3> QED BY <2>1, <3>1, <3>2 DEF k
  <2>6. k = d
    BY <1>1, <2>2, <2>3, <2>4, <2>5
  <2> QED BY <2>6 DEF k
<1> DEFINE end == r[N + d + 2]
<1>9. end = ReaderAt(original, 0, "outside")
  <2>1. AcrossQuote["inside"] = "outside" /\ Quote \in Characters /\ Backslash \in Characters
    BY CommandLineAssumption DEF AcrossQuote
  <2> HIDE DEF q
  <2>2. CASE d = 0
    <3>1. N + 2 \in 1 .. Len(s) /\ N + d + 2 = N + 2 /\ (N + 2) - 1 = N + 1
      BY <1>1, <2>2
    <3>2. end = ReadCharacter(q, Quote)
      BY <1>1, <1>2, <3>1 DEF q
    <3>3. q.pending = 0 /\ q.pending % 2 = 0 /\ q.pending \div 2 = 0
      BY <1>8, <2>2
    <3>4. end = ReaderAt(q.text \o Backslashes(q.pending \div 2), 0, AcrossQuote[q.place])
      BY <1>5, <2>1, <3>2, <3>3, ReadOne
    <3>5. q.text \o Backslashes(q.pending \div 2) = original
      BY <1>7, <3>3
    <3> QED BY <1>5, <2>1, <3>4, <3>5
  <2>3. CASE d = 1
    <3> DEFINE m == r[N + 2]
    <3>1. /\ N + 2 \in 1 .. Len(s) /\ (N + 2) - 1 = N + 1
          /\ N + 3 \in 1 .. Len(s) /\ N + d + 2 = N + 3 /\ (N + 3) - 1 = N + 2
          /\ N + 2 \in 0 .. Len(s)
      BY <1>1, <2>3
    <3>2. m = ReadCharacter(q, Backslash) /\ m \in ReaderState
      BY <1>1, <1>2, <2>3, <3>1 DEF q
    <3>3. end = ReadCharacter(m, Quote)
      BY <1>1, <1>2, <3>1
    <3> HIDE DEF m
    <3>4. m = ReaderAt(q.text, q.pending + 1, Begun(q.place))
      BY <1>5, <2>1, <3>2, ReadOne
    <3>5. m.text = q.text /\ m.pending = q.pending + 1 /\ m.place = "inside"
      BY <1>5, <3>4, ReadFields DEF Begun
    <3>6. m.pending = 2 /\ m.pending % 2 = 0 /\ m.pending \div 2 = 1 /\ q.pending = 1
      BY <1>8, <2>3, <3>5
    <3>7. end = ReaderAt(m.text \o Backslashes(m.pending \div 2), 0, AcrossQuote[m.place])
      BY <2>1, <3>2, <3>3, <3>5, <3>6, ReadOne
    <3>8. m.text \o Backslashes(m.pending \div 2) = original
      BY <1>7, <3>5, <3>6
    <3> QED BY <2>1, <3>5, <3>7, <3>8
  <2> QED BY <1>1, <2>2, <2>3
<1>10. end.text = original /\ end.pending = 0 /\ end.place = "outside"
  <2> HIDE DEF end
  <2> QED BY <1>9, ReadFields
<1>12. end.text \o Backslashes(end.pending) = original
  <2> HIDE DEF end
  <2> QED BY <1>10, NoBackslashes
<1>13. end = Reading(Quoted)[Len(Quoted)]
  BY <1>1 DEF r, s
<1> HIDE DEF end
<1> QED BY <1>10, <1>12, <1>13 DEF ReadBackAs

\* With two backslashes at the end or more, of which one has been doubled, the
\* closing quote is read as a character, or half of the backslashes are lost.
LEMMA MisreadsQuoted ==
  ASSUME original \in Seq(Characters), HasNoQuote, EndsInTwo(original)
  PROVE  ~ReadBackAs(Quoted, original)
<1> DEFINE N == Len(original)
           d == Len(TrailingBackslash)
           s == Quoted
           r == Reading(s)
           o == r[N]
           q == r[N + 1]
           m == r[N + 2]
           end == r[N + 3]
<1>1. /\ N \in Nat /\ N >= 2 /\ d = 1
      /\ s \in Seq(Characters) /\ Len(s) = N + 3
      /\ s[N] = Backslash /\ s[N + 1] = Backslash
      /\ s[N + 2] = Backslash /\ s[N + 3] = Quote
  <2>1. /\ N \in Nat
        /\ d = 1 <=> N >= 1 /\ original[N] = Backslash
        /\ s \in Seq(Characters) /\ Len(s) = N + d + 2
        /\ \A i \in 1 .. N : s[1 + i] = original[i]
        /\ d = 1 => s[N + 2] = Backslash
        /\ s[N + d + 2] = Quote
    BY QuotedParts
  <2>2. N >= 2 /\ original[N] = Backslash /\ original[N - 1] = Backslash
    BY DEF EndsInTwo
  <2> HIDE DEF N, d, s
  <2>5. d = 1
    BY <2>1, <2>2
  <2>3. N \in 1 .. N /\ N - 1 \in 1 .. N /\ 1 + N = N + 1 /\ 1 + (N - 1) = N /\ d = 1
        /\ N + d + 2 = N + 3
    BY <2>1, <2>2, <2>5
  <2>4. s[N + 1] = original[N] /\ s[N] = original[N - 1]
    BY <2>1, <2>3
  <2> QED BY <2>1, <2>2, <2>3, <2>4
<1>2. /\ o.pending \in Nat /\ HasRead(o, s, 1, N) /\ o.place = "inside" /\ o \in ReaderState
  <2>1. N - 1 \in 0 .. N /\ (N - 1) + 1 = N
    BY <1>1
  <2> HIDE DEF N
  <2>2. \A n \in 0 .. N : LET u == Reading(Quoted)[n + 1] IN
          u.pending \in Nat /\ HasRead(u, Quoted, 1, n + 1) /\ u.place = "inside" /\ u \in ReaderState
    BY ReadsBetween DEF N
  <2>3. LET u == Reading(Quoted)[(N - 1) + 1] IN
          u.pending \in Nat /\ HasRead(u, Quoted, 1, (N - 1) + 1) /\ u.place = "inside" /\ u \in ReaderState
    BY <2>1, <2>2
  <2> QED BY <2>1, <2>3
<1>3. q.text \o Backslashes(q.pending) = original
  BY BetweenIsOriginal
<1> HIDE DEF s, d, N
<1>4. /\ \A n \in 0 .. Len(s) : r[n] \in ReaderState
      /\ \A n \in 1 .. Len(s) : s[n] \in Characters /\ r[n] = ReadCharacter(r[n - 1], s[n])
  BY <1>1, ReadingSteps
<1> HIDE DEF r
<1>5. /\ q = ReadCharacter(o, Backslash) /\ m = ReadCharacter(q, Backslash)
      /\ end = ReadCharacter(m, Quote)
      /\ q \in ReaderState /\ m \in ReaderState /\ Backslash \in Characters /\ Quote \in Characters
  <2>1. /\ N + 1 \in 1 .. Len(s) /\ N + 2 \in 1 .. Len(s) /\ N + 3 \in 1 .. Len(s)
        /\ (N + 1) - 1 = N /\ (N + 2) - 1 = N + 1 /\ (N + 3) - 1 = N + 2
        /\ N + 1 \in 0 .. Len(s) /\ N + 2 \in 0 .. Len(s)
    BY <1>1
  <2> QED BY <1>1, <1>4, <2>1, CommandLineAssumption
<1>6. o.pending >= 1
  BY <1>1, <1>2 DEF HasRead
<1> HIDE DEF o, q, m, end
<1>7. Begun("inside") = "inside" /\ AcrossQuote["inside"] = "outside"
  BY DEF Begun, AcrossQuote
<1>8. /\ q.text = o.text /\ q.pending = o.pending + 1 /\ q.place = "inside"
  <2>1. q = ReaderAt(o.text, o.pending + 1, Begun(o.place))
    BY <1>2, <1>5, ReadOne
  <2> QED BY <1>2, <1>7, <2>1, ReadFields
<1>9. /\ m.text = q.text /\ m.pending = q.pending + 1 /\ m.place = "inside"
  <2>1. m = ReaderAt(q.text, q.pending + 1, Begun(q.place))
    BY <1>5, <1>8, ReadOne
  <2> QED BY <1>7, <1>8, <2>1, ReadFields
<1>10. m.pending \in Nat /\ m.pending >= 3 /\ q.pending \in Nat /\ m.pending % 2 \in {0, 1}
  <2>1. \A k \in Nat : k >= 1 => k + 1 \in Nat /\ k + 1 + 1 \in Nat /\ k + 1 + 1 >= 3
                            /\ (k + 1 + 1) % 2 \in {0, 1}
    OBVIOUS
  <2>2. q.pending = o.pending + 1 /\ m.pending = o.pending + 1 + 1
    BY <1>8, <1>9
  <2> QED BY <1>2, <1>6, <2>1, <2>2
<1>11. CASE m.pending % 2 = 1
  <2>1. end.place = "inside"
    BY <1>5, <1>9, <1>11, ReadOne
  <2>2. end = Reading(Quoted)[Len(Quoted)]
    BY <1>1 DEF end, r, s
  <2> QED BY <2>1, <2>2 DEF ReadBackAs
<1>12. CASE m.pending % 2 = 0
  <2> DEFINE h == m.pending \div 2
             left == m.text \o Backslashes(h)
  <2>1. h \in Nat /\ h < q.pending
    BY <1>9, <1>10, <1>12
  <2> HIDE DEF h
  <2>2. end = ReaderAt(left, 0, AcrossQuote[m.place])
    BY <1>5, <1>9, <1>12, ReadOne DEF h
  <2>3. m.text \in Seq(Characters) /\ Len(m.text) \in Nat /\ q.text \in Seq(Characters)
    <3>1. m.text \in Seq(Characters)
      BY <1>5 DEF ReaderState
    <3>2. Len(m.text) \in Nat
      BY <3>1, LenProperties
    <3> QED BY <1>9, <3>1, <3>2
  <2>4. left \in Seq(Characters) /\ Len(left) = Len(m.text) + h
    <3> DEFINE more == Backslashes(h)
    <3>1. more \in Seq(Characters) /\ Len(more) = h
      BY <2>1, BackslashesType
    <3> HIDE DEF more
    <3>2. (m.text \o more) \in Seq(Characters) /\ Len(m.text \o more) = Len(m.text) + Len(more)
      BY <2>3, <3>1, ConcatProperties
    <3> QED BY <3>1, <3>2 DEF more
  <2>5. Len(original) = Len(m.text) + q.pending
    <3> DEFINE more == Backslashes(q.pending)
    <3>1. more \in Seq(Characters) /\ Len(more) = q.pending
      BY <1>10, BackslashesType
    <3>2. original = m.text \o more
      BY <1>3, <1>9
    <3> HIDE DEF more
    <3>3. Len(m.text \o more) = Len(m.text) + Len(more)
      BY <2>3, <3>1, ConcatProperties
    <3> QED BY <3>1, <3>2, <3>3
  <2> HIDE DEF left
  <2>6. left # original
    BY <1>10, <2>1, <2>3, <2>4, <2>5
  <2>7. end.text = left /\ end.pending = 0
    BY <2>2, ReadFields
  <2>8. end.text \o Backslashes(end.pending) # original
    BY <2>4, <2>6, <2>7, NoBackslashes
  <2>9. end = Reading(Quoted)[Len(Quoted)]
    BY <1>1 DEF end, r, s
  <2> QED BY <2>8, <2>9 DEF ReadBackAs
<1> QED BY <1>10, <1>11, <1>12

-----------------------------------------------------------------------------
\* The argument before the loop.
LEMMA InitQuoting ==
  ASSUME QuotingInit
  PROVE  QuotingInvariant
BY CommandLineAssumption DEF QuotingInit, QuotingInvariant, Searching

\* The search comes to the first quote, or is there already; a backslash more.
LEMMA EscapeQuoting ==
  ASSUME QuotingInvariant, Escape
  PROVE  QuotingInvariant'
<1>1. PICK i \in DOMAIN arg :
        /\ FirstFound(i)
        /\ arg' = SubSeq(arg, 1, i - 1) \o Replacement \o SubSeq(arg, i + 1, Len(arg))
        /\ p' = i + 1
  BY DEF Escape
<1>2. /\ quoting = "escape" /\ UNCHANGED << original, quoting >>
      /\ original \in Seq(Characters) /\ arg \in Seq(Characters)
      /\ Searching \/ \E f \in 1 .. Len(original), n \in Nat : AtQuote(f, n)
  BY CommandLineAssumption DEF Escape, QuotingInvariant
<1>3. /\ Len(original) \in Nat /\ Len(arg) \in Nat
      /\ DOMAIN arg = 1 .. Len(arg)
  BY <1>2, LenProperties
<1>4. \E f \in 1 .. Len(original), n \in Nat :
        i = f + n /\ original[f] = Quote /\ Inserted(arg, f, n)
  <2>1. CASE Searching
    <3>1. i \in 1 .. Len(original) /\ original[i] = Quote
      BY <1>1, <1>3, <2>1 DEF Searching, FirstFound, FoundAt
    <3>2. Inserted(arg, i, 0)
      BY <1>3, <2>1, <3>1 DEF Searching, Inserted
    <3> QED BY <3>1, <3>2
  <2>2. ASSUME NEW f \in 1 .. Len(original), NEW n \in Nat, AtQuote(f, n)
        PROVE  i = f + n
    <3>1. p = f + n /\ p \in 1 .. Len(arg) /\ arg[p] = Quote
      <4>1. p = f + n /\ p \in f + n .. Len(arg) /\ p - n = f
        BY <1>3, <2>2 DEF AtQuote, Inserted
      <4> QED BY <1>3, <2>2, <4>1 DEF AtQuote, Inserted
    <3>2. FoundAt(p)
      BY <3>1 DEF FoundAt
    <3>3. i \in p .. Len(arg) /\ \A j \in p .. i - 1 : ~FoundAt(j)
      BY <1>1 DEF FirstFound, FoundAt
    <3>4. i <= p
      BY <1>3, <3>1, <3>2, <3>3
    <3> QED BY <1>3, <3>1, <3>3, <3>4
  <2> QED BY <1>2, <2>1, <2>2 DEF AtQuote
<1>5. PICK f \in 1 .. Len(original), n \in Nat :
        i = f + n /\ original[f] = Quote /\ Inserted(arg, f, n)
  BY <1>4
<1>6. arg' \in Seq(Characters) /\ Inserted(arg', f, n + 1)
  BY <1>1, <1>2, <1>5, EscapeOnce
<1>7. AtQuote(f, n + 1)'
  <2>1. p' = f + (n + 1)
    BY <1>1, <1>5
  <2>2. Inserted(arg, f, n + 1)'
    BY <1>2, <1>6 DEF Inserted
  <2>3. original'[f] = Quote
    BY <1>2, <1>5
  <2> QED BY <2>1, <2>2, <2>3 DEF AtQuote
<1>8. \E g \in 1 .. Len(original'), m \in Nat : AtQuote(g, m)'
  BY <1>2, <1>7
<1> QED BY <1>2, <1>6, <1>8 DEF QuotingInvariant

\* Whether the loop is entered, and whether the string has become too long.
LEMMA ChecksQuoting ==
  ASSUME QuotingInvariant, Check \/ EscapeThrows
  PROVE  QuotingInvariant'
<1>1. /\ UNCHANGED << original, arg, p >>
      /\ original \in Arguments /\ arg \in Seq(Characters)
      /\ Searching \/ \E f \in 1 .. Len(original), n \in Nat : AtQuote(f, n)
  BY DEF Check, EscapeThrows, QuotingInvariant
<1>2. (Searching' <=> Searching) /\ \A f, n : AtQuote(f, n)' <=> AtQuote(f, n)
  BY <1>1 DEF Searching, AtQuote, Inserted
<1>3. CASE Check
  <2>1. arg = original /\ quoting' = IF NeedsQuotes(arg) THEN "escape" ELSE "done"
    BY <1>3 DEF Check, QuotingInvariant, Searching
  <2> QED BY <1>1, <1>2, <2>1 DEF QuotingInvariant, NeedsQuotes
<1>4. CASE EscapeThrows
  <2>1. quoting' = "length_error"
    BY <1>4 DEF EscapeThrows
  <2> QED BY <1>1, <1>2, <2>1 DEF QuotingInvariant
<1> QED BY <1>3, <1>4

\* The loop ends when there is no quote at all: at a quote it stays for good.
LEMMA EscapedQuoting ==
  ASSUME QuotingInvariant, Escaped
  PROVE  QuotingInvariant'
<1>1. /\ UNCHANGED << original, arg, p >> /\ quoting' = "close" /\ NoQuoteLeft
      /\ original \in Arguments /\ arg \in Seq(Characters) /\ NeedsQuotes(original)
      /\ Searching \/ \E f \in 1 .. Len(original), n \in Nat : AtQuote(f, n)
  BY DEF Escaped, QuotingInvariant
<1>2. DOMAIN arg = 1 .. Len(arg) /\ Len(arg) \in Nat
  BY <1>1, LenProperties
<1>3. Searching
  <2> SUFFICES ASSUME NEW f \in 1 .. Len(original), NEW n \in Nat, AtQuote(f, n)
               PROVE  FALSE
    BY <1>1
  <2>1. Len(original) \in Nat
    BY <1>1, CommandLineAssumption, LenProperties
  <2>2. /\ p = f + n /\ original[f] = Quote
        /\ Len(arg) = Len(original) + n
        /\ \A i \in f + n .. Len(arg) : arg[i] = original[i - n]
    BY DEF AtQuote, Inserted
  <2>3. p \in f + n .. Len(arg) /\ p \in 1 .. Len(arg) /\ p - n = f
    BY <1>2, <2>1, <2>2
  <2>4. FoundAt(p)
    BY <2>2, <2>3 DEF FoundAt
  <2> QED BY <1>1, <1>2, <2>3, <2>4 DEF NoQuoteLeft
<1>4. HasNoQuote
  <2> SUFFICES ASSUME NEW i \in DOMAIN original PROVE original[i] # Quote
    BY DEF HasNoQuote
  <2>1. i \in 1 .. Len(arg) /\ p = 1 /\ arg = original
    BY <1>2, <1>3 DEF Searching
  <2> QED BY <1>1, <1>2, <2>1 DEF NoQuoteLeft, FoundAt
<1> QED BY <1>1, <1>3, <1>4 DEF QuotingInvariant, Searching, HasNoQuote, NeedsQuotes

\* The quotes are put around a string without quotes.
LEMMA CloseQuoting ==
  ASSUME QuotingInvariant, Close
  PROVE  QuotingInvariant'
<1>1. /\ arg' = << Quote >> \o arg \o DoubledBackslash \o << Quote >>
      /\ quoting' = "done" /\ original' = original
      /\ original \in Arguments /\ arg = original /\ HasNoQuote /\ NeedsQuotes(original)
  BY DEF QuotingInvariant, Close
<1>2. arg' = Quoted
  BY <1>1 DEF Quoted, TrailingBackslash, DoubledBackslash
<1>3. Quoted \in Seq(Characters)
  BY <1>1, QuotedParts, CommandLineAssumption
<1>4. Quoted' = Quoted /\ HasNoQuote' /\ NeedsQuotes(original)'
  BY <1>1 DEF Quoted, TrailingBackslash, HasNoQuote, NeedsQuotes
<1> QED BY <1>1, <1>2, <1>3, <1>4 DEF QuotingInvariant

\* Every step of quoteAsCommandComponent.
LEMMA NextQuoting ==
  ASSUME QuotingInvariant, [QuotingNext]_quotingVars
  PROVE  QuotingInvariant'
<1>1. CASE UNCHANGED quotingVars
  BY <1>1 DEF quotingVars, QuotingInvariant, Searching, AtQuote, Inserted, NeedsQuotes,
             HasNoQuote, Quoted, TrailingBackslash
<1> QED BY <1>1, EscapeQuoting, ChecksQuoting, EscapedQuoting, CloseQuoting DEF QuotingNext

-----------------------------------------------------------------------------
\* The search has not begun, or it stays for good at the first quote it finds.
THEOREM QuotingInvariance == QuotingSpec => []QuotingInvariant
<1>1. QuotingInit => QuotingInvariant
  BY InitQuoting
<1>2. QuotingInvariant /\ [QuotingNext]_quotingVars => QuotingInvariant'
  BY NextQuoting
<1> QED BY <1>1, <1>2, PTL DEF QuotingSpec

\* However often the loop of quoteAsCommandComponent turns, it keeps every
\* character of the argument and puts backslashes at one place only, also in
\* the string it leaves behind when replace throws.
THEOREM KeepsEveryCharacter == QuotingSpec => []NothingLost
<1>1. ASSUME QuotingInvariant PROVE NothingLost
  <2> SUFFICES ASSUME quoting \in {"escape", "length_error"}
               PROVE  \E i \in 1 .. Len(original) + 1 :
                        arg = SubSeq(original, 1, i - 1) \o Backslashes(Added)
                              \o SubSeq(original, i, Len(original))
    BY DEF NothingLost
  <2>1. /\ original \in Seq(Characters) /\ arg \in Seq(Characters)
        /\ Searching \/ \E f \in 1 .. Len(original), n \in Nat : AtQuote(f, n)
    BY <1>1, CommandLineAssumption DEF QuotingInvariant
  <2>2. Len(original) \in Nat
    BY <2>1, LenProperties
  <2>3. \E f \in 1 .. Len(original) + 1, n \in Nat : Inserted(arg, f, n)
    <3>1. CASE Searching
      <4>1. 1 \in 1 .. Len(original) + 1 /\ Inserted(arg, 1, 0)
        BY <2>2, <3>1 DEF Searching, Inserted
      <4> QED BY <4>1
    <3>2. CASE \E f \in 1 .. Len(original), n \in Nat : AtQuote(f, n)
      BY <2>2, <3>2 DEF AtQuote
    <3> QED BY <2>1, <3>1, <3>2
  <2>4. PICK f \in 1 .. Len(original) + 1, n \in Nat : Inserted(arg, f, n)
    BY <2>3
  <2>5. Added = n
    BY <2>2, <2>4 DEF Inserted, Added
  <2>6. arg = SubSeq(original, 1, f - 1) \o Backslashes(n)
              \o SubSeq(original, f, Len(original))
    BY <2>1, <2>4, InsertedParts
  <2> QED BY <2>5, <2>6
<1> QED BY <1>1, QuotingInvariance, PTL

\* Whatever string is given to the function, when it returns, its result is read
\* back as one component and as that string if the string has a character, has no
\* tab without a space, and does not end in two backslashes with a space; and in
\* no other case (quoteAsCommandComponent).
THEOREM ReadBackExactly == QuotingSpec => []ReadBackIfWellQuoted
<1>1. ASSUME QuotingInvariant PROVE ReadBackIfWellQuoted
  <2> SUFFICES ASSUME quoting = "done"
               PROVE  ReadBackAs(arg, original) <=> WellQuoted(original)
    BY DEF ReadBackIfWellQuoted
  <2>1. original \in Arguments /\ original \in Seq(Characters)
    BY <1>1, CommandLineAssumption DEF QuotingInvariant
  <2>2. CASE ~NeedsQuotes(original)
    <3>1. arg = original
      BY <1>1, <2>2 DEF QuotingInvariant
    <3>2. CASE original = << >>
      BY <3>1, <3>2, ReadsNothing DEF WellQuoted
    <3>3. CASE \E i \in DOMAIN original : original[i] = Tab
      BY <2>1, <2>2, <3>1, <3>3, ReadsNoTab DEF WellQuoted
    <3>4. CASE original # << >> /\ \A i \in DOMAIN original : original[i] # Tab
      BY <2>1, <2>2, <3>1, <3>4, ReadsUnquoted DEF WellQuoted
    <3> QED BY <3>2, <3>3, <3>4
  <2>3. CASE NeedsQuotes(original)
    <3>1. arg = Quoted /\ HasNoQuote
      BY <1>1, <2>3 DEF QuotingInvariant
    <3>2. original # << >>
      BY <2>3 DEF NeedsQuotes
    <3> QED BY <2>1, <2>3, <3>1, <3>2, ReadsQuoted, MisreadsQuoted DEF WellQuoted
  <2> QED BY <2>2, <2>3
<1> QED BY <1>1, QuotingInvariance, PTL

-----------------------------------------------------------------------------
\* ensurePathExists

NameType == Seq(Seq(NameCharacters))

\* A directory entered leads to a name.
LEMMA EnterType ==
  ASSUME NEW name \in NameType, NEW c \in Seq(NameCharacters)
  PROVE  /\ Enter(name, c) \in NameType
         /\ \/ Enter(name, c) = name
            \/ Enter(name, c) = Append(name, c)
            \/ name # << >> /\ Enter(name, c) = Front(name)
<1>1. name # << >> => Front(name) \in NameType
  BY FrontType DEF NameType
<1>2. Append(name, c) \in NameType
  BY DEF NameType
<1> QED BY <1>1, <1>2 DEF Enter

\* What Resolved is said to be it is.
LEMMA ResolvedType ==
  ASSUME NEW components \in NameType
  PROVE  /\ Resolved(components) \in [0 .. Len(components) -> NameType]
         /\ Resolved(components)[0] = << >>
         /\ \A n \in 1 .. Len(components) :
              Resolved(components)[n] = Enter(Resolved(components)[n - 1], components[n])
<1> DEFINE N == Len(components)
           turn == [n \in 1 .. N |-> [name \in NameType |-> Enter(name, components[n])]]
<1>1. N \in Nat /\ \A n \in 1 .. N : components[n] \in Seq(NameCharacters)
  BY LenProperties, ElementOfSeq DEF NameType
<1>2. turn \in [1 .. N -> [NameType -> NameType]]
  BY <1>1, EnterType
<1>3. \A name \in NameType, n \in 1 .. N : turn[n][name] = Enter(name, components[n])
  OBVIOUS
<1>4. << >> \in NameType
  BY DEF NameType
<1> HIDE DEF N, turn
<1>5. PICK f \in [0 .. N -> NameType] :
        f[0] = << >> /\ \A n \in 1 .. N : f[n] = turn[n][f[n - 1]]
  <2> DEFINE base == << >>
             State == NameType
  <2>1. base \in State /\ N \in Nat /\ turn \in [1 .. N -> [State -> State]]
    BY <1>1, <1>2, <1>4
  <2> HIDE DEF base, State
  <2>2. \E f \in [0 .. N -> State] :
          f[0] = base /\ \A n \in 1 .. N : f[n] = turn[n][f[n - 1]]
    BY ONLY <2>1, FoldExists
  <2> QED BY <2>2 DEF base, State
<1>6. \A n \in 1 .. N : n - 1 \in 0 .. N /\ f[n - 1] \in NameType
  BY <1>1, <1>5
<1>7. \A n \in 1 .. N : f[n] = Enter(f[n - 1], components[n])
  BY <1>3, <1>5, <1>6
<1>8. f = [n \in 0 .. N |-> IF n = 0 THEN << >> ELSE Enter(f[n - 1], components[n])]
  <2> DEFINE g == [n \in 0 .. N |-> IF n = 0 THEN << >> ELSE Enter(f[n - 1], components[n])]
  <2>1. ASSUME NEW n \in 0 .. N PROVE f[n] = g[n]
    BY <1>1, <1>5, <1>7
  <2>2. f = [n \in 0 .. N |-> f[n]] /\ g = [n \in 0 .. N |-> g[n]]
    BY <1>5
  <2> HIDE DEF g
  <2>3. f = g
    BY <2>1, <2>2
  <2> QED BY <2>3 DEF g
<1> DEFINE r == Resolved(components)
<1>9. r = [n \in 0 .. N |-> IF n = 0 THEN << >> ELSE Enter(r[n - 1], components[n])]
  BY <1>8 DEF Resolved, N
<1> HIDE DEF r
<1>10. DOMAIN r = 0 .. N /\ r[0] = << >>
       /\ \A n \in 1 .. N : r[n] = Enter(r[n - 1], components[n])
  <2>1. \A n \in 0 .. N : r[n] = IF n = 0 THEN << >> ELSE Enter(r[n - 1], components[n])
    BY <1>9
  <2>2. 0 \in 0 .. N /\ \A n \in 1 .. N : n \in 0 .. N /\ n # 0
    BY <1>1
  <2> QED BY <1>9, <2>1, <2>2
<1> DEFINE T == { n \in 0 .. N : r[n] \in NameType }
<1>11. 0 \in T
  BY <1>1, <1>4, <1>10
<1>12. \A n \in 1 .. N : n - 1 \in T => n \in T
  <2> SUFFICES ASSUME NEW n \in 1 .. N, r[n - 1] \in NameType PROVE r[n] \in NameType
    OBVIOUS
  <2> QED BY <1>1, <1>10, EnterType
<1> HIDE DEF T
<1>13. 0 .. N \subseteq T
  BY <1>1, <1>11, <1>12, IntervalInduction
<1>14. r \in [0 .. N -> NameType]
  <2>1. \A n \in 0 .. N : r[n] \in NameType
    BY <1>13 DEF T
  <2>2. r = [n \in 0 .. N |-> r[n]]
    BY <1>9
  <2> QED BY <2>1, <2>2
<1> QED BY <1>10, <1>14 DEF r, N

-----------------------------------------------------------------------------
\* The directories and the files there are hang together, the files are on the
\* way to the target, and the loop has got to a name that exists.
PathInvariant ==
  /\ path \in Paths
  /\ position \in 1 .. Len(path.components)
  /\ outcome \in {"running", "returned", "ERROR_PATH_NOT_FOUND", "ERROR_ACCESS_DENIED"}
  /\ dirs \union files \subseteq NameType
  /\ << >> \in dirs
  /\ \A name \in dirs \union files : name = << >> \/ Front(name) \in dirs
  /\ files \subseteq { SubSeq(Target, 1, n) : n \in 1 .. Len(Target) }
  /\ outcome = "running" => Resolved(path.components)[position - 1] \in dirs \union files
  /\ outcome = "returned" => Target \in dirs \union files
  /\ outcome = "ERROR_PATH_NOT_FOUND" => files # {}

\* The parts of a path, and what they lead to.
LEMMA PathFacts ==
  ASSUME path \in Paths
  PROVE  /\ path.drive \in BOOLEAN
         /\ path.components \in NameType
         /\ Len(path.components) \in Nat \ {0}
         /\ Target \in NameType /\ Len(Target) \in Nat
         /\ Resolved(path.components)[0] = << >>
         /\ \A n \in 1 .. Len(path.components) :
              path.components[n] \in Seq(NameCharacters)
<1>1. path.drive \in BOOLEAN /\ path.components \in NameType /\ path.components # << >>
  BY PathAssumption DEF NameType
<1> DEFINE components == path.components
<1>2. components \in NameType /\ components # << >>
  BY <1>1
<1> HIDE DEF components
<1>3. Len(components) \in Nat \ {0}
      /\ \A n \in 1 .. Len(components) : components[n] \in Seq(NameCharacters)
  BY <1>2, LenProperties, EmptySeq, ElementOfSeq DEF NameType
<1>4. Resolved(components)[Len(components)] \in NameType /\ Resolved(components)[0] = << >>
  BY <1>2, <1>3, ResolvedType
<1>5. Target \in NameType
  BY <1>4 DEF Target, components
<1>6. Len(Target) \in Nat
  BY <1>5, LenProperties DEF NameType
<1> QED BY <1>1, <1>3, <1>4, <1>5, <1>6 DEF components

\* One component further.
LEMMA CreatedFacts ==
  ASSUME PathInvariant
  PROVE  /\ path.components[position] \in Seq(NameCharacters)
         /\ Resolved(path.components)[position - 1] \in NameType
         /\ Created \in NameType
         /\ Created = Enter(Resolved(path.components)[position - 1],
                            path.components[position])
<1> DEFINE components == path.components
<1>1. /\ components \in NameType /\ position \in 1 .. Len(components)
      /\ Len(components) \in Nat
      /\ \A n \in 1 .. Len(components) : components[n] \in Seq(NameCharacters)
  BY PathFacts DEF PathInvariant
<1> HIDE DEF components
<1>2. position - 1 \in 0 .. Len(components) /\ position \in 0 .. Len(components)
  BY <1>1
<1>3. /\ components[position] \in Seq(NameCharacters)
      /\ Resolved(components)[position - 1] \in NameType
      /\ Resolved(components)[position] \in NameType
      /\ Resolved(components)[position]
           = Enter(Resolved(components)[position - 1], components[position])
  BY <1>1, <1>2, ResolvedType
<1> QED BY <1>3 DEF Created, components

\* A component that is skipped leads nowhere, when names are long.
LEMMA SkippedStays ==
  ASSUME LongNames, PathInvariant, SkipsPiece
  PROVE  Created = Resolved(path.components)[position - 1]
<1> DEFINE c == path.components[position]
<1>1. /\ path \in Paths /\ path.drive \in BOOLEAN
      /\ c \in Seq(NameCharacters) /\ Len(c) \in Nat
      /\ position \in DOMAIN path.components
  BY PathFacts, CreatedFacts, LenProperties DEF PathInvariant, NameType
<1>2. c \in { << >>, << "." >>, << ".", "." >> } \/ Len(c) >= 3
  BY <1>1 DEF LongNames
<1>3. ~IsLast /\ \/ Piece = << >>
                 \/ Len(Piece) = 1 /\ Piece[1] # "."
                 \/ Len(Piece) = 2 /\ Piece[1] # "." /\ Piece[2] # "."
  BY DEF SkipsPiece
<1>4. c \in { << >>, << "." >> }
  <2>1. CASE path.drive /\ position = 1
    <3>1. Piece = << "\\" >> \o c
      BY <2>1 DEF Piece
    <3>2. Len(Piece) = Len(c) + 1
      BY <1>1, <3>1
    <3>3. c = << ".", "." >> => Len(Piece) = 3
      BY <3>1
    <3>4. Len(Piece) \in {0, 1, 2}
      BY <1>3
    <3> QED BY <1>1, <1>2, <3>2, <3>3, <3>4
  <2>2. CASE ~(path.drive /\ position = 1)
    <3>1. Piece = c
      BY <2>2 DEF Piece
    <3>2. c # << ".", "." >>
      BY <1>3, <3>1
    <3>3. Len(Piece) \in {0, 1, 2}
      BY <1>3
    <3>4. Len(Piece) = Len(c)
      BY <3>1
    <3> HIDE DEF c
    <3>5. ~(Len(c) >= 3)
      BY <3>3, <3>4
    <3> QED BY <1>2, <3>2, <3>5
  <2> QED BY <2>1, <2>2
<1> QED BY <1>4, CreatedFacts DEF Enter

\* A path there is nothing to do for leads to a directory there is.
LEMMA NothingToDoStays ==
  ASSUME LongNames, PathInvariant, NothingToDo
  PROVE  Target = << >>
<1> DEFINE c == path.components[1]
<1>1. /\ path.drive \in BOOLEAN /\ path.components \in NameType
      /\ Len(path.components) = 1 /\ c \in Seq(NameCharacters) /\ Len(c) \in Nat
      /\ path \in Paths /\ position = 1 /\ 1 \in DOMAIN path.components
  <2>1. Len(path.components) = 1 /\ path \in Paths /\ position \in 1 .. 1
    BY DEF NothingToDo, PathInvariant
  <2> QED BY <2>1, PathFacts, LenProperties DEF NameType
<1>2. c \in { << >>, << "." >>, << ".", "." >> } \/ Len(c) >= 3
  BY <1>1 DEF LongNames
<1>3. c \in { << >>, << "." >> }
  <2>1. CASE path.drive
    <3>1. Piece = << "\\" >> \o c
      BY <1>1, <2>1 DEF Piece
    <3>2. Len(Piece) = Len(c) + 1 /\ Len(Piece) = 1
      BY <1>1, <3>1 DEF NothingToDo
    <3>3. Len(c) = 0
      <4>1. Len(c) \in Nat
        BY <1>1
      <4>2. Len(c) + 1 = 1
        BY <3>2
      <4> HIDE DEF c
      <4> QED BY <4>1, <4>2
    <3>4. c = << >>
      <4> HIDE DEF c
      <4> QED BY <1>1, <3>3, EmptySeq
    <3> QED BY <3>4
  <2>2. CASE ~path.drive
    <3>1. Piece = c /\ Len(c) = 1
      BY <1>1, <2>2 DEF Piece, NothingToDo
    <3>2. c # << ".", "." >> /\ ~(Len(c) >= 3)
      BY <3>1
    <3> HIDE DEF c
    <3> QED BY <1>2, <3>2
  <2> QED BY <2>1, <2>2
<1>4. Resolved(path.components)[1] = Enter(Resolved(path.components)[0], c)
      /\ Resolved(path.components)[0] = << >>
  BY <1>1, ResolvedType
<1> QED BY <1>1, <1>3, <1>4 DEF Target, Enter

\* A name that is not there: the loop has got to the directory it would be in.
LEMMA MissingFacts ==
  ASSUME PathInvariant, outcome = "running", ~Present
  PROVE  /\ Created # << >>
         /\ Front(Created) = Resolved(path.components)[position - 1]
         /\ Front(Created) \in dirs \union files
<1> DEFINE before == Resolved(path.components)[position - 1]
           c == path.components[position]
<1>1. /\ c \in Seq(NameCharacters) /\ before \in NameType
      /\ Created \in NameType /\ Created = Enter(before, c)
  BY CreatedFacts
<1>2. /\ before \in dirs \union files /\ << >> \in dirs
      /\ before = << >> \/ Front(before) \in dirs
      /\ Created \notin dirs \union files
  BY DEF PathInvariant, Present
<1> HIDE DEF before, c
<1>3. \/ Created = before
      \/ Created = Append(before, c)
      \/ before # << >> /\ Created = Front(before)
  BY <1>1, EnterType
<1>4. Created = Append(before, c)
  BY <1>2, <1>3
<1>5. Created # << >> /\ Front(Created) = before
  BY <1>1, <1>4, AppendFacts DEF NameType
<1> QED BY <1>2, <1>5 DEF before

-----------------------------------------------------------------------------
\* Some of the directories exist before the loop, or a file of that name.
LEMMA InitPath == PathInit => PathInvariant
<1> SUFFICES ASSUME PathInit PROVE PathInvariant
  OBVIOUS
<1>1. PICK n \in 0 .. Len(Target) :
        /\ dirs = { SubSeq(Target, 1, m) : m \in 0 .. n }
        /\ files \in { {}, { SubSeq(Target, 1, m) : m \in {n + 1} \intersect 1 .. Len(Target) } }
  BY DEF PathInit
<1>2. path \in Paths /\ position = 1 /\ outcome = "running"
  BY DEF PathInit
<1>3. /\ Target \in Seq(Seq(NameCharacters)) /\ Len(Target) \in Nat
      /\ Len(path.components) \in Nat \ {0}
      /\ Resolved(path.components)[0] = << >>
  BY <1>2, PathFacts DEF NameType
<1>4. ASSUME NEW name \in dirs \union files
      PROVE  \E m \in 0 .. Len(Target) :
               name = SubSeq(Target, 1, m) /\ m <= n + 1 /\ (name \in files => m >= 1)
  <2>1. CASE name \in files
    BY <1>1, <1>3, <2>1
  <2>2. CASE name \notin files
    BY <1>1, <1>3, <2>2
  <2> QED BY <2>1, <2>2
<1>5. dirs \union files \subseteq NameType
  <2> SUFFICES ASSUME NEW name \in dirs \union files PROVE name \in NameType
    OBVIOUS
  <2>1. PICK m \in 0 .. Len(Target) : name = SubSeq(Target, 1, m)
    BY <1>4
  <2> QED BY <1>3, <2>1, PrefixFacts DEF NameType
<1>6. << >> \in dirs
  <2>1. 0 \in 0 .. Len(Target) /\ 0 \in 0 .. n
    BY <1>3
  <2>2. SubSeq(Target, 1, 0) = << >>
    BY <1>3, <2>1, PrefixFacts
  <2> QED BY <1>1, <2>1, <2>2
<1>7. ASSUME NEW name \in dirs \union files, name # << >>
      PROVE  Front(name) \in dirs
  <2>1. PICK m \in 0 .. Len(Target) : name = SubSeq(Target, 1, m) /\ m <= n + 1
    BY <1>4
  <2>2. m >= 1 /\ Front(name) = SubSeq(Target, 1, m - 1)
    BY <1>3, <1>7, <2>1, PrefixFacts
  <2>3. m - 1 \in 0 .. n
    BY <2>1, <2>2
  <2> QED BY <1>1, <2>2, <2>3
<1>8. files \subseteq { SubSeq(Target, 1, m) : m \in 1 .. Len(Target) }
  BY <1>1
<1>9. Resolved(path.components)[position - 1] \in dirs
  BY <1>2, <1>3, <1>6
<1>10. position \in 1 .. Len(path.components)
  BY <1>2, <1>3
<1> QED BY <1>2, <1>5, <1>6, <1>7, <1>8, <1>9, <1>10 DEF PathInvariant

\* What the loop has got to when it goes on, or what it returns with.
LEMMA AdvancesPath ==
  ASSUME PathInvariant, outcome = "running", Advances, path' = path, files' = files,
         dirs \subseteq dirs', Created \in dirs' \union files
  PROVE  /\ position' \in 1 .. Len(path.components)
         /\ outcome' \in {"running", "returned"}
         /\ outcome' = "running" =>
              Resolved(path.components)[position' - 1] \in dirs' \union files
         /\ outcome' = "returned" => Target \in dirs' \union files
<1>1. position \in 1 .. Len(path.components) /\ Len(path.components) \in Nat
  BY PathFacts DEF PathInvariant
<1>2. CASE IsLast
  <2>1. position' = position /\ outcome' = "returned" /\ Created = Target
    BY <1>2 DEF Advances, IsLast, Created, Target
  <2> QED BY <1>1, <2>1
<1>3. CASE ~IsLast
  <2>1. position' = position + 1 /\ outcome' = "running"
    BY <1>3 DEF Advances
  <2>2. position' \in 1 .. Len(path.components) /\ position' - 1 = position
    BY <1>1, <1>3, <2>1 DEF IsLast
  <2> QED BY <2>1, <2>2 DEF Created
<1> QED BY <1>2, <1>3

\* A component is skipped, or is there already.
LEMMA PassesPath ==
  ASSUME LongNames, PathInvariant, Skip \/ AlreadyExists
  PROVE  PathInvariant'
<1>1. /\ outcome = "running" /\ Advances
      /\ path' = path /\ dirs' = dirs /\ files' = files
  BY DEF Skip, AlreadyExists, Running
<1>2. Created \in dirs \union files
  <2>1. CASE Skip
    <3>1. SkipsPiece
      BY <2>1 DEF Skip
    <3> QED BY <1>1, <3>1, SkippedStays DEF PathInvariant
  <2>2. CASE AlreadyExists
    BY <2>2 DEF AlreadyExists, IgnoresPresence, Present
  <2> QED BY <2>1, <2>2
<1>3. /\ position' \in 1 .. Len(path.components)
      /\ outcome' \in {"running", "returned"}
      /\ outcome' = "running" =>
           Resolved(path.components)[position' - 1] \in dirs' \union files
      /\ outcome' = "returned" => Target \in dirs' \union files
  BY <1>1, <1>2, AdvancesPath
<1>4. Target' = Target
  BY <1>1 DEF Target
<1> QED BY <1>1, <1>3, <1>4 DEF PathInvariant

\* A directory is added to those there are.
LEMMA DirectoryAdded ==
  ASSUME PathInvariant, NEW name \in NameType, name = << >> \/ Front(name) \in dirs,
         dirs' = dirs \union {name}, path' = path, files' = files
  PROVE  /\ dirs' \union files' \subseteq NameType
         /\ << >> \in dirs'
         /\ \A other \in dirs' \union files' : other = << >> \/ Front(other) \in dirs'
         /\ files' \subseteq { SubSeq(Target', 1, n) : n \in 1 .. Len(Target') }
         /\ Target' = Target
<1>1. Target' = Target
  BY DEF Target
<1> QED BY <1>1 DEF PathInvariant

\* A directory is created.
LEMMA CreatePath ==
  ASSUME PathInvariant, CreateDirectory
  PROVE  PathInvariant'
<1>1. /\ outcome = "running" /\ Advances
      /\ path' = path /\ dirs' = dirs \union {Created} /\ files' = files
      /\ ~Present /\ ~ParentMissing
  BY DEF CreateDirectory, Running
<1>2. Created \in NameType /\ (Created = << >> \/ Front(Created) \in dirs)
  BY <1>1, CreatedFacts DEF ParentMissing
<1>3. /\ dirs' \union files' \subseteq NameType
      /\ << >> \in dirs'
      /\ \A name \in dirs' \union files' : name = << >> \/ Front(name) \in dirs'
      /\ files' \subseteq { SubSeq(Target', 1, n) : n \in 1 .. Len(Target') }
      /\ Target' = Target
  BY <1>1, <1>2, DirectoryAdded
<1>4. /\ position' \in 1 .. Len(path.components)
      /\ outcome' \in {"running", "returned"}
      /\ outcome' = "running" =>
           Resolved(path.components)[position' - 1] \in dirs' \union files
      /\ outcome' = "returned" => Target \in dirs' \union files
  BY <1>1, AdvancesPath
<1>5. path' \in Paths
  BY <1>1 DEF PathInvariant
<1> QED BY <1>1, <1>3, <1>4, <1>5 DEF PathInvariant

\* CreateDirectoryW fails: when the parent is missing, a file has its name.
LEMMA ThrowsPath ==
  ASSUME LongNames, PathInvariant, Throws
  PROVE  PathInvariant'
<1>1. /\ outcome = "running"
      /\ path' = path /\ position' = position /\ dirs' = dirs /\ files' = files
  BY DEF Throws, Running
<1>2. /\ outcome' \in {"ERROR_PATH_NOT_FOUND", "ERROR_ACCESS_DENIED"}
      /\ outcome' = "ERROR_PATH_NOT_FOUND" => ParentMissing /\ (IsEmpty \/ ~Present)
  BY DEF Throws
<1>3. ~IsEmpty
  BY DEF IsEmpty, LongNames, PathInvariant
<1>4. outcome' = "ERROR_PATH_NOT_FOUND" => files # {}
  <2> SUFFICES ASSUME outcome' = "ERROR_PATH_NOT_FOUND" PROVE files # {}
    OBVIOUS
  <2>1. ~Present /\ Front(Created) \notin dirs
    BY <1>2, <1>3 DEF ParentMissing
  <2>2. Front(Created) \in dirs \union files
    BY <1>1, <2>1, MissingFacts
  <2> QED BY <2>1, <2>2
<1>5. Target' = Target
  BY <1>1 DEF Target
<1> QED BY <1>1, <1>2, <1>4, <1>5 DEF PathInvariant

\* Another process has made a directory of the path.
LEMMA OtherPath ==
  ASSUME PathInvariant, OtherCreates
  PROVE  PathInvariant'
<1>1. /\ outcome = "running" /\ outcome' = outcome
      /\ path' = path /\ position' = position /\ files' = files
  BY DEF OtherCreates
<1>2. PICK n \in 1 .. Len(Target) :
        /\ Front(SubSeq(Target, 1, n)) \in dirs
        /\ dirs' = dirs \union {SubSeq(Target, 1, n)}
  BY DEF OtherCreates
<1>3. SubSeq(Target, 1, n) \in NameType
  <2>1. Target \in Seq(Seq(NameCharacters)) /\ n \in 0 .. Len(Target)
    BY PathFacts DEF PathInvariant, NameType
  <2> QED BY <2>1, PrefixFacts DEF NameType
<1>4. /\ dirs' \union files' \subseteq NameType
      /\ << >> \in dirs'
      /\ \A name \in dirs' \union files' : name = << >> \/ Front(name) \in dirs'
      /\ files' \subseteq { SubSeq(Target', 1, m) : m \in 1 .. Len(Target') }
      /\ Target' = Target
  BY <1>1, <1>2, <1>3, DirectoryAdded
<1>5. /\ path' \in Paths /\ position' \in 1 .. Len(path'.components)
      /\ Resolved(path'.components)[position' - 1] \in dirs' \union files'
  BY <1>1, <1>2 DEF PathInvariant
<1> QED BY <1>1, <1>4, <1>5 DEF PathInvariant

\* There is nothing to do.
LEMMA ReturnsPath ==
  ASSUME LongNames, PathInvariant, ReturnsAtOnce
  PROVE  PathInvariant'
<1>1. /\ outcome' = "returned" /\ NothingToDo
      /\ path' = path /\ position' = position /\ dirs' = dirs /\ files' = files
  BY DEF ReturnsAtOnce
<1>2. Target' = Target
  BY <1>1 DEF Target
<1>3. Target \in dirs
  BY <1>1, NothingToDoStays DEF PathInvariant
<1> QED BY <1>1, <1>2, <1>3 DEF PathInvariant

\* Every step of ensurePathExists and of the others.
LEMMA NextPath ==
  ASSUME LongNames, PathInvariant, [PathNext]_pathVars
  PROVE  PathInvariant'
<1>1. CASE UNCHANGED pathVars
  BY <1>1 DEF pathVars, PathInvariant, Target
<1> QED BY <1>1, PassesPath, CreatePath, ThrowsPath, OtherPath, ReturnsPath DEF PathNext

\* The loop always stands at a name that exists.
THEOREM PathInvariance ==
  ASSUME LongNames
  PROVE  PathSpec => []PathInvariant
<1>1. PathInit => PathInvariant
  BY InitPath
<1>2. PathInvariant /\ [PathNext]_pathVars => PathInvariant'
  BY NextPath
<1> QED BY <1>1, <1>2, PTL DEF PathSpec

\* When ensurePathExists returns the directory is there, or a file of its name is,
\* however long the path and whatever other processes create meanwhile; for paths
\* whose names have three characters or more.
THEOREM CreatedUnlessFile ==
  ASSUME LongNames
  PROVE  PathSpec => []DirectoryUnlessFile
<1>1. PathInvariant => DirectoryUnlessFile
  BY DEF PathInvariant, DirectoryUnlessFile
<1> QED BY <1>1, PathInvariance, PTL

\* No directory is asked for before the one it is in, for paths whose names have
\* three characters or more: only a file in its place makes the system say there
\* is no such path.
THEOREM ParentsExist ==
  ASSUME LongNames
  PROVE  PathSpec => []ParentsFirst
<1>1. PathInvariant => ParentsFirst
  BY DEF PathInvariant, ParentsFirst
<1> QED BY <1>1, PathInvariance, PTL

-----------------------------------------------------------------------------
\* systemError

\* What an exception is about.
Current == IF Describes THEN Narrowed ELSE msg

MessageCharacters == TextCharacters \union {NewLine}

\* Unless the wide message was given by itself it is that of the code and the
\* context, and what() keeps what the exception is about.
ErrorInvariant ==
  /\ errorCode \in Codes \union {NotSet}
  /\ contextMsg \in Messages \union {<< >>}
  /\ msg \in Seq(MessageCharacters)
  /\ custom \in BOOLEAN
  /\ ~custom => /\ msg = Combined(contextMsg, errorCode)
                /\ what # Null => SubSeq(what, 1, Len(what) - 1) = Current

\* Texts and messages are sequences of characters.
LEMMA TextTypes ==
  /\ \A v \in Codes :
       /\ v # NotSet
       /\ systemErrorText(v, LocalText) \in Seq(MessageCharacters)
       /\ systemErrorText(v, EnglishText) \in Seq(MessageCharacters)
  /\ \A m \in Messages \union {<< >>} : m \in Seq(MessageCharacters)
  /\ << NewLine >> \in Seq(MessageCharacters)
<1>1. \A s \in Seq(TextCharacters) : s \in Seq(MessageCharacters)
  BY SeqMonotonic DEF MessageCharacters
<1>2. ASSUME NEW v \in Codes, NEW texts \in [DOMAIN LocalText -> Seq(TextCharacters)]
      PROVE  systemErrorText(v, texts) \in Seq(TextCharacters)
  <2>1. CASE v \in DOMAIN LocalText
    BY <2>1, SystemErrorAssumption DEF systemErrorText
  <2>2. CASE v \notin DOMAIN LocalText
    <3>1. << v >> \in Seq(TextCharacters) /\ Unknown \in Seq(TextCharacters)
      BY SystemErrorAssumption
    <3>2. Unknown \o << v >> \in Seq(TextCharacters)
      BY <3>1, ConcatProperties
    <3> QED BY <2>2, <3>2, SystemErrorAssumption DEF systemErrorText
  <2> QED BY <2>1, <2>2
<1>3. \A v \in Codes : v # NotSet
  BY SystemErrorAssumption
<1>4. \A m \in Messages : m \in Seq(TextCharacters)
  BY SystemErrorAssumption
<1>5. << >> \in Seq(MessageCharacters) /\ << NewLine >> \in Seq(MessageCharacters)
  BY DEF MessageCharacters
<1>6. \A v \in Codes : /\ systemErrorText(v, LocalText) \in Seq(TextCharacters)
                       /\ systemErrorText(v, EnglishText) \in Seq(TextCharacters)
  BY <1>2, SystemErrorAssumption
<1> QED BY <1>1, <1>3, <1>4, <1>5, <1>6

\* Two messages with a line break are the same when their parts are.
LEMMA SameParts ==
  ASSUME NEW S, NEW a \in Seq(S), NEW b \in Seq(S), NEW s \in Seq(S), NEW t \in Seq(S),
         NEW n \in S, a \o << n >> \o s = b \o << n >> \o t,
         Len(a) = Len(b)
  PROVE  a = b /\ s = t
<1> DEFINE m == << n >>
           x == a \o m \o s
           y == b \o m \o t
<1>1. m \in Seq(S) /\ Len(m) = 1
  OBVIOUS
<1>2. x = y
  OBVIOUS
<1> HIDE DEF m
<1>3. /\ Len(x) = Len(a) + Len(m) + Len(s)
      /\ \A i \in 1 .. Len(a) : x[i] = a[i]
      /\ \A i \in 1 .. Len(s) : x[Len(a) + Len(m) + i] = s[i]
  <2>1. a \in Seq(S) /\ m \in Seq(S) /\ s \in Seq(S)
    BY <1>1
  <2> QED BY ONLY <2>1, ThreeParts
<1>4. /\ Len(y) = Len(b) + Len(m) + Len(t)
      /\ \A i \in 1 .. Len(b) : y[i] = b[i]
      /\ \A i \in 1 .. Len(t) : y[Len(b) + Len(m) + i] = t[i]
  <2>1. b \in Seq(S) /\ m \in Seq(S) /\ t \in Seq(S)
    BY <1>1
  <2> QED BY ONLY <2>1, ThreeParts
<1>5. Len(a) \in Nat /\ Len(b) \in Nat /\ Len(s) \in Nat /\ Len(t) \in Nat
  BY LenProperties
<1> HIDE DEF x, y
<1>6. Len(s) = Len(t)
  BY <1>1, <1>2, <1>3, <1>4, <1>5
<1>7. \A i \in 1 .. Len(a) : a[i] = b[i]
  BY <1>2, <1>3, <1>4
<1>8. \A i \in 1 .. Len(s) : s[i] = t[i]
  BY <1>2, <1>3, <1>4, <1>6
<1> QED BY <1>6, <1>7, <1>8, SeqEqual

\* A message with a line break is longer than its parts.
LEMMA LongerThanParts ==
  ASSUME NEW S, NEW a \in Seq(S), NEW s \in Seq(S), NEW n \in S
  PROVE  /\ Len(a \o << n >> \o s) = Len(a) + 1 + Len(s)
         /\ a \o << n >> \o s \in Seq(S)
         /\ a \o << n >> \o s # a
         /\ a \o << n >> \o s # s
<1> DEFINE m == << n >>
           x == a \o m \o s
<1>1. m \in Seq(S) /\ Len(m) = 1 /\ Len(a) \in Nat /\ Len(s) \in Nat
  BY LenProperties
<1> HIDE DEF m
<1>2. x \in Seq(S) /\ Len(x) = Len(a) + Len(m) + Len(s)
  <2>1. a \in Seq(S) /\ m \in Seq(S) /\ s \in Seq(S)
    BY <1>1
  <2> QED BY ONLY <2>1, ThreeParts
<1> HIDE DEF x
<1>3. Len(x) # Len(a) /\ Len(x) # Len(s) /\ Len(x) = Len(a) + 1 + Len(s)
  BY <1>1, <1>2
<1>4. x # a /\ x # s
  BY <1>3
<1> QED BY <1>2, <1>3, <1>4 DEF x, m

\* So are the wide messages.
LEMMA CombinedType ==
  ASSUME NEW m \in Messages \union {<< >>}, NEW v \in Codes \union {NotSet}
  PROVE  Combined(m, v) \in Seq(MessageCharacters)
<1> DEFINE C == MessageCharacters
           text == systemErrorText(v, LocalText)
<1>1. m \in Seq(C) /\ NewLine \in C
  BY TextTypes DEF MessageCharacters
<1>2. CASE v = NotSet
  BY <1>1, <1>2 DEF Combined
<1>3. CASE v # NotSet
  <2>1. text \in Seq(C)
    BY <1>3, TextTypes
  <2>2. m \o << NewLine >> \o text \in Seq(C)
    BY <1>1, <2>1, LongerThanParts
  <2> QED BY <1>3, <2>1, <2>2 DEF Combined
<1> QED BY <1>2, <1>3

-----------------------------------------------------------------------------
\* what() keeps what it has computed, without the end of the string.
LEMMA KeptDescription ==
  ASSUME ErrorInvariant, Describes
  PROVE  SubSeq(SystemWhat, 1, Len(SystemWhat) - 1) = Narrowed
<1> DEFINE C == MessageCharacters
           N == Len(Narrowed)
           all == C \union {EndOfString, Uninitialized}
<1>1. Narrowed \in Seq(C) /\ WhatSize = N + 1
  <2>1. EnglishMsg \in Seq(C) /\ contextMsg \in Seq(C) /\ NewLine \in C
        /\ Len(EnglishMsg) \in Nat /\ Len(contextMsg) \in Nat
    <3>1. EnglishMsg \in Seq(C) /\ contextMsg \in Seq(C)
      BY TextTypes DEF ErrorInvariant, EnglishMsg
    <3> QED BY <3>1, LenProperties DEF MessageCharacters
  <2>2. CASE contextMsg = << >>
    BY <2>1, <2>2 DEF Narrowed, WhatSize, Describes
  <2>3. CASE contextMsg # << >> /\ errorCode = NotSet
    BY <2>1, <2>3 DEF Narrowed, WhatSize
  <2>4. CASE contextMsg # << >> /\ errorCode # NotSet
    <3>1. Narrowed = contextMsg \o << NewLine >> \o EnglishMsg
      BY <2>4 DEF Narrowed
    <3>2. Narrowed \in Seq(C) /\ Len(Narrowed) = Len(contextMsg) + 1 + Len(EnglishMsg)
      BY <2>1, <3>1, LongerThanParts
    <3>3. WhatSize = Len(EnglishMsg) + 1 + (Len(contextMsg) + 1)
      BY <2>4 DEF WhatSize
    <3> QED BY <2>1, <3>2, <3>3
  <2> QED BY <2>2, <2>3, <2>4
<1>2. N \in Nat /\ \A i \in 1 .. N : Narrowed[i] \in C
  BY <1>1, LenProperties, ElementOfSeq
<1>3. SystemWhat = [i \in 1 .. N + 1 |->
                      IF i <= N THEN Narrowed[i]
                      ELSE IF i = EndAt + 1 THEN EndOfString
                      ELSE Uninitialized]
  BY <1>1 DEF SystemWhat
<1> DEFINE whole == SystemWhat
           part == SubSeq(whole, 1, N)
           text == Narrowed
<1> HIDE DEF C, N
<1>4. DOMAIN whole = 1 .. N + 1 /\ \A i \in 1 .. N + 1 : whole[i] \in all
  BY <1>2, <1>3
<1>5. \A i \in 1 .. N : whole[i] = text[i]
  BY <1>2, <1>3
<1>6. whole \in Seq(all) /\ Len(whole) = N + 1
  <2>1. whole = [i \in 1 .. N + 1 |-> whole[i]]
    BY <1>3
  <2> HIDE DEF whole, all
  <2> QED BY <1>2, <1>4, <2>1
<1> HIDE DEF whole, all, text
<1>7. /\ part \in Seq(all) /\ Len(part) = N
      /\ \A i \in 1 .. N : part[i] = whole[i]
  <2>1. 1 \in 1 .. Len(whole) + 1 /\ N \in 0 .. Len(whole) /\ N - 1 + 1 = N
    BY <1>2, <1>6
  <2>2. /\ part \in Seq(all)
        /\ Len(part) = IF 1 <= N THEN N - 1 + 1 ELSE 0
        /\ \A i \in 1 .. N - 1 + 1 : part[i] = whole[1 + i - 1]
    BY <1>6, <2>1, PartOf
  <2> HIDE DEF part
  <2> QED BY <1>2, <2>2
<1>8. text \in Seq(C) /\ Len(text) = N
  BY <1>1 DEF text, N
<1> HIDE DEF part
<1>9. part = text
  BY <1>5, <1>7, <1>8, SeqEqual
<1>10. Len(whole) - 1 = N
  BY <1>2, <1>6
<1> QED BY <1>9, <1>10 DEF part, whole, text

\* The same for a message of the base class.
LEMMA KeptMessage ==
  ASSUME ErrorInvariant, ~Describes
  PROVE  SubSeq(BaseWhat, 1, Len(BaseWhat) - 1) = msg
<1> DEFINE all == MessageCharacters \union {EndOfString}
           whole == BaseWhat
           end == << EndOfString >>
           N == Len(msg)
           part == SubSeq(whole, 1, N)
<1>1. msg \in Seq(all) /\ end \in Seq(all) /\ Len(end) = 1 /\ N \in Nat
  <2>1. msg \in Seq(MessageCharacters)
    BY DEF ErrorInvariant
  <2>2. msg \in Seq(all) /\ N \in Nat
    BY <2>1, SeqMonotonic, LenProperties
  <2> QED BY <2>2
<1>2. whole = msg \o end
  BY DEF BaseWhat
<1> HIDE DEF whole, end, all
<1>3. /\ whole \in Seq(all) /\ Len(whole) = N + 1
      /\ \A i \in 1 .. N : whole[i] = msg[i]
  <2>1. /\ whole \in Seq(all)
        /\ Len(whole) = N + 1
        /\ \A i \in 1 .. N + 1 : whole[i] = IF i <= N THEN msg[i] ELSE end[i - N]
    <3>1. /\ msg \o end \in Seq(all)
          /\ Len(msg \o end) = Len(msg) + Len(end)
          /\ \A i \in 1 .. Len(msg) + Len(end) :
               (msg \o end)[i] = IF i <= Len(msg) THEN msg[i] ELSE end[i - Len(msg)]
      BY <1>1, ConcatProperties
    <3> QED BY <1>1, <1>2, <3>1
  <2> HIDE DEF N
  <2> QED BY <1>1, <2>1
<1> HIDE DEF N
<1>4. /\ part \in Seq(all) /\ Len(part) = N
      /\ \A i \in 1 .. N : part[i] = whole[i]
  <2>1. 1 \in 1 .. Len(whole) + 1 /\ N \in 0 .. Len(whole)
    BY <1>1, <1>3
  <2>2. /\ part \in Seq(all)
        /\ Len(part) = IF 1 <= N THEN N - 1 + 1 ELSE 0
        /\ \A i \in 1 .. N - 1 + 1 : part[i] = whole[1 + i - 1]
    BY <1>3, <2>1, PartOf
  <2> HIDE DEF part
  <2> QED BY <1>1, <2>2
<1> HIDE DEF part
<1>5. part = msg
  <2>1. Len(part) = Len(msg)
    BY <1>4 DEF N
  <2>2. \A i \in 1 .. Len(part) : part[i] = msg[i]
    BY <1>3, <1>4
  <2> QED BY <1>1, <1>4, <2>1, <2>2, SeqEqual
<1>6. Len(whole) - 1 = N
  BY <1>1, <1>3
<1> QED BY <1>5, <1>6 DEF part, whole

\* A constructor.
LEMMA InitError == ErrorInit => ErrorInvariant
<1> SUFFICES ASSUME ErrorInit PROVE ErrorInvariant
  OBVIOUS
<1>1. CASE errorCode = NotSet /\ contextMsg = << >> /\ msg \in Messages \union {<< >>}
  BY <1>1, TextTypes DEF ErrorInit, ErrorInvariant, Combined
<1>2. CASE /\ errorCode \in Codes
           /\ contextMsg \in Messages \union {<< >>}
           /\ msg = Combined(contextMsg, errorCode)
  BY <1>2, CombinedType DEF ErrorInit, ErrorInvariant
<1> QED BY <1>1, <1>2 DEF ErrorInit

\* what()
LEMMA WhatError ==
  ASSUME ErrorInvariant, What
  PROVE  ErrorInvariant'
<1>1. UNCHANGED << errorCode, contextMsg, msg, custom >> /\ what' = CurrentWhat
  BY DEF What
<1>2. Current' = Current /\ Combined(contextMsg, errorCode)' = Combined(contextMsg, errorCode)
  BY <1>1 DEF Current, Describes, Narrowed, EnglishMsg, Combined
<1>3. SubSeq(what', 1, Len(what') - 1) = Current
  BY <1>1, KeptDescription, KeptMessage DEF CurrentWhat, Current
<1> QED BY <1>1, <1>2, <1>3 DEF ErrorInvariant

\* A setter leaves the kept message alone when the wide one stays as it is: then
\* what the exception is about has not changed either.
LEMMA SameMessageCode ==
  ASSUME UnambiguousTexts, ErrorInvariant, NEW v \in Codes \union {NotSet},
         v # errorCode, Combined(contextMsg, v) = Combined(contextMsg, errorCode)
  PROVE  /\ v # NotSet
         /\ errorCode # NotSet
         /\ systemErrorText(v, EnglishText) = systemErrorText(errorCode, EnglishText)
<1>1. errorCode \in Codes \union {NotSet} /\ contextMsg \in Messages \union {<< >>}
  BY DEF ErrorInvariant
<1> DEFINE C == MessageCharacters
           text == systemErrorText(v, LocalText)
           old == systemErrorText(errorCode, LocalText)
<1>2. /\ v \in Codes => text \in Seq(C) /\ text # << >>
      /\ errorCode \in Codes => old \in Seq(C) /\ old # << >>
      /\ contextMsg \in Seq(C) /\ NewLine \in C
      /\ NotSet \notin Codes
  BY <1>1, TextTypes, SystemErrorAssumption DEF UnambiguousTexts, MessageCharacters
<1>3. CASE contextMsg = << >>
  <2>1. (IF v = NotSet THEN << >> ELSE text) = (IF errorCode = NotSet THEN << >> ELSE old)
    BY <1>3 DEF Combined
  <2>2. v # NotSet /\ errorCode # NotSet
    BY <1>1, <1>2, <2>1
  <2>3. text = old
    BY <2>1, <2>2
  <2> QED BY <1>1, <2>2, <2>3 DEF UnambiguousTexts
<1>4. CASE contextMsg # << >>
  <2>1. (IF v = NotSet THEN contextMsg ELSE contextMsg \o << NewLine >> \o text)
        = (IF errorCode = NotSet THEN contextMsg ELSE contextMsg \o << NewLine >> \o old)
    BY <1>4 DEF Combined
  <2>2. v # NotSet /\ errorCode # NotSet
    <3>1. \A s \in Seq(C) : contextMsg \o << NewLine >> \o s # contextMsg
      BY <1>2, LongerThanParts
    <3> QED BY <1>1, <1>2, <2>1, <3>1
  <2>3. text = old
    <3>1. contextMsg \o << NewLine >> \o text = contextMsg \o << NewLine >> \o old
      BY <2>1, <2>2
    <3>2. text \in Seq(C) /\ old \in Seq(C)
      BY <1>1, <1>2, <2>2
    <3> QED BY <1>2, <3>1, <3>2, SameParts
  <2> QED BY <1>1, <2>2, <2>3 DEF UnambiguousTexts
<1> QED BY <1>3, <1>4

\* With another context the wide message is another one.
LEMMA OtherContext ==
  ASSUME ErrorInvariant, NEW m \in Messages \union {<< >>}, m # contextMsg
  PROVE  Combined(m, errorCode) # Combined(contextMsg, errorCode)
<1>1. errorCode \in Codes \union {NotSet} /\ contextMsg \in Messages \union {<< >>}
  BY DEF ErrorInvariant
<1>2. CASE errorCode = NotSet
  BY <1>2 DEF Combined
<1>3. CASE errorCode # NotSet
  <2> SUFFICES ASSUME Combined(m, errorCode) = Combined(contextMsg, errorCode) PROVE FALSE
    OBVIOUS
  <2> DEFINE C == MessageCharacters
             text == systemErrorText(errorCode, LocalText)
  <2>1. /\ text \in Seq(C) /\ contextMsg \in Seq(C) /\ m \in Seq(C) /\ NewLine \in C
        /\ Len(text) \in Nat /\ Len(contextMsg) \in Nat /\ Len(m) \in Nat
    <3>1. text \in Seq(C) /\ contextMsg \in Seq(C) /\ m \in Seq(C)
      BY <1>1, <1>3, TextTypes
    <3> QED BY <3>1, LenProperties DEF MessageCharacters
  <2>2. (IF contextMsg = << >> THEN text ELSE contextMsg \o << NewLine >> \o text)
        = (IF m = << >> THEN text ELSE m \o << NewLine >> \o text)
    BY <1>3 DEF Combined
  <2> HIDE DEF C, text
  <2>4. /\ contextMsg \o << NewLine >> \o text # text
        /\ m \o << NewLine >> \o text # text
        /\ Len(contextMsg \o << NewLine >> \o text) = Len(contextMsg) + 1 + Len(text)
        /\ Len(m \o << NewLine >> \o text) = Len(m) + 1 + Len(text)
    <3>1. \A x \in Seq(C) :
            /\ x \o << NewLine >> \o text # text
            /\ Len(x \o << NewLine >> \o text) = Len(x) + 1 + Len(text)
      BY ONLY <2>1, LongerThanParts
    <3> QED BY <2>1, <3>1
  <2>5. contextMsg \o << NewLine >> \o text = m \o << NewLine >> \o text
    BY <2>2, <2>4
  <2>6. Len(contextMsg) = Len(m)
    BY <2>1, <2>4, <2>5
  <2>7. contextMsg = m
    <3>1. /\ contextMsg \in Seq(C) /\ m \in Seq(C) /\ text \in Seq(C) /\ NewLine \in C
          /\ contextMsg \o << NewLine >> \o text = m \o << NewLine >> \o text
          /\ Len(contextMsg) = Len(m)
      BY <2>1, <2>5, <2>6
    <3> QED BY <3>1, SameParts
  <2> QED BY <2>7
<1> QED BY <1>2, <1>3

\* errorCode(v)
LEMMA SetErrorCodeError ==
  ASSUME UnambiguousTexts, ErrorInvariant, NEW v \in Codes \union {NotSet}, SetErrorCode(v)
  PROVE  ErrorInvariant'
<1>1. /\ v # errorCode /\ errorCode' = v /\ contextMsg' = contextMsg
      /\ msg' = Combined(contextMsg, v)
      /\ what' = (IF Combined(contextMsg, v) = msg THEN what ELSE Null)
      /\ custom' = (custom /\ Combined(contextMsg, v) = msg)
  BY DEF SetErrorCode, UpdateMsg, SetsMsg
<1>2. contextMsg \in Messages \union {<< >>} /\ Combined(contextMsg, v) \in Seq(MessageCharacters)
  BY CombinedType DEF ErrorInvariant
<1>3. msg' = Combined(contextMsg', errorCode')
  BY <1>1
<1>4. ASSUME ~custom', what' # Null
      PROVE  SubSeq(what', 1, Len(what') - 1) = Current'
  <2>1. Combined(contextMsg, v) = msg /\ what' = what /\ ~custom
    BY <1>1, <1>4
  <2>2. /\ msg = Combined(contextMsg, errorCode)
        /\ SubSeq(what, 1, Len(what) - 1) = Current
    BY <1>4, <2>1 DEF ErrorInvariant
  <2>3. /\ v # NotSet /\ errorCode # NotSet
        /\ systemErrorText(v, EnglishText) = systemErrorText(errorCode, EnglishText)
    BY <1>1, <2>1, <2>2, SameMessageCode
  <2>4. Current' = Current
    BY <1>1, <2>3 DEF Current, Describes, Narrowed, EnglishMsg
  <2> QED BY <2>1, <2>2, <2>4
<1> QED BY <1>1, <1>2, <1>3, <1>4 DEF ErrorInvariant

\* contextMsg(m)
LEMMA SetContextMsgError ==
  ASSUME ErrorInvariant, NEW m \in Messages \union {<< >>}, SetContextMsg(m)
  PROVE  ErrorInvariant'
<1>1. /\ m # contextMsg /\ errorCode' = errorCode /\ contextMsg' = m
      /\ msg' = Combined(m, errorCode)
      /\ what' = (IF Combined(m, errorCode) = msg THEN what ELSE Null)
      /\ custom' = (custom /\ Combined(m, errorCode) = msg)
  BY DEF SetContextMsg, UpdateMsg, SetsMsg
<1>2. errorCode \in Codes \union {NotSet} /\ Combined(m, errorCode) \in Seq(MessageCharacters)
  BY CombinedType DEF ErrorInvariant
<1>3. msg' = Combined(contextMsg', errorCode')
  BY <1>1
<1>4. ~custom' => what' = Null
  BY <1>1, OtherContext DEF ErrorInvariant
<1> QED BY <1>1, <1>2, <1>3, <1>4 DEF ErrorInvariant

\* Every member of systemError.
LEMMA NextError ==
  ASSUME UnambiguousTexts, ErrorInvariant, [ErrorNext]_errorVars
  PROVE  ErrorInvariant'
<1>1. CASE UNCHANGED errorVars
  <2>1. UNCHANGED << errorCode, contextMsg, msg, what, custom >>
    BY <1>1 DEF errorVars
  <2>2. Current' = Current /\ Combined(contextMsg, errorCode)' = Combined(contextMsg, errorCode)
    BY <2>1 DEF Current, Describes, Narrowed, EnglishMsg, Combined
  <2> QED BY <2>1, <2>2 DEF ErrorInvariant
<1>2. CASE Copy
  BY <1>2 DEF Copy, ErrorInvariant, Combined
<1>3. CASE \E m \in Messages \union {<< >>} : SetMsg(m)
  BY <1>3, TextTypes DEF SetMsg, SetsMsg, ErrorInvariant
<1> QED BY <1>1, <1>2, <1>3, WhatError, SetErrorCodeError, SetContextMsgError DEF ErrorNext

\* What an exception says is about its code and its context, unless its wide
\* message was given by itself.
THEOREM ErrorInvariance ==
  ASSUME UnambiguousTexts
  PROVE  ErrorSpec => []ErrorInvariant
<1>1. ErrorInit => ErrorInvariant
  BY InitError
<1>2. ErrorInvariant /\ [ErrorNext]_errorVars => ErrorInvariant'
  BY NextError
<1> QED BY <1>1, <1>2, PTL DEF ErrorSpec

\* The message what() keeps is about the present code and context, whichever
\* setters were called since it was computed and in whatever order, unless the
\* wide message is one that base::msg or a constructor was given: then base.h:75
\* may keep a message that is not.  For codes whose texts in the language of the
\* user are the same only when their English ones are.
THEOREM WhatFollows ==
  ASSUME UnambiguousTexts
  PROVE  ErrorSpec => []WhatFollowsSetters
<1>1. ErrorInvariant => WhatFollowsSetters
  BY DEF ErrorInvariant, WhatFollowsSetters, WhatIsCurrent, Current
<1> QED BY <1>1, ErrorInvariance, PTL
==============================================================================
