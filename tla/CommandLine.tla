----------------------------- MODULE CommandLine -----------------------------
(***************************************************************************)
(* quoteAsCommandComponent: makes a string a single component of a command *)
(* line.  The loop that escapes double quotes is modelled step by step,    *)
(* and what it makes is read back the way CreateProcess's callee does.     *)
(***************************************************************************)
EXTENDS Integers, SequencesExt

CONSTANTS
  Characters,  \* the characters of a wide string
  Quote, Backslash, Space, Tab,
  Arguments,   \* the strings to quote
  MaxLength    \* wstring::max_size()

ASSUME CommandLineAssumption ==
  /\ {Quote, Backslash, Space, Tab} \subseteq Characters
  /\ Quote # Backslash /\ Quote # Space /\ Backslash # Space
  /\ Tab \notin {Quote, Backslash, Space}
  /\ Arguments \subseteq Seq(Characters)
  /\ MaxLength \in Nat
  /\ \A a \in Arguments : Len(a) <= MaxLength

VARIABLES
  original,  \* history: the argument
  arg,       \* the string, modified in place
  p,         \* where the search for the next quote starts
  quoting    \* "check", "escape", "close", "done" or "length_error"

quotingVars == << original, arg, p, quoting >>

QuotingInit ==
  /\ original \in Arguments
  /\ arg = original
  /\ p = 1
  /\ quoting = "check"

\* find_first_of(L" \"")
NeedsQuotes(a) == \E i \in DOMAIN a : a[i] \in {Space, Quote}

Check ==
  /\ quoting = "check"
  /\ quoting' = IF NeedsQuotes(arg) THEN "escape" ELSE "done"
  /\ UNCHANGED << original, arg, p >>

FoundAt(i) == i \in p .. Len(arg) /\ arg[i] = Quote

FirstFound(i) == FoundAt(i) /\ \A j \in p .. i - 1 : ~FoundAt(j)

NoQuoteLeft == \A i \in DOMAIN arg : ~FoundAt(i)

\* replace(p, 1, L"\\\""), then ++p, which leaves p at the quote it has escaped.
ReplacementWithoutQuote == << Backslash >>
Replacement == << Backslash, Quote >>

Escape ==
  /\ quoting = "escape"
  /\ Len(arg) < MaxLength
  /\ \E i \in DOMAIN arg :
       /\ FirstFound(i)
       /\ arg' = SubSeq(arg, 1, i - 1) \o Replacement
                 \o SubSeq(arg, i + 1, Len(arg))
       /\ p' = i + 1
  /\ UNCHANGED << original, quoting >>

\* replace throws when the string would be longer than a string can be.
EscapeThrows ==
  /\ quoting = "escape"
  /\ Len(arg) = MaxLength
  /\ ~NoQuoteLeft
  /\ quoting' = "length_error"
  /\ UNCHANGED << original, arg, p >>

Escaped ==
  /\ quoting = "escape"
  /\ NoQuoteLeft
  /\ quoting' = "close"
  /\ UNCHANGED << original, arg, p >>

\* A backslash at the end would quote the closing quote.
UndoubledBackslash == << >>
DoubledBackslash ==
  IF arg # << >> /\ Last(arg) = Backslash THEN << Backslash >> ELSE << >>

Close ==
  /\ quoting = "close"
  /\ arg' = << Quote >> \o arg \o DoubledBackslash \o << Quote >>
  /\ quoting' = "done"
  /\ UNCHANGED << original, p >>

QuotingNext == Check \/ Escape \/ EscapeThrows \/ Escaped \/ Close

QuotingSpec == QuotingInit /\ [][QuotingNext]_quotingVars

FairQuotingSpec == QuotingSpec /\ WF_quotingVars(QuotingNext)

-----------------------------------------------------------------------------
\* How a command line is read: 2n backslashes before a quote are n, and one more
\* makes the quote a character; other backslashes are themselves.  The reader's
\* state is what it has read of the first component, how many backslashes are
\* pending, and where it is: before the component, in it, outside or inside
\* quotes, or past the space or the tab that has ended it.  (A quote right after
\* a closing one has a meaning of its own; the function makes none.)
Backslashes(n) == [i \in 1 .. n |-> Backslash]

Separators == {Space, Tab}

AcrossQuote == [ before |-> "inside", outside |-> "inside", inside |-> "outside" ]

Begun(place) == IF place = "before" THEN "outside" ELSE place

ReadCharacter(r, c) ==
  IF r.place = "past" THEN r
  ELSE IF c = Backslash THEN [r EXCEPT !.pending = @ + 1, !.place = Begun(@)]
  ELSE IF c = Quote
  THEN LET half == [r EXCEPT !.text = @ \o Backslashes(r.pending \div 2),
                             !.pending = 0]
       IN IF r.pending % 2 = 1 THEN [half EXCEPT !.text = Append(@, Quote)]
                               ELSE [half EXCEPT !.place = AcrossQuote[@]]
  ELSE IF c \in Separators /\ r.place # "inside"
  THEN [r EXCEPT !.place = IF @ = "before" THEN @ ELSE "past"]
  ELSE [r EXCEPT !.text = @ \o Backslashes(r.pending) \o << c >>, !.pending = 0,
                 !.place = Begun(@)]

ReaderInit == [ text |-> << >>, pending |-> 0, place |-> "before" ]

\* The reader's state after the first n characters, for every n.
Reading(s) ==
  LET r[n \in 0 .. Len(s)] == IF n = 0 THEN ReaderInit ELSE ReadCharacter(r[n - 1], s[n])
  IN r

\* s is one component, to its end, and is read as a.
ReadBackAs(s, a) ==
  LET r == Reading(s)[Len(s)] IN
  r.place = "outside" /\ r.text \o Backslashes(r.pending) = a

-----------------------------------------------------------------------------
\* Properties

\* The strings the function makes a component of: not the empty one, which gets
\* no quotes and is no component; none that is left without quotes although it has
\* a tab, which the function does not look for (utils.cpp:70); and none that is put
\* in quotes and ends in two backslashes or more, as one of them only is doubled
\* (utils.cpp:92).
EndsInTwo(a) == Len(a) >= 2 /\ a[Len(a)] = Backslash /\ a[Len(a) - 1] = Backslash

WellQuoted(a) ==
  /\ a # << >>
  /\ NeedsQuotes(a) => ~EndsInTwo(a)
  /\ ~NeedsQuotes(a) => \A i \in DOMAIN a : a[i] # Tab

\* When the function returns, its result is read back as one component, and as the
\* string it was given (utils.h:21-24), for these strings and for no others: the
\* escaping of the last backslash is right when it is needed, and the quotes are
\* there when a space is.
ReadBackIfWellQuoted ==
  quoting = "done" => (ReadBackAs(arg, original) <=> WellQuoted(original))

\* The loop over the quotes loses no character of the argument: it puts
\* backslashes, and nothing else, in front of one of them.
Added == Len(arg) - Len(original)

NothingLost ==
  quoting \in {"escape", "length_error"} =>
    \E i \in 1 .. Len(original) + 1 :
      arg = SubSeq(original, 1, i - 1) \o Backslashes(Added)
            \o SubSeq(original, i, Len(original))

\* The function returns, as utils.h:26-27 has it, with the quotes escaped.  With a
\* double quote in the string it never does: the search goes on at the quote that
\* has just been escaped (utils.cpp:77-84), until there is no room for more.
Returns == <>(quoting = "done")
=============================================================================
