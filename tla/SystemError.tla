----------------------------- MODULE SystemError -----------------------------
(***************************************************************************)
(* class systemError, and the exceptions::base it derives from: an error   *)
(* code and a context message, the wide message computed from them and the *)
(* narrow one what() computes on demand and keeps.  The wide message may    *)
(* also be set by itself, as base has a setter for it.                     *)
(*                                                                         *)
(* A message is a sequence of characters; only its length and whether two  *)
(* are equal matter.  Narrowing keeps the length.                          *)
(***************************************************************************)
EXTENDS Naturals, Sequences

CONSTANTS
  TextCharacters,  \* the characters of messages and texts
  Codes,           \* error codes
  NotSet,          \* errorCode_notSet
  LocalText,       \* what FormatMessage says of the codes it knows, in the
  EnglishText,     \*   language of the user and in English
  Unknown,         \* the characters of "[Could not find a description ...]"
  Messages,        \* context messages, and messages of the base class
  Null,            \* the null pointer
  Uninitialized    \* a character nothing has been written to

ASSUME SystemErrorAssumption ==
  /\ Codes \subseteq TextCharacters
  /\ NotSet \notin Codes
  /\ LocalText \in [DOMAIN LocalText -> Seq(TextCharacters)]
  /\ EnglishText \in [DOMAIN LocalText -> Seq(TextCharacters)]
  /\ Unknown \in Seq(TextCharacters)
  /\ Messages \subseteq Seq(TextCharacters)
  /\ << >> \notin Messages

VARIABLES
  errorCode,   \* _errorCode
  contextMsg,  \* _contextMsg
  msg,         \* base::_msg
  what,        \* base::_what: the buffer, or null
  overrun,     \* a character has been written outside the buffer
  custom       \* history: msg was given as such, by base::msg or a constructor,
               \*   and not replaced through the code or the context since

errorVars == << errorCode, contextMsg, msg, what, overrun, custom >>

NewLine == "line break"
EndOfString == "end of string"

systemErrorText(code, texts) ==
  IF code \in DOMAIN texts THEN texts[code] ELSE Unknown \o << code >>

\* Texts that can be told from each other: codes whose texts are the same in the
\* language of the user have the same one in English, and no text is empty.
UnambiguousTexts ==
  \A v \in Codes :
    /\ systemErrorText(v, LocalText) # << >>
    /\ \A w \in Codes :
         systemErrorText(v, LocalText) = systemErrorText(w, LocalText) =>
           systemErrorText(v, EnglishText) = systemErrorText(w, EnglishText)

\* What updateMsg makes of a context message and an error code.
Combined(context, code) ==
  IF code = NotSet THEN context
  ELSE IF context = << >> THEN systemErrorText(code, LocalText)
  ELSE context \o << NewLine >> \o systemErrorText(code, LocalText)

-----------------------------------------------------------------------------
\* The constructors: with nothing, with a code (given or of the last error),
\* with a message, with a context message and a code.
ErrorInit ==
  /\ \/ errorCode = NotSet /\ contextMsg = << >> /\ msg \in Messages \union {<< >>}
     \/ /\ errorCode \in Codes
        /\ contextMsg \in Messages \union {<< >>}
        /\ msg = Combined(contextMsg, errorCode)
  /\ what = Null
  /\ overrun = FALSE
  /\ custom = (errorCode = NotSet /\ msg # << >>)

\* base::msg: an equal message leaves everything as it is.
KeepsWhat(m) == msg' = m /\ UNCHANGED what
SetsMsg(m) ==
  /\ msg' = m
  /\ what' = IF m = msg THEN what ELSE Null

UpdateMsgForCode(context, code) ==
  SetsMsg(Combined(<< >>, code)) /\ custom' = (custom /\ Combined(<< >>, code) = msg)
UpdateMsg(context, code) ==
  SetsMsg(Combined(context, code)) /\ custom' = (custom /\ Combined(context, code) = msg)

\* errorCode(v), errorCode_getLast
SetErrorCode(v) ==
  /\ errorCode # v
  /\ errorCode' = v
  /\ UpdateMsg(contextMsg, v)
  /\ UNCHANGED << contextMsg, overrun >>

SetContextMsg(m) ==
  /\ contextMsg # m
  /\ contextMsg' = m
  /\ UpdateMsg(m, errorCode)
  /\ UNCHANGED << errorCode, overrun >>

\* base::msg, which is public: the code and the context do not learn of it.
SetMsg(m) ==
  /\ SetsMsg(m)
  /\ custom' = TRUE
  /\ UNCHANGED << errorCode, contextMsg, overrun >>

\* An exception that is thrown or caught by value: the copy makes its own what.
Copy ==
  /\ what' = Null
  /\ UNCHANGED << errorCode, contextMsg, msg, overrun, custom >>

-----------------------------------------------------------------------------
\* what()

Describes == errorCode # NotSet \/ contextMsg # << >>

\* base::what
BaseWhat == msg \o << EndOfString >>

EnglishMsg ==
  IF errorCode = NotSet THEN << >> ELSE systemErrorText(errorCode, EnglishText)

\* One more than its characters for each part there is.
WhatSize ==
  (IF errorCode # NotSet THEN Len(EnglishMsg) + 1 ELSE 0)
  + (IF contextMsg # << >> THEN Len(contextMsg) + 1 ELSE 0)

\* The parts, with a line break between them.
Narrowed ==
  IF contextMsg = << >> THEN EnglishMsg
  ELSE IF errorCode = NotSet THEN contextMsg
  ELSE contextMsg \o << NewLine >> \o EnglishMsg

\* The index what() writes the end of the string to.
EndAt == WhatSize

SystemWhat ==
  [i \in 1 .. WhatSize |->
     IF i <= Len(Narrowed) THEN Narrowed[i]
     ELSE IF i = EndAt + 1 THEN EndOfString
     ELSE Uninitialized]

CurrentWhat == IF Describes THEN SystemWhat ELSE BaseWhat

What ==
  /\ what = Null
  /\ what' = CurrentWhat
  /\ overrun' = (overrun \/ (Describes /\ EndAt >= WhatSize))
  /\ UNCHANGED << errorCode, contextMsg, msg, custom >>

ErrorNext ==
  \/ \E v \in Codes \union {NotSet} : SetErrorCode(v)
  \/ \E m \in Messages \union {<< >>} : SetContextMsg(m)
  \/ \E m \in Messages \union {<< >>} : SetMsg(m)
  \/ Copy
  \/ What

ErrorSpec == ErrorInit /\ [][ErrorNext]_errorVars

-----------------------------------------------------------------------------
\* Properties

\* The message what() returns is about the code and the context the exception has
\* now.  The description is in English whatever the language of the wide message
\* (systemError.h:89-93).
WhatIsCurrent ==
  what # Null =>
    LET current == IF Describes THEN Narrowed ELSE msg IN
    SubSeq(what, 1, Len(what) - 1) = current

\* That is so whatever the setters of the code and the context did since it was
\* computed, unless the wide message was given by itself: the setters invalidate
\* what() through base::msg, which does nothing when the wide message is already
\* what it would become (base.h:75).
WhatFollowsSetters == custom \/ WhatIsCurrent

\* what() returns the narrowed description of the error (systemError.h:89-93):
\* the characters of the description and the end of the string.
WhatIsTheDescription ==
  what # Null /\ Describes => what = Narrowed \o << EndOfString >> /\ ~overrun
=============================================================================
