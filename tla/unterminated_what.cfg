SPECIFICATION ErrorSpec
CONSTANTS
  TextCharacters <- SomeText
  Codes <- SomeCodes
  LocalText <- LocalTexts
  EnglishText <- EnglishTexts
  Unknown <- UnknownText
  Messages <- SomeMessages
  NotSet = NotSet
  Null = Null
  Uninitialized = Uninitialized
INVARIANT WhatIsTheDescription
CHECK_DEADLOCK FALSE
