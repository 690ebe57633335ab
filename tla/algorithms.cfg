SPECIFICATION PartsSpec
CONSTANTS
  Platters <- Samples
  Sizes <- SmallSizes
  codeSize <- SampleSizes
  OOBStubSize <- OOBLength
  recompileStubSize <- StubLength
  RegisterCount = 4
  ValueCount = 16
  WordBits = 10
  Contents <- Scrolls
  Missing = Missing
  Directory = Directory
  Pieces <- SomePieces
  SizeCount = 16
  TextCharacters <- SomeText
  Codes <- SomeCodes
  LocalText <- LocalTexts
  EnglishText <- EnglishTexts
  Unknown <- UnknownText
  Messages <- SomeMessages
  NameCharacters <- NamesOf
  Paths <- SomePaths
  NotSet = NotSet
  Null = Null
  Uninitialized = Uninitialized
  Characters <- SomeCharacters
  Arguments <- ShortStrings
  Quote = Quote
  Backslash = Backslash
  Space = Space
  Tab = Tab
  Letter = Letter
  MaxLength = 12
INVARIANTS
  WrittenWithinBlock
  StubsStayApart
  FingerPositionFound
  InductiveInvariant
  RunsWhatWasThere
  RunsWholeScroll
  NothingLeftBehind
  WhatFollowsSetters
  DirectoryUnlessFile
  ParentsFirst
  ReadBackIfWellQuoted
  NothingLost
CHECK_DEADLOCK FALSE
