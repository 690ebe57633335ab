SPECIFICATION FairQuotingSpec
CONSTANTS
  Characters <- SomeCharacters
  Arguments <- ShortStrings
  Quote = Quote
  Backslash = Backslash
  Space = Space
  Tab = Tab
  Letter = Letter
  MaxLength = 12
PROPERTY Returns
CHECK_DEADLOCK FALSE
