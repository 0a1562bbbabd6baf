SPECIFICATION FairSpec
CONSTANTS
  Texts <- MCTexts
  Letters <- MCLetters
  Keywords <- MCKeywords
  Reserved <- MCReserved
  Ascii <- MCAscii
  HugeFloats <- MCHugeFloats
  Width = 4
  MaxErrors = 2
INVARIANTS TokensNest DumpReadsBack FollowsTheGrammar MarkerUnderError
PROPERTY LexerEnds
CHECK_DEADLOCK FALSE
