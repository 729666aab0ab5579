SPECIFICATION FairSpec
CONSTANTS
  Symbol <- MCSymbol
  Input <- MCInput
  regfind <- MCregfind
  MaxTags = 3
  MaxCut = 4
INVARIANTS TokensAreThePage AnswersAreMatches RowsAreKept
PROPERTIES Terminates
CHECK_DEADLOCK FALSE
