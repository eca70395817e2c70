CONSTANTS
  Members <- Two
  Scores <- Two
  MaxCopies = 2
  MaxNodes = 4
  MaxLvl = 2
  Elems <- ShortAndLong
  EntryLen <- Lengths
  Chunks <- FiveChunks
  MaxArgs = 2
  MaxLen = 5
  Counts <- PopOf
  Indices <- RangeOf
  HeaderSize = 6
  Estimated = 16
  MaxListpackBytes = 31
  Numerals <- Numbers
  MaxSadd = 2
  Items <- Words3
  Hash1 <- FirstHash
  Hash2 <- SecondHash
  Shapes <- Filters
  Places <- Map
  Pins <- PinSet
  Unit <- Degree
  MaxGeoadd = 2
  MaxListed = 3
SPECIFICATION Spec
VIEW StateOnly
CHECK_DEADLOCK FALSE
INVARIANTS ListWellFormed SkiplistWellFormed RangeIsExact SetIsExact AddedIsFound
PROPERTY ListImplementsDeque
