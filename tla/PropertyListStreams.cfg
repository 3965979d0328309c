SPECIFICATION Spec
CONSTANTS
  Nil = Nil
  Texts <- MCTexts
  PortionSizes = {1, 2, 5}
  Pieces <- MCPieces
  BufferSizes = {1, 3, 16}
  Values <- MCValues
  Styles <- MCStyles
  Formats <- MCFormats
  MaxWalked = 3
  MaxRead = 4
INVARIANTS
  ReadingInv
  NothingLost
  RoundTrip
  TornIsRefused
  PortionsDoNotShow
  AbortsAtAnOpenQuote
  LineNumberIsTold
  EndIsTold
PROPERTIES
  ReadsTheText
  ReadsTheCharacters
