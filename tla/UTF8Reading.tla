----------------------------- MODULE UTF8Reading -----------------------------
(***************************************************************************)
(* One client of a MulleObjCUTF8StreamReader: a parser, that opens a text  *)
(* and calls the accessors in any order that those of the property list    *)
(* reader do.                                                              *)
(* Whatever the size of the portions, it must see a CharacterText.         *)
(***************************************************************************)
EXTENDS UTF8StreamReader, FiniteSets

VARIABLES reader,
          region   \* what was extracted in the last step

clientVars == <<reader, region>>

\* None is open: a reader over no bytes stands for nil.
ClientInit ==
  /\ reader \in {ReaderOf(OpenStream(<<>>, size)) : size \in PortionSizes}
  /\ region = <<>>

\* -initWithBufferedInputStream: on a stream that nobody has read from.
InitReader(s) ==
  /\ reader' = ReaderOf(s)
  /\ region' = <<>>

NextUTF32Character ==
  /\ reader' = Next(reader)
  /\ region' = <<>>

\* No caller is at the end of a line: all have just seen what they consume.
ConsumeCurrentUTF32Character ==
  /\ reader.current # Code.newline
  /\ reader' = Consume(reader)
  /\ region' = <<>>

\* The only caller of an offset has the quote under the cursor.
BookmarkReader(offset) ==
  /\ offset = 1 => reader.current = Code.quote
  /\ reader' = Bookmark(reader, offset)
  /\ region' = <<>>

\* A bookmark behind the cursor must have been passed.
ExtractBookmarkedRegion ==
  /\ Mark(reader.stream) <= Position(reader.stream)
  /\ reader' = Extracted(reader)
  /\ region' = BookmarkedRegion(reader)

\* An assertion that fails ends the program.
AccessReader ==
  /\ ~reader.aborted
  /\ \/ NextUTF32Character
     \/ ConsumeCurrentUTF32Character
     \/ \E offset \in {0, 1}: BookmarkReader(offset)
     \/ ExtractBookmarkedRegion

ClientNext ==
  \/ \E text \in Texts, size \in PortionSizes:
       InitReader(OpenStream(text, size))
  \/ AccessReader

ClientSpec == ClientInit /\ [][ClientNext]_clientVars
-----------------------------------------------------------------------------
Source == reader.stream.source
Cursor == Position(reader.stream)

Characters == INSTANCE CharacterText
  WITH EndOfText <- EOF, Broken <- Replacement, Unmarked <- NoBookmark,
       text <- Source, pos <- Cursor, current <- reader.current,
       lineNr <- reader.lineNr, mark <- Mark(reader.stream),
       aborted <- reader.aborted

\* A client sees the characters of the text, their lines and the regions it
\* has marked, and runs into the end, as if there were no portions: so they
\* do not show in anything that a parser makes of a text.
ReadsTheCharacters == Characters!Spec

\* The bytes at which t has a line's end, among the first n.
LineEnds(t, n) == {i \in 1..n: t[i] = Code.newline}

\* No end of a line comes where a byte of a character is due, and no
\* character of several bytes is taken for one.
LinesAreWhole(t) ==
  /\ \A i \in 1..Len(t):
       \A k \in 1..Characters!Announced(t[i]) - 1:
         i + k <= Len(t) => t[i + k] # Code.newline
  /\ \A p \in 0..Len(t) - 1:
       Characters!CharacterAt(t, p) = Code.newline => t[p + 1] = Code.newline

\* The number that a message of the reader names is that of the line the
\* cursor is in, whichever of the two ways to move led there.
LineNumberIsTold ==
  LinesAreWhole(Source) =>
    reader.lineNr = 1 + Cardinality(LineEnds(Source, Cursor))

\* The last character of t lacks bytes.
IsCut(t) ==
  \E k \in 1..Len(t):
    /\ k < Characters!Announced(t[Len(t) - k + 1])
    /\ \A i \in Len(t) - k + 2..Len(t): t[i] \in Continuation

\* Who is behind the last byte is told so, unless the text is cut inside of
\* a character; so a client that looks before it moves never runs into the
\* assertion of the stream.
EndIsTold ==
  Ended(reader.stream) => reader.current = EOF \/ IsCut(Source)

\* "our stop and quote characters are ASCII...": where the reader tells of an
\* ASCII character, the text has that byte.
StopsAreBytes ==
  reader.current \in 0..127 => reader.current = CurrentCharacter(reader.stream)
=============================================================================
