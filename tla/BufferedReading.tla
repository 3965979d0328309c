-------------------------- MODULE BufferedReading --------------------------
(***************************************************************************)
(* One client of a MulleObjCBufferedInputStream: it opens a text and calls *)
(* the accessors in any order the code allows.  Whatever the size of the   *)
(* portions, it must see a MarkedText.                                     *)
(***************************************************************************)
EXTENDS BufferedInputStream

VARIABLES stream, answer

readingVars == <<stream, answer>>

Silent == [letter |-> EOF, letters |-> <<>>]
Character(c) == [Silent EXCEPT !.letter = c]
Bytes(b) == [Silent EXCEPT !.letters = b]

\* A stream over no bytes stands for nil: -init answers nil for it.
ReadingInit ==
  /\ stream \in {OpenStream(<<>>, size) : size \in PortionSizes}
  /\ answer = Silent

InitWithData(text, size) ==
  /\ stream' = OpenStream(text, size)
  /\ answer' = Silent

NextCharacter ==
  /\ ~Ended(stream)   \* assert( self->_current)
  /\ stream' = Advance(stream)
  /\ answer' = Character(CurrentCharacter(Advance(stream)))

ConsumeCurrentCharacter ==
  /\ stream' = IF Ended(stream) THEN stream ELSE Advance(stream)
  /\ answer' = Character(CurrentCharacter(stream))

\* The only caller of an offset has the quote under the cursor.
BookmarkAtOffset(offset) ==
  /\ offset = 1 => ~Ended(stream)
  /\ stream' = WithBookmark(stream, offset)
  /\ answer' = Silent

ClearBookmark ==
  /\ stream' = WithoutBookmark(stream)
  /\ answer' = Silent

\* MulleObjCBufferedInputStreamBookmarkedRegion and -extractBookmarkedData
\* answer the same bytes; both subtract the bookmark from the cursor, so a
\* bookmark behind the cursor must have been passed.
ExtractBookmarked ==
  /\ Mark(stream) <= Position(stream)
  /\ stream' = WithoutBookmark(stream)
  /\ answer' = Bytes(Region(stream))

Access ==
  \/ NextCharacter
  \/ ConsumeCurrentCharacter
  \/ \E offset \in {0, 1}: BookmarkAtOffset(offset)
  \/ ClearBookmark
  \/ ExtractBookmarked

ReadingNext ==
  \/ \E text \in Texts, size \in PortionSizes: InitWithData(text, size)
  \/ Access

ReadingSpec == ReadingInit /\ [][ReadingNext]_readingVars
-----------------------------------------------------------------------------
ReadingInv ==
  /\ stream \in BufferedStream
  /\ PortionCoherent(stream)
  /\ BookmarkCoherent(stream)

Abstract == INSTANCE MarkedText
  WITH Letters <- Byte, EndOfText <- EOF, Unmarked <- NoBookmark,
       text <- stream.source, pos <- Position(stream),
       mark <- Mark(stream)

\* A client sees the text, whatever the portions it is read in: every byte
\* once and in order, and for a bookmark exactly the bytes between it and
\* the cursor, even if the buffer was replaced in between.
ReadsTheText == Abstract!Spec
=============================================================================
