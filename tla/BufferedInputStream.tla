------------------------ MODULE BufferedInputStream ------------------------
(***************************************************************************)
(* MulleObjCBufferedInputStream over a MulleObjCInMemoryInputStream, as a  *)
(* record and the functions of its inline accessors: the bytes of a source *)
(* are read in portions of "size" bytes, a cursor walks the portion, and a *)
(* bookmark remembers where a region starts, across a change of portions.  *)
(* The module is data only; BufferedReading gives it clients.              *)
(***************************************************************************)
EXTENDS Bytes, Sequences

CONSTANTS Nil,          \* the null pointer
          Texts,        \* the texts that may be opened
          PortionSizes  \* DefaultBufferSize, 0x1000 in the code

ASSUME NilAssumption == Nil \notin Seq(Byte)
ASSUME TextsAssumption == Texts \subseteq Seq(Byte)
ASSUME PortionSizesAssumption == PortionSizes \subseteq Nat \ {0}

\* What the accessors answer behind the last byte.
EOF == -1

\* _bookmark is (NSUInteger) -1 when there is none.
NoBookmark == -1

\* The ivars: the source and how far it was handed out belong to _stream,
\* "current" is the offset of _current in _data; _current is NULL when _data
\* is nil, here the empty sequence.
BufferedStream ==
  [source: Seq(Byte), handedOut: Nat, size: Nat \ {0},
   data: Seq(Byte), current: Nat,
   bookmark: Nat \cup {NoBookmark}, bookmarkData: Seq(Byte) \cup {Nil}]

\* -[MulleObjCInMemoryInputStream readDataOfLength:]: at most "size" bytes,
\* and nil when there is nothing left.
NextPortion(s) ==
  LET left == Len(s.source) - s.handedOut
      length == IF s.size < left THEN s.size ELSE left
  IN  SubSeq(s.source, s.handedOut + 1, s.handedOut + length)

\* Mistakes for the runs to find: only the portion that is given up is kept;
\* a portion after the first is kept from the bookmark's offset on.
KeptOnce(s) ==
  IF s.bookmark = NoBookmark THEN s.bookmarkData
  ELSE SubSeq(s.data, s.bookmark + 1, Len(s.data))
KeptFromOffset(s) ==
  IF s.bookmark = NoBookmark THEN s.bookmarkData
  ELSE IF s.bookmarkData = Nil
       THEN SubSeq(s.data, s.bookmark + 1, Len(s.data))
       ELSE s.bookmarkData \o SubSeq(s.data, s.bookmark + 1, Len(s.data))

\* What must be kept of a portion that is given up: all of it from the
\* bookmark on.
Kept(s) ==
  IF s.bookmark = NoBookmark THEN s.bookmarkData
  ELSE IF s.bookmarkData = Nil
       THEN SubSeq(s.data, s.bookmark + 1, Len(s.data))
       ELSE s.bookmarkData \o s.data

FillBuffer(s) ==
  [s EXCEPT !.bookmarkData = Kept(s),
            !.data = NextPortion(s),
            !.handedOut = @ + Len(NextPortion(s)),
            !.current = 0]

Ended(s) == s.data = <<>>

CurrentCharacter(s) == IF Ended(s) THEN EOF ELSE s.data[s.current + 1]

\* MulleObjCBufferedInputStreamNextCharacter; it asserts that the stream has
\* not ended.
Advance(s) ==
  LET moved == [s EXCEPT !.current = @ + 1]
  IN  IF moved.current = Len(s.data) THEN FillBuffer(moved) ELSE moved

\* A mistake for the runs to find: what was kept for an earlier bookmark
\* stays.
WithBookmarkOnly(s, offset) == [s EXCEPT !.bookmark = s.current + offset]

WithBookmark(s, offset) ==
  [s EXCEPT !.bookmark = s.current + offset, !.bookmarkData = Nil]

WithoutBookmark(s) ==
  [s EXCEPT !.bookmark = NoBookmark, !.bookmarkData = Nil]

\* The bytes from the bookmark up to the cursor, none without a bookmark.
Region(s) ==
  IF s.bookmark = NoBookmark THEN <<>>
  ELSE IF s.bookmarkData = Nil
       THEN SubSeq(s.data, s.bookmark + 1, s.current)
       ELSE s.bookmarkData \o SubSeq(s.data, 1, s.current)

\* -initWithInputStream: reads the first portion at once.
OpenStream(text, size) ==
  FillBuffer([source |-> text, handedOut |-> 0, size |-> size,
              data |-> <<>>, current |-> 0,
              bookmark |-> NoBookmark, bookmarkData |-> Nil])

\* Where the cursor, the portion and the bookmark are in the source.
PortionStart(s) == s.handedOut - Len(s.data)
Position(s) == PortionStart(s) + s.current
Mark(s) ==
  IF s.bookmark = NoBookmark THEN NoBookmark
  ELSE IF s.bookmarkData = Nil THEN PortionStart(s) + s.bookmark
       ELSE PortionStart(s) - Len(s.bookmarkData)
-----------------------------------------------------------------------------
\* The portion is the part of the source that was handed out last, and the
\* cursor is inside of it unless the source has ended.
PortionCoherent(s) ==
  /\ s.handedOut <= Len(s.source)
  /\ Len(s.data) <= s.handedOut
  /\ s.data = SubSeq(s.source, PortionStart(s) + 1, s.handedOut)
  /\ IF Ended(s) THEN s.handedOut = Len(s.source) /\ s.current = 0
     ELSE s.current < Len(s.data)

\* A bookmark is in the portion, or directly behind the cursor; or it is in
\* an earlier one and the bytes from there up to the portion were kept.
BookmarkCoherent(s) ==
  IF s.bookmark = NoBookmark THEN s.bookmarkData = Nil
  ELSE IF s.bookmarkData = Nil
       THEN s.bookmark <= IF Ended(s) THEN 0 ELSE s.current + 1
       ELSE /\ Len(s.bookmarkData) <= PortionStart(s)
            /\ s.bookmarkData =
                 SubSeq(s.source, PortionStart(s) - Len(s.bookmarkData) + 1,
                        PortionStart(s))
=============================================================================
