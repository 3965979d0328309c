------------------------ MODULE BufferedStreamProofs ------------------------
(***************************************************************************)
(* For every text and every size of the portions: the buffer of a          *)
(* MulleObjCBufferedInputStream stays coherent with the text, and its      *)
(* client reads a MarkedText; a MulleObjCUTF8StreamReader on top of it     *)
(* reads a CharacterText, and tells the line and the end.  For all pieces  *)
(* and every size of its buffer: a MulleObjCBufferedOutputStream loses     *)
(* nothing.                                                                *)
(***************************************************************************)
EXTENDS BufferedReading, BufferedWriting, UTF8Reading, SequenceTheorems,
        FiniteSetTheorems, TLAPS

\* A part of a sequence of bytes is one, of the expected length.
LEMMA PartOf ==
  ASSUME NEW t \in Seq(Byte), NEW a \in Nat, NEW b \in Nat,
         a <= b, b <= Len(t)
  PROVE  /\ SubSeq(t, a + 1, b) \in Seq(Byte)
         /\ Len(SubSeq(t, a + 1, b)) = b - a
         /\ \A i \in 1..(b - a): SubSeq(t, a + 1, b)[i] = t[a + i]
<1>1. \A i \in (a + 1)..b: t[i] \in Byte
  BY ElementOfSeq, LenProperties
<1>2. /\ SubSeq(t, a + 1, b) \in Seq(Byte)
      /\ Len(SubSeq(t, a + 1, b)) = IF a + 1 <= b THEN b - (a + 1) + 1 ELSE 0
      /\ \A i \in 1..(b - (a + 1) + 1):
           SubSeq(t, a + 1, b)[i] = t[(a + 1) + i - 1]
  BY <1>1, SubSeqProperties
<1>3. \A i \in 1..(b - a): (a + 1) + i - 1 = a + i
  OBVIOUS
<1> QED BY <1>2, <1>3

\* Two adjacent parts make one.
LEMMA Adjacent ==
  ASSUME NEW t \in Seq(Byte), NEW a \in Nat, NEW b \in Nat, NEW c \in Nat,
         a <= b, b <= c, c <= Len(t)
  PROVE  SubSeq(t, a + 1, b) \o SubSeq(t, b + 1, c) = SubSeq(t, a + 1, c)
<1>1. Len(t) \in Nat
  BY LenProperties
<1>2. /\ a + 1 \in 1..Len(t) + 1
      /\ b \in (a + 1) - 1..Len(t)
      /\ c \in b..Len(t)
  BY <1>1
<1> QED BY <1>2, ConcatAdjacentSubSeq

\* A part of a part.
LEMMA PartOfPart ==
  ASSUME NEW t \in Seq(Byte), NEW a \in Nat, NEW b \in Nat,
         a <= b, b <= Len(t), NEW i \in Nat, NEW j \in Nat,
         i <= j, j <= b - a
  PROVE  SubSeq(SubSeq(t, a + 1, b), i + 1, j) = SubSeq(t, a + i + 1, a + j)
<1> DEFINE p == SubSeq(t, a + 1, b)
<1>1. /\ p \in Seq(Byte)
      /\ Len(p) = b - a
      /\ \A k \in 1..(b - a): p[k] = t[a + k]
  BY PartOf
<1> DEFINE l == SubSeq(p, i + 1, j)
           r == SubSeq(t, a + i + 1, a + j)
<1>2. /\ l \in Seq(Byte)
      /\ Len(l) = j - i
      /\ \A k \in 1..(j - i): l[k] = p[i + k]
  <2> HIDE DEF p
  <2> QED BY <1>1, PartOf
<1>3. /\ r \in Seq(Byte)
      /\ Len(r) = j - i
      /\ \A k \in 1..(j - i): r[k] = t[(a + i) + k]
  <2>1. /\ a + i \in Nat /\ a + j \in Nat
        /\ a + i <= a + j /\ a + j <= Len(t)
        /\ (a + j) - (a + i) = j - i
    BY LenProperties
  <2> QED BY <2>1, PartOf
<1>4. \A k \in 1..(j - i): l[k] = r[k]
  <2> TAKE k \in 1..(j - i)
  <2>1. i + k \in 1..(b - a) /\ a + (i + k) = (a + i) + k
    OBVIOUS
  <2>2. p[i + k] = t[a + (i + k)]
    BY <1>1, <2>1
  <2> QED BY <1>2, <1>3, <2>1, <2>2
<1> HIDE DEF l, r
<1>5. l = r
  BY <1>2, <1>3, <1>4, SeqEqual
<1> QED BY <1>5 DEF l, r

-----------------------------------------------------------------------------
\* The fields of a stream.
LEMMA Fields ==
  ASSUME NEW s \in BufferedStream
  PROVE  /\ s.source \in Seq(Byte) /\ s.handedOut \in Nat
         /\ s.size \in Nat /\ s.size > 0
         /\ s.data \in Seq(Byte) /\ s.current \in Nat
         /\ s.bookmark \in Nat \cup {NoBookmark}
         /\ s.bookmarkData \in Seq(Byte) \cup {Nil}
         /\ Len(s.source) \in Nat /\ Len(s.data) \in Nat
         /\ (s.bookmarkData # Nil => Len(s.bookmarkData) \in Nat)
<1>1. /\ s.source \in Seq(Byte) /\ s.data \in Seq(Byte)
      /\ s.bookmarkData \in Seq(Byte) \cup {Nil}
      /\ s.handedOut \in Nat /\ s.size \in Nat \ {0} /\ s.current \in Nat
      /\ s.bookmark \in Nat \cup {NoBookmark}
  BY DEF BufferedStream
<1>2. Len(s.source) \in Nat /\ Len(s.data) \in Nat
  BY <1>1, LenProperties
<1>3. s.bookmarkData # Nil => Len(s.bookmarkData) \in Nat
  BY <1>1, LenProperties
<1> QED BY <1>1, <1>2, <1>3

\* The next portion is the part of the source behind what was handed out,
\* and it is empty only at the end of the source.
LEMMA Portion ==
  ASSUME NEW s \in BufferedStream, s.handedOut <= Len(s.source),
         NEW b, b = s.handedOut + Len(NextPortion(s))
  PROVE  /\ NextPortion(s) \in Seq(Byte)
         /\ Len(NextPortion(s)) \in Nat
         /\ b \in Nat /\ s.handedOut <= b /\ b <= Len(s.source)
         /\ NextPortion(s) = SubSeq(s.source, s.handedOut + 1, b)
         /\ Len(NextPortion(s)) = 0 => b = Len(s.source)
<1> DEFINE h == s.handedOut
           n == Len(s.source)
           k == IF s.size < n - h THEN s.size ELSE n - h
<1>1. /\ h \in Nat /\ n \in Nat /\ s.size \in Nat /\ s.size > 0 /\ h <= n
      /\ s.source \in Seq(Byte)
  BY Fields
<1>2. k \in Nat /\ h + k \in Nat /\ h <= h + k /\ h + k <= n
      /\ (k = 0 => h + k = n) /\ (h + k) - h = k
  BY <1>1
<1>3. NextPortion(s) = SubSeq(s.source, h + 1, h + k)
  BY DEF NextPortion
<1> HIDE DEF k
<1>4. /\ NextPortion(s) \in Seq(Byte)
      /\ Len(NextPortion(s)) = k
  BY <1>1, <1>2, <1>3, PartOf, ZenonT(60)
<1> QED BY <1>1, <1>2, <1>3, <1>4

LEMMA FillFields ==
  ASSUME NEW s \in BufferedStream
  PROVE  LET f == FillBuffer(s)
         IN  /\ f.source = s.source /\ f.size = s.size
             /\ f.data = NextPortion(s)
             /\ f.handedOut = s.handedOut + Len(NextPortion(s))
             /\ f.current = 0
             /\ f.bookmark = s.bookmark
             /\ f.bookmarkData = Kept(s)
BY DEF FillBuffer, BufferedStream

LEMMA StreamRecord ==
  ASSUME NEW s \in BufferedStream, NEW h \in Nat, NEW d \in Seq(Byte),
         NEW c \in Nat, NEW b \in Nat \cup {NoBookmark},
         NEW bd \in Seq(Byte) \cup {Nil}
  PROVE  /\ [s EXCEPT !.bookmarkData = bd, !.data = d, !.handedOut = h,
                      !.current = c] \in BufferedStream
         /\ [s EXCEPT !.current = c] \in BufferedStream
         /\ [s EXCEPT !.bookmark = b, !.bookmarkData = bd] \in BufferedStream
BY DEF BufferedStream

\* A stream whose cursor has reached the end of its portion.
Exhausted(s) ==
  /\ s \in BufferedStream
  /\ s.handedOut <= Len(s.source)
  /\ Len(s.data) <= s.handedOut
  /\ s.data = SubSeq(s.source, PortionStart(s) + 1, s.handedOut)
  /\ s.current = Len(s.data)
  /\ IF s.bookmark = NoBookmark THEN s.bookmarkData = Nil
     ELSE IF s.bookmarkData = Nil THEN s.bookmark <= Len(s.data)
          ELSE /\ Len(s.bookmarkData) <= PortionStart(s)
               /\ s.bookmarkData =
                    SubSeq(s.source,
                           PortionStart(s) - Len(s.bookmarkData) + 1,
                           PortionStart(s))

\* What FillBuffer keeps for a bookmark is what lies between it and the new
\* portion.
LEMMA KeptIsPart ==
  ASSUME NEW s, Exhausted(s), s.bookmark # NoBookmark
  PROVE  /\ Kept(s) \in Seq(Byte)
         /\ Len(Kept(s)) <= s.handedOut
         /\ Kept(s) = SubSeq(s.source, s.handedOut - Len(Kept(s)) + 1,
                             s.handedOut)
         /\ s.handedOut - Len(Kept(s)) = Mark(s)
<1> DEFINE t == s.source
           h == s.handedOut
           d == Len(s.data)
           a == h - d
           m == s.bookmark
           l == Len(s.bookmarkData)
<1>1. /\ t \in Seq(Byte) /\ h \in Nat /\ d \in Nat /\ h <= Len(t) /\ d <= h
      /\ m \in Nat
      /\ s.bookmarkData \in Seq(Byte) \cup {Nil}
      /\ PortionStart(s) = a
      /\ s.data = SubSeq(t, a + 1, h)
  BY Fields DEF Exhausted, PortionStart
<1>2. a \in Nat /\ a <= h /\ h - a = d /\ a + d = h
  <2> HIDE DEF h, d
  <2> QED BY <1>1
<1>3. CASE s.bookmarkData = Nil
  <2>1. m <= d
    BY <1>1, <1>3 DEF Exhausted
  <2>2. Kept(s) = SubSeq(SubSeq(t, a + 1, h), m + 1, d)
    BY <1>1, <1>3 DEF Kept
  <2>3. Mark(s) = a + m
    BY <1>1, <1>3 DEF Mark
  <2> HIDE DEF t, h, a, d, m, l
  <2>4. SubSeq(SubSeq(t, a + 1, h), m + 1, d) = SubSeq(t, a + m + 1, a + d)
    BY <1>1, <1>2, <2>1, PartOfPart
  <2>5. /\ a + m \in Nat /\ a + m <= h
        /\ h - (h - (a + m)) = a + m /\ h - (a + m) <= h
    BY <1>1, <1>2, <2>1
  <2>6. Kept(s) = SubSeq(t, (a + m) + 1, h)
    BY <1>2, <2>2, <2>4, <2>5
  <2>7. Kept(s) \in Seq(Byte) /\ Len(Kept(s)) = h - (a + m)
    BY <1>1, <2>5, <2>6, PartOf
  <2>8. /\ Len(Kept(s)) <= h
        /\ h - Len(Kept(s)) = a + m
    BY <2>5, <2>7
  <2> QED BY <2>3, <2>6, <2>7, <2>8 DEF h, t
<1>4. CASE s.bookmarkData # Nil
  <2>1. l \in Nat /\ l <= a
        /\ s.bookmarkData = SubSeq(t, a - l + 1, a)
    BY <1>1, <1>4, LenProperties DEF Exhausted
  <2>2. Kept(s) = s.bookmarkData \o SubSeq(t, a + 1, h)
    BY <1>1, <1>4 DEF Kept
  <2>3. Mark(s) = a - l
    BY <1>1, <1>4 DEF Mark
  <2> HIDE DEF t, h, a, d, m, l
  <2>9. h \in Nat /\ a \in Nat /\ l \in Nat /\ a <= h /\ l <= a
    BY <1>1, <1>2, <2>1
  <2>4. /\ a - l \in Nat /\ a - l <= a /\ a - l <= h
        /\ h - (h - (a - l)) = a - l /\ h - (a - l) <= h
    BY ONLY <2>9
  <2>5. SubSeq(t, (a - l) + 1, a) \o SubSeq(t, a + 1, h)
          = SubSeq(t, (a - l) + 1, h)
    <3> DEFINE x == a - l
    <3>1. /\ x \in Nat /\ x <= a /\ a <= h /\ a \in Nat /\ h \in Nat
          /\ t \in Seq(Byte) /\ h <= Len(t)
      BY <1>1, <2>4, <2>9
    <3> HIDE DEF x
    <3>2. SubSeq(t, x + 1, a) \o SubSeq(t, a + 1, h) = SubSeq(t, x + 1, h)
      BY <3>1, Adjacent
    <3> QED BY <3>2 DEF x
  <2>6. Kept(s) = SubSeq(t, (a - l) + 1, h)
    BY <2>1, <2>2, <2>5
  <2>7. Kept(s) \in Seq(Byte) /\ Len(Kept(s)) = h - (a - l)
    BY <1>1, <2>4, <2>6, PartOf
  <2>8. /\ Len(Kept(s)) <= h
        /\ h - Len(Kept(s)) = a - l
    BY <2>4, <2>7
  <2> QED BY <2>3, <2>6, <2>7, <2>8 DEF h, t
<1> QED BY <1>3, <1>4

Coherent(s) ==
  /\ s \in BufferedStream
  /\ PortionCoherent(s)
  /\ BookmarkCoherent(s)

\* Refilling the buffer at its end keeps the stream coherent, the cursor
\* where it was and the bookmark where it was.
LEMMA FillKeeps ==
  ASSUME NEW s, Exhausted(s)
  PROVE  /\ Coherent(FillBuffer(s))
         /\ FillBuffer(s).source = s.source
         /\ Position(FillBuffer(s)) = Position(s)
         /\ Mark(FillBuffer(s)) = Mark(s)
<1> DEFINE f == FillBuffer(s)
           h == s.handedOut
           b == h + Len(NextPortion(s))
<1>1. s \in BufferedStream /\ h <= Len(s.source) /\ h \in Nat
      /\ Len(s.data) \in Nat /\ s.current = Len(s.data)
  BY Fields DEF Exhausted
<1>2. /\ NextPortion(s) \in Seq(Byte)
      /\ Len(NextPortion(s)) \in Nat
      /\ b \in Nat /\ h <= b /\ b <= Len(s.source)
      /\ NextPortion(s) = SubSeq(s.source, h + 1, b)
      /\ Len(NextPortion(s)) = 0 => b = Len(s.source)
  BY <1>1, Portion
<1>3. Kept(s) \in Seq(Byte) \cup {Nil}
  <2>1. CASE s.bookmark = NoBookmark
    BY <2>1 DEF Exhausted, Kept
  <2>2. CASE s.bookmark # NoBookmark
    BY <2>2, KeptIsPart
  <2> QED BY <2>1, <2>2
<1>4. f \in BufferedStream
  BY <1>1, <1>2, <1>3, StreamRecord DEF FillBuffer
<1>5. /\ f.source = s.source
      /\ f.data = NextPortion(s)
      /\ f.handedOut = b
      /\ f.current = 0
      /\ f.bookmark = s.bookmark
      /\ f.bookmarkData = Kept(s)
  BY <1>1, FillFields
<1> HIDE DEF f
<1>6. PortionStart(f) = h
  <2>1. PortionStart(f) = (h + Len(NextPortion(s))) - Len(NextPortion(s))
    BY <1>5 DEF PortionStart
  <2> QED BY <1>1, <1>2, <2>1
<1>7. PortionCoherent(f)
  <2>1. Len(f.data) <= f.handedOut
    BY <1>1, <1>2, <1>5
  <2>2. f.data = SubSeq(f.source, PortionStart(f) + 1, f.handedOut)
    BY <1>2, <1>5, <1>6
  <2>3. Ended(f) => f.handedOut = Len(f.source) /\ f.current = 0
    BY <1>2, <1>5, EmptySeq DEF Ended
  <2>4. ~Ended(f) => f.current < Len(f.data)
    BY <1>2, <1>5, EmptySeq DEF Ended
  <2>5. f.handedOut <= Len(f.source)
    BY <1>2, <1>5
  <2> QED BY <2>1, <2>2, <2>3, <2>4, <2>5 DEF PortionCoherent
<1>8. BookmarkCoherent(f) /\ Mark(f) = Mark(s)
  <2>1. CASE s.bookmark = NoBookmark
    BY <2>1, <1>5 DEF BookmarkCoherent, Mark, Kept, Exhausted
  <2>2. CASE s.bookmark # NoBookmark
    <3>1. /\ Kept(s) \in Seq(Byte)
          /\ Len(Kept(s)) <= h
          /\ Kept(s) = SubSeq(s.source, h - Len(Kept(s)) + 1, h)
          /\ h - Len(Kept(s)) = Mark(s)
      BY <2>2, KeptIsPart
    <3>2. Kept(s) # Nil
      BY <3>1, NilAssumption
    <3>3. BookmarkCoherent(f)
      BY <2>2, <1>5, <1>6, <3>1, <3>2 DEF BookmarkCoherent
    <3>4. Mark(f) = h - Len(Kept(s))
      BY <2>2, <1>5, <1>6, <3>2 DEF Mark
    <3> QED BY <3>1, <3>3, <3>4
  <2> QED BY <2>1, <2>2
<1>9. Position(f) = Position(s)
  <2>1. Position(f) = h + 0
    BY <1>5, <1>6 DEF Position
  <2>2. Position(s) = (h - Len(s.data)) + Len(s.data)
    BY <1>1 DEF Position, PortionStart
  <2> QED BY <1>1, <2>1, <2>2
<1> QED BY <1>4, <1>5, <1>7, <1>8, <1>9 DEF Coherent, f

\* MulleObjCBufferedInputStreamNextCharacter moves the cursor by one byte.
LEMMA AdvanceKeeps ==
  ASSUME NEW s, Coherent(s), ~Ended(s)
  PROVE  /\ Coherent(Advance(s))
         /\ Advance(s).source = s.source
         /\ Position(Advance(s)) = Position(s) + 1
         /\ Mark(Advance(s)) = Mark(s)
         /\ Position(s) < Len(s.source)
<1> DEFINE m == [s EXCEPT !.current = @ + 1]
<1>1. /\ s \in BufferedStream
      /\ s.handedOut <= Len(s.source)
      /\ Len(s.data) <= s.handedOut
      /\ s.data = SubSeq(s.source, PortionStart(s) + 1, s.handedOut)
      /\ s.current < Len(s.data)
  BY DEF Coherent, PortionCoherent
<1>2. /\ s.current \in Nat /\ Len(s.data) \in Nat /\ s.handedOut \in Nat
      /\ s.bookmark \in Nat \cup {NoBookmark}
      /\ Len(s.source) \in Nat
  BY <1>1, Fields
<1>3. s.current + 1 \in Nat /\ s.current + 1 <= Len(s.data)
  <2>1. s.current \in Nat /\ Len(s.data) \in Nat /\ s.current < Len(s.data)
    BY <1>1, <1>2
  <2> QED BY ONLY <2>1
<1>4. m \in BufferedStream
  <2>1. [s EXCEPT !.current = s.current + 1] \in BufferedStream
    BY <1>1, <1>3 DEF BufferedStream
  <2> QED BY <2>1
<1>5. /\ m.source = s.source /\ m.handedOut = s.handedOut
      /\ m.data = s.data /\ m.current = s.current + 1
      /\ m.bookmark = s.bookmark /\ m.bookmarkData = s.bookmarkData
  BY <1>1 DEF BufferedStream
<1>6. Advance(s) = IF m.current = Len(s.data) THEN FillBuffer(m) ELSE m
  BY DEF Advance
<1> HIDE DEF m
<1>7. PortionStart(m) = PortionStart(s) /\ Mark(m) = Mark(s)
  BY <1>5 DEF PortionStart, Mark
<1>8. Position(m) = Position(s) + 1
  <2>1. Position(m) = (s.handedOut - Len(s.data)) + (s.current + 1)
    BY <1>5 DEF Position, PortionStart
  <2>2. Position(s) = (s.handedOut - Len(s.data)) + s.current
    BY DEF Position, PortionStart
  <2> QED BY <1>2, <2>1, <2>2, SMTT(30)
<1>9. Position(s) < Len(s.source)
  BY <1>1, <1>2 DEF Position, PortionStart
<1>10. s.bookmark # NoBookmark /\ s.bookmarkData = Nil
         => s.bookmark <= s.current + 1
  BY DEF Coherent, BookmarkCoherent
<1>11. CASE m.current = Len(s.data)
  <2>1. Exhausted(m)
    <3>1. IF m.bookmark = NoBookmark THEN m.bookmarkData = Nil
          ELSE IF m.bookmarkData = Nil THEN m.bookmark <= Len(m.data)
          ELSE /\ Len(m.bookmarkData) <= PortionStart(m)
               /\ m.bookmarkData =
                    SubSeq(m.source,
                           PortionStart(m) - Len(m.bookmarkData) + 1,
                           PortionStart(m))
      <4>1. CASE s.bookmark = NoBookmark
        BY <4>1, <1>5 DEF Coherent, BookmarkCoherent
      <4>2. CASE s.bookmark # NoBookmark /\ s.bookmarkData = Nil
        BY <4>2, <1>5, <1>10, <1>11
      <4>3. CASE s.bookmark # NoBookmark /\ s.bookmarkData # Nil
        <5>1. /\ Len(s.bookmarkData) <= PortionStart(s)
              /\ s.bookmarkData =
                    SubSeq(s.source,
                           PortionStart(s) - Len(s.bookmarkData) + 1,
                           PortionStart(s))
          BY <4>3 DEF Coherent, BookmarkCoherent
        <5> QED BY <4>3, <5>1, <1>5, <1>7
      <4> QED BY <4>1, <4>2, <4>3
    <3>2. m.data = SubSeq(m.source, PortionStart(m) + 1, m.handedOut)
      BY <1>1, <1>5, <1>7
    <3> QED BY <1>1, <1>4, <1>5, <1>11, <3>1, <3>2 DEF Exhausted
  <2> QED BY <1>5, <1>6, <1>7, <1>8, <1>9, <1>11, <2>1, FillKeeps
<1>12. CASE m.current # Len(s.data)
  <2>1. Advance(s) = m
    BY <1>6, <1>12
  <2>2. m.current < Len(m.data)
    BY <1>2, <1>3, <1>5, <1>12
  <2>3. ~Ended(m)
    BY <1>5 DEF Ended
  <2>4. m.data = SubSeq(m.source, PortionStart(m) + 1, m.handedOut)
    BY <1>1, <1>5, <1>7
  <2>5. PortionCoherent(m)
    BY <1>1, <1>5, <2>2, <2>3, <2>4 DEF PortionCoherent
  <2>6. BookmarkCoherent(m)
    <3>1. CASE s.bookmark = NoBookmark
      BY <3>1, <1>5 DEF Coherent, BookmarkCoherent
    <3>2. CASE s.bookmark # NoBookmark /\ s.bookmarkData = Nil
      <4>1. s.bookmark \in Nat
        BY <3>2, <1>2
      <4>2. s.bookmark <= (s.current + 1) + 1
        BY <3>2, <4>1, <1>2, <1>10
      <4> QED BY <3>2, <4>2, <1>5, <2>3 DEF BookmarkCoherent
    <3>3. CASE s.bookmark # NoBookmark /\ s.bookmarkData # Nil
      <4>1. /\ Len(s.bookmarkData) <= PortionStart(s)
            /\ s.bookmarkData =
                  SubSeq(s.source,
                         PortionStart(s) - Len(s.bookmarkData) + 1,
                         PortionStart(s))
        BY <3>3 DEF Coherent, BookmarkCoherent
      <4> QED BY <3>3, <4>1, <1>5, <1>7 DEF BookmarkCoherent
    <3> QED BY <3>1, <3>2, <3>3
  <2> QED BY <1>4, <1>5, <1>7, <1>8, <1>9, <2>1, <2>5, <2>6 DEF Coherent
<1> QED BY <1>11, <1>12

\* The character under the cursor is the one at its position in the text.
LEMMA CharacterOfText ==
  ASSUME NEW s, Coherent(s)
  PROVE  /\ CurrentCharacter(s) = IF Position(s) < Len(s.source)
                                  THEN s.source[Position(s) + 1] ELSE EOF
         /\ Position(s) \in Nat
         /\ Position(s) <= Len(s.source)
         /\ Ended(s) <=> ~(Position(s) < Len(s.source))
<1> DEFINE t == s.source
           h == s.handedOut
           d == Len(s.data)
           a == h - d
           c == s.current
<1>1. /\ t \in Seq(Byte) /\ h \in Nat /\ d \in Nat /\ h <= Len(t) /\ d <= h
      /\ c \in Nat /\ Len(t) \in Nat
      /\ PortionStart(s) = a /\ Position(s) = a + c
      /\ s.data = SubSeq(t, a + 1, h)
  BY Fields DEF Coherent, PortionCoherent, PortionStart, Position
<1>2. a \in Nat /\ a <= h /\ h - a = d /\ a + d = h /\ a + c \in Nat
  <2> HIDE DEF h, d, c
  <2> QED BY <1>1
<1>3. CASE Ended(s)
  <2>1. h = Len(t) /\ c = 0 /\ d = 0
    BY <1>3, EmptySeq DEF Coherent, PortionCoherent, Ended
  <2>2. CurrentCharacter(s) = EOF
    BY <1>3 DEF CurrentCharacter
  <2> HIDE DEF t, h, a, d, c
  <2>3. a + c = Len(t)
    BY <1>1, <1>2, <2>1
  <2> QED BY <1>1, <1>2, <1>3, <2>2, <2>3 DEF t
<1>4. CASE ~Ended(s)
  <2>1. c < d
    BY <1>4 DEF Coherent, PortionCoherent
  <2>2. CurrentCharacter(s) = s.data[c + 1]
    BY <1>4 DEF CurrentCharacter
  <2> HIDE DEF t, h, a, d, c
  <2>3. c + 1 \in 1..(h - a) /\ a + c < Len(t) /\ a + (c + 1) = (a + c) + 1
    BY <1>1, <1>2, <2>1
  <2>4. s.data[c + 1] = t[a + (c + 1)]
    BY <1>1, <1>2, <2>3, PartOf
  <2>5. a + c <= Len(t)
    BY <1>1, <1>2, <2>3
  <2> QED BY <1>1, <1>2, <1>4, <2>2, <2>3, <2>4, <2>5 DEF t
<1> QED BY <1>3, <1>4

\* The region of a bookmark is the text from the bookmark to the cursor.
LEMMA RegionOfText ==
  ASSUME NEW s, Coherent(s), s.bookmark # NoBookmark,
         Mark(s) <= Position(s)
  PROVE  Region(s) = SubSeq(s.source, Mark(s) + 1, Position(s))
<1> DEFINE t == s.source
           h == s.handedOut
           d == Len(s.data)
           a == h - d
           c == s.current
           m == s.bookmark
           l == Len(s.bookmarkData)
<1>1. /\ t \in Seq(Byte) /\ h \in Nat /\ d \in Nat /\ h <= Len(t) /\ d <= h
      /\ c \in Nat /\ Len(t) \in Nat /\ m \in Nat
      /\ s.bookmarkData \in Seq(Byte) \cup {Nil}
      /\ PortionStart(s) = a /\ Position(s) = a + c
      /\ s.data = SubSeq(t, a + 1, h)
  BY Fields DEF Coherent, PortionCoherent, PortionStart, Position
<1>2. c <= d
  <2>1. CASE Ended(s)
    <3>1. c = 0
      BY <2>1 DEF Coherent, PortionCoherent
    <3>2. d \in Nat
      BY <1>1
    <3> HIDE DEF c, d
    <3> QED BY ONLY <3>1, <3>2
  <2>2. CASE ~Ended(s)
    <3>1. c < d
      BY <2>2 DEF Coherent, PortionCoherent
    <3>2. c \in Nat /\ d \in Nat
      BY <1>1
    <3> HIDE DEF c, d
    <3> QED BY ONLY <3>1, <3>2
  <2> QED BY <2>1, <2>2
<1>3. /\ a \in Nat /\ a <= h /\ h - a = d /\ a + d = h
      /\ a + c \in Nat /\ a <= a + c /\ a + c <= h /\ a + c <= Len(t)
  <2> HIDE DEF h, d, c
  <2> QED BY <1>1, <1>2
<1>4. CASE s.bookmarkData = Nil
  <2>1. Mark(s) = a + m /\ Region(s) = SubSeq(s.data, m + 1, c)
    BY <1>1, <1>4 DEF Mark, Region
  <2> HIDE DEF t, h, a, d, c, m, l
  <2>2. m <= c /\ c <= h - a
    BY <1>1, <1>2, <1>3, <2>1
  <2>3. SubSeq(SubSeq(t, a + 1, h), m + 1, c) = SubSeq(t, a + m + 1, a + c)
    BY <1>1, <1>3, <2>2, PartOfPart
  <2> QED BY <1>1, <2>1, <2>3 DEF t
<1>5. CASE s.bookmarkData # Nil
  <2>1. l \in Nat /\ l <= a
        /\ s.bookmarkData = SubSeq(t, a - l + 1, a)
    BY <1>1, <1>5, LenProperties DEF Coherent, BookmarkCoherent
  <2>2. Mark(s) = a - l /\ Region(s) = s.bookmarkData \o SubSeq(s.data, 1, c)
    BY <1>1, <1>5 DEF Mark, Region
  <2> HIDE DEF t, h, a, d, c, m, l
  <2>3. SubSeq(s.data, 1, c) = SubSeq(t, a + 1, a + c)
    <3>1. 0 <= c /\ c <= h - a
      BY <1>1, <1>2, <1>3
    <3>2. SubSeq(SubSeq(t, a + 1, h), 0 + 1, c)
            = SubSeq(t, a + 0 + 1, a + c)
      BY <1>1, <1>3, <3>1, PartOfPart
    <3>3. 0 + 1 = 1 /\ a + 0 + 1 = a + 1
      BY <1>3
    <3> QED BY <1>1, <3>2, <3>3
  <2>4. a - l \in Nat /\ a - l <= a
    BY <1>3, <2>1
  <2>5. SubSeq(t, (a - l) + 1, a) \o SubSeq(t, a + 1, a + c)
          = SubSeq(t, (a - l) + 1, a + c)
    <3> DEFINE x == a - l
               y == a + c
    <3>1. /\ x \in Nat /\ x <= a /\ a <= y /\ a \in Nat /\ y \in Nat
          /\ t \in Seq(Byte) /\ y <= Len(t)
      BY <1>1, <1>3, <2>4
    <3> HIDE DEF x, y
    <3>2. SubSeq(t, x + 1, a) \o SubSeq(t, a + 1, y) = SubSeq(t, x + 1, y)
      BY <3>1, Adjacent
    <3> QED BY <3>2 DEF x, y
  <2> QED BY <1>1, <2>1, <2>2, <2>3, <2>5 DEF t
<1> QED BY <1>4, <1>5

\* A fresh stream is coherent and at the start of its text.
LEMMA OpenKeeps ==
  ASSUME NEW text \in Seq(Byte), NEW size \in Nat \ {0}
  PROVE  /\ Coherent(OpenStream(text, size))
         /\ OpenStream(text, size).source = text
         /\ Position(OpenStream(text, size)) = 0
         /\ Mark(OpenStream(text, size)) = NoBookmark
<1> DEFINE r == [source |-> text, handedOut |-> 0, size |-> size,
                 data |-> <<>>, current |-> 0,
                 bookmark |-> NoBookmark, bookmarkData |-> Nil]
<1>1. <<>> \in Seq(Byte) /\ Len(<<>>) = 0 /\ Len(text) \in Nat
  BY EmptySeq, LenProperties
<1>2. r \in BufferedStream
  BY <1>1 DEF BufferedStream
<1>3. PortionStart(r) = 0 /\ Position(r) = 0 /\ Mark(r) = NoBookmark
  BY <1>1 DEF PortionStart, Position, Mark
<1>4. SubSeq(text, 0 + 1, 0) = <<>>
  BY SubSeqEmpty
<1>5. Exhausted(r)
  BY <1>1, <1>2, <1>3, <1>4 DEF Exhausted
<1>6. OpenStream(text, size) = FillBuffer(r)
  BY DEF OpenStream
<1>7. r.source = text
  OBVIOUS
<1> HIDE DEF r
<1> QED BY <1>3, <1>5, <1>6, <1>7, FillKeeps

\* Setting and dropping the bookmark.
LEMMA BookmarkKeeps ==
  ASSUME NEW s, Coherent(s), NEW offset \in {0, 1}, offset = 1 => ~Ended(s)
  PROVE  /\ Coherent(WithBookmark(s, offset))
         /\ WithBookmark(s, offset).source = s.source
         /\ Position(WithBookmark(s, offset)) = Position(s)
         /\ Mark(WithBookmark(s, offset)) = Position(s) + offset
<1> DEFINE w == WithBookmark(s, offset)
<1>1. /\ s \in BufferedStream /\ s.current \in Nat
      /\ s.handedOut \in Nat /\ Len(s.data) \in Nat
  BY Fields DEF Coherent
<1>2. /\ s.current + offset \in Nat
      /\ s.current + offset <= IF Ended(s) THEN 0 ELSE s.current + 1
      /\ s.current + offset # NoBookmark
  <2>1. CASE Ended(s)
    <3>1. s.current = 0 /\ offset = 0
      BY <2>1 DEF Coherent, PortionCoherent
    <3> QED BY <2>1, <3>1 DEF NoBookmark
  <2>2. CASE ~Ended(s)
    BY <2>2, <1>1 DEF NoBookmark
  <2> QED BY <2>1, <2>2
<1>3. w \in BufferedStream
  <2>1. s.current + offset \in Nat \cup {NoBookmark}
        /\ Nil \in Seq(Byte) \cup {Nil}
    BY <1>2
  <2>2. [s EXCEPT !.bookmark = s.current + offset, !.bookmarkData = Nil]
          \in BufferedStream
    BY <1>1, <2>1 DEF BufferedStream
  <2> QED BY <2>2 DEF WithBookmark
<1>4. /\ w.source = s.source /\ w.handedOut = s.handedOut
      /\ w.data = s.data /\ w.current = s.current
      /\ w.bookmark = s.current + offset /\ w.bookmarkData = Nil
  BY <1>1 DEF WithBookmark, BufferedStream
<1> HIDE DEF w
<1>5. PortionStart(w) = PortionStart(s) /\ Position(w) = Position(s)
  BY <1>4 DEF PortionStart, Position
<1>6. PortionCoherent(w)
  BY <1>4, <1>5 DEF Coherent, PortionCoherent, Ended
<1>7. BookmarkCoherent(w)
  BY <1>2, <1>4 DEF BookmarkCoherent, Ended
<1>8. Mark(w) = Position(s) + offset
  <2>1. Mark(w) = PortionStart(s) + (s.current + offset)
    BY <1>2, <1>4, <1>5 DEF Mark
  <2>2. Position(s) = PortionStart(s) + s.current
    BY DEF Position
  <2>3. PortionStart(s) \in Int
    BY <1>1 DEF PortionStart
  <2> QED BY <1>1, <2>1, <2>2, <2>3
<1> QED BY <1>3, <1>4, <1>5, <1>6, <1>7, <1>8 DEF Coherent, w

LEMMA ClearKeeps ==
  ASSUME NEW s, Coherent(s)
  PROVE  /\ Coherent(WithoutBookmark(s))
         /\ WithoutBookmark(s).source = s.source
         /\ Position(WithoutBookmark(s)) = Position(s)
         /\ Mark(WithoutBookmark(s)) = NoBookmark
<1> DEFINE w == WithoutBookmark(s)
<1>1. s \in BufferedStream
  BY DEF Coherent
<1>2. w \in BufferedStream
  <2>1. NoBookmark \in Nat \cup {NoBookmark} /\ Nil \in Seq(Byte) \cup {Nil}
    OBVIOUS
  <2>2. [s EXCEPT !.bookmark = NoBookmark, !.bookmarkData = Nil]
          \in BufferedStream
    BY <1>1, <2>1 DEF BufferedStream
  <2> QED BY <2>2 DEF WithoutBookmark
<1>3. /\ w.source = s.source /\ w.handedOut = s.handedOut
      /\ w.data = s.data /\ w.current = s.current
      /\ w.bookmark = NoBookmark /\ w.bookmarkData = Nil
  BY <1>1 DEF WithoutBookmark, BufferedStream
<1> HIDE DEF w
<1>4. PortionStart(w) = PortionStart(s) /\ Position(w) = Position(s)
  BY <1>3 DEF PortionStart, Position
<1>5. PortionCoherent(w)
  BY <1>3, <1>4 DEF Coherent, PortionCoherent, Ended
<1> QED BY <1>2, <1>3, <1>4, <1>5 DEF Coherent, BookmarkCoherent, Mark, w

-----------------------------------------------------------------------------
LEMMA InitCoherent == ReadingInit => Coherent(stream)
<1> SUFFICES ASSUME ReadingInit PROVE Coherent(stream)
  OBVIOUS
<1>1. PICK size \in PortionSizes: stream = OpenStream(<<>>, size)
  BY DEF ReadingInit
<1>2. size \in Nat \ {0} /\ <<>> \in Seq(Byte)
  BY PortionSizesAssumption, EmptySeq
<1> QED BY <1>1, <1>2, OpenKeeps

LEMMA StepCoherent ==
  ASSUME Coherent(stream), [ReadingNext]_readingVars
  PROVE  Coherent(stream)'
<1>1. ASSUME NEW text \in Texts, NEW size \in PortionSizes,
             InitWithData(text, size)
      PROVE  Coherent(stream)'
  BY <1>1, TextsAssumption, PortionSizesAssumption, OpenKeeps
     DEF InitWithData
<1>2. CASE NextCharacter
  BY <1>2, AdvanceKeeps DEF NextCharacter
<1>3. CASE ConsumeCurrentCharacter
  BY <1>3, AdvanceKeeps DEF ConsumeCurrentCharacter
<1>4. ASSUME NEW offset \in {0, 1}, BookmarkAtOffset(offset)
      PROVE  Coherent(stream)'
  BY <1>4, BookmarkKeeps DEF BookmarkAtOffset
<1>5. CASE ClearBookmark
  BY <1>5, ClearKeeps DEF ClearBookmark
<1>6. CASE ExtractBookmarked
  BY <1>6, ClearKeeps DEF ExtractBookmarked
<1>7. CASE UNCHANGED readingVars
  BY <1>7 DEF readingVars
<1> QED BY <1>1, <1>2, <1>3, <1>4, <1>5, <1>6, <1>7 DEF ReadingNext, Access

\* The buffer holds the part of the text that was handed out last, and what
\* was kept for a bookmark is the text just before it.
THEOREM BufferIsCoherent == ReadingSpec => []ReadingInv
<1>1. Coherent(stream) => ReadingInv
  BY DEF Coherent, ReadingInv
<1> QED BY InitCoherent, StepCoherent, <1>1, PTL DEF ReadingSpec

\* A bookmark is at a position of the text.
LEMMA MarkIsPosition ==
  ASSUME NEW s, Coherent(s), s.bookmark # NoBookmark
  PROVE  Mark(s) \in Nat /\ Mark(s) # NoBookmark
<1>1. /\ s.handedOut \in Nat /\ Len(s.data) \in Nat /\ s.bookmark \in Nat
      /\ Len(s.data) <= s.handedOut
      /\ (s.bookmarkData # Nil => Len(s.bookmarkData) \in Nat)
  BY Fields DEF Coherent, PortionCoherent
<1>2. PortionStart(s) \in Nat
  BY <1>1 DEF PortionStart
<1>3. CASE s.bookmarkData = Nil
  <2>1. Mark(s) = PortionStart(s) + s.bookmark
    BY <1>3 DEF Mark
  <2> QED BY <1>1, <1>2, <2>1 DEF NoBookmark
<1>4. CASE s.bookmarkData # Nil
  <2>1. Mark(s) = PortionStart(s) - Len(s.bookmarkData)
    BY <1>4 DEF Mark
  <2>2. Len(s.bookmarkData) <= PortionStart(s)
    BY <1>4 DEF Coherent, BookmarkCoherent
  <2> QED BY <1>1, <1>2, <1>4, <2>1, <2>2 DEF NoBookmark
<1> QED BY <1>3, <1>4

LEMMA AbstractInit == ReadingInit => Abstract!Init
<1> SUFFICES ASSUME ReadingInit PROVE Abstract!Init
  OBVIOUS
<1>1. PICK size \in PortionSizes: stream = OpenStream(<<>>, size)
  BY DEF ReadingInit
<1>2. size \in Nat \ {0} /\ <<>> \in Seq(Byte)
  BY PortionSizesAssumption, EmptySeq
<1>3. /\ stream.source = <<>>
      /\ Position(stream) = 0
      /\ Mark(stream) = NoBookmark
  BY <1>1, <1>2, OpenKeeps
<1>4. answer = Silent
  BY DEF ReadingInit
<1> QED BY <1>3, <1>4 DEF Abstract!Init, Silent, Abstract!Silent

LEMMA AbstractStep ==
  ASSUME Coherent(stream), [ReadingNext]_readingVars
  PROVE  [Abstract!AnyStep]_(Abstract!vars)
<1>1. ASSUME NEW text \in Texts, NEW size \in PortionSizes,
             InitWithData(text, size)
      PROVE  Abstract!Open
  <2>1. text \in Seq(Byte) /\ size \in Nat \ {0}
    BY TextsAssumption, PortionSizesAssumption
  <2>2. /\ stream'.source = text
        /\ Position(stream') = 0
        /\ Mark(stream') = NoBookmark
    BY <1>1, <2>1, OpenKeeps DEF InitWithData
  <2>3. /\ Position(stream)' = 0 /\ Mark(stream)' = NoBookmark
    BY <2>2 DEF Position, Mark, PortionStart
  <2>4. answer' = Silent
    BY <1>1 DEF InitWithData
  <2> QED BY <2>1, <2>2, <2>3, <2>4
          DEF Abstract!Open, Abstract!Silent, Silent
<1>2. CASE NextCharacter
  <2>1. ~Ended(stream) /\ stream' = Advance(stream)
        /\ answer' = Character(CurrentCharacter(stream'))
    BY <1>2 DEF NextCharacter
  <2>2. /\ Coherent(stream')
        /\ stream'.source = stream.source
        /\ Position(stream') = Position(stream) + 1
        /\ Mark(stream') = Mark(stream)
        /\ Position(stream) < Len(stream.source)
    BY <2>1, AdvanceKeeps
  <2>3. CurrentCharacter(stream') =
          IF Position(stream) + 1 < Len(stream.source)
          THEN stream.source[(Position(stream) + 1) + 1] ELSE EOF
    BY <2>2, CharacterOfText
  <2>4. Position(stream)' = Position(stream) + 1
        /\ Mark(stream)' = Mark(stream)
    BY <2>2 DEF Position, Mark, PortionStart
  <2>5. Abstract!Next
    BY <2>1, <2>2, <2>3, <2>4
       DEF Abstract!Next, Abstract!Silent, Abstract!LetterAt, Character,
           Silent
  <2> QED BY <2>5 DEF Abstract!AnyStep
<1>3. CASE ConsumeCurrentCharacter
  <2>1. stream' = IF Ended(stream) THEN stream ELSE Advance(stream)
    BY <1>3 DEF ConsumeCurrentCharacter
  <2>2. CurrentCharacter(stream) =
          IF Position(stream) < Len(stream.source)
          THEN stream.source[Position(stream) + 1] ELSE EOF
    BY CharacterOfText
  <2>3. /\ stream'.source = stream.source
        /\ Position(stream') = IF Position(stream) < Len(stream.source)
                               THEN Position(stream) + 1
                               ELSE Position(stream)
        /\ Mark(stream') = Mark(stream)
    <3>1. CASE Ended(stream)
      BY <2>1, <3>1, CharacterOfText
    <3>2. CASE ~Ended(stream)
      BY <2>1, <3>2, AdvanceKeeps
    <3> QED BY <3>1, <3>2
  <2>4. /\ Position(stream)' = Position(stream')
        /\ Mark(stream)' = Mark(stream')
    BY DEF Position, Mark, PortionStart
  <2>5. answer' = Character(CurrentCharacter(stream))
    BY <1>3 DEF ConsumeCurrentCharacter
  <2>6. Abstract!Consume
    BY <2>2, <2>3, <2>4, <2>5
       DEF Abstract!Consume, Abstract!Silent, Abstract!LetterAt, Character,
           Silent
  <2> QED BY <2>6 DEF Abstract!AnyStep
<1>4. ASSUME NEW offset \in {0, 1}, BookmarkAtOffset(offset)
      PROVE  Abstract!SetMark(offset)
  <2>1. /\ stream'.source = stream.source
        /\ Position(stream') = Position(stream)
        /\ Mark(stream') = Position(stream) + offset
    BY <1>4, BookmarkKeeps DEF BookmarkAtOffset
  <2>2. /\ Position(stream)' = Position(stream')
        /\ Mark(stream)' = Mark(stream')
    BY DEF Position, Mark, PortionStart
  <2>3. answer' = Silent
    BY <1>4 DEF BookmarkAtOffset
  <2> QED BY <2>1, <2>2, <2>3 DEF Abstract!SetMark, Abstract!Silent, Silent
<1>5. CASE ClearBookmark
  <2>1. /\ stream'.source = stream.source
        /\ Position(stream') = Position(stream)
        /\ Mark(stream') = NoBookmark
    BY <1>5, ClearKeeps DEF ClearBookmark
  <2>2. /\ Position(stream)' = Position(stream')
        /\ Mark(stream)' = Mark(stream')
    BY DEF Position, Mark, PortionStart
  <2>3. answer' = Silent
    BY <1>5 DEF ClearBookmark
  <2>4. Abstract!DropMark
    BY <2>1, <2>2, <2>3 DEF Abstract!DropMark, Abstract!Silent, Silent
  <2> QED BY <2>4 DEF Abstract!AnyStep
<1>6. CASE ExtractBookmarked
  <2>1. /\ stream'.source = stream.source
        /\ Position(stream') = Position(stream)
        /\ Mark(stream') = NoBookmark
    BY <1>6, ClearKeeps DEF ExtractBookmarked
  <2>2. /\ Position(stream)' = Position(stream')
        /\ Mark(stream)' = Mark(stream')
    BY DEF Position, Mark, PortionStart
  <2>3. answer' = Bytes(Region(stream))
    BY <1>6 DEF ExtractBookmarked
  <2>4. Region(stream) = IF Mark(stream) = NoBookmark THEN <<>>
                         ELSE SubSeq(stream.source, Mark(stream) + 1,
                                     Position(stream))
    <3>1. CASE stream.bookmark = NoBookmark
      BY <3>1 DEF Region, Mark
    <3>2. CASE stream.bookmark # NoBookmark
      <4>1. Region(stream) = SubSeq(stream.source, Mark(stream) + 1,
                                    Position(stream))
        BY <1>6, <3>2, RegionOfText DEF ExtractBookmarked
      <4>2. Mark(stream) # NoBookmark
        BY <3>2, MarkIsPosition
      <4> QED BY <4>1, <4>2
    <3> QED BY <3>1, <3>2
  <2>5. Abstract!TakeMarked
    BY <2>1, <2>2, <2>3, <2>4
       DEF Abstract!TakeMarked, Abstract!Silent, Silent, Bytes
  <2> QED BY <2>5 DEF Abstract!AnyStep
<1>7. CASE UNCHANGED readingVars
  BY <1>7 DEF readingVars, Abstract!vars, Position, Mark, PortionStart
<1> QED BY <1>1, <1>2, <1>3, <1>4, <1>5, <1>6, <1>7
        DEF ReadingNext, Access, Abstract!AnyStep

\* A MulleObjCBufferedInputStream implements a MarkedText, for all texts
\* and all sizes of the portions it is read in.
THEOREM StreamReadsTheText == ReadingSpec => ReadsTheText
<1> QED BY InitCoherent, StepCoherent, AbstractInit, AbstractStep, PTL
        DEF ReadingSpec, ReadsTheText, Abstract!Spec
-----------------------------------------------------------------------------
LEMMA Reassociated ==
  ASSUME NEW a \in Seq(Byte), NEW b \in Seq(Byte), NEW c \in Seq(Byte)
  PROVE  (a \o b) \o c = a \o (b \o c)
BY ConcatAssociative

LEMMA OutputFields ==
  ASSUME NEW o \in OutputStream
  PROVE  /\ o.sink \in Seq(Byte) /\ o.buffer \in Seq(Byte)
         /\ o.size \in Nat /\ o.size > 0 /\ o.final \in BOOLEAN
         /\ Len(o.buffer) \in Nat
<1>1. /\ o.sink \in Seq(Byte) /\ o.buffer \in Seq(Byte)
      /\ o.size \in Nat \ {0} /\ o.final \in BOOLEAN
  BY DEF OutputStream
<1> QED BY <1>1, LenProperties

\* A stream that holds the bytes w, its buffer within its bounds.
Holds(o, w) ==
  /\ o \in OutputStream
  /\ w \in Seq(Byte)
  /\ w = o.sink \o o.buffer
  /\ Len(o.buffer) <= o.size

LEMMA FlushHolds ==
  ASSUME NEW o, NEW w, Holds(o, w)
  PROVE  /\ Holds(Flushed(o), w)
         /\ Flushed(o).sink = w
         /\ Flushed(o).buffer = <<>>
         /\ Flushed(o).size = o.size
         /\ Flushed(o).final = o.final
<1> DEFINE f == Flushed(o)
<1>1. /\ o \in OutputStream /\ w \in Seq(Byte) /\ w = o.sink \o o.buffer
      /\ <<>> \in Seq(Byte) /\ Len(<<>>) = 0
  BY EmptySeq DEF Holds
<1>2. f = [o EXCEPT !.sink = w, !.buffer = <<>>]
  BY <1>1 DEF Flushed
<1>3. f \in OutputStream
  BY <1>1, <1>2 DEF OutputStream
<1>4. /\ f.sink = w /\ f.buffer = <<>> /\ f.size = o.size
      /\ f.final = o.final
  BY <1>1, <1>2 DEF OutputStream
<1> HIDE DEF f
<1>5. f.sink \o f.buffer = w
  BY <1>1, <1>4, ConcatEmptySeq
<1>6. Len(f.buffer) <= f.size
  BY <1>1, <1>3, <1>4, OutputFields
<1> QED BY <1>1, <1>3, <1>4, <1>5, <1>6 DEF Holds, f

\* Replacing the buffer.
LEMMA BufferHolds ==
  ASSUME NEW o \in OutputStream, NEW b \in Seq(Byte), Len(b) <= o.size
  PROVE  /\ Holds([o EXCEPT !.buffer = b], o.sink \o b)
         /\ [o EXCEPT !.buffer = b].sink = o.sink
         /\ [o EXCEPT !.buffer = b].buffer = b
         /\ [o EXCEPT !.buffer = b].size = o.size
         /\ [o EXCEPT !.buffer = b].final = o.final
<1> DEFINE f == [o EXCEPT !.buffer = b]
<1>1. f \in OutputStream
  BY DEF OutputStream
<1>2. f.sink = o.sink /\ f.buffer = b /\ f.size = o.size /\ f.final = o.final
  BY DEF OutputStream
<1> HIDE DEF f
<1>3. o.sink \o b \in Seq(Byte)
  BY OutputFields, ConcatProperties
<1> QED BY <1>1, <1>2, <1>3 DEF Holds, f

\* mulleWriteBytes:length: adds the bytes, whatever the room in the buffer.
LEMMA WriteHolds ==
  ASSUME NEW o, NEW w, Holds(o, w), NEW bytes \in Seq(Byte)
  PROVE  /\ Holds(Written(o, bytes), w \o bytes)
         /\ Written(o, bytes).final = o.final
<1> DEFINE n == Len(bytes)
           used == Len(o.buffer)
           room == o.size - used
           fit == IF n < room THEN n ELSE room
           first == SubSeq(bytes, 1, fit)
           rest == SubSeq(bytes, fit + 1, n)
           full == [o EXCEPT !.buffer = @ \o first]
<1>1. /\ o \in OutputStream /\ w \in Seq(Byte) /\ w = o.sink \o o.buffer
      /\ o.sink \in Seq(Byte) /\ o.buffer \in Seq(Byte)
      /\ o.size \in Nat /\ used \in Nat /\ used <= o.size /\ n \in Nat
  BY OutputFields, LenProperties DEF Holds
<1>2. fit \in Nat /\ fit <= n /\ used + fit <= o.size
  <2> HIDE DEF n, used
  <2> QED BY <1>1
<1> HIDE DEF fit, room
<1>3. /\ first \in Seq(Byte) /\ Len(first) = fit
      /\ rest \in Seq(Byte)
  <2>1. 0 + 1 = 1 /\ fit - 0 = fit /\ 0 <= fit /\ n <= n
    BY <1>1, <1>2
  <2>2. SubSeq(bytes, 0 + 1, fit) \in Seq(Byte)
        /\ Len(SubSeq(bytes, 0 + 1, fit)) = fit - 0
    BY <1>1, <1>2, <2>1, PartOf
  <2>3. SubSeq(bytes, fit + 1, n) \in Seq(Byte)
    BY <1>1, <1>2, <2>1, PartOf
  <2> QED BY <2>1, <2>2, <2>3
<1>4. first \o rest = bytes
  <2>1. SubSeq(bytes, 0 + 1, fit) \o SubSeq(bytes, fit + 1, n)
          = SubSeq(bytes, 0 + 1, n)
    <3>1. /\ 0 \in Nat /\ fit \in Nat /\ n \in Nat
          /\ 0 <= fit /\ fit <= n /\ n <= Len(bytes)
      BY <1>1, <1>2
    <3> HIDE DEF n
    <3> QED BY <3>1, Adjacent
  <2>2. SubSeq(bytes, 1, n) = bytes
    BY SubSeqFull
  <2>3. 0 + 1 = 1
    OBVIOUS
  <2> QED BY <2>1, <2>2, <2>3
<1>5. Written(o, bytes) =
        IF rest = <<>> THEN full
        ELSE IF Len(rest) > o.size
             THEN [Flushed(full) EXCEPT !.sink = @ \o rest]
             ELSE [Flushed(full) EXCEPT !.buffer = rest]
  BY <1>1 DEF Written, fit, room, OutputStream
<1> HIDE DEF first, rest
<1>6. /\ Holds(full, w \o first)
      /\ full.size = o.size /\ full.final = o.final
  <2>1. o.buffer \o first \in Seq(Byte)
        /\ Len(o.buffer \o first) = used + fit
    BY <1>1, <1>3, ConcatProperties
  <2>2. full = [o EXCEPT !.buffer = o.buffer \o first]
    BY <1>1 DEF OutputStream
  <2>3. /\ Holds(full, o.sink \o (o.buffer \o first))
        /\ full.size = o.size /\ full.final = o.final
    BY <1>1, <1>2, <2>1, <2>2, BufferHolds
  <2>4. o.sink \o (o.buffer \o first) = w \o first
    <3>1. (o.sink \o o.buffer) \o first = o.sink \o (o.buffer \o first)
      <4>1. /\ o.sink \in Seq(Byte) /\ o.buffer \in Seq(Byte)
            /\ first \in Seq(Byte)
        BY <1>1, <1>3
      <4> HIDE DEF full, n, used
      <4> QED BY ONLY <4>1, Reassociated
    <3> QED BY ONLY <1>1, <3>1
  <2> QED BY <2>3, <2>4
<1>7. (w \o first) \o rest = w \o bytes
  <2>1. (w \o first) \o rest = w \o (first \o rest)
    <3>1. w \in Seq(Byte) /\ first \in Seq(Byte) /\ rest \in Seq(Byte)
      BY <1>1, <1>3
    <3> HIDE DEF n, used, full
    <3> QED BY ONLY <3>1, ConcatAssociative
  <2> QED BY ONLY <1>4, <2>1
<1>8. w \o bytes \in Seq(Byte)
  BY <1>1, ConcatProperties
<1> HIDE DEF full
<1>9. CASE rest = <<>>
  <2>1. first = bytes
    BY <1>3, <1>4, <1>9, ConcatEmptySeq
  <2> QED BY <1>5, <1>6, <1>9, <2>1
<1>10. CASE rest # <<>>
  <2> DEFINE f == Flushed(full)
  <2>1. /\ f \in OutputStream
        /\ f.sink = w \o first /\ f.buffer = <<>> /\ f.size = o.size
        /\ f.final = o.final
    BY <1>6, FlushHolds DEF Holds
  <2> HIDE DEF f
  <2>2. CASE Len(rest) > o.size
    <3> DEFINE g == [f EXCEPT !.sink = @ \o rest]
    <3>1. g = [f EXCEPT !.sink = w \o bytes]
      BY <2>1, <1>7 DEF OutputStream
    <3>2. g \in OutputStream
      BY <2>1, <3>1, <1>8 DEF OutputStream
    <3>3. /\ g.sink = w \o bytes /\ g.buffer = <<>> /\ g.size = o.size
          /\ g.final = o.final
      BY <2>1, <3>1 DEF OutputStream
    <3>4. Written(o, bytes) = g
      BY <1>5, <1>10, <2>2 DEF f
    <3> HIDE DEF g
    <3>5. g.sink \o g.buffer = w \o bytes
      BY <1>8, <3>3, ConcatEmptySeq
    <3>6. Len(g.buffer) <= g.size
      BY <1>1, <3>3, EmptySeq
    <3> QED BY <1>8, <3>2, <3>3, <3>4, <3>5, <3>6 DEF Holds
  <2>3. CASE ~(Len(rest) > o.size)
    <3>1. Written(o, bytes) = [f EXCEPT !.buffer = rest]
      BY <1>5, <1>10, <2>3 DEF f
    <3>2. Len(rest) <= f.size
      <4>1. Len(rest) \in Nat /\ o.size \in Nat
        BY <1>1, <1>3, LenProperties
      <4> QED BY <2>1, <2>3, <4>1
    <3>3. /\ Holds([f EXCEPT !.buffer = rest], f.sink \o rest)
          /\ [f EXCEPT !.buffer = rest].final = f.final
      BY <1>3, <2>1, <3>2, BufferHolds
    <3> QED BY <1>7, <2>1, <3>1, <3>3
  <2> QED BY <2>2, <2>3
<1> QED BY <1>9, <1>10

\* Putting a single character.
LEMMA PutHolds ==
  ASSUME NEW o, NEW w, Holds(o, w), NEW c \in Byte
  PROVE  /\ Holds(WithCharacter(o, c), Append(w, c))
         /\ WithCharacter(o, c).final = o.final
<1> DEFINE e == IF Len(o.buffer) = o.size THEN Flushed(o) ELSE o
<1>1. /\ Holds(e, w) /\ e.size = o.size /\ e.final = o.final
      /\ Len(e.buffer) < e.size
  <2>1. o.size \in Nat /\ o.size > 0 /\ Len(o.buffer) \in Nat
        /\ Len(o.buffer) <= o.size
    BY OutputFields DEF Holds
  <2>2. CASE Len(o.buffer) = o.size
    BY <2>1, <2>2, FlushHolds, EmptySeq
  <2>3. CASE Len(o.buffer) # o.size
    BY <2>1, <2>3
  <2> QED BY <2>2, <2>3
<1>2. WithCharacter(o, c) = [e EXCEPT !.buffer = Append(@, c)]
  BY DEF WithCharacter
<1> HIDE DEF e
<1>3. /\ e \in OutputStream /\ w \in Seq(Byte) /\ w = e.sink \o e.buffer
      /\ e.sink \in Seq(Byte) /\ e.buffer \in Seq(Byte)
      /\ e.size \in Nat /\ Len(e.buffer) \in Nat
  BY <1>1, OutputFields DEF Holds
<1>4. /\ Append(e.buffer, c) \in Seq(Byte)
      /\ Append(e.buffer, c) = e.buffer \o <<c>>
      /\ Len(Append(e.buffer, c)) = Len(e.buffer) + 1
      /\ <<c>> \in Seq(Byte)
  BY <1>3, AppendProperties, AppendIsConcat
<1>5. Len(Append(e.buffer, c)) <= e.size
  <2>1. Len(e.buffer) < e.size
    BY <1>1
  <2> QED BY <1>3, <1>4, <2>1
<1>6. WithCharacter(o, c) = [e EXCEPT !.buffer = Append(e.buffer, c)]
  BY <1>2, <1>3 DEF OutputStream
<1>7. /\ Holds(WithCharacter(o, c), e.sink \o Append(e.buffer, c))
      /\ WithCharacter(o, c).final = e.final
  <2> DEFINE b == Append(e.buffer, c)
             f == [e EXCEPT !.buffer = b]
  <2>1. e \in OutputStream /\ b \in Seq(Byte) /\ Len(b) <= e.size
    BY <1>3, <1>4, <1>5
  <2>2. WithCharacter(o, c) = f
    BY <1>6
  <2> HIDE DEF b
  <2>3. Holds(f, e.sink \o b) /\ f.final = e.final
    BY ONLY <2>1, BufferHolds
  <2> HIDE DEF f
  <2>4. Holds(WithCharacter(o, c), e.sink \o b)
        /\ WithCharacter(o, c).final = e.final
    BY ONLY <2>2, <2>3
  <2> QED BY <2>4 DEF b
<1>8. e.sink \o (e.buffer \o <<c>>) = w \o <<c>>
  <2>1. (e.sink \o e.buffer) \o <<c>> = e.sink \o (e.buffer \o <<c>>)
    <3>1. e.sink \in Seq(Byte) /\ e.buffer \in Seq(Byte) /\ <<c>> \in Seq(Byte)
      BY <1>3, <1>4
    <3> QED BY ONLY <3>1, Reassociated
  <2> QED BY ONLY <1>3, <2>1
<1>9. w \o <<c>> = Append(w, c)
  BY <1>3, AppendIsConcat
<1> QED BY <1>1, <1>4, <1>7, <1>8, <1>9

LEMMA WritingInitHolds == WritingInit => NothingLost
<1> SUFFICES ASSUME WritingInit PROVE NothingLost
  OBVIOUS
<1>1. PICK size \in BufferSizes: out = OpenOutput(size)
  BY DEF WritingInit
<1>2. size \in Nat \ {0}
  BY BufferSizesAssumption
<1>3. <<>> \in Seq(Byte) /\ Len(<<>>) = 0 /\ <<>> \o <<>> = <<>>
  BY EmptySeq, ConcatEmptySeq
<1>4. out \in OutputStream
  BY <1>1, <1>2, <1>3 DEF OpenOutput, OutputStream
<1>5. out.sink = <<>> /\ out.buffer = <<>> /\ out.size = size
      /\ out.final = FALSE
  BY <1>1 DEF OpenOutput
<1>6. written = <<>>
  BY DEF WritingInit
<1> QED BY <1>2, <1>3, <1>4, <1>5, <1>6 DEF NothingLost

LEMMA WritingStepHolds ==
  ASSUME NothingLost, [WritingNext]_writingVars
  PROVE  NothingLost'
<1>1. Holds(out, written)
  BY DEF NothingLost, Holds
<1>2. ASSUME NEW bytes \in Pieces, WriteBytes(bytes) PROVE NothingLost'
  <2>1. /\ Holds(out', written') /\ out'.final = out.final /\ ~out.final
    BY <1>1, <1>2, PiecesAssumption, WriteHolds DEF WriteBytes
  <2> QED BY <2>1 DEF NothingLost, Holds
<1>3. ASSUME NEW c \in Byte, PutCharacter(c) PROVE NothingLost'
  <2>1. /\ Holds(out', written') /\ out'.final = out.final /\ ~out.final
    BY <1>1, <1>3, PutHolds DEF PutCharacter
  <2> QED BY <2>1 DEF NothingLost, Holds
<1>4. CASE Flush
  <2>1. /\ Holds(out', written') /\ out'.final = out.final /\ ~out.final
    BY <1>1, <1>4, FlushHolds DEF Flush
  <2> QED BY <2>1 DEF NothingLost, Holds
<1>5. CASE Finalize
  <2> DEFINE f == Flushed(out)
  <2>1. /\ Holds(f, written) /\ f.buffer = <<>>
        /\ out' = [f EXCEPT !.final = TRUE] /\ written' = written
    BY <1>1, <1>5, FlushHolds DEF Finalize
  <2> HIDE DEF f
  <2>2. /\ out' \in OutputStream
        /\ out'.sink = f.sink /\ out'.buffer = f.buffer
        /\ out'.size = f.size
    BY <2>1 DEF OutputStream, Holds
  <2> QED BY <2>1, <2>2 DEF NothingLost, Holds
<1>6. CASE UNCHANGED writingVars
  BY <1>6 DEF writingVars, NothingLost
<1> QED BY <1>2, <1>3, <1>4, <1>5, <1>6 DEF WritingNext

\* What a client writes arrives at the sink complete and in order, whatever
\* the sizes of the pieces and of the buffer.
THEOREM OutputLosesNothing == WritingSpec => []NothingLost
BY WritingInitHolds, WritingStepHolds, PTL DEF WritingSpec
-----------------------------------------------------------------------------
\* How many bytes a character may have, and what its first carries.
LEMMA AnnouncedRange ==
  ASSUME NEW x \in Byte
  PROVE  Characters!Announced(x) \in 1..4
BY DEF Byte, Characters!Announced

LEMMA ByteOfText ==
  ASSUME NEW t \in Seq(Byte), NEW i \in 1..Len(t)
  PROVE  t[i] \in Byte
BY ElementOfSeq

\* How many bytes continue a character is told by the text: where they stop.
LEMMA FollowingIs ==
  ASSUME NEW t \in Seq(Byte), NEW p \in Nat, p < Len(t),
         NEW k \in 0..Characters!Announced(t[p + 1]) - 1,
         Characters!Continues(t, p, k),
         k < Characters!Announced(t[p + 1]) - 1
           => ~Characters!Continues(t, p, k + 1)
  PROVE  Characters!Following(t, p) = k
<1> DEFINE n == Characters!Announced(t[p + 1]) - 1
           P(j) == /\ Characters!Continues(t, p, j)
                   /\ j < n => ~Characters!Continues(t, p, j + 1)
<1>1. n \in 0..3
  <2>1. p + 1 \in 1..Len(t)
    BY LenProperties
  <2> QED BY <2>1, ByteOfText, AnnouncedRange
<1>2. P(k)
  OBVIOUS
<1>3. ASSUME NEW i \in 0..n, NEW j \in 0..n, P(i), P(j), i < j
      PROVE  FALSE
  <2>1. Characters!Continues(t, p, i + 1)
    <3>1. /\ p + j < Len(t)
          /\ \A l \in 1..j: t[p + l + 1] \in 128..191
      BY <1>3 DEF Characters!Continues
    <3>2. i \in Int /\ j \in Int /\ i + 1 <= j /\ Len(t) \in Nat
      BY <1>1, <1>3, LenProperties
    <3>3. p + (i + 1) < Len(t) /\ \A l \in 1..i + 1: l \in 1..j
      BY <3>1, <3>2
    <3> QED BY <3>1, <3>3 DEF Characters!Continues
  <2> QED BY <1>1, <1>3, <2>1
<1>4. \A j \in 0..n: P(j) => j = k
  <2> HIDE DEF P
  <2> SUFFICES ASSUME NEW j \in 0..n, P(j) PROVE j = k
    OBVIOUS
  <2>1. j \in Int /\ k \in Int /\ k \in 0..n
    BY <1>1
  <2>2. ~(j < k) /\ ~(k < j)
    BY <1>2, <1>3, <2>1
  <2> QED BY <2>1, <2>2
<1>5. Characters!Following(t, p) = CHOOSE j \in 0..n: P(j)
  BY DEF Characters!Following
<1> HIDE DEF P, n
<1>6. k \in 0..n
  BY DEF n
<1> QED BY <1>2, <1>4, <1>5, <1>6

\* There always is such a number.
LEMMA FollowingExists ==
  ASSUME NEW t \in Seq(Byte), NEW p \in Nat, p < Len(t)
  PROVE  LET k == Characters!Following(t, p)
             n == Characters!Announced(t[p + 1]) - 1
         IN  /\ n \in 0..3
             /\ k \in 0..n
             /\ Characters!Continues(t, p, k)
             /\ k < n => ~Characters!Continues(t, p, k + 1)
<1> DEFINE n == Characters!Announced(t[p + 1]) - 1
           P(j) == /\ Characters!Continues(t, p, j)
                   /\ j < n => ~Characters!Continues(t, p, j + 1)
<1>1. n \in 0..3
  <2>1. p + 1 \in 1..Len(t)
    BY LenProperties
  <2> QED BY <2>1, ByteOfText, AnnouncedRange
<1>2. Characters!Continues(t, p, 0)
  BY LenProperties DEF Characters!Continues
<1>3. \E j \in 0..n: P(j)
  <2> HIDE DEF n
  <2>1. CASE n = 0
    BY <1>2, <2>1
  <2>2. CASE n > 0 /\ ~Characters!Continues(t, p, 1)
    BY <1>1, <1>2, <2>2
  <2>3. CASE n = 1 /\ Characters!Continues(t, p, 1)
    BY <2>3
  <2>4. CASE n > 1 /\ Characters!Continues(t, p, 1)
                   /\ ~Characters!Continues(t, p, 2)
    BY <1>1, <2>4
  <2>5. CASE n = 2 /\ Characters!Continues(t, p, 2)
    BY <2>5
  <2>6. CASE n > 2 /\ Characters!Continues(t, p, 2)
                   /\ ~Characters!Continues(t, p, 3)
    BY <1>1, <2>6
  <2>7. CASE n = 3 /\ Characters!Continues(t, p, 3)
    BY <2>7
  <2> QED BY <1>1, <2>1, <2>2, <2>3, <2>4, <2>5, <2>6, <2>7
<1>4. PICK j \in 0..n: P(j)
  BY <1>3
<1>5. Characters!Following(t, p) = j
  BY <1>4, FollowingIs
<1> QED BY <1>1, <1>4, <1>5

\* A byte more makes a character of it by six bits.
LEMMA BitsOfNext ==
  ASSUME NEW t, NEW p \in Nat, NEW k \in 0..2
  PROVE  Characters!Bits(t, p, k + 1)
           = (Characters!Bits(t, p, k) * 64) + (t[p + (k + 1) + 1] % 64)
<1>1. CASE k = 0
  BY <1>1 DEF Characters!Bits
<1>2. CASE k = 1
  BY <1>2 DEF Characters!Bits
<1>3. CASE k = 2
  BY <1>3 DEF Characters!Bits
<1> QED BY <1>1, <1>2, <1>3
-----------------------------------------------------------------------------
\* A character under way at p of t, of which k bytes have been read behind
\* the first; and one that is composed.
IsUnderWay(u, t, p, k, m) ==
  /\ k \in 0..Characters!Announced(t[p + 1]) - 1
  /\ Characters!Continues(t, p, k)
  /\ u = UnderWay(u.stream, Characters!Bits(t, p, k),
                  Characters!Announced(t[p + 1]) - 1 - k)
  /\ Coherent(u.stream)
  /\ u.stream.source = t
  /\ Position(u.stream) = p + k
  /\ Mark(u.stream) = m

IsComposed(s, c, t, p, m) ==
  /\ Coherent(s)
  /\ s.source = t
  /\ Position(s) = Characters!Stop(t, p)
  /\ Mark(s) = m
  /\ c = Characters!CharacterAt(t, p)

IsDone(u, t, p, m) ==
  u.missing = 0 /\ IsComposed(u.stream, u.current, t, p, m)

LEMMA UnderWayFields ==
  ASSUME NEW s, NEW v, NEW n
  PROVE  /\ UnderWay(s, v, n).stream = s
         /\ UnderWay(s, v, n).current = v
         /\ UnderWay(s, v, n).missing = n
BY DEF UnderWay

\* Nothing is missing of a character: it is composed.
LEMMA LastByte ==
  ASSUME NEW t \in Seq(Byte), NEW p \in Nat, p < Len(t), NEW u, NEW k, NEW m,
         IsUnderWay(u, t, p, k, m),
         k = Characters!Announced(t[p + 1]) - 1
  PROVE  IsDone(u, t, p, m)
<1> DEFINE n == Characters!Announced(t[p + 1]) - 1
<1>1. n \in 0..3
  BY FollowingExists
<1>2. Characters!Following(t, p) = k /\ k \in 0..n
  BY <1>1, FollowingIs DEF IsUnderWay
<1>3. u.current = Characters!Bits(t, p, k) /\ u.missing = 0
  BY <1>1, UnderWayFields DEF IsUnderWay
<1>4. Characters!IsWhole(t, p)
  BY <1>2 DEF Characters!IsWhole
<1>5. Characters!Stop(t, p) = p + k
  BY <1>2, <1>4, LenProperties DEF Characters!Stop
<1>6. Characters!CharacterAt(t, p) = Characters!Bits(t, p, k)
  BY <1>2, <1>4, LenProperties DEF Characters!CharacterAt
<1> QED BY <1>3, <1>5, <1>6 DEF IsDone, IsComposed, IsUnderWay

\* One turn of the loop of __MulleObjCUTF8StreamReaderComposeUTF32Character.
LEMMA OneByte ==
  ASSUME NEW t \in Seq(Byte), NEW p \in Nat, p < Len(t), NEW u, NEW k, NEW m,
         IsUnderWay(u, t, p, k, m),
         k < Characters!Announced(t[p + 1]) - 1
  PROVE  \/ IsDone(Continued(u), t, p, m)
         \/ IsUnderWay(Continued(u), t, p, k + 1, m)
<1> DEFINE n == Characters!Announced(t[p + 1]) - 1
           s == Advance(u.stream)
           q == p + k + 1
<1>1. n \in 0..3 /\ Len(t) \in Nat
  BY FollowingExists, LenProperties
<1>2. k \in 0..n /\ k < n /\ k + 1 \in 0..n /\ k \in 0..2
  BY <1>1 DEF IsUnderWay
<1>3. /\ u.current = Characters!Bits(t, p, k) /\ u.missing = n - k
      /\ Coherent(u.stream) /\ u.stream.source = t
      /\ Position(u.stream) = p + k /\ Mark(u.stream) = m
  BY UnderWayFields DEF IsUnderWay
<1>4. p + k < Len(t) /\ Characters!Continues(t, p, k)
  BY DEF IsUnderWay, Characters!Continues
<1>5. ~Ended(u.stream)
  BY <1>3, <1>4, CharacterOfText
<1>6. /\ Coherent(s) /\ s.source = t /\ Position(s) = q /\ Mark(s) = m
  <2>1. Position(u.stream) + 1 = q
    BY <1>2, <1>3
  <2> QED BY <1>3, <1>5, <2>1, AdvanceKeeps
<1>7. /\ CurrentCharacter(s) = IF q < Len(t) THEN t[q + 1] ELSE EOF
      /\ q \in Nat /\ q <= Len(t)
  BY <1>6, CharacterOfText
<1>8. u.missing > 0 /\ u.missing # 0 /\ u.missing - 1 = n - (k + 1)
  BY <1>1, <1>2, <1>3
<1>9. q < Len(t) => t[q + 1] \in Byte
  <2> SUFFICES ASSUME q < Len(t) PROVE t[q + 1] \in Byte
    OBVIOUS
  <2>1. q + 1 \in 1..Len(t)
    BY <1>1, <1>7
  <2> QED BY <2>1, ByteOfText
<1> HIDE DEF s
<1>10. CASE ~(q < Len(t))
  <2>1. Continued(u) = UnderWay(s, Replacement, 0)
    BY <1>7, <1>8, <1>10 DEF Continued, TakenAt, Taken, s
  <2>2. ~Characters!Continues(t, p, k + 1)
    BY <1>2, <1>10 DEF Characters!Continues
  <2>3. Characters!Following(t, p) = k
    BY <1>2, <1>4, <2>2, FollowingIs
  <2>4. ~Characters!IsWhole(t, p)
    BY <1>2, <2>3 DEF Characters!IsWhole
  <2>5. Characters!Stop(t, p) = q /\ q = Len(t)
    BY <1>1, <1>2, <1>7, <1>10, <2>3, <2>4 DEF Characters!Stop
  <2>6. Characters!CharacterAt(t, p) = Replacement
    BY <1>1, <2>4, <2>5 DEF Characters!CharacterAt
  <2> QED BY <1>6, <2>1, <2>5, <2>6, UnderWayFields DEF IsDone, IsComposed
<1>11. CASE q < Len(t) /\ t[q + 1] \notin Continuation
  <2>1. CurrentCharacter(s) # EOF /\ CurrentCharacter(s) \notin Continuation
    <3>1. CurrentCharacter(s) = t[q + 1]
      BY <1>7, <1>11
    <3>2. t[q + 1] \in Byte
      BY <1>9, <1>11
    <3>3. \A x \in Byte: x # EOF
      BY DEF Byte, EOF
    <3> QED BY <1>11, <3>1, <3>2, <3>3
  <2>2. Continued(u) = UnderWay(s, u.current, 0)
    BY <1>8, <2>1 DEF Continued, TakenAt, Taken, s
  <2>3. ~Characters!Continues(t, p, k + 1)
    <3>1. k + 1 \in 1..k + 1 /\ p + (k + 1) + 1 = q + 1
      BY <1>2
    <3> QED BY <1>11, <3>1 DEF Characters!Continues, Continuation
  <2>4. Characters!Following(t, p) = k
    BY <1>2, <1>4, <2>3, FollowingIs
  <2>5. ~Characters!IsWhole(t, p)
    BY <1>2, <2>4 DEF Characters!IsWhole
  <2>6. Characters!Stop(t, p) = q /\ q # Len(t)
    BY <1>1, <1>2, <1>7, <1>11, <2>4, <2>5 DEF Characters!Stop
  <2>7. Characters!CharacterAt(t, p) = Characters!Bits(t, p, k)
    BY <1>1, <2>4, <2>5, <2>6 DEF Characters!CharacterAt
  <2> QED BY <1>3, <1>6, <2>2, <2>6, <2>7, UnderWayFields
          DEF IsDone, IsComposed
<1>12. CASE q < Len(t) /\ t[q + 1] \in Continuation
  <2>1. CurrentCharacter(s) = t[q + 1] /\ t[q + 1] # EOF
    <3>1. CurrentCharacter(s) = t[q + 1]
      BY <1>7, <1>12
    <3>2. \A x \in Continuation: x # EOF
      BY DEF Continuation, EOF
    <3> QED BY <1>12, <3>1, <3>2
  <2>2. Continued(u) = UnderWay(s, (u.current * 64) + (t[q + 1] % 64),
                                u.missing - 1)
    BY <1>8, <1>12, <2>1 DEF Continued, TakenAt, Taken, s
  <2>3. q + 1 = p + (k + 1) + 1
    BY <1>2
  <2>4. Characters!Continues(t, p, k + 1)
    <3>1. p + (k + 1) < Len(t)
      BY <1>2, <1>12
    <3>2. ASSUME NEW l \in 1..k + 1 PROVE t[p + l + 1] \in 128..191
      <4>1. CASE l \in 1..k
        BY <1>4, <4>1 DEF Characters!Continues
      <4>2. CASE l = k + 1
        BY <1>12, <2>3, <4>2 DEF Continuation
      <4> QED BY <1>2, <4>1, <4>2
    <3> QED BY <3>1, <3>2 DEF Characters!Continues
  <2>5. Characters!Bits(t, p, k + 1) = (u.current * 64) + (t[q + 1] % 64)
    BY <1>2, <1>3, <2>3, BitsOfNext
  <2>6. Position(s) = p + (k + 1)
    BY <1>2, <1>6
  <2>7. IsUnderWay(Continued(u), t, p, k + 1, m)
    BY <1>2, <1>6, <1>8, <2>2, <2>4, <2>5, <2>6, UnderWayFields
       DEF IsUnderWay
  <2> QED BY <2>7
<1> QED BY <1>10, <1>11, <1>12

\* Three turns are enough.
LEMMA AllBytes ==
  ASSUME NEW t \in Seq(Byte), NEW p \in Nat, p < Len(t), NEW u, NEW m,
         IsUnderWay(u, t, p, 0, m)
  PROVE  IsDone(Continued(Continued(Continued(u))), t, p, m)
<1> DEFINE n == Characters!Announced(t[p + 1]) - 1
           Near(w, k) == \/ IsDone(w, t, p, m)
                         \/ k <= n /\ IsUnderWay(w, t, p, k, m)
<1>1. n \in 0..3
  BY FollowingExists
<1>2. ASSUME NEW w, IsDone(w, t, p, m) PROVE IsDone(Continued(w), t, p, m)
  <2>1. Continued(w) = w
    BY <1>2 DEF IsDone, Continued
  <2> QED BY <1>2, <2>1
<1>3. ASSUME NEW w, NEW k \in 0..2, Near(w, k)
      PROVE  Near(Continued(w), k + 1)
  <2>1. CASE IsDone(w, t, p, m)
    BY <1>2, <2>1
  <2>2. CASE k < n /\ IsUnderWay(w, t, p, k, m)
    <3>1. k + 1 <= n
      BY <1>1, <2>2
    <3>2. \/ IsDone(Continued(w), t, p, m)
          \/ IsUnderWay(Continued(w), t, p, k + 1, m)
      BY <2>2, OneByte
    <3> QED BY <3>1, <3>2
  <2>3. CASE k = n /\ IsUnderWay(w, t, p, k, m)
    <3>1. IsDone(w, t, p, m)
      BY <2>3, LastByte
    <3> QED BY <1>2, <3>1
  <2>4. k < n \/ k = n \/ ~(k <= n)
    BY <1>1
  <2> QED BY <1>3, <2>1, <2>2, <2>3, <2>4
<1>4. Near(u, 0)
  BY <1>1
<1> HIDE DEF Near
<1>5. 0 + 1 = 1 /\ 1 + 1 = 2 /\ 2 + 1 = 3
  OBVIOUS
<1>6. Near(Continued(u), 1)
  <2>1. Near(Continued(u), 0 + 1)
    BY <1>3, <1>4
  <2> QED BY <1>5, <2>1
<1>7. Near(Continued(Continued(u)), 2)
  <2>1. Near(Continued(Continued(u)), 1 + 1)
    BY <1>3, <1>6
  <2> QED BY <1>5, <2>1
<1>8. Near(Continued(Continued(Continued(u))), 3)
  <2>1. Near(Continued(Continued(Continued(u))), 2 + 1)
    BY <1>3, <1>7
  <2> QED BY <1>5, <2>1
<1>9. CASE 3 <= n /\ IsUnderWay(Continued(Continued(Continued(u))), t, p, 3, m)
  <2>1. 3 = n
    BY <1>1, <1>9
  <2> QED BY <1>9, <2>1, LastByte
<1> QED BY <1>8, <1>9 DEF Near

\* Whatever byte is under the cursor: the reader composes the character of
\* the text, and is left where that stops.
LEMMA ComposedOfText ==
  ASSUME NEW s, Coherent(s)
  PROVE  LET d == Composed(s, CurrentCharacter(s))
         IN  IsComposed(d.stream, d.current, s.source, Position(s), Mark(s))
<1> DEFINE t == s.source
           p == Position(s)
           m == Mark(s)
           c == CurrentCharacter(s)
           d == Composed(s, c)
           n == Characters!Announced(t[p + 1]) - 1
<1>1. /\ t \in Seq(Byte) /\ Len(t) \in Nat /\ p \in Nat /\ p <= Len(t)
      /\ c = IF p < Len(t) THEN t[p + 1] ELSE EOF
  BY CharacterOfText, Fields DEF Coherent
<1> HIDE DEF c, d
<1>2. CASE ~(p < Len(t))
  <2>1. c = EOF /\ p = Len(t)
    BY <1>1, <1>2
  <2>2. d = [stream |-> s, current |-> EOF]
    BY <2>1 DEF d, Composed, EOF
  <2>3. Characters!Stop(t, p) = p /\ Characters!CharacterAt(t, p) = EOF
    BY <1>1, <2>1 DEF Characters!Stop, Characters!CharacterAt
  <2>4. IsComposed(d.stream, d.current, t, p, m)
    BY <2>2, <2>3 DEF IsComposed
  <2> QED BY <2>4 DEF c, d
<1>3. CASE p < Len(t)
  <2>1. c = t[p + 1] /\ c \in Byte
    <3>1. p + 1 \in 1..Len(t)
      BY <1>1, <1>3
    <3> QED BY <1>1, <1>3, <3>1, ByteOfText
  <2>2. n \in 0..3 /\ Characters!Continues(t, p, 0)
        /\ Characters!Bits(t, p, 0) = Characters!LeadBits(c)
    <3>1. Characters!Continues(t, p, 0)
      BY <1>1, <1>3 DEF Characters!Continues
    <3>2. Characters!Bits(t, p, 0) = Characters!LeadBits(c)
      BY <2>1 DEF Characters!Bits
    <3> QED BY <1>1, <1>3, <3>1, <3>2, FollowingExists
  <2>3. CASE c < 128
    <3>1. d = [stream |-> s, current |-> c]
      BY <2>1, <2>3 DEF d, Composed, Byte
    <3>2. n = 0 /\ Characters!LeadBits(c) = c
      BY <2>1, <2>3 DEF Characters!Announced, Characters!LeadBits, Byte
    <3>3. Characters!Following(t, p) = 0
      BY <1>1, <1>3, <2>2, <3>2, FollowingIs
    <3>4. Characters!IsWhole(t, p)
      BY <3>2, <3>3 DEF Characters!IsWhole
    <3>5. Characters!Stop(t, p) = p
      BY <1>1, <1>3, <3>3, <3>4 DEF Characters!Stop
    <3>6. Characters!CharacterAt(t, p) = c
      BY <1>1, <1>3, <2>2, <3>2, <3>3, <3>4 DEF Characters!CharacterAt
    <3>7. IsComposed(d.stream, d.current, t, p, m)
      BY <3>1, <3>5, <3>6 DEF IsComposed
    <3> QED BY <3>7 DEF c, d
  <2>4. CASE c >= 128
    <3> DEFINE u == UnderWay(s, Characters!LeadBits(c), n)
    <3>1. d = Continue(u)
      <4>1. d = Compose(s, c)
        BY <2>4 DEF d, Composed
      <4>2. Compose(s, c) = Continue(UnderWay(s, Characters!LeadBits(c),
                                              Characters!Announced(c) - 1))
        <5>1. CASE c < 194
          BY <2>1, <2>4, <5>1 DEF Compose, Characters!LeadBits,
                                  Characters!Announced, Byte
        <5>2. CASE c >= 194 /\ c < 224
          BY <2>1, <2>4, <5>2 DEF Compose, Characters!LeadBits,
                                  Characters!Announced, Byte
        <5>3. CASE c >= 224 /\ c < 240
          BY <2>1, <2>4, <5>3 DEF Compose, Characters!LeadBits,
                                  Characters!Announced, Byte
        <5>4. CASE c >= 240 /\ c < 245
          BY <2>1, <2>4, <5>4 DEF Compose, Characters!LeadBits,
                                  Characters!Announced, Byte
        <5>5. CASE c >= 245
          BY <2>1, <2>4, <5>5 DEF Compose, Characters!LeadBits,
                                  Characters!Announced, Byte
        <5> QED BY <2>1, <5>1, <5>2, <5>3, <5>4, <5>5 DEF Byte
      <4> QED BY <2>1, <4>1, <4>2
    <3>2. u.stream = s
      BY UnderWayFields
    <3>3. IsUnderWay(u, t, p, 0, m)
      BY <1>1, <2>2, <3>2 DEF IsUnderWay
    <3>4. d = Continued(Continued(Continued(u)))
      BY <3>1 DEF Continue
    <3>5. IsDone(d, t, p, m)
      <4> HIDE DEF u, t, p, m, n
      <4> QED BY <1>1, <1>3, <3>3, <3>4, AllBytes
    <3> QED BY <3>5 DEF IsDone, c, d
  <2> QED BY <2>1, <2>3, <2>4 DEF Byte
<1> QED BY <1>1, <1>2, <1>3
-----------------------------------------------------------------------------
IsReader(r) ==
  /\ r = [stream |-> r.stream, current |-> r.current, lineNr |-> r.lineNr,
          aborted |-> r.aborted]
  /\ Coherent(r.stream)
  /\ r.lineNr \in Nat
  /\ r.aborted \in BOOLEAN

\* The reader that loading a character leaves.
LEMMA LoadFields ==
  ASSUME NEW r, IsReader(r), NEW s
  PROVE  LET d == Composed(s, CurrentCharacter(s))
         IN  Load(r, s) = [stream |-> d.stream, current |-> d.current,
                           lineNr |-> r.lineNr, aborted |-> r.aborted]
<1> DEFINE d == Composed(s, CurrentCharacter(s))
<1>1. Load(r, s) = [r EXCEPT !.stream = d.stream, !.current = d.current]
  BY DEF Load, With
<1>2. r = [stream |-> r.stream, current |-> r.current, lineNr |-> r.lineNr,
           aborted |-> r.aborted]
  BY DEF IsReader
<1> DEFINE x == d.stream
           y == d.current
<1>3. Load(r, s) = [r EXCEPT !.stream = x, !.current = y]
  BY <1>1
<1> HIDE DEF d, x, y
<1>4. [r EXCEPT !.stream = x, !.current = y]
        = [stream |-> x, current |-> y,
           lineNr |-> r.lineNr, aborted |-> r.aborted]
  <2>1. PICK m: m = [r EXCEPT !.stream = x]
    OBVIOUS
  <2>2. m = [stream |-> x, current |-> r.current, lineNr |-> r.lineNr,
             aborted |-> r.aborted]
    BY <1>2, <2>1
  <2>3. [r EXCEPT !.stream = x, !.current = y] = [m EXCEPT !.current = y]
    BY <2>1
  <2>4. [m EXCEPT !.current = y]
          = [stream |-> x, current |-> y, lineNr |-> r.lineNr,
             aborted |-> r.aborted]
    BY <2>2
  <2> QED BY <2>3, <2>4
<1> QED BY <1>3, <1>4 DEF d, x, y

\* A reader moves to the next character of its text; at the end it aborts.
LEMMA ConsumeMoves ==
  ASSUME NEW r, IsReader(r)
  PROVE  LET c == Consume(r)
             s == r.stream
         IN  /\ IsReader(c)
             /\ c.lineNr = r.lineNr
             /\ c.stream.source = s.source
             /\ Mark(c.stream) = Mark(s)
             /\ Position(s) \in Nat
             /\ Position(s) < Len(s.source) =>
                  /\ c.aborted = r.aborted
                  /\ IsComposed(c.stream, c.current, s.source,
                                Position(s) + 1, Mark(s))
             /\ ~(Position(s) < Len(s.source)) =>
                  c.aborted /\ c.stream = s /\ c.current = EOF
<1> DEFINE s == r.stream
           c == Consume(r)
           a == Advance(s)
<1>1. /\ Coherent(s) /\ r.lineNr \in Nat /\ r.aborted \in BOOLEAN
      /\ r = [stream |-> s, current |-> r.current, lineNr |-> r.lineNr,
              aborted |-> r.aborted]
  BY DEF IsReader
<1>2. Position(s) \in Nat /\ (Ended(s) <=> ~(Position(s) < Len(s.source)))
  BY <1>1, CharacterOfText
<1>3. CASE Ended(s)
  <2>1. c = [r EXCEPT !.aborted = TRUE, !.current = EOF]
    BY <1>3 DEF Consume
  <2>2. c = [stream |-> s, current |-> EOF, lineNr |-> r.lineNr,
             aborted |-> TRUE]
    BY <1>1, <2>1
  <2> HIDE DEF c, s
  <2>3. c.stream = s /\ c.current = EOF /\ c.lineNr = r.lineNr /\ c.aborted
    BY <2>2
  <2>4. IsReader(c)
    BY <1>1, <2>2, <2>3 DEF IsReader
  <2> QED BY <1>2, <1>3, <2>3, <2>4 DEF c, s
<1>4. CASE ~Ended(s)
  <2> DEFINE d == Composed(a, CurrentCharacter(a))
  <2>1. c = Load(r, a)
    BY <1>4 DEF Consume
  <2>2. c = [stream |-> d.stream, current |-> d.current, lineNr |-> r.lineNr,
             aborted |-> r.aborted]
    BY <2>1, LoadFields
  <2>3. /\ Coherent(a) /\ a.source = s.source
        /\ Position(a) = Position(s) + 1 /\ Mark(a) = Mark(s)
    BY <1>1, <1>4, AdvanceKeeps
  <2>4. IsComposed(d.stream, d.current, s.source, Position(s) + 1, Mark(s))
    BY <2>3, ComposedOfText
  <2> HIDE DEF c, s, a, d
  <2>5. /\ c.stream = d.stream /\ c.current = d.current
        /\ c.lineNr = r.lineNr /\ c.aborted = r.aborted
    BY <2>2
  <2>6. IsReader(c)
    BY <1>1, <2>2, <2>4, <2>5 DEF IsReader, IsComposed
  <2>7. c.stream.source = s.source /\ Mark(c.stream) = Mark(s)
    BY <2>4, <2>5 DEF IsComposed
  <2> QED BY <1>2, <1>4, <2>4, <2>5, <2>6, <2>7 DEF c, s
<1> QED BY <1>3, <1>4

\* The line is counted, and then the reader moves.
LEMMA NextIsConsume ==
  ASSUME NEW r, IsReader(r), ~r.aborted
  PROVE  LET n == [r EXCEPT !.lineNr =
                     IF r.current = Code.newline THEN @ + 1 ELSE @]
         IN  /\ Next(r) = Consume(n)
             /\ IsReader(n)
             /\ n.stream = r.stream /\ n.aborted = r.aborted
             /\ n.lineNr = IF r.current = Code.newline THEN r.lineNr + 1
                           ELSE r.lineNr
<1> DEFINE l == IF r.current = Code.newline THEN r.lineNr + 1 ELSE r.lineNr
           n == [r EXCEPT !.lineNr =
                   IF r.current = Code.newline THEN @ + 1 ELSE @]
<1>1. /\ r = [stream |-> r.stream, current |-> r.current, lineNr |-> r.lineNr,
              aborted |-> r.aborted]
      /\ r.lineNr \in Nat /\ Coherent(r.stream) /\ r.aborted \in BOOLEAN
  BY DEF IsReader
<1>2. n = [stream |-> r.stream, current |-> r.current, lineNr |-> l,
           aborted |-> r.aborted]
  BY <1>1
<1>3. l \in Nat
  BY <1>1
<1>4. n = [r EXCEPT !.lineNr = IF r.current = Code.newline /\ ~r.aborted
                               THEN @ + 1 ELSE @]
  OBVIOUS
<1>5. Next(r) = Consume(n)
  BY <1>4 DEF Next
<1> HIDE DEF n, l
<1>6. n.stream = r.stream /\ n.current = r.current /\ n.lineNr = l
      /\ n.aborted = r.aborted
  BY <1>2
<1>7. IsReader(n)
  BY <1>1, <1>2, <1>3, <1>6 DEF IsReader
<1> QED BY <1>5, <1>6, <1>7 DEF n, l

\* Setting the bookmark and using it up.
LEMMA BookmarkOfReader ==
  ASSUME NEW r, IsReader(r), NEW offset \in {0, 1},
         offset = 1 => ~Ended(r.stream)
  PROVE  LET b == Bookmark(r, offset)
         IN  /\ IsReader(b)
             /\ b.current = r.current /\ b.lineNr = r.lineNr
             /\ b.aborted = r.aborted
             /\ b.stream.source = r.stream.source
             /\ Position(b.stream) = Position(r.stream)
             /\ Mark(b.stream) = Position(r.stream) + offset
<1> DEFINE b == Bookmark(r, offset)
           w == WithBookmark(r.stream, offset)
<1>1. /\ r = [stream |-> r.stream, current |-> r.current, lineNr |-> r.lineNr,
              aborted |-> r.aborted]
      /\ Coherent(r.stream) /\ r.lineNr \in Nat /\ r.aborted \in BOOLEAN
  BY DEF IsReader
<1>2. b = [r EXCEPT !.stream = w]
  BY DEF Bookmark
<1>3. /\ Coherent(w) /\ w.source = r.stream.source
      /\ Position(w) = Position(r.stream)
      /\ Mark(w) = Position(r.stream) + offset
  BY <1>1, BookmarkKeeps
<1> HIDE DEF b, w
<1>4. b = [stream |-> w, current |-> r.current, lineNr |-> r.lineNr,
           aborted |-> r.aborted]
  BY <1>1, <1>2
<1>5. b.stream = w /\ b.current = r.current /\ b.lineNr = r.lineNr
      /\ b.aborted = r.aborted
  BY <1>4
<1>6. IsReader(b)
  BY <1>1, <1>3, <1>4, <1>5 DEF IsReader
<1> QED BY <1>3, <1>5, <1>6 DEF b

LEMMA ExtractedOfReader ==
  ASSUME NEW r, IsReader(r)
  PROVE  LET b == Extracted(r)
         IN  /\ IsReader(b)
             /\ b.current = r.current /\ b.lineNr = r.lineNr
             /\ b.aborted = r.aborted
             /\ b.stream.source = r.stream.source
             /\ Position(b.stream) = Position(r.stream)
             /\ Mark(b.stream) = NoBookmark
<1> DEFINE b == Extracted(r)
           w == WithoutBookmark(r.stream)
<1>1. /\ r = [stream |-> r.stream, current |-> r.current, lineNr |-> r.lineNr,
              aborted |-> r.aborted]
      /\ Coherent(r.stream) /\ r.lineNr \in Nat /\ r.aborted \in BOOLEAN
  BY DEF IsReader
<1>2. b = [r EXCEPT !.stream = w]
  BY DEF Extracted
<1>3. /\ Coherent(w) /\ w.source = r.stream.source
      /\ Position(w) = Position(r.stream)
      /\ Mark(w) = NoBookmark
  BY <1>1, ClearKeeps
<1> HIDE DEF b, w
<1>4. b = [stream |-> w, current |-> r.current, lineNr |-> r.lineNr,
           aborted |-> r.aborted]
  BY <1>1, <1>2
<1>5. b.stream = w /\ b.current = r.current /\ b.lineNr = r.lineNr
      /\ b.aborted = r.aborted
  BY <1>4
<1>6. IsReader(b)
  BY <1>1, <1>3, <1>4, <1>5 DEF IsReader
<1> QED BY <1>3, <1>5, <1>6 DEF b

\* A region, with a bookmark or without.
LEMMA RegionOfMark ==
  ASSUME NEW s, Coherent(s), Mark(s) <= Position(s)
  PROVE  Region(s) = IF Mark(s) = NoBookmark THEN <<>>
                     ELSE SubSeq(s.source, Mark(s) + 1, Position(s))
<1>1. CASE s.bookmark = NoBookmark
  BY <1>1 DEF Region, Mark
<1>2. CASE s.bookmark # NoBookmark
  <2>1. Region(s) = SubSeq(s.source, Mark(s) + 1, Position(s))
    BY <1>2, RegionOfText
  <2>2. Mark(s) # NoBookmark
    BY <1>2, MarkIsPosition
  <2> QED BY <2>1, <2>2
<1> QED BY <1>1, <1>2
-----------------------------------------------------------------------------
\* The reader is where a character of its text stops, and tells that.
AtCharacter ==
  \E p \in 0..Len(Source): /\ Cursor = Characters!Stop(Source, p)
                           /\ reader.current = Characters!CharacterAt(Source, p)

ReaderInv == IsReader(reader) /\ AtCharacter

\* A character stops in front of the end of the text, or at it.
LEMMA StopInText ==
  ASSUME NEW t \in Seq(Byte), NEW p \in 0..Len(t)
  PROVE  /\ Characters!Stop(t, p) \in p..Len(t)
         /\ p < Len(t) /\ Characters!IsWhole(t, p)
              => Characters!Stop(t, p) < Len(t)
<1>1. Len(t) \in Nat /\ p \in Nat
  BY LenProperties
<1>2. CASE ~(p < Len(t))
  BY <1>1, <1>2 DEF Characters!Stop
<1>3. CASE p < Len(t)
  <2> DEFINE k == Characters!Following(t, p)
             n == Characters!Announced(t[p + 1]) - 1
  <2>1. n \in 0..3 /\ k \in 0..n /\ Characters!Continues(t, p, k)
    BY <1>1, <1>3, FollowingExists
  <2>2. Characters!Stop(t, p) = IF Characters!IsWhole(t, p) THEN p + k
                                ELSE p + k + 1
    BY <1>1, <1>3 DEF Characters!Stop
  <2>3. p + k < Len(t)
    BY <2>1 DEF Characters!Continues
  <2> HIDE DEF k, n
  <2> QED BY <1>1, <2>1, <2>2, <2>3
<1> QED BY <1>2, <1>3

\* A composed character puts the reader at one.
LEMMA MovesToCharacter ==
  ASSUME IsReader(reader), AtCharacter, ~reader.aborted,
         NEW r, IsReader(r), r.stream = reader.stream, r.aborted = reader.aborted,
         reader' = Consume(r)
  PROVE  /\ ReaderInv'
         /\ Source' = Source
         /\ Mark(reader.stream)' = Mark(reader.stream)
         /\ reader'.lineNr = r.lineNr
         /\ Cursor \in Nat
         /\ IF Cursor < Len(Source)
            THEN /\ Cursor' = Characters!Stop(Source, Cursor + 1)
                 /\ reader'.current = Characters!CharacterAt(Source, Cursor + 1)
                 /\ reader'.aborted = reader.aborted
            ELSE /\ Cursor' = Cursor
                 /\ reader'.current = EOF
                 /\ reader'.aborted
<1> DEFINE s == reader.stream
           t == s.source
           p == Position(s)
           c == reader'
<1>1. /\ IsReader(c)
      /\ c.lineNr = r.lineNr
      /\ c.stream.source = t
      /\ Mark(c.stream) = Mark(s)
      /\ p \in Nat
      /\ p < Len(t) =>
           /\ c.aborted = reader.aborted
           /\ IsComposed(c.stream, c.current, t, p + 1, Mark(s))
      /\ ~(p < Len(t)) => c.aborted /\ c.stream = s /\ c.current = EOF
  BY ConsumeMoves
<1>2. Source' = c.stream.source /\ Cursor' = Position(c.stream)
      /\ Mark(reader.stream)' = Mark(c.stream) /\ Source = t /\ Cursor = p
  BY DEF Source, Cursor, Position, PortionStart, Mark
<1>3. IsReader(reader)'
  BY <1>1 DEF IsReader, Coherent, PortionCoherent, BookmarkCoherent,
              PortionStart, Ended, BufferedStream
<1>4. t \in Seq(Byte) /\ Len(t) \in Nat /\ p <= Len(t)
  BY CharacterOfText, Fields DEF IsReader, Coherent
<1>5. CASE p < Len(t)
  <2>1. /\ Position(c.stream) = Characters!Stop(t, p + 1)
        /\ c.current = Characters!CharacterAt(t, p + 1)
        /\ c.aborted = reader.aborted
    BY <1>1, <1>5 DEF IsComposed
  <2>2. p + 1 \in 0..Len(t)
    BY <1>1, <1>4, <1>5
  <2>3. AtCharacter'
    BY <1>1, <1>2, <2>1, <2>2 DEF AtCharacter
  <2> QED BY <1>1, <1>2, <1>3, <1>5, <2>1, <2>3 DEF ReaderInv
<1>6. CASE ~(p < Len(t))
  <2>1. c.aborted /\ c.stream = s /\ c.current = EOF
    BY <1>1, <1>6
  <2>2. p = Len(t) /\ p \in 0..Len(t)
    BY <1>1, <1>4, <1>6
  <2>3. Characters!Stop(t, p) = p /\ Characters!CharacterAt(t, p) = EOF
    BY <1>4, <2>2 DEF Characters!Stop, Characters!CharacterAt
  <2>4. AtCharacter'
    BY <1>1, <1>2, <2>1, <2>2, <2>3 DEF AtCharacter
  <2> QED BY <1>1, <1>2, <1>3, <1>6, <2>1, <2>4 DEF ReaderInv
<1> QED BY <1>5, <1>6
-----------------------------------------------------------------------------
\* At the end of the text the reader tells so, or the last character is cut.
LEMMA ToldAtTheEnd ==
  ASSUME ReaderInv, Ended(reader.stream)
  PROVE  /\ reader.current \in {EOF, Replacement}
         /\ reader.current # EOF =>
              \E p \in 0..Len(Source) - 1: /\ ~Characters!IsWhole(Source, p)
                                           /\ Characters!Stop(Source, p)
                                                = Len(Source)
<1> DEFINE t == Source
<1>1. /\ t \in Seq(Byte) /\ Len(t) \in Nat /\ Cursor = Len(t)
  <2>1. Coherent(reader.stream)
    BY DEF ReaderInv, IsReader
  <2>2. /\ Cursor \in Nat /\ Cursor <= Len(t) /\ ~(Cursor < Len(t))
    BY <2>1, CharacterOfText DEF Source, Cursor
  <2>3. t \in Seq(Byte) /\ Len(t) \in Nat
    BY <2>1, Fields DEF Source, Coherent
  <2> HIDE DEF t
  <2> QED BY <2>2, <2>3
<1>2. PICK p \in 0..Len(t): /\ Len(t) = Characters!Stop(t, p)
                            /\ reader.current = Characters!CharacterAt(t, p)
  BY <1>1 DEF ReaderInv, AtCharacter
<1>3. CASE p = Len(t)
  BY <1>1, <1>2, <1>3 DEF Characters!CharacterAt
<1>4. CASE p < Len(t)
  <2>1. ~Characters!IsWhole(t, p)
    BY <1>1, <1>2, <1>4, StopInText
  <2>2. reader.current = Replacement
    BY <1>1, <1>2, <1>4, <2>1 DEF Characters!CharacterAt
  <2>3. p \in 0..Len(t) - 1
    BY <1>1, <1>4
  <2> QED BY <1>2, <2>1, <2>2, <2>3
<1> QED BY <1>1, <1>2, <1>3, <1>4

LEMMA QuoteIsInText ==
  ASSUME ReaderInv, reader.current = Code.quote
  PROVE  ~Ended(reader.stream)
BY ToldAtTheEnd DEF Code, EOF, Replacement

LEMMA OpenedReader ==
  ASSUME NEW text \in Seq(Byte), NEW size \in Nat \ {0}
  PROVE  LET r == ReaderOf(OpenStream(text, size))
         IN  /\ IsReader(r)
             /\ r.stream.source = text
             /\ Position(r.stream) = Characters!Stop(text, 0)
             /\ r.current = Characters!CharacterAt(text, 0)
             /\ r.lineNr = 1
             /\ r.aborted = FALSE
             /\ Mark(r.stream) = NoBookmark
<1> DEFINE s == OpenStream(text, size)
           r == ReaderOf(s)
           b == [stream |-> s, current |-> EOF, lineNr |-> 1, aborted |-> FALSE]
           d == Composed(s, CurrentCharacter(s))
<1>3. Coherent(s) /\ s.source = text /\ Position(s) = 0 /\ Mark(s) = NoBookmark
  BY OpenKeeps
<1>4. r = Load(b, s)
  BY DEF ReaderOf
<1>5. IsComposed(d.stream, d.current, text, 0, NoBookmark)
  BY <1>3, ComposedOfText
<1> HIDE DEF s, d, r
<1>6. /\ b.stream = s /\ b.lineNr = 1 /\ b.lineNr \in Nat
      /\ b.aborted = FALSE /\ b.aborted \in BOOLEAN
  OBVIOUS
<1>7. b = [stream |-> b.stream, current |-> b.current, lineNr |-> b.lineNr,
           aborted |-> b.aborted]
  OBVIOUS
<1> HIDE DEF b
<1>8. IsReader(b)
  <2>1. Coherent(b.stream)
    BY <1>3, <1>6
  <2> QED BY <1>6, <1>7, <2>1 DEF IsReader
<1>9. r = [stream |-> d.stream, current |-> d.current, lineNr |-> 1,
           aborted |-> FALSE]
  BY <1>4, <1>6, <1>8, LoadFields DEF d
<1>10. /\ r.stream = d.stream /\ r.current = d.current
       /\ r.lineNr = 1 /\ r.aborted = FALSE
  BY <1>9
<1>11. IsReader(r)
  BY <1>5, <1>9, <1>10 DEF IsReader, IsComposed
<1>12. /\ r.stream.source = text
       /\ Position(r.stream) = Characters!Stop(text, 0)
       /\ r.current = Characters!CharacterAt(text, 0)
       /\ Mark(r.stream) = NoBookmark
  BY <1>5, <1>10 DEF IsComposed
<1> QED BY <1>10, <1>11, <1>12 DEF r, s

\* Behind no bytes is the end.
LEMMA NoCharacters ==
  Characters!Stop(<<>>, 0) = 0 /\ Characters!CharacterAt(<<>>, 0) = EOF
BY DEF Characters!Stop, Characters!CharacterAt

LEMMA InitNoReader ==
  ASSUME ClientInit
  PROVE  /\ IsReader(reader)
         /\ Source = <<>> /\ Cursor = 0
         /\ reader.current = EOF /\ reader.lineNr = 1
         /\ reader.aborted = FALSE
         /\ Mark(reader.stream) = NoBookmark
         /\ region = <<>>
<1>1. PICK size \in PortionSizes: reader = ReaderOf(OpenStream(<<>>, size))
  BY DEF ClientInit
<1>2. <<>> \in Seq(Byte) /\ size \in Nat \ {0}
  BY PortionSizesAssumption
<1>3. /\ IsReader(reader)
      /\ reader.stream.source = <<>>
      /\ Position(reader.stream) = Characters!Stop(<<>>, 0)
      /\ reader.current = Characters!CharacterAt(<<>>, 0)
      /\ reader.lineNr = 1 /\ reader.aborted = FALSE
      /\ Mark(reader.stream) = NoBookmark
  BY <1>1, <1>2, OpenedReader
<1>4. region = <<>>
  BY DEF ClientInit
<1> QED BY <1>3, <1>4, NoCharacters DEF Source, Cursor

LEMMA InitAtCharacter == ClientInit => ReaderInv
<1> SUFFICES ASSUME ClientInit PROVE ReaderInv
  OBVIOUS
<1>1. 0 \in 0..Len(Source) /\ Len(Source) = 0
  BY InitNoReader
<1> QED BY <1>1, InitNoReader, NoCharacters DEF ReaderInv, AtCharacter

\* A reader over a new text.
LEMMA OpensAtCharacter ==
  ASSUME NEW text \in Seq(Byte), NEW size \in Nat \ {0},
         InitReader(OpenStream(text, size))
  PROVE  /\ ReaderInv'
         /\ Characters!Open
         /\ Source' = text /\ Cursor' = Characters!Stop(text, 0)
         /\ reader'.lineNr = 1
<1> DEFINE r == ReaderOf(OpenStream(text, size))
<1>1. reader' = r /\ region' = <<>>
  BY DEF InitReader
<1>2. /\ IsReader(r)
      /\ r.stream.source = text
      /\ Position(r.stream) = Characters!Stop(text, 0)
      /\ r.current = Characters!CharacterAt(text, 0)
      /\ r.lineNr = 1
      /\ r.aborted = FALSE
      /\ Mark(r.stream) = NoBookmark
  BY OpenedReader
<1> HIDE DEF r
<1>3. Source' = text /\ Cursor' = Characters!Stop(text, 0)
  BY <1>1, <1>2 DEF Source, Cursor, Position, PortionStart
<1>4. IsReader(reader)'
  BY <1>1, <1>2 DEF IsReader, Coherent, PortionCoherent, BookmarkCoherent,
                    PortionStart, Ended, BufferedStream
<1>5. Mark(reader.stream)' = NoBookmark
  BY <1>1, <1>2 DEF Mark, PortionStart
<1>6. /\ reader'.current = Characters!CharacterAt(text, 0)
      /\ reader'.lineNr = 1 /\ reader'.aborted = FALSE
  BY <1>1, <1>2
<1>7. Characters!Open
  BY <1>1, <1>3, <1>5, <1>6 DEF Characters!Open, Characters!Byte, Byte
<1>8. 0 \in 0..Len(text)
  BY LenProperties
<1>9. ReaderInv'
  BY <1>3, <1>4, <1>6, <1>8 DEF ReaderInv, AtCharacter
<1> QED BY <1>3, <1>6, <1>7, <1>9

\* What the parts of the reader are after a step that leaves it where it is.
LEMMA StaysAtCharacter ==
  ASSUME ReaderInv, NEW r, IsReader(r), reader' = r,
         r.current = reader.current,
         r.stream.source = reader.stream.source,
         Position(r.stream) = Position(reader.stream)
  PROVE  ReaderInv' /\ Source' = Source /\ Cursor' = Cursor
<1>1. /\ Source' = Source
      /\ Cursor' = Position(r.stream) /\ Cursor = Position(r.stream)
  BY DEF Source, Cursor, Position, PortionStart
<1>2. IsReader(reader)'
  BY DEF IsReader, Coherent, PortionCoherent, BookmarkCoherent,
         PortionStart, Ended, BufferedStream
<1>3. reader'.current = reader.current
  OBVIOUS
<1> QED BY <1>1, <1>2, <1>3 DEF ReaderInv, AtCharacter

\* Each step of a client as one of what it is promised, and the invariant.
LEMMA NextMoves ==
  ASSUME ReaderInv, ~reader.aborted, NextUTF32Character
  PROVE  /\ ReaderInv'
         /\ Source' = Source
         /\ Cursor' = IF Cursor < Len(Source)
                      THEN Characters!Stop(Source, Cursor + 1) ELSE Cursor
         /\ Characters!Next
         /\ reader'.lineNr = IF reader.current = Code.newline
                             THEN reader.lineNr + 1 ELSE reader.lineNr
<1> DEFINE n == [reader EXCEPT !.lineNr =
                   IF reader.current = Code.newline THEN @ + 1 ELSE @]
<1>1. IsReader(reader) /\ AtCharacter
  BY DEF ReaderInv
<1>2. /\ Next(reader) = Consume(n)
      /\ IsReader(n)
      /\ n.stream = reader.stream /\ n.aborted = reader.aborted
      /\ n.lineNr = IF reader.current = Code.newline THEN reader.lineNr + 1
                    ELSE reader.lineNr
  BY <1>1, NextIsConsume
<1>3. reader' = Consume(n) /\ region' = <<>>
  BY <1>2 DEF NextUTF32Character
<1> HIDE DEF n
<1>4. /\ ReaderInv'
      /\ Source' = Source
      /\ Mark(reader.stream)' = Mark(reader.stream)
      /\ reader'.lineNr = n.lineNr
      /\ IF Cursor < Len(Source)
         THEN /\ Cursor' = Characters!Stop(Source, Cursor + 1)
              /\ reader'.current = Characters!CharacterAt(Source, Cursor + 1)
              /\ reader'.aborted = reader.aborted
         ELSE /\ Cursor' = Cursor
              /\ reader'.current = EOF
              /\ reader'.aborted
  BY <1>1, <1>2, <1>3, MovesToCharacter
<1>5. reader'.aborted \in BOOLEAN
  BY <1>4 DEF ReaderInv, IsReader
<1>6. Characters!Move
  BY <1>3, <1>4, <1>5 DEF Characters!Move
<1>7. Characters!Next
  BY <1>2, <1>4, <1>6 DEF Characters!Next, Characters!Code, Code
<1> QED BY <1>2, <1>4, <1>7

LEMMA ConsumeMovesOn ==
  ASSUME ReaderInv, ~reader.aborted, ConsumeCurrentUTF32Character
  PROVE  /\ ReaderInv'
         /\ Source' = Source
         /\ Cursor' = IF Cursor < Len(Source)
                      THEN Characters!Stop(Source, Cursor + 1) ELSE Cursor
         /\ reader.current # Code.newline
         /\ Characters!Consume
         /\ reader'.lineNr = reader.lineNr
<1>1. IsReader(reader) /\ AtCharacter
  BY DEF ReaderInv
<1>2. reader' = Consume(reader) /\ region' = <<>>
      /\ reader.current # Code.newline
  BY DEF ConsumeCurrentUTF32Character
<1>3. /\ ReaderInv'
      /\ Source' = Source
      /\ Mark(reader.stream)' = Mark(reader.stream)
      /\ reader'.lineNr = reader.lineNr
      /\ IF Cursor < Len(Source)
         THEN /\ Cursor' = Characters!Stop(Source, Cursor + 1)
              /\ reader'.current = Characters!CharacterAt(Source, Cursor + 1)
              /\ reader'.aborted = reader.aborted
         ELSE /\ Cursor' = Cursor
              /\ reader'.current = EOF
              /\ reader'.aborted
  BY <1>1, <1>2, MovesToCharacter
<1>4. reader'.aborted \in BOOLEAN
  BY <1>3 DEF ReaderInv, IsReader
<1>5. Characters!Move
  BY <1>2, <1>3, <1>4 DEF Characters!Move
<1>6. Characters!Consume
  BY <1>2, <1>3, <1>5 DEF Characters!Consume, Characters!Code, Code
<1> QED BY <1>2, <1>3, <1>6

LEMMA BookmarkMarks ==
  ASSUME ReaderInv, NEW offset \in {0, 1}, BookmarkReader(offset)
  PROVE  /\ ReaderInv'
         /\ Source' = Source /\ Cursor' = Cursor
         /\ Characters!SetMark(offset)
         /\ reader'.lineNr = reader.lineNr
<1> DEFINE b == Bookmark(reader, offset)
<1>1. IsReader(reader) /\ reader' = b /\ region' = <<>>
      /\ (offset = 1 => ~Ended(reader.stream))
  BY QuoteIsInText DEF ReaderInv, BookmarkReader
<1>2. /\ IsReader(b)
      /\ b.current = reader.current /\ b.lineNr = reader.lineNr
      /\ b.aborted = reader.aborted
      /\ b.stream.source = reader.stream.source
      /\ Position(b.stream) = Position(reader.stream)
      /\ Mark(b.stream) = Position(reader.stream) + offset
  BY <1>1, BookmarkOfReader
<1> HIDE DEF b
<1>3. ReaderInv' /\ Source' = Source /\ Cursor' = Cursor
  BY <1>1, <1>2, StaysAtCharacter
<1>4. Mark(reader.stream)' = Cursor + offset
  BY <1>1, <1>2 DEF Cursor, Mark, PortionStart
<1>5. /\ reader'.current = reader.current /\ reader'.lineNr = reader.lineNr
      /\ reader'.aborted = reader.aborted
  BY <1>1, <1>2
<1>6. Characters!SetMark(offset)
  BY <1>1, <1>3, <1>4, <1>5 DEF Characters!SetMark
<1> QED BY <1>3, <1>5, <1>6

LEMMA ExtractTakes ==
  ASSUME ReaderInv, ExtractBookmarkedRegion
  PROVE  /\ ReaderInv'
         /\ Source' = Source /\ Cursor' = Cursor
         /\ Characters!TakeMarked
         /\ reader'.lineNr = reader.lineNr
<1> DEFINE b == Extracted(reader)
           s == reader.stream
<1>1. IsReader(reader) /\ reader' = b /\ region' = Region(s)
      /\ Mark(s) <= Position(s) /\ Coherent(s)
  BY DEF ReaderInv, IsReader, ExtractBookmarkedRegion, BookmarkedRegion
<1>2. /\ IsReader(b)
      /\ b.current = reader.current /\ b.lineNr = reader.lineNr
      /\ b.aborted = reader.aborted
      /\ b.stream.source = s.source
      /\ Position(b.stream) = Position(s)
      /\ Mark(b.stream) = NoBookmark
  BY <1>1, ExtractedOfReader
<1>3. Region(s) = IF Mark(s) = NoBookmark THEN <<>>
                  ELSE SubSeq(Source, Mark(s) + 1, Cursor)
  BY <1>1, RegionOfMark DEF Source, Cursor
<1> HIDE DEF b
<1>4. ReaderInv' /\ Source' = Source /\ Cursor' = Cursor
  BY <1>1, <1>2, StaysAtCharacter
<1>5. Mark(reader.stream)' = NoBookmark
  BY <1>1, <1>2 DEF Mark, PortionStart
<1>6. /\ reader'.current = reader.current /\ reader'.lineNr = reader.lineNr
      /\ reader'.aborted = reader.aborted
  BY <1>1, <1>2
<1>7. Characters!TakeMarked
  BY <1>1, <1>3, <1>4, <1>5, <1>6 DEF Characters!TakeMarked
<1> QED BY <1>4, <1>6, <1>7

LEMMA StepReader ==
  ASSUME ReaderInv, [ClientNext]_clientVars
  PROVE  ReaderInv' /\ [Characters!AnyStep]_(Characters!vars)
<1>1. CASE UNCHANGED clientVars
  <2>1. Characters!vars' = Characters!vars
    BY <1>1 DEF clientVars, Characters!vars, Source, Cursor, Position,
                Mark, PortionStart
  <2>2. ReaderInv'
    BY <1>1 DEF clientVars, ReaderInv, AtCharacter, Source, Cursor, IsReader,
                Coherent, PortionCoherent, BookmarkCoherent, Position,
                PortionStart, Ended, BufferedStream
  <2> QED BY <2>1, <2>2
<1>2. CASE ClientNext
  <2>1. ASSUME NEW text \in Texts, NEW size \in PortionSizes,
               InitReader(OpenStream(text, size))
        PROVE  ReaderInv' /\ Characters!AnyStep
    BY <2>1, TextsAssumption, PortionSizesAssumption, OpensAtCharacter
       DEF Characters!AnyStep
  <2>2. CASE AccessReader
    <3>1. ~reader.aborted
      BY <2>2 DEF AccessReader
    <3>2. CASE NextUTF32Character
      BY <3>1, <3>2, NextMoves DEF Characters!AnyStep, Characters!Access
    <3>3. CASE ConsumeCurrentUTF32Character
      BY <3>1, <3>3, ConsumeMovesOn DEF Characters!AnyStep, Characters!Access
    <3>4. ASSUME NEW offset \in {0, 1}, BookmarkReader(offset)
          PROVE  ReaderInv' /\ Characters!AnyStep
      BY <3>1, <3>4, BookmarkMarks DEF Characters!AnyStep, Characters!Access
    <3>5. CASE ExtractBookmarkedRegion
      BY <3>1, <3>5, ExtractTakes DEF Characters!AnyStep, Characters!Access
    <3> QED BY <2>2, <3>2, <3>3, <3>4, <3>5 DEF AccessReader
  <2> QED BY <1>2, <2>1, <2>2 DEF ClientNext
<1> QED BY <1>1, <1>2

LEMMA InitCharacters == ClientInit => Characters!Init
BY InitNoReader DEF Characters!Init

\* A MulleObjCUTF8StreamReader implements a CharacterText, for all texts,
\* UTF-8 or not, and all sizes of the portions: a parser sees the characters
\* one after the other and, for a bookmark, the bytes it has passed since.
THEOREM ReaderReadsTheCharacters == ClientSpec => ReadsTheCharacters
<1> QED BY InitAtCharacter, InitCharacters, StepReader, PTL
        DEF ClientSpec, ReadsTheCharacters, Characters!Spec

LEMMA EndTold == ReaderInv => EndIsTold
<1> SUFFICES ASSUME ReaderInv, Ended(reader.stream), reader.current # EOF
             PROVE  IsCut(Source)
  BY DEF EndIsTold
<1> DEFINE t == Source
<1>1. t \in Seq(Byte) /\ Len(t) \in Nat
  BY Fields DEF ReaderInv, IsReader, Coherent, Source
<1>2. PICK p \in 0..Len(t) - 1: /\ ~Characters!IsWhole(t, p)
                                /\ Characters!Stop(t, p) = Len(t)
  BY ToldAtTheEnd
<1> DEFINE f == Characters!Following(t, p)
           n == Characters!Announced(t[p + 1]) - 1
<1>3. p \in Nat /\ p < Len(t)
  BY <1>1, <1>2
<1>4. n \in 0..3 /\ f \in 0..n /\ Characters!Continues(t, p, f)
  BY <1>1, <1>3, FollowingExists
<1>5. f # n /\ p + f + 1 = Len(t)
  BY <1>2, <1>3 DEF Characters!IsWhole, Characters!Stop
<1>6. \A l \in 1..f: t[p + l + 1] \in 128..191
  BY <1>4 DEF Characters!Continues
<1>7. n + 1 = Characters!Announced(t[p + 1])
  <2>1. p + 1 \in 1..Len(t)
    BY <1>1, <1>3
  <2>2. Characters!Announced(t[p + 1]) \in 1..4
    BY <1>1, <2>1, ByteOfText, AnnouncedRange
  <2> QED BY <2>2
<1> HIDE DEF f, n, t
<1>8. Len(t) - (f + 1) + 1 = p + 1 /\ f + 1 < n + 1 /\ f + 1 \in 1..Len(t)
  BY <1>1, <1>3, <1>4, <1>5
<1>9. ASSUME NEW i \in Len(t) - (f + 1) + 2..Len(t)
      PROVE  t[i] \in Continuation
  <2>1. i - p - 1 \in 1..f /\ p + (i - p - 1) + 1 = i
    BY <1>1, <1>3, <1>4, <1>5, <1>9
  <2>2. t[p + (i - p - 1) + 1] \in 128..191
    BY <1>6, <2>1
  <2> QED BY <2>1, <2>2 DEF Continuation
<1>10. f + 1 < Characters!Announced(t[Len(t) - (f + 1) + 1])
  BY <1>7, <1>8
<1> QED BY <1>8, <1>9, <1>10 DEF IsCut, t

\* Behind the last byte a UTF-8 stream reader tells of the end, unless the
\* text is cut inside of a character, for all texts and all portions.
THEOREM ReaderTellsTheEnd == ClientSpec => []EndIsTold
<1>1. ReaderInv => EndIsTold
  BY EndTold
<1>2. ReaderInv /\ [ClientNext]_clientVars => ReaderInv'
  BY StepReader
<1> QED BY InitAtCharacter, <1>1, <1>2, PTL DEF ClientSpec
-----------------------------------------------------------------------------
\* A character that announces more than one byte does not begin with a
\* line's end, and one that begins with it has no other byte.
LEMMA AnnouncedOfLine ==
  ASSUME NEW x \in Byte
  PROVE  /\ Characters!Announced(x) > 1 => x # Code.newline
         /\ Characters!Announced(x) = 1
              => (Characters!LeadBits(x) = Code.newline <=> x = Code.newline)
BY DEF Byte, Code, Replacement, Characters!Announced, Characters!LeadBits

LEMMA LineIsNoContinuation == \A x \in 128..191: x # Code.newline
<1>1. Code.newline = 10
  BY DEF Code
<1> QED BY <1>1

\* Between the first byte of a character and the cursor no line ends.
LEMMA NoLineInside ==
  ASSUME NEW t \in Seq(Byte), NEW q \in 0..Len(t),
         NEW i \in q + 1..Characters!Stop(t, q)
  PROVE  t[i] # Code.newline
<1> DEFINE f == Characters!Following(t, q)
           n == Characters!Announced(t[q + 1]) - 1
<1>1. Len(t) \in Nat /\ q \in Nat
  BY LenProperties
<1>2. q < Len(t)
  <2>1. CASE ~(q < Len(t))
    BY <1>1, <2>1 DEF Characters!Stop
  <2> QED BY <2>1
<1>3. n \in 0..3 /\ f \in 0..n /\ Characters!Continues(t, q, f)
  BY <1>1, <1>2, FollowingExists
<1>4. t[q + 1] \in Byte /\ Characters!Announced(t[q + 1]) \in 1..4
  <2>1. q + 1 \in 1..Len(t)
    BY <1>1, <1>2
  <2> QED BY <2>1, ByteOfText, AnnouncedRange
<1>5. \A l \in 1..f: t[q + l + 1] \in 128..191
  BY <1>3 DEF Characters!Continues
<1>6. /\ Characters!Stop(t, q) = IF f = n THEN q + f ELSE q + f + 1
      /\ f \in Nat /\ n \in Nat
  BY <1>1, <1>2, <1>3 DEF Characters!Stop, Characters!IsWhole
<1>7. i \in Int /\ i >= q + 1 /\ i <= Characters!Stop(t, q)
  BY <1>1, <1>6
<1>8. n + 1 = Characters!Announced(t[q + 1])
  BY <1>4
<1> HIDE DEF f, n
<1>9. CASE i = q + 1
  <2>1. n > 0
    BY <1>1, <1>3, <1>6, <1>7, <1>9
  <2>2. Characters!Announced(t[q + 1]) > 1
    BY <1>3, <1>8, <2>1
  <2> QED BY <1>4, <1>9, <2>2, AnnouncedOfLine
<1>10. CASE i > q + 1
  <2>1. i - q - 1 \in 1..f /\ q + (i - q - 1) + 1 = i
    BY <1>1, <1>3, <1>6, <1>7, <1>10
  <2>2. t[i] \in 128..191
    BY <1>5, <2>1
  <2> QED BY <2>2, LineIsNoContinuation
<1> QED BY <1>1, <1>7, <1>9, <1>10

\* In front of the end of a text whose lines are whole, a character is told
\* as a line's end when the cursor is at one.
LEMMA LineUnderCursor ==
  ASSUME NEW t \in Seq(Byte), LinesAreWhole(t), NEW q \in 0..Len(t),
         Characters!Stop(t, q) < Len(t)
  PROVE  Characters!CharacterAt(t, q) = Code.newline
           <=> t[Characters!Stop(t, q) + 1] = Code.newline
<1> DEFINE f == Characters!Following(t, q)
           n == Characters!Announced(t[q + 1]) - 1
           z == Characters!Stop(t, q)
<1>1. Len(t) \in Nat /\ q \in Nat
  BY LenProperties
<1>2. q < Len(t)
  <2>1. CASE ~(q < Len(t))
    BY <1>1, <2>1 DEF Characters!Stop
  <2> QED BY <2>1
<1>3. n \in 0..3 /\ f \in 0..n /\ Characters!Continues(t, q, f)
  BY <1>1, <1>2, FollowingExists
<1>4. q + 1 \in 1..Len(t)
  BY <1>1, <1>2
<1>5. t[q + 1] \in Byte /\ Characters!Announced(t[q + 1]) \in 1..4
  BY <1>4, ByteOfText, AnnouncedRange
<1>6. /\ z = IF f = n THEN q + f ELSE q + f + 1
      /\ Characters!CharacterAt(t, q) = Characters!Bits(t, q, f)
  <2>1. Characters!CharacterAt(t, q) = Characters!Bits(t, q, f)
    BY <1>1, <1>2 DEF Characters!CharacterAt
  <2> QED BY <1>1, <1>2, <2>1 DEF Characters!Stop, Characters!IsWhole
<1>7. n + 1 = Characters!Announced(t[q + 1])
  BY <1>5
<1>8. CASE n = 0
  <2>1. f = 0 /\ z = q /\ Characters!Announced(t[q + 1]) = 1
    BY <1>1, <1>3, <1>6, <1>7, <1>8
  <2>2. Characters!CharacterAt(t, q) = Characters!LeadBits(t[q + 1])
    BY <1>6, <2>1 DEF Characters!Bits
  <2> QED BY <1>5, <2>1, <2>2, AnnouncedOfLine
<1>9. CASE n > 0
  <2>1. t[q + 1] # Code.newline
    <3>1. Characters!Announced(t[q + 1]) > 1
      BY <1>3, <1>7, <1>9
    <3> QED BY <1>5, <3>1, AnnouncedOfLine
  <2>2. Characters!CharacterAt(t, q) # Code.newline
    <3>1. q \in 0..Len(t) - 1
      BY <1>1, <1>2
    <3> QED BY <2>1, <3>1 DEF LinesAreWhole
  <2>3. t[z + 1] # Code.newline
    <3>1. CASE f = n
      <4>1. n \in 1..f /\ z + 1 = q + n + 1
        BY <1>1, <1>3, <1>6, <1>9, <3>1
      <4>2. t[q + n + 1] \in 128..191
        BY <1>3, <4>1 DEF Characters!Continues
      <4> QED BY <4>1, <4>2, LineIsNoContinuation
    <3>2. CASE f # n
      <4>1. z < Len(t)
        OBVIOUS
      <4>2. f + 1 \in 1..n /\ z + 1 = (q + 1) + (f + 1)
        <5> HIDE DEF f, n, z
        <5> QED BY <1>1, <1>3, <1>6, <3>2
      <4>3. (q + 1) + (f + 1) <= Len(t)
        <5> HIDE DEF f, n, z
        <5> QED BY <1>1, <1>2, <1>3, <1>6, <3>2, <4>1, <4>2
      <4>4. t[(q + 1) + (f + 1)] # Code.newline
        BY <1>4, <4>2, <4>3 DEF LinesAreWhole
      <4> QED BY <4>2, <4>4
    <3> QED BY <3>1, <3>2
  <2> QED BY <2>2, <2>3
<1> QED BY <1>3, <1>8, <1>9

LEMMA LineEndsFinite ==
  ASSUME NEW t, NEW n \in Nat
  PROVE  IsFiniteSet(LineEnds(t, n)) /\ Cardinality(LineEnds(t, n)) \in Nat
<1>1. IsFiniteSet(1..n)
  BY FS_Interval
<1>2. LineEnds(t, n) \in SUBSET (1..n)
  BY DEF LineEnds
<1> QED BY <1>1, <1>2, FS_Subset, FS_CardinalityType

\* A move passes the line's end under the cursor and no other.
LEMMA LineEndsOfMove ==
  ASSUME NEW t \in Seq(Byte), NEW c \in 0..Len(t) - 1
  PROVE  Cardinality(LineEnds(t, Characters!Stop(t, c + 1)))
           = IF t[c + 1] = Code.newline THEN Cardinality(LineEnds(t, c)) + 1
             ELSE Cardinality(LineEnds(t, c))
<1> DEFINE z == Characters!Stop(t, c + 1)
<1>1. Len(t) \in Nat /\ c \in Nat /\ c + 1 \in 0..Len(t)
  BY LenProperties
<1>2. z \in Nat /\ z >= c + 1
  BY <1>1, StopInText
<1>3. \A i \in (c + 1) + 1..z: t[i] # Code.newline
  BY <1>1, NoLineInside
<1> HIDE DEF z
<1>4. IsFiniteSet(LineEnds(t, c))
  BY <1>1, LineEndsFinite
<1>5. CASE t[c + 1] = Code.newline
  <2>1. LineEnds(t, z) = LineEnds(t, c) \cup {c + 1}
    <3>1. ASSUME NEW i
          PROVE  i \in LineEnds(t, z) <=> i \in LineEnds(t, c) \cup {c + 1}
      <4>1. i \in 1..z <=> i \in 1..c \/ i = c + 1 \/ i \in (c + 1) + 1..z
        BY <1>1, <1>2
      <4> QED BY <1>3, <1>5, <4>1 DEF LineEnds
    <3> QED BY <3>1
  <2>2. c + 1 \notin LineEnds(t, c)
    BY <1>1 DEF LineEnds
  <2> QED BY <1>4, <1>5, <2>1, <2>2, FS_AddElement DEF z
<1>6. CASE t[c + 1] # Code.newline
  <2>1. LineEnds(t, z) = LineEnds(t, c)
    <3>1. ASSUME NEW i
          PROVE  i \in LineEnds(t, z) <=> i \in LineEnds(t, c)
      <4>1. i \in 1..z <=> i \in 1..c \/ i = c + 1 \/ i \in (c + 1) + 1..z
        BY <1>1, <1>2
      <4> QED BY <1>3, <1>6, <4>1 DEF LineEnds
    <3> QED BY <3>1
  <2> QED BY <1>6, <2>1 DEF z
<1> QED BY <1>5, <1>6

LineInv == ReaderInv /\ LineNumberIsTold

LEMMA InitLine == ClientInit => LineInv
<1> SUFFICES ASSUME ClientInit PROVE LineNumberIsTold
  BY InitAtCharacter DEF LineInv
<1>1. LineEnds(Source, Cursor) = {}
  BY InitNoReader DEF LineEnds
<1> QED BY <1>1, InitNoReader, FS_EmptySet DEF LineNumberIsTold

\* A reader is opened in the first line.
LEMMA OpenTellsLine ==
  ASSUME NEW text \in Seq(Byte), Source' = text,
         Cursor' = Characters!Stop(text, 0), reader'.lineNr = 1
  PROVE  LineNumberIsTold'
<1> SUFFICES ASSUME LinesAreWhole(text)
             PROVE  reader'.lineNr = 1 + Cardinality(LineEnds(text, Cursor'))
  <2>1. LinesAreWhole(Source)' <=> LinesAreWhole(Source')
    BY DEF LinesAreWhole
  <2>2. LineEnds(Source, Cursor)' = LineEnds(Source', Cursor')
    BY DEF LineEnds
  <2> QED BY <2>1, <2>2 DEF LineNumberIsTold
<1>1. 0 \in 0..Len(text)
  BY LenProperties
<1>2. LineEnds(text, Cursor') = {}
  <2>1. \A i \in 0 + 1..Characters!Stop(text, 0): text[i] # Code.newline
    BY <1>1, NoLineInside
  <2> QED BY <2>1 DEF LineEnds
<1>3. Cardinality(LineEnds(text, Cursor')) = 0
  BY <1>2, FS_EmptySet
<1> QED BY <1>3

\* A move that counts the line it leaves, and only then.
LEMMA MoveTellsLine ==
  ASSUME LineInv, Source' = Source,
         Cursor' = IF Cursor < Len(Source)
                   THEN Characters!Stop(Source, Cursor + 1) ELSE Cursor,
         reader'.lineNr = IF reader.current = Code.newline
                          THEN reader.lineNr + 1 ELSE reader.lineNr
  PROVE  LineNumberIsTold'
<1> DEFINE t == Source
           c == Cursor
<1>1. t \in Seq(Byte) /\ Len(t) \in Nat /\ c \in Nat /\ c <= Len(t)
      /\ (Ended(reader.stream) <=> ~(c < Len(t)))
  <2>1. Coherent(reader.stream)
    BY DEF LineInv, ReaderInv, IsReader
  <2>2. c \in Nat /\ c <= Len(t) /\ (Ended(reader.stream) <=> ~(c < Len(t)))
    BY <2>1, CharacterOfText DEF Source, Cursor
  <2>3. t \in Seq(Byte) /\ Len(t) \in Nat
    BY <2>1, Fields DEF Source, Coherent
  <2> QED BY <2>2, <2>3
<1> SUFFICES ASSUME LinesAreWhole(t)
             PROVE  reader'.lineNr = 1 + Cardinality(LineEnds(t, Cursor'))
  <2>1. LinesAreWhole(Source)' <=> LinesAreWhole(Source')
    BY DEF LinesAreWhole
  <2>2. LineEnds(Source, Cursor)' = LineEnds(Source', Cursor')
    BY DEF LineEnds
  <2> QED BY <2>1, <2>2 DEF LineNumberIsTold
<1>2. reader.lineNr = 1 + Cardinality(LineEnds(t, c))
  BY DEF LineInv, LineNumberIsTold
<1>3. CASE ~(c < Len(t))
  <2>1. reader.current # Code.newline
    BY <1>1, <1>3, ToldAtTheEnd DEF LineInv, EOF, Replacement, Code
  <2> QED BY <1>2, <1>3, <2>1
<1>4. CASE c < Len(t)
  <2>1. PICK q \in 0..Len(t): /\ c = Characters!Stop(t, q)
                              /\ reader.current = Characters!CharacterAt(t, q)
    BY DEF LineInv, ReaderInv, AtCharacter
  <2>2. reader.current = Code.newline <=> t[c + 1] = Code.newline
    BY <1>1, <1>4, <2>1, LineUnderCursor
  <2>3. c \in 0..Len(t) - 1
    BY <1>1, <1>4
  <2>4. Cardinality(LineEnds(t, c)) \in Nat
    BY <1>1, LineEndsFinite
  <2>5. Cardinality(LineEnds(t, Cursor'))
          = IF t[c + 1] = Code.newline THEN Cardinality(LineEnds(t, c)) + 1
            ELSE Cardinality(LineEnds(t, c))
    BY <1>1, <1>4, <2>3, LineEndsOfMove
  <2> HIDE DEF t, c
  <2> QED BY <1>2, <2>2, <2>4, <2>5
<1> QED BY <1>3, <1>4

LEMMA StayTellsLine ==
  ASSUME LineInv, Source' = Source, Cursor' = Cursor,
         reader'.lineNr = reader.lineNr
  PROVE  LineNumberIsTold'
<1>1. LinesAreWhole(Source)' <=> LinesAreWhole(Source)
  BY DEF LinesAreWhole
<1>2. LineEnds(Source, Cursor)' = LineEnds(Source, Cursor)
  BY DEF LineEnds
<1> QED BY <1>1, <1>2 DEF LineInv, LineNumberIsTold

LEMMA StepLine ==
  ASSUME LineInv, [ClientNext]_clientVars
  PROVE  LineInv'
<1>1. ReaderInv
  BY DEF LineInv
<1>2. ReaderInv'
  BY <1>1, StepReader
<1>3. LineNumberIsTold'
  <2>1. CASE UNCHANGED clientVars
    BY <2>1, StayTellsLine DEF clientVars, Source, Cursor, Position,
                               PortionStart
  <2>2. CASE ClientNext
    <3>1. ASSUME NEW text \in Texts, NEW size \in PortionSizes,
                 InitReader(OpenStream(text, size))
          PROVE  LineNumberIsTold'
      BY <3>1, TextsAssumption, PortionSizesAssumption, OpensAtCharacter,
         OpenTellsLine
    <3>2. CASE AccessReader
      <4>1. ~reader.aborted
        BY <3>2 DEF AccessReader
      <4>2. CASE NextUTF32Character
        BY <1>1, <4>1, <4>2, NextMoves, MoveTellsLine
      <4>3. CASE ConsumeCurrentUTF32Character
        BY <1>1, <4>1, <4>3, ConsumeMovesOn, MoveTellsLine
      <4>4. ASSUME NEW offset \in {0, 1}, BookmarkReader(offset)
            PROVE  LineNumberIsTold'
        BY <1>1, <4>4, BookmarkMarks, StayTellsLine
      <4>5. CASE ExtractBookmarkedRegion
        BY <1>1, <4>5, ExtractTakes, StayTellsLine
      <4> QED BY <3>2, <4>2, <4>3, <4>4, <4>5 DEF AccessReader
    <3> QED BY <2>2, <3>1, <3>2 DEF ClientNext
  <2> QED BY <2>1, <2>2
<1> QED BY <1>2, <1>3 DEF LineInv

\* A UTF-8 stream reader always names the line that its cursor is in, for all
\* texts whose lines it can see and all portions, by whichever accessors a
\* parser moved there.
THEOREM ReaderTellsTheLine == ClientSpec => []LineNumberIsTold
<1>1. LineInv => LineNumberIsTold
  BY DEF LineInv
<1> QED BY InitLine, StepLine, <1>1, PTL DEF ClientSpec
=============================================================================
