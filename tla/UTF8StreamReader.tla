-------------------------- MODULE UTF8StreamReader --------------------------
(***************************************************************************)
(* MulleObjCUTF8StreamReader: it composes the characters of a buffered     *)
(* input stream, keeps the current one and counts lines.  As data only,    *)
(* like the stream below it.                                               *)
(*                                                                         *)
(* The stream asserts that nobody reads past its end.  A reader that did   *)
(* is "aborted": it stays where it is, at the end.                         *)
(***************************************************************************)
EXTENDS BufferedInputStream

\* The answer for what is no UTF-8.
Replacement == 65533

\* The bytes that continue a character.
Continuation == 128..191

\* A character under way: how far the stream is, the bits so far, and how
\* many bytes are missing.
UnderWay(s, value, missing) ==
  [stream |-> s, current |-> value, missing |-> missing]

\* The byte c that the stream s has reached, or its end.  What does not
\* continue the character ends it and stays under the cursor; the end of the
\* stream makes it a Replacement.
Taken(u, s, c) ==
  CASE c = EOF -> UnderWay(s, Replacement, 0)
    [] c # EOF /\ c \notin Continuation -> UnderWay(s, u.current, 0)
    [] OTHER -> UnderWay(s, (u.current * 64) + (c % 64), u.missing - 1)

\* A mistake for the runs to find: a character ends with its portion.
ContinuedInPortion(u) ==
  LET s == Advance(u.stream)
      isNew == s.handedOut # u.stream.handedOut
  IN  IF u.missing = 0 THEN u
      ELSE Taken(u, s, IF isNew THEN EOF ELSE CurrentCharacter(s))

TakenAt(u, s) == Taken(u, s, CurrentCharacter(s))
Continued(u) == IF u.missing = 0 THEN u ELSE TakenAt(u, Advance(u.stream))

\* A mistake for the runs to find: one byte more is read.
ContinueTooFar(u) ==
  Continued(Continued(Continued([u EXCEPT !.missing = @ + 1])))

\* A character has at most three bytes behind the first.
Continue(u) == Continued(Continued(Continued(u)))

\* __MulleObjCUTF8StreamReaderComposeUTF32Character.  The masks are the
\* code's: 0x1E leaves the last bit of a two byte lead out, 0x3 the third
\* bit of a four byte lead.
Compose(s, x) ==
  Continue(
    CASE x < 194             -> UnderWay(s, Replacement, 0)
      [] x >= 194 /\ x < 224 -> UnderWay(s, (x % 32) - (x % 2), 1)
      [] x >= 224 /\ x < 240 -> UnderWay(s, x % 16, 2)
      [] x >= 240 /\ x < 245 -> UnderWay(s, x % 4, 3)
      [] OTHER               -> UnderWay(s, x, 0))

\* What both ways to move share: the current character is the one under the
\* cursor of s.
Composed(s, c) ==
  IF c >= 128 THEN Compose(s, c) ELSE [stream |-> s, current |-> c]
With(r, composed) ==
  [r EXCEPT !.stream = composed.stream, !.current = composed.current]
Load(r, s) == With(r, Composed(s, CurrentCharacter(s)))

Consume(r) ==
  IF Ended(r.stream) THEN [r EXCEPT !.aborted = TRUE, !.current = EOF]
  ELSE Load(r, Advance(r.stream))

\* A mistake for the runs to find: the line that is entered is counted.
NextLine(r) ==
  LET moved == Consume(r)
  IN  IF moved.current = Code.newline THEN [moved EXCEPT !.lineNr = @ + 1]
      ELSE moved

\* MulleObjCUTF8StreamReaderNextUTF32Character counts the line it leaves;
\* consuming does not, no caller of it is at the end of a line.
Next(r) ==
  Consume([r EXCEPT !.lineNr =
             IF r.current = Code.newline /\ ~r.aborted THEN @ + 1 ELSE @])

Bookmark(r, offset) ==
  [r EXCEPT !.stream = WithBookmark(@, offset)]

BookmarkedRegion(r) == Region(r.stream)
Extracted(r) == [r EXCEPT !.stream = WithoutBookmark(@)]

\* -initWithBufferedInputStream:
ReaderOf(s) ==
  Load([stream |-> s, current |-> EOF, lineNr |-> 1, aborted |-> FALSE], s)
=============================================================================
