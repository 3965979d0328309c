------------------------ MODULE PropertyListSession ------------------------
(***************************************************************************)
(* A property list is printed piece by piece through a buffered output     *)
(* stream.  The printing program may end before the stream is finalized,   *)
(* and of what was handed to the sink any part may be lost from the end.   *)
(* What is left is opened in portions of some size, and it is walked byte  *)
(* by byte, or character by character, or it is parsed in some format.     *)
(***************************************************************************)
EXTENDS BufferedReading, BufferedWriting, UTF8Reading, PropertyListPrinting

CONSTANTS Values,     \* the property lists that are printed
          Styles,     \* of printing
          Formats,    \* to parse in
          MaxWalked,  \* texts up to this length are walked byte by byte
          MaxRead     \* and up to this one character by character

VARIABLES phase,      \* "idle", "printing", "stored", "open", "reading", "parsed"
          value,      \* what is printed, Nil for a text from elsewhere
          style,
          pending,    \* the pieces still to be written
          file,       \* what the sink has kept
          parse       \* what the parser returned, and its reader

sessionVars == <<phase, value, style, pending, file, parse>>
vars == <<readingVars, clientVars, writingVars, sessionVars>>

NoStyle == Nil
SomeSize == CHOOSE size \in PortionSizes: TRUE

Init ==
  /\ stream = OpenStream(<<>>, SomeSize)
  /\ answer = Silent
  /\ reader = ReaderOf(stream)
  /\ region = <<>>
  /\ out = OpenOutput(CHOOSE size \in BufferSizes: TRUE)
  /\ written = <<>>
  /\ phase = "idle"
  /\ value = Nil
  /\ style = NoStyle
  /\ pending = <<>>
  /\ file = <<>>
  /\ parse = Nil

\* mullePrintPlistToStream:, mullePrintLoosePlistToStream: onto a new stream.
PrintPlist(v, st, size) ==
  /\ phase = "idle"
  /\ phase' = "printing"
  /\ value' = v
  /\ style' = st
  /\ pending' = Writes(v, st)
  /\ out' = OpenOutput(size)
  /\ written' = <<>>
  /\ UNCHANGED <<clientVars, readingVars, file, parse>>

WritePiece ==
  /\ phase = "printing"
  /\ pending # <<>>
  /\ WriteBytes(Head(pending))
  /\ pending' = Tail(pending)
  /\ UNCHANGED <<clientVars, readingVars, phase, value, style, file, parse>>

FlushPieces ==
  /\ phase = "printing"
  /\ Flush
  /\ UNCHANGED <<clientVars, readingVars, sessionVars>>

FinishPrinting ==
  /\ phase = "printing"
  /\ pending = <<>>
  /\ Finalize
  /\ phase' = "stored"
  /\ file' = out'.sink
  /\ UNCHANGED <<clientVars, readingVars, value, style, pending, parse>>

\* The program ends, and the first n bytes of the sink are kept.
Lose(n) ==
  /\ phase = "printing"
  /\ n <= Len(out.sink)
  /\ phase' = "stored"
  /\ file' = SubSeq(out.sink, 1, n)
  /\ pending' = <<>>
  /\ out' = OpenOutput(out.size)
  /\ written' = <<>>
  /\ UNCHANGED <<clientVars, readingVars, value, style, parse>>

\* A text that was not printed here.
Find(text) ==
  /\ phase = "idle"
  /\ phase' = "stored"
  /\ file' = text
  /\ UNCHANGED <<clientVars, readingVars, writingVars, value, style, pending, parse>>

\* An empty file is refused, mullePropertyListFromData:... returns nil.
OpenFile(size) ==
  /\ phase = "stored"
  /\ file # <<>>
  /\ phase' = "open"
  /\ InitWithData(file, size)
  /\ UNCHANGED <<clientVars, writingVars, value, style, pending, file, parse>>

Walk ==
  /\ phase = "open"
  /\ Len(file) <= MaxWalked
  /\ Access
  /\ UNCHANGED <<clientVars, writingVars, sessionVars>>

\* A program that copies what it reads, a character at a time.
Echo ==
  /\ phase = "open"
  /\ Len(file) <= MaxWalked
  /\ answer.letter # EOF
  /\ Len(written) < Len(file)
  /\ PutCharacter(answer.letter)
  /\ UNCHANGED <<clientVars, readingVars, sessionVars>>

Untouched == Position(stream) = 0 /\ Mark(stream) = NoBookmark

ReadFile ==
  /\ phase = "open" /\ Untouched
  /\ Len(file) <= MaxRead
  /\ phase' = "reading"
  /\ InitReader(stream)
  /\ UNCHANGED <<readingVars, writingVars, value, style, pending, file, parse>>

WalkCharacters ==
  /\ phase = "reading"
  /\ AccessReader
  /\ UNCHANGED <<readingVars, writingVars, sessionVars>>

ParseFile(format) ==
  /\ phase = "open" /\ Untouched
  /\ phase' = "parsed"
  /\ parse' = Parse(OpenReader(stream, format))
  /\ UNCHANGED <<clientVars, readingVars, writingVars, value, style, pending, file>>

Forget ==
  /\ phase \in {"stored", "reading", "parsed"}
  /\ stream' = OpenStream(<<>>, SomeSize)
  /\ answer' = Silent
  /\ InitReader(stream')
  /\ out' = OpenOutput(CHOOSE size \in BufferSizes: TRUE)
  /\ written' = <<>>
  /\ phase' = "idle"
  /\ value' = Nil
  /\ style' = NoStyle
  /\ pending' = <<>>
  /\ file' = <<>>
  /\ parse' = Nil

SessionNext ==
  \/ \E v \in Values, st \in Styles, size \in BufferSizes:
       PrintPlist(v, st, size)
  \/ WritePiece
  \/ FlushPieces
  \/ FinishPrinting
  \/ \E n \in 0..Len(out.sink): Lose(n)
  \/ \E text \in Texts: Find(text)
  \/ \E size \in PortionSizes: OpenFile(size)
  \/ Walk
  \/ Echo
  \/ ReadFile
  \/ WalkCharacters
  \/ \E format \in Formats: ParseFile(format)
  \/ Forget

Spec == Init /\ [][SessionNext]_vars
-----------------------------------------------------------------------------
Printed == value # Nil
Whole == Printed /\ file = Text(value, style)
Torn == Printed /\ file # Text(value, style)
Result == parse.plist
SameOutcome(one, other) ==
  /\ one.plist = other.plist
  /\ one.reader.lineNr = other.reader.lineNr
  /\ one.reader.aborted = other.reader.aborted

\* What was printed in whole is read back as what the two formats have in
\* common says, whatever the sizes of the buffers in between were; and
\* nothing of it is left over.  A string that looks like a number or a bool
\* is not written in quotes, though NSNumber+NSString.m:180 has it so, and
\* nothing is said of a property list with one that the format mistakes.
RoundTrip ==
  phase = "parsed" /\ Whole /\ Mistaken(value, parse.reader.format) = {} =>
    /\ Result = Reread(value, style, parse.reader.format)
    /\ ~parse.reader.aborted
    /\ Result # Nil => Ended(parse.reader.stream)

\* A file that lost its end is refused if it began with a bracket or a
\* quote, never taken for a smaller property list.
TornIsRefused ==
  phase = "parsed" /\ Torn
    /\ file[1] \in {Code.quote, Code.open, Code.openBrace, Code.less}
    => Result = Nil

\* How the text was cut into portions does not show in what is parsed, in
\* the line that an error names, or in whether the parser gets there.
PortionsDoNotShow ==
  phase = "parsed" =>
    SameOutcome(parse, Parse(OpenReader(OpenStream(file, Len(file)),
                                        parse.reader.format)))

\* The assertion against reading past the end fails for a file that lost
\* its end only if what is left ends with a quote, as behind one that opens
\* a string, or in a character of several bytes, as in the middle of one.
AbortsAtAnOpenQuote ==
  phase = "parsed" /\ Torn /\ parse.reader.aborted =>
    file[Len(file)] = Code.quote \/ file[Len(file)] >= 128
=============================================================================
