------------------------ MODULE PropertyListParsing ------------------------
(***************************************************************************)
(* The recursive descent of the property list reader.  A function parses   *)
(* from a reader (UTF8StreamReader) and returns the property list, Nil on  *)
(* failure, with the reader as it leaves it.                               *)
(*                                                                         *)
(* A property list is a string or the text of a number, both bytes; a      *)
(* bool; data; null; an array; or a dictionary, a set of entries.          *)
(***************************************************************************)
EXTENDS UTF8Skipping, Bitwise

String(b) == [kind |-> "string", bytes |-> b]
Number(b) == [kind |-> "number", bytes |-> b]
Data(b) == [kind |-> "data", bytes |-> b]
Bool(flag) == [kind |-> "bool", flag |-> flag]
Null == [kind |-> "null"]
Array(items) == [kind |-> "array", items |-> items]
Entry(key, value) == [key |-> key, value |-> value]
Dictionary(entries) == [kind |-> "dictionary", entries |-> entries]

\* The flags the parse methods of NSPropertyListSerialization set.
LooseFormat ==
  [comments |-> TRUE, null |-> TRUE, pbx |-> FALSE, number |-> TRUE,
   bool |-> TRUE]
PBXFormat ==
  [comments |-> TRUE, null |-> FALSE, pbx |-> TRUE, number |-> TRUE,
   bool |-> FALSE]
OpenStepFormat ==
  [comments |-> FALSE, null |-> FALSE, pbx |-> FALSE, number |-> FALSE,
   bool |-> FALSE]

Parsed(plist, r) == [plist |-> plist, reader |-> r]
Fail(r) == Parsed(Nil, r)

\* A parse that an assertion or an exception ends.
Abort(r) == Fail([r EXCEPT !.aborted = TRUE])

PBXCharacter == {Code.underscore, Code.slash, Code.dot, Code.dollar}

\* All but what _MulleObjCPropertyListReaderIsUnquotedStringEndChar tells.
UnquotedCharacter(format) ==
  Alphanumeric \cup {Code.plus, Code.minus, Code.dot}
    \cup (IF format.null THEN {Code.underscore} ELSE {})
    \cup (IF format.pbx THEN PBXCharacter ELSE {})

\* _MulleObjCPropertyListReaderIsUnquotedStringStartChar; no parse method
\* sets decodesDate.
UnquotedStart(format) ==
  Alphanumeric
    \cup (IF format.null THEN {Code.underscore} ELSE {})
    \cup (IF format.pbx THEN PBXCharacter ELSE {})
    \cup (IF format.number THEN {Code.plus, Code.minus} ELSE {})

YES == <<Code.Y, Code.E, Code.S>>
NO == <<Code.N, Code.O>>
NullText ==
  LET line == Code.underscore
  IN  <<line, line, Code.N, Code.U, Code.L, Code.L, line, line>>

\* Where a run of digits that starts at i ends.
DigitsEnd(b, i) ==
  CHOOSE j \in i..Len(b) + 1:
    /\ \A k \in i..j - 1: b[k] \in Digit
    /\ j <= Len(b) => b[j] \notin Digit

\* _dude_looks_like_a_number: an integer of at most 19 digits without zeros
\* in front; or with digits behind a dot or an exponent, a double.  The
\* comma it allows for a dot never gets here.
LooksLikeANumber(b) ==
  LET At(i) == IF i <= Len(b) THEN b[i] ELSE EOF
      start == IF At(1) = Code.minus THEN 2 ELSE 1
      int   == IF At(start) = Code.zero THEN start + 1 ELSE DigitsEnd(b, start)
      dot   == At(int) = Code.dot
      frac  == IF dot THEN DigitsEnd(b, int + 1) ELSE int
      exp   == At(frac) \in {Code.e, Code.E}
      power == IF At(frac + 1) \in {Code.plus, Code.minus}
               THEN frac + 2 ELSE frac + 1
  IN  /\ int > start
      /\ IF exp
         THEN /\ power <= Len(b)
              /\ DigitsEnd(b, power) = Len(b) + 1
         ELSE /\ frac = Len(b) + 1
              /\ IF dot THEN frac > int + 1 ELSE int - start <= 19
      /\ Len(b) < 64
-----------------------------------------------------------------------------
\* What an unquoted region stands for; Nil is a failure.
Recognized(b, format) ==
  CASE format.number /\ LooksLikeANumber(b)  -> Number(b)
    [] format.bool /\ b \in {YES, NO}        -> Bool(b = YES)
    [] Len(b) = 8 /\ b[1] = Code.underscore  ->
         IF b = NullText THEN Null ELSE Nil
    [] OTHER                                 -> String(b)

\* _MulleObjCNewObjectParsedUnquotedFromPropertyListWithReader
UnquotedUpTo(r) ==
  Parsed(Recognized(BookmarkedRegion(r), r.format), Extracted(r))
Unquoted(r) ==
  UnquotedUpTo(SkipOver(Bookmark(r, 0), UnquotedCharacter(r.format)))

OctalDigits == 48..55
OctalValue(b) ==
  LET Value(i) == b[i] - Code.zero
  IN  CASE Len(b) = 1 -> Value(1)
        [] Len(b) = 2 -> (Value(1) * 8) | Value(2)
        [] Len(b) = 3 -> ((Value(1) * 64) | (Value(2) * 8) | Value(3)) % 256

Nybble(c) ==
  CASE c \in Digit   -> c - 48
    [] c \in 65..70  -> c - 55
    [] c \in 97..102 -> c - 87
    [] OTHER         -> EOF

\* The characters behind a backslash that stand for another.
Escaped ==
  [c \in {97, 98, 101, 102, 110, 114, 116, 118} |->
     CASE c = 97  -> 7    [] c = 98  -> 8    [] c = 101 -> 27
       [] c = 102 -> 12   [] c = 110 -> 10   [] c = 114 -> 13
       [] c = 116 -> 9    [] c = 118 -> 11]

\* The octal digits of an escape at i: up to three, but two only if the
\* string ends with them (else the second is read and dropped).  The second
\* and third may be any digit.
OctalRead(b, i) ==
  IF i < Len(b) /\ b[i + 1] \in Digit
  THEN IF i + 1 = Len(b) THEN [read |-> 2, value |-> OctalValue(SubSeq(b, i, i + 1))]
       ELSE IF b[i + 2] \in Digit
            THEN [read |-> 3, value |-> OctalValue(SubSeq(b, i, i + 2))]
            ELSE [read |-> 2, value |-> OctalValue(<<b[i]>>)]
  ELSE [read |-> 1, value |-> OctalValue(<<b[i]>>)]

\* MulleUTF8StringUnescape of the bytes from i on.
RECURSIVE UnescapedFrom(_, _)
UnescapedFrom(b, i) ==
  LET c == b[i + 1]
      octal == OctalRead(b, i + 1)
      byte == (Nybble(b[i + 2]) * 16) + Nybble(b[i + 3])
      question == <<Code.question>>
  IN  IF i > Len(b) THEN <<>>
      ELSE IF b[i] # Code.backslash THEN <<b[i]>> \o UnescapedFrom(b, i + 1)
      ELSE IF i = Len(b) THEN question
      ELSE CASE c \in OctalDigits ->
                  <<octal.value>> \o UnescapedFrom(b, i + 1 + octal.read)
             [] c = Code.x ->
                  IF i + 3 > Len(b) \/ EOF \in {Nybble(b[i + 2]), Nybble(b[i + 3])}
                  THEN question
                  ELSE <<byte>> \o UnescapedFrom(b, i + 4)
             [] c \in DOMAIN Escaped ->
                  <<Escaped[c]>> \o UnescapedFrom(b, i + 2)
             [] OTHER -> <<c>> \o UnescapedFrom(b, i + 2)

Unescape(b) == UnescapedFrom(b, 1)

\* A mistake for the runs to find: the end is not looked for behind a
\* character of the string.
RECURSIVE ClosingQuoteUnchecked(_)
ClosingQuoteUnchecked(r) ==
  LET escaped == IF r.current = Code.backslash THEN Next(r) ELSE r
  IN  IF r.current = Code.quote THEN Parsed(TRUE, r)
      ELSE IF escaped.current = EOF THEN Fail(Next(r))
      ELSE ClosingQuoteUnchecked(Next(escaped))

\* A mistake for the runs to find: the end of the file closes a string.
RECURSIVE ClosingQuoteOrEnd(_)
ClosingQuoteOrEnd(r) ==
  LET escaped == IF r.current = Code.backslash THEN Next(r) ELSE r
      next == Next(escaped)
  IN  IF r.current = Code.quote \/ next.current < 0 THEN Parsed(TRUE, r)
      ELSE ClosingQuoteOrEnd(next)

\* From the current character on to the closing quote.  A failure is an end
\* inside of the string, or of its last escape.
RECURSIVE ClosingQuote(_)
BehindCharacter(r) == IF r.current < 0 THEN Fail(r) ELSE ClosingQuote(r)
BehindBackslash(r) ==
  IF r.current = EOF THEN Fail(r) ELSE BehindCharacter(Next(r))

ClosingQuote(r) ==
  CASE r.current = Code.quote     -> Parsed(TRUE, r)
    [] r.current = Code.backslash -> BehindBackslash(Next(r))
    [] OTHER                      -> BehindCharacter(Next(r))

\* A mistake for the runs to find: the escapes are left as they are.
QuotedVerbatimUpTo(closing) ==
  IF closing.plist = Nil THEN closing
  ELSE Parsed(String(BookmarkedRegion(closing.reader)),
              Consume(Extracted(closing.reader)))

\* _MulleObjCNewStringParsedQuotedFromPropertyListWithReader; a string with
\* no escapes is its own unescaped form.
QuotedUpTo(closing) ==
  IF closing.plist = Nil THEN closing
  ELSE Parsed(String(Unescape(BookmarkedRegion(closing.reader))),
              Consume(Extracted(closing.reader)))
Quoted(r) == QuotedUpTo(ClosingQuote(Next(Bookmark(r, 1))))

\* _MulleObjCNewStringFromPropertyListWithReader
StringOrKey(r) ==
  IF r.current = Code.quote THEN Quoted(r) ELSE Unquoted(r)
-----------------------------------------------------------------------------
\* The pairs of hex digits between spaces; what is no digit counts 0 and is
\* complained about.  Behind a last lone digit the code reads the byte after
\* the region, the '>' if the portion has it; no text here has a lone digit.
RECURSIVE HexBytes(_)
HexBytes(b) ==
  LET Value(i) == IF i > Len(b) \/ Nybble(b[i]) = EOF THEN 0 ELSE Nybble(b[i])
  IN  IF b = <<>> THEN <<>>
      ELSE IF b[1] = Code.space THEN HexBytes(Tail(b))
      ELSE <<(Value(1) * 16) + Value(2)>> \o HexBytes(SubSeq(b, 3, Len(b)))

\* _MulleObjCNewDataFromPropertyListWithReader
DataUpTo(r) ==
  IF r.current # Code.greater THEN Fail(Extracted(r))
  ELSE Parsed(Data(HexBytes(BookmarkedRegion(r))), Consume(Extracted(r)))
DataFrom(first) ==
  CASE first.x = Code.greater -> Parsed(Data(<<>>), Consume(first.reader))
    [] first.x = Code.at \/ first.x < 0 -> Fail(first.reader)
    [] OTHER -> DataUpTo(SkipUntil(Bookmark(first.reader, 0), Code.greater))
ParseData(r) == DataFrom(SkipWhiteAndComments(Consume(r)))

RECURSIVE Parse(_), Elements(_, _), Entries(_, _)

BehindElement(r, items) ==
  CASE r.current = Code.comma -> Elements(Consume(r), items)
    [] r.current = Code.close -> Parsed(Array(items), Consume(r))
    [] OTHER -> Fail(r)

WithElement(element, items) ==
  IF element.plist # Null \/ element.reader.format.null
  THEN Append(items, element.plist) ELSE items

AfterElement(element, items) ==
  IF element.plist = Nil THEN element
  ELSE BehindElement(SkipWhiteAndComments(element.reader).reader,
                     WithElement(element, items))

\* The elements of an array from the reader on, behind the given ones.  An
\* element is nsNull if the array is closed behind a comma, too.
Elements(r, items) == AfterElement(Parse(r), items)

\* _MulleObjCNewArrayFromPropertyListWithReader
ArrayFrom(first) ==
  IF first.x = Code.close THEN Parsed(Array(<<>>), Consume(first.reader))
  ELSE Elements(first.reader, <<>>)
ParseArray(r) == ArrayFrom(SkipWhiteAndComments(Consume(r)))

\* Behind the ';' of an entry.
BehindEntry(next, entries) ==
  LET r == next.reader
  IN  CASE next.x = Code.closeBrace ->
             IF r.isStringsPlist THEN Fail(r)
             ELSE Parsed(Dictionary(entries), Consume(r))
        [] next.x < 0 ->
             IF r.isStringsPlist THEN Parsed(Dictionary(entries), r)
             ELSE Fail(r)
        [] OTHER -> Entries(r, entries)

BehindValue(r, entries) ==
  CASE r.current = Code.semicolon ->
         BehindEntry(SkipWhiteAndComments(Consume(r)), entries)
    [] r.current = Code.closeBrace /\ ~r.isStringsPlist ->
         Parsed(Dictionary(entries), Consume(r))
    [] OTHER -> Fail(r)

\* The dictionary asserts that the key is new.
AfterValue(value, key, entries) ==
  CASE value.plist = Nil -> value
    [] value.plist # Nil /\ \E e \in entries: e.key = key -> Abort(value.reader)
    [] OTHER -> BehindValue(SkipWhiteAndComments(value.reader).reader,
                            entries \cup {Entry(key, value.plist)})

\* The reader is at the '=' of the key.  No comments may follow it.
AfterKey(r, key, entries) ==
  AfterValue(Parse(SkipWhite(Consume(r))), key, entries)

BehindKey(r, key, entries) ==
  IF r.current = Code.equals THEN AfterKey(r, key, entries) ELSE Fail(r)

\* A dictionary ends at a key that is null.
AfterKeyText(key, entries) ==
  CASE key.plist = Nil  -> key
    [] key.plist = Null -> Parsed(Dictionary(entries), key.reader)
    [] OTHER -> BehindKey(SkipWhiteAndComments(key.reader).reader, key.plist,
                          entries)

\* The entries from a key on, behind the given ones.
Entries(r, entries) == AfterKeyText(StringOrKey(r), entries)

\* _MulleObjCNewDictionaryFromPropertyListWithReader without a key; in a
\* strings file a dictionary that is a value begins with its key.
DictionaryFrom(first) ==
  CASE first.x = Code.closeBrace ->
         Parsed(Dictionary({}), Consume(first.reader))
    [] first.x = Code.open -> Fail(first.reader)
    [] OTHER -> Entries(first.reader, {})
ParseDictionary(r) ==
  IF r.isStringsPlist THEN Entries(r, {})
  ELSE DictionaryFrom(SkipWhiteAndComments(Consume(r)))

\* A '/' that SkipWhiteAndComments has read over in front of a word; it can
\* only be prepended to a string.
WithSlash(word) ==
  CASE word.plist = Nil -> word
    [] word.plist # Nil /\ word.plist.kind = "string" ->
         Parsed(String(<<Code.slash>> \o word.plist.bytes), word.reader)
    [] OTHER -> Abort(word.reader)

\* An unquoted string or number.
Word(x, r) == IF x = r.current THEN Unquoted(r) ELSE WithSlash(Unquoted(r))

\* Behind the first leaf of all: a '=' makes it the key of a strings file.
BehindLeaf(plist, behind) ==
  CASE behind.x # Code.equals -> Parsed(plist, behind.reader)
    [] behind.x = Code.equals /\ plist \in {Nil, Null} -> Abort(behind.reader)
    [] OTHER -> AfterKey([behind.reader EXCEPT !.isStringsPlist = TRUE],
                         plist, {})
AfterLeaf(leaf) == BehindLeaf(leaf.plist, SkipWhiteAndComments(leaf.reader))

ParseFrom(x, r, isLeaf) ==
  CASE x = EOF                -> Fail(r)
    [] x = Code.openBrace     -> ParseDictionary(r)
    [] x = Code.open          -> ParseArray(r)
    [] x = Code.less          -> ParseData(r)
    [] x \in {Code.closeBrace, Code.close} -> Parsed(Null, r)
    [] x = Code.quote         -> IF isLeaf THEN Quoted(r)
                                 ELSE AfterLeaf(Quoted(r))
    [] OTHER -> IF x \in UnquotedStart(r.format) THEN AfterLeaf(Word(x, r))
                ELSE Fail(r)

\* _MulleObjCNewFromPropertyListWithStreamReader
ParseFirst(first, isLeaf) == ParseFrom(first.x, first.reader, isLeaf)
Parse(r) ==
  ParseFirst(SkipWhiteAndComments([r EXCEPT !.isLeaf = TRUE]), r.isLeaf)
=============================================================================
