------------------------ MODULE PropertyListPrinting ------------------------
(***************************************************************************)
(* What mullePrintPlist: writes of a property list: the sequence of pieces *)
(* it hands to the output stream, one for each write.                      *)
(***************************************************************************)
EXTENDS PropertyListParsing
LOCAL INSTANCE SequencesExt

\* struct MulleObjCPrintPlistContext, as far as a caller sets it.
OpenStepStyle == [allowsNull |-> FALSE, printsBool |-> FALSE]
LooseStyle == [allowsNull |-> TRUE, printsBool |-> TRUE]

\* The characters with an escape of their own, \a to \r, \e, ? \ and ".
EscapeLetter ==
  [c \in (7..13) \cup {27, Code.question, Code.backslash, Code.quote} |->
     IF c \in DOMAIN Escaped \/ c > 27 THEN c
     ELSE CHOOSE letter \in DOMAIN Escaped: Escaped[letter] = c]

\* A byte of a control character: one below 32, 127, or one of the two of a
\* character from U+0080 to U+009F.
IsControl(b, i) ==
  \/ b[i] < 32 \/ b[i] = 127
  \/ b[i] = 194 /\ i < Len(b) /\ b[i + 1] < 160
  \/ b[i] \in 128..159 /\ i > 1 /\ b[i - 1] = 194

\* MulleUTF8StringEscape: each byte of a control character without a letter
\* becomes three octal digits, other characters stay as they are.
EscapedByte(b, i) ==
  CASE b[i] \in DOMAIN EscapeLetter -> <<Code.backslash, EscapeLetter[b[i]]>>
    [] b[i] \notin DOMAIN EscapeLetter /\ IsControl(b, i) ->
         <<Code.backslash, Code.zero + (b[i] \div 64),
           Code.zero + ((b[i] \div 8) % 8), Code.zero + (b[i] % 8)>>
    [] OTHER -> <<b[i]>>

Escape(b) == FlattenSeq([i \in DOMAIN b |-> EscapedByte(b, i)])

InQuotes(b) == <<Code.quote>> \o b \o <<Code.quote>>

\* mulleNeedsQuotes, mulleQuotedDescriptionIfNeeded: whether a string looks
\* like a number or a bool does not matter, MULLE_PLIST_DECODE_NSNUMBER is
\* not defined.
NeedsEscapes(b) == \E i \in DOMAIN b: b[i] \in DOMAIN EscapeLetter
NeedsQuotes(b) == b = <<>> \/ \E i \in DOMAIN b: b[i] \notin Alphanumeric

QuotedIfNeeded(b) ==
  CASE NeedsEscapes(b) -> InQuotes(Escape(b))
    [] ~NeedsEscapes(b) /\ NeedsQuotes(b) -> InQuotes(b)
    [] OTHER -> b

HexDigit(n) == IF n < 10 THEN Code.zero + n ELSE 87 + n

\* Bytes as hex digits, a space behind each fourth but the last.
DataText(b) ==
  LET Hex(i) == <<HexDigit(b[i] \div 16), HexDigit(b[i] % 16)>>
                  \o IF i % 4 = 0 /\ i # Len(b) THEN <<Code.space>> ELSE <<>>
  IN  <<Code.less>> \o FlattenSeq([i \in DOMAIN b |-> Hex(i)])
        \o <<Code.greater>>

BoolText(flag, style) ==
  CASE style.printsBool /\ flag  -> YES
    [] style.printsBool /\ ~flag -> NO
    [] OTHER -> <<IF flag THEN Code.one ELSE Code.zero>>

\* mulleCompareDescription: of two keys that are strings.
Precedes(a, b) ==
  LET differ == {i \in DOMAIN a.bytes \cap DOMAIN b.bytes:
                   a.bytes[i] # b.bytes[i]}
      i == CHOOSE i \in differ: \A j \in differ: i <= j
  IN  IF differ = {} THEN Len(a.bytes) < Len(b.bytes)
      ELSE a.bytes[i] < b.bytes[i]

SortedEntries(d) ==
  SetToSortSeq(d.entries, LAMBDA a, b: Precedes(a.key, b.key))

RECURSIVE WritesAt(_, _, _)

\* -[NSArray mullePrintPlist:]
PrintArray(items, style, indent) ==
  LET separator == <<Code.comma, Code.space>>
      Item(i) == WritesAt(items[i], style, indent)
                   \o IF i < Len(items) THEN <<separator>> ELSE <<>>
  IN  IF items = <<>> THEN <<<<Code.open, Code.close>>>>
      ELSE <<<<Code.open, Code.space>>>>
             \o FlattenSeq([i \in DOMAIN items |-> Item(i)])
             \o <<<<Code.space, Code.close>>>>

\* -[NSDictionary mullePrintPlist:].  The last entry is told by counting
\* down from the number of all, also of those that are not printed.
PrintDictionary(d, style, indent) ==
  LET Indentation(n) == [i \in 1..n |-> Code.tab]
      all == SortedEntries(d)
      printed == SelectSeq(all, LAMBDA e: style.allowsNull \/ e.value # Null)
      PrintEntry(i) ==
        <<Indentation(indent + 1)>>
          \o WritesAt(printed[i].key, style, indent + 1)
          \o <<<<Code.space, Code.equals, Code.space>>>>
          \o WritesAt(printed[i].value, style, indent + 1)
          \o <<IF i = Len(all) THEN <<Code.newline>>
               ELSE <<Code.semicolon, Code.newline>>>>
  IN  IF all = <<>> THEN <<<<Code.openBrace, Code.closeBrace>>>>
      ELSE <<<<Code.openBrace, Code.newline>>>>
             \o FlattenSeq([i \in DOMAIN printed |-> PrintEntry(i)])
             \o <<Indentation(indent), <<Code.closeBrace>>>>

WritesAt(v, style, indent) ==
  CASE v.kind = "string"     -> <<QuotedIfNeeded(v.bytes)>>
    [] v.kind = "number"     -> <<v.bytes>>
    [] v.kind = "bool"       -> <<BoolText(v.flag, style)>>
    [] v.kind = "null"       -> <<NullText>>
    [] v.kind = "data"       -> <<DataText(v.bytes)>>
    [] v.kind = "array"      -> PrintArray(v.items, style, indent)
    [] v.kind = "dictionary" -> PrintDictionary(v, style, indent)

Writes(v, style) == WritesAt(v, style, 0)
Text(v, style) == FlattenSeq(Writes(v, style))
-----------------------------------------------------------------------------
(***************************************************************************)
(* What becomes of a property list that is printed in a style and read in  *)
(* a format, without looking at any text: a string stays a string.         *)
(***************************************************************************)

\* What a word without quotes is taken for.
AsItLooks(b, format) ==
  CASE format.number /\ LooksLikeANumber(b) -> Number(b)
    [] format.bool /\ b \in {YES, NO}       -> Bool(b = YES)
    [] OTHER                                -> String(b)

\* All strings of a property list, the keys among them.
RECURSIVE StringsOf(_)
StringsOf(v) ==
  CASE v.kind = "string"     -> {v.bytes}
    [] v.kind = "array"      -> UNION {StringsOf(v.items[i]): i \in DOMAIN v.items}
    [] v.kind = "dictionary" ->
         UNION {StringsOf(e.key) \cup StringsOf(e.value): e \in v.entries}
    [] OTHER                 -> {}

\* The strings that are written without quotes and taken for something else.
Mistaken(v, format) ==
  {b \in StringsOf(v): ~NeedsQuotes(b) /\ AsItLooks(b, format) # String(b)}

RECURSIVE Reread(_, _, _)
Reread(v, style, format) ==
  LET Again(w) == Reread(w, style, format)
      kept == SelectSeq(v.items, LAMBDA w: format.null \/ w # Null)
      printed == {e \in v.entries: style.allowsNull \/ e.value # Null}
  IN  CASE v.kind \in {"string", "data"} -> v
        [] v.kind = "number" ->
             IF format.number THEN v
             ELSE IF v.bytes[1] \in Digit THEN String(v.bytes) ELSE Nil
        [] v.kind = "bool" -> AsItLooks(BoolText(v.flag, style), format)
        [] v.kind = "null" -> IF format.null \/ format.pbx THEN v ELSE Nil
        [] v.kind = "array" ->
             IF \E i \in DOMAIN v.items: Again(v.items[i]) = Nil THEN Nil
             ELSE Array([i \in DOMAIN kept |-> Again(kept[i])])
        [] v.kind = "dictionary" ->
             IF \E e \in printed: Again(e.value) = Nil THEN Nil
             ELSE Dictionary({Entry(Again(e.key), Again(e.value)): e \in printed})
=============================================================================
