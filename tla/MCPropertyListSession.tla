----------------------- MODULE MCPropertyListSession -----------------------
EXTENDS PropertyListSession, SequencesExt

\* Strings: bare, quoted, escaped, empty, and such as look like something
\* else; "b" and a character of three bytes; a quote and the control U+0085.
MCValues ==
  {String(<<Code.a>>), String(<<>>), String(<<Code.a, Code.quote, Code.newline>>),
   String(<<Code.b, 226, 130, 172>>), String(<<Code.quote, 194, 133>>),
   String(<<Code.one>>), String(YES), String(NullText),
   Number(<<Code.minus, Code.one>>), Null,
   Data(<<1, 171, 3, 4, 5>>),
   Array(<<>>),
   Array(<<String(<<Code.backslash>>), Null, Bool(TRUE)>>),
   Array(<<Array(<<String(<<Code.a>>)>>), Data(<<>>)>>),
   Dictionary({}),
   Dictionary({Entry(String(<<Code.b>>), Number(<<Code.one>>)), Entry(String(<<Code.a>>), Null)}),
   Dictionary({Entry(String(<<Code.slash>>),
                     Dictionary({Entry(String(<<Code.a>>), Array(<<Bool(FALSE)>>))}))})}

\* A line's end, a quote, leads of two, three and four bytes, and two bytes
\* that continue: also such as make up ASCII characters of several bytes.
MCLetters == {Code.newline, Code.quote, 195, 224, 244, 128, 138}

\* All texts of up to four of these, UTF-8 or not, and some property lists.
MCTexts ==
  BoundedSeq(MCLetters, 4) \cup
  {<<Code.a>>, <<Code.a, Code.newline, Code.b>>,
   \* a /* * */ = (b,) ; // a
   <<Code.a, Code.slash, Code.star, Code.space, Code.star, Code.star, Code.slash,
     Code.equals, Code.open, Code.b, Code.comma, Code.newline, Code.close,
     Code.semicolon, Code.slash, Code.slash, Code.a>>,
   \* {a="\101";b={};}
   <<Code.openBrace, Code.a, Code.equals, Code.quote, Code.backslash, Code.one,
     Code.zero, Code.one, Code.quote, Code.semicolon, Code.newline, Code.b,
     Code.equals, Code.openBrace, Code.closeBrace, Code.semicolon,
     Code.closeBrace>>,
   \* "a" = b; "b" = /a;
   <<Code.quote, Code.a, Code.quote, Code.equals, Code.b, Code.semicolon, Code.newline,
     Code.quote, Code.b, Code.quote, Code.equals, Code.slash, Code.a, Code.semicolon>>}

MCStyles == {OpenStepStyle, LooseStyle}
MCFormats == {OpenStepFormat, PBXFormat, LooseFormat}
MCPieces == {}
=============================================================================
