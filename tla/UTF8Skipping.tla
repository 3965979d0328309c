---------------------------- MODULE UTF8Skipping ----------------------------
(***************************************************************************)
(* The loops of MulleObjCUTF8StreamReader that skip characters, white      *)
(* space and comments, for _MulleObjCPropertyListReader, its subclass:     *)
(* "format" holds the decodes... flags of that.                            *)
(***************************************************************************)
EXTENDS UTF8StreamReader
LOCAL INSTANCE TLC

RECURSIVE SkipOver(_, _)
SkipOver(r, characters) ==
  IF r.current \in characters THEN SkipOver(Next(r), characters) ELSE r

SkipWhite(r) == SkipOver(r, Space)

RECURSIVE SkipUntil(_, _)
SkipUntil(r, c) ==
  IF r.current > 0 /\ r.current # c THEN SkipUntil(Next(r), c) ELSE r

\* The rest of a comment, from its first star on.
RECURSIVE SkipComment(_)
SkipCommentBehindStar(r) ==
  CASE r.current = Code.slash -> Next(r)
    [] r.current = EOF        -> r
    [] OTHER                  -> SkipComment(r)

SkipComment(r) == SkipCommentBehindStar(Next(SkipUntil(r, Code.star)))

\* The answer and where the reader is then: for a '/' that begins no comment
\* the answer is that, and the reader is behind it.
RECURSIVE SkipWhiteAndComments(_)
SkipBehindSlash(r) ==
  CASE r.current = Code.slash ->
         SkipWhiteAndComments(SkipUntil(r, Code.newline))
    [] r.current = Code.star -> SkipWhiteAndComments(SkipComment(r))
    [] OTHER -> [x |-> Code.slash, reader |-> r]

SkipComments(r) ==
  IF r.format.comments /\ r.current = Code.slash THEN SkipBehindSlash(Next(r))
  ELSE [x |-> r.current, reader |-> r]

SkipWhiteAndComments(r) == SkipComments(SkipWhite(r))

\* -initWithBufferedInputStream: of the subclass, which skips white space
\* before the format is set.
OpenReader(s, format) ==
  SkipWhite(ReaderOf(s) @@ [format |-> format, isLeaf |-> FALSE,
                            isStringsPlist |-> FALSE])
=============================================================================
