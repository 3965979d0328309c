---------------------------- MODULE MCUTF8Reading ----------------------------
EXTENDS UTF8Reading, SequencesExt

\* Texts of up to three characters of one to four bytes each, all UTF-8.
MCCharacters ==
  {<<Code.a>>, <<Code.quote>>, <<195, 169>>, <<226, 130, 172>>,
   <<240, 159, 152, 128>>, <<244, 128, 128, 162>>}
MCEncoded == {FlattenSeq(characters) : characters \in BoundedSeq(MCCharacters, 3)}
=============================================================================
