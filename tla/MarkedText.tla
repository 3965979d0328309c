----------------------------- MODULE MarkedText -----------------------------
(***************************************************************************)
(* What a buffered input stream promises, without buffers: a text that is  *)
(* read byte by byte, and a mark from which the bytes read since can be    *)
(* had.                                                                    *)
(***************************************************************************)
EXTENDS Integers, Sequences

CONSTANTS Letters,     \* what texts are made of
          EndOfText,   \* the answer behind the last letter
          Unmarked     \* the mark when there is none

VARIABLES text, pos, mark, answer

vars == <<text, pos, mark, answer>>

LetterAt(p) == IF p < Len(text) THEN text[p + 1] ELSE EndOfText

Silent == [letter |-> EndOfText, letters |-> <<>>]

Init ==
  /\ text = <<>>
  /\ pos = 0
  /\ mark = Unmarked
  /\ answer = Silent

Open ==
  /\ text' \in Seq(Letters)
  /\ pos' = 0
  /\ mark' = Unmarked
  /\ answer' = Silent

\* The cursor moves by one letter; the answer is the letter it arrives at.
Next ==
  /\ pos < Len(text)
  /\ pos' = pos + 1
  /\ answer' = [Silent EXCEPT !.letter = LetterAt(pos + 1)]
  /\ UNCHANGED <<text, mark>>

\* The answer is the letter the cursor leaves; nothing moves at the end.
Consume ==
  /\ pos' = IF pos < Len(text) THEN pos + 1 ELSE pos
  /\ answer' = [Silent EXCEPT !.letter = LetterAt(pos)]
  /\ UNCHANGED <<text, mark>>

SetMark(offset) ==
  /\ mark' = pos + offset
  /\ answer' = Silent
  /\ UNCHANGED <<text, pos>>

DropMark ==
  /\ mark' = Unmarked
  /\ answer' = Silent
  /\ UNCHANGED <<text, pos>>

\* The letters from the mark to the cursor; the mark is used up.
TakeMarked ==
  /\ answer' = [Silent EXCEPT !.letters = IF mark = Unmarked THEN <<>>
                                          ELSE SubSeq(text, mark + 1, pos)]
  /\ mark' = Unmarked
  /\ UNCHANGED <<text, pos>>

AnyStep ==
  \/ Open
  \/ Next
  \/ Consume
  \/ \E offset \in {0, 1}: SetMark(offset)
  \/ DropMark
  \/ TakeMarked

Spec == Init /\ [][AnyStep]_vars
=============================================================================
