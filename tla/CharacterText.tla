---------------------------- MODULE CharacterText ----------------------------
(***************************************************************************)
(* What a UTF-8 stream reader promises, without portions and without a     *)
(* loop: the characters of a text one after the other, the number of the   *)
(* line, and a mark from which the bytes read since can be had.            *)
(***************************************************************************)
EXTENDS Bytes, Sequences, FiniteSets

CONSTANTS EndOfText,   \* the character behind the last byte
          Broken,      \* the character for what is none
          Unmarked     \* the mark when there is none

VARIABLES text, pos, current, lineNr, mark, region, aborted

vars == <<text, pos, current, lineNr, mark, region, aborted>>

\* How many bytes a character has that begins with x, and the bits of it
\* that x is taken to carry.
Announced(x) ==
  CASE x \in 194..223 -> 2
    [] x \in 224..239 -> 3
    [] x \in 240..244 -> 4
    [] OTHER          -> 1

LeadBits(x) ==
  CASE x \in 128..193 -> Broken
    [] x \in 194..223 -> (x % 32) - (x % 2)
    [] x \in 224..239 -> x % 16
    [] x \in 240..244 -> x % 4
    [] OTHER          -> x

\* Of the character of t that begins at p: whether its k bytes behind the
\* first continue it; how many do; and whether that is all of them.
Continues(t, p, k) ==
  p + k < Len(t) /\ \A l \in 1..k: t[p + l + 1] \in 128..191
Following(t, p) ==
  CHOOSE k \in 0..Announced(t[p + 1]) - 1:
    /\ Continues(t, p, k)
    /\ k < Announced(t[p + 1]) - 1 => ~Continues(t, p, k + 1)
IsWhole(t, p) == Following(t, p) = Announced(t[p + 1]) - 1

\* The cursor is left at its last byte, or at the first that it lacks.
Stop(t, p) ==
  CASE p >= Len(t)                   -> p
    [] p < Len(t) /\ IsWhole(t, p)   -> p + Following(t, p)
    [] OTHER                         -> p + Following(t, p) + 1

Bits(t, p, k) ==
  LET More(value, l) == (value * 64) + (t[p + l + 1] % 64)
      one   == More(LeadBits(t[p + 1]), 1)
      two   == More(one, 2)
      three == More(two, 3)
  IN  CASE k = 0 -> LeadBits(t[p + 1])
        [] k = 1 -> one
        [] k = 2 -> two
        [] k = 3 -> three

CharacterAt(t, p) ==
  CASE p >= Len(t) -> EndOfText
    [] p < Len(t) /\ ~IsWhole(t, p) /\ Stop(t, p) = Len(t) -> Broken
    [] OTHER -> Bits(t, p, Following(t, p))

Init ==
  /\ text = <<>>
  /\ pos = 0
  /\ current = EndOfText
  /\ lineNr = 1
  /\ mark = Unmarked
  /\ region = <<>>
  /\ aborted = FALSE

Open ==
  /\ text' \in Seq(Byte)
  /\ pos' = Stop(text', 0)
  /\ current' = CharacterAt(text', 0)
  /\ lineNr' = 1
  /\ mark' = Unmarked
  /\ region' = <<>>
  /\ aborted' = FALSE

\* To the next character; who is at the end of the text aborts.
Move ==
  /\ IF pos < Len(text)
     THEN /\ pos' = Stop(text, pos + 1)
          /\ current' = CharacterAt(text, pos + 1)
          /\ UNCHANGED aborted
     ELSE /\ current' = EndOfText
          /\ aborted' = TRUE
          /\ UNCHANGED pos
  /\ region' = <<>>
  /\ UNCHANGED <<text, mark>>

\* Next counts the line it leaves, and Consume does not leave one.
Next ==
  /\ Move
  /\ lineNr' = IF current = Code.newline THEN lineNr + 1 ELSE lineNr

Consume ==
  /\ current # Code.newline
  /\ Move
  /\ UNCHANGED lineNr

SetMark(offset) ==
  /\ mark' = pos + offset
  /\ region' = <<>>
  /\ UNCHANGED <<text, pos, current, lineNr, aborted>>

TakeMarked ==
  /\ region' = IF mark = Unmarked THEN <<>> ELSE SubSeq(text, mark + 1, pos)
  /\ mark' = Unmarked
  /\ UNCHANGED <<text, pos, current, lineNr, aborted>>

Access ==
  /\ ~aborted
  /\ \/ Next
     \/ Consume
     \/ \E offset \in {0, 1}: SetMark(offset)
     \/ TakeMarked

AnyStep == Open \/ Access

Spec == Init /\ [][AnyStep]_vars
=============================================================================
