-------------------------- MODULE BufferedWriting --------------------------
(***************************************************************************)
(* MulleObjCBufferedOutputStream: bytes are collected in a buffer of       *)
(* "size" bytes and handed to the stream behind it, whose contents are the *)
(* "sink", when the buffer is full, flushed or finalized.                  *)
(***************************************************************************)
EXTENDS Bytes, Sequences

CONSTANTS Pieces,      \* what a client writes in one call
          BufferSizes  \* the lengths -initWithOutputStream:bufferSize: allows

ASSUME PiecesAssumption == Pieces \subseteq Seq(Byte)
ASSUME BufferSizesAssumption == BufferSizes \subseteq Nat \ {0}

VARIABLES out,     \* the ivars, and the sink of _stream
          written  \* everything the client wrote, a history variable

writingVars == <<out, written>>

\* "buffer" is what lies between _start and _current, "size" the distance
\* of _sentinel; -finalize gives _stream up.
OutputStream ==
  [sink: Seq(Byte), buffer: Seq(Byte), size: Nat \ {0}, final: BOOLEAN]

OpenOutput(size) ==
  [sink |-> <<>>, buffer |-> <<>>, size |-> size, final |-> FALSE]

Flushed(o) == [o EXCEPT !.sink = @ \o o.buffer, !.buffer = <<>>]

\* A mistake for the runs to find: what does not fit overtakes the buffer.
WrittenPast(o, bytes) ==
  IF Len(bytes) > o.size - Len(o.buffer) THEN [o EXCEPT !.sink = @ \o bytes]
  ELSE [o EXCEPT !.buffer = @ \o bytes]

\* mulleWriteBytes:length: fills the buffer up; what does not fit is copied
\* to the flushed buffer, or is written past it when it is larger.
Written(o, bytes) ==
  LET room == o.size - Len(o.buffer)
      fit  == IF Len(bytes) < room THEN Len(bytes) ELSE room
      full == [o EXCEPT !.buffer = @ \o SubSeq(bytes, 1, fit)]
      rest == SubSeq(bytes, fit + 1, Len(bytes))
  IN  IF rest = <<>> THEN full
      ELSE IF Len(rest) > o.size
           THEN [Flushed(full) EXCEPT !.sink = @ \o rest]
           ELSE [Flushed(full) EXCEPT !.buffer = rest]

\* MulleObjCBufferedOutputStreamNextCharacter
WithCharacter(o, c) ==
  LET extended == IF Len(o.buffer) = o.size THEN Flushed(o) ELSE o
  IN  [extended EXCEPT !.buffer = Append(@, c)]

WritingInit ==
  /\ out \in {OpenOutput(size) : size \in BufferSizes}
  /\ written = <<>>

WriteBytes(bytes) ==
  /\ ~out.final   \* NSCParameterAssert( _stream)
  /\ out' = Written(out, bytes)
  /\ written' = written \o bytes

PutCharacter(c) ==
  /\ ~out.final
  /\ out' = WithCharacter(out, c)
  /\ written' = Append(written, c)

Flush ==
  /\ ~out.final
  /\ out' = Flushed(out)
  /\ UNCHANGED written

Finalize ==
  /\ ~out.final
  /\ out' = [Flushed(out) EXCEPT !.final = TRUE]
  /\ UNCHANGED written

WritingNext ==
  \/ \E bytes \in Pieces: WriteBytes(bytes)
  \/ \E c \in Byte: PutCharacter(c)
  \/ Flush
  \/ Finalize

WritingSpec == WritingInit /\ [][WritingNext]_writingVars
-----------------------------------------------------------------------------
\* Nothing is lost, repeated or swapped between the client and the stream
\* behind the buffer: the sink followed by the buffer is what was written,
\* and all of it is in the sink once the stream is final.  The bytes in the
\* buffer are never more than it holds.
NothingLost ==
  /\ out \in OutputStream
  /\ written \in Seq(Byte)
  /\ written = out.sink \o out.buffer
  /\ Len(out.buffer) <= out.size
  /\ out.final => out.buffer = <<>>
=============================================================================
