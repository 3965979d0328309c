------------------------------- MODULE Bytes -------------------------------
(***************************************************************************)
(* The bytes that streams carry, and the ASCII codes the property list     *)
(* code compares them with.                                                *)
(***************************************************************************)
EXTENDS Integers

Byte == 0..255

Code ==
  [tab |-> 9, newline |-> 10, space |-> 32, quote |-> 34, dollar |-> 36,
   open |-> 40, close |-> 41, star |-> 42, plus |-> 43, comma |-> 44,
   minus |-> 45, dot |-> 46, slash |-> 47, zero |-> 48, one |-> 49,
   semicolon |-> 59, less |-> 60, equals |-> 61, greater |-> 62,
   question |-> 63, at |-> 64, E |-> 69, L |-> 76,
   N |-> 78, O |-> 79, S |-> 83, U |-> 85, Y |-> 89, backslash |-> 92,
   underscore |-> 95, a |-> 97, b |-> 98, e |-> 101, x |-> 120, openBrace |-> 123, closeBrace |-> 125]

Digit == 48..57
Letter == (65..90) \cup (97..122)
Alphanumeric == Digit \cup Letter
Space == (9..13) \cup {32}
=============================================================================
