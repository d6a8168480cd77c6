-------------------------------- MODULE Utils --------------------------------
(***************************************************************************)
(* The integer helpers of skyline::util (common/utils.h) as operators over *)
(* unsigned integers.  A character is its ASCII code, a string_view a      *)
(* sequence of codes.  An integral type is a record: its width in bits and *)
(* whether the usual arithmetic conversions promote it to int, which       *)
(* decides whether shifting it by its full width is defined.  size_t is    *)
(* SizeTBits wide.  TLC's integers are 32-bit, so widths are scaled down:  *)
(* a u64 is represented by a narrower type that is not promoted.           *)
(***************************************************************************)
EXTENDS Integers, Sequences, Bitwise

CONSTANTS
    SizeTBits,   \* width of size_t
    Throw        \* what a helper returns when it throws skyline::exception

ASSUME SizeTBits \in Nat \ {0}

NoDigit == -1         \* a character outside the three digit ranges

\* ~x in a w-bit unsigned type.
Complement(x, w) == 2^w - 1 - x

(* util::AlignUp: multiple--, then (value + multiple) & ~multiple in       *)
(* size_t, cast back to the value's w-bit type.                            *)
AlignUp(value, multiple, w) ==
  LET m == (multiple - 1) % 2^SizeTBits
  IN  (((value + m) % 2^SizeTBits) & Complement(m, SizeTBits)) % 2^w

\* A plausible slip: masking with ~multiple instead of ~(multiple - 1).
AlignDownNoDecrement(value, multiple, w) ==
  (value & Complement(multiple % 2^SizeTBits, SizeTBits)) % 2^w

\* util::AlignDown: value & ~(multiple - 1), cast back to w bits.
AlignDown(value, multiple, w) ==
  (value & Complement((multiple - 1) % 2^SizeTBits, SizeTBits)) % 2^w

(* util::IsAligned: a mask test when multiple is a power of two (multiple  *)
(* & (multiple - 1) is 0), the remainder otherwise.                        *)
IsAligned(value, multiple) ==
  LET m == (multiple - 1) % 2^SizeTBits
  IN  IF (multiple & m) = 0 THEN (value & m) = 0 ELSE value % multiple = 0

(* The three digit ranges, tested in the order of HexDigitToNibble and of  *)
(* the loop of HexStringToInt: '0'-'9', 'a'-'f', 'A'-'F'.                  *)
Nibble(c) ==
  CASE c >= 48 /\ c <= 57  -> c - 48
    [] c >= 97 /\ c <= 102 -> c - 97 + 10
    [] c >= 65 /\ c <= 70  -> c - 65 + 10
    [] OTHER               -> NoDigit

\* util::HexDigitToNibble: throws on any other character.
HexDigitToNibble(c) == IF Nibble(c) = NoDigit THEN Throw ELSE Nibble(c)

\* A plausible slip: the byte index i instead of i * 2.
HexStringToArrayIndexOff(s, size) ==
  IF Len(s) # size * 2 THEN Throw
  ELSE LET pair == [i \in 0 .. size - 1 |->
                      <<HexDigitToNibble(s[i + 1]), HexDigitToNibble(s[i + 2])>>]
       IN  IF \E i \in 0 .. size - 1 : Throw \in {pair[i][1], pair[i][2]} THEN Throw
           ELSE [i \in 1 .. size |-> (pair[i - 1][1] * 16) | pair[i - 1][2]]

(* util::HexStringToArray<Size>: the string must have exactly 2 * Size     *)
(* characters; byte i is (nibble of char 2i) << 4 | nibble of char 2i+1.   *)
HexStringToArray(s, size) ==
  IF Len(s) # size * 2 THEN Throw
  ELSE LET pair == [i \in 0 .. size - 1 |->
                      <<HexDigitToNibble(s[2 * i + 1]), HexDigitToNibble(s[2 * i + 2])>>]
       IN  IF \E i \in 0 .. size - 1 : Throw \in {pair[i][1], pair[i][2]} THEN Throw
           ELSE [i \in 1 .. size |-> (pair[i - 1][1] * 16) | pair[i - 1][2]]

(* A plausible slip: `continue` where the code breaks, so the digits after *)
(* a non-digit are still read.                                             *)
RECURSIVE HexLoopNoBreak(_, _, _, _)
HexLoopNoBreak(s, index, offset, result) ==
  IF index > Len(s) THEN <<result, offset>>
  ELSE IF Nibble(s[index]) = NoDigit
       THEN HexLoopNoBreak(s, index + 1, offset, result)
       ELSE HexLoopNoBreak(s, index + 1, (offset - 4) % 2^SizeTBits,
                           result | (Nibble(s[index]) * 2^offset))

(* The for loop of HexStringToInt: each digit is ORed in at `offset`, which *)
(* moves 4 bits down (size_t, so it wraps after the last nibble); a        *)
(* non-digit breaks out without moving it.  Returns <<result, offset>>.    *)
RECURSIVE HexLoop(_, _, _, _)
HexLoop(s, index, offset, result) ==
  IF index > Len(s) \/ Nibble(s[index]) = NoDigit THEN <<result, offset>>
  ELSE HexLoop(s, index + 1, (offset - 4) % 2^SizeTBits,
               result | (Nibble(s[index]) * 2^offset))

(* util::HexStringToInt<Type>: the set of values a build can return.  The  *)
(* digits land in the top of the word and `result >> (offset + 4)` moves   *)
(* them down.  With no digit the shift is by the full width: defined for a *)
(* promoted type, undefined for a u32 or u64, where AArch64's LSR takes    *)
(* the amount modulo the width and a compiler may fold it to 0.            *)
HexStringToInt(t, s) ==
  IF Len(s) > (t.bits \div 8) * 2 THEN {Throw}
  ELSE LET r == HexLoop(s, 1, t.bits - 4, 0)
           k == (r[2] + 4) % 2^SizeTBits
       IN  IF k >= t.bits /\ ~t.promoted
           THEN {r[1] \div 2^(k % t.bits), 0}
           ELSE {r[1] \div 2^k}
=============================================================================
