--------------------------- MODULE MCHostArithmetic ---------------------------
(***************************************************************************)
(* Model-checking harness for the pure host-address computations: the     *)
(* utils.h helpers (Utils) and the texture mirror set-up (GuestMirror).    *)
(* Each behaviour is one call on an input from a bounded set, and the      *)
(* invariants compare what the call returned with a reference definition  *)
(* written without the code's bit tricks.  The inputs contain the          *)
(* characters on both sides of every digit range, every value of an 8-bit *)
(* type, and every sequence of up to three host spans in the carveout.     *)
(***************************************************************************)
EXTENDS GuestMirror

CONSTANTS
    Chars,       \* character codes tried in strings of up to MaxLen characters
    MaxLen,
    PairChars,   \* a smaller alphabet for the 2-byte HexStringToArray
    AlignBits,   \* width of the type the alignment helpers are tried on
    Multiples,   \* multiples tried (powers of two and others)
    MaxMappings  \* most host mappings a texture's guest memory is split into

Strings == SeqOf(Chars, MaxLen)

\* The types HexStringToInt is tried with: a u8 and a u16, both promoted to
\* int, and a 16-bit stand-in for the u64 InitializeVmm parses with.
IntTypes == {[bits |-> 8, promoted |-> TRUE], [bits |-> 16, promoted |-> TRUE],
             [bits |-> 16, promoted |-> FALSE]}

\* Every non-empty host span inside the carveout.
CarveoutSpans == {r \in {Span(d, n) : d \in BaseData .. BaseData + BaseSize - 1, n \in 1 .. BaseSize} :
                    End(r) <= BaseData + BaseSize}

VARIABLES call, out

vars == <<call, out>>

NoCall == [op |-> "none", type |-> [bits |-> 0, promoted |-> TRUE], str |-> << >>, mappings |-> << >>,
           size |-> 0, value |-> 0, multiple |-> 0]
Call(op) == [NoCall EXCEPT !.op = op]

Init == call = NoCall /\ out = 0

CallHexStringToInt(t, s) ==
  /\ call' = [Call("HexStringToInt") EXCEPT !.type = t, !.str = s]
  /\ out' \in HexStringToInt(t, s)

CallHexStringToArray(s, size) ==
  /\ call' = [Call("HexStringToArray") EXCEPT !.str = s, !.size = size]
  /\ out' = HexStringToArray(s, size)

CallSetupGuestMappings(ms) ==
  /\ call' = [Call("SetupGuestMappings") EXCEPT !.mappings = ms]
  /\ out' = SetupGuestMappings(ms)

CallAlign(op, v, m) ==
  /\ call' = [Call(op) EXCEPT !.value = v, !.multiple = m]
  /\ out' = CASE op = "AlignUp"   -> AlignUp(v, m, AlignBits)
              [] op = "AlignDown" -> AlignDown(v, m, AlignBits)
              [] op = "IsAligned" -> IsAligned(v, m)

(* Each behaviour is one call: the helpers keep no state, so what one call *)
(* returns does not depend on the calls before it.                         *)
Next ==
  /\ call = NoCall
  /\ \/ \E t \in IntTypes, s \in Strings : CallHexStringToInt(t, s)
     \/ \E s \in Strings \cup SeqOf(PairChars, 4), size \in {1, 2} : CallHexStringToArray(s, size)
     \/ \E op \in {"AlignUp", "AlignDown", "IsAligned"}, v \in 0 .. 2^AlignBits - 1, m \in Multiples :
          CallAlign(op, v, m)
     \/ \E ms \in SeqOf(CarveoutSpans, MaxMappings) \ {<< >>} : CallSetupGuestMappings(ms)

Spec == Init /\ [][Next]_vars

-----------------------------------------------------------------------------
(* Reference definitions.                                                  *)

DigitValue == [c \in 48 .. 57 |-> c - 48] @@ [c \in 97 .. 102 |-> c - 87]
              @@ [c \in 65 .. 70 |-> c - 55]
IsDigit(c) == c \in DOMAIN DigitValue

\* The number the leading hexadecimal digits of s spell.
LeadingHexValue(s) ==
  LET n == SelectInSeq(s, LAMBDA c : ~IsDigit(c))
      digits == IF n = 0 THEN s ELSE SubSeq(s, 1, n - 1)
  IN  FoldLeft(LAMBDA acc, c : acc * 16 + DigitValue[c], 0, digits)

(* HexStringToInt<Type> returns the number spelled by the hexadecimal     *)
(* digits before the first other character, and throws only when the       *)
(* string is longer than two characters per byte of Type.  InitializeVmm   *)
(* relies on both: its 16-character views of /proc/self/maps run into the  *)
(* next field, and the pass after the last newline, which reads 0, must    *)
(* not throw or return garbage although the final shift is by 64 bits.     *)
HexStringToIntMatches ==
  call.op = "HexStringToInt" =>
    out = IF Len(call.str) > call.type.bits \div 4 THEN Throw
          ELSE LeadingHexValue(call.str)

(* HexStringToArray<Size> returns the bytes the digit pairs spell, in      *)
(* order, and throws when the length is not 2 * Size or a character is not *)
(* a digit.                                                                *)
HexStringToArrayMatches ==
  call.op = "HexStringToArray" =>
    out = IF Len(call.str) # 2 * call.size \/ \E i \in 1 .. Len(call.str) : ~IsDigit(call.str[i])
          THEN Throw
          ELSE [i \in 1 .. call.size |-> LeadingHexValue(SubSeq(call.str, 2 * i - 1, 2 * i))]

(* The mask arithmetic of AlignUp, AlignDown and IsAligned agrees with     *)
(* rounding: for a power-of-two multiple AlignUp is the least multiple at  *)
(* or above the value (wrapping to 0 at the top of the type) and AlignDown *)
(* the greatest at or below it; IsAligned is divisibility for any          *)
(* multiple, taking the remainder path for one that is not a power of two. *)
AlignmentMatches ==
  LET v == call.value
      m == call.multiple
      pow2 == \E k \in 0 .. SizeTBits - 1 : m = 2^k
  IN  /\ call.op = "AlignUp" /\ pow2 => out = ((v + m - 1) \div m) * m % 2^AlignBits
      /\ call.op = "AlignDown" /\ pow2 => out = (v \div m) * m
      /\ call.op = "IsAligned" => out = (v % m = 0)

\* The carveout offsets of the guest bytes behind the mappings, in order.
GuestOffsets(ms) == FoldLeft(LAMBDA o, m : o \o [k \in 1 .. m.size |-> m.data + k - 1 - BaseData],
                             << >>, ms)

\* Adjacent mappings meet on page boundaries: the front one ends on one,
\* the back one starts on one, and the middle ones are whole pages.
JointsOnPages(ms) ==
  \A i \in 1 .. Len(ms) :
     /\ i > 1 => (ms[i].data - BaseData) % PageSize = 0
     /\ i < Len(ms) => (End(ms[i]) - BaseData) % PageSize = 0

(* The mirror SetupGuestMappings hands a texture maps, byte for byte and   *)
(* in order, the memfd pages behind the texture's guest mappings, however  *)
(* the first one is aligned and the last one sized; and it throws (through *)
(* CreateMirror or CreateMirrors) exactly when two adjacent mappings do    *)
(* not meet on a page boundary.                                            *)
MirrorAliasesGuest ==
  call.op = "SetupGuestMappings" =>
    out = IF JointsOnPages(call.mappings) THEN GuestOffsets(call.mappings) ELSE Throw
=============================================================================
