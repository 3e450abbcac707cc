------------------------------- MODULE CInts -------------------------------
(***************************************************************************)
(* The C++ integer conversions the controller relies on.  A 16-bit word is *)
(* described by HALF, half the number of its values (32768 in the build),  *)
(* so that a model may use a narrower word and still meet every wrap.      *)
(***************************************************************************)
EXTENDS Integers

CONSTANT HALF

ASSUME HalfAssumption == HALF \in Nat \ {0}

WORD == 2 * HALF

\* The values of an int16_t and of a uint16_t.
INT16  == -HALF .. (HALF - 1)
UINT16 == 0 .. (WORD - 1)

\* static_cast<uint16_t>(x): the value modulo the word.
UInt16(x) == x % WORD

\* static_cast<int16_t>(x): the representative in -HALF .. HALF-1.
Int16(x) == ((x + HALF) % WORD) - HALF

\* x / d for a positive divisor: C++ rounds towards zero, \div rounds down.
CDiv(x, d) == IF x >= 0 THEN x \div d ELSE -((-x) \div d)
=============================================================================
