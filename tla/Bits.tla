-------------------------------- MODULE Bits --------------------------------
(***************************************************************************)
(* The bitwise operators of words of up to 32 bits, four bits at a time    *)
(* from a table, with no recursion.                                        *)
(***************************************************************************)
EXTENDS Integers

HexDigit(x, i) == (x \div 16^i) % 16

\* The table of an operator on bits, which are 0 or 1, for every two digits.
DigitTable(op(_, _)) ==
  [x \in 0 .. 15 |-> [y \in 0 .. 15 |->
     LET bit(i) == op((x \div 2^i) % 2, (y \div 2^i) % 2)
     IN bit(0) + 2 * bit(1) + 4 * bit(2) + 8 * bit(3)]]

ByDigits(table, x, y) ==
  LET digit(i) == table[HexDigit(x, i)][HexDigit(y, i)]
  IN digit(0) + 16 * (digit(1) + 16 * (digit(2) + 16 * (digit(3)
       + 16 * (digit(4) + 16 * (digit(5) + 16 * (digit(6) + 16 * digit(7)))))))

AndTable == DigitTable(LAMBDA a, b : a * b)
OrTable == DigitTable(LAMBDA a, b : a + b - a * b)
XorTable == DigitTable(LAMBDA a, b : (a + b) % 2)

x & y == ByDigits(AndTable, x, y)
x | y == ByDigits(OrTable, x, y)
x ^^ y == ByDigits(XorTable, x, y)
=============================================================================
