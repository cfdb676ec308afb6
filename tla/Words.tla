------------------------------- MODULE Words -------------------------------
(***************************************************************************)
(* The registers of an atomic link engine and the operations on them: NReg  *)
(* registers of W bits (32 of 64 bits in atomic_link_op.h), unsigned        *)
(* arithmetic modulo 2^W, and the opcodes.                                  *)
(***************************************************************************)
EXTENDS Naturals

CONSTANTS W, NReg

ASSUME SizesAssumption == W \in Nat \ {0} /\ NReg \in Nat \ {0}

\* What ^ means.  Nothing is assumed here that is not true of it; the provers
\* have no rule for it.
ASSUME PowersAssumption == \A n \in 0 .. (W - 1) : 2^(n + 1) = 2 * 2^n

Word == 0 .. (2^W - 1)
RegNo == 0 .. (NReg - 1)

Plus(a, b) == (a + b) % 2^W
Minus(a, b) == (a + 2^W - b) % 2^W

BitAt(w, i) == (w \div 2^i) % 2
ByBits(F(_, _), a, b) ==
  CHOOSE w \in Word : \A i \in 0 .. (W - 1) : BitAt(w, i) = F(BitAt(a, i), BitAt(b, i))
And(a, b) == LET F(x, y) == x * y IN ByBits(F, a, b)
Or(a, b) == LET F(x, y) == IF x + y = 0 THEN 0 ELSE 1 IN ByBits(F, a, b)
Xor(a, b) == LET F(x, y) == (x + y) % 2 IN ByBits(F, a, b)

(* An opcode: its name and its low bits, which are a condition code or a    *)
(* bit number.  "BAD" stands for the codes with no operation.               *)
NoFieldOp == {"ADD", "SUBS", "SUBD", "AND", "OR", "INC", "DEC",
              "INCS", "INCD", "DECS", "DECD"}
CondOp == {"RD", "WR", "SWAP"}
BitOp == {"BSET", "BRESET", "BTESTSET", "BTESTRESET"}

Op(names, args) == [name : names, arg : args]
NOP == [name |-> "NOP", arg |-> 0]

\* 0 to 5 are ALO_COND_ALLWAYS .. ALO_COND_GE; 6 is a code with no condition.
Opcode == Op(NoFieldOp \cup {"NOP", "BAD"}, {0})
            \cup Op(CondOp, 0 .. 6) \cup Op(BitOp, 0 .. (W - 1))

\* Does destination value d meet condition code c against source value s?
Condition(c, d, s) ==
  CASE c = 0 -> TRUE
    [] c = 1 -> d = s
    [] c = 2 -> d < s
    [] c = 3 -> d <= s
    [] c = 4 -> d > s
    [] c = 5 -> d >= s
    [] OTHER -> FALSE
=============================================================================
